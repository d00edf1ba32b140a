------------------------- MODULE LedgerStorageProofs -------------------------
(***************************************************************************)
(* Proofs about the ledger's storage, for any number of connections and    *)
(* records, any cache size and any number of outside changes.              *)
(***************************************************************************)
EXTENDS LedgerStorage, TLAPS

-----------------------------------------------------------------------------
(* The invariant.                                                           *)

(* What the versions promise of the rows, kept by every step.               *)
RowsAreSound(d) ==
  /\ d.version >= EventGuardVersion => \A r \in Records : ~d.rows[r].fingerprint
  /\ d.version >= AdmissionGuardVersion =>
       \A r \in Records : Payload(d.rows[r]) => d.rows[r].origin # "none"
  /\ d.version < AdmissionGuardVersion => \A r \in Records : d.rows[r].origin = "none"

(* Version 0 is a database no ledger has been set up in.                    *)
NewIsEmpty(d) ==
  d.version = 0 =>
    /\ d.tables = {} /\ ~d.altered /\ ~d.legacy
    /\ backend = "sqlite" => ~d.extra
    /\ \A r \in Records : d.rows[r] = NoRow

Sound(d) == RowsAreSound(d) /\ NewIsEmpty(d)

(* What one setup may change of a record: the label of a live one.          *)
Carried(old, new) ==
  \A r \in Records :
    /\ new.rows[r].state = old.rows[r].state
    /\ new.rows[r].audit = old.rows[r].audit
    /\ \/ new.rows[r].origin = old.rows[r].origin
       \/ /\ Payload(old.rows[r]) /\ old.rows[r].origin = "none"
          /\ new.rows[r].origin = "legacy_unknown"

(* What an open transaction has made is already what its commit promises.   *)
CommandResult(d) == Objects(d) = Objects(disk) /\ (backend = "sqlite" => Ready(disk))
SetupResult(d) == Ready(d) /\ Sidecars(d) /\ Carried(disk, d)

ResultIsSound(c) ==
  /\ work \in Database
  /\ Sound(work)
  /\ job[c].call \in Commands \cup {"setup"}
  /\ job[c].call \in Commands => CommandResult(work)
  /\ job[c].call = "setup" => SetupResult(work)

(* Whoever began a write owns the boundary, and what it has checked stays   *)
(* so until it ends.                                                        *)
BoundaryOf(c) ==
  /\ job[c].done # {} => lock = c
  /\ Took(c, "ready") => disk.version = MIGRATION_VERSION
  /\ Took(c, "ready") /\ backend = "sqlite" => Ready(disk)
  /\ Took(c, "apply") => ResultIsSound(c)

Boundary == \A c \in Conns : BoundaryOf(c)

(* A marker that may still be used stands for an audit that is there.       *)
CacheIsAudited ==
  \A c \in Conns : Caching /\ ~moved[c] => cached[c] \subseteq Audited(disk)

StorageInv == TypeOK /\ Sound(disk) /\ Boundary /\ CacheIsAudited

-----------------------------------------------------------------------------
(* The operations of a transaction, each on a well typed database.          *)

LEMMA RowChanges ==
  ASSUME NEW d \in Database, NEW r \in Records, NEW row \in Row
  PROVE  /\ Changed(d, r, row) \in Database
         /\ Objects(Changed(d, r, row)) = Objects(d)
         /\ Changed(d, r, row).version = d.version
         /\ Changed(d, r, row).rows[r] = row
         /\ \A q \in Records \ {r} : Changed(d, r, row).rows[q] = d.rows[q]
BY DEF Changed, Objects, Database

LEMMA WithRows ==
  ASSUME NEW d \in Database, NEW rows \in [Records -> Row]
  PROVE  /\ [d EXCEPT !.rows = rows] \in Database
         /\ [d EXCEPT !.rows = rows].rows = rows
         /\ Objects([d EXCEPT !.rows = rows]) = Objects(d)
BY DEF Database, Objects

(* The scrubbed and the labelled rows.                                      *)
LEMMA Scrubbed ==
  ASSUME NEW d \in Database
  PROVE  /\ RowsScrubbed(d) \in Database
         /\ Objects(RowsScrubbed(d)) = Objects(d)
         /\ \A r \in Records :
              RowsScrubbed(d).rows[r] = [d.rows[r] EXCEPT !.fingerprint = FALSE]
<1> DEFINE rows == [r \in Records |-> [d.rows[r] EXCEPT !.fingerprint = FALSE]]
<1>1. rows \in [Records -> Row]
  BY DEF Database, Row
<1>2. RowsScrubbed(d) = [d EXCEPT !.rows = rows]
  BY DEF RowsScrubbed
<1> HIDE DEF rows
<1>3. /\ RowsScrubbed(d) \in Database /\ RowsScrubbed(d).rows = rows
      /\ Objects(RowsScrubbed(d)) = Objects(d)
  BY <1>1, <1>2, WithRows
<1> QED
  BY <1>3 DEF rows

LEMMA Labelled ==
  ASSUME NEW d \in Database, d.version < 5
  PROVE  /\ BackfillOrigins(d) \in Database
         /\ Objects(BackfillOrigins(d)) = Objects(d)
         /\ \A r \in Records :
              BackfillOrigins(d).rows[r] =
                IF Payload(d.rows[r]) /\ d.rows[r].origin = "none"
                THEN [d.rows[r] EXCEPT !.origin = "legacy_unknown"] ELSE d.rows[r]
<1> DEFINE rows == [r \in Records |->
                      IF Payload(d.rows[r]) /\ d.rows[r].origin = "none"
                      THEN [d.rows[r] EXCEPT !.origin = "legacy_unknown"] ELSE d.rows[r]]
<1>1. rows \in [Records -> Row]
  BY DEF Database, Row
<1>2. BackfillOrigins(d) = [d EXCEPT !.rows = rows]
  BY DEF BackfillOrigins, Database
<1> HIDE DEF rows
<1>3. /\ BackfillOrigins(d) \in Database /\ BackfillOrigins(d).rows = rows
      /\ Objects(BackfillOrigins(d)) = Objects(d)
  BY <1>1, <1>2, WithRows
<1> QED
  BY <1>3 DEF rows

(* What a row of database d is after a migration.                           *)
MigratedRow(d, r) ==
  [state |-> d.rows[r].state, audit |-> d.rows[r].audit,
   fingerprint |-> d.rows[r].fingerprint /\ d.version >= EventGuardVersion,
   origin |-> IF d.version < AdmissionGuardVersion /\ Payload(d.rows[r])
                 /\ d.rows[r].origin = "none"
              THEN "legacy_unknown" ELSE d.rows[r].origin]

LEMMA ScrubbedWhenOld ==
  ASSUME NEW d \in Database
  PROVE  /\ ScrubFingerprints(d) \in Database
         /\ ScrubFingerprints(d).version = d.version
         /\ ScrubFingerprints(d).extra = d.extra
         /\ ScrubFingerprints(d).altered = d.altered
         /\ ScrubFingerprints(d).legacy = (d.legacy /\ d.version >= EventGuardVersion)
         /\ \A r \in Records :
              ScrubFingerprints(d).rows[r] =
                [d.rows[r] EXCEPT !.fingerprint = @ /\ d.version >= EventGuardVersion]
<1>1. d.version \in 0 .. 8 /\ d.legacy \in BOOLEAN /\ \A r \in Records : d.rows[r] \in Row
  BY DEF Database
<1>2. CASE d.version < EventGuardVersion
  <2> DEFINE e == DropEventGuards(d)
  <2>1. /\ e \in Database /\ e.version = d.version /\ e.extra = d.extra
        /\ e.altered = d.altered /\ e.legacy = FALSE /\ e.rows = d.rows
    BY DEF DropEventGuards, Database, Guards
  <2>2. ScrubFingerprints(d) = RowsScrubbed(e)
    BY <1>2 DEF ScrubFingerprints
  <2> HIDE DEF e
  <2>3. /\ RowsScrubbed(e) \in Database
        /\ \A r \in Records :
              RowsScrubbed(e).rows[r] = [e.rows[r] EXCEPT !.fingerprint = FALSE]
        /\ Objects(RowsScrubbed(e)) = Objects(e)
    BY <2>1, Scrubbed
  <2>4. /\ RowsScrubbed(e).version = e.version /\ RowsScrubbed(e).extra = e.extra
        /\ RowsScrubbed(e).altered = e.altered /\ RowsScrubbed(e).legacy = e.legacy
    BY <2>1 DEF RowsScrubbed, Database
  <2>5. ~(d.version >= EventGuardVersion)
    BY <1>1, <1>2 DEF EventGuardVersion
  <2>6. \A r \in Records :
           [e.rows[r] EXCEPT !.fingerprint = FALSE] =
             [d.rows[r] EXCEPT !.fingerprint = @ /\ d.version >= EventGuardVersion]
    BY <1>1, <2>1, <2>5 DEF Row
  <2> QED
    BY <2>1, <2>2, <2>3, <2>4, <2>5, <2>6
<1>3. CASE ~(d.version < EventGuardVersion)
  <2>1. ScrubFingerprints(d) = d
    BY <1>3 DEF ScrubFingerprints
  <2>2. d.version >= EventGuardVersion
    BY <1>1, <1>3 DEF EventGuardVersion
  <2>3. \A r \in Records :
          d.rows[r] = [d.rows[r] EXCEPT !.fingerprint = @ /\ d.version >= EventGuardVersion]
    BY <1>1, <2>2 DEF Row
  <2> QED
    BY <1>1, <2>1, <2>2, <2>3
<1> QED
  BY <1>2, <1>3

LEMMA LabelledWhenOld ==
  ASSUME NEW d \in Database
  PROVE  /\ BackfillOrigins(d) \in Database
         /\ Objects(BackfillOrigins(d)) = Objects(d)
         /\ \A r \in Records :
              BackfillOrigins(d).rows[r] =
                [d.rows[r] EXCEPT
                   !.origin = IF d.version < AdmissionGuardVersion /\ Payload(d.rows[r])
                                 /\ @ = "none"
                              THEN "legacy_unknown" ELSE @]
<1>1. d.version \in 0 .. 8 /\ \A r \in Records : d.rows[r] \in Row
  BY DEF Database
<1>2. CASE d.version < 5
  BY <1>1, <1>2, Labelled DEF Row, AdmissionGuardVersion
<1>3. CASE ~(d.version < 5)
  BY <1>1, <1>3 DEF BackfillOrigins, Row, AdmissionGuardVersion
<1> QED
  BY <1>2, <1>3

LEMMA Installs ==
  ASSUME NEW d \in Database, NEW e,
         e = [d EXCEPT !.tables = 1 .. 7, !.version = MIGRATION_VERSION]
  PROVE  /\ e \in Database /\ e.version = MIGRATION_VERSION /\ e.tables = 1 .. 7
         /\ e.extra = d.extra /\ e.altered = d.altered /\ e.legacy = d.legacy
         /\ e.event = d.event /\ e.sidecar = d.sidecar /\ e.rows = d.rows
<1>1. 1 .. 7 \in SUBSET (1 .. 7) /\ MIGRATION_VERSION \in 0 .. 8
  BY DEF MIGRATION_VERSION
<1> DEFINE T == 1 .. 7
<1>2. e = [d EXCEPT !.tables = T, !.version = MIGRATION_VERSION]
  OBVIOUS
<1>3. T \in SUBSET (1 .. 7) /\ T = 1 .. 7
  BY <1>1
<1> HIDE DEF T
<1>4. /\ e.version = MIGRATION_VERSION /\ e.tables = T
      /\ e.extra = d.extra /\ e.altered = d.altered /\ e.legacy = d.legacy
      /\ e.event = d.event /\ e.sidecar = d.sidecar /\ e.rows = d.rows
  BY <1>2 DEF Database
<1>5. e \in Database
  BY <1>1, <1>2, <1>3 DEF Database
<1> QED
  BY <1>3, <1>4, <1>5

LEMMA Migration ==
  ASSUME NEW d \in Database
  PROVE  /\ Migrate(d) \in Database
         /\ Migrate(d).version = MIGRATION_VERSION
         /\ Migrate(d).event = "exact" /\ Migrate(d).sidecar = "exact"
         /\ Migrate(d).extra = d.extra /\ Migrate(d).altered = d.altered
         /\ d.version = MIGRATION_VERSION =>
              Migrate(d).tables = d.tables /\ Migrate(d).legacy = d.legacy
         /\ d.version # MIGRATION_VERSION =>
              /\ Migrate(d).tables = 1 .. 7
              /\ Migrate(d).legacy = (d.legacy /\ d.version >= EventGuardVersion)
         /\ \A r \in Records : Migrate(d).rows[r] = MigratedRow(d, r)
<1>1. d.version \in 0 .. 8 /\ \A r \in Records : d.rows[r] \in Row
  BY DEF Database
<1>2. ASSUME NEW e \in Database
      PROVE  /\ EnsureGuards(e) \in Database
             /\ EnsureGuards(e).version = e.version /\ EnsureGuards(e).tables = e.tables
             /\ EnsureGuards(e).extra = e.extra /\ EnsureGuards(e).altered = e.altered
             /\ EnsureGuards(e).legacy = e.legacy /\ EnsureGuards(e).rows = e.rows
             /\ EnsureGuards(e).event = "exact" /\ EnsureGuards(e).sidecar = "exact"
  BY DEF EnsureGuards, EnsureSidecarGuards, EnsureEventGuard, Database, Guards
<1>3. CASE d.version = MIGRATION_VERSION
  <2>1. Migrate(d) = EnsureGuards(d)
    BY <1>3 DEF Migrate
  <2>2. \A r \in Records : d.rows[r] = MigratedRow(d, r)
    BY <1>1, <1>3 DEF MigratedRow, Row, MIGRATION_VERSION, EventGuardVersion,
                      AdmissionGuardVersion
  <2> QED
    BY <1>2, <1>3, <2>1, <2>2
<1>4. CASE d.version # MIGRATION_VERSION
  <2> DEFINE s == ScrubFingerprints(d)
             b == BackfillOrigins(s)
             e == [b EXCEPT !.tables = 1 .. 7, !.version = MIGRATION_VERSION]
  <2>1. Migrate(d) = EnsureGuards(e)
    BY <1>4 DEF Migrate
  <2>2. /\ s \in Database /\ s.version = d.version /\ s.extra = d.extra
        /\ s.altered = d.altered /\ s.legacy = (d.legacy /\ d.version >= EventGuardVersion)
        /\ \A r \in Records :
             s.rows[r] = [d.rows[r] EXCEPT !.fingerprint = @ /\ d.version >= EventGuardVersion]
    BY ScrubbedWhenOld
  <2> HIDE DEF s
  <2>3. /\ b \in Database
        /\ Objects(b) = Objects(s)
        /\ \A r \in Records :
             b.rows[r] = [s.rows[r] EXCEPT
                !.origin = IF s.version < AdmissionGuardVersion /\ Payload(s.rows[r])
                              /\ @ = "none"
                           THEN "legacy_unknown" ELSE @]
    BY <2>2, LabelledWhenOld
  <2> HIDE DEF b
  <2>4. b.extra = s.extra /\ b.altered = s.altered /\ b.legacy = s.legacy
    <3>1. ASSUME NEW x \in Database
          PROVE  /\ x.extra = Objects(x).extra /\ x.altered = Objects(x).altered
                 /\ x.legacy = Objects(x).legacy
      BY DEF Objects, Database
    <3> QED
      BY <2>2, <2>3, <3>1
  <2>5. /\ e \in Database
        /\ e.version = MIGRATION_VERSION /\ e.tables = 1 .. 7
        /\ e.extra = b.extra /\ e.altered = b.altered /\ e.legacy = b.legacy
        /\ e.rows = b.rows
    BY <2>3, Installs
  <2> HIDE DEF e
  <2>6. \A r \in Records : b.rows[r] = MigratedRow(d, r)
    <3> TAKE r \in Records
    <3> DEFINE w == d.rows[r]
    <3>1. w \in Row
      BY <1>1
    <3>2. s.rows[r] = [w EXCEPT !.fingerprint = @ /\ d.version >= EventGuardVersion]
      BY <2>2
    <3>3. /\ s.rows[r] \in Row /\ s.rows[r].state = w.state /\ s.rows[r].audit = w.audit
          /\ s.rows[r].origin = w.origin
          /\ s.rows[r].fingerprint = (w.fingerprint /\ d.version >= EventGuardVersion)
      BY <1>1, <3>1, <3>2 DEF Row
    <3>4. Payload(s.rows[r]) = Payload(w)
      BY <3>3 DEF Payload
    <3>5. b.rows[r] = [s.rows[r] EXCEPT
                !.origin = IF d.version < AdmissionGuardVersion /\ Payload(w) /\ w.origin = "none"
                           THEN "legacy_unknown" ELSE @]
      BY <2>2, <2>3, <3>3, <3>4
    <3> QED
      BY <3>3, <3>5 DEF MigratedRow, Row
  <2> QED
    BY <1>2, <1>4, <2>1, <2>2, <2>4, <2>5, <2>6
<1> QED
  BY <1>3, <1>4

-----------------------------------------------------------------------------
(* Setup.                                                                   *)

(* What is accepted when it was set up before has nothing foreign in it.    *)
LEMMA AcceptedIsOwn ==
  ASSUME NEW d \in Database, Sound(d), ~Refusable(d), backend = "sqlite"
  PROVE  /\ d.version \in 0 .. 7
         /\ ~d.altered /\ ~d.extra
         /\ d.legacy => d.version < EventGuardVersion
         /\ d.version = MIGRATION_VERSION => \A v \in 1 .. 7 : v \in d.tables
<1>1. d.version \in 0 .. 8 /\ Compatible(d, TRUE) /\ ~(d.version > MIGRATION_VERSION)
  BY DEF Refusable, Database
<1>2. d.version \in 0 .. 7
  BY <1>1 DEF MIGRATION_VERSION
<1>3. CASE d.version = 0
  BY <1>2, <1>3 DEF Sound, NewIsEmpty, MIGRATION_VERSION
<1>4. CASE d.version # 0
  <2>1. TablesMatch(d)
    BY <1>1, <1>4 DEF Compatible, SqliteMatches
  <2> QED
    BY <1>2, <2>1 DEF TablesMatch, MIGRATION_VERSION
<1> QED
  BY <1>3, <1>4

LEMMA CompatibleOnSqlite ==
  ASSUME NEW d, NEW repair \in BOOLEAN, d.version # 0, backend = "sqlite"
  PROVE  Compatible(d, repair) <=> SqliteMatches(d, repair)
BY DEF Compatible

LEMMA MigrationIsReady ==
  ASSUME NEW d \in Database, Sound(d), ~Refusable(d), backend = "sqlite"
  PROVE  Ready(Migrate(d))
<1> DEFINE m == Migrate(d)
<1>1. /\ m \in Database /\ m.version = 7 /\ m.event = "exact" /\ m.sidecar = "exact"
      /\ m.extra = d.extra /\ m.altered = d.altered
      /\ d.version = 7 => m.tables = d.tables /\ m.legacy = d.legacy
      /\ d.version # 7 => /\ m.tables = 1 .. 7
                          /\ m.legacy = (d.legacy /\ d.version >= EventGuardVersion)
  BY Migration DEF MIGRATION_VERSION
<1> HIDE DEF m
<1>2. /\ d.version \in 0 .. 7 /\ ~d.altered /\ ~d.extra
      /\ d.legacy => d.version < EventGuardVersion
      /\ d.version = 7 => \A v \in 1 .. 7 : v \in d.tables
  BY AcceptedIsOwn DEF MIGRATION_VERSION
<1>3. ~m.legacy /\ \A v \in 1 .. 7 : v \in m.tables
  BY <1>1, <1>2 DEF EventGuardVersion, Database
<1>4. TablesMatch(m)
  BY <1>1, <1>2, <1>3 DEF TablesMatch, FutureTables, AdmissionGuardVersion
<1>5. GuardsMatch(m, FALSE)
  BY <1>1 DEF GuardsMatch, GuardAccepted
<1>6. Compatible(m, FALSE)
  <2>1. m.version # 0
    BY <1>1
  <2>2. SqliteMatches(m, FALSE)
    BY <1>4, <1>5 DEF SqliteMatches
  <2> QED
    BY <2>1, <2>2, CompatibleOnSqlite
<1> QED
  BY <1>1, <1>6 DEF Ready, m, MIGRATION_VERSION

LEMMA MigrationKeepsRows ==
  ASSUME NEW d \in Database, Sound(d), ~Refusable(d), backend = "sqlite"
  PROVE  Sound(Migrate(d)) /\ Sidecars(Migrate(d)) /\ Carried(d, Migrate(d))
<1> DEFINE m == Migrate(d)
<1>1. m.version = 7 /\ \A r \in Records : m.rows[r] = MigratedRow(d, r)
  BY Migration DEF MIGRATION_VERSION
<1> HIDE DEF m
<1>2. /\ d.version \in 0 .. 8 /\ \A r \in Records : d.rows[r] \in Row
  BY DEF Database
<1>3. RowsAreSound(d) /\ Sidecars(d)
  BY DEF Sound, Refusable
<1>4. ASSUME NEW r \in Records
      PROVE  /\ ~m.rows[r].fingerprint
             /\ Payload(m.rows[r]) => m.rows[r].origin # "none"
             /\ m.rows[r].state = d.rows[r].state /\ m.rows[r].audit = d.rows[r].audit
             /\ Concrete(m.rows[r]) <=> Concrete(d.rows[r])
             /\ \/ m.rows[r].origin = d.rows[r].origin
                \/ /\ Payload(d.rows[r]) /\ d.rows[r].origin = "none"
                   /\ m.rows[r].origin = "legacy_unknown"
  <2>0. m.rows[r] = MigratedRow(d, r)
    BY <1>1
  <2>1. /\ m.rows[r].state = d.rows[r].state /\ m.rows[r].audit = d.rows[r].audit
        /\ m.rows[r].fingerprint <=> d.rows[r].fingerprint /\ d.version >= EventGuardVersion
        /\ d.version < AdmissionGuardVersion /\ Payload(d.rows[r])
             /\ d.rows[r].origin = "none" => m.rows[r].origin = "legacy_unknown"
        /\ ~(d.version < AdmissionGuardVersion /\ Payload(d.rows[r])
             /\ d.rows[r].origin = "none") => m.rows[r].origin = d.rows[r].origin
    <3>1. /\ MigratedRow(d, r).state = d.rows[r].state
          /\ MigratedRow(d, r).audit = d.rows[r].audit
          /\ MigratedRow(d, r).fingerprint =
               (d.rows[r].fingerprint /\ d.version >= EventGuardVersion)
          /\ MigratedRow(d, r).origin =
               IF d.version < AdmissionGuardVersion /\ Payload(d.rows[r])
                 /\ d.rows[r].origin = "none"
               THEN "legacy_unknown" ELSE d.rows[r].origin
      BY Zenon DEF MigratedRow
    <3>2. m.rows[r].state = d.rows[r].state /\ m.rows[r].audit = d.rows[r].audit
      BY <2>0, <3>1
    <3>3. m.rows[r].fingerprint <=> d.rows[r].fingerprint /\ d.version >= EventGuardVersion
      BY <2>0, <3>1, Zenon
    <3>4. m.rows[r].origin = IF d.version < AdmissionGuardVersion /\ Payload(d.rows[r])
                               /\ d.rows[r].origin = "none"
                             THEN "legacy_unknown" ELSE d.rows[r].origin
      BY <2>0, <3>1, Zenon
    <3> QED
      BY <3>2, <3>3, <3>4, Zenon
  <2>2. ~m.rows[r].fingerprint
    BY <1>2, <1>3, <2>1 DEF RowsAreSound
  <2>3. Payload(m.rows[r]) <=> Payload(d.rows[r])
    BY <2>1 DEF Payload
  <2>4. Payload(m.rows[r]) => m.rows[r].origin # "none"
    BY <1>2, <1>3, <2>1, <2>3 DEF RowsAreSound, AdmissionGuardVersion
  <2>5. Concrete(m.rows[r]) <=> Concrete(d.rows[r])
    BY <2>1 DEF Concrete
  <2> QED
    BY <2>1, <2>2, <2>4, <2>5
<1>5. Sound(m)
  BY <1>1, <1>4 DEF Sound, RowsAreSound, NewIsEmpty, AdmissionGuardVersion
<1>6. ConcreteActive(d) \subseteq Audited(d)
  BY <1>2, <1>3 DEF Sidecars, RowsAreSound, ConcreteActive, Audited, Concrete,
                    AdmissionGuardVersion
<1>7. Sidecars(m)
  BY <1>4, <1>6 DEF Sidecars, ConcreteActive, Audited
<1>8. Carried(d, m)
  BY <1>4 DEF Carried
<1> QED
  BY <1>5, <1>7, <1>8 DEF m

LEMMA CompatibleOnPostgres ==
  ASSUME NEW d, NEW repair \in BOOLEAN, d.version # 0, backend = "postgres"
  PROVE  Compatible(d, repair) <=> PostgresMatches(d, repair)
BY DEF Compatible

LEMMA CompatibleWhenNew ==
  ASSUME NEW d, NEW repair \in BOOLEAN, d.version = 0
  PROVE  Compatible(d, repair) <=> Unclaimed(d)
BY DEF Compatible

(* On PostgreSQL a setup creates everything or repairs the guards.          *)
LEMMA CreationIsReady ==
  ASSUME NEW d \in Database, Sound(d), ~Refusable(d), backend = "postgres"
  PROVE  /\ CreateOrRepair(d) \in Database
         /\ Ready(CreateOrRepair(d))
         /\ CreateOrRepair(d).rows = d.rows
<1>1. Compatible(d, TRUE)
  BY DEF Refusable
<1>2. ASSUME NEW e \in Database
      PROVE  /\ InstallGuards(e) \in Database
             /\ InstallGuards(e).version = e.version /\ InstallGuards(e).tables = e.tables
             /\ InstallGuards(e).extra = e.extra /\ InstallGuards(e).altered = e.altered
             /\ InstallGuards(e).rows = e.rows
             /\ InstallGuards(e).event = "exact" /\ InstallGuards(e).sidecar = "exact"
  BY DEF InstallGuards, Database, Guards
<1>3. ASSUME NEW e \in Database, e.version = 7, e.tables = 1 .. 7, ~e.altered, ~e.extra,
             e.event = "exact", e.sidecar = "exact"
      PROVE  Ready(e)
  <2>1. PostgresMatches(e, FALSE) /\ e.version # 0
    BY <1>3 DEF PostgresMatches, TablesAreOwn, NothingAttached, GuardAccepted, MIGRATION_VERSION
  <2>2. Compatible(e, FALSE)
    BY <2>1, CompatibleOnPostgres
  <2> QED
    BY <1>3, <2>2 DEF Ready, MIGRATION_VERSION
<1>4. CASE d.version = 0
  <2> DEFINE e == [d EXCEPT !.tables = 1 .. 7, !.version = MIGRATION_VERSION]
  <2>1. CreateOrRepair(d) = InstallGuards(e)
    BY <1>4 DEF CreateOrRepair, Fresh
  <2>2. /\ e \in Database /\ e.version = MIGRATION_VERSION /\ e.tables = 1 .. 7
        /\ e.extra = d.extra /\ e.altered = d.altered /\ e.rows = d.rows
    BY Installs
  <2> HIDE DEF e
  <2>3. Unclaimed(d)
    BY <1>1, <1>4, CompatibleWhenNew
  <2>4. ~d.extra /\ ~d.altered
    BY <1>4, <2>3 DEF Unclaimed, Sound, NewIsEmpty
  <2> QED
    BY <1>2, <1>3, <2>1, <2>2, <2>4 DEF MIGRATION_VERSION
<1>5. CASE d.version # 0
  <2>1. CreateOrRepair(d) = InstallGuards(d)
    BY <1>5 DEF CreateOrRepair
  <2>2. PostgresMatches(d, TRUE)
    BY <1>1, <1>5, CompatibleOnPostgres
  <2>3. d.version = 7 /\ d.tables = 1 .. 7 /\ ~d.altered /\ ~d.extra
    BY <2>2 DEF PostgresMatches, TablesAreOwn, NothingAttached, MIGRATION_VERSION
  <2> QED
    BY <1>2, <1>3, <2>1, <2>3
<1> QED
  BY <1>4, <1>5

(* Whatever release or damage a setup accepts, it leaves it sound.          *)
LEMMA SetupResults ==
  ASSUME NEW d \in Database, Sound(d), ~Refusable(d), backend \in {"sqlite", "postgres"}
  PROVE  /\ SetUp(d) \in Database
         /\ Sound(SetUp(d)) /\ Ready(SetUp(d)) /\ Sidecars(SetUp(d)) /\ Carried(d, SetUp(d))
<1>1. CASE backend = "sqlite"
  BY <1>1, Migration, MigrationIsReady, MigrationKeepsRows DEF SetUp
<1>2. CASE backend = "postgres"
  <2> DEFINE e == CreateOrRepair(d)
  <2>1. SetUp(d) = e
    BY <1>2 DEF SetUp
  <2>2. e \in Database /\ Ready(e) /\ e.rows = d.rows
    BY <1>2, CreationIsReady
  <2> HIDE DEF e
  <2>3. e.version = 7
    BY <2>2 DEF Ready, MIGRATION_VERSION
  <2>4. d.version = 0 \/ d.version = 7
    <3>1. Compatible(d, TRUE)
      BY DEF Refusable
    <3> QED
      BY <1>2, <3>1, CompatibleOnPostgres DEF PostgresMatches, MIGRATION_VERSION
  <2>5. CASE d.version = 0
    <3>1. \A r \in Records : e.rows[r] = NoRow
      BY <2>2, <2>5 DEF Sound, NewIsEmpty
    <3> QED
      BY <2>1, <2>2, <2>3, <3>1
         DEF Sound, RowsAreSound, NewIsEmpty, Sidecars, Carried, ConcreteActive, Concrete,
             Payload, NoRow, AdmissionGuardVersion
  <2>6. CASE d.version = 7
    <3>1. RowsAreSound(d) /\ Sidecars(d)
      BY DEF Sound, Refusable
    <3> QED
      BY <2>1, <2>2, <2>3, <2>6, <3>1
         DEF Sound, RowsAreSound, NewIsEmpty, Sidecars, Carried, ConcreteActive, Audited
  <2> QED
    BY <2>4, <2>5, <2>6
<1> QED
  BY <1>1, <1>2

-----------------------------------------------------------------------------
(* Commands.                                                                *)

LEMMA ReadyMeans ==
  ASSUME NEW d \in Database, Ready(d), backend = "sqlite"
  PROVE  d.sidecar = "exact"
<1>1. d.version = 7 /\ Compatible(d, FALSE)
  BY DEF Ready, MIGRATION_VERSION
<1>2. SqliteMatches(d, FALSE)
  <2>1. d.version # 0
    BY <1>1
  <2> QED
    BY <1>1, <2>1, CompatibleOnSqlite
<1> QED
  BY <1>1, <1>2 DEF SqliteMatches, GuardsMatch, GuardAccepted, AdmissionGuardVersion

(* A command on a record leaves one row changed, within what its version    *)
(* promises, and no object.                                                 *)
LEMMA EraseKeepsObjects ==
  ASSUME NEW d \in Database, NEW r \in Records, backend \in {"sqlite", "postgres"},
         backend = "sqlite" => d.sidecar = "exact"
  PROVE  Erase(d, r) = Changed(d, r, [NoRow EXCEPT !.state = "erased"])
<1> DEFINE row == [NoRow EXCEPT !.state = "erased"]
<1>1. row \in Row
  BY DEF NoRow, Row
<1>2. CASE backend = "postgres"
  BY <1>2 DEF Erase, EraseOnPostgres, EraseRows
<1>3. CASE backend = "sqlite"
  <2>1. Erase(d, r) = EnsureSidecarGuards(Changed(DropSidecarGuards(d), r, row))
    BY <1>3 DEF Erase, EraseOnSqlite, EraseRows
  <2> HIDE DEF row
  <2>2. EnsureSidecarGuards(Changed(DropSidecarGuards(d), r, row)) = Changed(d, r, row)
    BY <1>1, <1>3 DEF EnsureSidecarGuards, Changed, DropSidecarGuards, Database, Guards
  <2> QED
    BY <2>1, <2>2 DEF row
<1> QED
  BY <1>2, <1>3

LEMMA ChangeIsSound ==
  ASSUME NEW d \in Database, Sound(d), d.version = 7, NEW r \in Records, NEW row \in Row,
         ~row.fingerprint, Payload(row) => row.origin # "none"
  PROVE  /\ Changed(d, r, row) \in Database /\ Sound(Changed(d, r, row))
         /\ Objects(Changed(d, r, row)) = Objects(d)
<1> DEFINE e == Changed(d, r, row)
<1>1. /\ e \in Database /\ Objects(e) = Objects(d) /\ e.version = 7 /\ e.rows[r] = row
      /\ \A q \in Records \ {r} : e.rows[q] = d.rows[q]
  BY RowChanges
<1> HIDE DEF e
<1>2. Sound(e)
  BY <1>1 DEF Sound, RowsAreSound, NewIsEmpty, AdmissionGuardVersion, EventGuardVersion
<1> QED
  BY <1>1, <1>2 DEF e

LEMMA CommandResults ==
  ASSUME NEW d \in Database, Sound(d), d.version = 7, backend \in {"sqlite", "postgres"},
         backend = "sqlite" => Ready(d),
         NEW call \in Commands, NEW r \in Records, NEW e \in Effects(d, call, r)
  PROVE  e \in Database /\ Sound(e) /\ Objects(e) = Objects(d)
<1>1. d.rows[r] \in Row
  BY DEF Database
<1>2. CASE call = "create"
  <2>1. PICK o \in {"unknown", "concrete"} : e = CreateCandidate(d, r, o)
    BY <1>2 DEF Effects
  <2> DEFINE row == [NoRow EXCEPT !.state = "candidate", !.origin = o]
  <2>2. row \in Row /\ ~row.fingerprint /\ row.origin # "none"
    BY <2>1 DEF NoRow, Row
  <2>3. e = Changed(d, r, row)
    BY <2>1 DEF CreateCandidate
  <2> HIDE DEF row
  <2> QED
    BY <2>2, <2>3, ChangeIsSound
<1>3. CASE call = "confirm"
  <2>1. e = Confirm(d, r) /\ d.rows[r].state = "candidate"
    BY <1>3 DEF Effects
  <2> DEFINE row == [d.rows[r] EXCEPT !.state = "active",
                                      !.audit = d.rows[r].origin = "concrete"]
  <2>2. row \in Row /\ row.fingerprint = d.rows[r].fingerprint /\ row.origin = d.rows[r].origin
    BY <1>1 DEF Row
  <2>3. ~d.rows[r].fingerprint /\ d.rows[r].origin # "none"
    BY <2>1 DEF Sound, RowsAreSound, Payload, AdmissionGuardVersion, EventGuardVersion
  <2>4. e = Changed(d, r, row)
    BY <2>1 DEF Confirm
  <2> HIDE DEF row
  <2> QED
    BY <2>2, <2>3, <2>4, ChangeIsSound
<1>4. CASE call = "erase"
  <2>1. e = Erase(d, r)
    BY <1>4 DEF Effects
  <2> DEFINE row == [NoRow EXCEPT !.state = "erased"]
  <2>2. row \in Row /\ ~row.fingerprint /\ ~Payload(row)
    BY DEF NoRow, Row, Payload
  <2>3. e = Changed(d, r, row)
    BY <2>1, EraseKeepsObjects, ReadyMeans
  <2> HIDE DEF row
  <2> QED
    BY <2>2, <2>3, ChangeIsSound
<1> QED
  BY <1>2, <1>3, <1>4 DEF Commands

-----------------------------------------------------------------------------
(* The invariant holds at the start.                                        *)

LEMMA ReleasedRows ==
  ASSUME NEW v \in 0 .. 8, NEW row, row \in RowOf(v) \/ row = NoRow
  PROVE  /\ row \in Row
         /\ v = 0 => row = NoRow
         /\ v >= 4 => ~row.fingerprint
         /\ v >= 5 => (Payload(row) => row.origin # "none")
         /\ v < 5 => row.origin = "none"
<1>1. /\ NoRow \in Row /\ ~NoRow.fingerprint /\ NoRow.origin = "none" /\ ~Payload(NoRow)
  BY DEF NoRow, Row, Payload
<1>2. CASE row = NoRow
  BY <1>1, <1>2
<1>3. CASE v = 0
  BY <1>1, <1>3 DEF RowOf
<1>4. CASE row \in RowOf(v) /\ v # 0
  <2>1. /\ row \in Row
        /\ row.fingerprint = (v < EventGuardVersion /\ row.state # "none")
        /\ row.origin = "none" <=> v < AdmissionGuardVersion \/ row.state = "none"
    BY <1>4 DEF RowOf
  <2>2. v >= 4 => ~row.fingerprint
    <3>1. v >= 4 => ~(v < EventGuardVersion)
      BY DEF EventGuardVersion
    <3> QED
      BY <2>1, <3>1, Zenon
  <2>3. v >= 5 => (Payload(row) => row.origin # "none")
    BY <2>1 DEF Payload, AdmissionGuardVersion
  <2>4. v < 5 => row.origin = "none"
    BY <2>1 DEF AdmissionGuardVersion
  <2> QED
    BY <1>4, <2>1, <2>2, <2>3, <2>4
<1> QED
  BY <1>2, <1>3, <1>4

LEMMA StorageInvInit == Init => StorageInv
<1> SUFFICES ASSUME Init PROVE StorageInv
  OBVIOUS
<1>1. PICK v \in 0 .. 8 : disk \in Installed(v)
  BY DEF Init, PostgresInstalled
<1>2. PICK rows \in [Legacy -> RowOf(v)] :
        disk = [version |-> v, tables |-> 1 .. (IF v > 7 THEN 7 ELSE v),
                altered |-> FALSE, extra |-> FALSE,
                event |-> IF v < EventGuardVersion THEN "absent" ELSE "exact",
                sidecar |-> IF v < AdmissionGuardVersion THEN "absent" ELSE "exact",
                legacy |-> v \in 1 .. 3,
                rows |-> [r \in Records |-> IF r \in Legacy THEN rows[r] ELSE NoRow]]
  BY <1>1 DEF Installed
<1>3. ASSUME NEW r \in Records
      PROVE  /\ disk.rows[r] \in Row
             /\ v = 0 => disk.rows[r] = NoRow
             /\ v >= 4 => ~disk.rows[r].fingerprint
             /\ v >= 5 => (Payload(disk.rows[r]) => disk.rows[r].origin # "none")
             /\ v < 5 => disk.rows[r].origin = "none"
  <2>1. disk.rows[r] \in RowOf(v) \/ disk.rows[r] = NoRow
    BY <1>2
  <2> QED
    BY <2>1, ReleasedRows
<1>4. disk \in Database
  <2>1. disk.rows \in [Records -> Row]
    BY <1>2, <1>3
  <2>2. 1 .. (IF v > 7 THEN 7 ELSE v) \in SUBSET (1 .. 7)
    OBVIOUS
  <2> QED
    BY <1>2, <2>1, <2>2 DEF Database, Guards
<1>5. TypeOK
  BY <1>4, StorageAssumption DEF Init, TypeOK, NoJob, NoReply
<1>6. disk.version = v
  BY <1>2
<1>7. RowsAreSound(disk)
  BY <1>3, <1>6 DEF RowsAreSound, EventGuardVersion, AdmissionGuardVersion
<1>8. NewIsEmpty(disk)
  <2>1. SUFFICES ASSUME v = 0
                 PROVE  /\ disk.tables = {} /\ ~disk.altered /\ ~disk.legacy /\ ~disk.extra
                        /\ \A r \in Records : disk.rows[r] = NoRow
    BY <1>6 DEF NewIsEmpty
  <2> QED
    <3>1. disk.tables = 1 .. 0
      BY <1>2, <2>1
    <3>2. 1 .. 0 = {}
      OBVIOUS
    <3>3. ~disk.altered /\ ~disk.extra /\ disk.legacy = (0 \in 1 .. 3)
      BY <1>2, <2>1
    <3>4. ~(0 \in 1 .. 3)
      OBVIOUS
    <3>5. ~disk.legacy
      BY <3>3, <3>4, Zenon
    <3> QED
      BY <1>3, <2>1, <3>1, <3>2, <3>3, <3>5
<1>9. Boundary /\ CacheIsAudited
  BY DEF Init, Boundary, BoundaryOf, CacheIsAudited, NoJob, Took
<1> QED
  BY <1>5, <1>7, <1>8, <1>9 DEF StorageInv, Sound

-----------------------------------------------------------------------------
(* Every step keeps the invariant.                                          *)

JobType == [call : Calls \cup {"none"}, record : Records \cup {Nil},
            done : SUBSET Steps, version : 0 .. 8]

(* The arguments a write is called with.                                    *)
Writes(call, r) == (call \in Commands /\ r \in Records) \/ (call = "setup" /\ r = Nil)

LEMMA StepsInOrder ==
  ASSUME NEW c \in Conns, NEW call, NEW r, NEW step, Writes(call, r), At(c, call, r, step)
  PROVE  /\ step = "begin" => job[c].done = {}
         /\ step = "ready" => call \in Commands /\ job[c].done = {"begin"}
         /\ step = "apply" /\ call \in Commands => job[c].done = {"begin", "ready"}
         /\ step = "apply" /\ call = "setup" => job[c].done = {"begin"}
         /\ job[c] # NoJob => call = job[c].call /\ r = job[c].record
<1>1. PICK i \in DOMAIN WriteOrder(call) :
        /\ WriteOrder(call)[i] = step
        /\ job[c].done = {WriteOrder(call)[k] : k \in 1 .. i - 1}
  BY DEF At
<1>2. CASE call \in Commands
  <2>1. WriteOrder(call) = <<"begin", "ready", "apply">>
    BY <1>2 DEF WriteOrder
  <2>2. i \in 1 .. 3 /\ step = <<"begin", "ready", "apply">>[i]
    BY <1>1, <2>1
  <2>3. CASE i = 1
    BY <1>1, <1>2, <2>1, <2>2, <2>3 DEF At
  <2>4. CASE i = 2
    <3>1. job[c].done = {"begin"}
      BY <1>1, <2>1, <2>4
    <3> QED
      BY <1>2, <2>2, <2>4, <3>1 DEF At
  <2>5. CASE i = 3
    <3>1. job[c].done = {"begin", "ready"}
      BY <1>1, <2>1, <2>5
    <3> QED
      BY <1>2, <2>2, <2>5, <3>1 DEF At, Commands
  <2> QED
    BY <2>2, <2>3, <2>4, <2>5
<1>3. CASE call = "setup"
  <2>1. WriteOrder(call) = <<"begin", "apply">>
    BY <1>3 DEF WriteOrder, Commands
  <2>2. i \in 1 .. 2 /\ step = <<"begin", "apply">>[i]
    BY <1>1, <2>1
  <2>3. CASE i = 1
    BY <1>1, <1>3, <2>1, <2>2, <2>3 DEF At
  <2>4. CASE i = 2
    <3>1. job[c].done = {"begin"}
      BY <1>1, <2>1, <2>4
    <3> QED
      BY <1>3, <2>2, <2>4, <3>1 DEF At, Commands
  <2> QED
    BY <2>2, <2>3, <2>4
<1> QED
  BY <1>2, <1>3 DEF Writes

(* Only the owner of the boundary has a write under way.                    *)
LEMMA BoundaryKept ==
  ASSUME StorageInv, NEW c \in Conns, backend' = backend,
         \A d \in Conns \ {c} : job'[d] = job[d],
         UNCHANGED <<disk, lock, work>> \/ lock \in {c, Nil},
         BoundaryOf(c)'
  PROVE  Boundary'
<1> SUFFICES ASSUME NEW d \in Conns \ {c} PROVE BoundaryOf(d)'
  BY DEF Boundary
<1>1. job'[d] = job[d] /\ BoundaryOf(d)
  BY DEF StorageInv, Boundary
<1>2. CASE lock \in {c, Nil}
  BY <1>1, <1>2, StorageAssumption DEF BoundaryOf, Took
<1>3. CASE UNCHANGED <<disk, lock, work>>
  <2>1. Ready(disk)' <=> Ready(disk)
    BY <1>3 DEF Ready, Compatible, Unclaimed
  <2>2. Ready(work)' <=> Ready(work)
    BY <1>3 DEF Ready, Compatible, Unclaimed
  <2>3. Sound(work)' <=> Sound(work)
    BY <1>3 DEF Sound, NewIsEmpty
  <2>4. CommandResult(work)' <=> CommandResult(work)
    BY <1>3, <2>1 DEF CommandResult
  <2>5. SetupResult(work)' <=> SetupResult(work)
    BY <1>3, <2>2 DEF SetupResult
  <2>6. ResultIsSound(d)' <=> ResultIsSound(d)
    BY <1>1, <1>3, <2>3, <2>4, <2>5 DEF ResultIsSound
  <2> QED
    BY <1>1, <1>3, <2>1, <2>6 DEF BoundaryOf, Took
<1> QED
  BY <1>2, <1>3

LEMMA TakesOne ==
  ASSUME TypeOK, NEW c \in Conns, NEW call, NEW r, NEW step \in Steps,
         Writes(call, r), Takes(c, call, r, step)
  PROVE  /\ job' \in [Conns -> JobType] /\ reply' \in Reply \cup {NoReply}
         /\ job'[c].done = job[c].done \cup {step} /\ job'[c].call = call
         /\ \A d \in Conns \ {c} : job'[d] = job[d]
<1>1. job \in [Conns -> JobType]
  BY DEF TypeOK, JobType
<1>2. call \in Calls \cup {"none"} /\ r \in Records \cup {Nil}
  BY DEF Writes, Calls, Commands
<1> DEFINE next == [job[c] EXCEPT !.call = call, !.record = r, !.done = @ \cup {step}]
<1>3. next \in JobType /\ next.done = job[c].done \cup {step} /\ next.call = call
  BY <1>1, <1>2 DEF JobType
<1>4. job' = [job EXCEPT ![c] = next] /\ reply' = NoReply
  BY DEF Takes, Quiet
<1> HIDE DEF next
<1> QED
  BY <1>1, <1>3, <1>4

LEMMA ReturnsOne ==
  ASSUME TypeOK, NEW c \in Conns, NEW call \in Calls, NEW how \in Outcomes,
         NEW found \in SUBSET Records, Return(c, call, how, found)
  PROVE  /\ job' \in [Conns -> JobType] /\ reply' \in Reply \cup {NoReply}
         /\ job'[c].done = {} /\ \A d \in Conns \ {c} : job'[d] = job[d]
<1>1. job \in [Conns -> JobType] /\ NoJob \in JobType /\ NoJob.done = {}
  BY DEF TypeOK, JobType, NoJob
<1> QED
  BY <1>1 DEF Return, Reply

LEMMA BeginStep ==
  ASSUME StorageInv, NEW c \in Conns, NEW call, NEW r, Writes(call, r), Begin(c, call, r)
  PROVE  StorageInv'
<1>1. /\ job' \in [Conns -> JobType] /\ reply' \in Reply \cup {NoReply}
      /\ job'[c].done = {"begin"} /\ \A d \in Conns \ {c} : job'[d] = job[d]
  BY StepsInOrder, TakesOne DEF Begin, StorageInv, Steps
<1>2. /\ lock = Nil /\ lock' = c
      /\ UNCHANGED <<backend, disk, work, cached, moved, foreign>>
  BY DEF Begin, markers
<1>3. TypeOK'
  BY <1>1, <1>2 DEF StorageInv, TypeOK, JobType
<1>4. Sound(disk)'
  BY <1>2 DEF StorageInv, Sound, NewIsEmpty
<1>5. BoundaryOf(c)'
  BY <1>1, <1>2 DEF BoundaryOf, Took
<1>6. Boundary'
  BY <1>1, <1>2, <1>5, BoundaryKept
<1>7. CacheIsAudited'
  BY <1>2 DEF StorageInv, CacheIsAudited, Caching
<1> QED
  BY <1>3, <1>4, <1>6, <1>7 DEF StorageInv

(* A step that ends a call of c, or kills c, without a commit.              *)
LEMMA CallEnds ==
  ASSUME StorageInv, NEW c \in Conns, UNCHANGED <<backend, disk, foreign>>,
         job' \in [Conns -> JobType], reply' \in Reply \cup {NoReply},
         job'[c].done = {}, \A d \in Conns \ {c} : job'[d] = job[d],
         Release(c) \/ UNCHANGED <<lock, work>>,
         cached' \in [Conns -> SUBSET Records], moved' \in [Conns -> BOOLEAN], CacheIsAudited'
  PROVE  StorageInv'
<1>1. TypeOK'
  BY DEF StorageInv, TypeOK, JobType, Release
<1>2. Sound(disk)'
  BY DEF StorageInv, Sound, NewIsEmpty
<1>3. BoundaryOf(c)'
  BY DEF BoundaryOf, Took
<1>4. UNCHANGED <<disk, lock, work>> \/ lock \in {c, Nil}
  BY DEF Release
<1>5. Boundary'
  BY <1>3, <1>4, BoundaryKept
<1> QED
  BY <1>1, <1>2, <1>5 DEF StorageInv

LEMMA MarkersKept ==
  ASSUME StorageInv, UNCHANGED <<backend, disk, cached, moved>>
  PROVE  /\ cached' \in [Conns -> SUBSET Records] /\ moved' \in [Conns -> BOOLEAN]
         /\ CacheIsAudited'
BY DEF StorageInv, TypeOK, CacheIsAudited, Caching

LEMMA ContendedStep ==
  ASSUME StorageInv, NEW c \in Conns, NEW call, NEW r, Writes(call, r), Contended(c, call, r)
  PROVE  StorageInv'
<1>1. Return(c, call, "contended", {}) /\ call \in Calls
  BY DEF Contended, End, Writes, Calls
<1>2. UNCHANGED <<backend, disk, lock, work, cached, moved, foreign>>
  BY DEF Contended, markers
<1>3. /\ job' \in [Conns -> JobType] /\ reply' \in Reply \cup {NoReply}
      /\ job'[c].done = {} /\ \A d \in Conns \ {c} : job'[d] = job[d]
  BY <1>1, ReturnsOne DEF StorageInv, Outcomes
<1> QED
  BY <1>2, <1>3, CallEnds, MarkersKept

LEMMA CheckStep ==
  ASSUME StorageInv, NEW c \in Conns, NEW call, NEW r, Writes(call, r), Check(c, call, r)
  PROVE  StorageInv'
<1>1. call \in Commands /\ job[c].done = {"begin"} /\ lock = c
  BY StepsInOrder DEF Check, StorageInv, Boundary, BoundaryOf
<1>2. UNCHANGED <<backend, disk, cached, moved, foreign>>
  BY DEF Check, markers
<1>3. CASE Ready(disk) /\ Takes(c, call, r, "ready") /\ UNCHANGED <<lock, work>>
  <2>1. /\ job' \in [Conns -> JobType] /\ reply' \in Reply \cup {NoReply}
        /\ job'[c].done = {"begin", "ready"} /\ \A d \in Conns \ {c} : job'[d] = job[d]
    BY <1>1, <1>3, TakesOne DEF StorageInv, Steps
  <2>2. TypeOK'
    BY <1>2, <1>3, <2>1 DEF StorageInv, TypeOK, JobType
  <2>3. Sound(disk)'
    BY <1>2 DEF StorageInv, Sound, NewIsEmpty
  <2>4. Ready(disk)' /\ disk'.version = MIGRATION_VERSION
    BY <1>2, <1>3 DEF Ready, Compatible, Unclaimed
  <2>5. BoundaryOf(c)'
    BY <1>1, <1>3, <2>1, <2>4 DEF BoundaryOf, Took
  <2>6. Boundary'
    BY <1>2, <1>3, <2>1, <2>5, BoundaryKept
  <2> QED
    BY <1>2, <2>2, <2>3, <2>6, MarkersKept DEF StorageInv
<1>4. CASE Rollback(c, call, "refused")
  <2>1. Return(c, call, "refused", {}) /\ Release(c) /\ call \in Calls
    BY <1>1, <1>4 DEF Rollback, End, Calls
  <2>2. /\ job' \in [Conns -> JobType] /\ reply' \in Reply \cup {NoReply}
        /\ job'[c].done = {} /\ \A d \in Conns \ {c} : job'[d] = job[d]
    BY <2>1, ReturnsOne DEF StorageInv, Outcomes
  <2> QED
    BY <1>2, <2>1, <2>2, CallEnds, MarkersKept
<1> QED
  BY <1>3, <1>4 DEF Check

(* A statement of a write has run: its outcome is what a commit promises.   *)
LEMMA ExecuteStep ==
  ASSUME StorageInv, NEW c \in Conns, NEW call, NEW r, NEW result, Writes(call, r),
         lock = c, Execute(c, call, r, result), UNCHANGED <<backend, disk, cached, foreign>>,
         result \in Database, Sound(result),
         call \in Commands => /\ job[c].done = {"begin", "ready"}
                              /\ Objects(result) = Objects(disk),
         call = "setup" => job[c].done = {"begin"} /\ SetupResult(result)
  PROVE  StorageInv'
<1>1. /\ job' \in [Conns -> JobType] /\ reply' \in Reply \cup {NoReply}
      /\ job'[c].done = job[c].done \cup {"apply"} /\ job'[c].call = call
      /\ \A d \in Conns \ {c} : job'[d] = job[d]
  BY TakesOne DEF Execute, StorageInv, Steps
<1>2. work' = result /\ lock' = lock /\ moved' = [moved EXCEPT ![c] = TRUE]
  BY DEF Execute
<1>3. TypeOK'
  BY <1>1, <1>2 DEF StorageInv, TypeOK, JobType
<1>4. Sound(disk)'
  BY DEF StorageInv, Sound, NewIsEmpty
<1>5. call \in Commands \cup {"setup"} /\ (call \in Commands => call # "setup")
  BY DEF Writes, Commands
<1>6. Sound(work)'
  BY <1>2 DEF Sound, NewIsEmpty
<1>7. BoundaryOf(c) /\ Took(c, "ready")' = Took(c, "ready")
  BY <1>1 DEF StorageInv, Boundary, Took
<1>8. Ready(disk)' <=> Ready(disk)
  BY DEF Ready, Compatible, Unclaimed
<1>9. call \in Commands => CommandResult(work)'
  BY <1>2, <1>7, <1>8 DEF CommandResult, BoundaryOf, Took
<1>10. call = "setup" => SetupResult(work)'
  BY <1>2 DEF SetupResult, Ready, Compatible, Unclaimed
<1>11. ResultIsSound(c)'
  BY <1>1, <1>2, <1>5, <1>6, <1>9, <1>10 DEF ResultIsSound
<1>12. BoundaryOf(c)'
  BY <1>1, <1>2, <1>7, <1>8, <1>11 DEF BoundaryOf
<1>13. Boundary'
  BY <1>1, <1>12, BoundaryKept
<1>14. CacheIsAudited'
  BY <1>2 DEF StorageInv, TypeOK, CacheIsAudited, Caching
<1> QED
  BY <1>3, <1>4, <1>13, <1>14 DEF StorageInv

LEMMA ApplyCommandStep ==
  ASSUME StorageInv, NEW c \in Conns, NEW call, NEW r, Writes(call, r), ApplyCommand(c, call, r)
  PROVE  StorageInv'
<1>1. call \in Commands /\ r \in Records /\ call # "setup"
  BY DEF ApplyCommand, Writes, Commands
<1>2. job[c].done = {"begin", "ready"}
  BY <1>1, StepsInOrder DEF ApplyCommand
<1>3. lock = c /\ disk.version = 7 /\ (backend = "sqlite" => Ready(disk))
  BY <1>2 DEF StorageInv, Boundary, BoundaryOf, Took, MIGRATION_VERSION
<1>4. UNCHANGED <<backend, disk, cached, foreign>>
  BY DEF ApplyCommand
<1>5. ASSUME NEW result \in Effects(disk, call, r), Execute(c, call, r, result)
      PROVE  StorageInv'
  <2>1. result \in Database /\ Sound(result) /\ Objects(result) = Objects(disk)
    BY <1>1, <1>3, CommandResults DEF StorageInv, TypeOK
  <2> QED
    BY <1>1, <1>2, <1>3, <1>4, <1>5, <2>1, ExecuteStep
<1>6. CASE Rollback(c, call, "rejected") /\ UNCHANGED moved
  <2>1. Return(c, call, "rejected", {}) /\ Release(c) /\ call \in Calls
    BY <1>1, <1>6 DEF Rollback, End, Calls
  <2>2. /\ job' \in [Conns -> JobType] /\ reply' \in Reply \cup {NoReply}
        /\ job'[c].done = {} /\ \A d \in Conns \ {c} : job'[d] = job[d]
    BY <2>1, ReturnsOne DEF StorageInv, Outcomes
  <2> QED
    BY <1>4, <1>6, <2>1, <2>2, CallEnds, MarkersKept
<1> QED
  BY <1>5, <1>6 DEF ApplyCommand

LEMMA ApplySetupStep ==
  ASSUME StorageInv, NEW c \in Conns, ApplySetup(c)
  PROVE  StorageInv'
<1>1. Writes("setup", Nil) /\ "setup" \notin Commands /\ "setup" \in Calls
  BY DEF Writes, Commands, Calls
<1>2. job[c].done = {"begin"}
  BY <1>1, StepsInOrder DEF ApplySetup
<1>3. lock = c /\ Sound(disk) /\ disk \in Database /\ backend \in {"sqlite", "postgres"}
  BY <1>2 DEF StorageInv, Boundary, BoundaryOf, TypeOK
<1>4. UNCHANGED <<backend, disk, cached, foreign>>
  BY DEF ApplySetup
<1>5. CASE ~Refusable(disk) /\ Execute(c, "setup", Nil, SetUp(disk))
  <2>1. /\ SetUp(disk) \in Database /\ Sound(SetUp(disk)) /\ SetupResult(SetUp(disk))
    BY <1>3, <1>5, SetupResults DEF SetupResult
  <2> QED
    BY <1>1, <1>2, <1>3, <1>4, <1>5, <2>1, ExecuteStep
<1>6. CASE Rollback(c, "setup", "refused") /\ UNCHANGED moved
  <2>1. Return(c, "setup", "refused", {}) /\ Release(c)
    BY <1>6 DEF Rollback, End
  <2>2. /\ job' \in [Conns -> JobType] /\ reply' \in Reply \cup {NoReply}
        /\ job'[c].done = {} /\ \A d \in Conns \ {c} : job'[d] = job[d]
    BY <1>1, <2>1, ReturnsOne DEF StorageInv, Outcomes
  <2> QED
    BY <1>4, <1>6, <2>1, <2>2, CallEnds, MarkersKept
<1> QED
  BY <1>5, <1>6 DEF ApplySetup

LEMMA CommitStep ==
  ASSUME StorageInv, NEW c \in Conns, Commit(c)
  PROVE  StorageInv'
<1>1. BoundaryOf(c) /\ Took(c, "apply")
  BY DEF Commit, StorageInv, Boundary
<1>2. lock = c /\ work \in Database /\ Sound(work) /\ job[c].call \in Calls
  BY <1>1 DEF BoundaryOf, Took, ResultIsSound, Calls
<1>3. /\ disk' = work /\ work' = Nil /\ lock' = Nil /\ moved' = [d \in Conns |-> TRUE]
      /\ UNCHANGED <<backend, cached, foreign>>
      /\ Return(c, job[c].call, "done", {})
  BY DEF Commit, End
<1>4. /\ job' \in [Conns -> JobType] /\ reply' \in Reply \cup {NoReply}
      /\ job'[c].done = {} /\ \A d \in Conns \ {c} : job'[d] = job[d]
  BY <1>2, <1>3, ReturnsOne DEF StorageInv, Outcomes
<1>5. TypeOK'
  BY <1>2, <1>3, <1>4 DEF StorageInv, TypeOK, JobType
<1>6. Sound(disk)'
  BY <1>2, <1>3 DEF Sound, NewIsEmpty
<1>7. BoundaryOf(c)'
  BY <1>4 DEF BoundaryOf, Took
<1>8. Boundary'
  BY <1>2, <1>3, <1>4, <1>7, BoundaryKept
<1>9. CacheIsAudited'
  BY <1>3 DEF CacheIsAudited
<1> QED
  BY <1>5, <1>6, <1>8, <1>9 DEF StorageInv

LEMMA CrashStep ==
  ASSUME StorageInv, NEW c \in Conns, Crash(c)
  PROVE  StorageInv'
<1>1. /\ job' = [job EXCEPT ![c] = NoJob] /\ reply' = NoReply /\ Release(c)
      /\ cached' = [cached EXCEPT ![c] = {}] /\ moved' = [moved EXCEPT ![c] = TRUE]
      /\ UNCHANGED <<backend, disk, foreign>>
  BY DEF Crash, Quiet
<1>2. NoJob \in JobType /\ NoJob.done = {}
  BY DEF NoJob, JobType
<1>3. /\ job' \in [Conns -> JobType]
      /\ job'[c].done = {} /\ \A d \in Conns \ {c} : job'[d] = job[d]
  BY <1>1, <1>2 DEF StorageInv, TypeOK, JobType
<1>4. cached' \in [Conns -> SUBSET Records] /\ moved' \in [Conns -> BOOLEAN] /\ CacheIsAudited'
  BY <1>1 DEF StorageInv, TypeOK, CacheIsAudited, Caching
<1> QED
  BY <1>1, <1>3, <1>4, CallEnds

LEMMA DryRunEnds ==
  ASSUME StorageInv, NEW c \in Conns, NEW how \in Outcomes, End(c, "dry_run", how)
  PROVE  /\ job' \in [Conns -> JobType] /\ reply' \in Reply \cup {NoReply}
         /\ job'[c].done = {} /\ \A d \in Conns \ {c} : job'[d] = job[d]
<1>1. Return(c, "dry_run", how, {}) /\ "dry_run" \in Calls
  BY DEF End, Calls
<1> QED
  BY <1>1, ReturnsOne DEF StorageInv

LEMMA DryRunStep ==
  ASSUME StorageInv, NEW c \in Conns, DryRunVersion(c) \/ DryRunReport(c)
  PROVE  StorageInv'
<1>1. UNCHANGED <<backend, disk, lock, work, cached, moved, foreign>>
  BY DEF DryRunVersion, DryRunReport, markers
<1>2. \/ /\ job' = [job EXCEPT ![c] = [NoJob EXCEPT !.call = "dry_run", !.version = disk.version]]
         /\ reply' = NoReply
      \/ End(c, "dry_run", "refused") \/ End(c, "dry_run", "done")
  BY DEF DryRunVersion, DryRunReport, Quiet
<1>3. CASE End(c, "dry_run", "refused") \/ End(c, "dry_run", "done")
  BY <1>1, <1>3, DryRunEnds, CallEnds, MarkersKept DEF Outcomes
<1>4. CASE /\ job' = [job EXCEPT ![c] = [NoJob EXCEPT !.call = "dry_run",
                                                      !.version = disk.version]]
           /\ reply' = NoReply
  <2>1. disk.version \in 0 .. 8
    BY DEF StorageInv, TypeOK, Database
  <2> DEFINE next == [NoJob EXCEPT !.call = "dry_run", !.version = disk.version]
  <2>2. next \in JobType /\ next.done = {}
    BY <2>1 DEF NoJob, JobType, Calls
  <2> HIDE DEF next
  <2>3. /\ job' \in [Conns -> JobType]
        /\ job'[c].done = {} /\ \A d \in Conns \ {c} : job'[d] = job[d]
    BY <1>4, <2>2 DEF StorageInv, TypeOK, JobType, next
  <2> QED
    BY <1>1, <1>4, <2>3, CallEnds, MarkersKept
<1> QED
  BY <1>2, <1>3, <1>4

LEMMA ReadReadyStep ==
  ASSUME StorageInv, NEW c \in Conns, ReadReady(c)
  PROVE  StorageInv'
<1>1. UNCHANGED <<backend, disk, lock, work, cached, moved, foreign>>
  BY DEF ReadReady, markers
<1>2. /\ job' \in [Conns -> JobType] /\ reply' \in Reply \cup {NoReply}
      /\ job'[c].done = {} /\ \A d \in Conns \ {c} : job'[d] = job[d]
  <2>1. CASE Ready(disk)
    <3>1. /\ job' = [job EXCEPT ![c] = [NoJob EXCEPT !.call = "list_active"]]
          /\ reply' = NoReply
      BY <2>1 DEF ReadReady, Quiet
    <3>2. /\ [NoJob EXCEPT !.call = "list_active"] \in JobType
          /\ [NoJob EXCEPT !.call = "list_active"].done = {}
      BY DEF NoJob, JobType, Calls
    <3> QED
      BY <3>1, <3>2 DEF StorageInv, TypeOK, JobType
  <2>2. CASE ~Ready(disk)
    <3>1. Return(c, "list_active", "refused", {}) /\ "list_active" \in Calls
      BY <2>2 DEF ReadReady, End, Calls
    <3> QED
      BY <3>1, ReturnsOne DEF StorageInv, Outcomes
  <2> QED
    BY <2>1, <2>2
<1> QED
  BY <1>1, <1>2, CallEnds, MarkersKept

(* What may be reused was audited, and so is what has just been fetched.    *)
LEMMA KnownIsAudited ==
  ASSUME StorageInv, NEW c \in Conns, NEW all \in SUBSET Records
  PROVE  /\ KnownAfterEviction(c, all) \in SUBSET Records
         /\ KnownAfterEviction(c, all) \subseteq Audited(disk)
         /\ Passing(c, all) \in SUBSET Records
         /\ Passing(c, all) \subseteq Audited(disk)
BY DEF StorageInv, TypeOK, CacheIsAudited, KnownAfterEviction, Refreshed, Passing, Fetched,
       Audited

LEMMA ReadActiveStep ==
  ASSUME StorageInv, NEW c \in Conns, NEW S \in SUBSET Records, ReadActive(c, S)
  PROVE  StorageInv'
<1> DEFINE all == S \cap ConcreteActive(disk)
           known == KnownAfterEviction(c, all)
           passing == Passing(c, all)
<1>1. all \in SUBSET Records
  OBVIOUS
<1>2. /\ known \in SUBSET Records /\ known \subseteq Audited(disk)
      /\ passing \in SUBSET Records /\ passing \subseteq Audited(disk)
  BY <1>1, KnownIsAudited
<1>3. UNCHANGED <<backend, disk, lock, work, foreign>> /\ moved' = [moved EXCEPT ![c] = FALSE]
  BY DEF ReadActive
<1>4. \E some \in SUBSET passing :
        cached' = [cached EXCEPT ![c] = IF Capacity(known, all) THEN known \cup some ELSE {}]
  BY DEF ReadActive
<1>5. \E how \in Outcomes, found \in SUBSET Records : Return(c, "list_active", how, found)
  <2>1. {r \in S : disk.rows[r].state = "active"} \in SUBSET Records /\ {} \in SUBSET Records
    OBVIOUS
  <2>2. "done" \in Outcomes /\ "refused" \in Outcomes
    BY DEF Outcomes
  <2>3. \/ Return(c, "list_active", "done", {r \in S : disk.rows[r].state = "active"})
        \/ Return(c, "list_active", "refused", {})
    BY DEF ReadActive, End
  <2> QED
    BY <2>1, <2>2, <2>3
<1> HIDE DEF all, known, passing
<1>6. PICK new \in SUBSET Records :
        new \subseteq Audited(disk) /\ cached' = [cached EXCEPT ![c] = new]
  BY <1>2, <1>4
<1>7. cached' \in [Conns -> SUBSET Records] /\ moved' \in [Conns -> BOOLEAN]
  BY <1>3, <1>6 DEF StorageInv, TypeOK
<1>8. CacheIsAudited'
  BY <1>3, <1>6 DEF StorageInv, TypeOK, CacheIsAudited, Caching, Audited
<1>9. /\ job' \in [Conns -> JobType] /\ reply' \in Reply \cup {NoReply}
      /\ job'[c].done = {} /\ \A d \in Conns \ {c} : job'[d] = job[d]
  BY <1>5, ReturnsOne DEF StorageInv, Calls
<1> QED
  BY <1>3, <1>7, <1>8, <1>9, CallEnds

(* Other programs reach the database only while nobody is in the middle of  *)
(* a write that has read or changed it.                                     *)
LEMMA MeddleStep ==
  ASSUME StorageInv, NEW d \in Database, Meddle(d), Sound(d), d.version = disk.version
  PROVE  StorageInv'
<1>1. /\ disk' = d /\ foreign' = foreign + 1 /\ foreign < MaxForeign
      /\ moved' = [c \in Conns |-> TRUE] /\ reply' = NoReply
      /\ UNCHANGED <<backend, lock, work, job, cached>>
  BY DEF Meddle, Quiet
<1>2. foreign' \in 0 .. MaxForeign
  BY <1>1, StorageAssumption DEF StorageInv, TypeOK
<1>3. TypeOK'
  BY <1>1, <1>2 DEF StorageInv, TypeOK
<1>4. Sound(disk)'
  BY <1>1 DEF Sound, NewIsEmpty
<1>5. ASSUME NEW c \in Conns PROVE BoundaryOf(c)'
  <2>1. BoundaryOf(c) /\ work \in Database \cup {Nil}
    BY DEF StorageInv, Boundary, TypeOK
  <2>2. CASE backend = "sqlite"
    <3>1. job[c].done = {}
      BY <2>1, <2>2, StorageAssumption DEF Meddle, Outside, BoundaryOf
    <3> QED
      BY <1>1, <3>1 DEF BoundaryOf, Took
  <2>3. CASE backend # "sqlite"
    <3>1. ~Took(c, "apply")
      BY <2>1, <2>3, StorageAssumption DEF Meddle, Outside, BoundaryOf, ResultIsSound
    <3> QED
      BY <1>1, <2>1, <2>3, <3>1 DEF BoundaryOf, Took
  <2> QED
    BY <2>2, <2>3
<1>6. CacheIsAudited'
  BY <1>1 DEF CacheIsAudited
<1> QED
  BY <1>3, <1>4, <1>5, <1>6 DEF StorageInv, Boundary

LEMMA OtherProgramStep ==
  ASSUME StorageInv, OtherProgram
  PROVE  StorageInv'
<1>1. disk \in Database /\ Sound(disk)
  BY DEF StorageInv, TypeOK
<1>2. CASE AddObject
  <2> DEFINE d == [disk EXCEPT !.extra = ~@]
  <2>1. /\ d \in Database /\ d.version = disk.version /\ d.rows = disk.rows
        /\ d.tables = disk.tables /\ d.altered = disk.altered /\ d.legacy = disk.legacy
    BY <1>1 DEF Database
  <2>2. Meddle(d) /\ (disk.tables # {} \/ backend = "postgres")
    BY <1>2 DEF AddObject
  <2> HIDE DEF d
  <2>3. Sound(d)
    BY <1>1, <2>1, <2>2 DEF Sound, RowsAreSound, NewIsEmpty
  <2> QED
    BY <2>1, <2>2, <2>3, MeddleStep
<1>3. CASE AlterTable
  <2> DEFINE d == [disk EXCEPT !.altered = TRUE]
  <2>1. /\ d \in Database /\ d.version = disk.version /\ d.rows = disk.rows
        /\ d.tables = disk.tables
    BY <1>1 DEF Database
  <2>2. Meddle(d) /\ disk.tables # {}
    BY <1>3 DEF AlterTable
  <2> HIDE DEF d
  <2>3. Sound(d)
    BY <1>1, <2>1, <2>2 DEF Sound, RowsAreSound, NewIsEmpty
  <2> QED
    BY <2>1, <2>2, <2>3, MeddleStep
<1>4. CASE ReplaceEventGuard
  <2>1. PICK g \in Guards : Meddle([disk EXCEPT !.event = g])
    BY <1>4 DEF ReplaceEventGuard
  <2> DEFINE d == [disk EXCEPT !.event = g]
  <2>2. d \in Database /\ d.version = disk.version
    BY <1>1 DEF Database
  <2>3. Sound(d)
    BY <1>1 DEF Sound, RowsAreSound, NewIsEmpty, Database
  <2> HIDE DEF d
  <2> QED
    BY <2>1, <2>2, <2>3, MeddleStep DEF d
<1>5. CASE ReplaceSidecarGuard
  <2>1. PICK g \in Guards : Meddle([disk EXCEPT !.sidecar = g])
    BY <1>5 DEF ReplaceSidecarGuard
  <2> DEFINE d == [disk EXCEPT !.sidecar = g]
  <2>2. d \in Database /\ d.version = disk.version
    BY <1>1 DEF Database
  <2>3. Sound(d)
    BY <1>1 DEF Sound, RowsAreSound, NewIsEmpty, Database
  <2> HIDE DEF d
  <2> QED
    BY <2>1, <2>2, <2>3, MeddleStep DEF d
<1>6. ASSUME NEW r \in Records, DeleteAudit(r) PROVE StorageInv'
  <2> DEFINE row == [disk.rows[r] EXCEPT !.audit = FALSE]
             d == [disk EXCEPT !.rows[r].audit = FALSE]
  <2>1. /\ row \in Row /\ row.state = disk.rows[r].state /\ row.origin = disk.rows[r].origin
        /\ row.fingerprint = disk.rows[r].fingerprint /\ (disk.rows[r] = NoRow => row = NoRow)
    <3>1. ASSUME NEW old \in Row, NEW new, new = [old EXCEPT !.audit = FALSE]
          PROVE  /\ new \in Row /\ new.state = old.state /\ new.origin = old.origin
                 /\ new.fingerprint = old.fingerprint /\ (old = NoRow => new = NoRow)
      <4>1. new \in Row /\ new.state = old.state /\ new.origin = old.origin
            /\ new.fingerprint = old.fingerprint
        BY <3>1 DEF Row
      <4>2. ~old.audit => new = old
        BY <3>1 DEF Row
      <4> QED
        BY <4>1, <4>2 DEF NoRow
    <3>2. disk.rows[r] \in Row
      BY <1>1 DEF Database
    <3> QED
      BY <3>1, <3>2
  <2>2. d = Changed(disk, r, row)
    BY DEF Changed
  <2> HIDE DEF row
  <2>3. /\ d \in Database /\ Objects(d) = Objects(disk) /\ d.version = disk.version
        /\ d.rows[r] = row /\ \A q \in Records \ {r} : d.rows[q] = disk.rows[q]
    <3> HIDE DEF d
    <3> QED
      BY <1>1, <2>1, <2>2, RowChanges
  <2>4. /\ d.tables = disk.tables /\ d.altered = disk.altered /\ d.legacy = disk.legacy
        /\ d.extra = disk.extra
    BY <1>1 DEF Database
  <2>5. Meddle(d)
    BY <1>6 DEF DeleteAudit
  <2> HIDE DEF d
  <2>6. RowsAreSound(d)
    BY <1>1, <2>1, <2>3 DEF Sound, RowsAreSound, Payload
  <2>7. NewIsEmpty(d)
    BY <1>1, <2>1, <2>3, <2>4 DEF Sound, NewIsEmpty
  <2> QED
    BY <2>3, <2>5, <2>6, <2>7, MeddleStep DEF Sound
<1> QED
  BY <1>2, <1>3, <1>4, <1>5, <1>6 DEF OtherProgram

LEMMA StorageInvStep == StorageInv /\ [Next]_vars => StorageInv'
<1> SUFFICES ASSUME StorageInv, [Next]_vars PROVE StorageInv'
  OBVIOUS
<1>1. ASSUME NEW c \in Conns, NEW call, NEW r, Writes(call, r), WriteStep(c, call, r)
      PROVE  StorageInv'
  BY <1>1, BeginStep, ContendedStep, CheckStep, ApplyCommandStep DEF WriteStep
<1>2. ASSUME NEW c \in Conns, ConnStep(c) PROVE StorageInv'
  BY <1>1, <1>2, ApplySetupStep, CommitStep, DryRunStep, ReadReadyStep, ReadActiveStep,
     CrashStep DEF ConnStep, Writes
<1>3. CASE UNCHANGED vars
  <2>1. UNCHANGED <<backend, disk, lock, work, job, reply, cached, moved, foreign>>
    BY <1>3 DEF vars
  <2>2. TypeOK' /\ Sound(disk)' /\ CacheIsAudited'
    BY <2>1 DEF StorageInv, TypeOK, Sound, NewIsEmpty, CacheIsAudited, Caching
  <2>3. ASSUME NEW c \in Conns PROVE StorageInv'
    <3>1. BoundaryOf(c)'
      <4>1. Ready(disk)' <=> Ready(disk)
        BY <2>1 DEF Ready, Compatible, Unclaimed
      <4>2. Ready(work)' <=> Ready(work)
        BY <2>1 DEF Ready, Compatible, Unclaimed
      <4>3. ResultIsSound(c)' <=> ResultIsSound(c)
        BY <2>1, <4>1, <4>2 DEF ResultIsSound, Sound, NewIsEmpty, CommandResult, SetupResult
      <4> QED
        BY <2>1, <4>1, <4>3 DEF StorageInv, Boundary, BoundaryOf, Took
    <3> QED
      BY <2>1, <2>2, <3>1, BoundaryKept DEF StorageInv
  <2>4. (Conns = {}) => Boundary'
    BY DEF Boundary
  <2> QED
    BY <2>2, <2>3, <2>4 DEF StorageInv
<1> QED
  BY <1>2, <1>3, OtherProgramStep DEF Next

-----------------------------------------------------------------------------
(* The theorems.                                                            *)

(* Every reachable state is well typed, its rows keep what the version of   *)
(* the database promises, only the owner of the write boundary has a write  *)
(* under way, what it will commit is already sound, and every usable marker *)
(* of the admission cache stands for an audit.                              *)
THEOREM StorageIsSound == Spec => []StorageInv
<1>1. Init => StorageInv
  BY StorageInvInit
<1>2. StorageInv /\ [Next]_vars => StorageInv'
  BY StorageInvStep
<1> QED
  BY <1>1, <1>2, PTL DEF Spec

(* No event of a ledger that serves commands carries a content fingerprint, *)
(* whatever migrations, repairs, crashes and outside changes came before.   *)
THEOREM FingerprintsStayGone == Spec => []FingerprintsAreGone
<1>1. StorageInv => FingerprintsAreGone
  BY DEF StorageInv, Sound, RowsAreSound, FingerprintsAreGone
<1> QED
  BY <1>1, StorageIsSound, PTL

(* Who can have ended a call, and how.                                      *)
LEMMA QuietEndsNothing ==
  ASSUME NEW c \in Conns, reply' = NoReply, NEW calls, NEW how, Ends(c, calls, how)
  PROVE  FALSE
BY StorageAssumption DEF Ends, NoReply

LEMMA ReturnEnds ==
  ASSUME NEW c, NEW d, NEW call, NEW how, NEW found, NEW calls, NEW way,
         Return(d, call, how, found), Ends(c, calls, way)
  PROVE  d = c /\ call \in calls /\ how = way /\ reply'.records = found
BY DEF Return, Ends

LEMMA DoneByCommit ==
  ASSUME StorageInv, Next, NEW c \in Conns, Ends(c, Commands \cup {"setup"}, "done")
  PROVE  Commit(c) /\ reply'.call = job[c].call
<1> DEFINE writes == Commands \cup {"setup"}
<1>1. "list_active" \notin writes /\ "dry_run" \notin writes
  BY DEF Commands
<1>2. ASSUME NEW d \in Conns, NEW call, NEW r, WriteStep(d, call, r) PROVE FALSE
  <2>1. reply' = NoReply \/ \E how \in {"contended", "refused", "rejected"} :
                              Return(d, call, how, {})
    BY <1>2 DEF WriteStep, Begin, Contended, Check, ApplyCommand, Takes, Execute, Rollback,
                End, Quiet
  <2> QED
    BY <2>1, QuietEndsNothing, ReturnEnds
<1>3. ASSUME NEW d \in Conns, ApplySetup(d) PROVE FALSE
  <2>1. reply' = NoReply \/ Return(d, "setup", "refused", {})
    BY <1>3 DEF ApplySetup, Takes, Execute, Rollback, End, Quiet
  <2> QED
    BY <2>1, QuietEndsNothing, ReturnEnds
<1>4. ASSUME NEW d \in Conns, DryRunVersion(d) \/ DryRunReport(d) PROVE FALSE
  <2>1. reply' = NoReply \/ \E how \in Outcomes : Return(d, "dry_run", how, {})
    BY <1>4 DEF DryRunVersion, DryRunReport, End, Quiet, Outcomes
  <2> QED
    BY <1>1, <2>1, QuietEndsNothing, ReturnEnds
<1>5. ASSUME NEW d \in Conns, ReadReady(d) PROVE FALSE
  <2>1. reply' = NoReply \/ Return(d, "list_active", "refused", {})
    BY <1>5 DEF ReadReady, End, Quiet
  <2> QED
    BY <1>1, <2>1, QuietEndsNothing, ReturnEnds
<1>6. ASSUME NEW d \in Conns, NEW S \in SUBSET Records, ReadActive(d, S) PROVE FALSE
  <2>1. \E how, found : Return(d, "list_active", how, found)
    BY <1>6 DEF ReadActive, End
  <2> QED
    BY <1>1, <2>1, ReturnEnds
<1>7. ASSUME NEW d \in Conns, Crash(d) PROVE FALSE
  BY <1>7, QuietEndsNothing DEF Crash, Quiet
<1>8. ASSUME OtherProgram PROVE FALSE
  <2>1. reply' = NoReply
    BY <1>8 DEF OtherProgram, AddObject, AlterTable, ReplaceEventGuard, ReplaceSidecarGuard,
                DeleteAudit, Meddle, Quiet
  <2> QED
    BY <2>1, QuietEndsNothing
<1>9. PICK d \in Conns : Commit(d)
  BY <1>2, <1>3, <1>4, <1>5, <1>6, <1>7, <1>8 DEF Next, ConnStep
<1>10. Return(d, job[d].call, "done", {})
  BY <1>9 DEF Commit, End
<1>11. d = c
  BY <1>10, ReturnEnds
<1> QED
  BY <1>9, <1>10, <1>11 DEF Return

(* On SQLite a command commits only on a database that is the ledger's own, *)
(* and on both backends leaves every table, index and guard as it was, the  *)
(* hard erase that suspends the guards included.                            *)
THEOREM CommandsAreGuarded == Spec => CommandsRunGuarded
<1>1. ASSUME StorageInv, [Next]_vars
      PROVE  [\A c \in Conns : Ends(c, Commands, "done") =>
                /\ Objects(disk') = Objects(disk)
                /\ backend = "sqlite" => Ready(disk)]_vars
  <2>1. CASE UNCHANGED vars
    BY <2>1
  <2>2. ASSUME Next, NEW c \in Conns, Ends(c, Commands, "done")
        PROVE  Objects(disk') = Objects(disk) /\ (backend = "sqlite" => Ready(disk))
    <3>1. Ends(c, Commands \cup {"setup"}, "done") /\ reply'.call \in Commands
      BY <2>2 DEF Ends
    <3>2. Commit(c) /\ job[c].call \in Commands
      BY <1>1, <2>2, <3>1, DoneByCommit
    <3>3. CommandResult(work)
      BY <1>1, <3>2 DEF Commit, StorageInv, Boundary, BoundaryOf, ResultIsSound
    <3> QED
      BY <3>2, <3>3 DEF Commit, CommandResult
  <2> QED
    BY <1>1, <2>1, <2>2
<1> QED
  BY <1>1, StorageIsSound, PTL DEF Spec, CommandsRunGuarded

(* A setup that succeeds leaves a database every command accepts, whatever  *)
(* it started from, and invents nothing about its records.                  *)
THEOREM SetupsAreSound == Spec => SetupIsSound
<1>1. ASSUME StorageInv, Next, NEW c \in Conns, Ends(c, {"setup"}, "done")
      PROVE  Ready(disk') /\ Sidecars(disk') /\ Carried(disk, disk')
  <2>1. Ends(c, Commands \cup {"setup"}, "done") /\ reply'.call = "setup"
    BY <1>1 DEF Ends
  <2>2. Commit(c) /\ job[c].call = "setup"
    BY <1>1, <2>1, DoneByCommit
  <2>3. SetupResult(work)
    BY <1>1, <2>2 DEF Commit, StorageInv, Boundary, BoundaryOf, ResultIsSound
  <2>4. disk' = work
    BY <2>2 DEF Commit
  <2> QED
    BY <2>3, <2>4 DEF SetupResult
<1>2. ASSUME StorageInv, [Next]_vars
      PROVE  [\A c \in Conns : Ends(c, {"setup"}, "done") => Ready(disk') /\ Sidecars(disk')]_vars
  BY <1>1, <1>2
<1>3. ASSUME StorageInv, [Next]_vars
      PROVE  [\A c \in Conns : Ends(c, {"setup"}, "done") => \A r \in Records :
                LET old == disk.rows[r]  new == disk'.rows[r]
                IN /\ new.state = old.state /\ new.audit = old.audit
                   /\ \/ new.origin = old.origin
                      \/ Payload(old) /\ old.origin = "none"
                         /\ new.origin = "legacy_unknown"]_vars
  BY <1>1, <1>3 DEF Carried
<1>4. Spec => SetupLeavesReady
  BY <1>2, StorageIsSound, PTL DEF Spec, SetupLeavesReady
<1>5. Spec => NothingIsInvented
  BY <1>3, StorageIsSound, PTL DEF Spec, NothingIsInvented
<1> QED
  BY <1>4, <1>5, PTL DEF SetupIsSound

(* A read that ends is a read of one snapshot.                              *)
LEMMA ReadEnds ==
  ASSUME StorageInv, Next, NEW c \in Conns, NEW way, Ends(c, {"list_active"}, way)
  PROVE  ReadReady(c) \/ \E S \in SUBSET Records : ReadActive(c, S)
<1>1. ASSUME NEW d \in Conns, NEW call \in Commands \cup {"setup"}, NEW r, WriteStep(d, call, r)
      PROVE  FALSE
  <2>1. reply' = NoReply \/ \E how : Return(d, call, how, {})
    BY <1>1 DEF WriteStep, Begin, Contended, Check, ApplyCommand, Takes, Execute, Rollback,
                End, Quiet
  <2> QED
    BY <2>1, QuietEndsNothing, ReturnEnds DEF Commands
<1>2. ASSUME NEW d \in Conns, ApplySetup(d) PROVE FALSE
  <2>1. reply' = NoReply \/ Return(d, "setup", "refused", {})
    BY <1>2 DEF ApplySetup, Takes, Execute, Rollback, End, Quiet
  <2> QED
    BY <2>1, QuietEndsNothing, ReturnEnds
<1>3. ASSUME NEW d \in Conns, Commit(d) PROVE FALSE
  <2>1. Return(d, job[d].call, "done", {}) /\ job[d].call \in Commands \cup {"setup"}
    BY <1>3 DEF Commit, End, StorageInv, Boundary, BoundaryOf, ResultIsSound
  <2> QED
    BY <2>1, ReturnEnds DEF Commands
<1>4. ASSUME NEW d \in Conns, DryRunVersion(d) \/ DryRunReport(d) PROVE FALSE
  <2>1. reply' = NoReply \/ \E how : Return(d, "dry_run", how, {})
    BY <1>4 DEF DryRunVersion, DryRunReport, End, Quiet
  <2> QED
    BY <2>1, QuietEndsNothing, ReturnEnds
<1>5. ASSUME NEW d \in Conns, Crash(d) PROVE FALSE
  BY <1>5, QuietEndsNothing DEF Crash, Quiet
<1>6. ASSUME OtherProgram PROVE FALSE
  <2>1. reply' = NoReply
    BY <1>6 DEF OtherProgram, AddObject, AlterTable, ReplaceEventGuard, ReplaceSidecarGuard,
                DeleteAudit, Meddle, Quiet
  <2> QED
    BY <2>1, QuietEndsNothing
<1>7. PICK d \in Conns : ReadReady(d) \/ \E S \in SUBSET Records : ReadActive(d, S)
  BY <1>1, <1>2, <1>3, <1>4, <1>5, <1>6 DEF Next, ConnStep
<1>8. reply' = NoReply \/ \E call, how, found : Return(d, call, how, found)
  BY <1>7 DEF ReadReady, ReadActive, End, Quiet
<1>9. d = c
  BY <1>8, QuietEndsNothing, ReturnEnds
<1> QED
  BY <1>7, <1>9

(* An active read never returns a record of concrete origin whose allow     *)
(* audit is gone, whatever the cache of this connection remembers.          *)
THEOREM ServedRecordsAreAudited == Spec => ServedIsAudited
<1>1. ASSUME StorageInv, Next, NEW c \in Conns, Ends(c, {"list_active"}, "done")
      PROVE  reply'.records \cap ConcreteActive(disk) \subseteq Audited(disk)
  <2>1. ~ReadReady(c)
    <3>1. ReadReady(c) => reply' = NoReply \/ Return(c, "list_active", "refused", {})
      BY DEF ReadReady, End, Quiet
    <3> QED
      BY <1>1, <3>1, QuietEndsNothing, ReturnEnds
  <2>2. PICK S \in SUBSET Records : ReadActive(c, S)
    BY <1>1, <2>1, ReadEnds
  <2> DEFINE all == S \cap ConcreteActive(disk)
             found == {r \in S : disk.rows[r].state = "active"}
  <2>3. \/ /\ all \subseteq KnownAfterEviction(c, all) \cup Passing(c, all)
           /\ Return(c, "list_active", "done", found)
        \/ Return(c, "list_active", "refused", {})
    BY <2>2 DEF ReadActive, End
  <2>4. /\ all \subseteq KnownAfterEviction(c, all) \cup Passing(c, all)
        /\ reply'.records = found
    <3> HIDE DEF all, found
    <3>1. ~Return(c, "list_active", "refused", {})
      BY <1>1, ReturnEnds
    <3>2. Return(c, "list_active", "done", found) => reply'.records = found
      BY <1>1, ReturnEnds
    <3> QED
      BY <2>3, <3>1, <3>2
  <2>5. all \subseteq Audited(disk)
    BY <1>1, <2>4, KnownIsAudited
  <2> QED
    BY <2>4, <2>5
<1>2. ASSUME StorageInv, [Next]_vars
      PROVE  [\A c \in Conns : Ends(c, {"list_active"}, "done") =>
                reply'.records \cap ConcreteActive(disk) \subseteq Audited(disk)]_vars
  BY <1>1, <1>2
<1> QED
  BY <1>2, StorageIsSound, PTL DEF Spec, ServedIsAudited

LEMMA SetupRefusedForACause ==
  ASSUME StorageInv, Refusable(disk)
  PROVE  \/ disk.version # MIGRATION_VERSION
         \/ ~Ready(disk)
         \/ ~(ConcreteActive(disk) \subseteq Audited(disk))
<1> SUFFICES ASSUME disk.version = 7, Ready(disk), ConcreteActive(disk) \subseteq Audited(disk)
             PROVE  FALSE
  BY DEF MIGRATION_VERSION
<1>0. disk.version = 7 /\ disk.version # 0 /\ ~(disk.version > MIGRATION_VERSION)
  BY DEF MIGRATION_VERSION
<1>1. backend \in {"sqlite", "postgres"} /\ RowsAreSound(disk) /\ Compatible(disk, FALSE)
  BY DEF StorageInv, TypeOK, Sound, Ready
<1>2. Compatible(disk, TRUE)
  <2>1. CASE backend = "sqlite"
    <3>1. SqliteMatches(disk, FALSE)
      BY <1>0, <1>1, <2>1, CompatibleOnSqlite
    <3>2. SqliteMatches(disk, TRUE)
      BY <3>1 DEF SqliteMatches, GuardsMatch, GuardAccepted
    <3> QED
      BY <1>0, <2>1, <3>2, CompatibleOnSqlite
  <2>2. CASE backend = "postgres"
    <3>1. PostgresMatches(disk, FALSE)
      BY <1>0, <1>1, <2>2, CompatibleOnPostgres
    <3>2. PostgresMatches(disk, TRUE)
      BY <3>1 DEF PostgresMatches, GuardAccepted
    <3> QED
      BY <1>0, <2>2, <3>2, CompatibleOnPostgres
  <2> QED
    BY <1>1, <2>1, <2>2
<1>3. Sidecars(disk)
  BY <1>1 DEF Sidecars, RowsAreSound, AdmissionGuardVersion
<1> QED
  BY <1>0, <1>2, <1>3 DEF Refusable

(* A read, a command or a setup is refused only for a version, an object or *)
(* a guard that is not the ledger's own, or an audit that is gone.          *)
THEOREM RefusalsAreJustified == Spec => RefusalsHaveACause
<1> DEFINE Cause == \/ disk.version # MIGRATION_VERSION
                    \/ ~Ready(disk)
                    \/ ~(ConcreteActive(disk) \subseteq Audited(disk))
           refusable == Calls \ {"dry_run"}
<1>1. ASSUME NEW c \in Conns, NEW d \in Conns, NEW call, NEW r, WriteStep(d, call, r),
             Ends(c, refusable, "refused")
      PROVE  Cause
  <2>1. \/ reply' = NoReply
        \/ \E how \in {"contended", "rejected"} : Return(d, call, how, {})
        \/ ~Ready(disk)
    BY <1>1 DEF WriteStep, Begin, Contended, Check, ApplyCommand, Takes, Execute, Rollback,
                End, Quiet
  <2> QED
    BY <1>1, <2>1, QuietEndsNothing, ReturnEnds
<1>2. ASSUME StorageInv, NEW c \in Conns, NEW d \in Conns, ApplySetup(d),
             Ends(c, refusable, "refused")
      PROVE  Cause
  <2>1. reply' = NoReply \/ Refusable(disk)
    BY <1>2 DEF ApplySetup, Execute, Takes, Quiet
  <2> QED
    BY <1>2, <2>1, QuietEndsNothing, SetupRefusedForACause
<1>3. ASSUME NEW c \in Conns, NEW d \in Conns, Commit(d), Ends(c, refusable, "refused")
      PROVE  FALSE
  <2>1. Return(d, job[d].call, "done", {})
    BY <1>3 DEF Commit, End
  <2> QED
    BY <1>3, <2>1, ReturnEnds
<1>4. ASSUME NEW c \in Conns, NEW d \in Conns, DryRunVersion(d) \/ DryRunReport(d),
             Ends(c, refusable, "refused")
      PROVE  FALSE
  <2>1. reply' = NoReply \/ \E how : Return(d, "dry_run", how, {})
    BY <1>4 DEF DryRunVersion, DryRunReport, End, Quiet
  <2> QED
    BY <1>4, <2>1, QuietEndsNothing, ReturnEnds
<1>5. ASSUME NEW c \in Conns, NEW d \in Conns, ReadReady(d), Ends(c, refusable, "refused")
      PROVE  Cause
  <2>1. reply' = NoReply \/ ~Ready(disk)
    BY <1>5 DEF ReadReady, Quiet
  <2> QED
    BY <1>5, <2>1, QuietEndsNothing
<1>6. ASSUME NEW c \in Conns, NEW d \in Conns, NEW S \in SUBSET Records, ReadActive(d, S),
             Ends(c, refusable, "refused")
      PROVE  Cause
  <2> DEFINE all == S \cap ConcreteActive(disk)
             known == KnownAfterEviction(d, all)
             passing == Passing(d, all)
  <2>1. \/ ~(all \subseteq known \cup passing)
        \/ \E found : Return(d, "list_active", "done", found)
    BY <1>6 DEF ReadActive
  <2>2. ~(all \subseteq known \cup passing)
    <3> HIDE DEF all, known, passing, refusable
    <3> QED
      BY <1>6, <2>1, ReturnEnds
  <2>3. PICK r \in all : r \notin known /\ r \notin passing
    BY <2>2
  <2>4. r \notin Audited(disk)
    BY <2>3 DEF Passing, Fetched
  <2> QED
    BY <2>3, <2>4
<1>7. ASSUME NEW c \in Conns, NEW d \in Conns, Crash(d), Ends(c, refusable, "refused")
      PROVE  FALSE
  BY <1>7, QuietEndsNothing DEF Crash, Quiet
<1>8. ASSUME NEW c \in Conns, OtherProgram, Ends(c, refusable, "refused")
      PROVE  FALSE
  <2>1. reply' = NoReply
    BY <1>8 DEF OtherProgram, AddObject, AlterTable, ReplaceEventGuard, ReplaceSidecarGuard,
                DeleteAudit, Meddle, Quiet
  <2> QED
    BY <1>8, <2>1, QuietEndsNothing
<1>9. ASSUME StorageInv, Next, NEW c \in Conns, Ends(c, refusable, "refused")
      PROVE  Cause
  <2> HIDE DEF Cause, refusable
  <2> QED
    BY <1>1, <1>2, <1>3, <1>4, <1>5, <1>6, <1>7, <1>8, <1>9 DEF Next, ConnStep
<1>10. ASSUME StorageInv, [Next]_vars
       PROVE  [\A c \in Conns : Ends(c, Calls \ {"dry_run"}, "refused") =>
                 \/ disk.version # MIGRATION_VERSION
                 \/ ~Ready(disk)
                 \/ ~(ConcreteActive(disk) \subseteq Audited(disk))]_vars
  BY <1>9, <1>10
<1> QED
  BY <1>10, StorageIsSound, PTL DEF Spec, RefusalsHaveACause
=============================================================================
