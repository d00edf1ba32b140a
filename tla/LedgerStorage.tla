----------------------------- MODULE LedgerStorage -----------------------------
(***************************************************************************)
(* What the ledger's storage promises below its commands: the explicit     *)
(* setup with its migrations, the check of every ledger object that each   *)
(* call makes, the append-only guards and their suspension in a hard       *)
(* erase, and the cache of admission checks.  One database, several ledger *)
(* connections, and other programs that change its objects.                *)
(*                                                                         *)
(* SQLite (ledger/sqlite.py): BEGIN IMMEDIATE keeps every other writer,    *)
(* DDL included, out; guards are triggers that a hard erase drops and      *)
(* reinstalls.  PostgreSQL (ledger/postgres.py): an advisory lock keeps    *)
(* other ledgers out, but not DDL, until the transaction has touched its   *)
(* tables; a hard erase sets a transaction-local switch; setup is from     *)
(* nothing only and nothing is cached.                                     *)
(*                                                                         *)
(* Abstracted: the columns, indexes and signatures of the tables (exact or *)
(* altered), the six sidecar guards (one), lifecycle detail beyond what    *)
(* the sidecars depend on (module MemoryLedger), the checkpoint sidecars.  *)
(***************************************************************************)
EXTENDS Integers, FiniteSets, TLC

CONSTANTS
  Conns,         \* connections of hosts to the database
  Records,       \* record identifiers
  Legacy,        \* records that an earlier release may have left behind
  MaxCached,     \* _ACTIVE_ADMISSION_CACHE_MAX_ENTRIES
  MaxForeign,    \* bound: changes made by other programs
  Nil

VARIABLES
  backend,   \* "sqlite" or "postgres"
  disk,      \* the committed database
  lock,      \* the connection that owns the write boundary, or Nil
  work,      \* the database as the open write transaction has changed it, or Nil
  job,       \* by connection: the call it executes
  reply,     \* the result that the last step returned to its caller, or NoReply
  cached,    \* by connection: _active_admission_cache
  moved,     \* by connection: data_version or total_changes moved since it was filled
  foreign    \* changes other programs made

vars == <<backend, disk, lock, work, job, reply, cached, moved, foreign>>

-----------------------------------------------------------------------------
(* The database.                                                            *)

MIGRATION_VERSION == 7
EventGuardVersion == 4
AdmissionGuardVersion == 5

(* A guard of the right name is absent, exact, defined differently on the   *)
(* right table, or owned by another table.                                  *)
Guards == {"absent", "exact", "weak", "elsewhere"}

(* fingerprint: the creation event still carries a content hash.            *)
Row == [state : {"none", "candidate", "active", "forgotten", "erased"},
        origin : {"none", "unknown", "legacy_unknown", "concrete"},
        audit : BOOLEAN, fingerprint : BOOLEAN]

(* tables: the versions whose tables and indexes exist; extra: a trigger or *)
(* an index of somebody else on a ledger table; legacy: the generic guard   *)
(* of the first versions.                                                   *)
Database == [version : 0 .. 8, tables : SUBSET (1 .. 7), altered : BOOLEAN, extra : BOOLEAN,
             event : Guards, sidecar : Guards, legacy : BOOLEAN, rows : [Records -> Row]]

ASSUME StorageAssumption ==
  /\ Nil \notin Conns \cup Records
  /\ Nil \notin Database
  /\ MaxForeign \in Nat

NoRow == [state |-> "none", origin |-> "none", audit |-> FALSE, fingerprint |-> FALSE]

Payload(row) == row.state \in {"candidate", "active"}
Concrete(row) == row.state = "active" /\ row.origin = "concrete"

ConcreteActive(d) == {r \in Records : Concrete(d.rows[r])}
Audited(d) == {r \in Records : d.rows[r].audit}

(* A row as the code of version v left it.                                  *)
RowOf(v) ==
  IF v = 0 THEN {NoRow}
  ELSE {row \in Row : /\ row.state # "erased"
                      /\ row.fingerprint = (v < EventGuardVersion /\ row.state # "none")
                      /\ row.origin = "none" <=> v < AdmissionGuardVersion \/ row.state = "none"
                      /\ row.audit <=> Concrete(row)}

(* A database that some release of the ledger set up.                       *)
Installed(v) ==
  {[version |-> v, tables |-> 1 .. (IF v > 7 THEN 7 ELSE v), altered |-> FALSE, extra |-> FALSE,
    event |-> IF v < EventGuardVersion THEN "absent" ELSE "exact",
    sidecar |-> IF v < AdmissionGuardVersion THEN "absent" ELSE "exact",
    legacy |-> v \in 1 .. 3, rows |-> [r \in Records |-> IF r \in Legacy THEN rows[r] ELSE NoRow]] :
     rows \in [Legacy -> RowOf(v)]}

(* PostgreSQL came with version 7.                                          *)
PostgresInstalled == UNION {Installed(v) : v \in {0, 7, 8}}

-----------------------------------------------------------------------------
(* _assert_schema_compatible_locked.                                        *)

FutureTables(v) ==
  IF v < 5 THEN {5, 6, 7} ELSE IF v = 5 THEN {6, 7} ELSE IF v = 6 THEN {7} ELSE {}

Unclaimed(d) ==
  /\ d.tables = {} /\ d.event = "absent" /\ d.sidecar = "absent"
  /\ backend = "postgres" => ~d.extra

TablesMatch(d) ==
  /\ ~d.altered
  /\ ~d.extra
  /\ d.legacy => d.version < EventGuardVersion
  /\ d.tables \cap FutureTables(d.version) = {}
  /\ d.version < AdmissionGuardVersion => d.sidecar = "absent"
  /\ \A v \in 1 .. 7 : v <= d.version => v \in d.tables

(* With repair, a guard may be missing or weak but not owned elsewhere.     *)
GuardAccepted(g, repair) == g = "exact" \/ (repair /\ g # "elsewhere")

GuardsMatch(d, repair) ==
  /\ "elsewhere" \notin {d.event, d.sidecar}
  /\ d.version >= EventGuardVersion => GuardAccepted(d.event, repair)
  /\ d.version >= AdmissionGuardVersion => GuardAccepted(d.sidecar, repair)

SqliteMatches(d, repair) == TablesMatch(d) /\ GuardsMatch(d, repair)

(* PostgreSQL knows one version.  Columns, storage, sequence, constraints   *)
(* and indexes are the ledger's own; no child table, policy, rewrite rule,  *)
(* function or trigger of somebody else is attached to them.                *)
TablesAreOwn(d) == d.tables = 1 .. MIGRATION_VERSION /\ ~d.altered
NothingAttached(d) == ~d.extra

PostgresMatches(d, repair) ==
  /\ d.version = MIGRATION_VERSION
  /\ TablesAreOwn(d)
  /\ NothingAttached(d)
  /\ GuardAccepted(d.event, repair) /\ GuardAccepted(d.sidecar, repair)

Compatible(d, repair) ==
  CASE d.version = 0 -> Unclaimed(d)
    [] d.version # 0 /\ backend = "sqlite" -> SqliteMatches(d, repair)
    [] d.version # 0 /\ backend = "postgres" -> PostgresMatches(d, repair)

(* _validate_admission_sidecars_locked: every payload has an origin, every  *)
(* active record of a concrete origin an allow audit.                       *)
Sidecars(d) ==
  d.version >= 5 => /\ \A r \in Records : Payload(d.rows[r]) => d.rows[r].origin # "none"
                    /\ ConcreteActive(d) \subseteq Audited(d)

Ready(d) == d.version = MIGRATION_VERSION /\ Compatible(d, FALSE)

-----------------------------------------------------------------------------
(* setup.                                                                   *)

Refusable(d) ==
  \/ ~Compatible(d, TRUE)
  \/ ~Sidecars(d)
  \/ d.version > MIGRATION_VERSION

GuardsKept(d) ==
  [d EXCEPT !.event = IF @ = "absent" THEN "exact" ELSE @,
            !.sidecar = IF @ = "absent" THEN "exact" ELSE @]

(* Drop what carries the owned name, create the exact guard, and prove by a *)
(* probe inside a savepoint that it fires.                                  *)
EnsureEventGuard(d) == [d EXCEPT !.event = "exact"]
EnsureSidecarGuards(d) == [d EXCEPT !.sidecar = "exact"]
EnsureGuards(d) == EnsureSidecarGuards(EnsureEventGuard(d))

(* PostgreSQL replaces the functions, drops and creates the triggers.       *)
InstallGuards(d) == [d EXCEPT !.event = "exact", !.sidecar = "exact"]

DropEventGuards(d) == [d EXCEPT !.event = "absent", !.legacy = FALSE]

RowsScrubbed(d) == [d EXCEPT !.rows = [r \in Records |-> [@[r] EXCEPT !.fingerprint = FALSE]]]

ScrubFingerprintsLate(d) == IF d.version < 3 THEN RowsScrubbed(DropEventGuards(d)) ELSE d

ScrubFingerprints(d) ==
  IF d.version < EventGuardVersion THEN RowsScrubbed(DropEventGuards(d)) ELSE d

BackfillOrigins(d) ==
  IF d.version >= 5 THEN d
  ELSE [d EXCEPT !.rows = [r \in Records |->
          IF Payload(@[r]) /\ @[r].origin = "none"
          THEN [@[r] EXCEPT !.origin = "legacy_unknown"] ELSE @[r]]]

Migrate(d) ==
  IF d.version = MIGRATION_VERSION THEN EnsureGuards(d)
  ELSE EnsureGuards([BackfillOrigins(ScrubFingerprints(d))
                       EXCEPT !.tables = 1 .. 7, !.version = MIGRATION_VERSION])

(* PostgreSQL creates everything, or repairs the guards.                    *)
Fresh(d) == InstallGuards([d EXCEPT !.tables = 1 .. 7, !.version = MIGRATION_VERSION])
CreateOrRepair(d) == IF d.version = 0 THEN Fresh(d) ELSE InstallGuards(d)

SetUp(d) == IF backend = "sqlite" THEN Migrate(d) ELSE CreateOrRepair(d)

-----------------------------------------------------------------------------
(* The commands that add, allow and delete sidecars; the others run through *)
(* the same transaction and leave the sidecars alone.                       *)

Changed(d, r, row) == [d EXCEPT !.rows[r] = row]

CreateCandidate(d, r, o) == Changed(d, r, [NoRow EXCEPT !.state = "candidate", !.origin = o])
Confirm(d, r) ==
  Changed(d, r, [d.rows[r] EXCEPT !.state = "active", !.audit = d.rows[r].origin = "concrete"])
EraseRows(d, r) == Changed(d, r, [NoRow EXCEPT !.state = "erased"])

(* SQLite: the sidecar guards are dropped for the deletion and reinstalled  *)
(* before the transaction can commit.  PostgreSQL: a setting local to the   *)
(* transaction lets the guards pass the deletion.                           *)
DropSidecarGuards(d) == [d EXCEPT !.sidecar = "absent"]
EraseOnSqlite(d, r) == EnsureSidecarGuards(EraseRows(DropSidecarGuards(d), r))
EraseOnPostgres(d, r) == EraseRows(d, r)

Erase(d, r) == IF backend = "sqlite" THEN EraseOnSqlite(d, r) ELSE EraseOnPostgres(d, r)

Effects(d, call, r) ==
  CASE call = "create" /\ d.rows[r].state = "none" ->
         {CreateCandidate(d, r, o) : o \in {"unknown", "concrete"}}
    [] call = "confirm" /\ d.rows[r].state = "candidate" -> {Confirm(d, r)}
    [] call = "erase" /\ d.rows[r].state \notin {"none", "erased"} -> {Erase(d, r)}
    [] OTHER -> {}

Commands == {"create", "confirm", "erase"}
Calls == Commands \cup {"setup", "dry_run", "list_active"}

-----------------------------------------------------------------------------
(* States.                                                                  *)

NoJob == [call |-> "none", record |-> Nil, done |-> {}, version |-> 0]
Steps == {"begin", "ready", "apply"}
NoReply == [to |-> Nil, call |-> "none", how |-> "none", records |-> {}]
Outcomes == {"done", "refused", "rejected", "contended"}
Reply == [to : Conns, call : Calls, how : Outcomes, records : SUBSET Records]

TypeOK ==
  /\ backend \in {"sqlite", "postgres"}
  /\ disk \in Database
  /\ lock \in Conns \cup {Nil}
  /\ work \in Database \cup {Nil}
  /\ job \in [Conns -> [call : Calls \cup {"none"}, record : Records \cup {Nil},
                        done : SUBSET Steps, version : 0 .. 8]]
  /\ reply \in Reply \cup {NoReply}
  /\ cached \in [Conns -> SUBSET Records]
  /\ moved \in [Conns -> BOOLEAN]
  /\ foreign \in 0 .. MaxForeign

Init ==
  /\ backend \in {"sqlite", "postgres"}
  /\ disk \in IF backend = "sqlite" THEN UNION {Installed(v) : v \in 0 .. 8} ELSE PostgresInstalled
  /\ lock = Nil /\ work = Nil
  /\ job = [c \in Conns |-> NoJob]
  /\ reply = NoReply
  /\ cached = [c \in Conns |-> {}]
  /\ moved = [c \in Conns |-> TRUE]
  /\ foreign = 0

markers == <<cached, moved>>

Doing(c, call) == job[c].call = call
Took(c, step) == step \in job[c].done
Quiet == reply' = NoReply

Takes(c, call, r, step) ==
  /\ job' = [job EXCEPT ![c] = [job[c] EXCEPT !.call = call, !.record = r, !.done = @ \cup {step}]]
  /\ Quiet

Return(c, call, how, found) ==
  /\ job' = [job EXCEPT ![c] = NoJob]
  /\ reply' = [to |-> c, call |-> call, how |-> how, records |-> found]

End(c, call, how) == Return(c, call, how, {})

Release(c) ==
  /\ lock' = IF lock = c THEN Nil ELSE lock
  /\ work' = IF lock = c THEN Nil ELSE work

Rollback(c, call, how) == End(c, call, how) /\ Release(c)

(* The order of a write: first the boundary, then the check, then the       *)
(* statements (_ready_write_transaction_locked).                            *)
CheckFirst(call) == IF call \in Commands THEN <<"ready", "begin", "apply">> ELSE <<"begin", "apply">>
WriteOrder(call) == IF call \in Commands THEN <<"begin", "ready", "apply">> ELSE <<"begin", "apply">>

(* The call of c on record r is about to take this step.                    *)
At(c, call, r, step) ==
  /\ IF job[c] = NoJob
     THEN call \in Commands <=> r # Nil
     ELSE call = job[c].call /\ r = job[c].record
  /\ \E i \in DOMAIN WriteOrder(call) :
       /\ WriteOrder(call)[i] = step
       /\ job[c].done = {WriteOrder(call)[k] : k \in 1 .. i - 1}

-----------------------------------------------------------------------------
(* A write transaction.                                                     *)

Begin(c, call, r) ==
  /\ At(c, call, r, "begin")
  /\ lock = Nil
  /\ lock' = c
  /\ Takes(c, call, r, "begin")
  /\ UNCHANGED <<backend, disk, work, markers, foreign>>

(* The busy timeout of SQLite, the lock_timeout of PostgreSQL.              *)
Contended(c, call, r) ==
  /\ At(c, call, r, "begin")
  /\ lock \notin {Nil, c}
  /\ End(c, call, "contended")
  /\ UNCHANGED <<backend, disk, lock, work, markers, foreign>>

Check(c, call, r) ==
  /\ At(c, call, r, "ready")
  /\ \/ /\ Ready(disk)
        /\ Takes(c, call, r, "ready")
        /\ UNCHANGED <<lock, work>>
     \/ /\ ~Ready(disk)
        /\ Rollback(c, call, "refused")
  /\ UNCHANGED <<backend, disk, markers, foreign>>

Execute(c, call, r, result) ==
  /\ work' = result
  /\ Takes(c, call, r, "apply")
  /\ moved' = [moved EXCEPT ![c] = TRUE]
  /\ UNCHANGED lock

ApplyCommand(c, call, r) ==
  /\ call \in Commands
  /\ At(c, call, r, "apply")
  /\ \/ \E result \in Effects(disk, call, r) : Execute(c, call, r, result)
     \/ /\ Effects(disk, call, r) = {}
        /\ Rollback(c, call, "rejected")
        /\ UNCHANGED moved
  /\ UNCHANGED <<backend, disk, cached, foreign>>

ApplySetup(c) ==
  /\ At(c, "setup", Nil, "apply")
  /\ \/ ~Refusable(disk) /\ Execute(c, "setup", Nil, SetUp(disk))
     \/ /\ Refusable(disk)
        /\ Rollback(c, "setup", "refused")
        /\ UNCHANGED moved
  /\ UNCHANGED <<backend, disk, cached, foreign>>

Commit(c) ==
  /\ Took(c, "apply")
  /\ disk' = work
  /\ work' = Nil /\ lock' = Nil
  /\ End(c, job[c].call, "done")
  /\ moved' = [d \in Conns |-> TRUE]
  /\ UNCHANGED <<backend, cached, foreign>>

(* The process dies, or a statement fails: the database rolls back.         *)
Crash(c) ==
  /\ job[c] # NoJob
  /\ Release(c)
  /\ job' = [job EXCEPT ![c] = NoJob]
  /\ Quiet
  /\ cached' = [cached EXCEPT ![c] = {}]
  /\ moved' = [moved EXCEPT ![c] = TRUE]
  /\ UNCHANGED <<backend, disk, foreign>>

-----------------------------------------------------------------------------
(* dry_run_setup reads the version and the objects in two statements.       *)

(* PostgreSQL trusts the version only of a table that is its own.           *)
VersionRefused(d) == backend = "postgres" /\ d.version # 0 /\ d.altered

DryRunVersion(c) ==
  /\ job[c] = NoJob
  /\ \/ /\ job' = [job EXCEPT ![c] = [NoJob EXCEPT !.call = "dry_run", !.version = disk.version]]
        /\ Quiet
     \/ VersionRefused(disk) /\ End(c, "dry_run", "refused")
  /\ UNCHANGED <<backend, disk, lock, work, markers, foreign>>

Supported(v) == IF backend = "sqlite" THEN v <= MIGRATION_VERSION ELSE v \in {0, MIGRATION_VERSION}

DryRunReport(c) ==
  /\ Doing(c, "dry_run")
  /\ LET seen == [disk EXCEPT !.version = job[c].version]
     IN End(c, "dry_run", IF Compatible(seen, FALSE) /\ Sidecars(seen) /\ Supported(seen.version)
                          THEN "done" ELSE "refused")
  /\ UNCHANGED <<backend, disk, lock, work, markers, foreign>>

-----------------------------------------------------------------------------
(* list_active: the check, then one snapshot.                               *)

ReadReady(c) ==
  /\ job[c] = NoJob
  /\ IF Ready(disk)
     THEN job' = [job EXCEPT ![c] = [NoJob EXCEPT !.call = "list_active"]] /\ Quiet
     ELSE End(c, "list_active", "refused")
  /\ UNCHANGED <<backend, disk, lock, work, markers, foreign>>

Caching == backend = "sqlite"

KeptWhateverMoved(c) == cached[c]

(* _refresh_active_admission_cache_locked: any change of the epoch empties  *)
(* the cache.                                                               *)
Refreshed(c) == IF Caching /\ ~moved[c] THEN cached[c] ELSE {}

Capacity(known, all) == Caching /\ Cardinality(known \cup all) <= MaxCached

(* The capacity is settled before the audits are selected: the records      *)
(* whose audits are fetched are the ones that no kept marker covers.        *)
KnownAfterEviction(c, all) ==
  IF Capacity(Refreshed(c), all) THEN Refreshed(c) ELSE {}

FetchedBeforeEviction(c, all) == all \ Refreshed(c)
Fetched(c, all) == all \ KnownAfterEviction(c, all)

(* An audit passes when it parses and agrees with its record and its event. *)
Passing(c, all) == Fetched(c, all) \cap Audited(disk)

(* S: the records in the scope and the window of this read.  Some of the    *)
(* markers checked before a failure are already in the cache.               *)
ReadActive(c, S) ==
  /\ Doing(c, "list_active")
  /\ LET all == S \cap ConcreteActive(disk)
         known == KnownAfterEviction(c, all)
         passing == Passing(c, all)
         keeps == Capacity(known, all)
     IN \/ /\ all \subseteq known \cup passing
           /\ Return(c, "list_active", "done", {r \in S : disk.rows[r].state = "active"})
           /\ cached' = [cached EXCEPT ![c] = IF keeps THEN known \cup passing ELSE {}]
        \/ /\ ~(all \subseteq known \cup passing)
           /\ End(c, "list_active", "refused")
           /\ \E some \in SUBSET passing :
                cached' = [cached EXCEPT ![c] = IF keeps THEN known \cup some ELSE {}]
  /\ moved' = [moved EXCEPT ![c] = FALSE]
  /\ UNCHANGED <<backend, disk, lock, work, foreign>>

-----------------------------------------------------------------------------
(* Other programs.  On SQLite they need the write lock; on PostgreSQL they  *)
(* are kept out only once the open transaction has changed its tables.      *)

Outside == IF backend = "sqlite" THEN lock = Nil ELSE work = Nil

Meddle(d) ==
  /\ Outside
  /\ foreign < MaxForeign
  /\ d # disk
  /\ disk' = d
  /\ foreign' = foreign + 1
  /\ moved' = [c \in Conns |-> TRUE]
  /\ Quiet
  /\ UNCHANGED <<backend, lock, work, job, cached>>

AddObject == (disk.tables # {} \/ backend = "postgres") /\ Meddle([disk EXCEPT !.extra = ~@])
AlterTable == disk.tables # {} /\ Meddle([disk EXCEPT !.altered = TRUE])
ReplaceEventGuard ==
  \E g \in Guards : disk.version >= EventGuardVersion /\ Meddle([disk EXCEPT !.event = g])
ReplaceSidecarGuard ==
  \E g \in Guards : disk.version >= AdmissionGuardVersion /\ Meddle([disk EXCEPT !.sidecar = g])

(* A program that drops the guards and puts them back can delete an audit.  *)
DeleteAudit(r) == Meddle([disk EXCEPT !.rows[r].audit = FALSE])

OtherProgram ==
  \/ AddObject \/ AlterTable
  \/ ReplaceEventGuard \/ ReplaceSidecarGuard
  \/ \E r \in Records : DeleteAudit(r)

-----------------------------------------------------------------------------
WriteStep(c, call, r) ==
  \/ Begin(c, call, r) \/ Contended(c, call, r)
  \/ Check(c, call, r) \/ ApplyCommand(c, call, r)

ConnStep(c) ==
  \/ \E call \in Commands, r \in Records : WriteStep(c, call, r)
  \/ WriteStep(c, "setup", Nil)
  \/ ApplySetup(c) \/ Commit(c)
  \/ DryRunVersion(c) \/ DryRunReport(c)
  \/ ReadReady(c) \/ (\E S \in SUBSET Records : ReadActive(c, S))
  \/ Crash(c)

Next == (\E c \in Conns : ConnStep(c)) \/ OtherProgram

Spec == Init /\ [][Next]_vars

\* No guard reads the reply, and the properties look at it only after a step:
\* two states that differ in nothing else have the same future.
Unreplied == <<backend, disk, lock, work, job, cached, moved, foreign>>

Interchangeable == Permutations(Conns)

-----------------------------------------------------------------------------
Ends(c, calls, how) ==
  /\ reply'.to = c /\ reply'.call \in calls /\ reply'.how = how

Objects(d) == [d EXCEPT !.rows = [r \in Records |-> NoRow]]

(* No lifecycle command commits on a database whose tables, indexes or      *)
(* guards are not the ledger's own, and none leaves them changed, the hard  *)
(* erase that drops guards included (sqlite.py:4471-4478).  PostgreSQL's    *)
(* advisory lock keeps no DDL out, so there only the second half holds.     *)
CommandsRunGuarded ==
  [][\A c \in Conns : Ends(c, Commands, "done") =>
       /\ Objects(disk') = Objects(disk)
       /\ backend = "sqlite" => Ready(disk)]_vars

(* A setup that succeeds leaves a database every command accepts, whatever  *)
(* release or damage it started from, with sound sidecars and no content    *)
(* fingerprint in any event.                                                *)
SetupLeavesReady ==
  [][\A c \in Conns : Ends(c, {"setup"}, "done") => Ready(disk') /\ Sidecars(disk')]_vars

(* A ledger that serves commands holds no fingerprint of a content.         *)
FingerprintsAreGone ==
  disk.version >= EventGuardVersion => \A r \in Records : ~disk.rows[r].fingerprint

(* A migration labels what was live as legacy_unknown and nothing else: no  *)
(* state moves, no audit appears, no forgotten record gains an origin.      *)
NothingIsInvented ==
  [][\A c \in Conns : Ends(c, {"setup"}, "done") => \A r \in Records :
       LET old == disk.rows[r]  new == disk'.rows[r]
       IN /\ new.state = old.state /\ new.audit = old.audit
          /\ \/ new.origin = old.origin
             \/ Payload(old) /\ old.origin = "none" /\ new.origin = "legacy_unknown"]_vars

(* A setup either leaves a database that is ready, or fails; and it changes *)
(* nothing of what the database says of its records.                        *)
SetupIsSound == SetupLeavesReady /\ NothingIsInvented

(* An active read never returns a record of concrete origin whose allow     *)
(* audit is gone: a marker of an earlier check does not outlive a change of *)
(* the database (sqlite.py:2779-2799).                                      *)
ServedIsAudited ==
  [][\A c \in Conns : Ends(c, {"list_active"}, "done") =>
       reply'.records \cap ConcreteActive(disk) \subseteq Audited(disk)]_vars

(* A command, a read or a setup is refused only when an object is not the   *)
(* ledger's own or an audit is gone, never for what the cache has forgotten *)
(* between the check and the snapshot.                                      *)
RefusalsHaveACause ==
  [][\A c \in Conns : Ends(c, Calls \ {"dry_run"}, "refused") =>
       \/ disk.version # MIGRATION_VERSION
       \/ ~Ready(disk)
       \/ ~(ConcreteActive(disk) \subseteq Audited(disk))]_vars
=============================================================================
