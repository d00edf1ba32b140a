------------------------------ MODULE MemoryLedger ------------------------------
(***************************************************************************)
(* One exact scope of the durable Memory Ledger                            *)
(* (protoprompt/ledger/sqlite.py, SqliteMemoryLedger).                     *)
(*                                                                         *)
(* A variable is a table of the ledger database.  Every public command     *)
(* runs inside one BEGIN IMMEDIATE transaction that any exception rolls    *)
(* back, so a command is one atomic step and a command that raises is no   *)
(* step.  A retry of an applied command finds its event identifier spent:  *)
(* it answers from the stored rows or raises, and in both cases it writes  *)
(* nothing, so a retry is no step either.  What such a retry must not do   *)
(* is covered by the guard Unspent and by the properties at the end.       *)
(*                                                                         *)
(* Abstracted: plaintext, digests, actors, reasons, kinds and confidence   *)
(* (data no guard below branches on); evidence references; the SQLite      *)
(* schema checks that precede each command.                                *)
(***************************************************************************)
EXTENDS Naturals, FiniteSets

CONSTANTS
  Records,          \* record identifiers
  Sources,          \* opaque source references
  CommandIds,       \* event identifiers chosen by the host, retries included
  Operations,       \* operation identifiers of scope-wide purges
  Checkpoints,      \* checkpoint identifiers
  ConcreteOrigins,  \* MemoryOrigin members other than the two unknown ones
  Instants,         \* timestamps a caller may supply, in clock ticks
  Starts,           \* the instants used as valid_from
  Deadlines,        \* the instants used as valid_until
  Revisions,        \* expected_revision values a caller may supply
  TicksPerSecond,   \* sub-second resolution of Instants
  ActiveReadLimit,  \* LIMIT of the active window
  Rank,             \* the lexical order of record identifiers
  NoRecord,         \* SQL NULL in a record column
  Unset             \* SQL NULL in a timestamp column

PurgeIds == Operations \X Records       \* _scope_payload_purge_event_id
RevocationIds == Sources \X Records     \* uuid4 identifiers of forget_by_source
EventIds == CommandIds \cup PurgeIds \cup RevocationIds

ASSUME LedgerConstants ==
  /\ Instants \subseteq Nat
  /\ Starts \subseteq Instants
  /\ Deadlines \subseteq Instants
  /\ Revisions \subseteq Nat
  /\ TicksPerSecond \in Nat \ {0}
  /\ ActiveReadLimit \in Nat
  /\ Rank \in [Records -> Nat]
  /\ NoRecord \notin Records
  /\ Unset \notin Instants
  /\ "unknown" \notin ConcreteOrigins

ASSUME DistinctEventIds ==
  /\ CommandIds \cap (PurgeIds \cup RevocationIds) = {}
  /\ Operations \cap Sources = {}

VARIABLES
  records,          \* memory_records with memory_record_admission_metadata
  payloads,         \* memory_payloads: the records whose plaintext is stored
  sources,          \* memory_sources: <<source, record>>
  relations,        \* memory_relations: <<replacement, superseded>>
  events,           \* memory_events, by event identifier
  receipts,         \* memory_erasure_receipts, by event identifier
  hardReceipts,     \* memory_hard_erase_receipts, by event identifier
  audits,           \* memory_review_audits, by event identifier
  tombstones,       \* memory_erasure_tombstones
  eventTombstones,  \* memory_erased_event_tombstones
  revoked,          \* memory_source_revocation_tombstones
  checkpoints,      \* memory_recall_checkpoints with their selections
  purges            \* memory_scope_payload_purge_receipts: records forgotten

vars == <<records, payloads, sources, relations, events, receipts, hardReceipts,
          audits, tombstones, eventTombstones, revoked, checkpoints, purges>>

-----------------------------------------------------------------------------
(* Rows.                                                                    *)

States == {"candidate", "active", "superseded", "retracted", "expired", "quarantined"}
Trusts == {"untrusted", "host_confirmed"}
Origins == ConcreteOrigins \cup {"unknown"}
Actions == {"allow", "quarantine", "reject"}
EventTypes == {"observed", "confirmed", "superseded", "retracted", "forgotten",
               "expired", "quarantined"}

NoRow == [state |-> "absent"]
Row == [state : States, trust : Trusts, revision : Nat, origin : Origins,
        created : Instants, updated : Instants,
        from : Starts \cup {Unset}, until : Deadlines \cup {Unset},
        supersededBy : Records \cup {NoRecord}]

NoEvent == [type |-> "none"]
Event == [type : EventTypes, record : Records, revision : Nat,
          related : Records \cup {NoRecord}]

NoAudit == [action |-> "none"]
Audit == [action : Actions, record : Records, revision : Nat]

UnusedCheckpoint == [state |-> "unused", selections |-> {}]
Invalidated == [state |-> "invalidated", selections |-> {}]
Checkpoint == [state : {"unused", "active", "invalidated"},
               selections : SUBSET (Records \X Nat)]

NoPurge == [done |-> FALSE, forgotten |-> {}]
PurgeReceipt == [done : BOOLEAN, forgotten : SUBSET Records]

Exists(r) == records[r] # NoRow
EventsOf(r) == {e \in EventIds : events[e] # NoEvent /\ events[e].record = r}

(* Every column holds a value of its declared type: the foreign keys that   *)
(* the schema of sqlite.py declares point at identifiers of this scope.     *)
TypeOK ==
  /\ records \in [Records -> Row \cup {NoRow}]
  /\ payloads \in SUBSET Records
  /\ sources \in SUBSET (Sources \X Records)
  /\ relations \in SUBSET (Records \X Records)
  /\ events \in [EventIds -> Event \cup {NoEvent}]
  /\ receipts \in [EventIds -> Records \cup {NoRecord}]
  /\ hardReceipts \in [EventIds -> Records \cup {NoRecord}]
  /\ audits \in [EventIds -> Audit \cup {NoAudit}]
  /\ tombstones \in SUBSET Records
  /\ eventTombstones \in SUBSET EventIds
  /\ revoked \in SUBSET Sources
  /\ checkpoints \in [Checkpoints -> Checkpoint]
  /\ purges \in [Operations -> PurgeReceipt]

Init ==
  /\ records = [r \in Records |-> NoRow]
  /\ payloads = {}
  /\ sources = {}
  /\ relations = {}
  /\ events = [e \in EventIds |-> NoEvent]
  /\ receipts = [e \in EventIds |-> NoRecord]
  /\ hardReceipts = [e \in EventIds |-> NoRecord]
  /\ audits = [e \in EventIds |-> NoAudit]
  /\ tombstones = {}
  /\ eventTombstones = {}
  /\ revoked = {}
  /\ checkpoints = [c \in Checkpoints |-> UnusedCheckpoint]
  /\ purges = [o \in Operations |-> NoPurge]

-----------------------------------------------------------------------------
(* Time.  Columns hold format_timestamp text, which drops a zero fraction:  *)
(* "...:07Z" sorts after "...:07.5Z" because 'Z' follows '.'.  SQL compares *)
(* the text, Python compares the instants.                                  *)

TextRank(i) ==
  (i \div TicksPerSecond) * TicksPerSecond
    + (IF i % TicksPerSecond = 0 THEN TicksPerSecond ELSE i % TicksPerSecond)

TextLE(i, j) == TextRank(i) <= TextRank(j)

Ended(r, at) == records[r].until # Unset /\ at >= records[r].until

(* MemoryRecord.is_recallable, evaluated by Python at an instant.           *)
Recallable(r, at) ==
  /\ Exists(r)
  /\ records[r].state = "active"
  /\ records[r].trust = "host_confirmed"
  /\ r \in payloads
  /\ (records[r].from # Unset => records[r].from <= at)
  /\ ~Ended(r, at)

(* The WHERE clause shared by list_active and the window queries.           *)
Live(at) ==
  {r \in payloads :
     /\ Exists(r)
     /\ records[r].state = "active"
     /\ records[r].trust = "host_confirmed"
     /\ (records[r].from # Unset => TextLE(records[r].from, at))
     /\ (records[r].until # Unset => ~TextLE(records[r].until, at))}

(* ORDER BY updated_at DESC, record_id ASC.                                 *)
ListedBefore(q, r) ==
  \/ TextRank(records[q].updated) > TextRank(records[r].updated)
  \/ records[q].updated = records[r].updated /\ Rank[q] < Rank[r]

ActiveWindow(at) ==
  {r \in Live(at) :
     Cardinality({q \in Live(at) : ListedBefore(q, r)}) < ActiveReadLimit}

ListActive(at) == {r \in ActiveWindow(at) : Recallable(r, at)}

(* A selection marker: record and the revision it was read at.  The digest  *)
(* and the kind of a record never change while its payload exists.          *)
Marker(r) == <<r, records[r].revision>>
Markers(at) == {Marker(r) : r \in ListActive(at)}

-----------------------------------------------------------------------------
(* Event identifiers.  Each command first looks its identifier up in        *)
(* memory_events and in the three receipt tables; only an identifier found  *)
(* in none of them lets the command write.                                  *)

Unspent(e) ==
  /\ events[e] = NoEvent
  /\ receipts[e] = NoRecord
  /\ hardReceipts[e] = NoRecord
  /\ e \notin eventTombstones

CheckRevision(r, rev) == Exists(r) /\ records[r].revision = rev

-----------------------------------------------------------------------------
(* One-way invalidation of every active checkpoint that selected one of the *)
(* records V, with deletion of its selections.                              *)

CheckpointsKept(V) == checkpoints

CheckpointsWithout(V) ==
  [c \in Checkpoints |->
     IF checkpoints[c].state = "active" /\ \E m \in checkpoints[c].selections : m[1] \in V
     THEN Invalidated ELSE checkpoints[c]]

-----------------------------------------------------------------------------
(* The lifecycle transition every command below goes through.               *)

AllowedFromWithRevival ==
  [confirmed   |-> {"candidate", "quarantined"},
   superseded  |-> {"active"},
   retracted   |-> States \ {"retracted"},
   forgotten   |-> States,
   expired     |-> {"candidate", "active"},
   quarantined |-> {"candidate", "active"}]

AllowedFrom ==
  [confirmed   |-> {"candidate"},
   superseded  |-> {"active"},
   retracted   |-> States \ {"retracted"},
   forgotten   |-> States,
   expired     |-> {"candidate", "active"},
   quarantined |-> {"candidate", "active"}]

TargetState ==
  [confirmed |-> "active", superseded |-> "superseded", retracted |-> "retracted",
   forgotten |-> "retracted", expired |-> "expired", quarantined |-> "quarantined"]

(* updated_at >= created_at is checked when the new row is materialized:    *)
(* an earlier occurred_at raises and rolls the whole command back.          *)
TransitionAllowed(r, type, at) ==
  /\ Exists(r)
  /\ records[r].state \in AllowedFrom[type]
  /\ type = "confirmed" => ~Ended(r, at)
  /\ at >= records[r].created

MovedWithoutTrust(row, type, at) ==
  [row EXCEPT !.state = TargetState[type], !.updated = at, !.revision = @ + 1]

Moved(row, type, at) ==
  [row EXCEPT !.state = TargetState[type],
              !.trust = IF type = "confirmed" THEN "host_confirmed" ELSE @,
              !.updated = at,
              !.revision = @ + 1]

EventRow(type, r, rev, other) ==
  [type |-> type, record |-> r, revision |-> rev, related |-> other]

Transition(e, r, type, at, other) ==
  /\ TransitionAllowed(r, type, at)
  /\ records' = [records EXCEPT ![r] =
                   IF type = "superseded"
                   THEN [Moved(@, type, at) EXCEPT !.supersededBy = other]
                   ELSE Moved(@, type, at)]
  /\ events' = [events EXCEPT ![e] = EventRow(type, r, records[r].revision + 1, other)]
  /\ checkpoints' = CheckpointsWithout({r})

-----------------------------------------------------------------------------
(* Commands on one record.                                                  *)

SourceAccepted(s) == s \notin revoked    \* _is_source_revoked_locked

(* observe, assert_candidate and their ingress variants with an origin.     *)
CreateCandidate(e, r, s, origin, from, until, at) ==
  /\ SourceAccepted(s)
  /\ Unspent(e)
  /\ r \notin tombstones
  /\ ~Exists(r)
  /\ from # Unset /\ until # Unset => from <= until
  /\ events' = [events EXCEPT ![e] = EventRow("observed", r, 1, NoRecord)]
  /\ records' = [records EXCEPT ![r] =
       [state |-> "candidate", trust |-> "untrusted", revision |-> 1, origin |-> origin,
        created |-> at, updated |-> at, from |-> from, until |-> until,
        supersededBy |-> NoRecord]]
  /\ payloads' = payloads \cup {r}
  /\ sources' = sources \cup {<<s, r>>}
  /\ UNCHANGED <<relations, receipts, hardReceipts, audits, tombstones,
                 eventTombstones, revoked, checkpoints, purges>>

Command(e, r, rev, type, at) ==
  /\ Unspent(e)
  /\ CheckRevision(r, rev)
  /\ Transition(e, r, type, at, NoRecord)
  /\ UNCHANGED <<payloads, sources, relations, receipts, hardReceipts, audits,
                 tombstones, eventTombstones, revoked, purges>>

RawConfirmationEligible(r) == records[r].origin = "unknown"

Confirm(e, r, rev, at) ==
  /\ CheckRevision(r, rev)
  /\ RawConfirmationEligible(r)
  /\ Command(e, r, rev, "confirmed", at)

Quarantine(e, r, rev, at) == Command(e, r, rev, "quarantined", at)
Expire(e, r, rev, at) == Command(e, r, rev, "expired", at)
Retract(e, r, rev, at) == Command(e, r, rev, "retracted", at)

AnyReplacementAccepted(q, at) == Exists(q)
ReplacementAccepted(q, at) == Recallable(q, at)

(* The replacement keeps its revision: only the replaced record moves.      *)
Supersede(e, r, q, rev, qrev, at) ==
  /\ Unspent(e)
  /\ r # q
  /\ CheckRevision(r, rev)
  /\ CheckRevision(q, qrev)
  /\ ReplacementAccepted(q, at)
  /\ Transition(e, r, "superseded", at, q)
  /\ relations' = relations \cup {<<q, r>>}
  /\ UNCHANGED <<payloads, sources, receipts, hardReceipts, audits, tombstones,
                 eventTombstones, revoked, purges>>

-----------------------------------------------------------------------------
(* Forgetting.  _forget_locked is the body of forget, of a rejected         *)
(* admission, of forget_by_source and of a scope purge; the last two run it *)
(* for a set V of records in one transaction, with the identifiers id.      *)

ForgottenRow(row, at) == [Moved(row, "forgotten", at) EXCEPT !.supersededBy = NoRecord]

Unlinked(row, V) ==
  IF row # NoRow /\ row.supersededBy \in V
  THEN [row EXCEPT !.supersededBy = NoRecord] ELSE row

RelationsWithout(V) == {x \in relations : x[1] \notin V /\ x[2] \notin V}

SourcesWithout(V) == {x \in sources : x[2] \notin V}

ForgetAll(V, id, at) ==
  /\ \A r \in V : TransitionAllowed(r, "forgotten", at)
  /\ records' = [r \in Records |->
                   IF r \in V THEN ForgottenRow(records[r], at)
                              ELSE Unlinked(records[r], V)]
  /\ payloads' = payloads \ V
  /\ sources' = SourcesWithout(V)
  /\ relations' = RelationsWithout(V)
  /\ events' = [e \in EventIds |->
       IF \E r \in V : id[r] = e
       THEN LET r == CHOOSE r \in V : id[r] = e
            IN EventRow("forgotten", r, records[r].revision + 1, NoRecord)
       ELSE events[e]]
  /\ receipts' = [e \in EventIds |->
       IF \E r \in V : id[r] = e THEN CHOOSE r \in V : id[r] = e ELSE receipts[e]]
  /\ checkpoints' = CheckpointsWithout(V)

Forget(e, r, rev, at) ==
  /\ Unspent(e)
  /\ CheckRevision(r, rev)
  /\ ForgetAll({r}, [q \in {r} |-> e], at)
  /\ UNCHANGED <<hardReceipts, audits, tombstones, eventTombstones, revoked, purges>>

ForgetBySource(s, at) ==
  LET V == {r \in Records : <<s, r>> \in sources} IN
  /\ revoked' = revoked \cup {s}
  /\ ForgetAll(V, [r \in V |-> <<s, r>>], at)
  /\ UNCHANGED <<hardReceipts, audits, tombstones, eventTombstones, purges>>

(* _assert_scope_payload_integrity_locked: no orphaned sidecar rows.        *)
ScopePayloadIntegrity ==
  /\ \A r \in payloads : Exists(r)
  /\ \A x \in sources : x[2] \in payloads

PurgeAlwaysPending(o) == TRUE
PurgePending(o) == ~purges[o].done

PurgePayloads(o, at) ==
  /\ PurgePending(o)
  /\ ScopePayloadIntegrity
  /\ purges' = [purges EXCEPT ![o] = [done |-> TRUE, forgotten |-> payloads]]
  /\ ForgetAll(payloads, [r \in payloads |-> <<o, r>>], at)
  /\ UNCHANGED <<hardReceipts, audits, tombstones, eventTombstones, revoked>>

-----------------------------------------------------------------------------
(* erase: the one command that deletes events.  Foreign keys cascade the    *)
(* deletion to the origin metadata and to the admission audits.             *)

EventsKeepingReferences(r) ==
  [e \in EventIds |-> IF e \in EventsOf(r) THEN NoEvent ELSE events[e]]

EventsWithout(r) ==
  [e \in EventIds |->
     IF events[e] = NoEvent \/ events[e].record = r THEN NoEvent
     ELSE IF events[e].related = r THEN [events[e] EXCEPT !.related = NoRecord]
     ELSE events[e]]

SpentOn(r) == EventsOf(r) \cup {e \in EventIds : receipts[e] = r}

AuditsWithout(r) ==
  [e \in EventIds |->
     IF audits[e] # NoAudit /\ audits[e].record = r THEN NoAudit ELSE audits[e]]

Erase(e, r, rev) ==
  /\ Unspent(e)
  /\ CheckRevision(r, rev)
  /\ checkpoints' = CheckpointsWithout({r})
  /\ eventTombstones' = eventTombstones \cup SpentOn(r)
  /\ tombstones' = tombstones \cup {r}
  /\ events' = EventsWithout(r)
  /\ payloads' = payloads \ {r}
  /\ sources' = SourcesWithout({r})
  /\ receipts' = [f \in EventIds |-> IF receipts[f] = r THEN NoRecord ELSE receipts[f]]
  /\ relations' = RelationsWithout({r})
  /\ records' = [q \in Records |-> IF q = r THEN NoRow ELSE Unlinked(records[q], {r})]
  /\ audits' = AuditsWithout(r)
  /\ hardReceipts' = [hardReceipts EXCEPT ![e] = r]
  /\ UNCHANGED <<revoked, purges>>

-----------------------------------------------------------------------------
(* Admission.  The gate authenticated the review; the ledger re-reads the   *)
(* candidate under its write lock.  at is the instant the gate sampled      *)
(* before the lock, ledgerNow the ledger's own clock under the lock.        *)

AdmissionEvent == [allow |-> "confirmed", quarantine |-> "quarantined", reject |-> "forgotten"]

CandidateUnchecked(r, rev, origin) == Exists(r) /\ r \in payloads

CandidateUnchanged(r, rev, origin) ==
  /\ CheckRevision(r, rev)
  /\ records[r].state = "candidate"
  /\ records[r].trust = "untrusted"
  /\ r \in payloads
  /\ records[r].origin = origin
  /\ \A s \in Sources : <<s, r>> \in sources => s \notin revoked

ValidWhenQueued(r, at, ledgerNow) == ~Ended(r, at)
StillValid(r, at, ledgerNow) == ~Ended(r, at) /\ ~Ended(r, ledgerNow)

ApplyAdmissionReview(e, r, rev, origin, action, at, ledgerNow) ==
  /\ Unspent(e)
  /\ CandidateUnchanged(r, rev, origin)
  /\ action = "allow" => StillValid(r, at, ledgerNow)
  /\ IF action = "reject"
     THEN ForgetAll({r}, [q \in {r} |-> e], at)
     ELSE /\ Transition(e, r, AdmissionEvent[action], at, NoRecord)
          /\ UNCHANGED <<payloads, sources, relations, receipts>>
  /\ audits' = [audits EXCEPT ![e] = [action |-> action, record |-> r, revision |-> rev]]
  /\ UNCHANGED <<hardReceipts, tombstones, eventTombstones, revoked, purges>>

-----------------------------------------------------------------------------
(* Recall checkpoints.                                                      *)

CreateCheckpoint(c, S, at) ==
  /\ checkpoints[c] = UnusedCheckpoint
  /\ S \subseteq Markers(at)
  /\ checkpoints' = [checkpoints EXCEPT ![c] = [state |-> "active", selections |-> S]]
  /\ UNCHANGED <<records, payloads, sources, relations, events, receipts, hardReceipts,
                 audits, tombstones, eventTombstones, revoked, purges>>

InvalidateCheckpoint(c) ==
  /\ checkpoints[c].state = "active"
  /\ checkpoints' = [checkpoints EXCEPT ![c] = Invalidated]
  /\ UNCHANGED <<records, payloads, sources, relations, events, receipts, hardReceipts,
                 audits, tombstones, eventTombstones, revoked, purges>>

-----------------------------------------------------------------------------
(* What a host may ask of the scope in one transaction.                     *)

RawCommand(e, r) ==
  \/ \E s \in Sources, origin \in Origins, from \in Starts \cup {Unset},
        until \in Deadlines \cup {Unset}, at \in Instants :
        CreateCandidate(e, r, s, origin, from, until, at)
  \/ \E rev \in Revisions, at \in Instants : Confirm(e, r, rev, at)
  \/ \E rev \in Revisions, at \in Instants : Quarantine(e, r, rev, at)
  \/ \E rev \in Revisions, at \in Instants : Expire(e, r, rev, at)
  \/ \E rev \in Revisions, at \in Instants : Retract(e, r, rev, at)
  \/ \E q \in Records, rev \in Revisions, qrev \in Revisions, at \in Instants :
        Supersede(e, r, q, rev, qrev, at)
  \/ \E rev \in Revisions, at \in Instants : Forget(e, r, rev, at)
  \/ \E rev \in Revisions : Erase(e, r, rev)

Admission(e, r) ==
  \E rev \in Revisions, origin \in ConcreteOrigins, action \in Actions,
     at \in Instants, ledgerNow \in Instants :
     ApplyAdmissionReview(e, r, rev, origin, action, at, ledgerNow)

ScopeCommand ==
  \/ \E s \in Sources, at \in Instants : ForgetBySource(s, at)
  \/ \E o \in Operations, at \in Instants : PurgePayloads(o, at)

CheckpointCommand ==
  \/ \E c \in Checkpoints, at \in Instants :
        \E S \in SUBSET Markers(at) : CreateCheckpoint(c, S, at)
  \/ \E c \in Checkpoints : InvalidateCheckpoint(c)

Next ==
  \/ \E e \in CommandIds, r \in Records : RawCommand(e, r) \/ Admission(e, r)
  \/ ScopeCommand
  \/ CheckpointCommand

Spec == Init /\ [][Next]_vars

-----------------------------------------------------------------------------
(* Safety.                                                                  *)

(* The events stored for a record are exactly its revisions 1..revision,    *)
(* one each: no command was applied twice under one identifier, lost, or    *)
(* recorded against a revision it did not produce.                          *)
HistoryIsGapless ==
  \A r \in Records : Exists(r) =>
    /\ \A e \in EventsOf(r) : events[e].revision \in 1 .. records[r].revision
    /\ \A n \in 1 .. records[r].revision :
         Cardinality({e \in EventsOf(r) : events[e].revision = n}) = 1

(* The materialized row agrees with the append-only log: its state is what  *)
(* its last event leads to, it is trusted exactly when some event confirmed *)
(* it, and it is superseded by a record only if its log says so.            *)
StateFollowsHistory ==
  \A r \in Records : Exists(r) =>
    /\ \A e \in EventsOf(r) : events[e].revision = records[r].revision =>
         records[r].state = IF events[e].type = "observed" THEN "candidate"
                            ELSE TargetState[events[e].type]
    /\ records[r].trust = "host_confirmed" <=>
         \E e \in EventsOf(r) : events[e].type = "confirmed"
    /\ records[r].supersededBy # NoRecord =>
         \E e \in EventsOf(r) : /\ events[e].type = "superseded"
                                /\ events[e].related = records[r].supersededBy

(* The two together: a record is what its append-only log says.             *)
RowsFollowHistory == HistoryIsGapless /\ StateFollowsHistory

WasForgotten(r) == \E e \in EventsOf(r) : events[e].type = "forgotten"

(* forget, a rejection, a source revocation and a purge leave nothing that  *)
(* could bring the text back: no payload, source, relation or checkpoint    *)
(* selection, and the record stays retracted.  Conversely plaintext goes    *)
(* away only with a forget event, and each forget event has its receipt.    *)
ForgottenLeavesNothing ==
  \A r \in Records : Exists(r) =>
    /\ WasForgotten(r) <=> r \notin payloads
    /\ WasForgotten(r) =>
         /\ records[r].state = "retracted"
         /\ \A x \in sources : x[2] # r
         /\ \A x \in relations : r # x[1] /\ r # x[2]
         /\ \A q \in Records : Exists(q) => records[q].supersededBy # r
         /\ \A c \in Checkpoints : \A m \in checkpoints[c].selections : m[1] # r
    /\ \A e \in EventIds : receipts[e] = r <=>
         e \in EventsOf(r) /\ events[e].type = "forgotten"

(* A hard erase leaves no row that names the record, not even the related   *)
(* column of another record's event, and keeps a barrier for its identifier *)
(* and for every event identifier it had spent.                             *)
ErasedLeavesNoTrace ==
  /\ \A r \in tombstones :
       /\ ~Exists(r) /\ r \notin payloads
       /\ \A e \in EventIds : /\ events[e] # NoEvent =>
                                  events[e].record # r /\ events[e].related # r
                              /\ receipts[e] # r
                              /\ audits[e] # NoAudit => audits[e].record # r
       /\ \A x \in relations : r # x[1] /\ r # x[2]
       /\ \A q \in Records : Exists(q) => records[q].supersededBy # r
       /\ \A c \in Checkpoints : \A m \in checkpoints[c].selections : m[1] # r
  /\ \A e \in EventIds :
       e \in eventTombstones \/ hardReceipts[e] # NoRecord =>
         events[e] = NoEvent /\ receipts[e] = NoRecord

(* memory_relations and the superseded_by column are two copies of the same *)
(* fact, kept equal through supersede, forget, purge and erase.             *)
RelationsMirrorRows ==
  relations = {<<records[r].supersededBy, r>> :
                 r \in {q \in Records : Exists(q) /\ records[q].supersededBy # NoRecord}}

(* Following superseded_by always ends: no set of records replaces itself.  *)
SupersessionIsAcyclic ==
  \A S \in (SUBSET Records) \ {{}} :
    \E r \in S : ~\E q \in S : <<q, r>> \in relations

(* A record with a concrete origin is trusted only through an allow review  *)
(* whose audit is paired with its confirmation, one revision after the      *)
(* candidate that was reviewed.                                             *)
TrustIsAdmitted ==
  \A r \in Records :
    Exists(r) /\ records[r].trust = "host_confirmed" /\ records[r].origin # "unknown" =>
      \E e \in EventsOf(r) : /\ events[e].type = "confirmed"
                             /\ audits[e] # NoAudit
                             /\ audits[e].action = "allow"
                             /\ audits[e].record = r
                             /\ events[e].revision = audits[e].revision + 1

(* Every audit is paired with the event its verdict led to, one revision    *)
(* after the candidate it judged; a reject also with its erasure receipt.   *)
AuditsMatchEvents ==
  \A e \in EventIds : audits[e] # NoAudit =>
    /\ events[e] = EventRow(AdmissionEvent[audits[e].action], audits[e].record,
                            audits[e].revision + 1, NoRecord)
    /\ audits[e].action = "reject" <=> receipts[e] = audits[e].record

(* The two together: no trust without a verdict, no verdict without trace.  *)
AdmissionIsAudited == TrustIsAdmitted /\ AuditsMatchEvents

(* A checkpoint that still reads active selects only active records at the  *)
(* revisions it was sealed with, whatever command ran since.                *)
CheckpointsAreCurrent ==
  \A c \in Checkpoints : checkpoints[c].state = "active" =>
    \A m \in checkpoints[c].selections :
      /\ m[1] \in payloads
      /\ records[m[1]].state = "active"
      /\ records[m[1]].revision = m[2]

(* Nothing derived from a revoked source is stored or can be recalled.      *)
RevokedSourcesAreEmpty == \A x \in sources : x[1] \notin revoked

(* Revision n+1 is written only over revision n, and the log only grows:    *)
(* apart from hard erasure no event is rewritten.                           *)
HistoryOnlyGrows ==
  [][/\ \A r \in Records : Exists(r) /\ r \notin tombstones' =>
          records'[r] # NoRow /\ records'[r].revision \in
             {records[r].revision, records[r].revision + 1}
     /\ \A e \in EventIds : events[e] # NoEvent =>
          \/ events'[e] = events[e]
          \/ events[e].record \in tombstones'
          \/ events[e].related \in tombstones' ]_vars

SpentStaysSpent == \A e \in EventIds : ~Unspent(e) => ~Unspent(e)'

(* An event identifier that a command, a receipt or an erasure has used is   *)
(* never available to another command, even after its record is erased.      *)
SpentIdsStaySpent == [][SpentStaysSpent]_vars

(* A completed purge operation never erases a record stored later, however  *)
(* often the operation is retried.                                          *)
PurgeIsFinal ==
  [][\A o \in Operations : purges[o].done =>
       /\ purges'[o] = purges[o]
       /\ \A r \in Records : receipts'[<<o, r>>] # NoRecord => receipts[<<o, r>>] # NoRecord]_vars

(* A record is what its log and its verdicts say, and nothing else.         *)
HistoryExplainsRows == RowsFollowHistory /\ AdmissionIsAudited

(* What a forget, a rejection, a purge, a hard erase or the revocation of a *)
(* source takes away is gone from every table, and stays away.              *)
NothingOutlivesErasure ==
  ForgottenLeavesNothing /\ ErasedLeavesNoTrace /\ RevokedSourcesAreEmpty

(* Supersession links are the same in both their copies and never circular. *)
RelationsAreSound == RelationsMirrorRows /\ SupersessionIsAcyclic

(* A retried command or purge changes nothing: identifiers are spent for    *)
(* good, the log is never rewritten and a finished purge stays as it ended. *)
RetriesChangeNothing == SpentIdsStaySpent /\ HistoryOnlyGrows /\ PurgeIsFinal
=============================================================================
