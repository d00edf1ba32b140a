------------------------------ MODULE LedgerProofs ------------------------------
(***************************************************************************)
(* What the tables of the ledger keep, for any sets of records, sources,   *)
(* event identifiers, operations and checkpoints: types, revocation, spent *)
(* identifiers, checkpoints, supersession, the lifecycle each record was   *)
(* promised, the erasure of every trace, the log and its audit, forgetting *)
(* and retries.  From HostCommand on, the programs that use the ledger     *)
(* over several transactions.                                              *)
(***************************************************************************)
EXTENDS AdmissionGate, RequestComposer, LedgerExpiry, LedgerLifecycle, FiniteSetTheorems, TLAPS

-----------------------------------------------------------------------------
(* Typing of the rows that commands write.                                  *)

(* A stored record's row has the type Row.                                  *)
LEMMA RowOfExisting ==
  ASSUME TypeOK, NEW r \in Records, Exists(r)
  PROVE  records[r] \in Row
  BY DEF TypeOK, Exists

(* A lifecycle transition turns a row into a row.                           *)
LEMMA MovedIsRow ==
  ASSUME NEW row \in Row, NEW type \in EventTypes \ {"observed"}, NEW at \in Instants
  PROVE  Moved(row, type, at) \in Row
  <1>1. TargetState[type] \in States
    BY DEF TargetState, EventTypes, States
  <1>2. row.revision + 1 \in Nat
    BY DEF Row
  <1>3. (IF type = "confirmed" THEN "host_confirmed" ELSE row.trust) \in Trusts
    BY DEF Row, Trusts
  <1> QED BY <1>1, <1>2, <1>3 DEF Moved, Row

(* So does naming a replacement, or none.                                   *)
LEMMA RelinkedIsRow ==
  ASSUME NEW row \in Row, NEW q \in Records \cup {NoRecord}
  PROVE  [row EXCEPT !.supersededBy = q] \in Row
  BY DEF Row

(* The links of the other rows are cleared without leaving the type.        *)
LEMMA UnlinkedIsRow ==
  ASSUME NEW row \in Row \cup {NoRow}, NEW V
  PROVE  Unlinked(row, V) \in Row \cup {NoRow}
  BY RelinkedIsRow DEF Unlinked

(* An event row records one of the event types of the ledger.               *)
LEMMA EventRowIsEvent ==
  ASSUME NEW type \in EventTypes, NEW r \in Records, NEW n \in Nat,
         NEW q \in Records \cup {NoRecord}
  PROVE  EventRow(type, r, n, q) \in Event
  BY DEF EventRow, Event

(* Invalidation keeps the type of the checkpoint table.                     *)
LEMMA CheckpointsWithoutTyped ==
  ASSUME TypeOK, NEW V
  PROVE  CheckpointsWithout(V) \in [Checkpoints -> Checkpoint]
  BY DEF CheckpointsWithout, Checkpoint, Invalidated, TypeOK

-----------------------------------------------------------------------------
(* Type correctness of each kind of command.                                *)

LEMMA TransitionTyped ==
  ASSUME TypeOK, NEW e \in EventIds, NEW r \in Records,
         NEW type \in EventTypes \ {"observed", "forgotten"}, NEW at \in Instants,
         NEW other \in Records \cup {NoRecord},
         Transition(e, r, type, at, other)
  PROVE  /\ records' \in [Records -> Row \cup {NoRow}]
         /\ events' \in [EventIds -> Event \cup {NoEvent}]
         /\ checkpoints' \in [Checkpoints -> Checkpoint]
  <1>1. records[r] \in Row
    BY RowOfExisting DEF Transition, TransitionAllowed
  <1> DEFINE moved == Moved(records[r], type, at)
  <1>2. moved \in Row
    BY <1>1, MovedIsRow
  <1>3. [moved EXCEPT !.supersededBy = other] \in Row
    BY <1>2, RelinkedIsRow
  <1>4. records' = [records EXCEPT ![r] = IF type = "superseded"
                                          THEN [moved EXCEPT !.supersededBy = other]
                                          ELSE moved]
    BY DEF Transition, TypeOK
  <1>5. records' \in [Records -> Row \cup {NoRow}]
    <2> HIDE DEF moved
    <2> QED BY <1>2, <1>3, <1>4 DEF TypeOK
  <1>6. EventRow(type, r, records[r].revision + 1, other) \in Event
    BY <1>1, EventRowIsEvent DEF Row
  <1>7. events' \in [EventIds -> Event \cup {NoEvent}]
    BY <1>6 DEF Transition, TypeOK
  <1> QED BY <1>5, <1>7, CheckpointsWithoutTyped DEF Transition

LEMMA ForgetAllTyped ==
  ASSUME TypeOK, NEW V \in SUBSET Records, NEW id \in [V -> EventIds], NEW at \in Instants,
         ForgetAll(V, id, at)
  PROVE  /\ records' \in [Records -> Row \cup {NoRow}]
         /\ payloads' \in SUBSET Records
         /\ sources' \in SUBSET (Sources \X Records)
         /\ relations' \in SUBSET (Records \X Records)
         /\ events' \in [EventIds -> Event \cup {NoEvent}]
         /\ receipts' \in [EventIds -> Records \cup {NoRecord}]
         /\ checkpoints' \in [Checkpoints -> Checkpoint]
  <1>1. \A r \in V : records[r] \in Row
    BY RowOfExisting DEF ForgetAll, TransitionAllowed
  <1>2. \A r \in V : ForgottenRow(records[r], at) \in Row
    BY <1>1, MovedIsRow, RelinkedIsRow DEF ForgottenRow, EventTypes
  <1>3. \A r \in Records : Unlinked(records[r], V) \in Row \cup {NoRow}
    BY UnlinkedIsRow DEF TypeOK
  <1>4. records' \in [Records -> Row \cup {NoRow}]
    BY <1>2, <1>3 DEF ForgetAll
  <1>5. \A r \in V : EventRow("forgotten", r, records[r].revision + 1, NoRecord) \in Event
    <2>1. \A r \in V : records[r].revision + 1 \in Nat
      BY <1>1 DEF Row
    <2>2. "forgotten" \in EventTypes /\ NoRecord \in Records \cup {NoRecord}
      BY DEF EventTypes
    <2> QED BY <2>1, <2>2, EventRowIsEvent, Zenon
  <1>6. \A e \in EventIds : (\E r \in V : id[r] = e) => (CHOOSE r \in V : id[r] = e) \in V
    OBVIOUS
  <1>7. events' \in [EventIds -> Event \cup {NoEvent}]
    BY <1>5, <1>6 DEF ForgetAll, TypeOK
  <1>8. receipts' \in [EventIds -> Records \cup {NoRecord}]
    BY <1>6 DEF ForgetAll, TypeOK
  <1>9. payloads' \in SUBSET Records /\ sources' \in SUBSET (Sources \X Records)
    BY DEF ForgetAll, TypeOK, SourcesWithout
  <1>10. relations' \in SUBSET (Records \X Records)
    BY DEF ForgetAll, TypeOK, RelationsWithout
  <1> QED BY <1>4, <1>7, <1>8, <1>9, <1>10, CheckpointsWithoutTyped DEF ForgetAll

-----------------------------------------------------------------------------
(* Type correctness.                                                        *)

LEMMA CreateCandidateTyped ==
  ASSUME TypeOK, NEW e \in EventIds, NEW r \in Records, NEW s \in Sources,
         NEW origin \in Origins, NEW from \in Starts \cup {Unset},
         NEW until \in Deadlines \cup {Unset}, NEW at \in Instants,
         CreateCandidate(e, r, s, origin, from, until, at)
  PROVE  TypeOK'
  <1> DEFINE row == [state |-> "candidate", trust |-> "untrusted", revision |-> 1,
                     origin |-> origin, created |-> at, updated |-> at, from |-> from,
                     until |-> until, supersededBy |-> NoRecord]
  <1>1. row \in Row
    BY DEF Row, States, Trusts
  <1>2. records' \in [Records -> Row \cup {NoRow}]
    <2>1. records' = [records EXCEPT ![r] = row]
      BY DEF CreateCandidate
    <2> HIDE DEF row
    <2> QED BY <1>1, <2>1 DEF TypeOK
  <1>3. EventRow("observed", r, 1, NoRecord) \in Event
    BY EventRowIsEvent DEF EventTypes
  <1>4. events' \in [EventIds -> Event \cup {NoEvent}]
    BY <1>3 DEF CreateCandidate, TypeOK
  <1>5. payloads' \in SUBSET Records /\ sources' \in SUBSET (Sources \X Records)
    BY DEF CreateCandidate, TypeOK
  <1> QED BY <1>2, <1>4, <1>5 DEF CreateCandidate, TypeOK

LEMMA CommandTyped ==
  ASSUME TypeOK, NEW e \in EventIds, NEW r \in Records, NEW rev,
         NEW type \in EventTypes \ {"observed", "forgotten"}, NEW at \in Instants,
         Command(e, r, rev, type, at)
  PROVE  TypeOK'
  <1>1. Transition(e, r, type, at, NoRecord)
    BY DEF Command
  <1>2. /\ records' \in [Records -> Row \cup {NoRow}]
        /\ events' \in [EventIds -> Event \cup {NoEvent}]
        /\ checkpoints' \in [Checkpoints -> Checkpoint]
    BY <1>1, TransitionTyped
  <1> QED BY <1>2 DEF Command, TypeOK

LEMMA SupersedeTyped ==
  ASSUME TypeOK, NEW e \in EventIds, NEW r \in Records, NEW q \in Records, NEW rev, NEW qrev,
         NEW at \in Instants,
         Supersede(e, r, q, rev, qrev, at)
  PROVE  TypeOK'
  <1>1. Transition(e, r, "superseded", at, q)
    BY DEF Supersede
  <1>2. /\ records' \in [Records -> Row \cup {NoRow}]
        /\ events' \in [EventIds -> Event \cup {NoEvent}]
        /\ checkpoints' \in [Checkpoints -> Checkpoint]
    BY <1>1, TransitionTyped DEF EventTypes
  <1>3. relations' \in SUBSET (Records \X Records)
    BY DEF Supersede, TypeOK
  <1> QED BY <1>2, <1>3 DEF Supersede, TypeOK

LEMMA ForgetTyped ==
  ASSUME TypeOK, NEW e \in EventIds, NEW r \in Records, NEW rev, NEW at \in Instants,
         Forget(e, r, rev, at)
  PROVE  TypeOK'
  <1>1. ForgetAll({r}, [q \in {r} |-> e], at)
    BY DEF Forget
  <1>2. [q \in {r} |-> e] \in [{r} -> EventIds]
    OBVIOUS
  <1> QED BY <1>1, <1>2, ForgetAllTyped DEF Forget, TypeOK

LEMMA ForgetBySourceTyped ==
  ASSUME TypeOK, NEW s \in Sources, NEW at \in Instants, ForgetBySource(s, at)
  PROVE  TypeOK'
  <1> DEFINE V == {r \in Records : <<s, r>> \in sources}
  <1>1. ForgetAll(V, [r \in V |-> <<s, r>>], at)
    BY DEF ForgetBySource
  <1>2. [r \in V |-> <<s, r>>] \in [V -> EventIds]
    BY DEF EventIds, RevocationIds
  <1>3. V \in SUBSET Records
    OBVIOUS
  <1> HIDE DEF V
  <1> QED BY <1>1, <1>2, <1>3, ForgetAllTyped DEF ForgetBySource, TypeOK

LEMMA PurgePayloadsTyped ==
  ASSUME TypeOK, NEW o \in Operations, NEW at \in Instants, PurgePayloads(o, at)
  PROVE  TypeOK'
  <1>1. ForgetAll(payloads, [r \in payloads |-> <<o, r>>], at)
    BY DEF PurgePayloads
  <1>2. [r \in payloads |-> <<o, r>>] \in [payloads -> EventIds]
    BY DEF EventIds, PurgeIds, TypeOK
  <1>3. payloads \in SUBSET Records
    BY DEF TypeOK
  <1>4. purges' \in [Operations -> PurgeReceipt]
    BY <1>3 DEF PurgePayloads, TypeOK, PurgeReceipt
  <1> QED BY <1>1, <1>2, <1>3, <1>4, ForgetAllTyped DEF PurgePayloads, TypeOK

LEMMA EraseTyped ==
  ASSUME TypeOK, NEW e \in EventIds, NEW r \in Records, NEW rev, Erase(e, r, rev)
  PROVE  TypeOK'
  <1>1. records' \in [Records -> Row \cup {NoRow}]
    BY UnlinkedIsRow DEF Erase, TypeOK
  <1>2. events' \in [EventIds -> Event \cup {NoEvent}]
    <2>1. \A f \in EventIds : events[f] # NoEvent =>
            [events[f] EXCEPT !.related = NoRecord] \in Event
      BY DEF TypeOK, Event
    <2> QED BY <2>1 DEF Erase, EventsWithout, TypeOK
  <1>3. /\ receipts' \in [EventIds -> Records \cup {NoRecord}]
        /\ hardReceipts' \in [EventIds -> Records \cup {NoRecord}]
        /\ audits' \in [EventIds -> Audit \cup {NoAudit}]
    BY DEF Erase, TypeOK, AuditsWithout
  <1>4. /\ payloads' \in SUBSET Records
        /\ sources' \in SUBSET (Sources \X Records)
        /\ relations' \in SUBSET (Records \X Records)
        /\ tombstones' \in SUBSET Records
    BY DEF Erase, TypeOK, SourcesWithout, RelationsWithout
  <1>5. eventTombstones' \in SUBSET EventIds
    BY DEF Erase, TypeOK, SpentOn, EventsOf
  <1> QED BY <1>1, <1>2, <1>3, <1>4, <1>5, CheckpointsWithoutTyped DEF Erase, TypeOK

LEMMA ApplyAdmissionReviewTyped ==
  ASSUME TypeOK, NEW e \in EventIds, NEW r \in Records, NEW rev \in Nat, NEW origin,
         NEW action \in Actions, NEW at \in Instants, NEW ledgerNow,
         ApplyAdmissionReview(e, r, rev, origin, action, at, ledgerNow)
  PROVE  TypeOK'
  <1>1. [action |-> action, record |-> r, revision |-> rev] \in Audit
    BY DEF Audit
  <1>2. audits' \in [EventIds -> Audit \cup {NoAudit}]
    BY <1>1 DEF ApplyAdmissionReview, TypeOK
  <1>3. CASE action = "reject"
    <2>1. ForgetAll({r}, [q \in {r} |-> e], at)
      BY <1>3 DEF ApplyAdmissionReview
    <2>2. [q \in {r} |-> e] \in [{r} -> EventIds]
      OBVIOUS
    <2>3. /\ records' \in [Records -> Row \cup {NoRow}]
          /\ payloads' \in SUBSET Records
          /\ sources' \in SUBSET (Sources \X Records)
          /\ relations' \in SUBSET (Records \X Records)
          /\ events' \in [EventIds -> Event \cup {NoEvent}]
          /\ receipts' \in [EventIds -> Records \cup {NoRecord}]
          /\ checkpoints' \in [Checkpoints -> Checkpoint]
      BY <2>1, <2>2, ForgetAllTyped
    <2> QED BY <1>2, <2>3 DEF ApplyAdmissionReview, TypeOK
  <1>4. CASE action # "reject"
    <2>1. AdmissionEvent[action] \in EventTypes \ {"observed", "forgotten"}
      BY <1>4 DEF AdmissionEvent, Actions, EventTypes
    <2>2. Transition(e, r, AdmissionEvent[action], at, NoRecord)
      BY <1>4 DEF ApplyAdmissionReview
    <2>3. /\ records' \in [Records -> Row \cup {NoRow}]
          /\ events' \in [EventIds -> Event \cup {NoEvent}]
          /\ checkpoints' \in [Checkpoints -> Checkpoint]
      BY <2>1, <2>2, TransitionTyped
    <2> QED BY <1>2, <1>4, <2>3 DEF ApplyAdmissionReview, TypeOK
  <1> QED BY <1>3, <1>4

LEMMA CreateCheckpointTyped ==
  ASSUME TypeOK, NEW c \in Checkpoints, NEW at, NEW S \in SUBSET Markers(at),
         CreateCheckpoint(c, S, at)
  PROVE  TypeOK'
  <1>1. \A r \in ListActive(at) : r \in Records /\ records[r] \in Row
    BY RowOfExisting DEF ListActive, Recallable, ActiveWindow, Live, TypeOK
  <1>2. S \in SUBSET (Records \X Nat)
    BY <1>1 DEF Markers, Marker, Row
  <1> QED BY <1>2 DEF CreateCheckpoint, TypeOK, Checkpoint

LEMMA InvalidateCheckpointTyped ==
  ASSUME TypeOK, NEW c \in Checkpoints, InvalidateCheckpoint(c)
  PROVE  TypeOK'
  BY DEF InvalidateCheckpoint, TypeOK, Checkpoint, Invalidated

LEMMA InitTyped == Init => TypeOK
  BY DEF Init, TypeOK, Checkpoint, UnusedCheckpoint, PurgeReceipt, NoPurge

(* The columns of the ledger never leave their types.                       *)
THEOREM Typing == Spec => []TypeOK
  <1>1. Init => TypeOK
    BY InitTyped
  <1>2. TypeOK /\ [Next]_vars => TypeOK'
    <2> SUFFICES ASSUME TypeOK, [Next]_vars PROVE TypeOK'
      OBVIOUS
    <2>1. CASE UNCHANGED vars
      BY <2>1 DEF vars, TypeOK
    <2>2. ASSUME NEW e \in CommandIds, NEW r \in Records, RawCommand(e, r) PROVE TypeOK'
      <3>1. e \in EventIds
        BY DEF EventIds
      <3>2. \A type \in {"confirmed", "quarantined", "expired", "retracted"} :
              type \in EventTypes \ {"observed", "forgotten"}
        BY DEF EventTypes
      <3> QED BY <2>2, <3>1, <3>2, CreateCandidateTyped, CommandTyped, SupersedeTyped,
                 ForgetTyped, EraseTyped
              DEF RawCommand, Confirm, Quarantine, Expire, Retract
    <2>3. ASSUME NEW e \in CommandIds, NEW r \in Records, Admission(e, r) PROVE TypeOK'
      <3>1. e \in EventIds /\ Revisions \subseteq Nat
        BY LedgerConstants DEF EventIds
      <3> QED BY <2>3, <3>1, ApplyAdmissionReviewTyped DEF Admission
    <2>4. CASE ScopeCommand
      BY <2>4, ForgetBySourceTyped, PurgePayloadsTyped DEF ScopeCommand
    <2>5. CASE CheckpointCommand
      BY <2>5, CreateCheckpointTyped, InvalidateCheckpointTyped DEF CheckpointCommand
    <2> QED BY <2>1, <2>2, <2>3, <2>4, <2>5 DEF Next
  <1> QED BY <1>1, <1>2, PTL DEF Spec

-----------------------------------------------------------------------------
(* Revoked sources.                                                         *)

(* A forget only removes sources.                                           *)
LEMMA ForgetAllSources ==
  ASSUME NEW V, NEW id, NEW at, ForgetAll(V, id, at)
  PROVE  sources' = SourcesWithout(V)
  BY DEF ForgetAll

(* No command stores a source that is revoked, and revoking a source        *)
(* removes what was stored of it.                                           *)
THEOREM RevocationHolds == Spec => []RevokedSourcesAreEmpty
  <1>1. Init => RevokedSourcesAreEmpty
    BY DEF Init, RevokedSourcesAreEmpty
  <1>2. TypeOK /\ RevokedSourcesAreEmpty /\ [Next]_vars => RevokedSourcesAreEmpty'
    <2> SUFFICES ASSUME TypeOK, RevokedSourcesAreEmpty, [Next]_vars
                 PROVE  RevokedSourcesAreEmpty'
      OBVIOUS
    <2>1. ASSUME sources' \subseteq sources, revoked' = revoked
          PROVE  RevokedSourcesAreEmpty'
      BY <2>1 DEF RevokedSourcesAreEmpty
    <2>2. CASE UNCHANGED vars
      BY <2>1, <2>2 DEF vars
    <2>3. ASSUME NEW e, NEW r, RawCommand(e, r) PROVE RevokedSourcesAreEmpty'
      <3>1. ASSUME NEW s, NEW origin, NEW from, NEW until, NEW at,
                   CreateCandidate(e, r, s, origin, from, until, at)
            PROVE  RevokedSourcesAreEmpty'
        BY <3>1 DEF CreateCandidate, SourceAccepted, RevokedSourcesAreEmpty
      <3>2. ASSUME NEW rev, NEW type, NEW at, Command(e, r, rev, type, at)
            PROVE  RevokedSourcesAreEmpty'
        BY <2>1, <3>2 DEF Command
      <3>3. ASSUME NEW q, NEW rev, NEW qrev, NEW at, Supersede(e, r, q, rev, qrev, at)
            PROVE  RevokedSourcesAreEmpty'
        BY <2>1, <3>3 DEF Supersede
      <3>4. ASSUME NEW rev, NEW at, Forget(e, r, rev, at) PROVE RevokedSourcesAreEmpty'
        BY <2>1, <3>4, ForgetAllSources DEF Forget, SourcesWithout
      <3>5. ASSUME NEW rev, Erase(e, r, rev) PROVE RevokedSourcesAreEmpty'
        BY <2>1, <3>5 DEF Erase, SourcesWithout
      <3> QED BY <2>3, <3>1, <3>2, <3>3, <3>4, <3>5
              DEF RawCommand, Confirm, Quarantine, Expire, Retract
    <2>4. ASSUME NEW e, NEW r, Admission(e, r) PROVE RevokedSourcesAreEmpty'
      BY <2>1, <2>4, ForgetAllSources DEF Admission, ApplyAdmissionReview, SourcesWithout
    <2>5. ASSUME NEW s, NEW at, ForgetBySource(s, at) PROVE RevokedSourcesAreEmpty'
      <3>1. sources' = SourcesWithout({r \in Records : <<s, r>> \in sources})
        BY <2>5, ForgetAllSources DEF ForgetBySource
      <3>2. \A x \in sources' : x \in sources /\ x[1] # s
        BY <3>1 DEF SourcesWithout, TypeOK
      <3> QED BY <2>5, <3>2 DEF ForgetBySource, RevokedSourcesAreEmpty
    <2>6. ASSUME NEW o, NEW at, PurgePayloads(o, at) PROVE RevokedSourcesAreEmpty'
      BY <2>1, <2>6, ForgetAllSources DEF PurgePayloads, SourcesWithout
    <2>7. CASE CheckpointCommand
      BY <2>1, <2>7 DEF CheckpointCommand, CreateCheckpoint, InvalidateCheckpoint
    <2> QED BY <2>2, <2>3, <2>4, <2>5, <2>6, <2>7 DEF Next, ScopeCommand
  <1> QED BY <1>1, <1>2, Typing, PTL DEF Spec

-----------------------------------------------------------------------------
(* Event identifiers.                                                       *)

(* Whatever an event row records, it is not the absence of an event.        *)
LEMMA EventRowIsSomething ==
  ASSUME NEW type \in EventTypes, NEW r, NEW n, NEW q
  PROVE  EventRow(type, r, n, q) # NoEvent
  BY DEF EventRow, NoEvent, EventTypes

LEMMA TransitionSpends ==
  ASSUME TypeOK, NEW e, NEW r, NEW type \in EventTypes, NEW at, NEW other,
         Transition(e, r, type, at, other),
         NEW f \in EventIds, events[f] # NoEvent
  PROVE  events'[f] # NoEvent
  BY EventRowIsSomething DEF Transition, TypeOK

LEMMA ForgetAllSpends ==
  ASSUME TypeOK, NEW V \in SUBSET Records, NEW id, NEW at, ForgetAll(V, id, at),
         NEW f \in EventIds
  PROVE  /\ events[f] # NoEvent => events'[f] # NoEvent
         /\ receipts[f] # NoRecord => receipts'[f] # NoRecord
  <1>1. events'[f] = events[f] \/ \E r, n : events'[f] = EventRow("forgotten", r, n, NoRecord)
    BY DEF ForgetAll
  <1>2. receipts'[f] = receipts[f] \/ receipts'[f] \in Records
    BY DEF ForgetAll
  <1> QED BY <1>1, <1>2, EventRowIsSomething, LedgerConstants DEF EventTypes

LEMMA EraseSpends ==
  ASSUME TypeOK, NEW e \in EventIds, NEW r \in Records, NEW rev, Erase(e, r, rev),
         NEW f \in EventIds, ~Unspent(f)
  PROVE  ~Unspent(f)'
  <1>1. CASE f \in eventTombstones
    BY <1>1 DEF Erase, Unspent
  <1>2. CASE hardReceipts[f] # NoRecord
    BY <1>2, LedgerConstants DEF Erase, Unspent, TypeOK
  <1>3. CASE receipts[f] # NoRecord
    <2>1. receipts[f] = r => f \in eventTombstones'
      BY DEF Erase, SpentOn
    <2>2. receipts[f] # r => receipts'[f] = receipts[f]
      BY DEF Erase
    <2> QED BY <1>3, <2>1, <2>2 DEF Unspent
  <1>4. CASE events[f] # NoEvent
    <2>1. events[f].record = r => f \in eventTombstones'
      BY <1>4 DEF Erase, SpentOn, EventsOf
    <2>2. events[f].record # r => events'[f] # NoEvent
      <3>1. events[f] \in Event
        BY <1>4 DEF TypeOK
      <3>2. [events[f] EXCEPT !.related = NoRecord] # NoEvent
        BY <3>1 DEF Event, NoEvent
      <3> QED BY <1>4, <3>2 DEF Erase, EventsWithout
    <2> QED BY <2>1, <2>2 DEF Unspent
  <1> QED BY <1>1, <1>2, <1>3, <1>4 DEF Unspent

(* A spent event identifier stays spent, erasure included: a retry that     *)
(* arrives late never passes for a new command.                             *)
THEOREM IdentifiersAreSpentForever == Spec => SpentIdsStaySpent
  <1>1. TypeOK /\ [Next]_vars => [SpentStaysSpent]_vars
    <2> SUFFICES ASSUME TypeOK, Next, NEW f \in EventIds, ~Unspent(f)
                 PROVE  ~Unspent(f)'
      BY DEF SpentStaysSpent
    <2>1. ASSUME /\ events[f] # NoEvent => events'[f] # NoEvent
                 /\ receipts[f] # NoRecord => receipts'[f] # NoRecord
                 /\ hardReceipts' = hardReceipts
                 /\ eventTombstones' = eventTombstones
          PROVE  ~Unspent(f)'
      BY <2>1 DEF Unspent
    <2>2. ASSUME NEW e \in CommandIds, NEW r \in Records, RawCommand(e, r)
          PROVE  ~Unspent(f)'
      <3>1. ASSUME NEW s, NEW origin, NEW from, NEW until, NEW at,
                   CreateCandidate(e, r, s, origin, from, until, at)
            PROVE  ~Unspent(f)'
        BY <2>1, <3>1, EventRowIsSomething DEF CreateCandidate, TypeOK, EventTypes
      <3>2. ASSUME NEW rev, NEW type \in EventTypes, NEW at, Command(e, r, rev, type, at)
            PROVE  ~Unspent(f)'
        BY <2>1, <3>2, TransitionSpends DEF Command
      <3>3. ASSUME NEW q, NEW rev, NEW qrev, NEW at, Supersede(e, r, q, rev, qrev, at)
            PROVE  ~Unspent(f)'
        BY <2>1, <3>3, TransitionSpends DEF Supersede, EventTypes
      <3>4. ASSUME NEW rev, NEW at, Forget(e, r, rev, at) PROVE ~Unspent(f)'
        BY <2>1, <3>4, ForgetAllSpends DEF Forget
      <3>5. ASSUME NEW rev, Erase(e, r, rev) PROVE ~Unspent(f)'
        BY <3>5, EraseSpends DEF EventIds
      <3> QED BY <2>2, <3>1, <3>2, <3>3, <3>4, <3>5
              DEF RawCommand, Confirm, Quarantine, Expire, Retract, EventTypes
    <2>3. ASSUME NEW e \in CommandIds, NEW r \in Records, Admission(e, r)
          PROVE  ~Unspent(f)'
      <3>1. PICK rev \in Revisions, origin \in ConcreteOrigins, action \in Actions,
                 at \in Instants, ledgerNow \in Instants :
                 ApplyAdmissionReview(e, r, rev, origin, action, at, ledgerNow)
        BY <2>3 DEF Admission
      <3>2. CASE action = "reject"
        BY <2>1, <3>1, <3>2, ForgetAllSpends DEF ApplyAdmissionReview
      <3>3. CASE action # "reject"
        <4>1. AdmissionEvent[action] \in EventTypes
          BY DEF AdmissionEvent, Actions, EventTypes
        <4> QED BY <2>1, <3>1, <3>3, <4>1, TransitionSpends DEF ApplyAdmissionReview
      <3> QED BY <3>2, <3>3
    <2>4. CASE ScopeCommand
      <3>1. ASSUME NEW s, NEW at, ForgetBySource(s, at) PROVE ~Unspent(f)'
        BY <2>1, <3>1, ForgetAllSpends DEF ForgetBySource
      <3>2. ASSUME NEW o, NEW at, PurgePayloads(o, at) PROVE ~Unspent(f)'
        BY <2>1, <3>2, ForgetAllSpends DEF PurgePayloads, TypeOK
      <3> QED BY <2>4, <3>1, <3>2 DEF ScopeCommand
    <2>5. CASE CheckpointCommand
      BY <2>1, <2>5 DEF CheckpointCommand, CreateCheckpoint, InvalidateCheckpoint
    <2> QED BY <2>2, <2>3, <2>4, <2>5 DEF Next
  <1> QED BY <1>1, Typing, PTL DEF Spec, SpentIdsStaySpent

-----------------------------------------------------------------------------
(* Recall checkpoints.                                                      *)

(* The records outside V keep their payload, state and revision.            *)
Undisturbed(V) ==
  \A r \in Records : r \in payloads /\ Exists(r) /\ r \notin V =>
    r \in payloads' /\ records'[r].state = records[r].state
                    /\ records'[r].revision = records[r].revision

(* Clearing a link changes neither the state nor the revision of a row.     *)
LEMMA UnlinkedKeepsMarker ==
  ASSUME NEW row \in Row \cup {NoRow}, row # NoRow, NEW V
  PROVE  /\ Unlinked(row, V).state = row.state
         /\ Unlinked(row, V).revision = row.revision
  BY DEF Unlinked, Row

LEMMA ForgetAllUndisturbed ==
  ASSUME TypeOK, NEW V \in SUBSET Records, NEW id, NEW at, ForgetAll(V, id, at)
  PROVE  Undisturbed(V) /\ checkpoints' = CheckpointsWithout(V)
  <1>1. ASSUME NEW r \in Records, r \in payloads, Exists(r), r \notin V
        PROVE  /\ r \in payloads'
               /\ records'[r].state = records[r].state
               /\ records'[r].revision = records[r].revision
    <2>1. records'[r] = Unlinked(records[r], V)
      BY <1>1 DEF ForgetAll
    <2>2. records[r] \in Row \cup {NoRow} /\ records[r] # NoRow
      BY <1>1 DEF TypeOK, Exists
    <2> QED BY <1>1, <2>1, <2>2, UnlinkedKeepsMarker DEF ForgetAll
  <1> QED BY <1>1 DEF Undisturbed, ForgetAll

LEMMA TransitionUndisturbed ==
  ASSUME TypeOK, NEW e, NEW r \in Records, NEW type, NEW at, NEW other,
         Transition(e, r, type, at, other), payloads' = payloads
  PROVE  Undisturbed({r}) /\ checkpoints' = CheckpointsWithout({r})
  BY DEF Transition, Undisturbed, TypeOK

LEMMA EraseUndisturbed ==
  ASSUME TypeOK, NEW e, NEW r \in Records, NEW rev, Erase(e, r, rev)
  PROVE  Undisturbed({r}) /\ checkpoints' = CheckpointsWithout({r})
  <1>1. ASSUME NEW q \in Records, q \in payloads, Exists(q), q # r
        PROVE  /\ q \in payloads'
               /\ records'[q].state = records[q].state
               /\ records'[q].revision = records[q].revision
    <2>1. records'[q] = Unlinked(records[q], {r})
      BY <1>1 DEF Erase
    <2>2. records[q] \in Row \cup {NoRow} /\ records[q] # NoRow
      BY <1>1 DEF TypeOK, Exists
    <2> QED BY <1>1, <2>1, <2>2, UnlinkedKeepsMarker DEF Erase
  <1> QED BY <1>1 DEF Undisturbed, Erase

(* Invalidating the checkpoints that selected a record of V is enough when  *)
(* nothing outside V changed.                                               *)
LEMMA InvalidationSuffices ==
  ASSUME TypeOK, CheckpointsAreCurrent, NEW V, Undisturbed(V),
         checkpoints' = CheckpointsWithout(V)
  PROVE  CheckpointsAreCurrent'
  <1> SUFFICES ASSUME NEW c \in Checkpoints, checkpoints'[c].state = "active",
                      NEW m \in checkpoints'[c].selections
               PROVE  /\ m[1] \in payloads'
                      /\ records'[m[1]].state = "active"
                      /\ records'[m[1]].revision = m[2]
    BY DEF CheckpointsAreCurrent
  <1>1. checkpoints'[c] = checkpoints[c] /\ m[1] \notin V
    BY DEF CheckpointsWithout, Invalidated
  <1>2. m \in Records \X Nat
    BY <1>1 DEF TypeOK, Checkpoint
  <1>3. m[1] \in payloads /\ records[m[1]].state = "active" /\ records[m[1]].revision = m[2]
    BY <1>1 DEF CheckpointsAreCurrent
  <1>4. Exists(m[1])
    BY <1>3 DEF Exists, NoRow
  <1> QED BY <1>1, <1>2, <1>3, <1>4 DEF Undisturbed

(* An active checkpoint selects only active records at the revisions it was *)
(* sealed with, after any sequence of commands.                             *)
THEOREM CheckpointsStayCurrent == Spec => []CheckpointsAreCurrent
  <1>1. Init => CheckpointsAreCurrent
    BY DEF Init, CheckpointsAreCurrent, UnusedCheckpoint
  <1>2. TypeOK /\ CheckpointsAreCurrent /\ [Next]_vars => CheckpointsAreCurrent'
    <2> SUFFICES ASSUME TypeOK, CheckpointsAreCurrent, [Next]_vars
                 PROVE  CheckpointsAreCurrent'
      OBVIOUS
    <2>1. CASE UNCHANGED vars
      BY <2>1 DEF vars, CheckpointsAreCurrent
    <2>2. ASSUME NEW e \in CommandIds, NEW r \in Records, RawCommand(e, r)
          PROVE  CheckpointsAreCurrent'
      <3>1. ASSUME NEW s, NEW origin, NEW from, NEW until, NEW at,
                   CreateCandidate(e, r, s, origin, from, until, at)
            PROVE  CheckpointsAreCurrent'
        <4>1. \A q \in Records : Exists(q) => records'[q] = records[q]
          BY <3>1 DEF CreateCandidate, TypeOK
        <4>2. Undisturbed({})
          BY <3>1, <4>1 DEF CreateCandidate, Undisturbed
        <4>3. checkpoints' = CheckpointsWithout({})
          BY <3>1 DEF CreateCandidate, CheckpointsWithout, TypeOK
        <4> QED BY <4>2, <4>3, InvalidationSuffices
      <3>2. ASSUME NEW rev, NEW type, NEW at, Command(e, r, rev, type, at)
            PROVE  CheckpointsAreCurrent'
        BY <3>2, TransitionUndisturbed, InvalidationSuffices DEF Command
      <3>3. ASSUME NEW q, NEW rev, NEW qrev, NEW at, Supersede(e, r, q, rev, qrev, at)
            PROVE  CheckpointsAreCurrent'
        BY <3>3, TransitionUndisturbed, InvalidationSuffices DEF Supersede
      <3>4. ASSUME NEW rev, NEW at, Forget(e, r, rev, at) PROVE CheckpointsAreCurrent'
        BY <3>4, ForgetAllUndisturbed, InvalidationSuffices DEF Forget
      <3>5. ASSUME NEW rev, Erase(e, r, rev) PROVE CheckpointsAreCurrent'
        BY <3>5, EraseUndisturbed, InvalidationSuffices
      <3> QED BY <2>2, <3>1, <3>2, <3>3, <3>4, <3>5
              DEF RawCommand, Confirm, Quarantine, Expire, Retract
    <2>3. ASSUME NEW e \in CommandIds, NEW r \in Records, Admission(e, r)
          PROVE  CheckpointsAreCurrent'
      BY <2>3, TransitionUndisturbed, ForgetAllUndisturbed, InvalidationSuffices
         DEF Admission, ApplyAdmissionReview
    <2>4. ASSUME NEW s, NEW at, ForgetBySource(s, at) PROVE CheckpointsAreCurrent'
      BY <2>4, ForgetAllUndisturbed, InvalidationSuffices DEF ForgetBySource
    <2>5. ASSUME NEW o, NEW at, PurgePayloads(o, at) PROVE CheckpointsAreCurrent'
      BY <2>5, ForgetAllUndisturbed, InvalidationSuffices DEF PurgePayloads, TypeOK
    <2>6. ASSUME NEW c \in Checkpoints, NEW at, NEW S \in SUBSET Markers(at),
                 CreateCheckpoint(c, S, at)
          PROVE  CheckpointsAreCurrent'
      <3>1. \A m \in S : /\ m[1] \in payloads
                         /\ records[m[1]].state = "active"
                         /\ records[m[1]].revision = m[2]
        BY DEF Markers, Marker, ListActive, Recallable
      <3> QED BY <2>6, <3>1 DEF CreateCheckpoint, CheckpointsAreCurrent, TypeOK
    <2>7. ASSUME NEW c \in Checkpoints, InvalidateCheckpoint(c) PROVE CheckpointsAreCurrent'
      BY <2>7 DEF InvalidateCheckpoint, Invalidated, CheckpointsAreCurrent, TypeOK
    <2> QED BY <2>1, <2>2, <2>3, <2>4, <2>5, <2>6, <2>7
            DEF Next, ScopeCommand, CheckpointCommand
  <1> QED BY <1>1, <1>2, Typing, PTL DEF Spec

-----------------------------------------------------------------------------
(* Supersession: its two copies, the relation table and the superseded_by   *)
(* column, agree for any set of records, and following them never comes     *)
(* back to where it started.                                                *)

(* RelationsMirrorRows, pair by pair.                                       *)
LinkedTo(r, q) == Exists(r) /\ records[r].supersededBy = q
Mirror == \A q, r \in Records : <<q, r>> \in relations <=> LinkedTo(r, q)

(* A replaced record never becomes a candidate or active again.             *)
ReplacedAreOver ==
  \A q, r \in Records : LinkedTo(r, q) => records[r].state \notin {"candidate", "active"}

LinkInv == Mirror /\ ReplacedAreOver

LEMMA MirrorIsPairwise ==
  ASSUME TypeOK, Mirror
  PROVE  RelationsMirrorRows
  <1>1. ASSUME NEW r \in Records, Exists(r), records[r].supersededBy # NoRecord
        PROVE  records[r].supersededBy \in Records
    BY <1>1, RowOfExisting DEF Row
  <1>2. \A x \in relations : x \in Records \X Records
    BY DEF TypeOK
  <1> QED BY <1>1, <1>2, LedgerConstants DEF Mirror, LinkedTo, RelationsMirrorRows

-----------------------------------------------------------------------------
(* What each kind of command does to the links.                             *)

(* A transition other than supersede keeps the link of its record, and only *)
(* a candidate, which has none, becomes active.                             *)
LEMMA TransitionKeepsLinks ==
  ASSUME TypeOK, LinkInv, NEW e, NEW r \in Records, NEW at, NEW other,
         NEW type \in {"confirmed", "retracted", "expired", "quarantined"},
         Transition(e, r, type, at, other), relations' = relations
  PROVE  LinkInv'
  <1>1. Exists(r) /\ records[r].state \in AllowedFrom[type] /\ records[r] \in Row
    BY RowOfExisting DEF Transition, TransitionAllowed
  <1>2. records'[r] = Moved(records[r], type, at)
    BY DEF Transition, TypeOK
  <1>3. /\ records'[r].supersededBy = records[r].supersededBy
        /\ records'[r].state = TargetState[type]
    BY <1>1, <1>2 DEF Moved, Row
  <1>4. records'[r] # NoRow
    BY <1>3 DEF NoRow, TargetState
  <1>5. \A q \in Records \ {r} : records'[q] = records[q]
    BY DEF Transition, TypeOK
  <1>6. \A p, q \in Records : LinkedTo(p, q)' <=> LinkedTo(p, q)
    BY <1>1, <1>3, <1>4, <1>5 DEF LinkedTo, Exists
  <1>7. ASSUME NEW q \in Records, LinkedTo(r, q)
        PROVE  records'[r].state \notin {"candidate", "active"}
    <2>1. records[r].state \notin {"candidate", "active"}
      BY <1>7 DEF LinkInv, ReplacedAreOver
    <2>2. type # "confirmed"
      BY <1>1, <2>1 DEF AllowedFrom
    <2> QED BY <1>3, <2>2 DEF TargetState
  <1>8. Mirror'
    BY <1>6 DEF LinkInv, Mirror
  <1>9. ReplacedAreOver'
    BY <1>5, <1>6, <1>7 DEF LinkInv, ReplacedAreOver
  <1> QED BY <1>8, <1>9 DEF LinkInv

(* Supersede writes both copies; the record it replaces was active and so   *)
(* had no link to overwrite.                                                *)
LEMMA SupersedeKeepsLinks ==
  ASSUME TypeOK, LinkInv, NEW e, NEW r \in Records, NEW q \in Records,
         NEW rev, NEW qrev, NEW at, Supersede(e, r, q, rev, qrev, at)
  PROVE  LinkInv'
  <1>1. /\ Exists(r) /\ records[r].state = "active" /\ records[r] \in Row
        /\ relations' = relations \cup {<<q, r>>}
    BY RowOfExisting DEF Supersede, Transition, TransitionAllowed, AllowedFrom
  <1>2. records'[r] = [Moved(records[r], "superseded", at) EXCEPT !.supersededBy = q]
    BY DEF Supersede, Transition, TypeOK
  <1>3. records'[r].supersededBy = q /\ records'[r].state = "superseded"
    BY <1>1, <1>2 DEF Moved, Row, TargetState
  <1>4. records'[r] # NoRow
    BY <1>3 DEF NoRow
  <1>5. \A p \in Records \ {r} : records'[p] = records[p]
    BY DEF Supersede, Transition, TypeOK
  <1>6. \A p \in Records : ~LinkedTo(r, p)
    BY <1>1 DEF LinkInv, ReplacedAreOver
  <1>7. \A p, s \in Records : LinkedTo(p, s)' <=> LinkedTo(p, s) \/ (p = r /\ s = q)
    BY <1>3, <1>4, <1>5, <1>6 DEF LinkedTo, Exists
  <1>8. Mirror'
    BY <1>1, <1>7 DEF LinkInv, Mirror
  <1>9. ReplacedAreOver'
    BY <1>3, <1>5, <1>7 DEF LinkInv, ReplacedAreOver
  <1> QED BY <1>8, <1>9 DEF LinkInv

(* Forgetting and erasing cut the records V out of the chain on both sides. *)
LEMMA CuttingKeepsLinks ==
  ASSUME TypeOK, LinkInv, NEW V \in SUBSET Records,
         relations' = RelationsWithout(V),
         \A r \in V : ~Exists(r)' \/ records'[r].supersededBy = NoRecord,
         \A r \in Records \ V : records'[r] = Unlinked(records[r], V)
  PROVE  LinkInv'
  <1>1. ASSUME NEW r \in Records \ V, NEW q \in Records
        PROVE  /\ LinkedTo(r, q)' <=> LinkedTo(r, q) /\ q \notin V
               /\ LinkedTo(r, q)' => records'[r].state = records[r].state
    <2>1. CASE records[r] = NoRow
      BY <2>1 DEF LinkedTo, Exists, Unlinked
    <2>2. CASE records[r] # NoRow /\ records[r].supersededBy \in V
      <3>1. records[r] \in Row
        BY <2>2, RowOfExisting DEF Exists
      <3>2. records'[r].supersededBy = NoRecord
        BY <2>2, <3>1 DEF Unlinked, Row
      <3> QED BY <2>2, <3>2, LedgerConstants DEF LinkedTo
    <2>3. CASE records[r] # NoRow /\ records[r].supersededBy \notin V
      BY <2>3 DEF LinkedTo, Exists, Unlinked
    <2> QED BY <2>1, <2>2, <2>3
  <1>2. ASSUME NEW r \in V, NEW q \in Records
        PROVE  ~LinkedTo(r, q)'
    BY <1>2, LedgerConstants DEF LinkedTo
  <1>3. Mirror'
    BY <1>1, <1>2 DEF LinkInv, Mirror, RelationsWithout
  <1>4. ReplacedAreOver'
    BY <1>1, <1>2 DEF LinkInv, ReplacedAreOver
  <1> QED BY <1>3, <1>4 DEF LinkInv

LEMMA ForgetAllCuts ==
  ASSUME TypeOK, LinkInv, NEW V \in SUBSET Records, NEW id, NEW at, ForgetAll(V, id, at)
  PROVE  LinkInv'
  <1>1. ASSUME NEW r \in V PROVE records'[r].supersededBy = NoRecord
    <2>1. records[r] \in Row
      BY RowOfExisting DEF ForgetAll, TransitionAllowed
    <2>2. records'[r] = ForgottenRow(records[r], at)
      BY DEF ForgetAll
    <2> QED BY <2>1, <2>2 DEF ForgottenRow, Moved, Row
  <1>2. /\ relations' = RelationsWithout(V)
        /\ \A r \in Records \ V : records'[r] = Unlinked(records[r], V)
    BY DEF ForgetAll
  <1> QED BY <1>1, <1>2, CuttingKeepsLinks, Zenon

LEMMA EraseCuts ==
  ASSUME TypeOK, LinkInv, NEW e, NEW r \in Records, NEW rev, Erase(e, r, rev)
  PROVE  LinkInv'
  <1>1. ~Exists(r)'
    BY DEF Erase, Exists
  <1>2. /\ relations' = RelationsWithout({r})
        /\ \A q \in Records \ {r} : records'[q] = Unlinked(records[q], {r})
    BY DEF Erase
  <1>3. {r} \in SUBSET Records /\ \A q \in {r} : ~Exists(q)'
    BY <1>1
  <1> QED BY <1>2, <1>3, CuttingKeepsLinks, Zenon

LEMMA CreateKeepsLinks ==
  ASSUME TypeOK, LinkInv, NEW e, NEW r \in Records, NEW s, NEW origin, NEW from,
         NEW until, NEW at, CreateCandidate(e, r, s, origin, from, until, at)
  PROVE  LinkInv'
  <1>1. ~Exists(r) /\ relations' = relations /\ records'[r].supersededBy = NoRecord
    BY DEF CreateCandidate, TypeOK
  <1>2. \A p \in Records \ {r} : records'[p] = records[p]
    BY DEF CreateCandidate, TypeOK
  <1>3. \A p, q \in Records : LinkedTo(p, q)' <=> LinkedTo(p, q)
    BY <1>1, <1>2, LedgerConstants DEF LinkedTo, Exists
  <1>4. \A p, q \in Records : LinkedTo(p, q)' => records'[p].state = records[p].state
    BY <1>1, <1>2, <1>3 DEF LinkedTo
  <1> QED BY <1>1, <1>3, <1>4 DEF LinkInv, Mirror, ReplacedAreOver

-----------------------------------------------------------------------------
(* Acyclicity.  relations grows only by a pair whose replacement is active, *)
(* and so is the end of its chain.                                          *)

LEMMA FewerRelationsStayAcyclic ==
  ASSUME SupersessionIsAcyclic, relations' \subseteq relations
  PROVE  SupersessionIsAcyclic'
  BY DEF SupersessionIsAcyclic

LEMMA SupersedeStaysAcyclic ==
  ASSUME TypeOK, LinkInv, SupersessionIsAcyclic, NEW e, NEW r \in Records, NEW q \in Records,
         NEW rev, NEW qrev, NEW at, Supersede(e, r, q, rev, qrev, at)
  PROVE  SupersessionIsAcyclic'
  <1>1. r # q /\ relations' = relations \cup {<<q, r>>} /\ records[q].state = "active"
    BY DEF Supersede, ReplacementAccepted, Recallable
  <1>2. \A p \in Records : <<p, q>> \notin relations'
    BY <1>1 DEF LinkInv, Mirror, ReplacedAreOver
  <1> SUFFICES ASSUME NEW S \in SUBSET Records, S # {}
               PROVE  \E x \in S : ~\E y \in S : <<y, x>> \in relations'
    BY DEF SupersessionIsAcyclic
  <1>3. CASE q \in S
    BY <1>2, <1>3
  <1>4. CASE q \notin S
    BY <1>1, <1>4 DEF SupersessionIsAcyclic
  <1> QED BY <1>3, <1>4

-----------------------------------------------------------------------------
LinksAndChains == LinkInv /\ SupersessionIsAcyclic

LEMMA CutsStayAcyclic ==
  ASSUME SupersessionIsAcyclic, NEW V, relations' = RelationsWithout(V)
  PROVE  SupersessionIsAcyclic'
  BY FewerRelationsStayAcyclic DEF RelationsWithout

LEMMA LinksInductive == TypeOK /\ LinksAndChains /\ [Next]_vars => LinksAndChains'
  <1> SUFFICES ASSUME TypeOK, LinkInv, SupersessionIsAcyclic, [Next]_vars
               PROVE  LinkInv' /\ SupersessionIsAcyclic'
    BY DEF LinksAndChains
  <1>1. ASSUME UNCHANGED <<records, relations>>
        PROVE  LinkInv' /\ SupersessionIsAcyclic'
    BY <1>1 DEF LinkInv, Mirror, ReplacedAreOver, LinkedTo, Exists, SupersessionIsAcyclic
  <1>2. ASSUME NEW V \in SUBSET Records, NEW id, NEW at, ForgetAll(V, id, at)
        PROVE  LinkInv' /\ SupersessionIsAcyclic'
    BY <1>2, ForgetAllCuts, CutsStayAcyclic DEF ForgetAll
  <1>3. ASSUME NEW e, NEW r \in Records, NEW at, NEW other,
               NEW type \in {"confirmed", "retracted", "expired", "quarantined"},
               Transition(e, r, type, at, other), relations' = relations
        PROVE  LinkInv' /\ SupersessionIsAcyclic'
    BY <1>3, TransitionKeepsLinks, FewerRelationsStayAcyclic
  <1>4. ASSUME NEW e \in CommandIds, NEW r \in Records, RawCommand(e, r)
        PROVE  LinkInv' /\ SupersessionIsAcyclic'
    <2>1. ASSUME NEW s, NEW origin, NEW from, NEW until, NEW at,
                 CreateCandidate(e, r, s, origin, from, until, at)
          PROVE  LinkInv' /\ SupersessionIsAcyclic'
      BY <2>1, CreateKeepsLinks, FewerRelationsStayAcyclic DEF CreateCandidate
    <2>2. ASSUME NEW rev, NEW at, NEW type \in {"confirmed", "retracted", "expired", "quarantined"},
                 Command(e, r, rev, type, at)
          PROVE  LinkInv' /\ SupersessionIsAcyclic'
      BY <1>3, <2>2 DEF Command
    <2>3. ASSUME NEW q \in Records, NEW rev, NEW qrev, NEW at,
                 Supersede(e, r, q, rev, qrev, at)
          PROVE  LinkInv' /\ SupersessionIsAcyclic'
      BY <2>3, SupersedeKeepsLinks, SupersedeStaysAcyclic
    <2>4. ASSUME NEW rev, NEW at, Forget(e, r, rev, at)
          PROVE  LinkInv' /\ SupersessionIsAcyclic'
      BY <1>2, <2>4 DEF Forget
    <2>5. ASSUME NEW rev, Erase(e, r, rev) PROVE LinkInv' /\ SupersessionIsAcyclic'
      BY <2>5, EraseCuts, CutsStayAcyclic DEF Erase
    <2> QED BY <1>4, <2>1, <2>2, <2>3, <2>4, <2>5
            DEF RawCommand, Confirm, Quarantine, Expire, Retract
  <1>5. ASSUME NEW e \in CommandIds, NEW r \in Records, Admission(e, r)
        PROVE  LinkInv' /\ SupersessionIsAcyclic'
    <2>1. PICK rev \in Revisions, origin \in ConcreteOrigins, action \in Actions,
               at \in Instants, ledgerNow \in Instants :
             ApplyAdmissionReview(e, r, rev, origin, action, at, ledgerNow)
      BY <1>5 DEF Admission
    <2>2. CASE action = "reject"
      BY <1>2, <2>1, <2>2 DEF ApplyAdmissionReview
    <2>3. CASE action # "reject"
      <3>1. AdmissionEvent[action] \in {"confirmed", "quarantined"}
        BY <2>3 DEF AdmissionEvent, Actions
      <3> QED BY <1>3, <2>1, <2>3, <3>1 DEF ApplyAdmissionReview
    <2> QED BY <2>2, <2>3
  <1>6. ASSUME ScopeCommand PROVE LinkInv' /\ SupersessionIsAcyclic'
    <2>1. ASSUME NEW s, NEW at, ForgetBySource(s, at)
          PROVE  LinkInv' /\ SupersessionIsAcyclic'
      BY <1>2, <2>1 DEF ForgetBySource
    <2>2. ASSUME NEW o, NEW at, PurgePayloads(o, at)
          PROVE  LinkInv' /\ SupersessionIsAcyclic'
      BY <1>2, <2>2 DEF PurgePayloads, TypeOK
    <2> QED BY <1>6, <2>1, <2>2 DEF ScopeCommand
  <1>7. ASSUME CheckpointCommand PROVE UNCHANGED <<records, relations>>
    BY <1>7 DEF CheckpointCommand, CreateCheckpoint, InvalidateCheckpoint
  <1>8. CASE UNCHANGED vars
    BY <1>1, <1>8 DEF vars
  <1> QED BY <1>1, <1>4, <1>5, <1>6, <1>7, <1>8 DEF Next

LEMMA LinksAlways == Spec => [](TypeOK /\ LinksAndChains)
  <1>1. Init => LinksAndChains
    <2> SUFFICES ASSUME Init PROVE LinksAndChains
      OBVIOUS
    <2>1. LinkInv
      BY DEF Init, LinkInv, Mirror, ReplacedAreOver, LinkedTo, Exists
    <2>2. SupersessionIsAcyclic
      BY DEF Init, SupersessionIsAcyclic
    <2> QED BY <2>1, <2>2 DEF LinksAndChains
  <1> QED BY <1>1, LinksInductive, Typing, PTL DEF Spec

(* The relation table and the superseded_by column stay equal through       *)
(* supersede, forget, purge, revocation and erase, for any set of records.  *)
THEOREM LinksMirrorRows == Spec => []RelationsMirrorRows
  <1>1. TypeOK /\ LinksAndChains => RelationsMirrorRows
    BY MirrorIsPairwise DEF LinksAndChains, LinkInv
  <1> QED BY <1>1, LinksAlways, PTL

(* Following superseded_by always ends, however long the chains of          *)
(* replacements are and whatever was forgotten or erased in their middle.   *)
THEOREM ChainsEnd == Spec => []SupersessionIsAcyclic
  <1>1. LinksAndChains => SupersessionIsAcyclic
    BY DEF LinksAndChains
  <1> QED BY <1>1, LinksAlways, PTL

(* The two as the runs check them: supersede, forget, purge and erase keep  *)
(* one acyclic relation in both of its copies.                              *)
THEOREM RelationsHold == Spec => []RelationsAreSound
  BY LinksMirrorRows, ChainsEnd, PTL DEF RelationsAreSound

(***************************************************************************)
(* The ledger implements RecordLifecycle.                                  *)
(***************************************************************************)

-----------------------------------------------------------------------------
(* The stages a record's tables can be in.                                  *)

(* A record outside the set that a forget or an erasure removes keeps its   *)
(* stage: clearing its link changes neither its state nor its existence.    *)
LEMMA UnlinkedKeepsStage ==
  ASSUME NEW row \in Row \cup {NoRow}, NEW V
  PROVE  /\ Unlinked(row, V) = NoRow <=> row = NoRow
         /\ row # NoRow => Unlinked(row, V).state = row.state
  <1>1. CASE row # NoRow
    <2>1. row \in Row
      BY <1>1
    <2>2. [row EXCEPT !.supersededBy = NoRecord].state = row.state
      BY <2>1 DEF Row
    <2>3. row.state # "absent"
      BY <2>1 DEF Row, States
    <2>4. [row EXCEPT !.supersededBy = NoRecord] # NoRow
      BY <2>2, <2>3 DEF NoRow
    <2> QED BY <1>1, <2>2, <2>4 DEF Unlinked
  <1>2. CASE row = NoRow
    BY <1>2 DEF Unlinked
  <1> QED BY <1>1, <1>2

(* A transition moves one stored record to the target state of its type,    *)
(* and its plaintext is still there.                                        *)
LEMMA TransitionMoves ==
  ASSUME TypeOK, PayloadsFollowRows, NEW e, NEW r \in Records,
         NEW type \in EventTypes \ {"observed", "forgotten"},
         NEW at \in Instants, NEW other \in Records \cup {NoRecord},
         Transition(e, r, type, at, other),
         payloads' = payloads, tombstones' = tombstones
  PROVE  /\ r \in payloads /\ Exists(r) /\ r \notin tombstones
         /\ records[r].state \in AllowedFrom[type]
         /\ Exists(r)' /\ records'[r].state = TargetState[type]
         /\ \A q \in Records \ {r} : records'[q] = records[q]
  <1>1. Exists(r) /\ records[r].state \in AllowedFrom[type]
    BY DEF Transition, TransitionAllowed
  <1>2. records[r].state # "retracted"
    BY <1>1 DEF AllowedFrom, EventTypes, States
  <1>3. r \in payloads /\ r \notin tombstones
    BY <1>1, <1>2 DEF PayloadsFollowRows
  <1>4. records[r] \in Row
    BY <1>1, RowOfExisting
  <1> DEFINE moved == Moved(records[r], type, at)
             row == IF type = "superseded" THEN [moved EXCEPT !.supersededBy = other] ELSE moved
  <1>5. moved \in Row /\ moved.state = TargetState[type]
    BY <1>4, MovedIsRow DEF Moved, Row
  <1>6. row \in Row /\ row.state = TargetState[type]
    <2>1. [moved EXCEPT !.supersededBy = other] \in Row
      BY <1>5, RelinkedIsRow
    <2>2. [moved EXCEPT !.supersededBy = other].state = moved.state
      BY <1>5 DEF Row
    <2> HIDE DEF moved
    <2> QED BY <1>5, <2>1, <2>2
  <1>7. row # NoRow
    BY <1>6 DEF Row, States, NoRow
  <1>8. records' = [records EXCEPT ![r] = row]
    BY DEF Transition, TypeOK
  <1> HIDE DEF row
  <1> QED BY <1>1, <1>3, <1>6, <1>7, <1>8 DEF TypeOK, Exists

(* Forgetting moves the whole set to the retracted state without plaintext. *)
LEMMA ForgetAllMoves ==
  ASSUME TypeOK, NEW V \in SUBSET Records, NEW id, NEW at \in Instants,
         ForgetAll(V, id, at)
  PROVE  /\ \A r \in V : Exists(r) /\ Exists(r)' /\ records'[r].state = "retracted"
         /\ \A q \in Records \ V : /\ Exists(q)' <=> Exists(q)
                                   /\ Exists(q) => records'[q].state = records[q].state
         /\ payloads' = payloads \ V
  <1>1. ASSUME NEW r \in V
        PROVE  Exists(r) /\ Exists(r)' /\ records'[r].state = "retracted"
    <2>1. Exists(r) /\ records'[r] = ForgottenRow(records[r], at)
      BY DEF ForgetAll, TransitionAllowed
    <2>2. records[r] \in Row
      BY <2>1, RowOfExisting
    <2>3. Moved(records[r], "forgotten", at).state = "retracted"
      BY <2>2 DEF Moved, Row, TargetState
    <2>4. Moved(records[r], "forgotten", at) \in Row
      BY <2>2, MovedIsRow DEF EventTypes
    <2>5. records'[r].state = "retracted"
      BY <2>1, <2>3, <2>4 DEF ForgottenRow, Row
    <2> QED BY <2>1, <2>5 DEF Exists, NoRow
  <1>2. ASSUME NEW q \in Records \ V
        PROVE  /\ Exists(q)' <=> Exists(q)
               /\ Exists(q) => records'[q].state = records[q].state
    <2>1. records'[q] = Unlinked(records[q], V)
      BY DEF ForgetAll
    <2> QED BY <2>1, UnlinkedKeepsStage DEF Exists, TypeOK
  <1> QED BY <1>1, <1>2 DEF ForgetAll

(* The same facts for the two other commands that change a row.             *)
LEMMA CreateMoves ==
  ASSUME TypeOK, NEW e, NEW r \in Records, NEW s, NEW origin, NEW from, NEW until, NEW at,
         CreateCandidate(e, r, s, origin, from, until, at)
  PROVE  /\ ~Exists(r) /\ r \notin tombstones
         /\ Exists(r)' /\ records'[r].state = "candidate"
         /\ \A q \in Records \ {r} : records'[q] = records[q]
         /\ payloads' = payloads \cup {r} /\ tombstones' = tombstones
  BY DEF CreateCandidate, TypeOK, Exists, NoRow

LEMMA EraseMoves ==
  ASSUME TypeOK, NEW e, NEW r \in Records, NEW rev, Erase(e, r, rev)
  PROVE  /\ Exists(r) /\ ~Exists(r)'
         /\ \A q \in Records \ {r} : /\ Exists(q)' <=> Exists(q)
                                     /\ Exists(q) => records'[q].state = records[q].state
         /\ payloads' = payloads \ {r} /\ tombstones' = tombstones \cup {r}
  <1>1. ASSUME NEW q \in Records \ {r}
        PROVE  /\ Exists(q)' <=> Exists(q)
               /\ Exists(q) => records'[q].state = records[q].state
    <2>1. records'[q] = Unlinked(records[q], {r})
      BY DEF Erase
    <2> QED BY <2>1, UnlinkedKeepsStage DEF Exists, TypeOK
  <1> QED BY <1>1 DEF Erase, CheckRevision, Exists

-----------------------------------------------------------------------------
(* A step of the ledger, as a step of the lifecycle.                        *)

(* What one step may do to the stages: advance one record, forget a set,    *)
(* erase one record, or nothing.                                            *)
StageStep ==
  \/ \E r \in Records : Lifecycle!Advance(r)
  \/ \E V \in SUBSET Records : Lifecycle!ForgetSet(V)
  \/ \E r \in Records : Lifecycle!Erase(r)
  \/ UNCHANGED Life

StepIsSound == PayloadsFollowRows' /\ StageStep

LEMMA QuietStep ==
  ASSUME PayloadsFollowRows,
         records' = records, payloads' = payloads, tombstones' = tombstones
  PROVE  StepIsSound
  BY DEF StepIsSound, StageStep, PayloadsFollowRows, Life, Exists

LEMMA TransitionStep ==
  ASSUME TypeOK, PayloadsFollowRows, NEW e, NEW r \in Records,
         NEW type \in EventTypes \ {"observed", "forgotten"},
         NEW at \in Instants, NEW other \in Records \cup {NoRecord},
         Transition(e, r, type, at, other),
         payloads' = payloads, tombstones' = tombstones
  PROVE  StepIsSound
  <1>1. /\ r \in payloads /\ Exists(r) /\ r \notin tombstones
        /\ records[r].state \in AllowedFrom[type]
        /\ Exists(r)' /\ records'[r].state = TargetState[type]
        /\ \A q \in Records \ {r} : records'[q] = records[q]
    BY TransitionMoves
  <1>2. PayloadsFollowRows'
    BY <1>1 DEF PayloadsFollowRows, Exists
  <1>3. Life[r] = records[r].state /\ Life'[r] = TargetState[type]
    BY <1>1 DEF Life
  <1>4. \A q \in Records \ {r} : Life'[q] = Life[q]
    BY <1>1 DEF Life, Exists
  <1>5. Life' = [Life EXCEPT ![r] = TargetState[type]]
    BY <1>3, <1>4 DEF Life
  <1>6. TargetState[type] \in Lifecycle!Successors[Life[r]]
    BY <1>1, <1>3 DEF Lifecycle!Successors, AllowedFrom, TargetState, EventTypes, States
  <1>7. Lifecycle!Advance(r)
    BY <1>5, <1>6 DEF Lifecycle!Advance
  <1> QED BY <1>2, <1>7 DEF StepIsSound, StageStep

LEMMA ForgetAllStep ==
  ASSUME TypeOK, PayloadsFollowRows, NEW V \in SUBSET Records, NEW id, NEW at \in Instants,
         ForgetAll(V, id, at), tombstones' = tombstones
  PROVE  StepIsSound
  <1>1. /\ \A r \in V : Exists(r) /\ Exists(r)' /\ records'[r].state = "retracted"
        /\ \A q \in Records \ V : /\ Exists(q)' <=> Exists(q)
                                  /\ Exists(q) => records'[q].state = records[q].state
        /\ payloads' = payloads \ V
    BY ForgetAllMoves
  <1>2. PayloadsFollowRows'
    BY <1>1 DEF PayloadsFollowRows
  <1>3. \A r \in V : Life'[r] = "forgotten" /\ Life[r] \notin {"absent", "erased"}
    <2>1. \A r \in V : r \notin tombstones /\ records[r] \in Row
      BY <1>1, RowOfExisting DEF PayloadsFollowRows
    <2> QED BY <1>1, <2>1 DEF Life, Row, States
  <1>4. \A q \in Records \ V : Life'[q] = Life[q]
    BY <1>1 DEF Life
  <1>5. Life' = [r \in Records |-> IF r \in V THEN "forgotten" ELSE Life[r]]
    BY <1>3, <1>4 DEF Life
  <1>6. Lifecycle!ForgetSet(V)
    BY <1>3, <1>5 DEF Lifecycle!ForgetSet
  <1> QED BY <1>2, <1>6 DEF StepIsSound, StageStep

LEMMA CreateStep ==
  ASSUME TypeOK, PayloadsFollowRows, NEW e, NEW r \in Records, NEW s, NEW origin, NEW from,
         NEW until, NEW at, CreateCandidate(e, r, s, origin, from, until, at)
  PROVE  StepIsSound
  <1>1. /\ ~Exists(r) /\ r \notin tombstones
        /\ Exists(r)' /\ records'[r].state = "candidate"
        /\ \A q \in Records \ {r} : records'[q] = records[q]
        /\ payloads' = payloads \cup {r} /\ tombstones' = tombstones
    BY CreateMoves
  <1>2. PayloadsFollowRows'
    BY <1>1 DEF PayloadsFollowRows, Exists
  <1>3. Life[r] = "absent" /\ Life'[r] = "candidate"
    BY <1>1 DEF Life
  <1>4. \A q \in Records \ {r} : Life'[q] = Life[q]
    BY <1>1 DEF Life, Exists
  <1>5. Life' = [Life EXCEPT ![r] = "candidate"]
    BY <1>3, <1>4 DEF Life
  <1>6. "candidate" \in Lifecycle!Successors[Life[r]]
    BY <1>3 DEF Lifecycle!Successors
  <1>7. Lifecycle!Advance(r)
    BY <1>5, <1>6 DEF Lifecycle!Advance
  <1> QED BY <1>2, <1>7 DEF StepIsSound, StageStep

LEMMA EraseStep ==
  ASSUME TypeOK, PayloadsFollowRows, NEW e, NEW r \in Records, NEW rev, Erase(e, r, rev)
  PROVE  StepIsSound
  <1>1. /\ Exists(r) /\ ~Exists(r)'
        /\ \A q \in Records \ {r} : /\ Exists(q)' <=> Exists(q)
                                    /\ Exists(q) => records'[q].state = records[q].state
        /\ payloads' = payloads \ {r} /\ tombstones' = tombstones \cup {r}
    BY EraseMoves
  <1>2. PayloadsFollowRows'
    BY <1>1 DEF PayloadsFollowRows
  <1>3. Life'[r] = "erased" /\ Life[r] \notin {"absent", "erased"}
    <2>1. r \notin tombstones /\ records[r] \in Row
      BY <1>1, RowOfExisting DEF PayloadsFollowRows
    <2> QED BY <1>1, <2>1 DEF Life, Row, States
  <1>4. \A q \in Records \ {r} : Life'[q] = Life[q]
    BY <1>1 DEF Life
  <1>5. Life' = [Life EXCEPT ![r] = "erased"]
    BY <1>3, <1>4 DEF Life
  <1>6. Lifecycle!Erase(r)
    BY <1>3, <1>5 DEF Lifecycle!Erase
  <1> QED BY <1>2, <1>6 DEF StepIsSound, StageStep

(* Every step the ledger takes keeps the mapping's invariant and is a step  *)
(* of the lifecycle or a stutter.                                           *)
LEMMA NextIsSound ==
  ASSUME TypeOK, PayloadsFollowRows, [Next]_vars
  PROVE  StepIsSound
  <1>1. CASE UNCHANGED vars
    BY <1>1, QuietStep DEF vars
  <1>2. ASSUME NEW e \in CommandIds, NEW r \in Records, RawCommand(e, r) PROVE StepIsSound
    <2>1. ASSUME NEW rev, NEW type \in {"confirmed", "quarantined", "expired", "retracted"},
                 NEW at \in Instants, Command(e, r, rev, type, at)
          PROVE  StepIsSound
      BY <2>1, TransitionStep DEF Command, EventTypes
    <2>2. ASSUME NEW q \in Records, NEW rev, NEW qrev, NEW at \in Instants,
                 Supersede(e, r, q, rev, qrev, at)
          PROVE  StepIsSound
      BY <2>2, TransitionStep DEF Supersede, EventTypes
    <2>3. ASSUME NEW rev, NEW at \in Instants, Forget(e, r, rev, at) PROVE StepIsSound
      BY <2>3, ForgetAllStep DEF Forget
    <2> QED BY <1>2, <2>1, <2>2, <2>3, CreateStep, EraseStep
            DEF RawCommand, Confirm, Quarantine, Expire, Retract
  <1>3. ASSUME NEW e \in CommandIds, NEW r \in Records, Admission(e, r) PROVE StepIsSound
    <2>1. PICK rev \in Revisions, origin \in ConcreteOrigins, action \in Actions,
               at \in Instants, ledgerNow \in Instants :
               ApplyAdmissionReview(e, r, rev, origin, action, at, ledgerNow)
      BY <1>3 DEF Admission
    <2>2. CASE action = "reject"
      BY <2>1, <2>2, ForgetAllStep DEF ApplyAdmissionReview
    <2>3. CASE action # "reject"
      <3>1. AdmissionEvent[action] \in EventTypes \ {"observed", "forgotten"}
        BY <2>3 DEF AdmissionEvent, Actions, EventTypes
      <3> QED BY <2>1, <2>3, <3>1, TransitionStep DEF ApplyAdmissionReview
    <2> QED BY <2>2, <2>3
  <1>4. ASSUME NEW s, NEW at \in Instants, ForgetBySource(s, at) PROVE StepIsSound
    BY <1>4, ForgetAllStep DEF ForgetBySource
  <1>5. ASSUME NEW o, NEW at \in Instants, PurgePayloads(o, at) PROVE StepIsSound
    BY <1>5, ForgetAllStep DEF PurgePayloads, TypeOK
  <1>6. CASE CheckpointCommand
    BY <1>6, QuietStep DEF CheckpointCommand, CreateCheckpoint, InvalidateCheckpoint
  <1> QED BY <1>1, <1>2, <1>3, <1>4, <1>5, <1>6 DEF Next, ScopeCommand

(* Plaintext is stored exactly of the rows that may still have it, and an   *)
(* erased record has no row.                                                *)
THEOREM PayloadsAlwaysFollowRows == Spec => []PayloadsFollowRows
  <1>1. Init => PayloadsFollowRows
    BY DEF Init, PayloadsFollowRows, Exists
  <1>2. TypeOK /\ PayloadsFollowRows /\ [Next]_vars => PayloadsFollowRows'
    BY NextIsSound DEF StepIsSound
  <1> QED BY <1>1, <1>2, Typing, PTL DEF Spec

(* The ledger implements the record lifecycle: no sequence of commands,     *)
(* retries and erasures takes a record where its lifecycle does not.        *)
THEOREM LedgerImplementsLifecycle == Spec => ImplementsLifecycle
  <1>1. Init => Lifecycle!Init
    BY DEF Init, Life, Exists, Lifecycle!Init
  <1>2. TypeOK /\ PayloadsFollowRows /\ [Next]_vars => [Lifecycle!Next]_Life
    BY NextIsSound DEF StepIsSound, StageStep, Lifecycle!Next
  <1> QED BY <1>1, <1>2, Typing, PayloadsAlwaysFollowRows, PTL
          DEF Spec, ImplementsLifecycle, Lifecycle!Spec

(***************************************************************************)
(* An erased record leaves no trace in any table, and an identifier that   *)
(* an erasure used up is never written again.                              *)
(***************************************************************************)

(* No row of the log, the relations, the links or the selections names t.   *)
NotInLog(t) ==
  \A e \in EventIds : /\ events[e] # NoEvent => events[e].record # t /\ events[e].related # t
                      /\ receipts[e] # t
                      /\ audits[e] # NoAudit => audits[e].record # t
NotLinked(t) ==
  /\ \A x \in relations : t # x[1] /\ t # x[2]
  /\ \A q \in Records : Exists(q) => records[q].supersededBy # t
NotSelected(t) == \A c \in Checkpoints : \A m \in checkpoints[c].selections : m[1] # t

NoTraceOf(t) == NotInLog(t) /\ NotLinked(t) /\ NotSelected(t)

(* Only an active checkpoint has selections, so an erasure, which looks at  *)
(* the active ones only, finds them all.                                    *)
OnlyActiveSelect ==
  \A c \in Checkpoints : checkpoints[c].state # "active" => checkpoints[c].selections = {}

TraceInv == OnlyActiveSelect /\ \A t \in tombstones : NoTraceOf(t)

-----------------------------------------------------------------------------
(* Commands that leave the erased records alone.                            *)

LEMMA EventRowNames ==
  ASSUME NEW type, NEW r, NEW n, NEW q
  PROVE  EventRow(type, r, n, q).record = r /\ EventRow(type, r, n, q).related = q
  BY DEF EventRow

LEMMA CheckpointsShrink ==
  ASSUME TypeOK, OnlyActiveSelect, NEW V, checkpoints' = CheckpointsWithout(V)
  PROVE  /\ OnlyActiveSelect'
         /\ \A t : NotSelected(t) => NotSelected(t)'
  BY DEF OnlyActiveSelect, NotSelected, CheckpointsWithout, Invalidated

LEMMA TransitionNamesNone ==
  ASSUME TypeOK, NEW e, NEW r \in Records, NEW type \in EventTypes, NEW at, NEW other,
         Transition(e, r, type, at, other),
         NEW t \in Records, r # t, other # t, NotInLog(t), NotLinked(t),
         relations' \subseteq relations \cup {<<other, r>>}, receipts' = receipts,
         \A f \in EventIds : audits'[f] # NoAudit =>
                                audits'[f] = audits[f] \/ audits'[f].record = r
  PROVE  NotInLog(t)' /\ NotLinked(t)'
  <1>1. \A f \in EventIds : events'[f] = events[f]
                             \/ events'[f] = EventRow(type, r, records[r].revision + 1, other)
    BY DEF Transition, TypeOK
  <1>2. NotInLog(t)'
    BY <1>1, EventRowNames DEF NotInLog
  <1>3. records[r] \in Row /\ Exists(r)
    BY RowOfExisting DEF Transition, TransitionAllowed
  <1>4. records'[r].supersededBy \in {records[r].supersededBy, other}
    <2>1. CASE type = "superseded"
      BY <1>3, <2>1 DEF Transition, Moved, Row, TypeOK
    <2>2. CASE type # "superseded"
      BY <1>3, <2>2 DEF Transition, Moved, Row, TypeOK
    <2> QED BY <2>1, <2>2
  <1>5. \A q \in Records \ {r} : records'[q] = records[q]
    BY DEF Transition, TypeOK
  <1>6. \A q \in Records : Exists(q)' => records'[q].supersededBy # t
    BY <1>3, <1>4, <1>5 DEF NotLinked, Exists
  <1>7. \A x \in relations' : t # x[1] /\ t # x[2]
    BY DEF NotLinked
  <1> QED BY <1>2, <1>6, <1>7 DEF NotLinked

(* Cutting links names nobody new.                                          *)
LEMMA UnlinkedNamesNone ==
  ASSUME TypeOK, NEW q \in Records, NEW V, NEW t \in Records,
         Exists(q) => records[q].supersededBy # t
  PROVE  Unlinked(records[q], V) # NoRow => Unlinked(records[q], V).supersededBy # t
  <1>1. CASE Exists(q)
    <2>1. records[q] \in Row
      BY <1>1, RowOfExisting
    <2> QED BY <1>1, <2>1, LedgerConstants DEF Unlinked, Row
  <1>2. CASE ~Exists(q)
    BY <1>2 DEF Exists, Unlinked
  <1> QED BY <1>1, <1>2

LEMMA ForgetAllNamesNone ==
  ASSUME TypeOK, NEW V \in SUBSET Records, NEW id, NEW at, ForgetAll(V, id, at),
         NEW t \in Records, t \notin V, NotInLog(t), NotLinked(t),
         \A f \in EventIds : audits'[f] # NoAudit =>
                                audits'[f] = audits[f] \/ audits'[f].record \in V
  PROVE  NotInLog(t)' /\ NotLinked(t)'
  <1>1. ASSUME NEW f \in EventIds
        PROVE  /\ events'[f] # NoEvent => events'[f].record # t /\ events'[f].related # t
               /\ receipts'[f] # t
    <2>1. CASE \E r \in V : id[r] = f
      <3> DEFINE r == CHOOSE r \in V : id[r] = f
      <3>1. r \in V
        BY <2>1
      <3>2. /\ receipts'[f] = r
            /\ events'[f] = EventRow("forgotten", r, records[r].revision + 1, NoRecord)
        BY <2>1 DEF ForgetAll
      <3> HIDE DEF r
      <3> QED BY <3>1, <3>2, EventRowNames, LedgerConstants
    <2>2. CASE ~\E r \in V : id[r] = f
      BY <2>2 DEF ForgetAll, NotInLog
    <2> QED BY <2>1, <2>2
  <1>2. NotInLog(t)'
    BY <1>1 DEF NotInLog
  <1>3. ASSUME NEW q \in Records, Exists(q)'
        PROVE  records'[q].supersededBy # t
    <2>1. CASE q \in V
      <3>1. records[q] \in Row
        BY <2>1, RowOfExisting DEF ForgetAll, TransitionAllowed
      <3>2. ForgottenRow(records[q], at).supersededBy = NoRecord
        BY <3>1 DEF ForgottenRow, Moved, Row
      <3> QED BY <2>1, <3>2, LedgerConstants DEF ForgetAll
    <2>2. CASE q \notin V
      <3>1. records'[q] = Unlinked(records[q], V)
        BY <2>2 DEF ForgetAll
      <3> QED BY <1>3, <3>1, UnlinkedNamesNone DEF NotLinked, Exists
    <2> QED BY <2>1, <2>2
  <1>4. \A x \in relations' : t # x[1] /\ t # x[2]
    BY DEF ForgetAll, RelationsWithout, NotLinked
  <1> QED BY <1>2, <1>3, <1>4 DEF NotLinked

-----------------------------------------------------------------------------
(* Erasure: what it erases is gone, and what was gone stays so.             *)

LEMMA EraseCleans ==
  ASSUME TypeOK, TraceInv, NEW e \in EventIds, NEW r \in Records, NEW rev, Erase(e, r, rev),
         NEW t \in Records, t = r \/ NoTraceOf(t)
  PROVE  NoTraceOf(t)'
  <1>1. ASSUME NEW f \in EventIds
        PROVE  /\ events'[f] # NoEvent => events'[f].record # t /\ events'[f].related # t
               /\ receipts'[f] # t
               /\ audits'[f] # NoAudit => audits'[f].record # t
    <2>1. receipts'[f] # t
      BY LedgerConstants DEF Erase, NoTraceOf, NotInLog
    <2>2. audits'[f] # NoAudit => audits'[f].record # t
      BY DEF Erase, AuditsWithout, NoTraceOf, NotInLog
    <2>3. ASSUME events[f] # NoEvent
          PROVE  /\ events[f] \in Event
                 /\ [events[f] EXCEPT !.related = NoRecord].related = NoRecord
                 /\ [events[f] EXCEPT !.related = NoRecord].record = events[f].record
      BY <2>3 DEF TypeOK, Event
    <2>4. events'[f] # NoEvent => events'[f].record # t /\ events'[f].related # t
      BY <2>3, LedgerConstants DEF Erase, EventsWithout, NoTraceOf, NotInLog
    <2> QED BY <2>1, <2>2, <2>4
  <1>2. NotInLog(t)'
    BY <1>1 DEF NotInLog
  <1>3. ASSUME NEW q \in Records, Exists(q)'
        PROVE  records'[q].supersededBy # t
    <2>1. q # r /\ records'[q] = Unlinked(records[q], {r})
      BY <1>3 DEF Erase, Exists
    <2>2. CASE t = r
      <3>1. CASE Exists(q)
        <4>1. records[q] \in Row
          BY <3>1, RowOfExisting
        <4> QED BY <2>1, <2>2, <3>1, <4>1, LedgerConstants DEF Exists, Unlinked, Row
      <3>2. CASE ~Exists(q)
        BY <1>3, <2>1, <3>2 DEF Exists, Unlinked
      <3> QED BY <3>1, <3>2
    <2>3. CASE NoTraceOf(t)
      BY <1>3, <2>1, <2>3, UnlinkedNamesNone DEF NoTraceOf, NotLinked, Exists
    <2> QED BY <2>2, <2>3
  <1>4. \A x \in relations' : t # x[1] /\ t # x[2]
    BY DEF Erase, RelationsWithout, NoTraceOf, NotLinked
  <1>5. NotLinked(t)'
    BY <1>3, <1>4 DEF NotLinked
  <1>6. NotSelected(t)'
    BY DEF Erase, TraceInv, OnlyActiveSelect, NoTraceOf, NotSelected,
           CheckpointsWithout, Invalidated
  <1> QED BY <1>2, <1>5, <1>6 DEF NoTraceOf

-----------------------------------------------------------------------------
(* Every step.                                                              *)

LEMMA CreateNamesNone ==
  ASSUME TypeOK, NEW e, NEW r \in Records, NEW s, NEW origin, NEW from, NEW until, NEW at,
         CreateCandidate(e, r, s, origin, from, until, at),
         NEW t \in Records, r # t, NotInLog(t), NotLinked(t)
  PROVE  NotInLog(t)' /\ NotLinked(t)'
  <1>1. \A f \in EventIds : events'[f] = events[f]
                             \/ events'[f] = EventRow("observed", r, 1, NoRecord)
    BY DEF CreateCandidate, TypeOK
  <1>2. NotInLog(t)'
    BY <1>1, EventRowNames, LedgerConstants DEF CreateCandidate, NotInLog
  <1>3. records'[r].supersededBy = NoRecord
    BY DEF CreateCandidate, TypeOK
  <1>4. \A q \in Records \ {r} : records'[q] = records[q]
    BY DEF CreateCandidate, TypeOK
  <1>5. NotLinked(t)'
    BY <1>3, <1>4, LedgerConstants DEF CreateCandidate, NotLinked, Exists
  <1> QED BY <1>2, <1>5

(* A command other than erase touches only records that exist or that it    *)
(* may create, so what it writes names no erased one.                       *)
LEMMA CommandsNameNone ==
  ASSUME TypeOK, PayloadsFollowRows, TraceInv
  PROVE  /\ \A e \in CommandIds, r \in Records :
              RawCommand(e, r) \/ Admission(e, r) =>
                TraceInv' \/ \E rev \in Revisions : Erase(e, r, rev)
         /\ ScopeCommand \/ CheckpointCommand => TraceInv'
  <1>1. \A t \in tombstones : t \in Records /\ ~Exists(t) /\ NoTraceOf(t)
    BY DEF TypeOK, PayloadsFollowRows, TraceInv
  <1>2. ASSUME NEW V, checkpoints' = CheckpointsWithout(V), tombstones' = tombstones,
               \A t \in tombstones : NotInLog(t)' /\ NotLinked(t)'
        PROVE  TraceInv'
    BY <1>2, CheckpointsShrink DEF TraceInv, NoTraceOf
  <1>3. ASSUME NEW e, NEW r \in Records, NEW type \in EventTypes, NEW at,
               NEW other \in {NoRecord} \cup {q \in Records : Exists(q)},
               Transition(e, r, type, at, other), tombstones' = tombstones,
               relations' \subseteq relations \cup {<<other, r>>}, receipts' = receipts,
               \A f \in EventIds : audits'[f] # NoAudit =>
                                      audits'[f] = audits[f] \/ audits'[f].record = r
        PROVE  TraceInv'
    <2>1. Exists(r) /\ checkpoints' = CheckpointsWithout({r})
      BY <1>3 DEF Transition, TransitionAllowed
    <2>2. \A t \in tombstones : t \in Records /\ r # t /\ other # t /\ NotInLog(t) /\ NotLinked(t)
      BY <1>1, <2>1, LedgerConstants DEF NoTraceOf
    <2>3. \A t \in tombstones : NotInLog(t)' /\ NotLinked(t)'
      BY <1>3, <2>2, TransitionNamesNone
    <2> QED BY <1>2, <1>3, <2>1, <2>3
  <1>4. ASSUME NEW V \in SUBSET Records, NEW id, NEW at, ForgetAll(V, id, at),
               tombstones' = tombstones,
               \A f \in EventIds : audits'[f] # NoAudit =>
                                      audits'[f] = audits[f] \/ audits'[f].record \in V
        PROVE  TraceInv'
    <2>1. \A t \in tombstones : t \in Records /\ t \notin V /\ NotInLog(t) /\ NotLinked(t)
      BY <1>1, <1>4 DEF ForgetAll, TransitionAllowed, NoTraceOf
    <2>2. \A t \in tombstones : NotInLog(t)' /\ NotLinked(t)'
      BY <1>4, <2>1, ForgetAllNamesNone
    <2>3. checkpoints' = CheckpointsWithout(V)
      BY <1>4 DEF ForgetAll
    <2> QED BY <1>2, <1>4, <2>2, <2>3
  <1>5. ASSUME NEW e \in CommandIds, NEW r \in Records, RawCommand(e, r)
        PROVE  TraceInv' \/ \E rev \in Revisions : Erase(e, r, rev)
    <2>1. ASSUME NEW s, NEW origin, NEW from, NEW until, NEW at,
                 CreateCandidate(e, r, s, origin, from, until, at)
          PROVE  TraceInv'
      <3>1. \A t \in tombstones : t \in Records /\ r # t /\ NotInLog(t) /\ NotLinked(t)
        BY <1>1, <2>1 DEF CreateCandidate, NoTraceOf
      <3>2. \A t \in tombstones : NotInLog(t)' /\ NotLinked(t)'
        BY <2>1, <3>1, CreateNamesNone
      <3>3. checkpoints' = CheckpointsWithout({}) /\ tombstones' = tombstones
        BY <2>1 DEF CreateCandidate, CheckpointsWithout, TypeOK
      <3> QED BY <1>2, <3>2, <3>3
    <2>2. ASSUME NEW rev, NEW type \in EventTypes, NEW at, Command(e, r, rev, type, at)
          PROVE  TraceInv'
      BY <1>3, <2>2 DEF Command
    <2>3. ASSUME NEW q \in Records, NEW rev, NEW qrev, NEW at,
                 Supersede(e, r, q, rev, qrev, at)
          PROVE  TraceInv'
      BY <1>3, <2>3 DEF Supersede, CheckRevision, EventTypes
    <2>4. ASSUME NEW rev, NEW at, Forget(e, r, rev, at) PROVE TraceInv'
      BY <1>4, <2>4 DEF Forget
    <2> QED BY <1>5, <2>1, <2>2, <2>3, <2>4
            DEF RawCommand, Confirm, Quarantine, Expire, Retract, EventTypes
  <1>6. ASSUME NEW e \in CommandIds, NEW r \in Records, Admission(e, r)
        PROVE  TraceInv'
    <2>1. PICK rev \in Revisions, origin \in ConcreteOrigins, action \in Actions,
               at \in Instants, ledgerNow \in Instants :
               ApplyAdmissionReview(e, r, rev, origin, action, at, ledgerNow)
      BY <1>6 DEF Admission
    <2>2. \A f \in EventIds : audits'[f] = audits[f] \/ audits'[f].record = r
      BY <2>1 DEF ApplyAdmissionReview, TypeOK
    <2>3. CASE action = "reject"
      BY <1>4, <2>1, <2>2, <2>3 DEF ApplyAdmissionReview
    <2>4. CASE action # "reject"
      <3>1. AdmissionEvent[action] \in EventTypes
        BY DEF AdmissionEvent, Actions, EventTypes
      <3> QED BY <1>3, <2>1, <2>2, <2>4, <3>1 DEF ApplyAdmissionReview
    <2> QED BY <2>3, <2>4
  <1>7. ASSUME ScopeCommand PROVE TraceInv'
    <2>1. ASSUME NEW s, NEW at, ForgetBySource(s, at) PROVE TraceInv'
      BY <1>4, <2>1 DEF ForgetBySource
    <2>2. ASSUME NEW o, NEW at, PurgePayloads(o, at) PROVE TraceInv'
      BY <1>4, <2>2 DEF PurgePayloads, TypeOK
    <2> QED BY <1>7, <2>1, <2>2 DEF ScopeCommand
  <1>8. ASSUME CheckpointCommand PROVE TraceInv'
    <2>1. \A t \in tombstones : NotInLog(t)' /\ NotLinked(t)'
      BY <1>1, <1>8 DEF CheckpointCommand, CreateCheckpoint, InvalidateCheckpoint,
                        NoTraceOf, NotInLog, NotLinked, Exists
    <2>2. tombstones' = tombstones
      BY <1>8 DEF CheckpointCommand, CreateCheckpoint, InvalidateCheckpoint
    <2>3. ASSUME NEW c \in Checkpoints, NEW at, NEW S \in SUBSET Markers(at),
                 CreateCheckpoint(c, S, at)
          PROVE  OnlyActiveSelect' /\ \A t \in tombstones : NotSelected(t)'
      <3>1. \A m \in S : m[1] \in payloads
        BY DEF Markers, Marker, ListActive, Recallable
      <3>2. \A m \in S : m[1] \notin tombstones
        BY <3>1 DEF PayloadsFollowRows, TypeOK
      <3>3. checkpoints' = [checkpoints EXCEPT ![c] = [state |-> "active", selections |-> S]]
        BY <2>3 DEF CreateCheckpoint
      <3> QED BY <1>1, <3>2, <3>3 DEF TraceInv, OnlyActiveSelect, NoTraceOf, NotSelected, TypeOK
    <2>4. ASSUME NEW c \in Checkpoints, InvalidateCheckpoint(c)
          PROVE  OnlyActiveSelect' /\ \A t \in tombstones : NotSelected(t)'
      BY <1>1, <2>4 DEF InvalidateCheckpoint, Invalidated, TraceInv, OnlyActiveSelect,
                        NoTraceOf, NotSelected, TypeOK
    <2> QED BY <1>8, <2>1, <2>2, <2>3, <2>4 DEF CheckpointCommand, TraceInv, NoTraceOf
  <1> QED BY <1>5, <1>6, <1>7, <1>8

LEMMA TraceInductive ==
  TypeOK /\ PayloadsFollowRows /\ TraceInv /\ [Next]_vars => TraceInv'
  <1> SUFFICES ASSUME TypeOK, PayloadsFollowRows, TraceInv, [Next]_vars PROVE TraceInv'
    OBVIOUS
  <1>1. ASSUME NEW e \in CommandIds, NEW r \in Records, NEW rev, Erase(e, r, rev)
        PROVE  TraceInv'
    <2>1. tombstones' = tombstones \cup {r} /\ \A t \in tombstones' : t \in Records
      BY <1>1 DEF Erase, TypeOK
    <2>2. \A t \in tombstones' : NoTraceOf(t)'
      BY <1>1, <2>1, EraseCleans DEF EventIds, TraceInv
    <2>3. OnlyActiveSelect'
      BY <1>1, CheckpointsShrink DEF Erase, TraceInv
    <2> QED BY <2>2, <2>3 DEF TraceInv
  <1>2. CASE UNCHANGED vars
    BY <1>2 DEF vars, TraceInv, OnlyActiveSelect, NoTraceOf, NotInLog, NotLinked, NotSelected,
                    Exists
  <1> QED BY <1>1, <1>2, CommandsNameNone DEF Next

-----------------------------------------------------------------------------
(* Identifiers an erasure has used up.                                      *)

(* The log and the receipts hold nothing under a tombstoned identifier or   *)
(* under that of an erasure.                                                *)
Gone ==
  \A e \in EventIds :
    e \in eventTombstones \/ hardReceipts[e] # NoRecord =>
      events[e] = NoEvent /\ receipts[e] = NoRecord

(* Every receipt lies beside the event it belongs to.                       *)
ReceiptsBesideEvents ==
  \A e \in EventIds : receipts[e] # NoRecord =>
    events[e] # NoEvent /\ events[e].record = receipts[e]

(* A derived identifier is spent only by the operation it is derived from:  *)
(* the reason why ForgetAll need not check its identifiers.                 *)
DerivedSpentOnce ==
  /\ \A s \in Sources, r \in Records : ~Unspent(<<s, r>>) => s \in revoked
  /\ \A o \in Operations, r \in Records : ~Unspent(<<o, r>>) => purges[o].done

SpentInv == Gone /\ ReceiptsBesideEvents /\ DerivedSpentOnce

(* A step that writes the log only under the unspent identifiers W.         *)
LEMMA FreshWritesKeepSpent ==
  ASSUME TypeOK, SpentInv, NEW W \in SUBSET EventIds, \A e \in W : Unspent(e),
         eventTombstones' = eventTombstones, hardReceipts' = hardReceipts,
         \A e \in EventIds \ W : events'[e] = events[e] /\ receipts'[e] = receipts[e],
         \A e \in W : receipts'[e] # NoRecord =>
                         events'[e] # NoEvent /\ events'[e].record = receipts'[e],
         revoked \subseteq revoked',
         \A o \in Operations : purges[o].done => purges'[o].done,
         \A s \in Sources, r \in Records : <<s, r>> \in W => s \in revoked',
         \A o \in Operations, r \in Records : <<o, r>> \in W => purges'[o].done
  PROVE  SpentInv'
  <1>1. Gone'
    BY DEF SpentInv, Gone, Unspent
  <1>2. ReceiptsBesideEvents'
    BY DEF SpentInv, ReceiptsBesideEvents
  <1>3. \A e \in EventIds \ W : Unspent(e)' <=> Unspent(e)
    BY DEF Unspent
  <1>4. DerivedSpentOnce'
    <2>1. \A s \in Sources, r \in Records : <<s, r>> \in EventIds
      BY DEF EventIds, RevocationIds
    <2>2. \A o \in Operations, r \in Records : <<o, r>> \in EventIds
      BY DEF EventIds, PurgeIds
    <2> QED BY <1>3, <2>1, <2>2 DEF SpentInv, DerivedSpentOnce
  <1> QED BY <1>1, <1>2, <1>4 DEF SpentInv

(* The host's identifiers are not derived ones.                             *)
LEMMA HostIdentifiers ==
  ASSUME NEW e \in CommandIds
  PROVE  /\ e \in EventIds
         /\ \A s \in Sources, r \in Records : <<s, r>> # e
         /\ \A o \in Operations, r \in Records : <<o, r>> # e
  BY DistinctEventIds DEF EventIds, RevocationIds, PurgeIds

LEMMA HostWriteKeepsSpent ==
  ASSUME TypeOK, SpentInv, NEW e \in CommandIds, Unspent(e),
         \A f \in EventIds \ {e} : events'[f] = events[f],
         UNCHANGED <<receipts, hardReceipts, eventTombstones, revoked, purges>>
  PROVE  SpentInv'
  <1> DEFINE W == {e}
  <1>1. W \in SUBSET EventIds /\ \A f \in W : Unspent(f)
    BY HostIdentifiers
  <1>2. \A f \in EventIds \ W : events'[f] = events[f] /\ receipts'[f] = receipts[f]
    OBVIOUS
  <1>3. \A f \in W : receipts'[f] = NoRecord
    BY DEF Unspent
  <1>4. /\ \A s \in Sources, r \in Records : <<s, r>> \notin W
        /\ \A o \in Operations, r \in Records : <<o, r>> \notin W
    BY HostIdentifiers
  <1> HIDE DEF W
  <1> QED BY <1>1, <1>2, <1>3, <1>4, FreshWritesKeepSpent

LEMMA TransitionKeepsSpent ==
  ASSUME TypeOK, SpentInv, NEW e \in CommandIds, Unspent(e), NEW r, NEW type, NEW at, NEW other,
         Transition(e, r, type, at, other),
         UNCHANGED <<receipts, hardReceipts, eventTombstones, revoked, purges>>
  PROVE  SpentInv'
  <1>1. \A f \in EventIds \ {e} : events'[f] = events[f]
    BY DEF Transition, TypeOK
  <1> QED BY <1>1, HostWriteKeepsSpent

LEMMA CreateKeepsSpent ==
  ASSUME TypeOK, SpentInv, NEW e \in CommandIds, NEW r, NEW s, NEW origin, NEW from,
         NEW until, NEW at, CreateCandidate(e, r, s, origin, from, until, at)
  PROVE  SpentInv'
  <1>1. \A f \in EventIds \ {e} : events'[f] = events[f]
    BY DEF CreateCandidate, TypeOK
  <1> QED BY <1>1, HostWriteKeepsSpent DEF CreateCandidate

LEMMA ForgetAllKeepsSpent ==
  ASSUME TypeOK, SpentInv, NEW V \in SUBSET Records, NEW id, NEW at, ForgetAll(V, id, at),
         \A r \in V : id[r] \in EventIds /\ Unspent(id[r]),
         UNCHANGED <<hardReceipts, eventTombstones>>,
         revoked \subseteq revoked',
         \A o \in Operations : purges[o].done => purges'[o].done,
         \A r \in V, s \in Sources, q \in Records : id[r] = <<s, q>> => s \in revoked',
         \A r \in V, o \in Operations, q \in Records : id[r] = <<o, q>> => purges'[o].done
  PROVE  SpentInv'
  <1> DEFINE W == {id[r] : r \in V}
  <1>1. W \in SUBSET EventIds /\ \A e \in W : Unspent(e)
    OBVIOUS
  <1>2. \A e \in EventIds \ W : events'[e] = events[e] /\ receipts'[e] = receipts[e]
    BY DEF ForgetAll
  <1>3. ASSUME NEW e \in W
        PROVE  events'[e] # NoEvent /\ events'[e].record = receipts'[e]
    <2> DEFINE r == CHOOSE r \in V : id[r] = e
    <2>1. e \in EventIds /\ \E q \in V : id[q] = e
      BY <1>1
    <2>2. /\ receipts'[e] = r
          /\ events'[e] = EventRow("forgotten", r, records[r].revision + 1, NoRecord)
      BY <2>1 DEF ForgetAll
    <2> HIDE DEF r
    <2> QED BY <2>2, EventRowNames, EventRowIsSomething DEF EventTypes
  <1>4. /\ \A s \in Sources, r \in Records : <<s, r>> \in W => s \in revoked'
        /\ \A o \in Operations, r \in Records : <<o, r>> \in W => purges'[o].done
    OBVIOUS
  <1> HIDE DEF W
  <1> QED BY <1>1, <1>2, <1>3, <1>4, FreshWritesKeepSpent

(* Erase deletes events and receipts together and tombstones both.          *)
LEMMA EraseKeepsSpent ==
  ASSUME TypeOK, SpentInv, NEW e \in CommandIds, NEW r \in Records, NEW rev, Erase(e, r, rev)
  PROVE  SpentInv'
  <1>1. ASSUME NEW f \in EventIds
        PROVE  /\ events[f] = NoEvent => events'[f] = NoEvent
               /\ receipts[f] = NoRecord => receipts'[f] = NoRecord
               /\ receipts'[f] # NoRecord => receipts'[f] = receipts[f] /\ receipts[f] # r
               /\ f # e => hardReceipts'[f] = hardReceipts[f]
    BY DEF Erase, EventsWithout, TypeOK
  <1>2. ASSUME NEW f \in EventIds, events[f] # NoEvent, events[f].record # r
        PROVE  events'[f] # NoEvent /\ events'[f].record = events[f].record
    <2>1. events[f] \in Event
      BY <1>2 DEF TypeOK
    <2>2. /\ [events[f] EXCEPT !.related = NoRecord] # NoEvent
          /\ [events[f] EXCEPT !.related = NoRecord].record = events[f].record
      BY <2>1 DEF Event, NoEvent
    <2> QED BY <1>2, <2>2 DEF Erase, EventsWithout
  <1>3. ASSUME NEW f \in EventIds, f \in SpentOn(r)
        PROVE  events'[f] = NoEvent /\ receipts'[f] = NoRecord
    <2>1. CASE events[f] # NoEvent /\ events[f].record = r
      <3>1. events'[f] = NoEvent
        BY <2>1 DEF Erase, EventsWithout
      <3>2. receipts[f] \in {NoRecord, r}
        BY <2>1 DEF SpentInv, ReceiptsBesideEvents
      <3> QED BY <3>1, <3>2 DEF Erase
    <2>2. CASE receipts[f] = r
      <3>1. events[f] # NoEvent /\ events[f].record = r
        BY <2>2, LedgerConstants DEF SpentInv, ReceiptsBesideEvents
      <3> QED BY <2>1, <3>1
    <2> QED BY <1>3, <2>1, <2>2 DEF SpentOn, EventsOf
  <1>4. Gone'
    <2>1. events[e] = NoEvent /\ receipts[e] = NoRecord
      BY DEF Erase, Unspent
    <2>2. eventTombstones' = eventTombstones \cup SpentOn(r)
      BY DEF Erase
    <2> QED BY <1>1, <1>3, <2>1, <2>2 DEF SpentInv, Gone
  <1>5. ReceiptsBesideEvents'
    BY <1>1, <1>2 DEF SpentInv, ReceiptsBesideEvents
  <1>6. ASSUME NEW f \in EventIds, f # e, Unspent(f)
        PROVE  Unspent(f)'
    <2>1. f \notin SpentOn(r)
      BY <1>6, LedgerConstants DEF Unspent, SpentOn, EventsOf
    <2> QED BY <1>1, <1>6, <2>1 DEF Unspent, Erase
  <1>7. DerivedSpentOnce'
    <2>1. \A s \in Sources, q \in Records : <<s, q>> \in EventIds /\ <<s, q>> # e
      BY HostIdentifiers DEF EventIds, RevocationIds
    <2>2. \A o \in Operations, q \in Records : <<o, q>> \in EventIds /\ <<o, q>> # e
      BY HostIdentifiers DEF EventIds, PurgeIds
    <2> QED BY <1>6, <2>1, <2>2 DEF SpentInv, DerivedSpentOnce, Erase
  <1> QED BY <1>4, <1>5, <1>7 DEF SpentInv

(* A revocation writes under identifiers of its source, which no record can *)
(* have been derived from after an earlier revocation of it.                *)
LEMMA RevocationKeepsSpent ==
  ASSUME TypeOK, RevokedSourcesAreEmpty, SpentInv,
         NEW s \in Sources, NEW at, ForgetBySource(s, at)
  PROVE  SpentInv'
  <1> DEFINE V == {r \in Records : <<s, r>> \in sources}
             id == [r \in V |-> <<s, r>>]
  <1>1. ForgetAll(V, id, at) /\ revoked' = revoked \cup {s}
        /\ UNCHANGED <<hardReceipts, eventTombstones, purges>>
    BY DEF ForgetBySource
  <1>2. \A r \in V : id[r] \in EventIds /\ Unspent(id[r])
    BY DEF EventIds, RevocationIds, RevokedSourcesAreEmpty, SpentInv, DerivedSpentOnce
  <1>3. /\ \A r \in V, x \in Sources, q \in Records : id[r] = <<x, q>> => x \in revoked'
        /\ \A r \in V, o \in Operations, q \in Records : id[r] = <<o, q>> => purges'[o].done
    BY <1>1, DistinctEventIds
  <1>4. V \in SUBSET Records
    OBVIOUS
  <1> HIDE DEF V, id
  <1> QED BY <1>1, <1>2, <1>3, <1>4, ForgetAllKeepsSpent

LEMMA PurgeKeepsSpent ==
  ASSUME TypeOK, SpentInv, NEW o \in Operations, NEW at, PurgePayloads(o, at)
  PROVE  SpentInv'
  <1> DEFINE id == [r \in payloads |-> <<o, r>>]
  <1>1. ForgetAll(payloads, id, at) /\ UNCHANGED <<hardReceipts, eventTombstones, revoked>>
    BY DEF PurgePayloads
  <1>2. payloads \in SUBSET Records /\ ~purges[o].done
    BY DEF PurgePayloads, PurgePending, TypeOK
  <1>3. \A r \in payloads : id[r] \in EventIds /\ Unspent(id[r])
    BY <1>2 DEF EventIds, PurgeIds, SpentInv, DerivedSpentOnce
  <1>4. purges'[o].done /\ \A p \in Operations : purges[p].done => purges'[p].done
    BY DEF PurgePayloads, TypeOK
  <1>5. /\ \A r \in payloads, x \in Sources, q \in Records : id[r] = <<x, q>> => x \in revoked'
        /\ \A r \in payloads, p \in Operations, q \in Records : id[r] = <<p, q>> => purges'[p].done
    BY <1>4, DistinctEventIds
  <1> HIDE DEF id
  <1> QED BY <1>1, <1>2, <1>3, <1>4, <1>5, ForgetAllKeepsSpent

LEMMA SpentInductive ==
  TypeOK /\ RevokedSourcesAreEmpty /\ SpentInv /\ [Next]_vars => SpentInv'
  <1> SUFFICES ASSUME TypeOK, RevokedSourcesAreEmpty, SpentInv, [Next]_vars PROVE SpentInv'
    OBVIOUS
  <1>1. ASSUME UNCHANGED <<events, receipts, hardReceipts, eventTombstones, revoked, purges>>
        PROVE  SpentInv'
    BY <1>1 DEF SpentInv, Gone, ReceiptsBesideEvents, DerivedSpentOnce, Unspent
  <1>2. ASSUME NEW e \in CommandIds, NEW r \in Records, NEW at, Unspent(e),
               ForgetAll({r}, [q \in {r} |-> e], at),
               UNCHANGED <<hardReceipts, eventTombstones, revoked, purges>>
        PROVE  SpentInv'
    <2> DEFINE id == [q \in {r} |-> e]
    <2>1. id[r] = e /\ {r} \in SUBSET Records
      OBVIOUS
    <2>2. ForgetAll({r}, id, at)
      BY <1>2
    <2> HIDE DEF id
    <2> QED BY <1>2, <2>1, <2>2, HostIdentifiers, ForgetAllKeepsSpent
  <1>3. ASSUME NEW e \in CommandIds, NEW r \in Records, RawCommand(e, r)
        PROVE  SpentInv'
    <2>1. ASSUME NEW rev, NEW type, NEW at, Command(e, r, rev, type, at) PROVE SpentInv'
      BY <2>1, TransitionKeepsSpent DEF Command
    <2>2. ASSUME NEW q, NEW rev, NEW qrev, NEW at, Supersede(e, r, q, rev, qrev, at)
          PROVE  SpentInv'
      BY <2>2, TransitionKeepsSpent DEF Supersede
    <2>3. ASSUME NEW rev, NEW at, Forget(e, r, rev, at) PROVE SpentInv'
      BY <1>2, <2>3 DEF Forget
    <2> QED BY <1>3, <2>1, <2>2, <2>3, CreateKeepsSpent, EraseKeepsSpent
            DEF RawCommand, Confirm, Quarantine, Expire, Retract
  <1>4. ASSUME NEW e \in CommandIds, NEW r \in Records, Admission(e, r)
        PROVE  SpentInv'
    BY <1>2, <1>4, TransitionKeepsSpent DEF Admission, ApplyAdmissionReview
  <1>5. CASE CheckpointCommand
    BY <1>1, <1>5 DEF CheckpointCommand, CreateCheckpoint, InvalidateCheckpoint
  <1>6. CASE UNCHANGED vars
    BY <1>1, <1>6 DEF vars
  <1> QED BY <1>3, <1>4, <1>5, <1>6, RevocationKeepsSpent, PurgeKeepsSpent DEF Next, ScopeCommand

-----------------------------------------------------------------------------
(* After a hard erasure nothing in any table refers to the record, and its  *)
(* identifiers stay empty: whatever was proposed, confirmed, superseded,    *)
(* selected or forgotten before, and whatever the host retries after.       *)
THEOREM ErasureLeavesNoTrace == Spec => []ErasedLeavesNoTrace
  <1>1. Init => TraceInv /\ SpentInv
    <2> SUFFICES ASSUME Init PROVE TraceInv /\ SpentInv
      OBVIOUS
    <2>1. TraceInv
      BY DEF Init, TraceInv, OnlyActiveSelect, UnusedCheckpoint
    <2>2. SpentInv
      BY DEF Init, SpentInv, Gone, ReceiptsBesideEvents, DerivedSpentOnce, Unspent,
             EventIds, RevocationIds, PurgeIds
    <2> QED BY <2>1, <2>2
  <1>2. TypeOK /\ PayloadsFollowRows /\ TraceInv /\ SpentInv => ErasedLeavesNoTrace
    <2> SUFFICES ASSUME TypeOK, PayloadsFollowRows, TraceInv, SpentInv
                 PROVE  ErasedLeavesNoTrace
      OBVIOUS
    <2>1. \A r \in tombstones : r \in Records /\ ~Exists(r) /\ r \notin payloads
      BY DEF PayloadsFollowRows, TypeOK
    <2> QED BY <2>1 DEF ErasedLeavesNoTrace, TraceInv, NoTraceOf, NotInLog, NotLinked,
                        NotSelected, SpentInv, Gone
  <1> QED BY <1>1, <1>2, TraceInductive, SpentInductive, Typing, RevocationHolds,
             PayloadsAlwaysFollowRows, PTL DEF Spec

-----------------------------------------------------------------------------
(***************************************************************************)
(* A record is what its append-only log says, trust and verdicts leave     *)
(* their audit, what a forget takes away is gone from every table, and a   *)
(* retry changes nothing.  Every command but erase is shown to append one  *)
(* event to each record it moves; the invariants are then proved for such  *)
(* steps and for erase.                                                    *)
(***************************************************************************)

(* The log names stored records only, numbers the events of each by its     *)
(* revisions, and numbers no two alike.                                     *)
LogNamesStored == \A e \in EventIds : events[e] # NoEvent => Exists(events[e].record)
Numbered ==
  \A r \in Records : Exists(r) =>
    /\ \A e \in EventsOf(r) : events[e].revision \in 1 .. records[r].revision
    /\ \A n \in 1 .. records[r].revision : \E e \in EventsOf(r) : events[e].revision = n
NumberedOnce ==
  \A r \in Records : \A d, e \in EventsOf(r) : events[d].revision = events[e].revision => d = e

HistoryInv == LogNamesStored /\ Numbered /\ NumberedOnce /\ StateFollowsHistory

-----------------------------------------------------------------------------
(* Steps that append to the log.                                            *)

(* What kind of event moves r, and what becomes of its row.                 *)
Observed(r) ==
  /\ ~Exists(r)
  /\ records'[r].revision = 1 /\ records'[r].state = "candidate"
  /\ records'[r].trust = "untrusted" /\ records'[r].supersededBy = NoRecord

Advanced(r, kind, other) ==
  /\ Exists(r) /\ kind \in EventTypes \ {"observed"}
  /\ records'[r].revision = records[r].revision + 1
  /\ records'[r].state = TargetState[kind]
  /\ records'[r].trust = IF kind = "confirmed" THEN "host_confirmed" ELSE records[r].trust
  /\ records'[r].origin = records[r].origin
  /\ records'[r].supersededBy \in
       IF kind = "superseded" THEN {other} ELSE {records[r].supersededBy, NoRecord}

(* The rows M move, each with one event under the fresh identifier id[r].   *)
Appends(M, id, kind, other) ==
  /\ \A r \in M : id[r] \in EventIds /\ Unspent(id[r])
  /\ \A q, r \in M : id[q] = id[r] => q = r
  /\ \A r \in M : /\ Exists(r)'
                  /\ events'[id[r]] = EventRow(kind, r, records'[r].revision, other)
                  /\ \/ kind = "observed" /\ Observed(r)
                     \/ Advanced(r, kind, other)
  /\ \A e \in EventIds : (\A r \in M : id[r] # e) => events'[e] = events[e]
  /\ \A r \in Records \ M :
       /\ Exists(r)' <=> Exists(r)
       /\ Exists(r) => /\ records'[r].revision = records[r].revision
                       /\ records'[r].state = records[r].state
                       /\ records'[r].trust = records[r].trust
                       /\ records'[r].origin = records[r].origin
                       /\ records'[r].supersededBy \in {records[r].supersededBy, NoRecord}

LEMMA TransitionAppends ==
  ASSUME TypeOK, NEW e \in CommandIds, Unspent(e), NEW r \in Records, NEW at,
         NEW type \in EventTypes \ {"observed", "forgotten"}, NEW other,
         Transition(e, r, type, at, other)
  PROVE  Appends({r}, [q \in {r} |-> e], type, other)
  <1>1. Exists(r) /\ records[r] \in Row
    BY RowOfExisting DEF Transition, TransitionAllowed
  <1> DEFINE moved == Moved(records[r], type, at)
  <1>2. /\ moved.revision = records[r].revision + 1 /\ moved.state = TargetState[type]
        /\ moved.trust = IF type = "confirmed" THEN "host_confirmed" ELSE records[r].trust
        /\ moved.origin = records[r].origin /\ moved.supersededBy = records[r].supersededBy
        /\ [moved EXCEPT !.supersededBy = other].revision = moved.revision
        /\ [moved EXCEPT !.supersededBy = other].state = moved.state
        /\ [moved EXCEPT !.supersededBy = other].trust = moved.trust
        /\ [moved EXCEPT !.supersededBy = other].origin = moved.origin
        /\ [moved EXCEPT !.supersededBy = other].supersededBy = other
    BY <1>1 DEF Moved, Row
  <1>3. records'[r] = IF type = "superseded" THEN [moved EXCEPT !.supersededBy = other] ELSE moved
    BY DEF Transition, TypeOK
  <1> HIDE DEF moved
  <1>4. Advanced(r, type, other)
    BY <1>1, <1>2, <1>3 DEF Advanced
  <1>5. Exists(r)'
    BY <1>4 DEF Advanced, Exists, NoRow, TargetState, EventTypes
  <1>6. events' = [events EXCEPT ![e] = EventRow(type, r, records'[r].revision, other)]
    BY <1>4 DEF Transition, Advanced
  <1>7. \A q \in Records \ {r} : records'[q] = records[q]
    BY DEF Transition, TypeOK
  <1> QED BY <1>4, <1>5, <1>6, <1>7 DEF Appends, EventIds, Exists, TypeOK

LEMMA ForgetAllAppends ==
  ASSUME TypeOK, NEW V \in SUBSET Records, NEW id, NEW at \in Instants, ForgetAll(V, id, at),
         \A r \in V : id[r] \in EventIds /\ Unspent(id[r]),
         \A q, r \in V : id[q] = id[r] => q = r
  PROVE  Appends(V, id, "forgotten", NoRecord)
  <1>1. ASSUME NEW r \in V
        PROVE  /\ Exists(r)' /\ Advanced(r, "forgotten", NoRecord)
               /\ events'[id[r]] = EventRow("forgotten", r, records'[r].revision, NoRecord)
    <2>1. Exists(r) /\ records[r] \in Row
      BY RowOfExisting DEF ForgetAll, TransitionAllowed
    <2>2. records'[r] = ForgottenRow(records[r], at)
      BY DEF ForgetAll
    <2>3. Advanced(r, "forgotten", NoRecord)
      BY <2>1, <2>2 DEF Advanced, ForgottenRow, Moved, Row, EventTypes, TargetState
    <2>4. Exists(r)'
      BY <2>3 DEF Advanced, Exists, NoRow, TargetState
    <2>5. events'[id[r]] = EventRow("forgotten", r, records[r].revision + 1, NoRecord)
      <3>1. (CHOOSE q \in V : id[q] = id[r]) = r
        OBVIOUS
      <3> QED BY <3>1 DEF ForgetAll
    <2> QED BY <2>3, <2>4, <2>5 DEF Advanced
  <1>2. \A e \in EventIds : (\A r \in V : id[r] # e) => events'[e] = events[e]
    BY DEF ForgetAll
  <1>3. ASSUME NEW r \in Records \ V
        PROVE  /\ Exists(r)' <=> Exists(r)
               /\ Exists(r) => /\ records'[r].revision = records[r].revision
                               /\ records'[r].state = records[r].state
                               /\ records'[r].trust = records[r].trust
                               /\ records'[r].origin = records[r].origin
                               /\ records'[r].supersededBy \in {records[r].supersededBy, NoRecord}
    <2>1. records'[r] = Unlinked(records[r], V)
      BY DEF ForgetAll
    <2>2. Exists(r)' <=> Exists(r)
      BY <2>1, UnlinkedKeepsStage DEF TypeOK, Exists
    <2>3. Exists(r) => records[r] \in Row
      BY RowOfExisting
    <2> QED BY <2>1, <2>2, <2>3 DEF Unlinked, Row
  <1> QED BY <1>1, <1>2, <1>3 DEF Appends

LEMMA CreateAppends ==
  ASSUME TypeOK, NEW e \in CommandIds, NEW r \in Records, NEW s, NEW origin, NEW from,
         NEW until, NEW at, CreateCandidate(e, r, s, origin, from, until, at)
  PROVE  Appends({r}, [q \in {r} |-> e], "observed", NoRecord)
  <1>1. Observed(r) /\ Exists(r)'
    BY DEF CreateCandidate, Observed, Exists, NoRow, TypeOK
  <1>2. events' = [events EXCEPT ![e] = EventRow("observed", r, records'[r].revision, NoRecord)]
    BY <1>1 DEF CreateCandidate, Observed
  <1>3. \A q \in Records \ {r} : records'[q] = records[q]
    BY DEF CreateCandidate, TypeOK
  <1> QED BY <1>1, <1>2, <1>3 DEF CreateCandidate, Appends, EventIds, Exists, TypeOK

-----------------------------------------------------------------------------
(* The history under such steps.                                            *)

LEMMA EventRowColumns ==
  ASSUME NEW type, NEW r, NEW n, NEW q
  PROVE  /\ EventRow(type, r, n, q).type = type /\ EventRow(type, r, n, q).record = r
         /\ EventRow(type, r, n, q).revision = n /\ EventRow(type, r, n, q).related = q
  BY DEF EventRow

(* What an append leaves in the log: the old rows and one for each of M.    *)
Appended(M, id, kind, other) ==
  /\ \A e \in EventIds : events[e] # NoEvent => events'[e] = events[e]
  /\ \A r \in M : /\ id[r] \in EventsOf(r)'
                   /\ events'[id[r]].type = kind
                   /\ events'[id[r]].revision = records'[r].revision
                   /\ events'[id[r]].related = other
  /\ \A r \in Records : \A e \in EventsOf(r)' :
       \/ e \in EventsOf(r) /\ events'[e] = events[e]
       \/ r \in M /\ e = id[r]
  /\ \A r \in Records : EventsOf(r) \subseteq EventsOf(r)'

LEMMA AppendedRows ==
  ASSUME TypeOK, NEW M \in SUBSET Records, NEW id, NEW kind \in EventTypes, NEW other,
         Appends(M, id, kind, other)
  PROVE  Appended(M, id, kind, other)
  <1>1. ASSUME NEW e \in EventIds, events[e] # NoEvent
        PROVE  events'[e] = events[e]
    BY <1>1 DEF Appends, Unspent
  <1>2. ASSUME NEW r \in M
        PROVE  /\ id[r] \in EventIds /\ events'[id[r]] # NoEvent
               /\ events'[id[r]].record = r /\ events'[id[r]].type = kind
               /\ events'[id[r]].revision = records'[r].revision
               /\ events'[id[r]].related = other
    <2>1. id[r] \in EventIds /\ events'[id[r]] = EventRow(kind, r, records'[r].revision, other)
      BY <1>2 DEF Appends
    <2> QED BY <2>1, EventRowIsSomething, EventRowColumns
  <1>3. ASSUME NEW r \in Records, NEW e \in EventsOf(r)'
        PROVE  \/ e \in EventsOf(r) /\ events'[e] = events[e]
               \/ r \in M /\ e = id[r]
    <2>1. CASE \E q \in M : id[q] = e
      <3>1. PICK q \in M : id[q] = e
        BY <2>1
      <3>2. events'[e].record = q
        BY <1>2, <3>1
      <3>3. events'[e].record = r
        BY <1>3 DEF EventsOf
      <3> QED BY <3>1, <3>2, <3>3
    <2>2. CASE ~\E q \in M : id[q] = e
      <3>1. e \in EventIds /\ events'[e] # NoEvent /\ events'[e].record = r
        BY <1>3 DEF EventsOf
      <3>2. \A q \in M : id[q] # e
        BY <2>2
      <3>3. events'[e] = events[e]
        BY <3>1, <3>2 DEF Appends
      <3>4. events[e] # NoEvent /\ events[e].record = r
        BY <3>1, <3>3
      <3> QED BY <3>1, <3>3, <3>4 DEF EventsOf
    <2> QED BY <2>1, <2>2
  <1> QED BY <1>1, <1>2, <1>3 DEF EventsOf, Appended

LEMMA AppendKeepsHistory ==
  ASSUME TypeOK, TypeOK', HistoryInv, NEW M \in SUBSET Records, NEW id,
         NEW kind \in EventTypes, NEW other, Appends(M, id, kind, other)
  PROVE  HistoryInv'
  <1>1. \A r \in Records : Exists(r) => records[r].revision \in Nat
    BY RowOfExisting DEF Row
  <1>2. ASSUME NEW r \in Records, Exists(r) \/ r \in M
        PROVE  Exists(r)'
    BY <1>2 DEF Appends
  <1>3. LogNamesStored'
    <2> SUFFICES ASSUME NEW e \in EventIds, events'[e] # NoEvent
                 PROVE  records'[events'[e].record] # NoRow
      BY DEF LogNamesStored, Exists
    <2>1. PICK r \in Records : events'[e].record = r
      BY DEF TypeOK, Event
    <2>2. e \in EventsOf(r)'
      BY <2>1 DEF EventsOf
    <2>3. e \in EventsOf(r) \/ r \in M
      BY <2>2, AppendedRows DEF Appended
    <2>4. Exists(r) \/ r \in M
      BY <2>3 DEF HistoryInv, LogNamesStored, EventsOf
    <2> QED BY <1>2, <2>1, <2>4 DEF Exists
  <1>4. \A r \in Records : ~Exists(r) => EventsOf(r) = {}
    BY DEF HistoryInv, LogNamesStored, EventsOf
  <1>5. ASSUME NEW r \in M
        PROVE  records'[r].revision = IF Exists(r) THEN records[r].revision + 1 ELSE 1
    BY <1>5 DEF Appends, Observed, Advanced
  <1>6. ASSUME NEW r \in Records \ M, Exists(r)'
        PROVE  /\ Exists(r)
               /\ records'[r].revision = records[r].revision
               /\ records'[r].state = records[r].state
               /\ records'[r].trust = records[r].trust
               /\ records'[r].supersededBy \in {records[r].supersededBy, NoRecord}
               /\ EventsOf(r)' = EventsOf(r)
               /\ \A e \in EventsOf(r) : events'[e] = events[e]
    <2>1. EventsOf(r)' = EventsOf(r) /\ \A e \in EventsOf(r) : events'[e] = events[e]
      BY <1>6, AppendedRows DEF Appended
    <2> QED BY <1>6, <2>1 DEF Appends
  <1>7. ASSUME NEW r \in M
        PROVE  EventsOf(r)' = EventsOf(r) \cup {id[r]} /\ id[r] \notin EventsOf(r)
               /\ \A e \in EventsOf(r) : events'[e] = events[e]
    <2>1. events[id[r]] = NoEvent
      BY DEF Appends, Unspent
    <2> QED BY <2>1, <1>7, AppendedRows DEF Appended, EventsOf
  <1>8. Numbered'
    <2> SUFFICES ASSUME NEW r \in Records, Exists(r)'
                 PROVE  /\ \A e \in EventsOf(r)' : events'[e].revision \in 1 .. records'[r].revision
                        /\ \A n \in 1 .. records'[r].revision :
                             \E e \in EventsOf(r)' : events'[e].revision = n
      BY DEF Numbered
    <2>1. CASE r \notin M
      BY <1>6, <2>1 DEF HistoryInv, Numbered
    <2>2. CASE r \in M /\ Exists(r)
      <3>1. events'[id[r]].revision = records[r].revision + 1
        BY <1>5, <2>2, AppendedRows DEF Appended
      <3>2. records[r].revision \in Nat /\ records'[r].revision = records[r].revision + 1
        BY <1>1, <1>5, <2>2
      <3>3. \A e \in EventsOf(r) : events[e].revision \in 1 .. records[r].revision
        BY <2>2 DEF HistoryInv, Numbered
      <3>4. \A n \in 1 .. records[r].revision : \E e \in EventsOf(r) : events[e].revision = n
        BY <2>2 DEF HistoryInv, Numbered
      <3>5. ASSUME NEW e \in EventsOf(r)'
            PROVE  events'[e].revision \in 1 .. records'[r].revision
        BY <1>7, <2>2, <3>1, <3>2, <3>3
      <3>6. ASSUME NEW n \in 1 .. records'[r].revision
            PROVE  \E e \in EventsOf(r)' : events'[e].revision = n
        <4>1. CASE n = records'[r].revision
          BY <1>7, <2>2, <3>1, <3>2, <4>1
        <4>2. CASE n # records'[r].revision
          <5>1. n \in 1 .. records[r].revision
            BY <3>2, <4>2
          <5>2. PICK e \in EventsOf(r) : events[e].revision = n
            BY <3>4, <5>1
          <5> QED BY <1>7, <2>2, <5>2
        <4> QED BY <4>1, <4>2, Zenon
      <3> QED BY <3>5, <3>6, Zenon
    <2>3. CASE r \in M /\ ~Exists(r)
      <3>1. EventsOf(r)' = {id[r]}
        BY <1>4, <1>7, <2>3
      <3>2. records'[r].revision = 1 /\ events'[id[r]].revision = 1
        <4>1. records'[r].revision = 1
          BY <1>5, <2>3
        <4>2. events'[id[r]].revision = records'[r].revision
          BY <2>3, AppendedRows DEF Appended
        <4> QED BY <4>1, <4>2
      <3>3. 1 .. records'[r].revision = {1}
        BY <3>2
      <3>4. \A e \in EventsOf(r)' : events'[e].revision = 1
        BY <3>1, <3>2
      <3>5. \E e \in EventsOf(r)' : events'[e].revision = 1
        BY <3>1, <3>2
      <3> QED BY <3>3, <3>4, <3>5
    <2> QED BY <2>1, <2>2, <2>3
  <1>9. NumberedOnce'
    <2> SUFFICES ASSUME NEW r \in Records, NEW d \in EventsOf(r)', NEW e \in EventsOf(r)',
                        events'[d].revision = events'[e].revision
                 PROVE  d = e
      BY DEF NumberedOnce
    <2>1. ASSUME NEW f \in EventsOf(r), r \in M
          PROVE  events'[f].revision # events'[id[r]].revision
      <3>1. Exists(r)
        BY <1>4, <2>1
      <3>2. events[f].revision \in 1 .. records[r].revision
        BY <2>1, <3>1 DEF HistoryInv, Numbered
      <3>3. events'[id[r]].revision = records[r].revision + 1
        BY <1>5, <2>1, <3>1, AppendedRows DEF Appended
      <3> QED BY <1>1, <1>7, <2>1, <3>1, <3>2, <3>3
    <2>2. CASE d \in EventsOf(r) /\ e \in EventsOf(r)
      <3>1. \A f \in EventsOf(r) : events'[f] = events[f]
        BY AppendedRows DEF Appended, EventsOf
      <3> QED BY <2>2, <3>1 DEF HistoryInv, NumberedOnce
    <2>3. \A f \in EventsOf(r)' : f \in EventsOf(r) \/ (r \in M /\ f = id[r])
      BY AppendedRows DEF Appended
    <2> QED BY <2>1, <2>2, <2>3
  <1>10. StateFollowsHistory'
    <2> SUFFICES ASSUME NEW r \in Records, Exists(r)'
                 PROVE  /\ \A e \in EventsOf(r)' : events'[e].revision = records'[r].revision =>
                              records'[r].state = IF events'[e].type = "observed" THEN "candidate"
                                                  ELSE TargetState[events'[e].type]
                        /\ records'[r].trust = "host_confirmed" <=>
                             \E e \in EventsOf(r)' : events'[e].type = "confirmed"
                        /\ records'[r].supersededBy # NoRecord =>
                             \E e \in EventsOf(r)' :
                                /\ events'[e].type = "superseded"
                                /\ events'[e].related = records'[r].supersededBy
      BY DEF StateFollowsHistory
    <2>1. CASE r \notin M
      BY <1>6, <2>1 DEF HistoryInv, StateFollowsHistory
    <2>2. CASE r \in M /\ Observed(r)
      <3>1. EventsOf(r)' = {id[r]} /\ kind = "observed"
        <4>1. kind # "observed" => Exists(r)
          BY <2>2 DEF Appends, Advanced
        <4> QED BY <1>4, <1>7, <2>2, <4>1 DEF Observed
      <3> QED BY <2>2, <3>1, AppendedRows DEF Appended, Observed
    <2>3. CASE r \in M /\ Advanced(r, kind, other)
      <3>1. Exists(r)
        BY <2>3 DEF Advanced
      <3>2. \A e \in EventsOf(r) : events'[e].revision # records'[r].revision
        <4>1. \A e \in EventsOf(r) : events[e].revision \in 1 .. records[r].revision
          BY <3>1 DEF HistoryInv, Numbered
        <4> QED BY <1>1, <1>5, <1>7, <2>3, <3>1, <4>1
      <3>3. kind # "observed" /\ records'[r].state = TargetState[kind]
        BY <2>3 DEF Advanced
      <3>4. records'[r].trust = "host_confirmed" <=>
              kind = "confirmed" \/ \E e \in EventsOf(r) : events[e].type = "confirmed"
        BY <2>3, <3>1 DEF Advanced, HistoryInv, StateFollowsHistory
      <3>5. records'[r].supersededBy # NoRecord =>
              \/ kind = "superseded" /\ records'[r].supersededBy = other
              \/ \E e \in EventsOf(r) : /\ events[e].type = "superseded"
                                        /\ events[e].related = records'[r].supersededBy
        BY <2>3, <3>1 DEF Advanced, HistoryInv, StateFollowsHistory
      <3> QED BY <1>7, <2>3, <3>2, <3>3, <3>4, <3>5, AppendedRows DEF Appended
    <2> QED BY <2>1, <2>2, <2>3 DEF Appends
  <1> QED BY <1>3, <1>8, <1>9, <1>10 DEF HistoryInv

(* Erase takes whole histories away and clears the links to them.           *)
LEMMA EraseKeepsHistory ==
  ASSUME TypeOK, TypeOK', HistoryInv, NEW e \in CommandIds, NEW r \in Records, NEW rev,
         Erase(e, r, rev)
  PROVE  HistoryInv'
  <1>1. ASSUME NEW q \in Records, q # r
        PROVE  /\ Exists(q)' <=> Exists(q)
               /\ Exists(q) => /\ records'[q].revision = records[q].revision
                               /\ records'[q].state = records[q].state
                               /\ records'[q].trust = records[q].trust
                               /\ records'[q].supersededBy # r
                               /\ records'[q].supersededBy \in {records[q].supersededBy, NoRecord}
    <2>1. records'[q] = Unlinked(records[q], {r})
      BY <1>1 DEF Erase
    <2>2. Exists(q)' <=> Exists(q)
      BY <2>1, UnlinkedKeepsStage DEF TypeOK, Exists
    <2>3. ASSUME Exists(q) PROVE records[q] \in Row /\ records[q] # NoRow
      BY <2>3, RowOfExisting DEF Exists
    <2> QED BY <2>1, <2>2, <2>3, LedgerConstants DEF Unlinked, Row
  <1>2. ~Exists(r)'
    BY DEF Erase, Exists
  <1>3. ASSUME NEW f \in EventIds, events[f] # NoEvent, events[f].record # r
        PROVE  /\ events'[f] # NoEvent
               /\ events'[f].record = events[f].record
               /\ events'[f].revision = events[f].revision
               /\ events'[f].type = events[f].type
               /\ events[f].related # r => events'[f].related = events[f].related
    <2>1. events[f] \in Event
      BY <1>3 DEF TypeOK
    <2>2. /\ [events[f] EXCEPT !.related = NoRecord] # NoEvent
          /\ [events[f] EXCEPT !.related = NoRecord].record = events[f].record
          /\ [events[f] EXCEPT !.related = NoRecord].revision = events[f].revision
          /\ [events[f] EXCEPT !.related = NoRecord].type = events[f].type
      BY <2>1 DEF Event, NoEvent
    <2> QED BY <1>3, <2>2 DEF Erase, EventsWithout
  <1>4. ASSUME NEW f \in EventIds, events[f] = NoEvent \/ events[f].record = r
        PROVE  events'[f] = NoEvent
    BY <1>4 DEF Erase, EventsWithout
  <1>5. \A q \in Records : q # r => EventsOf(q)' = EventsOf(q)
    BY <1>3, <1>4 DEF EventsOf
  <1>6. EventsOf(r)' = {}
    BY <1>3, <1>4 DEF EventsOf
  <1>7. LogNamesStored'
    <2>1. \A f \in EventIds : events[f] # NoEvent => events[f].record \in Records
      BY DEF TypeOK, Event
    <2> QED BY <1>1, <1>3, <1>4, <2>1 DEF HistoryInv, LogNamesStored
  <1>8. \A q \in Records : q # r => \A f \in EventsOf(q) :
          events'[f].revision = events[f].revision /\ events'[f].type = events[f].type
          /\ (events[f].related # r => events'[f].related = events[f].related)
    BY <1>3 DEF EventsOf
  <1>9. Numbered'
    BY <1>1, <1>2, <1>5, <1>8 DEF HistoryInv, Numbered
  <1>10. NumberedOnce'
    BY <1>5, <1>6, <1>8 DEF HistoryInv, NumberedOnce
  <1>11. StateFollowsHistory'
    BY <1>1, <1>2, <1>5, <1>8 DEF HistoryInv, StateFollowsHistory
  <1> QED BY <1>7, <1>9, <1>10, <1>11 DEF HistoryInv

-----------------------------------------------------------------------------
(* Trust and verdicts under the same steps.                                 *)

(* An audited event is in the log, so no fresh identifier is audited.       *)
LEMMA AuditedIsSpent ==
  ASSUME TypeOK, AuditsMatchEvents, NEW e \in EventIds, audits[e] # NoAudit
  PROVE  ~Unspent(e)
  <1>1. audits[e].action \in Actions
    BY DEF TypeOK, Audit
  <1>2. AdmissionEvent[audits[e].action] \in EventTypes
    BY <1>1 DEF AdmissionEvent, Actions, EventTypes
  <1> QED BY <1>2, EventRowIsSomething DEF AuditsMatchEvents, Unspent

(* The allow verdict that trust in r rests on, and a step that keeps every  *)
(* verdict given so far.                                                    *)
VerdictOn(r) ==
  \E e \in EventsOf(r) : /\ events[e].type = "confirmed"
                         /\ audits[e] # NoAudit
                         /\ audits[e].action = "allow"
                         /\ audits[e].record = r
                         /\ events[e].revision = audits[e].revision + 1

VerdictsStay == \A e \in EventIds : audits[e] # NoAudit => audits'[e] = audits[e]

(* The witness of an earlier admission stays.                               *)
LEMMA TrustStaysAdmitted ==
  ASSUME TypeOK, AdmissionIsAudited, NEW M \in SUBSET Records, NEW id,
         NEW kind \in EventTypes, NEW other, Appends(M, id, kind, other),
         VerdictsStay, NEW r \in Records, Exists(r)', records'[r].trust = "host_confirmed",
         records'[r].origin # "unknown", r \in M => kind # "confirmed"
  PROVE  VerdictOn(r)'
  <1>1. Exists(r) /\ records[r].trust = "host_confirmed" /\ records[r].origin # "unknown"
    BY DEF Appends, Observed, Advanced
  <1>2. PICK e \in EventsOf(r) : /\ events[e].type = "confirmed"
                                /\ audits[e] # NoAudit
                                /\ audits[e].action = "allow"
                                /\ audits[e].record = r
                                /\ events[e].revision = audits[e].revision + 1
    BY <1>1 DEF AdmissionIsAudited, TrustIsAdmitted
  <1>3. e \in EventIds /\ events[e] # NoEvent
    BY DEF EventsOf
  <1>4. events'[e] = events[e] /\ e \in EventsOf(r)'
    BY <1>3, AppendedRows DEF Appended
  <1> QED BY <1>2, <1>3, <1>4 DEF VerdictOn, VerdictsStay

LEMMA AppendKeepsAudits ==
  ASSUME TypeOK, AdmissionIsAudited, NEW M \in SUBSET Records, NEW id,
         NEW kind \in EventTypes, NEW other, Appends(M, id, kind, other),
         kind = "confirmed" => \A r \in M : records[r].origin = "unknown",
         \A e \in EventIds : (\A r \in M : id[r] # e) => receipts'[e] = receipts[e],
         audits' = audits
  PROVE  AdmissionIsAudited'
  <1>1. ASSUME NEW e \in EventIds, audits[e] # NoAudit
        PROVE  events'[e] = events[e] /\ receipts'[e] = receipts[e]
    <2>1. ~Unspent(e)
      BY <1>1, AuditedIsSpent DEF AdmissionIsAudited
    <2> QED BY <2>1 DEF Appends
  <1>2. AuditsMatchEvents'
    BY <1>1 DEF AdmissionIsAudited, AuditsMatchEvents
  <1>3. \A r \in M : kind = "confirmed" => records'[r].origin = "unknown"
    BY DEF Appends, Observed, Advanced
  <1>4. TrustIsAdmitted'
    <2> SUFFICES ASSUME NEW q \in Records, Exists(q)', records'[q].trust = "host_confirmed",
                        records'[q].origin # "unknown"
                 PROVE  VerdictOn(q)'
      BY DEF TrustIsAdmitted, VerdictOn
    <2> QED BY <1>3, TrustStaysAdmitted DEF VerdictsStay
  <1> QED BY <1>2, <1>4 DEF AdmissionIsAudited

LEMMA AdmissionKeepsAudits ==
  ASSUME TypeOK, AdmissionIsAudited, NEW e \in CommandIds, NEW r \in Records,
         NEW rev, NEW action \in Actions, CheckRevision(r, rev),
         NEW M, M = {r}, NEW id, id[r] = e,
         NEW kind, kind = AdmissionEvent[action], Appends(M, id, kind, NoRecord),
         audits'[e] = [action |-> action, record |-> r, revision |-> rev],
         \A f \in EventIds \ {e} : audits'[f] = audits[f],
         \A f \in EventIds \ {e} : receipts'[f] = receipts[f],
         receipts'[e] = IF action = "reject" THEN r ELSE NoRecord
  PROVE  AdmissionIsAudited'
  <1> DEFINE audit == [action |-> action, record |-> r, revision |-> rev]
  <1>1. kind \in EventTypes \ {"observed"} /\ e \in EventIds /\ id[r] = e
    BY DEF AdmissionEvent, Actions, EventTypes, EventIds
  <1>2. /\ audits'[e] = audit /\ audit # NoAudit
        /\ \A f \in EventIds \ {e} : audits'[f] = audits[f]
    BY <1>1 DEF NoAudit, Actions
  <1>3. /\ Unspent(e) /\ Exists(r)' /\ Advanced(r, kind, NoRecord)
        /\ events'[e] = EventRow(kind, r, records'[r].revision, NoRecord)
        /\ \A f \in EventIds \ {e} : events'[f] = events[f]
    <2>1. ~Observed(r)
      BY DEF Observed, CheckRevision
    <2> QED BY <1>1, <2>1 DEF Appends
  <1>4. events'[e] = EventRow(kind, r, rev + 1, NoRecord)
    BY <1>3 DEF CheckRevision, Advanced
  <1>5. receipts'[e] = r <=> action = "reject"
    BY LedgerConstants
  <1>6. AuditsMatchEvents'
    <2> SUFFICES ASSUME NEW f \in EventIds, audits'[f] # NoAudit
                 PROVE  /\ events'[f] = EventRow(AdmissionEvent[audits'[f].action],
                                             audits'[f].record, audits'[f].revision + 1, NoRecord)
                        /\ audits'[f].action = "reject" <=> receipts'[f] = audits'[f].record
      BY DEF AuditsMatchEvents
    <2>1. CASE f = e
      BY <1>2, <1>4, <1>5, <2>1
    <2>2. CASE f # e
      BY <1>2, <1>3, <2>2 DEF AdmissionIsAudited, AuditsMatchEvents
    <2> QED BY <2>1, <2>2
  <1>7. VerdictsStay
    BY <1>2, <1>3, AuditedIsSpent DEF AdmissionIsAudited, VerdictsStay
  <1>8. TrustIsAdmitted'
    <2> SUFFICES ASSUME NEW q \in Records, Exists(q)', records'[q].trust = "host_confirmed",
                        records'[q].origin # "unknown"
                 PROVE  VerdictOn(q)'
      BY DEF TrustIsAdmitted, VerdictOn
    <2>1. CASE q = r /\ kind = "confirmed"
      <3>1. action = "allow"
        BY <2>1 DEF AdmissionEvent, Actions
      <3>2. /\ events'[e] # NoEvent /\ events'[e].record = r /\ events'[e].type = "confirmed"
            /\ events'[e].revision = rev + 1
        BY <1>1, <1>4, <2>1, EventRowIsSomething, EventRowColumns
      <3>3. e \in EventsOf(r)'
        BY <1>1, <3>2 DEF EventsOf
      <3> QED BY <1>2, <2>1, <3>1, <3>2, <3>3 DEF VerdictOn
    <2>2. CASE q # r \/ kind # "confirmed"
      <3>1. M \in SUBSET Records /\ (q \in M => kind # "confirmed")
        BY <2>2
      <3>2. kind \in EventTypes
        BY <1>1
      <3> QED BY <1>7, <3>1, <3>2, TrustStaysAdmitted
    <2> QED BY <2>1, <2>2
  <1> QED BY <1>6, <1>8 DEF AdmissionIsAudited

LEMMA EraseKeepsAudits ==
  ASSUME TypeOK, AdmissionIsAudited, NEW e \in CommandIds, NEW r \in Records, NEW rev,
         Erase(e, r, rev)
  PROVE  AdmissionIsAudited'
  <1>1. ASSUME NEW f \in EventIds, audits[f] # NoAudit
        PROVE  audits[f] \in Audit
    BY <1>1 DEF TypeOK
  <1>2. ASSUME NEW f \in EventIds
        PROVE  audits'[f] # NoAudit => audits'[f] = audits[f] /\ audits[f].record # r
    BY DEF Erase, AuditsWithout
  <1>3. AuditsMatchEvents'
    <2> SUFFICES ASSUME NEW f \in EventIds, audits'[f] # NoAudit
                 PROVE  /\ events'[f] = EventRow(AdmissionEvent[audits'[f].action],
                                             audits'[f].record, audits'[f].revision + 1, NoRecord)
                        /\ audits'[f].action = "reject" <=> receipts'[f] = audits'[f].record
      BY DEF AuditsMatchEvents
    <2>1. /\ audits'[f] = audits[f] /\ audits[f] # NoAudit /\ audits[f].record # r
          /\ audits[f].record \in Records /\ audits[f].action \in Actions
      BY <1>1, <1>2 DEF Audit
    <2>2. events[f] = EventRow(AdmissionEvent[audits[f].action], audits[f].record,
                               audits[f].revision + 1, NoRecord)
      BY <2>1 DEF AdmissionIsAudited, AuditsMatchEvents
    <2>3. AdmissionEvent[audits[f].action] \in EventTypes
      BY <2>1 DEF AdmissionEvent, Actions, EventTypes
    <2>4. events[f] # NoEvent /\ events[f].record # r /\ events[f].related # r
      BY <2>1, <2>2, <2>3, EventRowIsSomething, EventRowColumns, LedgerConstants
    <2>5. events'[f] = events[f]
      BY <2>4 DEF Erase, EventsWithout
    <2>6. audits[f].action = "reject" <=> receipts[f] = audits[f].record
      BY <2>1 DEF AdmissionIsAudited, AuditsMatchEvents
    <2>7. receipts'[f] = IF receipts[f] = r THEN NoRecord ELSE receipts[f]
      BY DEF Erase
    <2> QED BY <2>1, <2>2, <2>5, <2>6, <2>7, LedgerConstants
  <1>4. TrustIsAdmitted'
    <2> SUFFICES ASSUME NEW q \in Records, Exists(q)', records'[q].trust = "host_confirmed",
                        records'[q].origin # "unknown"
                 PROVE  VerdictOn(q)'
      BY DEF TrustIsAdmitted, VerdictOn
    <2>1. q # r /\ records'[q] = Unlinked(records[q], {r})
      BY DEF Erase, Exists
    <2>2. Exists(q) /\ records[q] \in Row
      BY <2>1, UnlinkedKeepsStage, RowOfExisting DEF TypeOK, Exists
    <2>3. records[q].trust = "host_confirmed" /\ records[q].origin # "unknown"
      BY <2>1, <2>2 DEF Unlinked, Row
    <2>4. PICK f \in EventsOf(q) : /\ events[f].type = "confirmed"
                                   /\ audits[f] # NoAudit
                                   /\ audits[f].action = "allow"
                                   /\ audits[f].record = q
                                   /\ events[f].revision = audits[f].revision + 1
      BY <2>2, <2>3 DEF AdmissionIsAudited, TrustIsAdmitted
    <2>5. f \in EventIds /\ events[f] # NoEvent /\ events[f].record = q
      BY DEF EventsOf
    <2>6. events[f] = EventRow(AdmissionEvent[audits[f].action], q,
                               audits[f].revision + 1, NoRecord)
      BY <2>4, <2>5 DEF AdmissionIsAudited, AuditsMatchEvents
    <2>7. events[f].related # r
      BY <2>6, EventRowColumns, LedgerConstants
    <2>8. events'[f] = events[f] /\ audits'[f] = audits[f]
      BY <2>1, <2>4, <2>5, <2>7 DEF Erase, EventsWithout, AuditsWithout
    <2>9. f \in EventsOf(q)'
      BY <2>5, <2>8 DEF EventsOf
    <2> QED BY <2>4, <2>8, <2>9 DEF VerdictOn
  <1> QED BY <1>3, <1>4 DEF AdmissionIsAudited

-----------------------------------------------------------------------------
(* Every command.                                                           *)

LogInv == HistoryInv /\ AdmissionIsAudited

(* A command that appends without judging a candidate.                      *)
LEMMA AppendKeepsLog ==
  ASSUME TypeOK, TypeOK', LogInv, NEW M \in SUBSET Records, NEW id,
         NEW kind \in EventTypes, NEW other, Appends(M, id, kind, other),
         kind = "confirmed" => \A r \in M : records[r].origin = "unknown",
         \A e \in EventIds : (\A r \in M : id[r] # e) => receipts'[e] = receipts[e],
         audits' = audits
  PROVE  LogInv'
  <1>1. HistoryInv'
    BY AppendKeepsHistory DEF LogInv
  <1>2. AdmissionIsAudited'
    BY AppendKeepsAudits DEF LogInv
  <1> QED BY <1>1, <1>2 DEF LogInv

LEMMA TransitionKeepsLog ==
  ASSUME TypeOK, TypeOK', LogInv, NEW e \in CommandIds, Unspent(e), NEW r \in Records,
         NEW type \in EventTypes \ {"observed", "forgotten"}, NEW at, NEW other,
         Transition(e, r, type, at, other),
         type = "confirmed" => records[r].origin = "unknown",
         receipts' = receipts, audits' = audits
  PROVE  LogInv'
  <1> DEFINE M == {r}
             id == [q \in {r} |-> e]
  <1>1. Appends(M, id, type, other)
    BY TransitionAppends
  <1>2. type = "confirmed" => \A q \in M : records[q].origin = "unknown"
    OBVIOUS
  <1>3. M \in SUBSET Records /\ type \in EventTypes
    OBVIOUS
  <1> HIDE DEF M, id
  <1> QED BY <1>1, <1>2, <1>3, AppendKeepsLog

LEMMA CreateKeepsLog ==
  ASSUME TypeOK, TypeOK', LogInv, NEW e \in CommandIds, NEW r \in Records, NEW s, NEW origin,
         NEW from, NEW until, NEW at, CreateCandidate(e, r, s, origin, from, until, at)
  PROVE  LogInv'
  <1> DEFINE M == {r}
             id == [q \in {r} |-> e]
  <1>1. Appends(M, id, "observed", NoRecord)
    BY CreateAppends
  <1>2. M \in SUBSET Records /\ receipts' = receipts /\ audits' = audits
    BY DEF CreateCandidate
  <1> HIDE DEF M, id
  <1> QED BY <1>1, <1>2, AppendKeepsLog DEF EventTypes

LEMMA ForgetAllKeepsLog ==
  ASSUME TypeOK, TypeOK', LogInv, NEW V \in SUBSET Records, NEW id, NEW at \in Instants,
         ForgetAll(V, id, at), \A r \in V : id[r] \in EventIds /\ Unspent(id[r]),
         \A q, r \in V : id[q] = id[r] => q = r, audits' = audits
  PROVE  LogInv'
  <1>1. Appends(V, id, "forgotten", NoRecord)
    BY ForgetAllAppends
  <1>2. \A e \in EventIds : (\A r \in V : id[r] # e) => receipts'[e] = receipts[e]
    BY DEF ForgetAll
  <1>3. "forgotten" \in EventTypes /\ "forgotten" # "confirmed"
    BY DEF EventTypes
  <1> QED BY <1>1, <1>2, <1>3, AppendKeepsLog

LEMMA RevocationKeepsLog ==
  ASSUME TypeOK, TypeOK', RevokedSourcesAreEmpty, SpentInv, LogInv,
         NEW s \in Sources, NEW at \in Instants, ForgetBySource(s, at)
  PROVE  LogInv'
  <1> DEFINE V == {r \in Records : <<s, r>> \in sources}
             id == [r \in V |-> <<s, r>>]
  <1>1. ForgetAll(V, id, at) /\ audits' = audits
    BY DEF ForgetBySource
  <1>2. \A r \in V : id[r] \in EventIds /\ Unspent(id[r])
    BY DEF EventIds, RevocationIds, RevokedSourcesAreEmpty, SpentInv, DerivedSpentOnce
  <1>3. V \in SUBSET Records /\ \A q, r \in V : id[q] = id[r] => q = r
    OBVIOUS
  <1> HIDE DEF V, id
  <1> QED BY <1>1, <1>2, <1>3, ForgetAllKeepsLog

LEMMA PurgeKeepsLog ==
  ASSUME TypeOK, TypeOK', SpentInv, LogInv, NEW o \in Operations, NEW at \in Instants,
         PurgePayloads(o, at)
  PROVE  LogInv'
  <1> DEFINE id == [r \in payloads |-> <<o, r>>]
  <1>1. ForgetAll(payloads, id, at) /\ audits' = audits
    BY DEF PurgePayloads
  <1>2. payloads \in SUBSET Records /\ ~purges[o].done
    BY DEF PurgePayloads, PurgePending, TypeOK
  <1>3. \A r \in payloads : id[r] \in EventIds /\ Unspent(id[r])
    BY <1>2 DEF EventIds, PurgeIds, SpentInv, DerivedSpentOnce
  <1>4. \A q, r \in payloads : id[q] = id[r] => q = r
    OBVIOUS
  <1> HIDE DEF id
  <1> QED BY <1>1, <1>2, <1>3, <1>4, ForgetAllKeepsLog

LEMMA AdmissionKeepsLog ==
  ASSUME TypeOK, TypeOK', LogInv, NEW e \in CommandIds, NEW r \in Records, Admission(e, r)
  PROVE  LogInv'
  <1>1. PICK rev \in Revisions, origin \in ConcreteOrigins, action \in Actions,
             at \in Instants, ledgerNow \in Instants :
             ApplyAdmissionReview(e, r, rev, origin, action, at, ledgerNow)
    BY DEF Admission
  <1> DEFINE M == {r}
             id == [q \in {r} |-> e]
             kind == AdmissionEvent[action]
  <1>2. /\ Unspent(e) /\ CheckRevision(r, rev) /\ e \in EventIds /\ kind \in EventTypes
        /\ audits' = [audits EXCEPT ![e] = [action |-> action, record |-> r, revision |-> rev]]
    BY <1>1 DEF ApplyAdmissionReview, CandidateUnchanged, EventIds, EventTypes,
                AdmissionEvent, Actions
  <1>3. /\ Appends(M, id, kind, NoRecord)
        /\ \A f \in EventIds \ {e} : receipts'[f] = receipts[f]
        /\ receipts'[e] = IF action = "reject" THEN r ELSE NoRecord
    <2>1. CASE action = "reject"
      <3>1. ForgetAll(M, id, at) /\ kind = "forgotten"
        BY <1>1, <2>1 DEF ApplyAdmissionReview, AdmissionEvent
      <3>2. /\ \A f \in EventIds \ {e} : receipts'[f] = receipts[f]
            /\ receipts'[e] = r
        BY <1>2, <3>1 DEF ForgetAll
      <3>3. /\ \A q \in M : id[q] \in EventIds /\ Unspent(id[q])
            /\ \A p, q \in M : id[p] = id[q] => p = q
            /\ M \in SUBSET Records
        BY <1>2
      <3> HIDE DEF M, id
      <3>4. Appends(M, id, "forgotten", NoRecord)
        BY <3>1, <3>3, ForgetAllAppends
      <3> QED BY <2>1, <3>1, <3>2, <3>4
    <2>2. CASE action # "reject"
      <3>1. Transition(e, r, kind, at, NoRecord) /\ receipts' = receipts
        BY <1>1, <2>2 DEF ApplyAdmissionReview
      <3>2. kind \in EventTypes \ {"observed", "forgotten"}
        BY <2>2 DEF AdmissionEvent, Actions, EventTypes
      <3>3. receipts[e] = NoRecord
        BY <1>2 DEF Unspent
      <3> HIDE DEF kind
      <3>4. Appends({r}, [q \in {r} |-> e], kind, NoRecord)
        BY <1>2, <3>1, <3>2, TransitionAppends
      <3> QED BY <2>2, <3>1, <3>3, <3>4
    <2> QED BY <2>1, <2>2
  <1>4. HistoryInv'
    <2>1. M \in SUBSET Records
      OBVIOUS
    <2> HIDE DEF M, id, kind
    <2> QED BY <1>2, <1>3, <2>1, AppendKeepsHistory DEF LogInv
  <1>5. AdmissionIsAudited'
    <2>1. M = {r} /\ id[r] = e /\ kind = AdmissionEvent[action]
      OBVIOUS
    <2>2. /\ audits'[e] = [action |-> action, record |-> r, revision |-> rev]
          /\ \A f \in EventIds \ {e} : audits'[f] = audits[f]
      BY <1>2 DEF TypeOK
    <2> HIDE DEF M, id, kind
    <2> QED BY <1>2, <1>3, <2>1, <2>2, AdmissionKeepsAudits DEF LogInv
  <1> QED BY <1>4, <1>5 DEF LogInv

LEMMA LogInductive ==
  TypeOK /\ TypeOK' /\ RevokedSourcesAreEmpty /\ SpentInv /\ LogInv /\ [Next]_vars => LogInv'
  <1> SUFFICES ASSUME TypeOK, TypeOK', RevokedSourcesAreEmpty, SpentInv, LogInv, [Next]_vars
               PROVE  LogInv'
    OBVIOUS
  <1>1. ASSUME UNCHANGED <<records, events, receipts, audits>>
        PROVE  LogInv'
    BY <1>1 DEF LogInv, HistoryInv, LogNamesStored, Numbered, NumberedOnce, StateFollowsHistory,
                AdmissionIsAudited, TrustIsAdmitted, AuditsMatchEvents, Exists, EventsOf
  <1>2. ASSUME NEW e \in CommandIds, NEW r \in Records, RawCommand(e, r)
        PROVE  LogInv'
    <2>1. ASSUME NEW rev, NEW type \in EventTypes \ {"observed", "forgotten"}, NEW at,
                 Command(e, r, rev, type, at),
                 type = "confirmed" => records[r].origin = "unknown"
          PROVE  LogInv'
      BY <2>1, TransitionKeepsLog DEF Command
    <2>2. ASSUME NEW q, NEW rev, NEW qrev, NEW at, Supersede(e, r, q, rev, qrev, at)
          PROVE  LogInv'
      BY <2>2, TransitionKeepsLog DEF Supersede, EventTypes
    <2>3. ASSUME NEW rev, NEW at \in Instants, Forget(e, r, rev, at)
          PROVE  LogInv'
      <3> DEFINE V == {r}
                 id == [q \in {r} |-> e]
      <3>1. ForgetAll(V, id, at) /\ audits' = audits
        BY <2>3 DEF Forget
      <3>2. /\ \A q \in V : id[q] \in EventIds /\ Unspent(id[q])
            /\ \A p, q \in V : id[p] = id[q] => p = q
            /\ V \in SUBSET Records
        BY <2>3 DEF Forget, EventIds
      <3> HIDE DEF V, id
      <3> QED BY <3>1, <3>2, ForgetAllKeepsLog
    <2>4. ASSUME NEW rev, Erase(e, r, rev)
          PROVE  LogInv'
      BY <2>4, EraseKeepsHistory, EraseKeepsAudits DEF LogInv
    <2>5. ASSUME NEW rev, NEW at, Confirm(e, r, rev, at)
          PROVE  LogInv'
      BY <2>1, <2>5 DEF Confirm, RawConfirmationEligible, EventTypes
    <2>6. ASSUME NEW rev, NEW at,
                 Quarantine(e, r, rev, at) \/ Expire(e, r, rev, at) \/ Retract(e, r, rev, at)
          PROVE  LogInv'
      BY <2>1, <2>6 DEF Quarantine, Expire, Retract, EventTypes
    <2> QED BY <1>2, <2>2, <2>3, <2>4, <2>5, <2>6, CreateKeepsLog DEF RawCommand
  <1>3. CASE CheckpointCommand
    BY <1>1, <1>3 DEF CheckpointCommand, CreateCheckpoint, InvalidateCheckpoint
  <1>4. CASE UNCHANGED vars
    BY <1>1, <1>4 DEF vars
  <1> QED BY <1>2, <1>3, <1>4, AdmissionKeepsLog, RevocationKeepsLog, PurgeKeepsLog
          DEF Next, ScopeCommand

(* One event carries each revision.                                         *)
LEMMA NumberedIsGapless == Numbered /\ NumberedOnce => HistoryIsGapless
  <1> SUFFICES ASSUME Numbered, NumberedOnce, NEW r \in Records, Exists(r),
                      NEW n \in 1 .. records[r].revision
               PROVE  Cardinality({e \in EventsOf(r) : events[e].revision = n}) = 1
    BY DEF HistoryIsGapless, Numbered
  <1>1. PICK e \in EventsOf(r) : events[e].revision = n
    BY DEF Numbered
  <1>2. {d \in EventsOf(r) : events[d].revision = n} = {e}
    BY <1>1 DEF NumberedOnce
  <1> QED BY <1>2, FS_Singleton

LEMMA LogHolds == Spec => []LogInv
  <1>1. Init => LogInv /\ SpentInv
    <2> SUFFICES ASSUME Init PROVE LogInv /\ SpentInv
      OBVIOUS
    <2>1. \A r \in Records : ~Exists(r) /\ EventsOf(r) = {}
      BY DEF Init, Exists, EventsOf
    <2>2. LogInv
      BY <2>1 DEF Init, LogInv, HistoryInv, LogNamesStored, Numbered, NumberedOnce,
                  StateFollowsHistory, AdmissionIsAudited, TrustIsAdmitted, AuditsMatchEvents
    <2>3. SpentInv
      BY DEF Init, SpentInv, Gone, ReceiptsBesideEvents, DerivedSpentOnce, Unspent,
             EventIds, RevocationIds, PurgeIds
    <2> QED BY <2>2, <2>3
  <1> QED BY <1>1, LogInductive, SpentInductive, Typing, RevocationHolds, PTL DEF Spec

-----------------------------------------------------------------------------
(* Whatever is proposed, confirmed, superseded, forgotten or erased, and    *)
(* whichever identifiers are retried, the log holds one event for each      *)
(* revision of a stored record and the row is what those events lead to.    *)
THEOREM HistoryIsKept == Spec => []RowsFollowHistory
  <1>1. LogInv => RowsFollowHistory
    BY NumberedIsGapless DEF LogInv, HistoryInv, RowsFollowHistory
  <1> QED BY <1>1, LogHolds, PTL

(* A record of a known origin is trusted only through an allow verdict on   *)
(* the revision before its confirmation, and each verdict keeps the event   *)
(* it led to, as long as the record is stored.                              *)
THEOREM TrustLeavesItsVerdict == Spec => []AdmissionIsAudited
  <1>1. LogInv => AdmissionIsAudited
    BY DEF LogInv
  <1> QED BY <1>1, LogHolds, PTL

(* The two as the runs check them: a row is what its log and its verdicts   *)
(* say, for any records, sources, retries and order of commands.            *)
THEOREM RowsAreExplained == Spec => []HistoryExplainsRows
  BY HistoryIsKept, TrustLeavesItsVerdict, PTL DEF HistoryExplainsRows

(***************************************************************************)
(* What a forget takes away is gone, and a retried command or purge        *)
(* changes nothing.                                                        *)
(***************************************************************************)

-----------------------------------------------------------------------------
(* What a step does to the log, the receipts and the plaintext: it grows    *)
(* the log, withdraws a set of records, erases one, or leaves all three.    *)

Grows(M, id, kind, other) ==
  /\ Appends(M, id, kind, other)
  /\ kind # "forgotten"
  /\ receipts' = receipts
  /\ payloads' = IF kind = "observed" THEN payloads \cup M ELSE payloads

Withdraws(V, id) ==
  /\ Appends(V, id, "forgotten", NoRecord)
  /\ payloads' = payloads \ V
  /\ \A r \in V : receipts'[id[r]] = r
  /\ \A e \in EventIds : (\A r \in V : id[r] # e) => receipts'[e] = receipts[e]

Logged ==
  \/ \E M \in SUBSET Records, kind \in EventTypes : \E id, other : Grows(M, id, kind, other)
  \/ \E V \in SUBSET Records : \E id : Withdraws(V, id)
  \/ \E e \in CommandIds, r \in Records : \E rev : Erase(e, r, rev)
  \/ UNCHANGED <<records, payloads, events, receipts>>

LEMMA ForgetAllWithdraws ==
  ASSUME TypeOK, NEW V \in SUBSET Records, NEW id, NEW at \in Instants, ForgetAll(V, id, at),
         \A r \in V : id[r] \in EventIds /\ Unspent(id[r]),
         \A q, r \in V : id[q] = id[r] => q = r
  PROVE  Withdraws(V, id)
  <1>1. Appends(V, id, "forgotten", NoRecord)
    BY ForgetAllAppends
  <1>2. ASSUME NEW r \in V PROVE receipts'[id[r]] = r
    <2>1. (CHOOSE q \in V : id[q] = id[r]) = r
      OBVIOUS
    <2> QED BY <2>1 DEF ForgetAll
  <1>3. /\ payloads' = payloads \ V
        /\ \A e \in EventIds : (\A r \in V : id[r] # e) => receipts'[e] = receipts[e]
    BY DEF ForgetAll
  <1> QED BY <1>1, <1>2, <1>3 DEF Withdraws

LEMMA ForgetOneWithdraws ==
  ASSUME TypeOK, NEW e \in CommandIds, Unspent(e), NEW r \in Records, NEW at \in Instants,
         ForgetAll({r}, [q \in {r} |-> e], at)
  PROVE  Logged
  <1> DEFINE V == {r}
             id == [q \in {r} |-> e]
  <1>1. /\ V \in SUBSET Records /\ ForgetAll(V, id, at)
        /\ \A q \in V : id[q] \in EventIds /\ Unspent(id[q])
        /\ \A p, q \in V : id[p] = id[q] => p = q
    BY DEF EventIds
  <1> HIDE DEF V, id
  <1>2. Withdraws(V, id)
    BY <1>1, ForgetAllWithdraws
  <1> QED BY <1>1, <1>2 DEF Logged

LEMMA TransitionGrows ==
  ASSUME TypeOK, NEW e \in CommandIds, Unspent(e), NEW r \in Records, NEW at, NEW other,
         NEW type \in EventTypes \ {"observed", "forgotten"},
         Transition(e, r, type, at, other), receipts' = receipts, payloads' = payloads
  PROVE  Logged
  <1> DEFINE M == {r}
             id == [q \in {r} |-> e]
  <1>1. Appends(M, id, type, other) /\ M \in SUBSET Records
    BY TransitionAppends
  <1> HIDE DEF M, id
  <1>2. Grows(M, id, type, other)
    BY <1>1 DEF Grows
  <1> QED BY <1>1, <1>2 DEF Logged

LEMMA CreateGrows ==
  ASSUME TypeOK, NEW e \in CommandIds, NEW r \in Records, NEW s, NEW origin, NEW from,
         NEW until, NEW at, CreateCandidate(e, r, s, origin, from, until, at)
  PROVE  Logged
  <1> DEFINE M == {r}
             id == [q \in {r} |-> e]
  <1>1. Appends(M, id, "observed", NoRecord) /\ M \in SUBSET Records
    BY CreateAppends
  <1>2. payloads' = payloads \cup M /\ receipts' = receipts
    BY DEF CreateCandidate
  <1> HIDE DEF M, id
  <1>3. Grows(M, id, "observed", NoRecord) /\ "observed" \in EventTypes
    BY <1>1, <1>2 DEF Grows, EventTypes
  <1> QED BY <1>1, <1>3 DEF Logged

LEMMA RevocationWithdraws ==
  ASSUME TypeOK, RevokedSourcesAreEmpty, SpentInv,
         NEW s \in Sources, NEW at \in Instants, ForgetBySource(s, at)
  PROVE  Logged
  <1> DEFINE V == {r \in Records : <<s, r>> \in sources}
             id == [r \in V |-> <<s, r>>]
  <1>1. ForgetAll(V, id, at)
    BY DEF ForgetBySource
  <1>2. \A r \in V : id[r] \in EventIds /\ Unspent(id[r])
    BY DEF EventIds, RevocationIds, RevokedSourcesAreEmpty, SpentInv, DerivedSpentOnce
  <1>3. V \in SUBSET Records /\ \A q, r \in V : id[q] = id[r] => q = r
    OBVIOUS
  <1> HIDE DEF V, id
  <1>4. Withdraws(V, id)
    BY <1>1, <1>2, <1>3, ForgetAllWithdraws
  <1> QED BY <1>3, <1>4 DEF Logged

LEMMA PurgeWithdraws ==
  ASSUME TypeOK, SpentInv, NEW o \in Operations, NEW at \in Instants, PurgePayloads(o, at)
  PROVE  Logged
  <1> DEFINE id == [r \in payloads |-> <<o, r>>]
  <1>1. ForgetAll(payloads, id, at)
    BY DEF PurgePayloads
  <1>2. payloads \in SUBSET Records /\ ~purges[o].done
    BY DEF PurgePayloads, PurgePending, TypeOK
  <1>3. \A r \in payloads : id[r] \in EventIds /\ Unspent(id[r])
    BY <1>2 DEF EventIds, PurgeIds, SpentInv, DerivedSpentOnce
  <1>4. \A q, r \in payloads : id[q] = id[r] => q = r
    OBVIOUS
  <1> HIDE DEF id
  <1>5. Withdraws(payloads, id)
    BY <1>1, <1>2, <1>3, <1>4, ForgetAllWithdraws
  <1> QED BY <1>2, <1>5 DEF Logged

LEMMA StepsAreLogged ==
  ASSUME TypeOK, RevokedSourcesAreEmpty, SpentInv, [Next]_vars
  PROVE  Logged
  <1>1. ASSUME NEW e \in CommandIds, NEW r \in Records, RawCommand(e, r)
        PROVE  Logged
    <2>1. ASSUME NEW rev, NEW type \in EventTypes \ {"observed", "forgotten"}, NEW at,
                 Command(e, r, rev, type, at)
          PROVE  Logged
      BY <2>1, TransitionGrows DEF Command
    <2>2. ASSUME NEW q, NEW rev, NEW qrev, NEW at, Supersede(e, r, q, rev, qrev, at)
          PROVE  Logged
      BY <2>2, TransitionGrows DEF Supersede, EventTypes
    <2>3. ASSUME NEW rev, NEW at \in Instants, Forget(e, r, rev, at)
          PROVE  Logged
      BY <2>3, ForgetOneWithdraws DEF Forget
    <2>4. ASSUME NEW rev, Erase(e, r, rev) PROVE Logged
      BY <2>4 DEF Logged
    <2>5. ASSUME NEW rev, NEW at, Confirm(e, r, rev, at) \/ Quarantine(e, r, rev, at)
                                    \/ Expire(e, r, rev, at) \/ Retract(e, r, rev, at)
          PROVE  Logged
      BY <2>1, <2>5 DEF Confirm, Quarantine, Expire, Retract, EventTypes
    <2> QED BY <1>1, <2>2, <2>3, <2>4, <2>5, CreateGrows DEF RawCommand
  <1>2. ASSUME NEW e \in CommandIds, NEW r \in Records, Admission(e, r)
        PROVE  Logged
    <2>1. PICK rev \in Revisions, origin \in ConcreteOrigins, action \in Actions,
               at \in Instants, ledgerNow \in Instants :
               ApplyAdmissionReview(e, r, rev, origin, action, at, ledgerNow)
      BY <1>2 DEF Admission
    <2>2. CASE action = "reject"
      BY <2>1, <2>2, ForgetOneWithdraws DEF ApplyAdmissionReview
    <2>3. CASE action # "reject"
      <3>1. AdmissionEvent[action] \in EventTypes \ {"observed", "forgotten"}
        BY <2>3 DEF AdmissionEvent, Actions, EventTypes
      <3> QED BY <2>1, <2>3, <3>1, TransitionGrows DEF ApplyAdmissionReview
    <2> QED BY <2>2, <2>3
  <1>3. CASE CheckpointCommand
    BY <1>3 DEF CheckpointCommand, CreateCheckpoint, InvalidateCheckpoint, Logged
  <1>4. CASE UNCHANGED vars
    BY <1>4 DEF vars, Logged
  <1> QED BY <1>1, <1>2, <1>3, <1>4, RevocationWithdraws, PurgeWithdraws DEF Next, ScopeCommand

-----------------------------------------------------------------------------
(* Retries.                                                                 *)

(* HistoryOnlyGrows, for one step.                                          *)
RowsAdvance ==
  \A r \in Records : Exists(r) /\ r \notin tombstones' =>
    records'[r] # NoRow /\ records'[r].revision \in {records[r].revision, records[r].revision + 1}
EventsStand ==
  \A e \in EventIds : events[e] # NoEvent =>
    \/ events'[e] = events[e]
    \/ events[e].record \in tombstones'
    \/ events[e].related \in tombstones'

LEMMA AppendsOnlyGrow ==
  ASSUME TypeOK, NEW M \in SUBSET Records, NEW id, NEW kind \in EventTypes, NEW other,
         Appends(M, id, kind, other)
  PROVE  RowsAdvance /\ EventsStand
  <1>1. EventsStand
    BY AppendedRows DEF Appended, EventsStand
  <1>2. ASSUME NEW r \in Records, Exists(r)
        PROVE  Exists(r)' /\ records'[r].revision \in {records[r].revision, records[r].revision + 1}
    <2>1. CASE r \in M
      BY <1>2, <2>1 DEF Appends, Observed, Advanced
    <2>2. CASE r \notin M
      BY <1>2, <2>2 DEF Appends
    <2> QED BY <2>1, <2>2
  <1> QED BY <1>1, <1>2 DEF RowsAdvance, Exists

LEMMA EraseOnlyGrows ==
  ASSUME TypeOK, NEW e, NEW r \in Records, NEW rev, Erase(e, r, rev)
  PROVE  RowsAdvance /\ EventsStand
  <1>1. r \in tombstones'
    BY DEF Erase
  <1>2. EventsStand
    BY <1>1 DEF EventsStand, Erase, EventsWithout
  <1>3. ASSUME NEW q \in Records, Exists(q), q # r
        PROVE  records'[q] # NoRow /\ records'[q].revision = records[q].revision
    <2>1. records'[q] = Unlinked(records[q], {r})
      BY <1>3 DEF Erase
    <2>2. records[q] \in Row \cup {NoRow} /\ records[q] # NoRow
      BY <1>3 DEF TypeOK, Exists
    <2> QED BY <2>1, <2>2, UnlinkedKeepsMarker, UnlinkedKeepsStage
  <1> QED BY <1>1, <1>2, <1>3 DEF RowsAdvance

LEMMA LoggedOnlyGrows ==
  ASSUME TypeOK, Logged
  PROVE  RowsAdvance /\ EventsStand
  <1>1. ASSUME UNCHANGED <<records, payloads, events, receipts>>
        PROVE  RowsAdvance /\ EventsStand
    BY <1>1 DEF RowsAdvance, EventsStand, Exists
  <1>2. "forgotten" \in EventTypes
    BY DEF EventTypes
  <1> QED BY <1>1, <1>2, AppendsOnlyGrow, EraseOnlyGrows DEF Logged, Grows, Withdraws

(* PurgeIsFinal, for one step and one completed purge.                      *)
PurgeStands(o) ==
  /\ purges'[o] = purges[o]
  /\ \A r \in Records : receipts'[<<o, r>>] # NoRecord => receipts[<<o, r>>] # NoRecord

LEMMA ForgetAllLeavesPurge ==
  ASSUME NEW V \in SUBSET Records, NEW id, NEW at, ForgetAll(V, id, at), NEW o \in Operations,
         \A r \in V, q \in Records : id[r] # <<o, q>>, purges'[o] = purges[o]
  PROVE  PurgeStands(o)
  <1>1. ASSUME NEW q \in Records PROVE receipts'[<<o, q>>] = receipts[<<o, q>>]
    <2>1. <<o, q>> \in EventIds /\ ~\E r \in V : id[r] = <<o, q>>
      BY DEF EventIds, PurgeIds
    <2> QED BY <2>1 DEF ForgetAll
  <1> QED BY <1>1 DEF PurgeStands

LEMMA ForgetOneLeavesPurge ==
  ASSUME NEW e \in CommandIds, NEW r \in Records, NEW at, ForgetAll({r}, [q \in {r} |-> e], at),
         NEW o \in Operations, purges' = purges
  PROVE  PurgeStands(o)
  <1> DEFINE V == {r}
             id == [q \in {r} |-> e]
  <1>1. V \in SUBSET Records /\ ForgetAll(V, id, at)
        /\ \A p \in V, q \in Records : id[p] # <<o, q>>
    BY HostIdentifiers
  <1> HIDE DEF V, id
  <1> QED BY <1>1, ForgetAllLeavesPurge

LEMMA ScopeCommandsLeavePurge ==
  ASSUME TypeOK, ScopeCommand, NEW o \in Operations, purges[o].done
  PROVE  PurgeStands(o)
  <1>1. ASSUME NEW s \in Sources, NEW at, ForgetBySource(s, at)
        PROVE  PurgeStands(o)
    <2> DEFINE V == {r \in Records : <<s, r>> \in sources}
               id == [r \in V |-> <<s, r>>]
    <2>1. /\ V \in SUBSET Records /\ ForgetAll(V, id, at) /\ purges' = purges
          /\ \A r \in V, q \in Records : id[r] # <<o, q>>
      BY <1>1, DistinctEventIds DEF ForgetBySource
    <2> HIDE DEF V, id
    <2> QED BY <2>1, ForgetAllLeavesPurge
  <1>2. ASSUME NEW p \in Operations, NEW at, PurgePayloads(p, at)
        PROVE  PurgeStands(o)
    <2> DEFINE id == [r \in payloads |-> <<p, r>>]
    <2>1. p # o /\ payloads \in SUBSET Records
      BY <1>2 DEF PurgePayloads, PurgePending, TypeOK
    <2>2. /\ ForgetAll(payloads, id, at)
          /\ \A r \in payloads, q \in Records : id[r] # <<o, q>>
      BY <1>2, <2>1 DEF PurgePayloads
    <2>3. purges'[o] = purges[o]
      BY <1>2, <2>1 DEF PurgePayloads, TypeOK
    <2> HIDE DEF id
    <2> QED BY <2>1, <2>2, <2>3, ForgetAllLeavesPurge
  <1> QED BY <1>1, <1>2 DEF ScopeCommand

LEMMA StepsLeavePurge ==
  ASSUME TypeOK, [Next]_vars, NEW o \in Operations, purges[o].done
  PROVE  PurgeStands(o)
  <1>1. ASSUME UNCHANGED <<receipts, purges>> PROVE PurgeStands(o)
    BY <1>1 DEF PurgeStands
  <1>2. ASSUME NEW e \in CommandIds, NEW r \in Records, RawCommand(e, r)
        PROVE  PurgeStands(o)
    <2>1. ASSUME NEW rev, NEW type, NEW at, Command(e, r, rev, type, at) PROVE PurgeStands(o)
      BY <1>1, <2>1 DEF Command
    <2>2. ASSUME NEW q, NEW rev, NEW qrev, NEW at, Supersede(e, r, q, rev, qrev, at)
          PROVE  PurgeStands(o)
      BY <1>1, <2>2 DEF Supersede
    <2>3. ASSUME NEW rev, NEW at, Forget(e, r, rev, at) PROVE PurgeStands(o)
      BY <2>3, ForgetOneLeavesPurge DEF Forget
    <2>4. ASSUME NEW rev, Erase(e, r, rev) PROVE PurgeStands(o)
      <3>1. \A f \in EventIds : receipts'[f] # NoRecord => receipts[f] # NoRecord
        BY <2>4 DEF Erase
      <3>2. \A q \in Records : <<o, q>> \in EventIds
        BY DEF EventIds, PurgeIds
      <3> QED BY <2>4, <3>1, <3>2 DEF Erase, PurgeStands
    <2>5. ASSUME NEW s, NEW origin, NEW from, NEW until, NEW at,
                 CreateCandidate(e, r, s, origin, from, until, at)
          PROVE  PurgeStands(o)
      BY <1>1, <2>5 DEF CreateCandidate
    <2> QED BY <1>2, <2>1, <2>2, <2>3, <2>4, <2>5
            DEF RawCommand, Confirm, Quarantine, Expire, Retract
  <1>3. ASSUME NEW e \in CommandIds, NEW r \in Records, Admission(e, r)
        PROVE  PurgeStands(o)
    BY <1>1, <1>3, ForgetOneLeavesPurge DEF Admission, ApplyAdmissionReview
  <1>4. CASE CheckpointCommand
    BY <1>1, <1>4 DEF CheckpointCommand, CreateCheckpoint, InvalidateCheckpoint
  <1>5. CASE UNCHANGED vars
    BY <1>1, <1>5 DEF vars
  <1> QED BY <1>2, <1>3, <1>4, <1>5, ScopeCommandsLeavePurge DEF Next

LEMMA SpentHolds == Spec => []SpentInv
  <1>1. Init => SpentInv
    BY DEF Init, SpentInv, Gone, ReceiptsBesideEvents, DerivedSpentOnce, Unspent,
           EventIds, RevocationIds, PurgeIds
  <1> QED BY <1>1, SpentInductive, Typing, RevocationHolds, PTL DEF Spec

(* A command or a purge that is retried, however late, finds its identifier *)
(* spent and rewrites neither the log nor a row nor the purge's receipts.   *)
THEOREM RetriesAreHarmless == Spec => RetriesChangeNothing
  <1>1. TypeOK /\ RevokedSourcesAreEmpty /\ SpentInv /\ [Next]_vars =>
          [RowsAdvance /\ EventsStand]_vars
    BY StepsAreLogged, LoggedOnlyGrows
  <1>2. TypeOK /\ [Next]_vars =>
          [\A o \in Operations : purges[o].done => PurgeStands(o)]_vars
    BY StepsLeavePurge
  <1>3. Spec => HistoryOnlyGrows
    BY <1>1, SpentHolds, Typing, RevocationHolds, PTL
       DEF Spec, HistoryOnlyGrows, RowsAdvance, EventsStand
  <1>4. Spec => PurgeIsFinal
    BY <1>2, Typing, PTL DEF Spec, PurgeIsFinal, PurgeStands
  <1> QED BY <1>3, <1>4, IdentifiersAreSpentForever DEF RetriesChangeNothing

-----------------------------------------------------------------------------
(* Forgotten records.                                                       *)

(* Plaintext is gone exactly when the log says so, and each forget event    *)
(* has its receipt.                                                         *)
PlaintextFollowsLog == \A r \in Records : Exists(r) => (WasForgotten(r) <=> r \notin payloads)
ForgetsHaveReceipts ==
  \A e \in EventIds : receipts[e] # NoRecord <=>
    events[e] # NoEvent /\ events[e].type = "forgotten"

ForgetInv == PlaintextFollowsLog /\ ForgetsHaveReceipts

LEMMA GrowingKeepsForgets ==
  ASSUME TypeOK, LogNamesStored, ForgetInv, NEW M \in SUBSET Records, NEW id,
         NEW kind \in EventTypes, NEW other, Grows(M, id, kind, other)
  PROVE  ForgetInv'
  <1>1. Appends(M, id, kind, other) /\ kind # "forgotten" /\ receipts' = receipts
    BY DEF Grows
  <1>2. ForgetsHaveReceipts'
    <2> SUFFICES ASSUME NEW e \in EventIds
                 PROVE  receipts'[e] # NoRecord <=>
                          events'[e] # NoEvent /\ events'[e].type = "forgotten"
      BY DEF ForgetsHaveReceipts
    <2>1. CASE \E r \in M : id[r] = e
      <3>1. PICK r \in M : id[r] = e
        BY <2>1
      <3>2. receipts[e] = NoRecord
        BY <1>1, <3>1 DEF Appends, Unspent
      <3>3. events'[e].type = kind
        BY <1>1, <3>1, AppendedRows DEF Appended
      <3> QED BY <1>1, <3>2, <3>3
    <2>2. CASE ~\E r \in M : id[r] = e
      BY <1>1, <2>2 DEF Appends, ForgetInv, ForgetsHaveReceipts
    <2> QED BY <2>1, <2>2
  <1>3. PlaintextFollowsLog'
    <2> SUFFICES ASSUME NEW r \in Records, Exists(r)'
                 PROVE  WasForgotten(r)' <=> r \notin payloads'
      BY DEF PlaintextFollowsLog
    <2>1. WasForgotten(r)' <=> WasForgotten(r)
      <3>1. EventsOf(r) \subseteq EventsOf(r)' /\ \A e \in EventsOf(r) : events'[e] = events[e]
        BY <1>1, AppendedRows DEF Appended, EventsOf
      <3>2. ASSUME NEW e \in EventsOf(r)' PROVE e \in EventsOf(r) \/ events'[e].type = kind
        <4>1. Appended(M, id, kind, other)
          BY <1>1, AppendedRows, Zenon
        <4> QED BY <3>2, <4>1 DEF Appended
      <3>3. WasForgotten(r) => WasForgotten(r)'
        BY <3>1, Zenon DEF WasForgotten
      <3>4. WasForgotten(r)' => WasForgotten(r)
        <4> SUFFICES ASSUME NEW e \in EventsOf(r)', events'[e].type = "forgotten"
                     PROVE  WasForgotten(r)
          BY Zenon DEF WasForgotten
        <4>1. e \in EventsOf(r)
          BY <1>1, <3>2, Zenon
        <4>2. events[e].type = "forgotten"
          BY <3>1, <4>1, Zenon
        <4> QED BY <4>1, <4>2, Zenon DEF WasForgotten
      <3> QED BY <3>3, <3>4
    <2>2. CASE Exists(r)
      <3>1. r \in payloads' <=> r \in payloads
        BY <2>2, <1>1 DEF Grows, Appends, Advanced, Observed
      <3> QED BY <2>1, <2>2, <3>1 DEF ForgetInv, PlaintextFollowsLog
    <2>3. CASE ~Exists(r)
      <3>1. r \in M /\ kind = "observed"
        BY <1>1, <2>3 DEF Appends, Advanced
      <3>2. ~WasForgotten(r)
        BY <2>3 DEF LogNamesStored, WasForgotten, EventsOf
      <3> QED BY <2>1, <3>1, <3>2 DEF Grows
    <2> QED BY <2>2, <2>3
  <1> QED BY <1>2, <1>3 DEF ForgetInv

LEMMA WithdrawalKeepsForgets ==
  ASSUME TypeOK, ForgetInv, NEW V \in SUBSET Records, NEW id, Withdraws(V, id)
  PROVE  ForgetInv'
  <1>1. Appends(V, id, "forgotten", NoRecord) /\ "forgotten" \in EventTypes
    BY DEF Withdraws, EventTypes
  <1>2. \A r \in V : /\ id[r] \in EventsOf(r)' /\ events'[id[r]].type = "forgotten"
                      /\ receipts'[id[r]] = r
    BY <1>1, AppendedRows DEF Appended, Withdraws
  <1>3. ForgetsHaveReceipts'
    <2> SUFFICES ASSUME NEW e \in EventIds
                 PROVE  receipts'[e] # NoRecord <=>
                          events'[e] # NoEvent /\ events'[e].type = "forgotten"
      BY DEF ForgetsHaveReceipts
    <2>1. CASE \E r \in V : id[r] = e
      BY <1>2, <2>1, LedgerConstants DEF EventsOf
    <2>2. CASE ~\E r \in V : id[r] = e
      BY <1>1, <2>2 DEF Withdraws, Appends, ForgetInv, ForgetsHaveReceipts
    <2> QED BY <2>1, <2>2
  <1>4. PlaintextFollowsLog'
    <2> SUFFICES ASSUME NEW r \in Records, Exists(r)'
                 PROVE  WasForgotten(r)' <=> r \notin payloads'
      BY DEF PlaintextFollowsLog
    <2>1. CASE r \in V
      BY <1>2, <2>1 DEF Withdraws, WasForgotten
    <2>2. CASE r \notin V
      <3>1. Exists(r) /\ (r \in payloads' <=> r \in payloads)
        BY <1>1, <2>2 DEF Appends, Withdraws
      <3>2. WasForgotten(r)' <=> WasForgotten(r)
        BY <1>1, <2>2, AppendedRows DEF Appended, WasForgotten, EventsOf
      <3> QED BY <3>1, <3>2 DEF ForgetInv, PlaintextFollowsLog
    <2> QED BY <2>1, <2>2
  <1> QED BY <1>3, <1>4 DEF ForgetInv

LEMMA EraseKeepsForgets ==
  ASSUME TypeOK, ReceiptsBesideEvents, ForgetInv, NEW e, NEW r \in Records, NEW rev,
         Erase(e, r, rev)
  PROVE  ForgetInv'
  <1>1. ASSUME NEW f \in EventIds, events[f] # NoEvent, events[f].record # r
        PROVE  /\ events'[f] # NoEvent /\ events'[f].record = events[f].record
               /\ events'[f].type = events[f].type
    <2>1. events[f] \in Event
      BY <1>1 DEF TypeOK
    <2>2. /\ [events[f] EXCEPT !.related = NoRecord] # NoEvent
          /\ [events[f] EXCEPT !.related = NoRecord].record = events[f].record
          /\ [events[f] EXCEPT !.related = NoRecord].type = events[f].type
      BY <2>1 DEF Event, NoEvent
    <2> QED BY <1>1, <2>2 DEF Erase, EventsWithout
  <1>2. ASSUME NEW f \in EventIds, events[f] = NoEvent \/ events[f].record = r
        PROVE  events'[f] = NoEvent
    BY <1>2 DEF Erase, EventsWithout
  <1>3. ForgetsHaveReceipts'
    <2> SUFFICES ASSUME NEW f \in EventIds
                 PROVE  receipts'[f] # NoRecord <=>
                          events'[f] # NoEvent /\ events'[f].type = "forgotten"
      BY DEF ForgetsHaveReceipts
    <2>1. receipts'[f] = IF receipts[f] = r THEN NoRecord ELSE receipts[f]
      BY DEF Erase
    <2>2. receipts[f] # NoRecord => events[f] # NoEvent /\ events[f].record = receipts[f]
      BY DEF ReceiptsBesideEvents
    <2>3. receipts[f] # NoRecord <=> events[f] # NoEvent /\ events[f].type = "forgotten"
      BY DEF ForgetInv, ForgetsHaveReceipts
    <2>4. CASE events[f] = NoEvent \/ events[f].record = r
      BY <1>2, <2>1, <2>2, <2>4
    <2>5. CASE events[f] # NoEvent /\ events[f].record # r
      BY <1>1, <2>1, <2>2, <2>3, <2>5
    <2> QED BY <2>4, <2>5
  <1>4. PlaintextFollowsLog'
    <2> SUFFICES ASSUME NEW q \in Records, Exists(q)'
                 PROVE  WasForgotten(q)' <=> q \notin payloads'
      BY DEF PlaintextFollowsLog
    <2>1. q # r /\ Exists(q)
      <3>1. q # r /\ records'[q] = Unlinked(records[q], {r})
        BY DEF Erase, Exists
      <3> QED BY <3>1, UnlinkedKeepsStage DEF TypeOK, Exists
    <2>2. WasForgotten(q)' <=> WasForgotten(q)
      BY <1>1, <1>2, <2>1 DEF WasForgotten, EventsOf
    <2>3. q \in payloads' <=> q \in payloads
      BY <2>1 DEF Erase
    <2> QED BY <2>1, <2>2, <2>3 DEF ForgetInv, PlaintextFollowsLog
  <1> QED BY <1>3, <1>4 DEF ForgetInv

LEMMA ForgetsInductive ==
  TypeOK /\ RevokedSourcesAreEmpty /\ SpentInv /\ LogInv /\ ForgetInv /\ [Next]_vars => ForgetInv'
  <1> SUFFICES ASSUME TypeOK, RevokedSourcesAreEmpty, SpentInv, LogInv, ForgetInv, [Next]_vars
               PROVE  ForgetInv'
    OBVIOUS
  <1>1. Logged
    BY StepsAreLogged
  <1>2. LogNamesStored /\ ReceiptsBesideEvents
    BY DEF LogInv, HistoryInv, SpentInv
  <1>3. CASE UNCHANGED <<records, payloads, events, receipts>>
    BY <1>3 DEF ForgetInv, PlaintextFollowsLog, ForgetsHaveReceipts, WasForgotten, EventsOf, Exists
  <1> QED BY <1>1, <1>2, <1>3, GrowingKeepsForgets, WithdrawalKeepsForgets, EraseKeepsForgets
          DEF Logged

-----------------------------------------------------------------------------
(* Sources, relations, links and selections name records with plaintext     *)
(* only, so withdrawing the plaintext of a record leaves nothing behind.    *)

NamesHavePayloads ==
  /\ \A x \in sources : x[2] \in payloads
  /\ \A x \in relations : x[1] \in payloads /\ x[2] \in payloads
  /\ \A q \in Records : Exists(q) => records[q].supersededBy \in payloads \cup {NoRecord}
  /\ \A c \in Checkpoints : \A m \in checkpoints[c].selections : m[1] \in payloads

LEMMA WithdrawalKeepsNames ==
  ASSUME TypeOK, OnlyActiveSelect, NamesHavePayloads, NEW V,
         payloads' = payloads \ V, sources' = SourcesWithout(V), relations' = RelationsWithout(V),
         checkpoints' = CheckpointsWithout(V),
         \A q \in Records : Exists(q)' =>
           \/ records'[q].supersededBy = NoRecord
           \/ /\ Exists(q) /\ records'[q].supersededBy = records[q].supersededBy
              /\ records[q].supersededBy \notin V
  PROVE  NamesHavePayloads'
  <1>1. \A c \in Checkpoints : \A m \in checkpoints'[c].selections : m[1] \in payloads'
    BY DEF NamesHavePayloads, OnlyActiveSelect, CheckpointsWithout, Invalidated
  <1>2. \A x \in relations' : x[1] \in payloads' /\ x[2] \in payloads'
    BY DEF NamesHavePayloads, RelationsWithout
  <1>3. \A x \in sources' : x[2] \in payloads'
    BY DEF NamesHavePayloads, SourcesWithout
  <1>4. \A q \in Records : Exists(q)' => records'[q].supersededBy \in payloads' \cup {NoRecord}
    BY DEF NamesHavePayloads
  <1> QED BY <1>1, <1>2, <1>3, <1>4 DEF NamesHavePayloads

LEMMA CutLinks ==
  ASSUME TypeOK, NEW q \in Records, NEW V, records'[q] = Unlinked(records[q], V), Exists(q)'
  PROVE  \/ records'[q].supersededBy = NoRecord
         \/ /\ Exists(q) /\ records'[q].supersededBy = records[q].supersededBy
            /\ records[q].supersededBy \notin V
  <1>1. Exists(q)
    BY UnlinkedKeepsStage DEF TypeOK, Exists
  <1>2. records[q] \in Row /\ records[q] # NoRow
    BY <1>1, RowOfExisting DEF Exists
  <1>3. CASE records[q].supersededBy \in V
    BY <1>2, <1>3 DEF Unlinked, Row
  <1>4. CASE records[q].supersededBy \notin V
    BY <1>1, <1>4 DEF Unlinked
  <1> QED BY <1>3, <1>4

LEMMA ForgetAllKeepsNames ==
  ASSUME TypeOK, OnlyActiveSelect, NamesHavePayloads, NEW V \in SUBSET Records, NEW id, NEW at,
         ForgetAll(V, id, at)
  PROVE  NamesHavePayloads'
  <1>1. ASSUME NEW q \in V PROVE records'[q].supersededBy = NoRecord
    <2>1. records[q] \in Row
      BY RowOfExisting DEF ForgetAll, TransitionAllowed
    <2>2. records'[q] = ForgottenRow(records[q], at)
      BY DEF ForgetAll
    <2> QED BY <2>1, <2>2 DEF ForgottenRow, Moved, Row
  <1>2. \A q \in Records \ V : records'[q] = Unlinked(records[q], V)
    BY DEF ForgetAll
  <1>3. \A q \in Records : Exists(q)' =>
           \/ records'[q].supersededBy = NoRecord
           \/ /\ Exists(q) /\ records'[q].supersededBy = records[q].supersededBy
              /\ records[q].supersededBy \notin V
    BY <1>1, <1>2, CutLinks
  <1> QED BY <1>3, WithdrawalKeepsNames DEF ForgetAll

LEMMA EraseKeepsNames ==
  ASSUME TypeOK, OnlyActiveSelect, NamesHavePayloads, NEW e, NEW r \in Records, NEW rev,
         Erase(e, r, rev)
  PROVE  NamesHavePayloads'
  <1>1. ~Exists(r)' /\ \A q \in Records \ {r} : records'[q] = Unlinked(records[q], {r})
    BY DEF Erase, Exists
  <1>2. \A q \in Records : Exists(q)' =>
           \/ records'[q].supersededBy = NoRecord
           \/ /\ Exists(q) /\ records'[q].supersededBy = records[q].supersededBy
              /\ records[q].supersededBy \notin {r}
    BY <1>1, CutLinks
  <1> QED BY <1>2, WithdrawalKeepsNames DEF Erase

(* A transition that is no forget keeps the plaintext, and a new link leads *)
(* from a record with plaintext to one.                                     *)
LEMMA TransitionKeepsNames ==
  ASSUME TypeOK, OnlyActiveSelect, NamesHavePayloads, NEW e, NEW r \in Records, NEW type,
         NEW at, NEW other, Transition(e, r, type, at, other),
         type = "superseded" => r \in payloads /\ other \in payloads,
         payloads' = payloads, sources' = sources,
         relations' = IF type = "superseded" THEN relations \cup {<<other, r>>} ELSE relations
  PROVE  NamesHavePayloads'
  <1>1. Exists(r) /\ records[r] \in Row /\ checkpoints' = CheckpointsWithout({r})
    BY RowOfExisting DEF Transition, TransitionAllowed
  <1>2. records'[r].supersededBy = IF type = "superseded" THEN other ELSE records[r].supersededBy
    BY <1>1 DEF Transition, Moved, Row, TypeOK
  <1>3. \A q \in Records \ {r} : records'[q] = records[q]
    BY DEF Transition, TypeOK
  <1>4. \A q \in Records : Exists(q)' => records'[q].supersededBy \in payloads' \cup {NoRecord}
    BY <1>1, <1>2, <1>3 DEF NamesHavePayloads, Exists
  <1>5. \A c \in Checkpoints : \A m \in checkpoints'[c].selections : m[1] \in payloads'
    BY <1>1 DEF NamesHavePayloads, CheckpointsWithout, Invalidated
  <1>6. \A x \in relations' : x[1] \in payloads' /\ x[2] \in payloads'
    BY DEF NamesHavePayloads
  <1> QED BY <1>4, <1>5, <1>6 DEF NamesHavePayloads

LEMMA NamesInductive ==
  TypeOK /\ PayloadsFollowRows /\ OnlyActiveSelect /\ NamesHavePayloads /\ [Next]_vars =>
    NamesHavePayloads'
  <1> SUFFICES ASSUME TypeOK, PayloadsFollowRows, OnlyActiveSelect, NamesHavePayloads, [Next]_vars
               PROVE  NamesHavePayloads'
    OBVIOUS
  <1>1. ASSUME NEW e \in CommandIds, NEW r \in Records, RawCommand(e, r)
        PROVE  NamesHavePayloads'
    <2>1. ASSUME NEW s, NEW origin, NEW from, NEW until, NEW at,
                 CreateCandidate(e, r, s, origin, from, until, at)
          PROVE  NamesHavePayloads'
      <3>1. /\ records'[r].supersededBy = NoRecord
            /\ \A q \in Records \ {r} : records'[q] = records[q]
            /\ payloads' = payloads \cup {r} /\ sources' = sources \cup {<<s, r>>}
            /\ UNCHANGED <<relations, checkpoints>>
        BY <2>1 DEF CreateCandidate, TypeOK
      <3>2. \A q \in Records : Exists(q)' => records'[q].supersededBy \in payloads' \cup {NoRecord}
        BY <3>1 DEF NamesHavePayloads, Exists
      <3> QED BY <3>1, <3>2 DEF NamesHavePayloads
    <2>2. ASSUME NEW rev, NEW type, type # "superseded", NEW at, Command(e, r, rev, type, at)
          PROVE  NamesHavePayloads'
      BY <2>2, TransitionKeepsNames DEF Command
    <2>3. ASSUME NEW q \in Records, NEW rev, NEW qrev, NEW at,
                 Supersede(e, r, q, rev, qrev, at)
          PROVE  NamesHavePayloads'
      <3>1. Transition(e, r, "superseded", at, q) /\ relations' = relations \cup {<<q, r>>}
            /\ payloads' = payloads /\ sources' = sources
        BY <2>3 DEF Supersede
      <3>2. q \in payloads
        BY <2>3 DEF Supersede, ReplacementAccepted, Recallable
      <3>3. r \in payloads
        BY <3>1 DEF PayloadsFollowRows, Transition, TransitionAllowed, AllowedFrom
      <3> QED BY <3>1, <3>2, <3>3, TransitionKeepsNames
    <2>4. ASSUME NEW rev, NEW at, Forget(e, r, rev, at) PROVE NamesHavePayloads'
      BY <2>4, ForgetAllKeepsNames DEF Forget
    <2>5. ASSUME NEW rev, Erase(e, r, rev) PROVE NamesHavePayloads'
      BY <2>5, EraseKeepsNames
    <2> QED BY <1>1, <2>1, <2>2, <2>3, <2>4, <2>5
            DEF RawCommand, Confirm, Quarantine, Expire, Retract
  <1>2. ASSUME NEW e \in CommandIds, NEW r \in Records, Admission(e, r)
        PROVE  NamesHavePayloads'
    <2>1. PICK rev \in Revisions, origin \in ConcreteOrigins, action \in Actions,
               at \in Instants, ledgerNow \in Instants :
               ApplyAdmissionReview(e, r, rev, origin, action, at, ledgerNow)
      BY <1>2 DEF Admission
    <2>2. CASE action = "reject"
      BY <2>1, <2>2, ForgetAllKeepsNames DEF ApplyAdmissionReview
    <2>3. CASE action # "reject"
      <3>1. AdmissionEvent[action] # "superseded"
        BY DEF AdmissionEvent, Actions
      <3> QED BY <2>1, <2>3, <3>1, TransitionKeepsNames DEF ApplyAdmissionReview
    <2> QED BY <2>2, <2>3
  <1>3. ASSUME ScopeCommand PROVE NamesHavePayloads'
    <2>1. ASSUME NEW s, NEW at, ForgetBySource(s, at) PROVE NamesHavePayloads'
      BY <2>1, ForgetAllKeepsNames DEF ForgetBySource
    <2>2. ASSUME NEW o, NEW at, PurgePayloads(o, at) PROVE NamesHavePayloads'
      BY <2>2, ForgetAllKeepsNames DEF PurgePayloads, TypeOK
    <2> QED BY <1>3, <2>1, <2>2 DEF ScopeCommand
  <1>4. ASSUME CheckpointCommand PROVE NamesHavePayloads'
    <2>1. UNCHANGED <<records, payloads, sources, relations>>
      BY <1>4 DEF CheckpointCommand, CreateCheckpoint, InvalidateCheckpoint
    <2>2. ASSUME NEW c \in Checkpoints, NEW at, NEW S \in SUBSET Markers(at),
                 CreateCheckpoint(c, S, at)
          PROVE  NamesHavePayloads'
      <3>1. \A m \in S : m[1] \in payloads
        BY DEF Markers, Marker, ListActive, Recallable
      <3> QED BY <2>1, <2>2, <3>1 DEF CreateCheckpoint, NamesHavePayloads, Exists, TypeOK
    <2>3. ASSUME NEW c \in Checkpoints, InvalidateCheckpoint(c)
          PROVE  NamesHavePayloads'
      BY <2>1, <2>3 DEF InvalidateCheckpoint, Invalidated, NamesHavePayloads, Exists, TypeOK
    <2> QED BY <1>4, <2>2, <2>3 DEF CheckpointCommand
  <1>5. CASE UNCHANGED vars
    BY <1>5 DEF vars, NamesHavePayloads, Exists
  <1> QED BY <1>1, <1>2, <1>3, <1>4, <1>5 DEF Next

-----------------------------------------------------------------------------
(* After forget, a rejection, a purge or a revocation no table can bring    *)
(* the text of the record back, and plaintext goes only with a receipt.     *)
THEOREM ForgettingIsComplete == Spec => []ForgottenLeavesNothing
  <1>1. Init => ForgetInv /\ TraceInv /\ NamesHavePayloads
    <2> SUFFICES ASSUME Init PROVE ForgetInv /\ TraceInv /\ NamesHavePayloads
      OBVIOUS
    <2>1. ForgetInv
      BY DEF Init, ForgetInv, PlaintextFollowsLog, ForgetsHaveReceipts, Exists
    <2>2. TraceInv /\ NamesHavePayloads
      BY DEF Init, TraceInv, OnlyActiveSelect, UnusedCheckpoint, NamesHavePayloads, Exists
    <2> QED BY <2>1, <2>2
  <1>2. TraceInv => OnlyActiveSelect
    BY DEF TraceInv
  <1>3. TypeOK /\ PayloadsFollowRows /\ SpentInv /\ ForgetInv /\ NamesHavePayloads =>
          ForgottenLeavesNothing
    <2> SUFFICES ASSUME TypeOK, PayloadsFollowRows, SpentInv, ForgetInv, NamesHavePayloads,
                        NEW r \in Records, Exists(r)
                 PROVE  /\ WasForgotten(r) <=> r \notin payloads
                        /\ WasForgotten(r) =>
                             /\ records[r].state = "retracted"
                             /\ \A x \in sources : x[2] # r
                             /\ \A x \in relations : r # x[1] /\ r # x[2]
                             /\ \A q \in Records : Exists(q) => records[q].supersededBy # r
                             /\ \A c \in Checkpoints : \A m \in checkpoints[c].selections : m[1] # r
                        /\ \A e \in EventIds : receipts[e] = r <=>
                             e \in EventsOf(r) /\ events[e].type = "forgotten"
      BY DEF ForgottenLeavesNothing
    <2>1. WasForgotten(r) <=> r \notin payloads
      BY DEF ForgetInv, PlaintextFollowsLog
    <2>2. ASSUME r \notin payloads
          PROVE  /\ records[r].state = "retracted"
                 /\ \A x \in sources : x[2] # r
                 /\ \A x \in relations : r # x[1] /\ r # x[2]
                 /\ \A q \in Records : Exists(q) => records[q].supersededBy # r
                 /\ \A c \in Checkpoints : \A m \in checkpoints[c].selections : m[1] # r
      BY <2>2, LedgerConstants DEF PayloadsFollowRows, NamesHavePayloads
    <2>3. ASSUME NEW e \in EventIds
          PROVE  receipts[e] = r <=> e \in EventsOf(r) /\ events[e].type = "forgotten"
      BY LedgerConstants DEF ForgetInv, ForgetsHaveReceipts, SpentInv, ReceiptsBesideEvents, EventsOf
    <2> QED BY <2>1, <2>2, <2>3
  <1> QED BY <1>1, <1>2, <1>3, ForgetsInductive, NamesInductive, TraceInductive, SpentHolds,
             LogHolds, Typing, RevocationHolds, PayloadsAlwaysFollowRows, PTL DEF Spec

(* The three as the runs check them: what a forget, an erasure or the       *)
(* revocation of a source takes away is gone from every table for good.     *)
THEOREM ErasureHolds == Spec => []NothingOutlivesErasure
  BY ForgettingIsComplete, ErasureLeavesNoTrace, RevocationHolds, PTL DEF NothingOutlivesErasure

(***************************************************************************)
(* The programs that use the ledger over several transactions: the review  *)
(* gates (AdmissionGate), expire_due (LedgerExpiry) and the recall planner *)
(* (RecallPlanner).  Each keeps what it read of a record while any other   *)
(* command runs; what it may still conclude rests on one lemma about every *)
(* command, StepsMoveRows: a stored row is left alone, moves on to the     *)
(* next revision, or is erased for good.                                   *)
(*                                                                         *)
(* Each of these programs takes ledger steps only, so what is proved of    *)
(* the ledger holds beside it (the theorems named ...IsLedger).            *)
(***************************************************************************)
(* A command of any host.  Next offers the expected revisions Revisions     *)
(* only; a gate and a scan expect the revision they have read, whatever it  *)
(* is.                                                                      *)
HostCommand(e, r) ==
  \/ \E s \in Sources, origin \in Origins, from \in Starts \cup {Unset},
        until \in Deadlines \cup {Unset}, at \in Instants :
        CreateCandidate(e, r, s, origin, from, until, at)
  \/ \E rev \in Nat, at \in Instants, type \in EventTypes \ {"observed", "superseded", "forgotten"} :
        Command(e, r, rev, type, at)
  \/ \E q \in Records, rev \in Nat, qrev \in Nat, at \in Instants :
        Supersede(e, r, q, rev, qrev, at)
  \/ \E rev \in Nat, at \in Instants : Forget(e, r, rev, at)
  \/ \E rev \in Nat : Erase(e, r, rev)

HostVerdict(e, r) ==
  \E rev \in Nat, origin \in ConcreteOrigins, action \in Actions,
     at \in Instants, ledgerNow \in Instants :
     ApplyAdmissionReview(e, r, rev, origin, action, at, ledgerNow)

HostStep ==
  \/ \E e \in CommandIds, r \in Records : HostCommand(e, r) \/ HostVerdict(e, r)
  \/ ScopeCommand
  \/ CheckpointCommand

LEMMA RawCommandIsHosts ==
  ASSUME NEW e \in CommandIds, NEW r \in Records, RawCommand(e, r)
  PROVE  HostCommand(e, r)
  <1>1. Revisions \subseteq Nat
    BY LedgerConstants
  <1>2. \A type \in {"confirmed", "quarantined", "expired", "retracted"} :
          type \in EventTypes \ {"observed", "superseded", "forgotten"}
    BY DEF EventTypes
  <1> QED BY <1>1, <1>2 DEF RawCommand, HostCommand, Confirm, Quarantine, Expire, Retract

LEMMA AdmissionIsHosts ==
  ASSUME NEW e \in CommandIds, NEW r \in Records, Admission(e, r)
  PROVE  HostVerdict(e, r)
  BY LedgerConstants DEF Admission, HostVerdict

LEMMA NextIsHosts == Next => HostStep
  BY RawCommandIsHosts, AdmissionIsHosts DEF Next, HostStep

(* A host that may expect any revision takes the steps of Next only.        *)
LEMMA HostStepIsNext ==
  ASSUME Nat \subseteq Revisions, NEW e \in CommandIds, NEW r \in Records
  PROVE  /\ \A rev \in Nat, at \in Instants : Expire(e, r, rev, at) => Next
         /\ HostVerdict(e, r) => Next
  BY DEF HostVerdict, Next, RawCommand, Admission

-----------------------------------------------------------------------------
(* What a step does to the rows.                                            *)

(* The row stays what it was, but for a link that may be cut.               *)
RowStays(q) ==
  /\ Exists(q)' <=> Exists(q)
  /\ q \in payloads' <=> q \in payloads
  /\ q \in tombstones' <=> q \in tombstones
  /\ Exists(q) => /\ records'[q].state = records[q].state
                  /\ records'[q].trust = records[q].trust
                  /\ records'[q].revision = records[q].revision
                  /\ records'[q].origin = records[q].origin
                  /\ records'[q].until = records[q].until

RowMoves(q) ==
  /\ Exists(q) /\ Exists(q)'
  /\ q \in payloads' => q \in payloads
  /\ q \in tombstones' <=> q \in tombstones
  /\ records'[q].revision = records[q].revision + 1
  /\ records'[q].state # "candidate"
  /\ records[q].trust = "host_confirmed" => records'[q].trust = "host_confirmed"
  /\ records'[q].origin = records[q].origin

RowAppears(q) ==
  /\ ~Exists(q) /\ Exists(q)'
  /\ q \notin tombstones /\ q \notin tombstones'

RowGoes(q) ==
  /\ Exists(q) /\ ~Exists(q)'
  /\ q \in tombstones'
  /\ q \notin payloads'
  /\ \A e \in EventIds : audits'[e] # NoAudit => audits'[e].record # q

RowStep(q) == RowStays(q) \/ RowMoves(q) \/ RowAppears(q) \/ RowGoes(q)

VerdictsStand == \A e \in EventIds : audits'[e] # NoAudit => audits'[e] = audits[e]

(* Cutting the links to some records changes nothing else of a row.         *)
LEMMA UnlinkedRow ==
  ASSUME NEW row \in Row \cup {NoRow}, NEW V
  PROVE  /\ Unlinked(row, V) # NoRow <=> row # NoRow
         /\ row # NoRow => /\ Unlinked(row, V).state = row.state
                           /\ Unlinked(row, V).trust = row.trust
                           /\ Unlinked(row, V).revision = row.revision
                           /\ Unlinked(row, V).origin = row.origin
                           /\ Unlinked(row, V).until = row.until
  <1>1. CASE row = NoRow
    BY <1>1 DEF Unlinked
  <1>2. CASE row # NoRow
    <2>1. row \in Row
      BY <1>2
    <2>2. CASE row.supersededBy \in V
      BY <2>1, <2>2 DEF Unlinked, Row, NoRow
    <2>3. CASE row.supersededBy \notin V
      BY <1>2, <2>3 DEF Unlinked
    <2> QED BY <2>2, <2>3
  <1> QED BY <1>1, <1>2

LEMMA UnlinkedStays ==
  ASSUME TypeOK, NEW q \in Records, NEW V, records'[q] = Unlinked(records[q], V),
         q \in payloads' <=> q \in payloads, q \in tombstones' <=> q \in tombstones
  PROVE  RowStays(q)
  <1>1. records[q] \in Row \cup {NoRow}
    BY DEF TypeOK
  <1> QED BY <1>1, UnlinkedRow DEF RowStays, Exists

LEMMA UntouchedStays ==
  ASSUME NEW q, records'[q] = records[q],
         q \in payloads' <=> q \in payloads, q \in tombstones' <=> q \in tombstones
  PROVE  RowStays(q)
  BY DEF RowStays, Exists

LEMMA MovedRow ==
  ASSUME NEW row \in Row, NEW type \in EventTypes \ {"observed"}, NEW at
  PROVE  /\ Moved(row, type, at).revision = row.revision + 1
         /\ Moved(row, type, at).state = TargetState[type]
         /\ row.trust = "host_confirmed" => Moved(row, type, at).trust = "host_confirmed"
         /\ Moved(row, type, at).origin = row.origin
  BY DEF Moved, Row

LEMMA TransitionMovesRow ==
  ASSUME TypeOK, NEW e, NEW r \in Records, NEW type \in EventTypes \ {"observed"}, NEW at,
         NEW other, Transition(e, r, type, at, other),
         payloads' = payloads, tombstones' = tombstones
  PROVE  /\ RowMoves(r) /\ records'[r].state = TargetState[type]
         /\ \A q \in Records \ {r} : records'[q] = records[q]
         /\ \A q \in Records : RowStep(q)
  <1>1. Exists(r) /\ records[r] \in Row
    BY RowOfExisting DEF Transition, TransitionAllowed
  <1> DEFINE moved == Moved(records[r], type, at)
  <1>2. /\ moved.revision = records[r].revision + 1
        /\ moved.state = TargetState[type]
        /\ records[r].trust = "host_confirmed" => moved.trust = "host_confirmed"
        /\ moved.origin = records[r].origin
    BY <1>1, MovedRow
  <1>3. /\ [moved EXCEPT !.supersededBy = other].revision = moved.revision
        /\ [moved EXCEPT !.supersededBy = other].state = moved.state
        /\ [moved EXCEPT !.supersededBy = other].trust = moved.trust
        /\ [moved EXCEPT !.supersededBy = other].origin = moved.origin
    BY <1>1 DEF Moved, Row
  <1>4. records'[r] = IF type = "superseded" THEN [moved EXCEPT !.supersededBy = other] ELSE moved
    BY DEF Transition, TypeOK
  <1> HIDE DEF moved
  <1>5. TargetState[type] \notin {"candidate", "absent"}
    BY DEF TargetState, EventTypes
  <1>6. /\ records'[r].revision = records[r].revision + 1
        /\ records'[r].state = TargetState[type]
        /\ records[r].trust = "host_confirmed" => records'[r].trust = "host_confirmed"
        /\ records'[r].origin = records[r].origin
    BY <1>2, <1>3, <1>4
  <1>7. RowMoves(r)
    BY <1>1, <1>5, <1>6 DEF RowMoves, Exists, NoRow
  <1>8. \A q \in Records \ {r} : records'[q] = records[q]
    BY DEF Transition, TypeOK
  <1>9. \A q \in Records \ {r} : RowStays(q)
    BY <1>8, UntouchedStays
  <1> QED BY <1>6, <1>7, <1>8, <1>9 DEF RowStep

LEMMA ForgetAllMovesRows ==
  ASSUME TypeOK, NEW V \in SUBSET Records, NEW id, NEW at, ForgetAll(V, id, at),
         tombstones' = tombstones
  PROVE  /\ \A q \in Records : RowStep(q)
         /\ \A q \in V : records'[q].state = "retracted"
  <1>1. ASSUME NEW q \in V PROVE RowMoves(q) /\ records'[q].state = "retracted"
    <2>1. Exists(q) /\ records[q] \in Row
      BY RowOfExisting DEF ForgetAll, TransitionAllowed
    <2> DEFINE moved == Moved(records[q], "forgotten", at)
    <2>2. /\ moved.revision = records[q].revision + 1
          /\ moved.state = "retracted"
          /\ records[q].trust = "host_confirmed" => moved.trust = "host_confirmed"
          /\ moved.origin = records[q].origin
      BY <2>1, MovedRow DEF EventTypes, TargetState
    <2>3. /\ [moved EXCEPT !.supersededBy = NoRecord].revision = moved.revision
          /\ [moved EXCEPT !.supersededBy = NoRecord].state = moved.state
          /\ [moved EXCEPT !.supersededBy = NoRecord].trust = moved.trust
          /\ [moved EXCEPT !.supersededBy = NoRecord].origin = moved.origin
      BY <2>1 DEF Moved, Row
    <2>4. records'[q] = [moved EXCEPT !.supersededBy = NoRecord]
      BY DEF ForgetAll, ForgottenRow
    <2> HIDE DEF moved
    <2>5. /\ records'[q].revision = records[q].revision + 1
          /\ records'[q].state = "retracted"
          /\ records[q].trust = "host_confirmed" => records'[q].trust = "host_confirmed"
          /\ records'[q].origin = records[q].origin
      BY <2>2, <2>3, <2>4
    <2>6. Exists(q)' /\ q \notin payloads'
      BY <2>5 DEF Exists, NoRow, ForgetAll
    <2> QED BY <2>1, <2>5, <2>6 DEF RowMoves
  <1>2. ASSUME NEW q \in Records \ V PROVE RowStays(q)
    BY UnlinkedStays DEF ForgetAll
  <1> QED BY <1>1, <1>2 DEF RowStep

LEMMA CreateMovesRows ==
  ASSUME TypeOK, NEW e, NEW r \in Records, NEW s, NEW origin, NEW from, NEW until, NEW at,
         CreateCandidate(e, r, s, origin, from, until, at)
  PROVE  \A q \in Records : RowStep(q)
  <1>1. RowAppears(r)
    BY CreateMoves DEF RowAppears
  <1>2. ASSUME NEW q \in Records \ {r} PROVE RowStays(q)
    <2>1. /\ records'[q] = records[q]
          /\ q \in payloads' <=> q \in payloads
          /\ q \in tombstones' <=> q \in tombstones
      BY CreateMoves
    <2> QED BY <2>1, UntouchedStays
  <1> QED BY <1>1, <1>2 DEF RowStep

LEMMA EraseMovesRows ==
  ASSUME TypeOK, NEW e, NEW r \in Records, NEW rev, Erase(e, r, rev)
  PROVE  \A q \in Records : RowStep(q)
  <1>1. RowGoes(r)
    <2>1. \A f \in EventIds : audits'[f] # NoAudit => audits'[f].record # r
      BY DEF Erase, AuditsWithout
    <2> QED BY <2>1, EraseMoves DEF RowGoes
  <1>2. ASSUME NEW q \in Records \ {r} PROVE RowStays(q)
    <2>1. /\ records'[q] = Unlinked(records[q], {r})
          /\ q \in payloads' <=> q \in payloads
          /\ q \in tombstones' <=> q \in tombstones
      BY DEF Erase
    <2> QED BY <2>1, UnlinkedStays
  <1> QED BY <1>1, <1>2 DEF RowStep

LEMMA CommandMovesRows ==
  ASSUME TypeOK, NEW e \in CommandIds, NEW r \in Records, HostCommand(e, r)
  PROVE  TypeOK' /\ VerdictsStand /\ \A q \in Records : RowStep(q)
  <1>1. e \in EventIds
    BY DEF EventIds
  <1>2. ASSUME NEW s \in Sources, NEW origin \in Origins, NEW from \in Starts \cup {Unset},
               NEW until \in Deadlines \cup {Unset}, NEW at \in Instants,
               CreateCandidate(e, r, s, origin, from, until, at)
        PROVE  TypeOK' /\ VerdictsStand /\ \A q \in Records : RowStep(q)
    BY <1>1, <1>2, CreateCandidateTyped, CreateMovesRows DEF CreateCandidate, VerdictsStand
  <1>3. ASSUME NEW rev \in Nat, NEW at \in Instants,
               NEW type \in EventTypes \ {"observed", "superseded", "forgotten"},
               Command(e, r, rev, type, at)
        PROVE  TypeOK' /\ VerdictsStand /\ \A q \in Records : RowStep(q)
    <2>1. TypeOK'
      BY <1>1, <1>3, CommandTyped
    <2>2. \A q \in Records : RowStep(q)
      BY <1>3, TransitionMovesRow DEF Command
    <2> QED BY <1>3, <2>1, <2>2 DEF Command, VerdictsStand
  <1>4. ASSUME NEW q \in Records, NEW rev \in Nat, NEW qrev \in Nat, NEW at \in Instants,
               Supersede(e, r, q, rev, qrev, at)
        PROVE  TypeOK' /\ VerdictsStand /\ \A p \in Records : RowStep(p)
    <2>1. TypeOK'
      BY <1>1, <1>4, SupersedeTyped
    <2>2. \A p \in Records : RowStep(p)
      BY <1>4, TransitionMovesRow DEF Supersede, EventTypes
    <2> QED BY <1>4, <2>1, <2>2 DEF Supersede, VerdictsStand
  <1>5. ASSUME NEW rev \in Nat, NEW at \in Instants, Forget(e, r, rev, at)
        PROVE  TypeOK' /\ VerdictsStand /\ \A q \in Records : RowStep(q)
    <2>1. TypeOK'
      BY <1>1, <1>5, ForgetTyped
    <2>2. \A q \in Records : RowStep(q)
      BY <1>5, ForgetAllMovesRows DEF Forget
    <2> QED BY <1>5, <2>1, <2>2 DEF Forget, VerdictsStand
  <1>6. ASSUME NEW rev \in Nat, Erase(e, r, rev)
        PROVE  TypeOK' /\ VerdictsStand /\ \A q \in Records : RowStep(q)
    BY <1>1, <1>6, EraseTyped, EraseMovesRows DEF Erase, AuditsWithout, VerdictsStand
  <1> QED BY <1>2, <1>3, <1>4, <1>5, <1>6 DEF HostCommand

LEMMA VerdictMovesRows ==
  ASSUME TypeOK, NEW e \in CommandIds, NEW r \in Records, NEW rev \in Nat,
         NEW origin \in ConcreteOrigins, NEW action \in Actions, NEW at \in Instants,
         NEW ledgerNow \in Instants,
         ApplyAdmissionReview(e, r, rev, origin, action, at, ledgerNow)
  PROVE  /\ TypeOK'
         /\ \A q \in Records : RowStep(q)
         /\ audits' = [audits EXCEPT ![e] = [action |-> action, record |-> r, revision |-> rev]]
         /\ records[r].state = "candidate" /\ records[r].revision = rev
         /\ Exists(r) /\ Exists(r)' /\ records'[r].state # "candidate"
         /\ records'[r].state = "active" => action = "allow"
         /\ \A q \in Records \ {r} : Exists(q)' => records'[q].state = records[q].state
  <1>1. e \in EventIds
    BY DEF EventIds
  <1>2. TypeOK'
    BY <1>1, ApplyAdmissionReviewTyped
  <1>3. /\ audits' = [audits EXCEPT ![e] = [action |-> action, record |-> r, revision |-> rev]]
        /\ tombstones' = tombstones
        /\ records[r].state = "candidate" /\ records[r].revision = rev /\ Exists(r)
    BY DEF ApplyAdmissionReview, CandidateUnchanged, CheckRevision
  <1>4. CASE action = "reject"
    <2>1. ForgetAll({r}, [q \in {r} |-> e], at)
      BY <1>4 DEF ApplyAdmissionReview
    <2>2. /\ \A q \in Records : RowStep(q)
          /\ records'[r].state = "retracted"
      BY <1>3, <2>1, ForgetAllMovesRows
    <2>3. Exists(r)' /\ \A q \in Records \ {r} : Exists(q)' => records'[q].state = records[q].state
      BY <2>1, ForgetAllMoves
    <2> QED BY <1>2, <1>3, <2>2, <2>3
  <1>5. CASE action # "reject"
    <2>1. AdmissionEvent[action] \in EventTypes \ {"observed"}
      BY DEF AdmissionEvent, Actions, EventTypes
    <2>2. Transition(e, r, AdmissionEvent[action], at, NoRecord) /\ payloads' = payloads
      BY <1>5 DEF ApplyAdmissionReview
    <2>3. /\ RowMoves(r) /\ records'[r].state = TargetState[AdmissionEvent[action]]
          /\ \A q \in Records \ {r} : records'[q] = records[q]
          /\ \A q \in Records : RowStep(q)
      BY <1>3, <2>1, <2>2, TransitionMovesRow
    <2>4. TargetState[AdmissionEvent[action]] = "active" => action = "allow"
      BY <1>5 DEF AdmissionEvent, Actions, TargetState
    <2> QED BY <1>2, <1>3, <2>3, <2>4 DEF RowMoves
  <1> QED BY <1>4, <1>5

LEMMA ScopeMovesRows ==
  ASSUME TypeOK, ScopeCommand \/ CheckpointCommand
  PROVE  TypeOK' /\ audits' = audits /\ \A q \in Records : RowStep(q)
  <1>1. ASSUME NEW s \in Sources, NEW at \in Instants, ForgetBySource(s, at)
        PROVE  TypeOK' /\ audits' = audits /\ \A q \in Records : RowStep(q)
    BY <1>1, ForgetBySourceTyped, ForgetAllMovesRows DEF ForgetBySource
  <1>2. ASSUME NEW o \in Operations, NEW at \in Instants, PurgePayloads(o, at)
        PROVE  TypeOK' /\ audits' = audits /\ \A q \in Records : RowStep(q)
    <2>1. payloads \in SUBSET Records
      BY DEF TypeOK
    <2> QED BY <1>2, <2>1, PurgePayloadsTyped, ForgetAllMovesRows DEF PurgePayloads
  <1>3. ASSUME CheckpointCommand
        PROVE  TypeOK' /\ audits' = audits /\ \A q \in Records : RowStep(q)
    <2>1. TypeOK'
      BY <1>3, CreateCheckpointTyped, InvalidateCheckpointTyped DEF CheckpointCommand
    <2>2. UNCHANGED <<records, payloads, tombstones, audits>>
      BY <1>3 DEF CheckpointCommand, CreateCheckpoint, InvalidateCheckpoint
    <2>3. \A q \in Records : RowStays(q)
      BY <2>2, UntouchedStays
    <2> QED BY <2>1, <2>2, <2>3 DEF RowStep
  <1> QED BY <1>1, <1>2, <1>3 DEF ScopeCommand

(* Every command, of any host, moves each row as RowStep says, and only a   *)
(* verdict writes an audit.                                                 *)
LEMMA StepsMoveRows ==
  ASSUME TypeOK, HostStep
  PROVE  TypeOK' /\ \A q \in Records : RowStep(q)
  <1>1. ASSUME NEW e \in CommandIds, NEW r \in Records, HostVerdict(e, r)
        PROVE  TypeOK' /\ \A q \in Records : RowStep(q)
    BY <1>1, VerdictMovesRows DEF HostVerdict
  <1> QED BY <1>1, CommandMovesRows, ScopeMovesRows DEF HostStep

-----------------------------------------------------------------------------
(* An erased record never comes back.                                       *)
Buried == \A r \in tombstones : ~Exists(r)

LEMMA BuriedStay ==
  ASSUME TypeOK, Buried, HostStep
  PROVE  Buried' /\ tombstones \subseteq tombstones'
  <1>1. \A q \in Records : RowStep(q)
    BY StepsMoveRows
  <1>2. tombstones \subseteq Records /\ tombstones' \subseteq Records
    BY StepsMoveRows DEF TypeOK
  <1> QED BY <1>1, <1>2 DEF RowStep, RowStays, RowMoves, RowAppears, RowGoes, Buried

-----------------------------------------------------------------------------
(* expire_due.                                                              *)

(* The texts of the timestamps in use sort like the instants they stand     *)
(* for.  They do when timestamps are whole seconds, or when none of them    *)
(* is; NeverExpiresEarly fails without it.                                  *)
TextOrdersTime == \A i, j \in Instants : TextLE(i, j) <=> i <= j

LEMMA WholeSecondsAreOrdered == ASSUME TicksPerSecond = 1 PROVE TextOrdersTime
  <1>1. ASSUME NEW i \in Nat PROVE TextRank(i) = i + 1
    BY <1>1, TicksPerSecond = 1 DEF TextRank
  <1> QED BY <1>1, LedgerConstants DEF TextOrdersTime, TextLE

(* What a scan still means while other commands run: a row it has read is   *)
(* as it was read, has moved to a later revision, or is erased for good.    *)
ScanHolds ==
  \A m \in scan.due :
    \/ m[1] \in tombstones
    \/ /\ Exists(m[1]) /\ records[m[1]].revision >= m[2]
       /\ TextOrdersTime /\ records[m[1]].revision = m[2] => Ended(m[1], scan.at)

ScanInv == ScanTypeOK /\ Buried /\ ScanHolds /\ (scan.at = Unset => scan.due = {})

LEMMA ScanRowIsHosts ==
  ASSUME ScanInv, NEW m \in scan.due, NEW e \in CommandIds, ExpireDueRow(e, m)
  PROVE  /\ m[1] \in Records /\ m[2] \in Nat /\ scan.at \in Instants
         /\ Expire(e, m[1], m[2], scan.at)
         /\ HostStep
  <1>1. m \in Records \X Nat /\ scan.at \in Instants \cup {Unset}
    BY DEF ScanInv, ScanTypeOK
  <1>2. m[1] \in Records /\ m[2] \in Nat
    BY <1>1
  <1>3. Expire(e, m[1], m[2], scan.at)
    BY DEF ExpireDueRow, ScannedRevision
  <1>4. scan.at \in Instants
    BY <1>1 DEF ScanInv
  <1>5. HostStep
    BY <1>2, <1>3, <1>4 DEF Expire, HostStep, HostCommand, EventTypes
  <1> QED BY <1>2, <1>3, <1>4, <1>5

LEMMA ScanOutlivesStep ==
  ASSUME ScanInv, HostStep, scan'.at = scan.at, scan'.due \subseteq scan.due
  PROVE  TypeOK' /\ Buried' /\ ScanHolds'
  <1>1. TypeOK /\ Buried /\ ScanHolds /\ scan.due \subseteq Records \X Nat
    BY DEF ScanInv, ScanTypeOK
  <1>2. TypeOK' /\ Buried' /\ tombstones \subseteq tombstones' /\ \A q \in Records : RowStep(q)
    BY <1>1, StepsMoveRows, BuriedStay
  <1>3. ASSUME NEW m \in scan'.due, m[1] \notin tombstones'
        PROVE  /\ Exists(m[1])' /\ records'[m[1]].revision >= m[2]
               /\ TextOrdersTime /\ records'[m[1]].revision = m[2] => Ended(m[1], scan.at)'
    <2>1. m[1] \in Records /\ m[2] \in Nat
      BY <1>1
    <2>2. /\ Exists(m[1]) /\ records[m[1]].revision >= m[2]
          /\ TextOrdersTime /\ records[m[1]].revision = m[2] => Ended(m[1], scan.at)
      BY <1>1, <1>2, <1>3 DEF ScanHolds
    <2>3. records[m[1]] \in Row
      BY <1>1, <2>1, <2>2, RowOfExisting
    <2>4. RowStays(m[1]) \/ RowMoves(m[1])
      BY <1>2, <1>3, <2>1, <2>2 DEF RowStep, RowAppears, RowGoes
    <2>5. CASE RowStays(m[1])
      BY <2>2, <2>5 DEF RowStays, Ended
    <2>6. CASE RowMoves(m[1])
      BY <2>1, <2>2, <2>3, <2>6 DEF RowMoves, Row
    <2> QED BY <2>4, <2>5, <2>6
  <1> QED BY <1>2, <1>3 DEF ScanHolds

LEMMA ScanInductive ==
  ASSUME ScanInv, [ExpiryNext]_scanVars
  PROVE  ScanInv'
  <1>1. /\ TypeOK /\ Buried /\ ScanHolds /\ (scan.at = Unset => scan.due = {})
        /\ scan \in [at : Instants \cup {Unset}, due : SUBSET (Records \X Nat)]
    BY DEF ScanInv, ScanTypeOK
  <1>2. ASSUME UNCHANGED vars, scan' \in [at : Instants \cup {Unset}, due : SUBSET (Records \X Nat)],
               ScanHolds', scan'.at = Unset => scan'.due = {}
        PROVE  ScanInv'
    <2>1. TypeOK' /\ Buried'
      BY <1>1, <1>2 DEF vars, TypeOK, Buried, Exists
    <2> QED BY <1>2, <2>1 DEF ScanInv, ScanTypeOK
  <1>3. ASSUME UNCHANGED vars, scan'.at = scan.at, scan'.due \subseteq scan.due
        PROVE  ScanHolds'
    BY <1>1, <1>3 DEF vars, ScanHolds, Exists, Ended
  <1>4. CASE UNCHANGED scanVars
    BY <1>1, <1>2, <1>3, <1>4 DEF scanVars
  <1>5. CASE Next /\ UNCHANGED scan
    BY <1>1, <1>5, NextIsHosts, ScanOutlivesStep DEF ScanInv, ScanTypeOK
  <1>6. ASSUME NEW at \in Instants, ExpireDueScan(at)
        PROVE  ScanInv'
    <2>1. UNCHANGED vars /\ scan' = [at |-> at, due |-> DueRows(at)]
      BY <1>6 DEF ExpireDueScan
    <2>2. ASSUME NEW q \in Records, Expirable(q), records[q].until # Unset, TextLE(records[q].until, at)
          PROVE  /\ Marker(q) \in Records \X Nat /\ Exists(q)
                 /\ Marker(q)[1] = q /\ Marker(q)[2] = records[q].revision
                 /\ TextOrdersTime => Ended(q, at)
      <3>1. Exists(q) /\ records[q] \in Row
        BY <1>1, <2>2, RowOfExisting DEF Expirable
      <3>2. records[q].until \in Instants
        BY <2>2, <3>1, LedgerConstants DEF Row
      <3>3. TextOrdersTime => records[q].until <= at
        BY <2>2, <3>2 DEF TextOrdersTime
      <3>4. TextOrdersTime => at >= records[q].until
        BY <3>2, <3>3, LedgerConstants
      <3> QED BY <2>2, <3>1, <3>4 DEF Marker, Row, Ended
    <2>3. ASSUME NEW m \in DueRows(at)
          PROVE  /\ m \in Records \X Nat /\ Exists(m[1])
                 /\ records[m[1]].revision = m[2]
                 /\ TextOrdersTime => Ended(m[1], at)
      BY <2>2 DEF DueRows
    <2>4. \A m \in DueRows(at) : m[2] >= m[2]
      BY <2>3
    <2>5. ScanHolds'
      BY <2>1, <2>3, <2>4 DEF ScanHolds, vars, Exists, Ended
    <2>6. scan' \in [at : Instants \cup {Unset}, due : SUBSET (Records \X Nat)]
      BY <2>1, <2>3
    <2>7. scan'.at # Unset
      BY <2>1, LedgerConstants
    <2> QED BY <1>2, <2>1, <2>5, <2>6, <2>7
  <1>7. ASSUME NEW m \in scan.due, NEW e \in CommandIds, ExpireDueRow(e, m)
        PROVE  ScanInv'
    <2>1. scan' = [scan EXCEPT !.due = @ \ {m}]
      BY <1>7 DEF ExpireDueRow
    <2>2. /\ scan'.at = scan.at /\ scan'.due \subseteq scan.due
          /\ scan' \in [at : Instants \cup {Unset}, due : SUBSET (Records \X Nat)]
      BY <1>1, <2>1
    <2> QED BY <1>1, <1>7, <2>2, ScanRowIsHosts, ScanOutlivesStep DEF ScanInv, ScanTypeOK
  <1>8. ASSUME NEW m \in scan.due, ExpireDueSkip(m)
        PROVE  ScanInv'
    <2>1. UNCHANGED vars /\ scan' = [scan EXCEPT !.due = @ \ {m}]
      BY <1>8 DEF ExpireDueSkip
    <2>2. /\ scan'.at = scan.at /\ scan'.due \subseteq scan.due
          /\ scan' \in [at : Instants \cup {Unset}, due : SUBSET (Records \X Nat)]
      BY <1>1, <2>1
    <2> QED BY <1>1, <1>2, <1>3, <2>1, <2>2
  <1>9. ASSUME UNCHANGED vars, scan' = Idle PROVE ScanInv'
    BY <1>2, <1>9 DEF Idle, ScanHolds
  <1> QED BY <1>4, <1>5, <1>6, <1>7, <1>8, <1>9
          DEF ExpiryNext, ExpireDue, ExpireDueAbort, ExpireDueDone

LEMMA ScanInvHolds == ExpirySpec => []ScanInv
  <1>1. ExpiryInit => ScanInv
    <2> SUFFICES ASSUME ExpiryInit PROVE ScanInv
      OBVIOUS
    <2>1. TypeOK
      BY InitTyped DEF ExpiryInit
    <2>2. Buried
      BY DEF ExpiryInit, Init, Buried
    <2> QED BY <2>1, <2>2 DEF ExpiryInit, ScanInv, ScanTypeOK, ScanHolds, Idle
  <1>2. ScanInv /\ [ExpiryNext]_scanVars => ScanInv'
    BY ScanInductive
  <1> QED BY <1>1, <1>2, PTL DEF ExpirySpec

(* expire_due beside any other commands, at any number of records: it takes *)
(* every row whose deadline has passed and no other, expires only what has  *)
(* ended, and leaves a row alone that a command changed after the scan.     *)
THEOREM ExpiryHolds == ASSUME TextOrdersTime PROVE ExpirySpec => ExpiryIsExact
  <1> DEFINE RowEnded(r) == scan'.due # scan.due /\ ExpiredBy(r) => Ended(r, scan.at)
             Exact == scan.at = Unset /\ scan'.at # Unset => scan'.due = Overdue(scan'.at)
             RacedAlone(m) == m \notin scan'.due /\ ExpiredBy(m[1]) => records[m[1]].revision = m[2]
  <1>1. ASSUME ScanInv, ExpiryNext
        PROVE  (\A r \in Records : RowEnded(r)) /\ Exact /\ \A m \in scan.due : RacedAlone(m)
    <2>1. TypeOK /\ scan \in [at : Instants \cup {Unset}, due : SUBSET (Records \X Nat)]
      BY <1>1 DEF ScanInv, ScanTypeOK
    <2>2. ASSUME NEW q \in Records, records'[q] = records[q] PROVE ~ExpiredBy(q)
      BY <2>2 DEF ExpiredBy, Expirable
    <2>3. CASE Next /\ UNCHANGED scan
      BY <2>3
    <2>4. ASSUME NEW at \in Instants, ExpireDueScan(at)
          PROVE  (\A r \in Records : RowEnded(r)) /\ Exact /\ \A m \in scan.due : RacedAlone(m)
      <3>1. records' = records /\ scan.due = {} /\ scan' = [at |-> at, due |-> DueRows(at)]
        BY <2>4 DEF ExpireDueScan, vars, Idle
      <3>2. ASSUME NEW q \in Records, Expirable(q)
            PROVE  records[q].until # Unset /\ TextLE(records[q].until, at) <=> Ended(q, at)
        <4>1. records[q] \in Row
          BY <2>1, <3>2, RowOfExisting DEF Expirable
        <4>2. records[q].until # Unset => records[q].until \in Instants
          BY <4>1, LedgerConstants DEF Row
        <4>3. records[q].until # Unset => (TextLE(records[q].until, at) <=> records[q].until <= at)
          BY <4>2 DEF TextOrdersTime
        <4>4. records[q].until # Unset => (records[q].until <= at <=> at >= records[q].until)
          BY <4>2, LedgerConstants
        <4> QED BY <4>3, <4>4 DEF Ended
      <3>3. DueRows(at) = Overdue(at)
        BY <3>2 DEF DueRows, Overdue
      <3>4. Exact
        BY <3>1, <3>3
      <3> QED BY <2>2, <3>1, <3>4
    <2>5. ASSUME NEW m \in scan.due, NEW e \in CommandIds, ExpireDueRow(e, m)
          PROVE  (\A r \in Records : RowEnded(r)) /\ Exact /\ \A n \in scan.due : RacedAlone(n)
      <3>1. /\ m[1] \in Records /\ m[2] \in Nat
            /\ Expire(e, m[1], m[2], scan.at)
        BY <1>1, <2>5, ScanRowIsHosts
      <3>2. scan'.at = scan.at /\ scan'.due = scan.due \ {m}
        BY <2>1, <2>5 DEF ExpireDueRow
      <3>3. \A q \in Records \ {m[1]} : records'[q] = records[q]
        BY <2>1, <3>1 DEF Expire, Command, Transition, TypeOK
      <3>4. Exists(m[1]) /\ records[m[1]].revision = m[2]
        BY <3>1 DEF Expire, Command, CheckRevision
      <3>5. Ended(m[1], scan.at)
        BY <1>1, <3>4 DEF ScanInv, ScanHolds, Buried
      <3> QED BY <2>2, <3>2, <3>3, <3>4, <3>5
    <2>6. CASE UNCHANGED vars /\ scan'.at \in {scan.at, Unset}
      BY <2>1, <2>2, <2>6 DEF vars
    <2>7. ASSUME NEW m \in scan.due, ExpireDueSkip(m) \/ ExpireDueAbort(m)
          PROVE  UNCHANGED vars /\ scan'.at \in {scan.at, Unset}
      BY <2>1, <2>7 DEF ExpireDueSkip, ExpireDueAbort, Idle
    <2>8. ASSUME ExpireDueDone PROVE UNCHANGED vars /\ scan'.at \in {scan.at, Unset}
      BY <2>8 DEF ExpireDueDone, Idle
    <2> QED BY <1>1, <2>3, <2>4, <2>5, <2>6, <2>7, <2>8 DEF ExpiryNext, ExpireDue
  <1>2. ScanInv /\ [ExpiryNext]_scanVars =>
          /\ [\A r \in Records : RowEnded(r)]_scanVars
          /\ [Exact]_scanVars
          /\ [\A m \in scan.due : RacedAlone(m)]_scanVars
    BY <1>1
  <1>3. ExpirySpec => [][\A r \in Records : RowEnded(r)]_scanVars
    BY <1>2, ScanInvHolds, PTL DEF ExpirySpec
  <1>4. ExpirySpec => [][Exact]_scanVars
    BY <1>2, ScanInvHolds, PTL DEF ExpirySpec
  <1>5. ExpirySpec => [][\A m \in scan.due : RacedAlone(m)]_scanVars
    BY <1>2, ScanInvHolds, PTL DEF ExpirySpec
  <1>6. ExpirySpec => NeverExpiresEarly
    BY <1>3 DEF NeverExpiresEarly
  <1>7. ExpirySpec => ScanIsExact
    BY <1>4 DEF ScanIsExact
  <1>8. ExpirySpec => RacedRowsAreLeftAlone
    BY <1>5 DEF RacedRowsAreLeftAlone
  <1> QED BY <1>6, <1>7, <1>8 DEF ExpiryIsExact

(* Beside expire_due, and with any expected revisions, the ledger takes its *)
(* own steps only: what is proved of it holds here too.                     *)
THEOREM ExpiryIsLedger == ASSUME Nat \subseteq Revisions PROVE ExpirySpec => Spec
  <1>1. ScanInv /\ [ExpiryNext]_scanVars => [Next]_vars
    <2> SUFFICES ASSUME ScanInv, ExpireDue PROVE [Next]_vars
      BY DEF ExpiryNext, scanVars
    <2>1. ASSUME NEW m \in scan.due, NEW e \in CommandIds, ExpireDueRow(e, m) PROVE Next
      BY <2>1, ScanRowIsHosts, HostStepIsNext
    <2> QED BY <2>1 DEF ExpireDue, ExpireDueScan, ExpireDueSkip, ExpireDueAbort, ExpireDueDone
  <1> QED BY <1>1, ScanInvHolds, PTL DEF ExpirySpec, ExpiryInit, Spec

-----------------------------------------------------------------------------
(* The review gates.                                                        *)

(* A verdict is final: the record it names has left the candidates, and a   *)
(* queued call holds a review of a gate object that still exists.           *)
JudgedAreDecided ==
  \A e \in EventIds : audits[e] # NoAudit =>
    Exists(audits[e].record) /\ records[audits[e].record].state # "candidate"

CallsAreLive ==
  \A k \in Calls : calls[k] # NoCall =>
    /\ calls[k].review \in reviews
    /\ calls[k].review.incarnation = incarnation[calls[k].review.gate]

GateInv == GateTypeOK /\ OneVerdictPerRecord /\ JudgedAreDecided /\ CallsAreLive

LEMMA DecidedStays ==
  ASSUME NEW q, Exists(q), records[q].state # "candidate", RowStep(q), ~RowGoes(q)
  PROVE  Exists(q)' /\ records'[q].state # "candidate"
  BY DEF RowStep, RowStays, RowMoves, RowAppears

(* Commands that judge nobody keep the verdicts apart.                      *)
LEMMA VerdictsStayApart ==
  ASSUME TypeOK, OneVerdictPerRecord, JudgedAreDecided, VerdictsStand,
         \A q \in Records : RowStep(q)
  PROVE  OneVerdictPerRecord' /\ JudgedAreDecided'
  <1>1. OneVerdictPerRecord'
    BY DEF OneVerdictPerRecord, VerdictsStand
  <1>2. ASSUME NEW e \in EventIds, audits'[e] # NoAudit
        PROVE  /\ records'[audits'[e].record] # NoRow
               /\ records'[audits'[e].record].state # "candidate"
    <2>1. audits'[e] = audits[e] /\ audits[e] \in Audit
      BY <1>2 DEF VerdictsStand, TypeOK
    <2>2. PICK q \in Records : q = audits[e].record
      BY <2>1, <1>2 DEF Audit
    <2>3. Exists(q) /\ records[q].state # "candidate"
      BY <1>2, <2>1, <2>2 DEF JudgedAreDecided
    <2>4. RowStep(q) /\ ~RowGoes(q)
      BY <1>2, <2>1, <2>2 DEF RowGoes
    <2>5. Exists(q)' /\ records'[q].state # "candidate"
      BY <2>3, <2>4, DecidedStays
    <2> QED BY <2>1, <2>2, <2>5 DEF Exists
  <1> QED BY <1>1, <1>2 DEF JudgedAreDecided, Exists

(* A verdict is given of a candidate, that is of a record without one.      *)
LEMMA VerdictIsTheFirst ==
  ASSUME TypeOK, OneVerdictPerRecord, JudgedAreDecided, NEW e \in CommandIds, NEW r \in Records,
         NEW rev \in Nat, NEW origin \in ConcreteOrigins, NEW action \in Actions,
         NEW at \in Instants, NEW ledgerNow \in Instants,
         ApplyAdmissionReview(e, r, rev, origin, action, at, ledgerNow)
  PROVE  OneVerdictPerRecord' /\ JudgedAreDecided'
  <1> DEFINE audit == [action |-> action, record |-> r, revision |-> rev]
  <1>1. e \in EventIds
    BY DEF EventIds
  <1>2. /\ audits' = [audits EXCEPT ![e] = audit]
        /\ Exists(r) /\ records[r].state = "candidate"
        /\ Exists(r)' /\ records'[r].state # "candidate"
        /\ \A q \in Records : RowStep(q)
    BY VerdictMovesRows
  <1>3. \A d \in EventIds : audits[d] # NoAudit => audits[d].record # r
    BY <1>2 DEF JudgedAreDecided
  <1>4. /\ audits'[e] = audit /\ audit.record = r
        /\ \A d \in EventIds \ {e} : audits'[d] = audits[d]
    BY <1>1, <1>2 DEF TypeOK
  <1>5. OneVerdictPerRecord'
    BY <1>3, <1>4 DEF OneVerdictPerRecord
  <1>6. ASSUME NEW d \in EventIds \ {e}, audits'[d] # NoAudit
        PROVE  /\ records'[audits'[d].record] # NoRow
               /\ records'[audits'[d].record].state # "candidate"
    <2>1. audits'[d] = audits[d] /\ audits[d] \in Audit
      BY <1>4, <1>6 DEF TypeOK
    <2>2. PICK q \in Records : q = audits[d].record
      BY <2>1, <1>6 DEF Audit
    <2>3. Exists(q) /\ records[q].state # "candidate"
      BY <1>6, <2>1, <2>2 DEF JudgedAreDecided
    <2>4. RowStep(q) /\ ~RowGoes(q)
      BY <1>2, <1>6, <2>1, <2>2 DEF RowGoes
    <2>5. Exists(q)' /\ records'[q].state # "candidate"
      BY <2>3, <2>4, DecidedStays
    <2> QED BY <2>1, <2>2, <2>5 DEF Exists
  <1> QED BY <1>2, <1>4, <1>5, <1>6 DEF JudgedAreDecided, Exists

(* The ledger part of a gate's step.                                        *)
LEMMA ApplyIsVerdict ==
  ASSUME GateInv, NEW k \in Calls, NEW e \in CommandIds, Apply(k, e)
  PROVE  /\ calls[k].review \in Review /\ calls[k].review \in reviews
         /\ calls[k].review.incarnation = incarnation[calls[k].review.gate]
         /\ calls[k].at \in Instants /\ now \in Instants
         /\ GateOrigin[calls[k].review.gate] \in ConcreteOrigins
         /\ ApplyAdmissionReview(e, calls[k].review.record, calls[k].review.revision,
                                 GateOrigin[calls[k].review.gate], calls[k].review.action,
                                 calls[k].at, now)
         /\ UNCHANGED <<now, incarnation, reviews>>
  <1>1. calls[k] # NoCall /\ calls[k] \in [at : Instants, review : Review] \cup {NoCall}
    BY DEF Apply, GateInv, GateTypeOK
  <1>2. calls[k].review \in Review /\ calls[k].at \in Instants
    BY <1>1
  <1>3. GateOrigin[calls[k].review.gate] \in ConcreteOrigins
    BY <1>2, GateConstants DEF Review
  <1>4. now \in Instants
    BY DEF GateInv, GateTypeOK
  <1> QED BY <1>1, <1>2, <1>3, <1>4 DEF Apply, GateInv, CallsAreLive

LEMMA ProposeIsCommand ==
  ASSUME NEW g \in Gates, NEW e \in CommandIds, NEW r \in Records, Propose(g, e, r)
  PROVE  RawCommand(e, r) /\ HostCommand(e, r) /\ UNCHANGED <<now, incarnation, reviews, calls>>
  <1>1. GateOrigin[g] \in Origins
    BY GateConstants DEF Origins
  <1> QED BY <1>1, RawCommandIsHosts DEF Propose, RawCommand

(* A step that leaves the gates alone.                                      *)
LEMMA GatesStayTyped ==
  ASSUME GateInv, TypeOK', OneVerdictPerRecord', JudgedAreDecided',
         UNCHANGED <<now, incarnation, reviews>>,
         \A k \in Calls : calls'[k] \in {calls[k], NoCall},
         calls' \in [Calls -> [at : Instants, review : Review] \cup {NoCall}]
  PROVE  GateInv'
  BY DEF GateInv, GateTypeOK, CallsAreLive

LEMMA LedgerLeavesGates ==
  ASSUME GateInv, VerdictsStand, TypeOK', \A q \in Records : RowStep(q),
         UNCHANGED <<now, incarnation, reviews, calls>>
  PROVE  GateInv'
  BY VerdictsStayApart, GatesStayTyped DEF GateInv, GateTypeOK

LEMMA GateStepKeepsGates ==
  ASSUME GateInv, GateStep
  PROVE  GateInv' /\ UNCHANGED vars
  <1>1. UNCHANGED vars
    BY DEF GateStep, SealReview, Submit, Fail, Recreate, Tick
  <1>2. TypeOK' /\ OneVerdictPerRecord' /\ JudgedAreDecided'
    BY <1>1 DEF vars, GateInv, GateTypeOK, TypeOK, OneVerdictPerRecord, JudgedAreDecided, Exists
  <1>3. /\ now \in Instants /\ incarnation \in [Gates -> 0 .. MaxIncarnation]
        /\ reviews \in SUBSET Review
        /\ calls \in [Calls -> [at : Instants, review : Review] \cup {NoCall}]
        /\ CallsAreLive /\ TypeOK
    BY DEF GateInv, GateTypeOK
  <1>4. ASSUME NEW g \in Gates, NEW r \in Records, NEW action \in Actions, SealReview(g, r, action)
        PROVE  GateInv'
    <2> DEFINE v == [gate |-> g, incarnation |-> incarnation[g], record |-> r,
                     revision |-> records[r].revision, action |-> action]
    <2>1. records[r].revision \in Nat
      BY <1>3, <1>4, RowOfExisting DEF SealReview, Reviewable, Row
    <2>2. v \in Review
      BY <1>3, <2>1 DEF Review
    <2>3. reviews' = reviews \cup {v} /\ UNCHANGED <<now, incarnation, calls>>
      BY <1>4 DEF SealReview
    <2> HIDE DEF v
    <2> QED BY <1>2, <1>3, <2>2, <2>3 DEF GateInv, GateTypeOK, CallsAreLive
  <1>5. ASSUME NEW k \in Calls, NEW g \in Gates, NEW v \in reviews, Submit(k, g, v)
        PROVE  GateInv'
    <2> DEFINE call == [at |-> now, review |-> v]
    <2>1. call \in [at : Instants, review : Review] /\ call.review = v
      BY <1>3
    <2>2. calls' = [calls EXCEPT ![k] = call] /\ UNCHANGED <<now, incarnation, reviews>>
      BY <1>5 DEF Submit
    <2>3. v.gate = g /\ v.incarnation = incarnation[g]
      BY <1>5 DEF Submit, Verified
    <2> HIDE DEF call
    <2>4. /\ calls'[k] = call
          /\ \A j \in Calls \ {k} : calls'[j] = calls[j]
          /\ calls' \in [Calls -> [at : Instants, review : Review] \cup {NoCall}]
      BY <1>3, <2>1, <2>2
    <2>5. CallsAreLive'
      BY <1>3, <2>1, <2>2, <2>3, <2>4 DEF CallsAreLive
    <2> QED BY <1>2, <1>3, <2>2, <2>4, <2>5 DEF GateInv, GateTypeOK
  <1>6. ASSUME NEW k \in Calls, Fail(k) PROVE GateInv'
    <2>1. /\ calls' \in [Calls -> [at : Instants, review : Review] \cup {NoCall}]
          /\ \A j \in Calls : calls'[j] \in {calls[j], NoCall}
      BY <1>3, <1>6 DEF Fail
    <2> QED BY <1>2, <1>6, <2>1, GatesStayTyped DEF Fail
  <1>7. ASSUME NEW g \in Gates, Recreate(g) PROVE GateInv'
    <2>1. /\ incarnation[g] \in Nat /\ incarnation[g] < MaxIncarnation
          /\ incarnation' = [incarnation EXCEPT ![g] = incarnation[g] + 1]
          /\ UNCHANGED <<now, reviews>>
      BY <1>3, <1>7, GateConstants DEF Recreate
    <2>2. incarnation' \in [Gates -> 0 .. MaxIncarnation]
      BY <1>3, <2>1, GateConstants
    <2>3. /\ calls' \in [Calls -> [at : Instants, review : Review] \cup {NoCall}]
          /\ \A j \in Calls : calls'[j] # NoCall => calls'[j] = calls[j] /\ calls[j].review.gate # g
      BY <1>3, <1>7 DEF Recreate
    <2>4. ASSUME NEW j \in Calls, calls'[j] # NoCall
          PROVE  incarnation'[calls[j].review.gate] = incarnation[calls[j].review.gate]
      <3>1. calls[j].review.gate \in Gates \ {g}
        BY <1>3, <2>3, <2>4 DEF Review
      <3> QED BY <1>3, <2>1, <3>1
    <2>5. CallsAreLive'
      BY <1>3, <2>1, <2>3, <2>4 DEF CallsAreLive
    <2> QED BY <1>2, <1>3, <2>1, <2>2, <2>3, <2>5 DEF GateInv, GateTypeOK
  <1>8. CASE Tick
    BY <1>2, <1>3, <1>8 DEF Tick, GateInv, GateTypeOK, CallsAreLive
  <1> QED BY <1>1, <1>4, <1>5, <1>6, <1>7, <1>8 DEF GateStep

LEMMA RawRecordIsHosts ==
  ASSUME NEW e \in CommandIds, NEW r \in Records, RawRecordCommand(e, r)
  PROVE  RawCommand(e, r) /\ HostCommand(e, r) /\ UNCHANGED <<now, incarnation, reviews, calls>>
  BY RawCommandIsHosts DEF RawRecordCommand

LEMMA GateInductive ==
  ASSUME GateInv, [GateNext]_gateVars
  PROVE  GateInv'
  <1>1. TypeOK /\ OneVerdictPerRecord /\ JudgedAreDecided /\ CallsAreLive
        /\ calls \in [Calls -> [at : Instants, review : Review] \cup {NoCall}]
    BY DEF GateInv, GateTypeOK
  <1>2. CASE UNCHANGED gateVars
    BY <1>2 DEF gateVars, vars, GateInv, GateTypeOK, TypeOK, OneVerdictPerRecord,
                JudgedAreDecided, CallsAreLive, Exists
  <1>3. CASE GateStep
    BY <1>3, GateStepKeepsGates
  <1>4. ASSUME NEW k \in Calls, NEW e \in CommandIds, Apply(k, e) PROVE GateInv'
    <2> DEFINE v == calls[k].review
    <2>1. /\ v.record \in Records /\ v.revision \in Nat /\ v.action \in Actions
          /\ GateOrigin[v.gate] \in ConcreteOrigins
          /\ calls[k].at \in Instants /\ now \in Instants
          /\ ApplyAdmissionReview(e, v.record, v.revision, GateOrigin[v.gate], v.action,
                                  calls[k].at, now)
          /\ UNCHANGED <<now, incarnation, reviews>>
      BY <1>4, ApplyIsVerdict DEF Review
    <2> HIDE DEF v
    <2>2. TypeOK' /\ OneVerdictPerRecord' /\ JudgedAreDecided'
      BY <1>1, <2>1, VerdictMovesRows, VerdictIsTheFirst
    <2>3. /\ calls' \in [Calls -> [at : Instants, review : Review] \cup {NoCall}]
          /\ \A j \in Calls : calls'[j] \in {calls[j], NoCall}
      BY <1>1, <1>4 DEF Apply
    <2> QED BY <2>1, <2>2, <2>3, GatesStayTyped
  <1>5. ASSUME NEW e \in CommandIds, NEW r \in Records, HostCommand(e, r),
               UNCHANGED <<now, incarnation, reviews, calls>>
        PROVE  GateInv'
    BY <1>1, <1>5, CommandMovesRows, LedgerLeavesGates
  <1>6. CASE RawScopeCommand
    <2>1. TypeOK' /\ audits' = audits /\ \A q \in Records : RowStep(q)
      BY <1>1, <1>6, ScopeMovesRows DEF RawScopeCommand
    <2>2. VerdictsStand
      BY <2>1 DEF VerdictsStand
    <2> QED BY <1>6, <2>1, <2>2, LedgerLeavesGates DEF RawScopeCommand
  <1> QED BY <1>2, <1>3, <1>4, <1>5, <1>6, RawRecordIsHosts, ProposeIsCommand DEF GateNext

LEMMA GatesHold == GateSpec => []GateInv
  <1>1. GateInit => GateInv
    <2> SUFFICES ASSUME GateInit PROVE GateInv
      OBVIOUS
    <2>1. TypeOK
      BY InitTyped DEF GateInit
    <2>2. GateTypeOK
      BY <2>1, GateConstants DEF GateInit, GateTypeOK
    <2> QED BY <2>2 DEF GateInit, Init, GateInv, OneVerdictPerRecord, JudgedAreDecided, CallsAreLive
  <1> QED BY <1>1, GateInductive, PTL DEF GateSpec

(* Two gates, or a gate and the one that replaced it, never both judge one  *)
(* candidate, however many reviews and calls of it are under way.           *)
THEOREM VerdictsAreUnique == GateSpec => []OneVerdictPerRecord
  <1>1. GateInv => OneVerdictPerRecord
    BY DEF GateInv
  <1> QED BY <1>1, GatesHold, PTL

(* A verdict is written only for a review that a gate object still alive    *)
(* has sealed, for that record, revision and action.                        *)
THEOREM VerdictsAreOfLiveGates == GateSpec => StaleGatesDecideNothing
  <1>1. ASSUME GateInv, GateNext, NEW d \in EventIds PROVE DecidedAlive(d)
    <2>1. TypeOK
      BY <1>1 DEF GateInv, GateTypeOK
    <2>2. ASSUME VerdictsStand \/ audits' = audits PROVE DecidedAlive(d)
      BY <2>2 DEF DecidedAlive, VerdictsStand
    <2>3. CASE GateStep
      BY <1>1, <2>2, <2>3, GateStepKeepsGates DEF vars
    <2>4. ASSUME NEW k \in Calls, NEW e \in CommandIds, Apply(k, e) PROVE DecidedAlive(d)
      <3> DEFINE v == calls[k].review
                 audit == [action |-> v.action, record |-> v.record, revision |-> v.revision]
      <3>1. /\ v \in reviews /\ v.incarnation = incarnation[v.gate]
            /\ audits' = [audits EXCEPT ![e] = audit]
        BY <1>1, <2>4, ApplyIsVerdict DEF ApplyAdmissionReview
      <3>2. audit.action = v.action /\ audit.record = v.record /\ audit.revision = v.revision
        OBVIOUS
      <3> HIDE DEF v, audit
      <3>3. audits'[d] \in {audit, audits[d]}
        BY <2>1, <3>1 DEF TypeOK
      <3> QED BY <3>1, <3>2, <3>3 DEF DecidedAlive
    <2>5. ASSUME NEW e \in CommandIds, NEW r \in Records, HostCommand(e, r) PROVE DecidedAlive(d)
      BY <2>1, <2>2, <2>5, CommandMovesRows
    <2>6. CASE RawScopeCommand
      BY <2>1, <2>2, <2>6, ScopeMovesRows DEF RawScopeCommand
    <2> QED BY <1>1, <2>3, <2>4, <2>5, <2>6, RawRecordIsHosts, ProposeIsCommand DEF GateNext
  <1>2. GateInv /\ [GateNext]_gateVars => [\A e \in EventIds : DecidedAlive(e)]_gateVars
    BY <1>1
  <1>3. GateSpec => [][\A e \in EventIds : DecidedAlive(e)]_gateVars
    BY <1>2, GatesHold, PTL DEF GateSpec
  <1> QED BY <1>3 DEF StaleGatesDecideNothing

(* Only an allow verdict admits a record of a known origin, and it looks at *)
(* the time once more under the write lock.                                 *)
LEMMA AdmissionsAreInTime ==
  ASSUME GateInv, GateNext, NEW r \in Records, Admitted(r)
  PROVE  ~Ended(r, now)
  <1>1. TypeOK /\ Exists(r) /\ records[r].state = "candidate" /\ records[r].origin # "unknown"
        /\ records'[r] # NoRow /\ records'[r].state = "active" /\ records' # records
    BY DEF GateInv, GateTypeOK, Admitted
  <1>2. ASSUME GateStep PROVE FALSE
    BY <1>1, <1>2, GateStepKeepsGates DEF vars
  <1>3. ASSUME NEW k \in Calls, NEW e \in CommandIds, Apply(k, e) PROVE ~Ended(r, now)
    <2> DEFINE v == calls[k].review
    <2>1. /\ v.record \in Records /\ v.revision \in Nat /\ v.action \in Actions
          /\ GateOrigin[v.gate] \in ConcreteOrigins
          /\ calls[k].at \in Instants /\ now \in Instants
          /\ ApplyAdmissionReview(e, v.record, v.revision, GateOrigin[v.gate], v.action,
                                  calls[k].at, now)
      BY <1>3, ApplyIsVerdict DEF Review
    <2> HIDE DEF v
    <2>2. /\ records'[v.record].state = "active" => v.action = "allow"
          /\ \A q \in Records \ {v.record} : Exists(q)' => records'[q].state = records[q].state
      BY <1>1, <2>1, VerdictMovesRows
    <2>3. v.record = r /\ v.action = "allow"
      BY <1>1, <2>2 DEF Exists
    <2> QED BY <2>1, <2>3 DEF ApplyAdmissionReview, StillValid
  <1>4. ASSUME NEW V \in SUBSET Records, NEW id, NEW at, ForgetAll(V, id, at), tombstones' = tombstones
        PROVE  FALSE
    <2>1. \A p \in V : records'[p].state = "retracted"
      BY <1>1, <1>4, ForgetAllMovesRows
    <2>2. r \notin V
      BY <1>1, <2>1
    <2>3. records'[r] = Unlinked(records[r], V) /\ records[r] \in Row \cup {NoRow}
      BY <1>1, <1>4, <2>2 DEF ForgetAll, TypeOK
    <2>4. records'[r].state = records[r].state
      BY <1>1, <2>3, UnlinkedRow DEF Exists
    <2> QED BY <1>1, <2>4
  <1>5. ASSUME NEW e \in CommandIds, NEW q \in Records, RawCommand(e, q) PROVE FALSE
    <2>1. ASSUME NEW type \in EventTypes \ {"observed"}, NEW at, NEW other,
                 Transition(e, q, type, at, other), payloads' = payloads, tombstones' = tombstones,
                 type # "confirmed"
          PROVE  FALSE
      <3>1. records'[q].state = TargetState[type] /\ \A p \in Records \ {q} : records'[p] = records[p]
        BY <1>1, <2>1, TransitionMovesRow
      <3>2. TargetState[type] # "active"
        BY <2>1 DEF TargetState, EventTypes
      <3> QED BY <1>1, <3>1, <3>2
    <2>2. ASSUME NEW rev, NEW at, Erase(e, q, rev) PROVE FALSE
      <3>1. ~Exists(q)' /\ \A p \in Records \ {q} : Exists(p) => records'[p].state = records[p].state
        BY <1>1, <2>2, EraseMoves
      <3> QED BY <1>1, <3>1 DEF Exists
    <2>3. ASSUME NEW s, NEW origin, NEW from, NEW until, NEW at,
                 CreateCandidate(e, q, s, origin, from, until, at)
          PROVE  FALSE
      <3>1. ~Exists(q) /\ \A p \in Records \ {q} : records'[p] = records[p]
        BY <1>1, <2>3, CreateMoves
      <3> QED BY <1>1, <3>1
    <2>4. ASSUME NEW rev, NEW at, Confirm(e, q, rev, at) PROVE FALSE
      <3>1. records[q].origin = "unknown" /\ Transition(e, q, "confirmed", at, NoRecord)
        BY <2>4 DEF Confirm, RawConfirmationEligible, Command
      <3>2. \A p \in Records \ {q} : records'[p] = records[p]
        BY <1>1, <3>1 DEF Transition, TypeOK
      <3> QED BY <1>1, <3>1, <3>2
    <2>5. ASSUME NEW rev, NEW at, NEW type \in {"quarantined", "expired", "retracted"},
                 Command(e, q, rev, type, at)
          PROVE  FALSE
      BY <2>1, <2>5 DEF Command, EventTypes
    <2>6. ASSUME NEW p, NEW rev, NEW prev, NEW at, Supersede(e, q, p, rev, prev, at) PROVE FALSE
      BY <2>1, <2>6 DEF Supersede, EventTypes
    <2>7. ASSUME NEW rev, NEW at, Forget(e, q, rev, at) PROVE FALSE
      BY <1>1, <1>4, <2>7 DEF Forget
    <2> QED BY <1>5, <2>2, <2>3, <2>4, <2>5, <2>6, <2>7 DEF RawCommand, Quarantine, Expire, Retract
  <1>6. ASSUME ScopeCommand PROVE FALSE
    BY <1>1, <1>4, <1>6 DEF ScopeCommand, ForgetBySource, PurgePayloads, TypeOK
  <1> QED BY <1>2, <1>3, <1>5, <1>6, RawRecordIsHosts, ProposeIsCommand
          DEF GateNext, RawScopeCommand

(* However long a call waits for the write lock, it never activates a       *)
(* record whose validity has ended meanwhile.                               *)
THEOREM AdmissionsArePunctual == GateSpec => NeverAdmittedLate
  <1>1. GateInv /\ [GateNext]_gateVars => [\A r \in Records : Admitted(r) => ~Ended(r, now)]_gateVars
    BY AdmissionsAreInTime
  <1>2. GateSpec => [][\A r \in Records : Admitted(r) => ~Ended(r, now)]_gateVars
    BY <1>1, GatesHold, PTL DEF GateSpec
  <1> QED BY <1>2 DEF NeverAdmittedLate

(* Behind the gates, and with any expected revisions, the ledger takes its  *)
(* own steps only.                                                          *)
THEOREM GatesAreLedger == ASSUME Nat \subseteq Revisions PROVE GateSpec => Spec
  <1>1. ASSUME GateInv, GateNext PROVE [Next]_vars
    <2>1. ASSUME NEW k \in Calls, NEW e \in CommandIds, Apply(k, e) PROVE Next
      <3>1. PICK r \in Records : HostVerdict(e, r)
        BY <1>1, <2>1, ApplyIsVerdict DEF Review, HostVerdict
      <3> QED BY <3>1, HostStepIsNext
    <2>2. ASSUME NEW e \in CommandIds, NEW r \in Records, RawCommand(e, r) PROVE Next
      BY <2>2 DEF Next
    <2> QED BY <1>1, <2>1, <2>2, GateStepKeepsGates, RawRecordIsHosts, ProposeIsCommand
            DEF GateNext, RawScopeCommand, Next
  <1>2. GateInv /\ [GateNext]_gateVars => [Next]_vars
    BY <1>1 DEF gateVars
  <1> QED BY <1>2, GatesHold, PTL DEF GateSpec, GateInit, Spec

-----------------------------------------------------------------------------
(* The recall planner: its own steps.                                       *)

SamePlan(p) ==
  /\ plans'[p].selections = plans[p].selections
  /\ plans'[p].checkpoint = plans[p].checkpoint

NewlyPlanned(p) ==
  /\ plans[p] = NoPlan
  /\ plans'[p].phase = "planned"
  /\ \E at \in Instants : plans'[p].selections \subseteq Eligible(at)

ManifestRead(p) ==
  /\ RequireAudit /\ plans[p] = NoPlan
  /\ plans'[p].phase = "manifest"
  /\ \E c \in Checkpoints : /\ checkpoints[c].state = "active"
                            /\ plans'[p].checkpoint = c
                            /\ plans'[p].selections = checkpoints[c].selections

Loaded(p) ==
  /\ SamePlan(p) /\ Resolvable(p) /\ plans'[p].phase = "loaded"
  /\ \E at \in Sampled(p) : SelectionIsCurrent(plans[p].selections, at)
  /\ plans'[p].rows = {records[m[1]].until : m \in plans[p].selections}

Validated(p) ==
  /\ Phase(p) = "loaded" /\ plans'[p].phase = "validated"
  /\ \E at \in Sampled(p) : SelectionIsCurrent(plans[p].selections, at)

Returned(p) ==
  /\ plans'[p].phase = "returned"
  /\ \/ Resolvable(p) /\ plans[p].selections = {}
     \/ Phase(p) = "validated" /\ \E at \in Sampled(p) : WithinDeadlines(plans[p].rows, at)

Refused(p) ==
  /\ plans'[p].phase = "stale"
  /\ \E at \in Sampled(p) :
       \/ (Resolvable(p) \/ Phase(p) = "loaded") /\ ~SelectionIsCurrent(plans[p].selections, at)
       \/ Phase(p) = "validated" /\ ~WithinDeadlines(plans[p].rows, at)

Replanned(p) ==
  /\ Phase(p) = "manifest"
  /\ \/ /\ plans'[p].phase = "planned"
        /\ \E at \in Sampled(p) : plans[p].selections \subseteq Eligible(at)
     \/ plans'[p].phase = "mismatch"

(* How one step of any planner may change a plan.                           *)
PlanEffect(p) ==
  \/ plans'[p] = plans[p]
  \/ plans'[p] = NoPlan
  \/ /\ plans'[p] \in Plan
     /\ \/ NewlyPlanned(p)
        \/ ManifestRead(p)
        \/ /\ plans[p] \in Plan
           /\ \/ Loaded(p)
              \/ /\ SamePlan(p) /\ plans'[p].rows = plans[p].rows
                 /\ Validated(p) \/ Returned(p) \/ Refused(p) \/ Replanned(p)

LEMMA StepIsCarried ==
  ASSUME RecallTypeOK, NEW p \in Planners, Phase(p) # "none", NEW phase \in Phases, Step(p, phase)
  PROVE  /\ plans' \in [Planners -> Plan \cup {NoPlan}]
         /\ plans[p] \in Plan /\ plans'[p] \in Plan
         /\ plans'[p].phase = phase /\ plans'[p].rows = plans[p].rows /\ SamePlan(p)
         /\ \A q \in Planners \ {p} : plans'[q] = plans[q]
  <1>1. /\ plans \in [Planners -> Plan \cup {NoPlan}] /\ clock \in Instants
        /\ plans[p] \in Plan
    BY DEF RecallTypeOK, Phase, NoPlan
  <1> DEFINE next == [plans[p] EXCEPT !.phase = phase, !.instant = clock]
  <1>2. plans' = [plans EXCEPT ![p] = next]
    BY <1>1 DEF Step
  <1>3. /\ next \in Plan /\ next.phase = phase /\ next.rows = plans[p].rows
        /\ next.selections = plans[p].selections /\ next.checkpoint = plans[p].checkpoint
    BY <1>1 DEF Plan
  <1> HIDE DEF next
  <1> QED BY <1>1, <1>2, <1>3 DEF SamePlan

LEMMA ResolvableIsPlan ==
  ASSUME NEW p, Resolvable(p) \/ Phase(p) \in {"loaded", "validated", "manifest", "mismatch"}
  PROVE  Phase(p) # "none"
  BY DEF Resolvable

(* The plans after a step that made next the plan of p.                     *)
LEMMA PlanReplaced ==
  ASSUME RecallTypeOK, NEW p \in Planners, NEW next \in Plan \cup {NoPlan},
         plans' = [plans EXCEPT ![p] = next]
  PROVE  /\ plans' \in [Planners -> Plan \cup {NoPlan}]
         /\ plans'[p] = next
         /\ \A q \in Planners \ {p} : plans'[q] = plans[q]
  BY DEF RecallTypeOK

LEMMA EligibleAreHeld ==
  ASSUME TypeOK, NEW at
  PROVE  /\ Eligible(at) \subseteq Records \X Nat
         /\ \A m \in Eligible(at) :
              /\ m[1] \in payloads /\ Exists(m[1]) /\ records[m[1]].revision = m[2]
              /\ records[m[1]].trust = "host_confirmed"
              /\ RequireAudit => records[m[1]].origin # "unknown"
  <1>1. ASSUME NEW q \in ListActive(at), RequireAudit => records[q].origin # "unknown"
        PROVE  /\ Marker(q) \in Records \X Nat /\ Marker(q)[1] = q /\ Marker(q)[2] = records[q].revision
               /\ q \in payloads /\ Exists(q) /\ records[q].trust = "host_confirmed"
    <2>1. q \in payloads /\ Exists(q) /\ records[q].trust = "host_confirmed"
      BY DEF ListActive, Recallable
    <2>2. records[q] \in Row /\ q \in Records
      BY <2>1, RowOfExisting DEF TypeOK
    <2> QED BY <2>1, <2>2 DEF Marker, Row
  <1> QED BY <1>1 DEF Eligible

LEMMA MarkersAreHeld ==
  ASSUME TypeOK, NEW at
  PROVE  /\ Markers(at) \subseteq Records \X Nat
         /\ \A m \in Markers(at) :
              /\ m[1] \in payloads /\ Exists(m[1]) /\ records[m[1]].revision = m[2]
              /\ records[m[1]].state = "active" /\ records[m[1]].trust = "host_confirmed"
              /\ records[m[1]].until \in Deadlines \cup {Unset}
  <1>1. ASSUME NEW q \in ListActive(at)
        PROVE  /\ Marker(q) \in Records \X Nat /\ Marker(q)[1] = q /\ Marker(q)[2] = records[q].revision
               /\ q \in payloads /\ Exists(q)
               /\ records[q].state = "active" /\ records[q].trust = "host_confirmed"
               /\ records[q].until \in Deadlines \cup {Unset}
    <2>1. q \in payloads /\ Exists(q)
          /\ records[q].state = "active" /\ records[q].trust = "host_confirmed"
      BY DEF ListActive, Recallable
    <2>2. records[q] \in Row /\ q \in Records
      BY <2>1, RowOfExisting DEF TypeOK
    <2> QED BY <2>1, <2>2 DEF Marker, Row
  <1> QED BY <1>1 DEF Markers

(* A resumed plan names its checkpoint until it is planned afresh.          *)
ManifestsNamed ==
  \A p \in Planners : Phase(p) \in {"manifest", "mismatch"} => plans[p].checkpoint \in Checkpoints

RecallBase == RecallTypeOK /\ PayloadsFollowRows /\ ManifestsNamed

(* A planner's step changes its own plan in one of the ways listed, and the *)
(* ledger not at all or by one checkpoint command.                          *)
PlannersStep(p) ==
  /\ plans' \in [Planners -> Plan \cup {NoPlan}]
  /\ \A q \in Planners : PlanEffect(q)
  /\ UNCHANGED <<clock, retired>>
  /\ \/ UNCHANGED vars
     \/ \E c \in Checkpoints : InvalidateCheckpoint(c)
     \/ /\ RequireAudit /\ plans[p] \in Plan
        /\ \E c \in Checkpoints, at \in Instants : CreateCheckpoint(c, plans[p].selections, at)

LEMMA PlannersMove ==
  ASSUME RecallBase, NEW p \in Planners, PlannerStep(p)
  PROVE  PlannersStep(p)
  <1>1. /\ RecallTypeOK /\ TypeOK /\ clock \in Instants
        /\ plans \in [Planners -> Plan \cup {NoPlan}]
        /\ Sampled(p) \subseteq Instants
    BY DEF RecallBase, RecallTypeOK, Sampled
  <1>2. ASSUME plans' \in [Planners -> Plan \cup {NoPlan}], PlanEffect(p),
               \A q \in Planners \ {p} : plans'[q] = plans[q],
               UNCHANGED <<vars, clock, retired>>
        PROVE  PlannersStep(p)
    BY <1>2 DEF PlannersStep, PlanEffect
  <1>3. ASSUME NEW phase \in Phases, Phase(p) # "none", Step(p, phase),
               UNCHANGED <<vars, clock, retired>>,
               plans'[p].phase = phase => Validated(p) \/ Returned(p) \/ Refused(p) \/ Replanned(p)
        PROVE  PlannersStep(p)
    BY <1>1, <1>2, <1>3, StepIsCarried DEF PlanEffect
  <1>4. ASSUME NEW S \in SUBSET Held, PlanRecall(p, S) PROVE PlannersStep(p)
    <2> DEFINE next == [phase |-> "planned", selections |-> S, instant |-> clock,
                        rows |-> {}, checkpoint |-> NoRecord]
    <2>1. PICK at \in Instants : S \in Selectable(at)
      BY <1>4 DEF PlanRecall
    <2>2. S \subseteq Eligible(at) /\ S \in Selections
      BY <1>1, <2>1, EligibleAreHeld DEF Selectable, Selections
    <2>3. next \in Plan /\ next.phase = "planned" /\ next.selections = S
      BY <1>1, <2>2 DEF Plan, Phases
    <2>4. plans[p] = NoPlan /\ plans' = [plans EXCEPT ![p] = next] /\ UNCHANGED <<vars, clock, retired>>
      BY <1>4 DEF PlanRecall
    <2> HIDE DEF next
    <2>5. /\ plans' \in [Planners -> Plan \cup {NoPlan}] /\ plans'[p] = next
          /\ \A q \in Planners \ {p} : plans'[q] = plans[q]
      BY <1>1, <2>3, <2>4, PlanReplaced
    <2>6. NewlyPlanned(p)
      BY <2>2, <2>3, <2>4, <2>5 DEF NewlyPlanned
    <2> QED BY <1>2, <2>3, <2>4, <2>5, <2>6 DEF PlanEffect
  <1>5. ASSUME LoadMarkers(p) PROVE PlannersStep(p)
    <2>1. Resolvable(p) /\ Phase(p) # "none" /\ UNCHANGED <<vars, clock, retired>> /\ plans[p] \in Plan
      BY <1>1, <1>5, ResolvableIsPlan DEF LoadMarkers, Phase, NoPlan
    <2>2. PICK at \in Sampled(p) :
            IF SelectionIsCurrent(plans[p].selections, at)
            THEN plans' = [plans EXCEPT ![p].phase = "loaded", ![p].instant = clock,
                             ![p].rows = {records[m[1]].until : m \in plans[p].selections}]
            ELSE Step(p, "stale")
      BY <1>5 DEF LoadMarkers
    <2>3. CASE SelectionIsCurrent(plans[p].selections, at)
      <3> DEFINE rows == {records[m[1]].until : m \in plans[p].selections}
                 next == [plans[p] EXCEPT !.phase = "loaded", !.instant = clock, !.rows = rows]
      <3>1. rows \subseteq Deadlines \cup {Unset}
        BY <1>1, <2>3, MarkersAreHeld DEF SelectionIsCurrent
      <3> HIDE DEF rows
      <3>2. plans' = [plans EXCEPT ![p] = next]
        BY <1>1, <2>2, <2>3 DEF rows
      <3>3. /\ next \in Plan /\ next.phase = "loaded" /\ next.rows = rows
            /\ next.selections = plans[p].selections /\ next.checkpoint = plans[p].checkpoint
        BY <1>1, <2>1, <3>1 DEF Plan, Phases
      <3> HIDE DEF next
      <3>4. /\ plans' \in [Planners -> Plan \cup {NoPlan}] /\ plans'[p] = next
            /\ \A q \in Planners \ {p} : plans'[q] = plans[q]
        BY <1>1, <3>2, <3>3, PlanReplaced
      <3>5. Loaded(p)
        BY <2>1, <2>3, <3>3, <3>4 DEF Loaded, SamePlan, rows
      <3> QED BY <1>2, <2>1, <3>3, <3>4, <3>5 DEF PlanEffect
    <2>4. CASE ~SelectionIsCurrent(plans[p].selections, at)
      <3>1. Step(p, "stale") /\ "stale" \in Phases
        BY <2>2, <2>4 DEF Phases
      <3>2. plans'[p].phase = "stale" => Refused(p)
        BY <2>1, <2>4 DEF Refused
      <3> QED BY <1>3, <2>1, <3>1, <3>2
    <2> QED BY <2>3, <2>4
  <1>6. ASSUME ResolveEmpty(p) PROVE PlannersStep(p)
    <2>1. Phase(p) # "none" /\ Step(p, "returned") /\ "returned" \in Phases
      BY <1>6, ResolvableIsPlan DEF ResolveEmpty, Phases
    <2>2. plans'[p].phase = "returned" => Returned(p)
      BY <1>6 DEF ResolveEmpty, Returned
    <2> QED BY <1>3, <1>6, <2>1, <2>2 DEF ResolveEmpty
  <1>7. ASSUME ValidateSnapshot(p) PROVE PlannersStep(p)
    <2>1. PICK at \in Sampled(p) :
            Step(p, IF StillCurrent(plans[p].selections, at) THEN "validated" ELSE "stale")
      BY <1>7 DEF ValidateSnapshot
    <2>2. Phase(p) = "loaded" /\ UNCHANGED <<vars, clock, retired>>
      BY <1>7 DEF ValidateSnapshot
    <2>3. CASE SelectionIsCurrent(plans[p].selections, at)
      <3>1. Step(p, "validated") /\ "validated" \in Phases
        BY <2>1, <2>3 DEF StillCurrent, Phases
      <3>2. plans'[p].phase = "validated" => Validated(p)
        BY <2>2, <2>3 DEF Validated
      <3> QED BY <1>3, <2>2, <3>1, <3>2
    <2>4. CASE ~SelectionIsCurrent(plans[p].selections, at)
      <3>1. Step(p, "stale") /\ "stale" \in Phases
        BY <2>1, <2>4 DEF StillCurrent, Phases
      <3>2. plans'[p].phase = "stale" => Refused(p)
        BY <2>2, <2>4 DEF Refused
      <3> QED BY <1>3, <2>2, <3>1, <3>2
    <2> QED BY <2>3, <2>4
  <1>8. ASSUME ReturnContext(p) PROVE PlannersStep(p)
    <2>1. PICK at \in Sampled(p) :
            Step(p, IF WithinDeadlines(plans[p].rows, at) THEN "returned" ELSE "stale")
      BY <1>8 DEF ReturnContext
    <2>2. Phase(p) = "validated" /\ UNCHANGED <<vars, clock, retired>>
      BY <1>8 DEF ReturnContext
    <2>3. CASE WithinDeadlines(plans[p].rows, at)
      <3>1. Step(p, "returned") /\ "returned" \in Phases
        BY <2>1, <2>3 DEF Phases
      <3>2. plans'[p].phase = "returned" => Returned(p)
        BY <2>2, <2>3 DEF Returned
      <3> QED BY <1>3, <2>2, <3>1, <3>2
    <2>4. CASE ~WithinDeadlines(plans[p].rows, at)
      <3>1. Step(p, "stale") /\ "stale" \in Phases
        BY <2>1, <2>4 DEF Phases
      <3>2. plans'[p].phase = "stale" => Refused(p)
        BY <2>2, <2>4 DEF Refused
      <3> QED BY <1>3, <2>2, <3>1, <3>2
    <2> QED BY <2>3, <2>4
  <1>9. ASSUME NEW c \in Checkpoints, Checkpointing(p, c) PROVE PlannersStep(p)
    <2>1. RequireAudit /\ plans[p] \in Plan /\ UNCHANGED <<clock, plans, retired>>
      BY <1>1, <1>9, ResolvableIsPlan DEF Checkpointing, Phase, NoPlan
    <2>2. PICK at \in Sampled(p) : CreateCheckpoint(c, plans[p].selections, at)
      BY <1>9 DEF Checkpointing
    <2> QED BY <1>1, <2>1, <2>2 DEF PlannersStep, PlanEffect
  <1>10. ASSUME NEW c \in Checkpoints, LoadManifest(p, c) PROVE PlannersStep(p)
    <2> DEFINE next == [phase |-> "manifest", instant |-> clock, rows |-> {},
                        selections |-> checkpoints[c].selections, checkpoint |-> c]
    <2>1. /\ RequireAudit /\ plans[p] = NoPlan /\ checkpoints[c].state = "active"
          /\ plans' = [plans EXCEPT ![p] = next] /\ UNCHANGED <<vars, clock, retired>>
      BY <1>10 DEF LoadManifest, Manifest
    <2>2. checkpoints[c].selections \in Selections
      BY <1>1 DEF TypeOK, Checkpoint, Selections
    <2>3. /\ next \in Plan /\ next.phase = "manifest" /\ next.checkpoint = c
          /\ next.selections = checkpoints[c].selections
      BY <1>1, <2>2 DEF Plan, Phases
    <2> HIDE DEF next
    <2>4. /\ plans' \in [Planners -> Plan \cup {NoPlan}] /\ plans'[p] = next
          /\ \A q \in Planners \ {p} : plans'[q] = plans[q]
      BY <1>1, <2>1, <2>3, PlanReplaced
    <2>5. ManifestRead(p)
      BY <2>1, <2>3, <2>4 DEF ManifestRead
    <2> QED BY <1>2, <2>1, <2>3, <2>4, <2>5 DEF PlanEffect
  <1>11. ASSUME ReplanEqual(p) PROVE PlannersStep(p)
    <2>1. Phase(p) = "manifest" /\ Step(p, "planned") /\ "planned" \in Phases
      BY <1>11 DEF ReplanEqual, Phases
    <2>2. plans'[p].phase = "planned" => Replanned(p)
      BY <1>11 DEF ReplanEqual, SelectionReproduced, Replanned
    <2> QED BY <1>3, <1>11, <2>1, <2>2 DEF ReplanEqual
  <1>12. ASSUME ReplanDiffers(p) PROVE PlannersStep(p)
    <2>1. Phase(p) = "manifest" /\ Step(p, "mismatch") /\ "mismatch" \in Phases
      BY <1>12 DEF ReplanDiffers, Phases
    <2> QED BY <1>3, <1>12, <2>1 DEF ReplanDiffers, Replanned
  <1>13. ASSUME plans' = [plans EXCEPT ![p] = NoPlan], UNCHANGED <<clock, retired>>,
                UNCHANGED vars \/ \E c \in Checkpoints : InvalidateCheckpoint(c)
         PROVE  PlannersStep(p)
    BY <1>1, <1>13, PlanReplaced DEF PlannersStep, PlanEffect
  <1>14. ASSUME InvalidateStale(p) PROVE PlannersStep(p)
    <2>1. plans[p].checkpoint \in Checkpoints
      BY <1>14 DEF InvalidateStale, RecallBase, ManifestsNamed
    <2> QED BY <1>13, <1>14, <2>1 DEF InvalidateStale
  <1>15. ASSUME Drop(p) PROVE PlannersStep(p)
    BY <1>13, <1>15 DEF Drop
  <1> QED BY <1>4, <1>5, <1>6, <1>7, <1>8, <1>9, <1>10, <1>11, <1>12, <1>14, <1>15 DEF PlannerStep

LEMMA CheckpointingIsLedgers ==
  ASSUME NEW c \in Checkpoints, NEW S, NEW at \in Instants,
         CreateCheckpoint(c, S, at) \/ InvalidateCheckpoint(c)
  PROVE  CheckpointCommand
  BY DEF CheckpointCommand, CreateCheckpoint

(* The four kinds of step, and what each does to the ledger.                *)
LEMMA RecallSteps ==
  ASSUME RecallBase, RecallNext
  PROVE  \/ \E p \in Planners : PlannersStep(p)
         \/ /\ \/ \E e \in CommandIds, r \in Records : RawCommand(e, r) \/ Admission(e, r)
               \/ ScopeCommand
            /\ History
         \/ ClockTick
  BY PlannersMove DEF RecallNext, RecordCommand, ScopeWideCommand

LEMMA RecallStepsAreLedgers ==
  ASSUME RecallBase, [RecallNext]_recallVars
  PROVE  [Next]_vars
  <1>1. ASSUME NEW p \in Planners, PlannersStep(p) PROVE [Next]_vars
    <2>1. clock \in Instants
      BY DEF RecallBase, RecallTypeOK
    <2> QED BY <1>1, <2>1, CheckpointingIsLedgers DEF PlannersStep, Next
  <1> QED BY <1>1, RecallSteps DEF recallVars, ClockTick, Next

(* A held revision stays held, with its row, or is past for good.           *)
HeldRow(m) == m[1] \in payloads /\ Exists(m[1]) /\ records[m[1]].revision = m[2]
Past(m) == m[1] \in tombstones \/ (Exists(m[1]) /\ records[m[1]].revision > m[2])

LEMMA HeldAreRows ==
  ASSUME TypeOK, PayloadsFollowRows
  PROVE  /\ Held \subseteq Records \X Nat
         /\ \A m \in Records \X Nat : m \in Held <=> HeldRow(m)
  <1>1. ASSUME NEW r \in payloads
        PROVE  Marker(r) \in Records \X Nat /\ Exists(r) /\ Marker(r) = <<r, records[r].revision>>
    <2>1. r \in Records /\ Exists(r)
      BY DEF TypeOK, PayloadsFollowRows
    <2>2. records[r] \in Row
      BY <2>1, RowOfExisting
    <2> QED BY <2>1, <2>2 DEF Marker, Row
  <1>2. ASSUME NEW m \in Records \X Nat, HeldRow(m) PROVE m \in Held
    <2>1. m = Marker(m[1])
      BY <1>2 DEF HeldRow, Marker
    <2> QED BY <1>2, <2>1 DEF HeldRow, Held
  <1>3. ASSUME NEW m \in Records \X Nat, m \in Held PROVE HeldRow(m)
    <2>1. PICK r \in payloads : m = Marker(r)
      BY <1>3 DEF Held
    <2> QED BY <1>1, <2>1 DEF HeldRow
  <1> QED BY <1>1, <1>2, <1>3 DEF Held

LEMMA HeldOrPast ==
  ASSUME TypeOK, NEW m \in Records \X Nat, RowStep(m[1]), HeldRow(m)
  PROVE  (HeldRow(m)' /\ RowStays(m[1])) \/ Past(m)'
  <1>1. m[1] \in Records /\ m[2] \in Nat /\ records[m[1]] \in Row
    BY RowOfExisting DEF HeldRow
  <1>2. CASE RowStays(m[1])
    BY <1>2 DEF RowStays, HeldRow
  <1>3. CASE RowMoves(m[1])
    <2>1. records[m[1]].revision = m[2] /\ Exists(m[1])'
          /\ records'[m[1]].revision = records[m[1]].revision + 1
      BY <1>3 DEF RowMoves, HeldRow
    <2>2. records'[m[1]].revision > m[2]
      BY <1>1, <2>1
    <2> QED BY <2>1, <2>2 DEF Past
  <1>4. CASE RowGoes(m[1])
    BY <1>4 DEF RowGoes, Past
  <1>5. ~RowAppears(m[1])
    BY DEF RowAppears, HeldRow
  <1> QED BY <1>2, <1>3, <1>4, <1>5 DEF RowStep

LEMMA PastStaysPast ==
  ASSUME TypeOK, Buried, NEW m \in Records \X Nat, RowStep(m[1]), Past(m)
  PROVE  Past(m)'
  <1>1. m[1] \in Records /\ m[2] \in Nat
    OBVIOUS
  <1>2. CASE m[1] \in tombstones
    <2>1. ~Exists(m[1])
      BY <1>1, <1>2 DEF Buried
    <2>2. m[1] \in tombstones'
      BY <1>2, <2>1 DEF RowStep, RowStays, RowMoves, RowAppears, RowGoes
    <2> QED BY <2>2 DEF Past
  <1>3. CASE Exists(m[1]) /\ records[m[1]].revision > m[2]
    <2>1. records[m[1]] \in Row
      BY <1>1, <1>3, RowOfExisting
    <2>2. records[m[1]].revision \in Nat
      BY <2>1 DEF Row
    <2>3. CASE RowGoes(m[1])
      BY <2>3 DEF RowGoes, Past
    <2>4. CASE ~RowGoes(m[1])
      <3>1. Exists(m[1])' /\ records'[m[1]].revision \in {records[m[1]].revision, records[m[1]].revision + 1}
        BY <1>3, <2>4 DEF RowStep, RowStays, RowMoves, RowAppears
      <3>2. records'[m[1]].revision > m[2]
        BY <1>1, <1>3, <2>2, <3>1
      <3> QED BY <3>1, <3>2 DEF Past
    <2> QED BY <2>3, <2>4
  <1> QED BY <1>2, <1>3 DEF Past

LEMMA PastIsNoLongerHeld ==
  ASSUME PayloadsFollowRows', NEW m \in Records \X Nat, Past(m)'
  PROVE  m \notin Held'
  <1>1. ASSUME NEW r \in payloads', m = <<r, records'[r].revision>> PROVE FALSE
    <2>1. m[1] = r /\ m[2] = records'[r].revision /\ m[2] \in Nat
      BY <1>1
    <2>2. r \in Records /\ r \notin tombstones'
      BY <2>1 DEF PayloadsFollowRows
    <2> QED BY <2>1, <2>2 DEF Past
  <1>2. \A r : Marker(r)' = <<r, records'[r].revision>>
    BY DEF Marker
  <1> QED BY <1>1, <1>2 DEF Held

(* Only the command that makes a checkpoint makes one active.               *)
CheckpointsFade ==
  \A c \in Checkpoints : checkpoints'[c].state = "active" => checkpoints'[c] = checkpoints[c]

LEMMA InvalidationsFade ==
  ASSUME NEW V, checkpoints' = CheckpointsWithout(V)
  PROVE  CheckpointsFade
  BY DEF CheckpointsFade, CheckpointsWithout, Invalidated

LEMMA TransitionsFade ==
  ASSUME NEW e, NEW r, NEW type, NEW at, NEW other, Transition(e, r, type, at, other)
  PROVE  CheckpointsFade
  BY InvalidationsFade DEF Transition

LEMMA ForgetsFade ==
  ASSUME NEW V, NEW id, NEW at, ForgetAll(V, id, at)
  PROVE  CheckpointsFade
  BY InvalidationsFade DEF ForgetAll

LEMMA CommandsFade ==
  ASSUME \/ \E e \in CommandIds, r \in Records : RawCommand(e, r) \/ Admission(e, r)
         \/ ScopeCommand
  PROVE  CheckpointsFade
  <1>1. ASSUME NEW e \in CommandIds, NEW r \in Records, RawCommand(e, r) PROVE CheckpointsFade
    <2>1. ASSUME NEW s, NEW origin, NEW from, NEW until, NEW at,
                 CreateCandidate(e, r, s, origin, from, until, at)
          PROVE  CheckpointsFade
      BY <2>1 DEF CreateCandidate, CheckpointsFade
    <2>2. ASSUME NEW rev, NEW type, NEW at, Command(e, r, rev, type, at) PROVE CheckpointsFade
      BY <2>2, TransitionsFade DEF Command
    <2>3. ASSUME NEW q, NEW rev, NEW qrev, NEW at, Supersede(e, r, q, rev, qrev, at)
          PROVE  CheckpointsFade
      BY <2>3, TransitionsFade DEF Supersede
    <2>4. ASSUME NEW rev, NEW at, Forget(e, r, rev, at) PROVE CheckpointsFade
      BY <2>4, ForgetsFade DEF Forget
    <2>5. ASSUME NEW rev, Erase(e, r, rev) PROVE CheckpointsFade
      BY <2>5, InvalidationsFade DEF Erase
    <2> QED BY <1>1, <2>1, <2>2, <2>3, <2>4, <2>5 DEF RawCommand, Confirm, Quarantine, Expire, Retract
  <1>2. ASSUME NEW e \in CommandIds, NEW r \in Records, Admission(e, r) PROVE CheckpointsFade
    <2>1. PICK rev \in Revisions, origin \in ConcreteOrigins, action \in Actions,
               at \in Instants, ledgerNow \in Instants :
               ApplyAdmissionReview(e, r, rev, origin, action, at, ledgerNow)
      BY <1>2 DEF Admission
    <2>2. \/ ForgetAll({r}, [q \in {r} |-> e], at)
          \/ Transition(e, r, AdmissionEvent[action], at, NoRecord)
      BY <2>1 DEF ApplyAdmissionReview
    <2> QED BY <2>2, TransitionsFade, ForgetsFade
  <1>3. ASSUME ScopeCommand PROVE CheckpointsFade
    BY <1>3, ForgetsFade DEF ScopeCommand, ForgetBySource, PurgePayloads
  <1> QED BY <1>1, <1>2, <1>3

-----------------------------------------------------------------------------
(* The recall planner beside the ledger: what a plan may rely on.           *)

LEMMA NextKeepsBase ==
  ASSUME TypeOK, PayloadsFollowRows, [Next]_vars
  PROVE  TypeOK' /\ PayloadsFollowRows' /\ Buried /\ \A q \in Records : RowStep(q)
  <1>1. Buried
    BY DEF Buried, PayloadsFollowRows, TypeOK
  <1>2. PayloadsFollowRows'
    BY NextIsSound DEF StepIsSound
  <1>3. CASE Next
    BY <1>1, <1>2, <1>3, NextIsHosts, StepsMoveRows
  <1>4. CASE UNCHANGED vars
    <2>1. TypeOK'
      BY <1>4 DEF vars, TypeOK
    <2>2. \A q \in Records : RowStays(q)
      BY <1>4, UntouchedStays DEF vars
    <2> QED BY <1>1, <1>2, <2>1, <2>2 DEF RowStep
  <1> QED BY <1>3, <1>4

Creates(p, c) ==
  /\ RequireAudit /\ plans[p] \in Plan
  /\ \E at \in Instants : CreateCheckpoint(c, plans[p].selections, at)

(* One step: the plans, the rows, the history of markers, the checkpoints.  *)
RecallEffect ==
  /\ TypeOK' /\ PayloadsFollowRows' /\ Buried
  /\ plans' \in [Planners -> Plan \cup {NoPlan}] /\ clock' \in Instants
  /\ \A p \in Planners : PlanEffect(p)
  /\ \A q \in Records : RowStep(q)
  /\ \/ retired' = retired \cup (Held \ Held')
     \/ UNCHANGED <<records, payloads, tombstones, retired>>
  /\ \/ CheckpointsFade
     \/ \E p \in Planners, c \in Checkpoints : Creates(p, c)

LEMMA RecallStepEffect ==
  ASSUME RecallBase, [RecallNext]_recallVars
  PROVE  RecallEffect
  <1>1. /\ TypeOK /\ PayloadsFollowRows /\ clock \in Instants
        /\ plans \in [Planners -> Plan \cup {NoPlan}]
    BY DEF RecallBase, RecallTypeOK
  <1>2. TypeOK' /\ PayloadsFollowRows' /\ Buried /\ \A q \in Records : RowStep(q)
    BY <1>1, RecallStepsAreLedgers, NextKeepsBase
  <1>3. CASE UNCHANGED <<vars, plans, retired>> /\ clock' \in Instants
    BY <1>1, <1>2, <1>3 DEF vars, RecallEffect, PlanEffect, CheckpointsFade
  <1>4. ASSUME NEW p \in Planners, PlannersStep(p) PROVE RecallEffect
    <2>1. UNCHANGED <<records, payloads, tombstones, retired>>
      BY <1>4 DEF PlannersStep, vars, InvalidateCheckpoint, CreateCheckpoint
    <2>2. CheckpointsFade \/ \E c \in Checkpoints : Creates(p, c)
      <3>1. CASE UNCHANGED vars
        BY <3>1 DEF vars, CheckpointsFade
      <3>2. ASSUME NEW c \in Checkpoints, InvalidateCheckpoint(c) PROVE CheckpointsFade
        BY <1>1, <3>2 DEF InvalidateCheckpoint, CheckpointsFade, Invalidated, TypeOK
      <3> QED BY <1>4, <3>1, <3>2 DEF PlannersStep, Creates
    <2> QED BY <1>1, <1>2, <1>4, <2>1, <2>2 DEF PlannersStep, RecallEffect
  <1>5. ASSUME \/ \E e \in CommandIds, r \in Records : RawCommand(e, r) \/ Admission(e, r)
               \/ ScopeCommand,
               History
        PROVE  RecallEffect
    BY <1>1, <1>2, <1>5, CommandsFade DEF History, RecallEffect, PlanEffect
  <1>6. CASE UNCHANGED recallVars
    BY <1>1, <1>3, <1>6 DEF recallVars
  <1>7. CASE ClockTick
    BY <1>3, <1>7 DEF ClockTick
  <1> QED BY <1>4, <1>5, <1>6, <1>7, RecallSteps

LEMMA BaseInductive ==
  ASSUME RecallBase, [RecallNext]_recallVars
  PROVE  RecallBase'
  <1>1. RecallEffect
    BY RecallStepEffect
  <1>2. retired' \in Selections
    <2>1. Held \subseteq Records \X Nat
      BY HeldAreRows DEF RecallBase, RecallTypeOK
    <2> QED BY <1>1, <2>1 DEF RecallEffect, RecallBase, RecallTypeOK, Selections
  <1>3. ASSUME NEW p \in Planners, plans'[p].phase \in {"manifest", "mismatch"}
        PROVE  plans'[p].checkpoint \in Checkpoints
    <2>1. PlanEffect(p)
      BY <1>1 DEF RecallEffect
    <2>2. Phase(p) \in {"manifest", "mismatch"} => plans[p].checkpoint \in Checkpoints
      BY DEF RecallBase, ManifestsNamed
    <2>3. CASE plans'[p] = plans[p]
      BY <1>3, <2>2, <2>3 DEF Phase
    <2>4. CASE plans'[p] = NoPlan
      BY <1>3, <2>4 DEF NoPlan
    <2>5. CASE ManifestRead(p)
      BY <2>5 DEF ManifestRead
    <2>6. CASE SamePlan(p) /\ Replanned(p)
      BY <2>2, <2>6 DEF SamePlan, Replanned
    <2> QED BY <1>3, <2>1, <2>3, <2>4, <2>5, <2>6
            DEF PlanEffect, NewlyPlanned, Loaded, Validated, Returned, Refused
  <1> QED BY <1>1, <1>2, <1>3 DEF RecallEffect, RecallBase, RecallTypeOK, ManifestsNamed, Phase

LEMMA BaseHolds == RecallSpec => []RecallBase
  <1>1. RecallInit => RecallBase
    <2> SUFFICES ASSUME RecallInit PROVE RecallBase
      OBVIOUS
    <2>1. TypeOK /\ PayloadsFollowRows
      BY InitTyped DEF RecallInit, Init, PayloadsFollowRows, Exists
    <2>2. clock \in Instants /\ plans \in [Planners -> Plan \cup {NoPlan}] /\ retired \in Selections
      BY DEF RecallInit, Selections
    <2>3. \A p \in Planners : Phase(p) = "none"
      BY DEF RecallInit, Phase, NoPlan
    <2> QED BY <2>1, <2>2, <2>3 DEF RecallBase, RecallTypeOK, ManifestsNamed
  <1> QED BY <1>1, BaseInductive, PTL DEF RecallSpec

(* The planner, its checkpoints and the clock take ledger steps only: what  *)
(* is proved of the ledger holds beside recall.                             *)
THEOREM RecallIsLedger == RecallSpec => Spec
  <1>1. RecallBase /\ [RecallNext]_recallVars => [Next]_vars
    BY RecallStepsAreLedgers
  <1>2. RecallInit => Init
    BY DEF RecallInit
  <1> QED BY <1>1, <1>2, BaseHolds, PTL DEF RecallSpec, Spec

(* A selected marker is held or retired, and one that a resolve has read    *)
(* kept the deadline it read.                                               *)
ReadAs(m, d) == m \in retired \/ (HeldRow(m) /\ records[m[1]].until = d)

RetiredArePast == \A m \in retired : Past(m)

SelectionsLast ==
  \A p \in Planners : plans[p] \in Plan =>
    \A m \in plans[p].selections : m \in retired \/ HeldRow(m)

RowsAreRead ==
  \A p \in Planners : Phase(p) \in {"loaded", "validated"} =>
    \A d \in plans[p].rows : \E m \in plans[p].selections : ReadAs(m, d)

(* With require_admission_audit no plan selects, and no checkpoint seals, a *)
(* record of unknown origin.                                                *)
OfKnownOrigin(r) == r \in tombstones \/ (Exists(r) /\ records[r].origin # "unknown")

PlansAreKnown ==
  RequireAudit => \A p \in Planners : plans[p] \in Plan =>
                    \A m \in plans[p].selections : OfKnownOrigin(m[1])

SealedAreTrusted ==
  \A c \in Checkpoints : checkpoints[c].state = "active" =>
    \A m \in checkpoints[c].selections :
      /\ Exists(m[1]) /\ records[m[1]].trust = "host_confirmed"
      /\ records[m[1]].origin # "unknown"

RecallInv == RetiredArePast /\ SelectionsLast /\ RowsAreRead /\ PlansAreKnown /\ SealedAreTrusted

LEMMA ReadingsLast ==
  ASSUME RecallBase, RecallEffect, NEW m \in Records \X Nat, NEW d, ReadAs(m, d)
  PROVE  ReadAs(m, d)'
  <1>1. TypeOK /\ PayloadsFollowRows /\ TypeOK' /\ PayloadsFollowRows' /\ RowStep(m[1])
    BY DEF RecallBase, RecallTypeOK, RecallEffect
  <1>2. retired \subseteq retired'
    BY DEF RecallEffect
  <1>3. CASE UNCHANGED <<records, payloads, tombstones, retired>>
    BY <1>3 DEF ReadAs, HeldRow, Exists
  <1>4. CASE retired' = retired \cup (Held \ Held') /\ HeldRow(m) /\ records[m[1]].until = d
    <2>1. m \in Held
      BY <1>1, <1>4, HeldAreRows
    <2>2. CASE Past(m)'
      <3>1. m \notin Held'
        BY <1>1, <2>2, PastIsNoLongerHeld
      <3> QED BY <1>4, <2>1, <3>1 DEF ReadAs
    <2>3. CASE HeldRow(m)' /\ RowStays(m[1])
      BY <1>4, <2>3 DEF ReadAs, RowStays, HeldRow
    <2> QED BY <1>1, <1>4, <2>2, <2>3, HeldOrPast
  <1> QED BY <1>2, <1>3, <1>4 DEF RecallEffect, ReadAs

LEMMA MarkersLast ==
  ASSUME RecallBase, RecallEffect, NEW m \in Records \X Nat, m \in retired \/ HeldRow(m)
  PROVE  (m \in retired \/ HeldRow(m))'
  <1>1. PICK d : d = records[m[1]].until
    OBVIOUS
  <1>2. ReadAs(m, d)
    BY <1>1 DEF ReadAs
  <1> QED BY <1>2, ReadingsLast DEF ReadAs

(* What the steps of a planner take into a plan is held, and trusted.       *)
LEMMA SealedAreHeld ==
  ASSUME TypeOK, PayloadsFollowRows, CheckpointsAreCurrent, SealedAreTrusted,
         NEW c \in Checkpoints, checkpoints[c].state = "active",
         NEW m \in checkpoints[c].selections
  PROVE  /\ m \in Records \X Nat /\ HeldRow(m)
         /\ records[m[1]].trust = "host_confirmed" /\ OfKnownOrigin(m[1])
  <1>1. checkpoints[c] \in Checkpoint
    BY DEF TypeOK
  <1>2. m \in Records \X Nat
    BY <1>1 DEF Checkpoint
  <1>3. HeldRow(m)
    BY <1>2 DEF CheckpointsAreCurrent, PayloadsFollowRows, HeldRow
  <1>4. records[m[1]].trust = "host_confirmed" /\ OfKnownOrigin(m[1])
    BY DEF SealedAreTrusted, OfKnownOrigin
  <1> QED BY <1>2, <1>3, <1>4

LEMMA OriginsStay ==
  ASSUME Buried, NEW r \in Records, RowStep(r), OfKnownOrigin(r)
  PROVE  OfKnownOrigin(r)'
  <1>1. CASE r \in tombstones
    <2>1. r \in tombstones'
      BY <1>1 DEF Buried, RowStep, RowStays, RowMoves, RowAppears, RowGoes
    <2> QED BY <2>1 DEF OfKnownOrigin
  <1>2. CASE Exists(r) /\ records[r].origin # "unknown"
    BY <1>2 DEF OfKnownOrigin, RowStep, RowStays, RowMoves, RowAppears, RowGoes
  <1> QED BY <1>1, <1>2 DEF OfKnownOrigin

(* A plan after a step was one before, or has just been made.               *)
LEMMA PlansBefore ==
  ASSUME RecallEffect, NEW p \in Planners, plans'[p] \in Plan
  PROVE  \/ NewlyPlanned(p) \/ ManifestRead(p)
         \/ plans[p] \in Plan /\ plans'[p].selections = plans[p].selections
  <1>1. PlanEffect(p) /\ NoPlan \notin Plan
    BY DEF RecallEffect, NoPlan, Plan, Phases
  <1> QED BY <1>1 DEF PlanEffect, SamePlan, Loaded

LEMMA RetiredArePastStep ==
  ASSUME RecallBase, RecallEffect, RetiredArePast
  PROVE  RetiredArePast'
  <1>1. TypeOK /\ PayloadsFollowRows /\ TypeOK' /\ PayloadsFollowRows' /\ Buried
        /\ retired \subseteq Records \X Nat
    BY DEF RecallBase, RecallTypeOK, RecallEffect, Selections
  <1>2. ASSUME NEW m \in retired PROVE Past(m)'
    <2>1. m \in Records \X Nat /\ RowStep(m[1]) /\ Past(m)
      BY <1>1 DEF RecallEffect, RetiredArePast
    <2> QED BY <1>1, <2>1, PastStaysPast
  <1>3. ASSUME NEW m \in Held, m \notin Held' PROVE Past(m)'
    <2>1. m \in Records \X Nat /\ HeldRow(m)
      BY <1>1, HeldAreRows
    <2>2. RowStep(m[1])
      BY <2>1 DEF RecallEffect
    <2>3. ~HeldRow(m)'
      <3>1. SUFFICES ASSUME HeldRow(m)' PROVE m \in Held'
        BY <1>3
      <3>2. m = Marker(m[1])'
        BY <2>1, <3>1 DEF HeldRow, Marker
      <3> QED BY <3>1, <3>2 DEF HeldRow, Held
    <2> QED BY <1>1, <2>1, <2>2, <2>3, HeldOrPast
  <1>4. retired' \subseteq retired \cup (Held \ Held')
    BY DEF RecallEffect
  <1> QED BY <1>2, <1>3, <1>4 DEF RetiredArePast

LEMMA SelectionsLastStep ==
  ASSUME RecallBase, RecallEffect, CheckpointsAreCurrent, SealedAreTrusted, SelectionsLast
  PROVE  SelectionsLast'
  <1>1. TypeOK /\ PayloadsFollowRows
    BY DEF RecallBase, RecallTypeOK
  <1>2. ASSUME NEW p \in Planners, plans'[p] \in Plan, NEW m \in plans'[p].selections
        PROVE  (m \in retired \/ HeldRow(m))'
    <2>1. m \in Records \X Nat
      BY <1>2 DEF Plan, Selections
    <2>2. m \in retired \/ HeldRow(m)
      <3>1. CASE NewlyPlanned(p)
        BY <1>1, <1>2, <3>1, EligibleAreHeld DEF NewlyPlanned, HeldRow
      <3>2. CASE ManifestRead(p)
        BY <1>1, <1>2, <3>2, SealedAreHeld DEF ManifestRead
      <3>3. CASE plans[p] \in Plan /\ plans'[p].selections = plans[p].selections
        BY <1>2, <3>3 DEF SelectionsLast
      <3> QED BY <1>2, <3>1, <3>2, <3>3, PlansBefore
    <2> QED BY <2>1, <2>2, MarkersLast
  <1> QED BY <1>2 DEF SelectionsLast

LEMMA RowsAreReadStep ==
  ASSUME RecallBase, RecallEffect, RowsAreRead
  PROVE  RowsAreRead'
  <1>1. TypeOK /\ \A p \in Planners : plans[p] \in Plan \cup {NoPlan}
    BY DEF RecallBase, RecallTypeOK
  <1>2. ASSUME NEW p \in Planners, plans'[p].phase \in {"loaded", "validated"},
               NEW d \in plans'[p].rows
        PROVE  \E m \in plans'[p].selections : ReadAs(m, d)'
    <2>1. /\ plans[p] \in Plan /\ plans'[p].selections = plans[p].selections
          /\ \E m \in plans[p].selections : ReadAs(m, d)
      <3>1. PlanEffect(p)
        BY DEF RecallEffect
      <3>2. CASE plans'[p] = plans[p]
        <4>1. Phase(p) \in {"loaded", "validated"} /\ d \in plans[p].rows
          BY <1>2, <3>2 DEF Phase
        <4>2. plans[p] \in Plan
          BY <1>1, <4>1 DEF Phase, NoPlan
        <4> QED BY <3>2, <4>1, <4>2 DEF RowsAreRead
      <3>3. CASE plans'[p] = NoPlan
        BY <1>2, <3>3 DEF NoPlan
      <3>4. CASE plans[p] \in Plan /\ Loaded(p)
        <4>1. PICK at \in Sampled(p) : plans[p].selections \subseteq Markers(at)
          BY <3>4 DEF Loaded, SelectionIsCurrent
        <4>2. PICK m \in plans[p].selections : d = records[m[1]].until
          BY <1>2, <3>4 DEF Loaded
        <4>3. HeldRow(m)
          BY <1>1, <4>1, MarkersAreHeld DEF HeldRow
        <4> QED BY <3>4, <4>2, <4>3 DEF Loaded, SamePlan, ReadAs
      <3>5. CASE /\ plans[p] \in Plan /\ SamePlan(p) /\ plans'[p].rows = plans[p].rows
                 /\ Validated(p)
        BY <1>2, <3>5 DEF SamePlan, Validated, RowsAreRead
      <3> QED BY <1>2, <3>1, <3>2, <3>3, <3>4, <3>5
              DEF PlanEffect, NewlyPlanned, ManifestRead, Returned, Refused, Replanned
    <2>2. PICK m \in plans[p].selections : ReadAs(m, d)
      BY <2>1
    <2>3. m \in Records \X Nat
      BY <2>1, <2>2 DEF Plan, Selections
    <2>4. ReadAs(m, d)'
      BY <2>2, <2>3, ReadingsLast
    <2> QED BY <2>1, <2>4
  <1> QED BY <1>2 DEF RowsAreRead, Phase

LEMMA PlansAreKnownStep ==
  ASSUME RecallBase, RecallEffect, CheckpointsAreCurrent, SealedAreTrusted, PlansAreKnown
  PROVE  PlansAreKnown'
  <1>1. TypeOK /\ PayloadsFollowRows /\ Buried
    BY DEF RecallBase, RecallTypeOK, RecallEffect
  <1>2. ASSUME RequireAudit, NEW p \in Planners, plans'[p] \in Plan, NEW m \in plans'[p].selections
        PROVE  OfKnownOrigin(m[1])'
    <2>1. m[1] \in Records
      BY <1>2 DEF Plan, Selections
    <2>2. OfKnownOrigin(m[1])
      <3>1. CASE NewlyPlanned(p)
        BY <1>1, <1>2, <3>1, EligibleAreHeld DEF NewlyPlanned, OfKnownOrigin
      <3>2. CASE ManifestRead(p)
        BY <1>1, <1>2, <3>2, SealedAreHeld DEF ManifestRead
      <3>3. CASE plans[p] \in Plan /\ plans'[p].selections = plans[p].selections
        BY <1>2, <3>3 DEF PlansAreKnown
      <3> QED BY <1>2, <3>1, <3>2, <3>3, PlansBefore
    <2>3. RowStep(m[1])
      BY <2>1 DEF RecallEffect
    <2> QED BY <1>1, <2>1, <2>2, <2>3, OriginsStay
  <1> QED BY <1>2 DEF PlansAreKnown

LEMMA SealedAreTrustedStep ==
  ASSUME RecallBase, RecallEffect, CheckpointsAreCurrent, CheckpointsAreCurrent',
         PlansAreKnown, SealedAreTrusted
  PROVE  SealedAreTrusted'
  <1>1. /\ TypeOK /\ TypeOK' /\ PayloadsFollowRows /\ PayloadsFollowRows'
        /\ \A q \in Records : RowStep(q)
    BY DEF RecallBase, RecallTypeOK, RecallEffect
  <1>2. ASSUME NEW c \in Checkpoints, checkpoints'[c].state = "active",
               checkpoints'[c] = checkpoints[c], NEW m \in checkpoints'[c].selections
        PROVE  /\ Exists(m[1])' /\ records'[m[1]].trust = "host_confirmed"
               /\ records'[m[1]].origin # "unknown"
    <2>1. Exists(m[1]) /\ records[m[1]].trust = "host_confirmed" /\ records[m[1]].origin # "unknown"
      BY <1>2 DEF SealedAreTrusted
    <2>2. m[1] \in payloads'
      BY <1>2 DEF CheckpointsAreCurrent
    <2>3. m[1] \in Records
      BY <1>1, <2>2 DEF TypeOK
    <2>4. RowStep(m[1]) /\ Exists(m[1])'
      BY <1>1, <2>2, <2>3 DEF PayloadsFollowRows
    <2> QED BY <2>1, <2>4 DEF RowStep, RowStays, RowMoves, RowAppears, RowGoes
  <1>3. ASSUME NEW p \in Planners, NEW b \in Checkpoints, Creates(p, b)
        PROVE  SealedAreTrusted'
    <2>1. PICK at \in Instants : CreateCheckpoint(b, plans[p].selections, at)
      BY <1>3 DEF Creates
    <2>2. UNCHANGED records /\ checkpoints'[b].selections = plans[p].selections
          /\ \A c \in Checkpoints \ {b} : checkpoints'[c] = checkpoints[c]
      BY <1>1, <2>1 DEF CreateCheckpoint, TypeOK
    <2>3. ASSUME NEW m \in plans[p].selections
          PROVE  /\ Exists(m[1]) /\ records[m[1]].trust = "host_confirmed"
                 /\ records[m[1]].origin # "unknown"
      <3>1. m \in Markers(at)
        BY <2>1 DEF CreateCheckpoint
      <3>2. Exists(m[1]) /\ records[m[1]].trust = "host_confirmed" /\ m[1] \in payloads
        BY <1>1, <3>1, MarkersAreHeld
      <3>3. m[1] \notin tombstones
        BY <1>1, <3>2 DEF PayloadsFollowRows, TypeOK
      <3> QED BY <1>3, <3>2, <3>3 DEF Creates, PlansAreKnown, OfKnownOrigin
    <2> QED BY <1>2, <2>2, <2>3 DEF SealedAreTrusted, Exists
  <1> QED BY <1>2, <1>3 DEF RecallEffect, CheckpointsFade, SealedAreTrusted

LEMMA RecallInductive ==
  ASSUME RecallBase, CheckpointsAreCurrent, CheckpointsAreCurrent', RecallInv,
         [RecallNext]_recallVars
  PROVE  RecallInv'
  <1>1. RecallEffect
    BY RecallStepEffect
  <1> QED BY <1>1, RetiredArePastStep, SelectionsLastStep, RowsAreReadStep,
             PlansAreKnownStep, SealedAreTrustedStep DEF RecallInv

LEMMA RecallHolds == RecallSpec => [](RecallBase /\ CheckpointsAreCurrent /\ RecallInv)
  <1>1. RecallInit => RecallInv
    <2> SUFFICES ASSUME RecallInit PROVE RecallInv
      OBVIOUS
    <2>1. retired = {} /\ \A p \in Planners : plans[p] = NoPlan
      BY DEF RecallInit
    <2>2. NoPlan \notin Plan /\ NoPlan.phase = "none"
      BY DEF NoPlan, Plan, Phases
    <2>3. \A c \in Checkpoints : checkpoints[c].state # "active"
      BY DEF RecallInit, Init, UnusedCheckpoint
    <2> QED BY <2>1, <2>2, <2>3 DEF RecallInv, RetiredArePast, SelectionsLast, RowsAreRead,
               PlansAreKnown, SealedAreTrusted, Phase
  <1>2. RecallBase /\ CheckpointsAreCurrent /\ CheckpointsAreCurrent' /\ RecallInv
        /\ [RecallNext]_recallVars => RecallInv'
    BY RecallInductive
  <1> QED BY <1>1, <1>2, BaseHolds, RecallIsLedger, CheckpointsStayCurrent, PTL DEF RecallSpec

LEMMA HeldIsNotRetired ==
  ASSUME RecallBase, RetiredArePast, NEW m \in Records \X Nat, HeldRow(m)
  PROVE  m \notin retired
  <1>1. m[1] \in Records /\ m[2] \in Nat /\ records[m[1]].revision = m[2] /\ m[1] \notin tombstones
    BY DEF HeldRow, RecallBase, PayloadsFollowRows
  <1> QED BY <1>1 DEF RetiredArePast, Past

LEMMA MovesAreOfPlans ==
  ASSUME RecallBase, NEW p \in Planners, NEW from \in Phases, NEW to, Moves(p, from, to)
  PROVE  plans[p] \in Plan /\ plans[p].phase = from /\ plans'[p].phase = to /\ plans'[p] # NoPlan
  <1>1. plans[p] \in Plan \cup {NoPlan} /\ "none" \notin Phases
    BY DEF RecallBase, RecallTypeOK, Phases
  <1> QED BY <1>1 DEF Moves, Phase, NoPlan

(* What a resolve has just compared with the ledger, or a resume planned    *)
(* afresh, is none of it retired.                                           *)
LEMMA ComparedIsNotRetired ==
  ASSUME RecallBase, RecallInv, NEW p \in Planners, RecallEffect,
         Moves(p, "loaded", "validated") \/ Moves(p, "manifest", "planned")
  PROVE  plans[p].selections \cap retired = {}
  <1>1. TypeOK /\ PlanEffect(p)
    BY DEF RecallBase, RecallTypeOK, RecallEffect
  <1>2. \E at \in Instants : plans[p].selections \subseteq Markers(at)
                             \/ plans[p].selections \subseteq Eligible(at)
    <2>1. CASE Moves(p, "loaded", "validated")
      <3>1. plans[p].phase = "loaded" /\ plans'[p].phase = "validated" /\ plans'[p] # NoPlan
        BY <2>1, MovesAreOfPlans DEF Phases
      <3>2. Validated(p)
        BY <1>1, <3>1 DEF PlanEffect, NewlyPlanned, ManifestRead, Loaded, Returned, Refused,
              Replanned, Phase
      <3> QED BY <3>2 DEF Validated, SelectionIsCurrent, Sampled
    <2>2. CASE Moves(p, "manifest", "planned")
      <3>1. plans[p].phase = "manifest" /\ plans'[p].phase = "planned" /\ plans'[p] # NoPlan
            /\ plans[p] # NoPlan
        BY <2>2, MovesAreOfPlans DEF Phases, NoPlan
      <3>2. Replanned(p)
        BY <1>1, <3>1 DEF PlanEffect, NewlyPlanned, ManifestRead, Loaded, Returned, Refused,
              Validated, Phase
      <3> QED BY <3>1, <3>2 DEF Replanned, Sampled
    <2> QED BY <2>1, <2>2
  <1>3. ASSUME NEW m \in plans[p].selections PROVE m \notin retired
    <2>1. m \in Records \X Nat /\ HeldRow(m)
      BY <1>1, <1>2, MarkersAreHeld, EligibleAreHeld DEF HeldRow
    <2> QED BY <2>1, HeldIsNotRetired DEF RecallInv
  <1> QED BY <1>3

LEMMA SealedAreAdmitted ==
  ASSUME RecallBase, SealedAreTrusted, TrustIsAdmitted
  PROVE  CheckpointsAreAdmitted
  <1>1. ASSUME NEW c \in Checkpoints, checkpoints[c].state = "active",
               NEW m \in checkpoints[c].selections
        PROVE  \E e \in EventIds : audits[e] # NoAudit /\ audits[e].record = m[1]
                                   /\ audits[e].action = "allow"
    <2>1. m[1] \in Records
      BY DEF RecallBase, RecallTypeOK, TypeOK, Checkpoint
    <2>2. Exists(m[1]) /\ records[m[1]].trust = "host_confirmed" /\ records[m[1]].origin # "unknown"
      BY <1>1 DEF SealedAreTrusted
    <2> QED BY <2>1, <2>2 DEF TrustIsAdmitted, EventsOf
  <1> QED BY <1>1 DEF CheckpointsAreAdmitted

(* A revision that was forgotten, retracted, superseded or erased is never  *)
(* validated by a resolve nor taken back by a resume, and what is sealed in *)
(* a live checkpoint passed an admission.                                   *)
THEOREM RetiredStaysUnused == RecallSpec => RetiredIsNeverUsed
  <1>1. ASSUME RecallBase, RecallInv, [RecallNext]_recallVars
        PROVE  /\ [\A p \in Planners : Moves(p, "loaded", "validated") =>
                     plans[p].selections \cap retired = {}]_recallVars
               /\ [\A p \in Planners : Moves(p, "manifest", "planned") =>
                     plans[p].selections \cap retired = {}]_recallVars
    BY <1>1, RecallStepEffect, ComparedIsNotRetired
  <1>2. RecallBase /\ RecallInv /\ AdmissionIsAudited => CheckpointsAreAdmitted
    BY SealedAreAdmitted DEF RecallInv, AdmissionIsAudited
  <1> QED BY <1>1, <1>2, RecallHolds, RecallIsLedger, TrustLeavesItsVerdict, PTL
          DEF RecallSpec, RetiredIsNeverUsed, RetiredIsNeverValidated, ResumedAsSealed

-----------------------------------------------------------------------------
(* A request composed across an await of its retrieval.                     *)

ResolveTakes(p) ==
  LoadMarkers(p) \/ ResolveEmpty(p) \/ ValidateSnapshot(p) \/ ReturnContext(p)

LEMMA ComposerStepsAreRecalls ==
  ASSUME [ComposerNext]_composerVars
  PROVE  [RecallNext]_recallVars
  <1>1. ASSUME NEW p \in Planners, ComposerStep(p) PROVE [RecallNext]_recallVars
    <2>1. CASE Compose(p) \/ AwaitRetrieval(p) \/ Answer(p) \/ HandOut(p)
      BY <2>1 DEF Compose, AwaitRetrieval, Answer, HandOut
    <2>2. CASE ResolveStep(p)
      BY <2>2 DEF ResolveStep, PlannerStep, RecallNext
    <2>3. CASE End(p)
      BY <2>3 DEF End, PlannerStep, RecallNext
    <2> QED BY <1>1, <2>1, <2>2, <2>3 DEF ComposerStep
  <1> QED BY <1>1 DEF ComposerNext, RecallNext, composerVars

(* Composing requests takes the steps of the planner only: what is proved   *)
(* of recall holds of the plans they resolve.                               *)
THEOREM ComposerIsRecall == ComposerSpec => RecallSpec
  <1>1. ComposerInit => RecallInit
    BY DEF ComposerInit
  <1>2. [ComposerNext]_composerVars => [RecallNext]_recallVars
    BY ComposerStepsAreRecalls
  <1> QED BY <1>1, <1>2, PTL DEF ComposerSpec, RecallSpec

(* What was retired when the answer came stays retired, so that the second  *)
(* resolve cannot get past its validation.                                  *)
RequestIsSound(p) ==
  /\ Stage(p) # "none" => plans[p] \in Plan
  /\ Stage(p) \in {"awaiting", "answered"} => Phase(p) = "returned"
  /\ Stage(p) \in {"answered", "confirming"} /\ requests[p].lost => Lost(p)
  /\ Stage(p) = "confirming" /\ Phase(p) \in {"validated", "returned"} => ~requests[p].lost
  /\ Stage(p) = "handed" => ~requests[p].lost

ComposerInv ==
  /\ requests \in [Planners -> Request]
  /\ \A p \in Planners : RequestIsSound(p)

LEMMA SoundStaysSound ==
  ASSUME NEW p \in Planners, RequestIsSound(p), retired \subseteq retired',
         plans'[p] = plans[p], requests'[p] = requests[p]
  PROVE  RequestIsSound(p)'
  BY DEF RequestIsSound, Stage, Phase, Lost

LEMMA OthersKeepPlans ==
  ASSUME RecallTypeOK, NEW p \in Planners, PlannerStep(p), NEW q \in Planners \ {p}
  PROVE  plans'[q] = plans[q]
  <1>1. plans \in [Planners -> Plan \cup {NoPlan}]
    BY DEF RecallTypeOK
  <1>2. ASSUME NEW next, plans' = [plans EXCEPT ![p] = next] PROVE plans'[q] = plans[q]
    BY <1>1, <1>2
  <1>3. ASSUME NEW phase, Step(p, phase) PROVE plans'[q] = plans[q]
    BY <1>1, <1>3 DEF Step
  <1>4. CASE \E S \in SUBSET Held : PlanRecall(p, S)
    BY <1>2, <1>4 DEF PlanRecall
  <1>5. CASE LoadMarkers(p)
    BY <1>1, <1>3, <1>5 DEF LoadMarkers
  <1>6. CASE ResolveEmpty(p) \/ ValidateSnapshot(p) \/ ReturnContext(p)
    BY <1>3, <1>6 DEF ResolveEmpty, ValidateSnapshot, ReturnContext
  <1>7. CASE \E c \in Checkpoints : Checkpointing(p, c) \/ LoadManifest(p, c)
    BY <1>2, <1>7 DEF Checkpointing, LoadManifest
  <1>8. CASE ReplanEqual(p) \/ ReplanDiffers(p)
    BY <1>3, <1>8 DEF ReplanEqual, ReplanDiffers
  <1>9. CASE InvalidateStale(p) \/ Drop(p)
    BY <1>2, <1>9 DEF InvalidateStale, Drop
  <1> QED BY <1>4, <1>5, <1>6, <1>7, <1>8, <1>9 DEF PlannerStep

(* A step of a resolve carries the selections on, and is handed back only   *)
(* validated or when there is nothing to look up.                           *)
LEMMA ResolveOutcome ==
  ASSUME RecallBase, NEW p \in Planners, ResolveTakes(p)
  PROVE  /\ plans[p] \in Plan /\ plans'[p] \in Plan
         /\ plans'[p].selections = plans[p].selections /\ retired' = retired
         /\ \/ plans'[p].phase \in {"loaded", "stale"}
            \/ plans'[p].phase = "returned" /\ plans[p].selections = {}
            \/ plans'[p].phase = "returned" /\ Phase(p) = "validated"
            \/ plans'[p].phase = "validated" /\ Phase(p) = "loaded"
  <1>1. RecallTypeOK /\ TypeOK
    BY DEF RecallBase, RecallTypeOK
  <1>2. Phase(p) # "none" /\ retired' = retired
    BY ResolvableIsPlan DEF ResolveTakes, LoadMarkers, ResolveEmpty, ValidateSnapshot, ReturnContext
  <1>3. plans[p] \in Plan
    BY <1>1, <1>2 DEF RecallTypeOK, Phase, NoPlan
  <1>4. ASSUME NEW phase \in Phases, Step(p, phase)
        PROVE  plans'[p] \in Plan /\ plans'[p].phase = phase
               /\ plans'[p].selections = plans[p].selections
    BY <1>1, <1>2, <1>4, StepIsCarried DEF SamePlan
  <1>5. {"loaded", "stale", "returned", "validated"} \subseteq Phases
    BY DEF Phases
  <1>6. CASE LoadMarkers(p)
    <2>1. PICK at \in Sampled(p) :
            IF SelectionIsCurrent(plans[p].selections, at)
            THEN plans' = [plans EXCEPT ![p].phase = "loaded", ![p].instant = clock,
                             ![p].rows = {records[m[1]].until : m \in plans[p].selections}]
            ELSE Step(p, "stale")
      BY <1>6 DEF LoadMarkers
    <2>2. CASE SelectionIsCurrent(plans[p].selections, at)
      <3> DEFINE rows == {records[m[1]].until : m \in plans[p].selections}
                 next == [plans[p] EXCEPT !.phase = "loaded", !.instant = clock, !.rows = rows]
      <3>1. rows \subseteq Deadlines \cup {Unset}
        BY <1>1, <2>2, MarkersAreHeld DEF SelectionIsCurrent
      <3> HIDE DEF rows
      <3>2. plans' = [plans EXCEPT ![p] = next]
        BY <1>1, <2>1, <2>2 DEF rows
      <3>3. clock \in Instants
        BY <1>1 DEF RecallTypeOK
      <3>4. /\ next \in Plan /\ next.phase = "loaded" /\ next.selections = plans[p].selections
        BY <1>3, <1>5, <3>1, <3>3 DEF Plan
      <3> HIDE DEF next
      <3>5. plans'[p] = next
        BY <1>1, <3>2, <3>4, PlanReplaced
      <3> QED BY <1>2, <1>3, <3>4, <3>5
    <2>3. CASE ~SelectionIsCurrent(plans[p].selections, at)
      BY <1>2, <1>3, <1>4, <1>5, <2>1, <2>3
    <2> QED BY <2>2, <2>3
  <1>7. CASE ResolveEmpty(p)
    BY <1>2, <1>3, <1>4, <1>5, <1>7 DEF ResolveEmpty
  <1>8. CASE ValidateSnapshot(p)
    <2>1. Phase(p) = "loaded" /\ (Step(p, "validated") \/ Step(p, "stale"))
      BY <1>8 DEF ValidateSnapshot
    <2> QED BY <1>2, <1>3, <1>4, <1>5, <2>1
  <1>9. CASE ReturnContext(p)
    <2>1. Phase(p) = "validated" /\ (Step(p, "returned") \/ Step(p, "stale"))
      BY <1>9 DEF ReturnContext
    <2> QED BY <1>2, <1>3, <1>4, <1>5, <2>1
  <1> QED BY <1>6, <1>7, <1>8, <1>9 DEF ResolveTakes

(* The second resolve of a request with a lost record goes stale.           *)
LEMMA ResolveKeepsSound ==
  ASSUME RecallBase, RecallInv, RecallEffect, ComposerInv, NEW p \in Planners, ResolveStep(p)
  PROVE  requests' \in [Planners -> Request] /\ RequestIsSound(p)'
  <1>1. ResolveTakes(p)
    BY DEF ResolveStep, ResolveTakes
  <1>2. /\ requests \in [Planners -> Request] /\ RequestIsSound(p)
        /\ requests[p].lost \in BOOLEAN
    BY DEF ComposerInv, Request
  <1>3. ASSUME Phase(p) = "loaded", plans'[p].phase = "validated"
        PROVE  ~Lost(p)
    <2>1. Moves(p, "loaded", "validated")
      BY <1>1, <1>3, ResolveOutcome DEF Moves, NoPlan, Plan, Phases
    <2> QED BY <2>1, ComparedIsNotRetired DEF Lost
  <1>4. plans'[p].selections = plans[p].selections /\ retired' = retired
    BY <1>1, ResolveOutcome
  <1>5. Lost(p)' <=> Lost(p)
    BY <1>4 DEF Lost
  <1>6. CASE Stage(p) = "resolving" /\ UNCHANGED requests
    BY <1>1, <1>2, <1>6, ResolveOutcome DEF RequestIsSound, Stage
  <1>7. CASE Stage(p) = "answered" /\ Enter(p, "confirming")
    <2>1. /\ requests' \in [Planners -> Request] /\ requests'[p].stage = "confirming"
          /\ requests'[p].lost = requests[p].lost
      BY <1>2, <1>7 DEF Enter, Request, Stages
    <2>2. Phase(p) = "returned" /\ (requests[p].lost => Lost(p))
      BY <1>2, <1>7 DEF RequestIsSound
    <2>3. plans'[p].phase \in {"validated", "returned"} => plans[p].selections = {}
      BY <1>1, <2>2, ResolveOutcome
    <2>4. plans'[p].phase \in {"validated", "returned"} => ~requests[p].lost
      BY <2>2, <2>3 DEF Lost
    <2> QED BY <1>1, <1>5, <2>1, <2>2, <2>4, ResolveOutcome DEF RequestIsSound, Stage, Phase
  <1>8. CASE Stage(p) = "confirming" /\ UNCHANGED requests
    <2>1. /\ requests[p].lost => Lost(p)
          /\ Phase(p) = "validated" => ~requests[p].lost
      BY <1>2, <1>8 DEF RequestIsSound
    <2>2. plans'[p].phase \in {"validated", "returned"} => ~requests[p].lost
      <3>1. CASE plans[p].selections = {}
        BY <2>1, <3>1 DEF Lost
      <3>2. CASE plans[p].selections # {}
        BY <1>1, <1>3, <2>1, <3>2, ResolveOutcome
      <3> QED BY <3>1, <3>2
    <2> QED BY <1>1, <1>2, <1>5, <1>8, <2>1, <2>2, ResolveOutcome DEF RequestIsSound, Stage, Phase
  <1> QED BY <1>2, <1>6, <1>7, <1>8 DEF ResolveStep

LEMMA ComposerInductive ==
  ASSUME RecallBase, RecallInv, ComposerInv, [ComposerNext]_composerVars
  PROVE  ComposerInv'
  <1>1. RecallEffect
    BY ComposerStepsAreRecalls, RecallStepEffect
  <1>2. retired \subseteq retired'
    BY <1>1 DEF RecallEffect
  <1>3. /\ requests \in [Planners -> Request] /\ \A q \in Planners : RequestIsSound(q)
        /\ RecallTypeOK
    BY DEF ComposerInv, RecallBase
  <1>4. ASSUME UNCHANGED <<plans, requests>> PROVE ComposerInv'
    BY <1>2, <1>3, <1>4, SoundStaysSound DEF ComposerInv
  <1>5. ASSUME NEW p \in Planners, requests' \in [Planners -> Request], RequestIsSound(p)',
               \A q \in Planners \ {p} : plans'[q] = plans[q] /\ requests'[q] = requests[q]
        PROVE  ComposerInv'
    BY <1>2, <1>3, <1>5, SoundStaysSound DEF ComposerInv
  <1>6. ASSUME NEW p \in Planners, NEW next \in Request, requests' = [requests EXCEPT ![p] = next]
        PROVE  /\ requests' \in [Planners -> Request] /\ requests'[p] = next
               /\ \A q \in Planners \ {p} : requests'[q] = requests[q]
    BY <1>3, <1>6
  <1>7. ASSUME NEW p \in Planners, NEW stage \in Stages, Enter(p, stage)
        PROVE  /\ requests' \in [Planners -> Request]
               /\ requests'[p].stage = stage /\ requests'[p].lost = requests[p].lost
               /\ \A q \in Planners \ {p} : requests'[q] = requests[q]
    BY <1>3, <1>7 DEF Enter, Request
  <1>8. ASSUME NEW p \in Planners, ComposerStep(p) PROVE ComposerInv'
    <2>1. RequestIsSound(p) /\ requests[p].lost \in BOOLEAN
          /\ plans[p] \in Plan \cup {NoPlan} /\ "none" \notin Phases
      BY <1>3 DEF Request, RecallTypeOK, Phases
    <2>2. CASE Compose(p)
      <3>1. /\ plans' = plans /\ Enter(p, "resolving") /\ "resolving" \in Stages
            /\ plans[p] \in Plan
        BY <2>1, <2>2 DEF Compose, recallVars, Stages, Phase, NoPlan
      <3>2. RequestIsSound(p)'
        BY <1>7, <3>1 DEF RequestIsSound, Stage
      <3> QED BY <1>5, <1>7, <3>1, <3>2
    <2>3. CASE ResolveStep(p)
      <3>1. requests' \in [Planners -> Request] /\ RequestIsSound(p)'
        BY <1>1, <2>3, ResolveKeepsSound
      <3>2. \A q \in Planners \ {p} : requests'[q] = requests[q]
        BY <1>3, <2>3 DEF ResolveStep, Enter
      <3>3. PlannerStep(p)
        BY <2>3 DEF ResolveStep, PlannerStep
      <3> QED BY <1>3, <1>5, <3>1, <3>2, <3>3, OthersKeepPlans
    <2>4. CASE AwaitRetrieval(p)
      <3>1. /\ plans' = plans /\ Enter(p, "awaiting") /\ "awaiting" \in Stages
            /\ plans[p] \in Plan /\ plans[p].phase = "returned"
        BY <2>1, <2>4 DEF AwaitRetrieval, recallVars, Stages, Phase, RequestIsSound
      <3>2. RequestIsSound(p)'
        BY <1>7, <3>1 DEF RequestIsSound, Stage, Phase
      <3> QED BY <1>5, <1>7, <3>1, <3>2
    <2>5. CASE Answer(p)
      <3> DEFINE next == [stage |-> "answered", lost |-> Lost(p)]
      <3>1. /\ plans' = plans /\ retired' = retired /\ Stage(p) = "awaiting"
            /\ requests' = [requests EXCEPT ![p] = next]
        BY <2>5 DEF Answer, recallVars
      <3>2. next \in Request /\ next.stage = "answered" /\ next.lost = Lost(p)
        BY DEF Request, Stages, Lost
      <3> HIDE DEF next
      <3>3. plans[p] \in Plan /\ plans[p].phase = "returned"
        BY <2>1, <3>1 DEF RequestIsSound, Phase
      <3>4. requests'[p] = next
        BY <1>6, <3>1, <3>2
      <3>5. Lost(p)' <=> Lost(p)
        BY <3>1 DEF Lost
      <3>6. RequestIsSound(p)'
        BY <3>1, <3>2, <3>3, <3>4, <3>5 DEF RequestIsSound, Stage, Phase
      <3> QED BY <1>5, <1>6, <3>1, <3>2, <3>6
    <2>6. CASE HandOut(p)
      <3>1. /\ plans' = plans /\ Enter(p, "handed") /\ "handed" \in Stages
            /\ Stage(p) = "confirming" /\ Phase(p) = "returned"
        BY <2>6 DEF HandOut, Confirmed, recallVars, Stages
      <3>2. plans[p] \in Plan /\ ~requests[p].lost
        BY <2>1, <3>1 DEF RequestIsSound
      <3>3. RequestIsSound(p)'
        BY <1>7, <3>1, <3>2 DEF RequestIsSound, Stage
      <3> QED BY <1>5, <1>7, <3>1, <3>3
    <2>7. CASE End(p)
      <3>1. Drop(p) /\ NoRequest \in Request /\ NoRequest.stage = "none"
            /\ requests' = [requests EXCEPT ![p] = NoRequest]
        BY <2>7 DEF End, NoRequest, Request, Stages
      <3>2. requests'[p] = NoRequest
        BY <1>6, <3>1
      <3>3. RequestIsSound(p)'
        BY <3>1, <3>2 DEF RequestIsSound, Stage
      <3>4. PlannerStep(p)
        BY <3>1 DEF PlannerStep
      <3> QED BY <1>3, <1>5, <1>6, <3>1, <3>3, <3>4, OthersKeepPlans
    <2> QED BY <1>8, <2>2, <2>3, <2>4, <2>5, <2>6, <2>7 DEF ComposerStep
  <1>9. ASSUME NEW p \in Planners, Stage(p) = "none", PlannerStep(p), UNCHANGED requests
        PROVE  ComposerInv'
    <2>1. RequestIsSound(p)'
      BY <1>9 DEF RequestIsSound, Stage
    <2> QED BY <1>3, <1>5, <1>9, <2>1, OthersKeepPlans
  <1>10. ASSUME NEW e \in CommandIds, NEW r \in Records, RecordCommand(e, r), UNCHANGED requests
         PROVE  ComposerInv'
    BY <1>4, <1>10 DEF RecordCommand, History
  <1>11. ASSUME ScopeWideCommand \/ ClockTick, UNCHANGED requests PROVE ComposerInv'
    BY <1>4, <1>11 DEF ScopeWideCommand, History, ClockTick
  <1>12. CASE UNCHANGED composerVars
    BY <1>4, <1>12 DEF composerVars, recallVars
  <1> QED BY <1>8, <1>9, <1>10, <1>11, <1>12 DEF ComposerNext

(* No request leaves the composer with a record that was retired by the     *)
(* time its retrieval answered, with any number of planners and whatever    *)
(* commands run between the steps of either resolve.                        *)
THEOREM ComposedStaysCurrent == ComposerSpec => []ComposedIsCurrent
  <1>1. ComposerInit => ComposerInv
    BY DEF ComposerInit, ComposerInv, RequestIsSound, Stage, NoRequest, Request, Stages
  <1>2. RecallBase /\ RecallInv /\ ComposerInv /\ [ComposerNext]_composerVars => ComposerInv'
    BY ComposerInductive
  <1>3. ComposerInv => ComposedIsCurrent
    BY DEF ComposerInv, RequestIsSound, ComposedIsCurrent
  <1> QED BY <1>1, <1>2, <1>3, RecallHolds, ComposerIsRecall, PTL DEF ComposerSpec

(* What resolve hands out had ended at no instant up to its validation.     *)
THEOREM ReturnedHadNotEnded == RecallSpec => NothingEndedIsReturned
  <1>1. ASSUME RecallBase, [RecallNext]_recallVars
        PROVE  [\A p \in Planners : Moves(p, "validated", "returned") =>
                  \A d \in plans[p].rows : d = Unset \/ plans[p].instant < d]_recallVars
    <2>1. ASSUME NEW p \in Planners, Moves(p, "validated", "returned"), NEW d \in plans[p].rows,
                 d # Unset
          PROVE  plans[p].instant < d
      <3>1. plans[p] \in Plan /\ plans[p].phase = "validated" /\ plans'[p].phase = "returned"
            /\ plans'[p] # NoPlan
        BY <1>1, <2>1, MovesAreOfPlans DEF Phases
      <3>2. PlanEffect(p)
        BY <1>1, RecallStepEffect DEF RecallEffect
      <3>3. Returned(p)
        BY <3>1, <3>2 DEF PlanEffect, NewlyPlanned, ManifestRead, Loaded, Validated, Refused,
              Replanned, Phase
      <3>4. PICK at \in Sampled(p) : WithinDeadlines(plans[p].rows, at)
        BY <3>1, <3>3 DEF Returned, Resolvable, Phase
      <3>5. plans[p].instant <= at /\ at < d
        BY <2>1, <3>4 DEF WithinDeadlines, Sampled
      <3>6. plans[p].instant \in Nat /\ at \in Nat /\ d \in Nat
        <4>1. plans[p].instant \in Instants /\ d \in Deadlines
          BY <2>1, <3>1 DEF Plan
        <4> QED BY <4>1, LedgerConstants DEF Sampled
      <3> QED BY <3>5, <3>6
    <2> QED BY <2>1
  <1> QED BY <1>1, RecallHolds, PTL DEF RecallSpec, NothingEndedIsReturned

(* With instants that text orders as time does, the window that the SQL     *)
(* text selects holds recallable records only.                              *)
LEMMA LiveAreRecallable ==
  ASSUME TypeOK, TextOrdersTime, NEW at \in Instants, NEW r \in Live(at)
  PROVE  Recallable(r, at)
  <1>1. r \in payloads /\ Exists(r) /\ r \in Records
    BY DEF Live, TypeOK
  <1>2. records[r] \in Row
    BY <1>1, RowOfExisting
  <1>3. records[r].from # Unset => records[r].from <= at
    BY <1>2, LedgerConstants DEF Live, Row, TextOrdersTime
  <1>4. records[r].until # Unset => ~(records[r].until <= at)
    BY <1>2, LedgerConstants DEF Live, Row, TextOrdersTime
  <1>5. ~Ended(r, at)
    <2>1. CASE records[r].until # Unset
      <3>1. records[r].until \in Nat /\ at \in Nat
        BY <1>2, <2>1, LedgerConstants DEF Row
      <3> QED BY <1>4, <2>1, <3>1 DEF Ended
    <2> QED BY <2>1 DEF Ended
  <1> QED BY <1>1, <1>3, <1>5 DEF Live, Recallable

LEMMA RefusalsExplained ==
  ASSUME TextOrdersTime, RecallBase, RecallInv, RecallEffect, NEW p \in Planners,
         NEW from \in Phases, Moves(p, from, "stale"), from # "stale"
  PROVE  \/ plans[p].selections \cap retired # {}
         \/ \E m \in plans[p].selections, at \in Sampled(p) : m[1] \notin ActiveWindow(at)
  <1>1. plans[p] \in Plan /\ plans[p].phase = from /\ plans'[p].phase = "stale"
        /\ plans'[p] # NoPlan /\ TypeOK
    BY MovesAreOfPlans DEF RecallBase, RecallTypeOK
  <1>2. PlanEffect(p)
    BY DEF RecallEffect
  <1>3. Refused(p)
    BY <1>1, <1>2 DEF PlanEffect, NewlyPlanned, ManifestRead, Loaded, Validated, Returned, Replanned
  <1>4. PICK at \in Sampled(p) :
          \/ ~SelectionIsCurrent(plans[p].selections, at)
          \/ Phase(p) = "validated" /\ ~WithinDeadlines(plans[p].rows, at)
    BY <1>3 DEF Refused
  <1>5. at \in Instants
    BY DEF Sampled
  <1>6. ASSUME NEW m \in plans[p].selections, m \notin retired, m \notin Markers(at)
        PROVE  m[1] \notin ActiveWindow(at)
    <2>1. m \in Records \X Nat /\ HeldRow(m)
      BY <1>1, <1>6 DEF RecallInv, SelectionsLast, Plan, Selections
    <2>2. m = Marker(m[1])
      BY <2>1 DEF HeldRow, Marker
    <2>3. m[1] \notin ListActive(at)
      BY <1>6, <2>2 DEF Markers
    <2>4. m[1] \in ActiveWindow(at) => Recallable(m[1], at)
      BY <1>1, <1>5, LiveAreRecallable DEF ActiveWindow
    <2> QED BY <2>3, <2>4 DEF ListActive
  <1>7. CASE ~SelectionIsCurrent(plans[p].selections, at)
    BY <1>6, <1>7 DEF SelectionIsCurrent
  <1>8. CASE Phase(p) = "validated" /\ ~WithinDeadlines(plans[p].rows, at)
    <2>1. PICK d \in plans[p].rows : d # Unset /\ ~(at < d)
      BY <1>8 DEF WithinDeadlines
    <2>2. PICK m \in plans[p].selections : ReadAs(m, d)
      BY <1>8 DEF RecallInv, RowsAreRead
    <2>3. CASE m \notin retired
      <3>1. HeldRow(m) /\ records[m[1]].until = d
        BY <2>2, <2>3 DEF ReadAs
      <3>2. at \in Nat /\ d \in Nat
        BY <1>1, <1>5, <2>1, LedgerConstants DEF Plan
      <3>3. Ended(m[1], at)
        BY <2>1, <3>1, <3>2 DEF Ended
      <3>4. m[1] \notin ActiveWindow(at)
        BY <1>1, <1>5, <3>3, LiveAreRecallable DEF Recallable, ActiveWindow
      <3> QED BY <3>4
    <2> QED BY <2>2, <2>3
  <1> QED BY <1>4, <1>7, <1>8

(* resolve never refuses a plan whose records are all still held, unended   *)
(* and inside the bounded window: where text orders instants as time does.  *)
THEOREM RefusalsAreExplained == ASSUME TextOrdersTime PROVE RecallSpec => RefusalHasACause
  <1>1. ASSUME RecallBase, RecallInv, [RecallNext]_recallVars
        PROVE  [\A p \in Planners, from \in Phases : Moves(p, from, "stale") /\ from # "stale" =>
                  \/ plans[p].selections \cap retired # {}
                  \/ \E m \in plans[p].selections, at \in Sampled(p) :
                       m[1] \notin ActiveWindow(at)]_recallVars
    BY <1>1, RecallStepEffect, RefusalsExplained
  <1> QED BY <1>1, RecallHolds, PTL DEF RecallSpec, RefusalHasACause
=================================================================================
