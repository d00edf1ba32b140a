----------------------------- MODULE LedgerLifecycle -----------------------------
(* The ledger seen as one record lifecycle: what stage of RecordLifecycle the  *)
(* tables put each record in.                                                  *)
EXTENDS MemoryLedger

Life ==
  [r \in Records |->
     IF r \in tombstones THEN "erased"
     ELSE IF ~Exists(r) THEN "absent"
     ELSE IF r \notin payloads THEN "forgotten"
     ELSE records[r].state]

Lifecycle == INSTANCE RecordLifecycle WITH life <- Life

(* Every command moves the records along RecordLifecycle, or not at all:    *)
(* the tables together implement the promise made for each record.          *)
ImplementsLifecycle == Lifecycle!Spec

(* What the mapping relies on: an erased record has no row, plaintext is    *)
(* stored only of records that have one, and only a retracted record lacks  *)
(* its plaintext.                                                           *)
PayloadsFollowRows ==
  \A r \in Records :
    /\ r \in tombstones => ~Exists(r)
    /\ r \in payloads => Exists(r)
    /\ Exists(r) /\ r \notin payloads => records[r].state = "retracted"
=============================================================================
