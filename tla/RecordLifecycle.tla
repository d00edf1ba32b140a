----------------------------- MODULE RecordLifecycle -----------------------------
(***************************************************************************)
(* What the ledger promises about the life of a memory record, whatever    *)
(* tables implement it: a record is recallable only after confirmation,    *)
(* leaves the active state for good, is forgotten in all-or-nothing        *)
(* batches, and an erased identifier is never used again.                  *)
(* MemoryLedger implements it (see LedgerLifecycle).                       *)
(***************************************************************************)
CONSTANT Records

VARIABLE life

Stages == {"absent", "candidate", "active", "superseded", "retracted", "expired",
           "quarantined", "forgotten", "erased"}

Successors ==
  [absent      |-> {"candidate"},
   candidate   |-> {"active", "expired", "quarantined", "retracted"},
   active      |-> {"superseded", "expired", "quarantined", "retracted"},
   superseded  |-> {"retracted"},
   expired     |-> {"retracted"},
   quarantined |-> {"retracted"},
   retracted   |-> {},
   forgotten   |-> {},
   erased      |-> {}]

LifecycleTypeOK == life \in [Records -> Stages]

Init == life = [r \in Records |-> "absent"]

Advance(r) == \E s \in Successors[life[r]] : life' = [life EXCEPT ![r] = s]

(* Forgetting takes a whole set of stored records at once, or none.         *)
ForgetSet(V) ==
  /\ \A r \in V : life[r] \notin {"absent", "erased"}
  /\ life' = [r \in Records |-> IF r \in V THEN "forgotten" ELSE life[r]]

Erase(r) ==
  /\ life[r] \notin {"absent", "erased"}
  /\ life' = [life EXCEPT ![r] = "erased"]

Next ==
  \/ \E r \in Records : Advance(r) \/ Erase(r)
  \/ \E V \in SUBSET Records : ForgetSet(V)

Spec == Init /\ [][Next]_life
=============================================================================
