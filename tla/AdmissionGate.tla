------------------------------ MODULE AdmissionGate ------------------------------
(***************************************************************************)
(* MemoryReviewGate (protoprompt/ledger/admission.py) in front of the      *)
(* ledger.  A gate reads a candidate and seals a verdict in the memory of  *)
(* its process; a later call verifies the seal, samples the host clock and *)
(* queues for the ledger's write lock.  The host may keep a review for as  *)
(* long as it likes, hand it to another gate, or apply it twice.           *)
(*                                                                         *)
(* Abstracted: the policy, which may return any action; the seal, which    *)
(* ties a review to one gate object: an incarnation here.                  *)
(***************************************************************************)
EXTENDS MemoryLedger

CONSTANTS
  Gates,            \* review gates of the scope
  GateOrigin,       \* the ingress category each gate is pinned to
  MaxIncarnation,   \* bound: how often the host recreates a gate
  MaxReviews,       \* bound: how many distinct reviews the host obtains
  Calls             \* gate calls that may be in flight

ASSUME GateConstants ==
  GateOrigin \in [Gates -> ConcreteOrigins] /\ MaxIncarnation \in Nat /\ MaxReviews \in Nat

VARIABLES
  now,           \* real time
  incarnation,   \* by gate: which object the process holds now
  reviews,       \* every review sealed so far
  calls          \* by call: the verified review and the sampled timestamp

gateVars == <<vars, now, incarnation, reviews, calls>>

NoCall == [at |-> Unset]
Review == [gate : Gates, incarnation : 0 .. MaxIncarnation, record : Records,
           revision : Nat, action : Actions]

GateTypeOK ==
  /\ TypeOK
  /\ now \in Instants
  /\ incarnation \in [Gates -> 0 .. MaxIncarnation]
  /\ reviews \in SUBSET Review
  /\ calls \in [Calls -> [at : Instants, review : Review] \cup {NoCall}]

GateInit ==
  /\ Init
  /\ now \in {i \in Instants : \A j \in Instants : i <= j}
  /\ incarnation = [g \in Gates |-> 0]
  /\ reviews = {}
  /\ calls = [k \in Calls |-> NoCall]

-----------------------------------------------------------------------------
(* A gate's ingress: the text is the model's, origin and source the host's. *)
Propose(g, e, r) ==
  /\ \E s \in Sources, from \in Starts \cup {Unset}, until \in Deadlines \cup {Unset},
        at \in Instants : CreateCandidate(e, r, s, GateOrigin[g], from, until, at)
  /\ UNCHANGED <<now, incarnation, reviews, calls>>

Reviewable(g, r) ==
  /\ Exists(r)
  /\ records[r].state = "candidate"
  /\ records[r].trust = "untrusted"
  /\ r \in payloads
  /\ records[r].origin = GateOrigin[g]

SealReview(g, r, action) ==
  /\ Cardinality(reviews) < MaxReviews
  /\ Reviewable(g, r)
  /\ reviews' = reviews \cup
       {[gate |-> g, incarnation |-> incarnation[g], record |-> r,
         revision |-> records[r].revision, action |-> action]}
  /\ UNCHANGED <<vars, now, incarnation, calls>>

VerifiedByGate(g, v) == v.gate = g

(* _verified_review: this very gate object sealed the review.  Its action   *)
(* must be the one of the method called, so a review has one method.        *)
Verified(g, v) == v.gate = g /\ v.incarnation = incarnation[g]

(* confirm, quarantine and reject, up to the write lock.                    *)
Submit(k, g, v) ==
  /\ calls[k] = NoCall
  /\ Verified(g, v)
  /\ calls' = [calls EXCEPT ![k] = [at |-> now, review |-> v]]
  /\ UNCHANGED <<vars, now, incarnation, reviews>>

(* The transaction of the call; ledgerNow is real time under the lock.      *)
Apply(k, e) ==
  /\ calls[k] # NoCall
  /\ LET v == calls[k].review
     IN ApplyAdmissionReview(e, v.record, v.revision, GateOrigin[v.gate], v.action,
                             calls[k].at, now)
  /\ calls' = [calls EXCEPT ![k] = NoCall]
  /\ UNCHANGED <<now, incarnation, reviews>>

(* The transaction raised and rolled back, or the host gave the call up.    *)
Fail(k) ==
  /\ calls[k] # NoCall
  /\ calls' = [calls EXCEPT ![k] = NoCall]
  /\ UNCHANGED <<vars, now, incarnation, reviews>>

(* The host builds the gate again, for instance after a restart.            *)
Recreate(g) ==
  /\ incarnation[g] < MaxIncarnation
  /\ incarnation' = [incarnation EXCEPT ![g] = @ + 1]
  /\ calls' = [k \in Calls |-> IF calls[k] # NoCall /\ calls[k].review.gate = g
                               THEN NoCall ELSE calls[k]]
  /\ UNCHANGED <<vars, now, reviews>>

Tick ==
  /\ \E i \in Instants : i > now /\ now' = i
  /\ UNCHANGED <<vars, incarnation, reviews, calls>>

(* The public mutators, which know no origin.                               *)
RawRecordCommand(e, r) ==
  /\ RawCommand(e, r)
  /\ ~Exists(r) => records'[r].origin = "unknown"
  /\ UNCHANGED <<now, incarnation, reviews, calls>>
RawScopeCommand == ScopeCommand /\ UNCHANGED <<now, incarnation, reviews, calls>>

GateStep ==
  \/ \E g \in Gates, r \in Records, action \in Actions : SealReview(g, r, action)
  \/ \E k \in Calls, g \in Gates, v \in reviews : Submit(k, g, v)
  \/ \E k \in Calls : Fail(k)
  \/ \E g \in Gates : Recreate(g)
  \/ Tick

GateNext ==
  \/ GateStep
  \/ \E k \in Calls, e \in CommandIds : Apply(k, e)
  \/ \E e \in CommandIds, r \in Records :
        RawRecordCommand(e, r) \/ \E g \in Gates : Propose(g, e, r)
  \/ RawScopeCommand

GateSpec == GateInit /\ [][GateNext]_gateVars

-----------------------------------------------------------------------------
(* A candidate gets at most one verdict, whichever gates reviewed it and    *)
(* however many reviews of it the host kept.                                *)
OneVerdictPerRecord ==
  \A d, e \in EventIds :
    audits[d] # NoAudit /\ audits[e] # NoAudit /\ audits[d].record = audits[e].record => d = e

DecidedAlive(e) ==
  audits[e] = NoAudit /\ audits'[e] # NoAudit =>
    \E v \in reviews : /\ v.record = audits'[e].record
                       /\ v.revision = audits'[e].revision
                       /\ v.action = audits'[e].action
                       /\ v.incarnation = incarnation[v.gate]

(* A review dies with the gate object that sealed it: an audit is written   *)
(* only for a verdict that a gate still alive sealed for that revision.     *)
StaleGatesDecideNothing == [][\A e \in EventIds : DecidedAlive(e)]_gateVars

Admitted(r) ==
  /\ Exists(r) /\ records[r].state = "candidate" /\ records[r].origin # "unknown"
  /\ records'[r] # NoRow /\ records'[r].state = "active"

(* A queued allow never activates a record whose validity ended in real     *)
(* time while the call waited for the write lock.                           *)
NeverAdmittedLate == [][\A r \in Records : Admitted(r) => ~Ended(r, now)]_gateVars
=============================================================================
