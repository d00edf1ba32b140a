----------------------------- MODULE RequestComposer -----------------------------
(***************************************************************************)
(* LedgerContextComposer._compose_recall_plan                              *)
(* (protoprompt/ledger/recall/composer.py): a request of a plan that a     *)
(* planner holds.  The plan is resolved, what it gives is put in front of  *)
(* the request, the builder awaits retrieval, and the same plan is         *)
(* resolved once more before the request is handed out.  Each resolve is   *)
(* RecallPlanner's, of several transactions; ledger commands run between   *)
(* any two of them and during the await.                                   *)
(*                                                                         *)
(* Abstracted: the request itself, which is ContextBudget's.  The two      *)
(* renderings are compared in the code; records at the planned revisions   *)
(* render alike, so that only a resolve that fails can tell them apart.    *)
(***************************************************************************)
EXTENDS RecallPlanner

VARIABLE requests  \* by planner: how far its request is, see Request

composerVars == <<recallVars, requests>>

Stages == {"none", "resolving", "awaiting", "answered", "confirming", "handed"}

(* lost: history, a selected record had been retired when the answer came.  *)
Request == [stage : Stages, lost : BOOLEAN]
NoRequest == [stage |-> "none", lost |-> FALSE]

ComposerTypeOK == RecallTypeOK /\ requests \in [Planners -> Request]

ComposerInit == RecallInit /\ requests = [p \in Planners |-> NoRequest]

Stage(p) == requests[p].stage
Enter(p, stage) == requests' = [requests EXCEPT ![p].stage = stage]

(* A plan of its own, or the one of a resumed checkpoint.                   *)
Compose(p) ==
  /\ RequireAudit /\ Stage(p) = "none" /\ Phase(p) = "planned"
  /\ Enter(p, "resolving")
  /\ UNCHANGED recallVars

(* A step of the first resolve or of the second one.                        *)
ResolveStep(p) ==
  /\ LoadMarkers(p) \/ ResolveEmpty(p) \/ ValidateSnapshot(p) \/ ReturnContext(p)
  /\ \/ Stage(p) = "resolving" /\ Phase(p) \in {"planned", "loaded", "validated"}
        /\ UNCHANGED requests
     \/ Stage(p) = "answered" /\ Enter(p, "confirming")
     \/ Stage(p) = "confirming" /\ Phase(p) \in {"loaded", "validated"}
        /\ UNCHANGED requests

AwaitRetrieval(p) ==
  /\ Stage(p) = "resolving" /\ Phase(p) = "returned"
  /\ Enter(p, "awaiting")
  /\ UNCHANGED recallVars

Lost(p) == plans[p].selections \cap retired # {}

Answer(p) ==
  /\ Stage(p) = "awaiting"
  /\ requests' = [requests EXCEPT ![p] = [stage |-> "answered", lost |-> Lost(p)]]
  /\ UNCHANGED recallVars

(* Mutant: the first resolve is taken for good.                             *)
ResolvedOnce(p) == Stage(p) \in {"answered", "confirming"} /\ Phase(p) = "returned"

Confirmed(p) == Stage(p) = "confirming" /\ Phase(p) = "returned"

HandOut(p) ==
  /\ Confirmed(p)
  /\ Enter(p, "handed")
  /\ UNCHANGED recallVars

(* A stale plan, a failed or cancelled retrieval, or a request that is done. *)
End(p) ==
  /\ Stage(p) # "none"
  /\ requests' = [requests EXCEPT ![p] = NoRequest]
  /\ Drop(p)

ComposerStep(p) ==
  Compose(p) \/ ResolveStep(p) \/ AwaitRetrieval(p) \/ Answer(p) \/ HandOut(p) \/ End(p)

ComposerNext ==
  \/ \E p \in Planners : ComposerStep(p)
  \/ \E p \in Planners : Stage(p) = "none" /\ PlannerStep(p) /\ UNCHANGED requests
  \/ \E e \in CommandIds, r \in Records : RecordCommand(e, r) /\ UNCHANGED requests
  \/ (ScopeWideCommand \/ ClockTick) /\ UNCHANGED requests

ComposerSpec == ComposerInit /\ [][ComposerNext]_composerVars

-----------------------------------------------------------------------------
(* No request is handed out with a record that was forgotten, retracted,    *)
(* superseded or erased while it awaited retrieval, or before: what the     *)
(* lane holds was read before the await, and only the second resolve,       *)
(* through all its steps, stands between.                                   *)
ComposedIsCurrent ==
  \A p \in Planners : Stage(p) = "handed" => ~requests[p].lost
=============================================================================
