------------------------------ MODULE RecallPlanner ------------------------------
(***************************************************************************)
(* LedgerRecallPlanner (protoprompt/ledger/recall/planner.py) beside the   *)
(* commands of the ledger it reads.  plan, resolve, checkpoint and         *)
(* resume_checkpoint each take several transactions; between two of them   *)
(* any ledger command may run, the clock may advance, and the process that *)
(* holds the plan may die.  A plan lives in memory, a checkpoint in the    *)
(* ledger.                                                                 *)
(*                                                                         *)
(* Abstracted: ranking, policy filters other than require_admission_audit  *)
(* and the two budgets, which together choose some subset of the listed    *)
(* records; rendering; the HMAC seals, which only reject what this planner *)
(* did not make.  The planner's clock is taken to be monotone.             *)
(***************************************************************************)
EXTENDS MemoryLedger

CONSTANTS
  Planners,      \* planner calls that may be in flight
  RequireAudit   \* LedgerRecallPolicy.require_admission_audit

VARIABLES
  clock,    \* the clock injected in the planners
  plans,    \* by planner: the plan it holds and how far its call has come
  retired   \* history: markers that were held once and are no longer

recallVars == <<vars, clock, plans, retired>>

Selections == SUBSET (Records \X Nat)
Phases == {"planned", "loaded", "validated", "returned", "stale", "manifest", "mismatch"}

(* instant is the clock when the last step of the call ended: the next      *)
(* sample of the clock lies between it and now.  rows holds the deadlines   *)
(* of the records a resolve has read.                                       *)
NoPlan == [phase |-> "none"]
Plan == [phase : Phases, selections : Selections, instant : Instants,
         rows : SUBSET (Deadlines \cup {Unset}), checkpoint : Checkpoints \cup {NoRecord}]

RecallTypeOK ==
  /\ TypeOK
  /\ clock \in Instants
  /\ plans \in [Planners -> Plan \cup {NoPlan}]
  /\ retired \in Selections

Held == {Marker(r) : r \in payloads}

RecallInit ==
  /\ Init
  /\ clock \in {i \in Instants : \A j \in Instants : i <= j}
  /\ plans = [p \in Planners |-> NoPlan]
  /\ retired = {}

Phase(p) == plans[p].phase
Sampled(p) == {i \in Instants : plans[p].instant <= i /\ i <= clock}

Step(p, phase) == plans' = [plans EXCEPT ![p].phase = phase, ![p].instant = clock]

-----------------------------------------------------------------------------
(* plan.                                                                    *)

(* list_active, less the records without admission evidence when the policy *)
(* requires it.                                                             *)
Eligible(at) ==
  {Marker(r) : r \in {q \in ListActive(at) : RequireAudit => records[q].origin # "unknown"}}

(* Candidates are scored and taken greedily while both budgets last; one    *)
(* too large is skipped and a smaller one after it still taken, so that any *)
(* subset may come out.                                                     *)
Selectable(at) == SUBSET Eligible(at)

PlanRecall(p, S) ==
  /\ plans[p] = NoPlan
  /\ \E at \in Instants : at <= clock /\ S \in Selectable(at)
  /\ plans' = [plans EXCEPT ![p] = [phase |-> "planned", selections |-> S, instant |-> clock,
                                    rows |-> {}, checkpoint |-> NoRecord]]
  /\ UNCHANGED <<vars, clock, retired>>

-----------------------------------------------------------------------------
(* resolve: load, render, validate, return.                                 *)

Resolvable(p) == Phase(p) \in {"planned", "returned", "stale"}

WholeScopeUnchanged(S, at) == S = {Marker(r) : r \in Live(at)}

(* _load_active_markers with _resolve_records, and _validate_active_snapshot:*)
(* every selected record is in the bounded window at its planned revision.  *)
SelectionIsCurrent(S, at) == S \subseteq Markers(at)

LoadMarkers(p) ==
  /\ Resolvable(p)
  /\ plans[p].selections # {}
  /\ \E at \in Sampled(p) :
       IF SelectionIsCurrent(plans[p].selections, at)
       THEN plans' = [plans EXCEPT ![p].phase = "loaded", ![p].instant = clock,
                        ![p].rows = {records[m[1]].until : m \in plans[p].selections}]
       ELSE Step(p, "stale")
  /\ UNCHANGED <<vars, clock, retired>>

(* A plan without selections resolves to an empty context, unvalidated.     *)
ResolveEmpty(p) ==
  /\ Resolvable(p)
  /\ plans[p].selections = {}
  /\ Step(p, "returned")
  /\ UNCHANGED <<vars, clock, retired>>

NothingToCheck(S, at) == TRUE
StillCurrent(S, at) == SelectionIsCurrent(S, at)

ValidateSnapshot(p) ==
  /\ Phase(p) = "loaded"
  /\ \E at \in Sampled(p) :
       Step(p, IF StillCurrent(plans[p].selections, at) THEN "validated" ELSE "stale")
  /\ UNCHANGED <<vars, clock, retired>>

AnyDeadline(rows, at) == TRUE
WithinDeadlines(rows, at) == \A d \in rows : d = Unset \/ at < d

(* The final look at the clock, at the rows read before the validation.     *)
ReturnContext(p) ==
  /\ Phase(p) = "validated"
  /\ \E at \in Sampled(p) :
       Step(p, IF WithinDeadlines(plans[p].rows, at) THEN "returned" ELSE "stale")
  /\ UNCHANGED <<vars, clock, retired>>

-----------------------------------------------------------------------------
(* Checkpoints.                                                             *)

Checkpointing(p, c) ==
  /\ RequireAudit
  /\ Resolvable(p)
  /\ \E at \in Sampled(p) : CreateCheckpoint(c, plans[p].selections, at)
  /\ UNCHANGED <<clock, plans, retired>>

(* resume_checkpoint reads the manifest, plans afresh from the new task and *)
(* compares, in three transactions.                                         *)
Manifest(c) == [state |-> checkpoints[c].state, selections |-> checkpoints[c].selections]

LoadManifest(p, c) ==
  /\ RequireAudit
  /\ plans[p] = NoPlan
  /\ Manifest(c).state = "active"
  /\ plans' = [plans EXCEPT ![p] = [phase |-> "manifest", instant |-> clock, rows |-> {},
                                    selections |-> Manifest(c).selections,
                                    checkpoint |-> c]]
  /\ UNCHANGED <<vars, clock, retired>>

SelectionReproduced(S, at) == S \subseteq Eligible(at)

(* The fresh plan keeps the members and the order of the sealed selection.  *)
ReplanEqual(p) ==
  /\ Phase(p) = "manifest"
  /\ \E at \in Sampled(p) : SelectionReproduced(plans[p].selections, at)
  /\ Step(p, "planned")
  /\ UNCHANGED <<vars, clock, retired>>

(* It need not, even when nothing changed: it depends on the task.          *)
ReplanDiffers(p) ==
  /\ Phase(p) = "manifest"
  /\ Step(p, "mismatch")
  /\ UNCHANGED <<vars, clock, retired>>

InvalidateStale(p) ==
  /\ Phase(p) = "mismatch"
  /\ IF checkpoints[plans[p].checkpoint].state = "active"
     THEN InvalidateCheckpoint(plans[p].checkpoint)
     ELSE UNCHANGED vars
  /\ plans' = [plans EXCEPT ![p] = NoPlan]
  /\ UNCHANGED <<clock, retired>>

-----------------------------------------------------------------------------
(* The rest of the world.                                                   *)

Drop(p) ==
  /\ plans[p] # NoPlan
  /\ plans' = [plans EXCEPT ![p] = NoPlan]
  /\ UNCHANGED <<vars, clock, retired>>

ClockTick ==
  /\ \E i \in Instants : i > clock /\ clock' = i
  /\ UNCHANGED <<vars, plans, retired>>

History ==
  /\ retired' = retired \cup (Held \ Held')
  /\ UNCHANGED <<clock, plans>>

RecordCommand(e, r) == (RawCommand(e, r) \/ Admission(e, r)) /\ History
ScopeWideCommand == ScopeCommand /\ History

PlannerStep(p) ==
  \/ \E S \in SUBSET Held : PlanRecall(p, S)
  \/ LoadMarkers(p) \/ ResolveEmpty(p) \/ ValidateSnapshot(p) \/ ReturnContext(p)
  \/ \E c \in Checkpoints : Checkpointing(p, c) \/ LoadManifest(p, c)
  \/ ReplanEqual(p) \/ ReplanDiffers(p) \/ InvalidateStale(p)
  \/ Drop(p)

RecallNext ==
  \/ \E p \in Planners : PlannerStep(p)
  \/ \E e \in CommandIds, r \in Records : RecordCommand(e, r)
  \/ ScopeWideCommand
  \/ ClockTick

RecallSpec == RecallInit /\ [][RecallNext]_recallVars

-----------------------------------------------------------------------------
Moves(p, from, to) == Phase(p) = from /\ plans'[p] # NoPlan /\ plans'[p].phase = to

(* The validation is the linearization point of resolve: a forget, retract, *)
(* supersede or erase that commits before it makes resolve fail, and no     *)
(* later command can bring the planned revision back.                       *)
RetiredIsNeverValidated ==
  [][\A p \in Planners : Moves(p, "loaded", "validated") =>
       plans[p].selections \cap retired = {}]_recallVars

(* No context is returned that held an ended record when it was validated,  *)
(* although the instant of the validation was sampled before its lock.      *)
NothingEndedIsReturned ==
  [][\A p \in Planners : Moves(p, "validated", "returned") =>
       \A d \in plans[p].rows : d = Unset \/ plans[p].instant < d]_recallVars

(* resolve refuses a plan only because a selected record changed or ended,  *)
(* or because other active records pushed it out of the bounded window.     *)
RefusalHasACause ==
  [][\A p \in Planners, from \in Phases : Moves(p, from, "stale") /\ from # "stale" =>
       \/ plans[p].selections \cap retired # {}
       \/ \E m \in plans[p].selections, at \in Sampled(p) :
            m[1] \notin ActiveWindow(at)]_recallVars

(* A resumed plan selects the very revisions its checkpoint was sealed with *)
(* and that nothing has replaced since, across restarts of the host.        *)
ResumedAsSealed ==
  [][\A p \in Planners : Moves(p, "manifest", "planned") =>
       plans[p].selections \cap retired = {}]_recallVars

(* A checkpoint that reads active selects only records that an admission    *)
(* audit allowed.                                                           *)
CheckpointsAreAdmitted ==
  \A c \in Checkpoints : checkpoints[c].state = "active" =>
    \A m \in checkpoints[c].selections :
      \E e \in EventIds : audits[e] # NoAudit /\ audits[e].record = m[1]
                         /\ audits[e].action = "allow"

(* No retired revision is validated by a resolve or brought back by a       *)
(* resume, and every checkpoint that could be resumed is of admitted        *)
(* records.                                                                 *)
RetiredIsNeverUsed == RetiredIsNeverValidated /\ ResumedAsSealed /\ []CheckpointsAreAdmitted
=============================================================================
