----------------------------- MODULE MCAdmissionGate -----------------------------
(* Bounds of the admission run: one event identifier per record and revision. *)
EXTENDS AdmissionGate, TLC

CONSTANT MaxRevision

MCCommandIds == Records \X (1 .. MaxRevision)
MCRevisions == 1 .. (MaxRevision - 1)
MCRank == CHOOSE f \in [Records -> 1 .. Cardinality(Records)] :
            \A q, r \in Records : q # r => f[q] # f[r]
MCGateOrigin == [g \in Gates |-> "document"]
MCSymmetry == Permutations(Gates) \cup Permutations(Calls)

NextId(r) == <<r, IF Exists(r) THEN records[r].revision + 1 ELSE 1>>

MCNext ==
  \/ GateStep
  \/ \E k \in Calls, r \in Records : NextId(r) \in CommandIds /\ Apply(k, NextId(r))
  \/ \E r \in Records :
        /\ NextId(r) \in CommandIds
        /\ RawRecordCommand(NextId(r), r) \/ \E g \in Gates : Propose(g, NextId(r), r)
  \/ RawScopeCommand

MCSpec == GateInit /\ [][MCNext]_gateVars
=============================================================================
