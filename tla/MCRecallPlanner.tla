----------------------------- MODULE MCRecallPlanner -----------------------------
(* Bounds of the recall run: one event identifier per record and revision, and *)
(* either checkpoints while time stands still, or time without checkpoints, or *)
(* requests without either.                                                    *)
EXTENDS RequestComposer

CONSTANTS
  MaxRevision,      \* commands on one record
  MaxCommands,      \* commands on all records while time stands still
  MaxTimedCommands, \* ... and with deadlines and ticks
  MaxComposed       \* ... and with a request

MCCommandIds == Records \X (1 .. MaxRevision)
MCRevisions == 1 .. (MaxRevision - 1)
MCRank == CHOOSE f \in [Records -> 1 .. Cardinality(Records)] :
            \A q, r \in Records : q # r => f[q] # f[r]

NextId(r) == <<r, IF Exists(r) THEN records[r].revision + 1 ELSE 1>>
SpentCommands == {e \in CommandIds : events[e] # NoEvent \/ e \in eventTombstones}

Untimed == clock = 0 /\ \A r \in Records : Exists(r) => records[r].until = Unset
NoCheckpoints == \A c \in Checkpoints : checkpoints[c] = UnusedCheckpoint
Composing == \E p \in Planners : requests[p] # NoRequest

InBounds ==
  /\ \/ Untimed /\ Cardinality(SpentCommands) <= MaxCommands
     \/ NoCheckpoints /\ Cardinality(SpentCommands) <= MaxTimedCommands
  /\ Composing => Untimed /\ NoCheckpoints /\ Cardinality(SpentCommands) <= MaxComposed

(* The host takes the next identifier of the record for each command.       *)
MCNext ==
  /\ \/ \E p \in Planners :
          ComposerStep(p) \/ (Stage(p) = "none" /\ PlannerStep(p) /\ UNCHANGED requests)
     \/ \E r \in Records :
          NextId(r) \in CommandIds /\ RecordCommand(NextId(r), r) /\ UNCHANGED requests
     \/ (ScopeWideCommand \/ ClockTick) /\ UNCHANGED requests
  /\ InBounds'

MCSpec == ComposerInit /\ [][MCNext]_composerVars
=============================================================================
