----------------------------- MODULE MCMemoryLedger -----------------------------
(* Bounds of the ledger run.  With time standing still and one kind of origin  *)
(* and no purge, long histories; shorter ones with those; the shortest ones    *)
(* with instants, deadlines and expiry scans, without purges and revocations.  *)
EXTENDS LedgerLifecycle, LedgerExpiry, TLC

CONSTANTS
  MaxIds,         \* identifiers of a history of bare records
  MaxMixedIds,    \* ... in which sources, purges, audits and checkpoints occur
  MaxTimedIds     \* ... in which time matters

MCCommandIds == {"command"} \X (1 .. MaxIds)
MCRevisions == 1 .. (MaxIds - 1)
MCRank == CHOOSE f \in [Records -> 1 .. Cardinality(Records)] :
            \A q, r \in Records : q # r => f[q] # f[r]
MCSymmetry == Permutations(Records)

SpentCommands == {e \in CommandIds : events[e] # NoEvent \/ e \in eventTombstones}

(* Fresh identifiers are interchangeable: the host takes the first one, or   *)
(* one it has used before.                                                   *)
IdsToTry == SpentCommands \cup
            {e \in CommandIds \ SpentCommands :
               \A f \in CommandIds \ SpentCommands : e[2] <= f[2]}

Timeless ==
  /\ scan = Idle
  /\ \A r \in Records : Exists(r) =>
       records[r].created = 0 /\ records[r].updated = 0 /\ records[r].until = Unset

Bare ==
  /\ revoked = {}
  /\ \A r \in Records : Exists(r) => records[r].origin = "unknown"
  /\ \A c \in Checkpoints : checkpoints[c] = UnusedCheckpoint

NoPurgeYet == \A o \in Operations : ~purges[o].done

InBounds ==
  LET n == Cardinality(SpentCommands)
  IN \/ Timeless /\ Bare /\ NoPurgeYet
     \/ Timeless /\ n <= MaxMixedIds
     \/ NoPurgeYet /\ revoked = {} /\ n <= MaxTimedIds

MCExpireDue ==
  \/ \E at \in Instants : ExpireDueScan(at)
  \/ \E m \in scan.due, e \in IdsToTry : ExpireDueRow(e, m)
  \/ \E m \in scan.due : ExpireDueSkip(m)
  \/ \E m \in scan.due : ExpireDueAbort(m)
  \/ ExpireDueDone

MCCommand ==
  /\ \/ \E e \in IdsToTry, r \in Records : RawCommand(e, r) \/ Admission(e, r)
     \/ ScopeCommand
     \/ CheckpointCommand
  /\ UNCHANGED scan

MCNext == (MCCommand \/ MCExpireDue) /\ InBounds'

MCSpec == ExpiryInit /\ [][MCNext]_scanVars
=============================================================================
