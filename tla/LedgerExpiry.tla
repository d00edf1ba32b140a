------------------------------ MODULE LedgerExpiry ------------------------------
(***************************************************************************)
(* SqliteMemoryLedger.expire_due beside the other ledger commands.  It     *)
(* reads the due rows under the connection lock, then expires them one by  *)
(* one in transactions of their own; other connections run in between.     *)
(***************************************************************************)
EXTENDS MemoryLedger

VARIABLE scan    \* the rows one expire_due call still has to expire

scanVars == <<vars, scan>>

Idle == [at |-> Unset, due |-> {}]

ScanTypeOK ==
  /\ TypeOK
  /\ scan \in [at : Instants \cup {Unset}, due : SUBSET (Records \X Nat)]

ExpiryInit == Init /\ scan = Idle

Expirable(r) == Exists(r) /\ records[r].state \in {"candidate", "active"}

(* The SELECT of expire_due: deadlines are compared as text.                *)
DueRows(at) ==
  {Marker(r) : r \in {q \in Records : /\ Expirable(q)
                                      /\ records[q].until # Unset
                                      /\ TextLE(records[q].until, at)}}

ExpireDueScan(at) ==
  /\ scan = Idle
  /\ scan' = [at |-> at, due |-> DueRows(at)]
  /\ UNCHANGED vars

CurrentRevision(m) == records[m[1]].revision
ScannedRevision(m) == m[2]

(* One row of the loop, with a fresh event identifier.                      *)
ExpireDueRow(e, m) ==
  /\ m \in scan.due
  /\ Exists(m[1])
  /\ Expire(e, m[1], ScannedRevision(m), scan.at)
  /\ scan' = [scan EXCEPT !.due = @ \ {m}]

(* KeyError, LedgerConflictError and LedgerStateError are skipped.          *)
ExpireDueSkip(m) ==
  /\ m \in scan.due
  /\ ~CheckRevision(m[1], ScannedRevision(m)) \/ ~Expirable(m[1])
  /\ scan' = [scan EXCEPT !.due = @ \ {m}]
  /\ UNCHANGED vars

(* A row created after the instant of the call raises ValueError, which     *)
(* the loop does not catch: the rest of the batch is abandoned.             *)
ExpireDueAbort(m) ==
  /\ m \in scan.due
  /\ CheckRevision(m[1], m[2])
  /\ scan.at < records[m[1]].created
  /\ scan' = Idle
  /\ UNCHANGED vars

ExpireDueDone ==
  /\ scan # Idle
  /\ scan.due = {}
  /\ scan' = Idle
  /\ UNCHANGED vars

ExpireDue ==
  \/ \E at \in Instants : ExpireDueScan(at)
  \/ \E m \in scan.due, e \in CommandIds : ExpireDueRow(e, m)
  \/ \E m \in scan.due : ExpireDueSkip(m)
  \/ \E m \in scan.due : ExpireDueAbort(m)
  \/ ExpireDueDone

ExpiryNext == (Next /\ UNCHANGED scan) \/ ExpireDue

ExpirySpec == ExpiryInit /\ [][ExpiryNext]_scanVars

-----------------------------------------------------------------------------
ExpiredBy(r) == Expirable(r) /\ records'[r] # NoRow /\ records'[r].state = "expired"

(* expire_due moves a record to expired only when its valid_until has been  *)
(* reached at the instant of the call (the docstring of expire_due).        *)
NeverExpiresEarly ==
  [][\A r \in Records : scan'.due # scan.due /\ ExpiredBy(r) => Ended(r, scan.at)]_scanVars

Overdue(at) == {Marker(r) : r \in {q \in Records : Expirable(q) /\ Ended(q, at)}}

(* The scan picks every record whose deadline has passed, and no other.     *)
ScanIsExact ==
  [][scan.at = Unset /\ scan'.at # Unset => scan'.due = Overdue(scan'.at)]_scanVars

(* A record that another command changed after the scan is left alone by    *)
(* the rest of the batch, even if it could still be expired.                *)
RacedRowsAreLeftAlone ==
  [][\A m \in scan.due : m \notin scan'.due /\ ExpiredBy(m[1]) =>
       records[m[1]].revision = m[2]]_scanVars

(* expire_due takes exactly the rows whose deadline has passed, in the      *)
(* revision it scanned, however its transactions interleave with others.    *)
ExpiryIsExact == NeverExpiresEarly /\ ScanIsExact /\ RacedRowsAreLeftAlone
=============================================================================
