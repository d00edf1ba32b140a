--------------------------- MODULE ToolRunnerProofs ---------------------------
(***************************************************************************)
(* Proofs about ToolRunner, for any payloads and any numbers of calls,     *)
(* restarts and steps of other actors: what a write or an edit may do to   *)
(* the files of others, what its outcome may claim, and whose consent it   *)
(* runs with.                                                              *)
(***************************************************************************)
EXTENDS ToolRunner, TLAPS

(* Where a call stands: nothing staged yet; the staged file beside an       *)
(* untouched Leaf; the names exchanged; the names exchanged back.           *)
Unstaged == {"decide", "prompt", "enter", "inspect", "open", "stage"}
Beside == {"verify", "exchange", "create", "rename", "discard", "cleanup", "cleanup_unlink"}
Exchanging == {"check_leaf", "check_temp", "check_text", "copy_metadata", "unlink",
               "unlink_old", "restore", "restore_leaf", "restore_swap"}
Restored == {"restored", "restored_temp"}
Resting == {"idle", "done"}
PCs == Unstaged \union Beside \union Exchanging \union Restored \union Resting
       \union {"created", "commit"}

Failed == pc = "done" /\ op.result = "failed"
Succeeded == pc = "done" /\ op.result = "ok"

-----------------------------------------------------------------------------
(* Types.  Inodes are numbered as they are made, so there is one left for   *)
(* every call that has not staged and every step of another actor.          *)
CallTyping ==
    /\ platform \in Platforms /\ moved \in BOOLEAN /\ pc \in PCs
    /\ ops \in 0 .. MaxOps /\ others \in 0 .. MaxOthers /\ starts \in 0 .. MaxStarts
    /\ pc # "idle" => ops > 0
    /\ op = [tool |-> op.tool, payload |-> op.payload, shown |-> op.shown,
             version |-> op.version, source |-> op.source, staged |-> op.staged,
             displaced |-> op.displaced, result |-> op.result]
    /\ op.result \in {"none", "ok", "failed", "uncertain", "denied", "identity"}
    /\ op.tool \in {"edit", "write"}
    /\ pc # "idle" => op.payload \in Payloads
    /\ pc = "prompt" => op.shown \in Payloads

NodesBelow(k) ==
    /\ DOMAIN node = 1 .. k
    /\ k + (IF pc \in Unstaged THEN 1 ELSE 0) <= 1 + ops + others

FileTyping ==
    /\ node \in [DOMAIN node -> [text : Texts \union Payloads, mtime : Nat,
                                 ctime : Nat, by : {"agent", "other"}]]
    /\ \E k \in 0 .. 1 + ops + others : NodesBelow(k)
    /\ dir \in [Names -> DOMAIN node \union {Missing}]
    /\ {op.source, op.staged, op.displaced, theirs} \subseteq DOMAIN node \union {Missing}
    /\ gone \subseteq DOMAIN node \union {Missing} /\ retired \subseteq DOMAIN node

(* An inode has one name, and names of calls to come are free.              *)
NamesInv ==
    /\ \A m, n \in Names : dir[m] = dir[n] /\ dir[m] # Missing => m = n
    /\ \A n \in Names : n > ops \/ (pc \in Unstaged /\ n = ops) => dir[n] = Missing

(* The staged file is the agent's, it is not what Leaf would be without the *)
(* call, and it goes by no name but Leaf and the temporary one.             *)
StagedInv ==
    /\ pc \in Unstaged \union {"idle"} => op.staged = Missing
    /\ pc \notin Unstaged \union Resting => op.staged # Missing
    /\ op.staged # Missing =>
         /\ node[op.staged].by = "agent" /\ theirs # op.staged
         /\ \A n \in Names : dir[n] = op.staged => n \in {Leaf, Temp}

(* What stands under Leaf and under the temporary name.                     *)
LeafInv ==
    /\ pc \in Unstaged \union Beside \/ Failed => At(Leaf) = theirs
    /\ pc \in Exchanging =>
         /\ At(Temp) # op.staged
         /\ At(Leaf) = op.staged => At(Temp) \in {theirs, Missing}
    /\ pc \in Restored /\ At(Temp) = op.staged => At(Leaf) = theirs
    /\ pc = "cleanup_unlink" => At(Temp) \in {op.staged, Missing}
    /\ pc = "unlink_old" => At(Temp) \in {op.source, Missing}
    /\ Failed => \A n \in Names : dir[n] # op.staged \/ dir[n] = Missing

(* The file an edit replaces is the one it was computed from, and from the  *)
(* look at its name on nobody can write to it by name.                      *)
Compared == {"exchange", "check_leaf", "check_temp", "check_text", "copy_metadata",
             "unlink", "unlink_old"}
Settled == {"check_text", "copy_metadata", "unlink", "unlink_old", "commit"}
SourceInv ==
    /\ pc \in {"verify"} \union Compared => op.source # Missing
    /\ op.tool = "edit" =>
         /\ pc \notin {"create", "created", "rename"}
         /\ pc = "stage" => op.source # Missing /\ platform = "linux"
         /\ pc \in Compared \union {"commit"} \/ Succeeded => op.source = op.version.ino
         /\ pc \in Settled \/ Succeeded => op.source # Missing /\ At(Leaf) # op.source
         /\ pc \in Settled \ {"check_text"} \/ Succeeded =>
              node[op.source].text = op.version.file.text

(* A tool that is allowed was allowed by the user, in this process.         *)
ConsentInv ==
    /\ perm \in {"allow", "ask", "deny"} /\ denied \in BOOLEAN
    /\ consent \in Payloads \union {Nobody, Anything}
    /\ perm = "allow" => consent = Anything
    /\ OnlyConsentedActionsRun

ToolInv ==
    /\ CallTyping /\ FileTyping /\ NamesInv /\ StagedInv /\ LeafInv /\ SourceInv
    /\ ConsentInv /\ NothingForeignIsLost

-----------------------------------------------------------------------------
LEMMA CallTypingKept == CallTyping /\ [Next]_vars => CallTyping'
<1> SUFFICES ASSUME CallTyping, [Next]_vars
             PROVE  CallTyping'
  OBVIOUS
<1> USE DEF PCs, Unstaged, Beside, Exchanging, Restored, Resting
<1>1. ASSUME NEW tool \in {"edit", "write"}, NEW p \in Payloads, Request(tool, p)
      PROVE  CallTyping'
  <2>1. ops' \in 0 .. MaxOps /\ ops' > 0
    BY <1>1, ToolAssumption DEF CallTyping, Request
  <2>2. op' = [NoOp EXCEPT !.tool = tool, !.payload = p,
                           !.result = IF moved THEN "identity" ELSE "none"]
        /\ pc' \in {"done", "decide"}
    BY <1>1 DEF Request
  <2>3. UNCHANGED <<platform, moved, others, starts>>
    BY <1>1 DEF Request
  <2> QED
    BY <2>1, <2>2, <2>3 DEF CallTyping, NoOp
<1>2. CASE Decide \/ Refuse \/ Enter \/ Inspect \/ OpenExisting \/ OpenOnWindows
  BY <1>2 DEF CallTyping, Decide, Refuse, Enter, Inspect, OpenExisting, OpenOnWindows,
     Found, Ends, Goes, environment
<1>3. CASE \E p \in Payloads : PayloadChanges(p)
  BY <1>3 DEF CallTyping, PayloadChanges, environment
<1>4. CASE SayYes \/ SayAlways
  BY <1>4 DEF CallTyping, SayYes, SayAlways, Ends, Goes, environment
<1>5. CASE CmdAllow \/ CmdDeny
  BY <1>5 DEF CallTyping, CmdAllow, CmdDeny, environment
<1>6. CASE Stage \/ StageOnWindows
  BY <1>6 DEF CallTyping, Stage, StageOnWindows, NewTemporary, environment
<1>7. CASE Create \/ RenameOnWindows \/ DiscardOnWindows \/ CheckCreated \/ Verify
           \/ Exchange \/ CheckLeaf \/ CheckDisplaced \/ CheckText
  BY <1>7 DEF CallTyping, Create, RenameOnWindows, DiscardOnWindows, CheckCreated,
     Verify, Exchange, CheckLeaf, CheckDisplaced, CheckText, Ends, Goes, environment
<1>8. CASE CopyMetadata \/ UnlinkLook \/ UnlinkOld \/ ReportDone
           \/ RestoreLookTemp \/ RestoreLookLeaf \/ RestoreSwap \/ CheckRestored
           \/ CheckStaged \/ CleanupLook \/ CleanupUnlink
  BY <1>8 DEF CallTyping, CopyMetadata, UnlinkLook, UnlinkOld, ReportDone,
     RestoreLookTemp, RestoreLookLeaf, RestoreSwap, CheckRestored, CheckStaged,
     CleanupLook, CleanupUnlink, Ends, Goes, environment
<1>9. CASE Crash
  <2>1. starts' \in 0 .. MaxStarts
    BY <1>9, ToolAssumption DEF CallTyping, Crash
  <2> QED
    BY <1>9, <2>1 DEF CallTyping, Crash, NoOp
<1>10. CASE Others
  <2>1. others < MaxOthers /\ others' = others + 1
        /\ UNCHANGED <<platform, pc, op, ops, starts>> /\ moved' \in BOOLEAN
    BY <1>10 DEF Others, Other, OtherWrites, OtherPuts, OtherUnlinks, OtherSweeps,
       RootReplaced, CallTyping
  <2>2. others' \in 0 .. MaxOthers
    BY <2>1, ToolAssumption DEF CallTyping
  <2> QED
    BY <2>1, <2>2 DEF CallTyping
<1>11. CASE UNCHANGED vars
  BY <1>11 DEF CallTyping, vars
<1> QED
  BY <1>1, <1>2, <1>3, <1>4, <1>5, <1>6, <1>7, <1>8, <1>9, <1>10, <1>11
     DEF Next, Consent, Replacement

(* What the user agreed to.                                                 *)
LEMMA ConsentKept == CallTyping /\ ConsentInv /\ [Next]_vars => ConsentInv'
<1> SUFFICES ASSUME CallTyping, ConsentInv, [Next]_vars
             PROVE  ConsentInv'
  OBVIOUS
<1>1. op = [tool |-> op.tool, payload |-> op.payload, shown |-> op.shown,
            version |-> op.version, source |-> op.source, staged |-> op.staged,
            displaced |-> op.displaced, result |-> op.result]
      /\ (pc = "prompt" => op.shown \in Payloads)
  BY DEF CallTyping
<1> USE DEF ConsentInv, OnlyConsentedActionsRun, Staging
<1>2. CASE Decide \/ Refuse \/ Enter \/ \E p \in Payloads : PayloadChanges(p)
  BY <1>1, <1>2 DEF Decide, Refuse, Enter, PayloadChanges, Ends, Goes, rights
<1>3. CASE SayYes \/ SayAlways
  BY <1>1, <1>3 DEF SayYes, SayAlways, SameAsShown, Ends, Goes
<1>4. CASE CmdAllow \/ CmdDeny \/ Crash \/ \E tool \in {"edit", "write"}, p \in Payloads : Request(tool, p)
  BY <1>4 DEF CmdAllow, CmdDeny, Crash, Rights, Request
<1>5. CASE Replacement
  <2>1. UNCHANGED rights
    BY <1>5 DEF Replacement, Inspect, OpenExisting, Stage, Create, CheckCreated,
       OpenOnWindows, StageOnWindows, NewTemporary, RenameOnWindows, DiscardOnWindows,
       Verify, Exchange, CheckLeaf, CheckDisplaced, CheckText, CopyMetadata, UnlinkLook,
       UnlinkOld, ReportDone, RestoreLookTemp, RestoreLookLeaf, RestoreSwap,
       CheckRestored, CheckStaged, CleanupLook, CleanupUnlink
  <2>2. Staging /\ op'.payload = op.payload
    BY <1>1, <1>5 DEF Replacement, Inspect, OpenExisting, Stage, Create, CheckCreated,
       OpenOnWindows, StageOnWindows, NewTemporary, RenameOnWindows, DiscardOnWindows,
       Verify, Exchange, CheckLeaf, CheckDisplaced, CheckText, CopyMetadata, UnlinkLook,
       UnlinkOld, ReportDone, RestoreLookTemp, RestoreLookLeaf, RestoreSwap,
       CheckRestored, CheckStaged, CleanupLook, CleanupUnlink, Found, Ends, Goes
  <2> QED
    BY <2>1, <2>2 DEF rights
<1>6. CASE Others
  BY <1>6 DEF Others, Other, OtherWrites, OtherPuts, OtherUnlinks, OtherSweeps,
     RootReplaced, rights
<1>7. CASE UNCHANGED vars
  BY <1>7 DEF vars
<1> QED
  BY <1>2, <1>3, <1>4, <1>5, <1>6, <1>7 DEF Next, Consent

-----------------------------------------------------------------------------
(* The inode of a new file is the next number.                              *)
LEMMA NewInodeIsNext ==
  ASSUME CallTyping, NEW k \in Nat, NodesBelow(k),
         pc = "stage" \/ others < MaxOthers
  PROVE  NewInode = k + 1
<1>1. k + 1 <= 1 + MaxOps + MaxOthers
  BY ToolAssumption DEF CallTyping, NodesBelow, Unstaged
<1>2. k + 1 \in Inodes \ DOMAIN node /\ \A i \in Inodes \ DOMAIN node : k + 1 <= i
  BY <1>1, ToolAssumption DEF Inodes, NodesBelow
<1>3. \A i \in Inodes : i \in Int
  BY DEF Inodes
<1>4. \A x \in Inodes \ DOMAIN node :
        (\A i \in Inodes \ DOMAIN node : x <= i) => x = k + 1
  BY <1>2, <1>3
<1> QED
  BY <1>2, <1>4 DEF NewInode, Min

(* A file made under that number leaves the others as they are.             *)
LEMMA NodeAdded ==
  ASSUME CallTyping, FileTyping, pc = "stage" \/ others < MaxOthers,
         NEW file, node' = Created(file)
  PROVE  /\ NewInode \in Nat /\ NewInode # Missing /\ NewInode \notin DOMAIN node
         /\ DOMAIN node' = DOMAIN node \union {NewInode}
         /\ node' = [i \in DOMAIN node \union {NewInode} |->
                       IF i = NewInode THEN file ELSE node[i]]
         /\ \A k \in Nat : NodesBelow(k) => DOMAIN node' = 1 .. k + 1
<1>1. PICK k \in Nat : NodesBelow(k)
  BY DEF FileTyping
<1>2. NewInode = k + 1
  BY <1>1, NewInodeIsNext
<1>3. DOMAIN node = 1 .. k
  BY <1>1 DEF NodesBelow
<1>4. NewInode \in Nat /\ NewInode # Missing /\ NewInode \notin DOMAIN node
  BY <1>2, <1>3 DEF Missing
<1>5. DOMAIN node \union {NewInode} = 1 .. k + 1
  BY <1>2, <1>3
<1>6. node' = [i \in DOMAIN node \union {NewInode} |->
                 IF i = NewInode THEN file ELSE node[i]]
  BY DEF Created
<1>7. \A m \in Nat : NodesBelow(m) => m = k
  BY <1>3 DEF NodesBelow
<1> QED
  BY <1>4, <1>5, <1>6, <1>7

-----------------------------------------------------------------------------
(* The steps that look at the files, or at the user, and leave every entry  *)
(* and inode alone.                                                         *)
Asks == \/ Decide \/ \E p \in Payloads : PayloadChanges(p)
        \/ Refuse \/ SayYes \/ SayAlways \/ Enter
Commands == CmdAllow \/ CmdDeny
Opens == Inspect \/ OpenExisting \/ OpenOnWindows
Checks == \/ CheckCreated \/ Verify \/ CheckLeaf \/ CheckDisplaced \/ CheckText
          \/ CopyMetadata \/ UnlinkLook \/ ReportDone
Restores == \/ RestoreLookTemp \/ RestoreLookLeaf \/ CheckRestored \/ CheckStaged
            \/ CleanupLook
Looks == Asks \/ Commands \/ Opens \/ Checks \/ Restores

LEMMA LooksLeaveFiles ==
  ASSUME CallTyping, Looks
  PROVE  /\ UNCHANGED <<dir, node, theirs, gone, retired, ops, others, platform>>
         /\ op'.tool = op.tool /\ op'.staged = op.staged
         /\ op'.source \in {op.source, At(Leaf)}
         /\ op'.displaced \in {op.displaced, At(Temp)}
         /\ pc' \in Unstaged => pc \in Unstaged
<1>1. op = [tool |-> op.tool, payload |-> op.payload, shown |-> op.shown,
            version |-> op.version, source |-> op.source, staged |-> op.staged,
            displaced |-> op.displaced, result |-> op.result]
  BY DEF CallTyping
<1> USE DEF files, environment, Ends, Goes
<1>2. CASE Asks \/ Commands
  BY <1>1, <1>2 DEF Asks, Commands, Decide, PayloadChanges, Refuse, SayYes, SayAlways,
     Enter, CmdAllow, CmdDeny, Unstaged
<1>3. CASE Opens
  BY <1>1, <1>3 DEF Opens, Inspect, OpenExisting, OpenOnWindows, Found, Unstaged
<1>4. CASE Checks
  BY <1>1, <1>4 DEF Checks, CheckCreated, Verify, CheckLeaf, CheckDisplaced, CheckText,
     CopyMetadata, UnlinkLook, ReportDone, Unstaged
<1>5. CASE Restores
  BY <1>1, <1>5 DEF Restores, RestoreLookTemp, RestoreLookLeaf, CheckRestored,
     CheckStaged, CleanupLook, Unstaged
<1> QED
  BY <1>2, <1>3, <1>4, <1>5 DEF Looks

LEMMA NextSteps ==
  ASSUME Next
  PROVE  \/ Looks \/ Crash \/ Others
         \/ \E tool \in {"edit", "write"}, p \in Payloads : Request(tool, p)
         \/ Stage \/ StageOnWindows \/ Create \/ RenameOnWindows \/ DiscardOnWindows
         \/ Exchange \/ RestoreSwap \/ UnlinkOld \/ CleanupUnlink
  BY DEF Next, Consent, Replacement, Looks, Asks, Commands, Opens, Checks, Restores

(* The temporary name is a name, and not Leaf's.                            *)
LEMMA TempIsAName ==
  ASSUME CallTyping, pc # "idle"
  PROVE  Leaf \in Names /\ Temp \in Names /\ Temp # Leaf
  BY ToolAssumption DEF CallTyping, Leaf, Temp, Names

LEMMA ExchangedNames ==
  ASSUME CallTyping, FileTyping, pc # "idle"
  PROVE  /\ Exchanged \in [Names -> DOMAIN node \union {Missing}]
         /\ \A n \in Names : Exchanged[n] = IF n = Leaf THEN dir[Temp]
                                            ELSE IF n = Temp THEN dir[Leaf] ELSE dir[n]
  BY TempIsAName DEF FileTyping, Exchanged

LEMMA RenamedNames ==
  ASSUME CallTyping, FileTyping, pc # "idle"
  PROVE  /\ Renamed \in [Names -> DOMAIN node \union {Missing}]
         /\ \A n \in Names : Renamed[n] = IF n = Leaf THEN dir[Temp]
                                          ELSE IF n = Temp THEN Missing ELSE dir[n]
  BY TempIsAName DEF FileTyping, Renamed

LEMMA TouchedNodes ==
  ASSUME FileTyping
  PROVE  /\ DOMAIN Touched = DOMAIN node
         /\ Touched \in [DOMAIN node -> [text : Texts \union Payloads, mtime : Nat,
                                         ctime : Nat, by : {"agent", "other"}]]
         /\ \A i \in DOMAIN node : Touched[i].text = node[i].text /\ Touched[i].by = node[i].by
  BY DEF FileTyping, Touched

(* A step that makes no inode leaves room for those to come.                *)
LEMMA RoomKept ==
  ASSUME CallTyping, NEW k \in 0 .. 1 + ops + others, NodesBelow(k),
         others' \in {others, others + 1},
         \/ ops' = ops /\ (pc' \in Unstaged => pc \in Unstaged)
         \/ ops' = ops + 1 /\ pc \notin Unstaged
  PROVE  /\ k \in 0 .. 1 + ops' + others'
         /\ k + (IF pc' \in Unstaged THEN 1 ELSE 0) <= 1 + ops' + others'
<1>1. ops \in Nat /\ others \in Nat
  BY DEF CallTyping
<1>2. k + (IF pc \in Unstaged THEN 1 ELSE 0) <= 1 + ops + others
  BY DEF NodesBelow
<1> QED
  BY <1>1, <1>2

(* A step that makes no inode.                                              *)
LEMMA NoNewInode ==
  ASSUME CallTyping, FileTyping, DOMAIN node' = DOMAIN node,
         node' \in [DOMAIN node -> [text : Texts \union Payloads, mtime : Nat,
                                    ctime : Nat, by : {"agent", "other"}]],
         dir' \in [Names -> DOMAIN node \union {Missing}],
         {op'.source, op'.staged, op'.displaced, theirs'} \subseteq DOMAIN node \union {Missing},
         gone' \subseteq DOMAIN node \union {Missing}, retired' \subseteq DOMAIN node,
         others' \in {others, others + 1},
         \/ ops' = ops /\ (pc' \in Unstaged => pc \in Unstaged)
         \/ ops' = ops + 1 /\ pc \notin Unstaged
  PROVE  FileTyping'
<1>1. PICK k \in 0 .. 1 + ops + others : NodesBelow(k)
  BY DEF FileTyping
<1>3. /\ k \in 0 .. 1 + ops' + others'
      /\ k + (IF pc' \in Unstaged THEN 1 ELSE 0) <= 1 + ops' + others'
  BY <1>1, RoomKept, Zenon
<1>5. NodesBelow(k)'
  BY <1>1, <1>3, Zenon DEF NodesBelow
<1>6. \E m \in 0 .. 1 + ops' + others' : NodesBelow(m)'
  BY <1>3, <1>5, Zenon
<1>7. /\ node' \in [DOMAIN node' -> [text : Texts \union Payloads, mtime : Nat,
                                    ctime : Nat, by : {"agent", "other"}]]
      /\ dir' \in [Names -> DOMAIN node' \union {Missing}]
      /\ {op'.source, op'.staged, op'.displaced, theirs'} \subseteq DOMAIN node' \union {Missing}
      /\ gone' \subseteq DOMAIN node' \union {Missing} /\ retired' \subseteq DOMAIN node'
  BY Zenon
<1> QED
  BY <1>6, <1>7, Zenon DEF FileTyping

-----------------------------------------------------------------------------
(* Steps that move a directory entry, and what is in the way of each.       *)
LEMMA FileTypingKept ==
  ASSUME CallTyping, CallTyping', FileTyping, SourceInv, [Next]_vars
  PROVE  FileTyping'
<1>1. /\ node \in [DOMAIN node -> [text : Texts \union Payloads, mtime : Nat,
                                   ctime : Nat, by : {"agent", "other"}]]
      /\ dir \in [Names -> DOMAIN node \union {Missing}]
      /\ {op.source, op.staged, op.displaced, theirs} \subseteq DOMAIN node \union {Missing}
      /\ gone \subseteq DOMAIN node \union {Missing} /\ retired \subseteq DOMAIN node
  BY DEF FileTyping
<1>2. op = [tool |-> op.tool, payload |-> op.payload, shown |-> op.shown,
            version |-> op.version, source |-> op.source, staged |-> op.staged,
            displaced |-> op.displaced, result |-> op.result]
      /\ ops \in Nat /\ others \in Nat
  BY DEF CallTyping
<1>3. CASE Looks
  <2>1. pc # "idle" \/ op'.displaced = op.displaced
    BY <1>2, <1>3 DEF Looks, Asks, Commands, Opens, Checks, Restores, Decide,
       PayloadChanges, Refuse, SayYes, SayAlways, Enter, CmdAllow, CmdDeny, Inspect,
       OpenExisting, OpenOnWindows, CheckCreated, Verify, CheckLeaf, CheckDisplaced,
       CheckText, CopyMetadata, UnlinkLook, ReportDone, RestoreLookTemp, RestoreLookLeaf,
       CheckRestored, CheckStaged, CleanupLook
  <2>2. {At(Leaf)} \subseteq DOMAIN node \union {Missing}
        /\ op'.displaced \in DOMAIN node \union {Missing}
    BY <1>1, <1>3, <2>1, TempIsAName, LooksLeaveFiles, ToolAssumption
       DEF At, Leaf, Names
  <2> QED
    BY <1>1, <1>2, <1>3, <2>2, LooksLeaveFiles, NoNewInode
<1>4. ASSUME NEW tool \in {"edit", "write"}, NEW p \in Payloads, Request(tool, p)
      PROVE  FileTyping'
  <2>1. UNCHANGED <<dir, node, gone, retired, others>> /\ ops' = ops + 1
        /\ theirs' = At(Leaf) /\ pc \notin Unstaged
        /\ op'.source = Missing /\ op'.staged = Missing /\ op'.displaced = Missing
    BY <1>4 DEF Request, NoOp, files, Unstaged
  <2>2. At(Leaf) \in DOMAIN node \union {Missing}
    BY <1>1, ToolAssumption DEF At, Leaf, Names
  <2> QED
    BY <1>1, <2>1, <2>2, NoNewInode
<1>5. CASE Stage \/ StageOnWindows
  <2>1. /\ pc = "stage" /\ pc' \notin Unstaged
        /\ dir' = [dir EXCEPT ![Temp] = NewInode]
        /\ node' = Created(File(op.payload, "agent"))
        /\ op'.staged = NewInode /\ op'.source = op.source /\ op'.displaced = op.displaced
        /\ UNCHANGED <<theirs, gone, retired, ops, others>>
    BY <1>2, <1>5 DEF Stage, StageOnWindows, NewTemporary, environment, Unstaged
  <2>2. /\ NewInode \in Nat /\ NewInode # Missing /\ NewInode \notin DOMAIN node
        /\ DOMAIN node' = DOMAIN node \union {NewInode}
        /\ node' = [i \in DOMAIN node \union {NewInode} |->
                      IF i = NewInode THEN File(op.payload, "agent") ELSE node[i]]
        /\ \A k \in Nat : NodesBelow(k) => DOMAIN node' = 1 .. k + 1
    BY <2>1, NodeAdded
  <2>3. File(op.payload, "agent") \in [text : Texts \union Payloads, mtime : Nat,
                                       ctime : Nat, by : {"agent", "other"}]
    BY <2>1 DEF File, CallTyping
  <2>4. node' \in [DOMAIN node' -> [text : Texts \union Payloads, mtime : Nat,
                                    ctime : Nat, by : {"agent", "other"}]]
    BY <1>1, <2>2, <2>3
  <2>5. \E k \in 0 .. 1 + ops' + others' : NodesBelow(k)'
    <3>1. PICK k \in 0 .. 1 + ops + others : NodesBelow(k)
      BY DEF FileTyping
    <3>2. k + 1 <= 1 + ops + others
      BY <2>1, <3>1 DEF NodesBelow, Unstaged
    <3> QED
      BY <1>2, <2>1, <2>2, <3>1, <3>2 DEF NodesBelow
  <2>6. dir' \in [Names -> DOMAIN node' \union {Missing}]
    BY <1>1, <2>1, <2>2
  <2>7. /\ {op'.source, op'.staged, op'.displaced, theirs'} \subseteq DOMAIN node' \union {Missing}
        /\ gone' \subseteq DOMAIN node' \union {Missing} /\ retired' \subseteq DOMAIN node'
    BY <1>1, <2>1, <2>2
  <2> QED
    BY <2>4, <2>5, <2>6, <2>7, Zenon DEF FileTyping
<1>6. CASE Create \/ RenameOnWindows \/ DiscardOnWindows \/ UnlinkOld \/ CleanupUnlink
  <2>1. /\ UNCHANGED <<node, theirs, gone, ops, others>> /\ pc # "idle"
        /\ pc' \notin Unstaged
        /\ op'.source = op.source /\ op'.staged = op.staged /\ op'.displaced = op.displaced
    BY <1>2, <1>6 DEF Create, RenameOnWindows, DiscardOnWindows, UnlinkOld, CleanupUnlink,
       environment, Goes, Ends, Unstaged
  <2>2. retired' \subseteq DOMAIN node
    BY <1>1, <1>6 DEF Create, RenameOnWindows, DiscardOnWindows, UnlinkOld, CleanupUnlink,
       SourceInv, Compared
  <2>3. dir' \in [Names -> DOMAIN node \union {Missing}]
    BY <1>1, <1>6, <2>1, RenamedNames
       DEF Create, RenameOnWindows, DiscardOnWindows, UnlinkOld, CleanupUnlink
  <2> QED
    BY <1>1, <2>1, <2>2, <2>3, NoNewInode
<1>7. CASE Exchange \/ RestoreSwap
  <2>1. /\ UNCHANGED <<theirs, gone, retired, ops, others>> /\ pc # "idle"
        /\ pc' \notin Unstaged
        /\ op'.source = op.source /\ op'.staged = op.staged /\ op'.displaced = op.displaced
        /\ UNCHANGED <<dir, node>> \/ (dir' = Exchanged /\ node' = Touched)
    BY <1>2, <1>7 DEF Exchange, RestoreSwap, environment, files, Goes, Ends, Unstaged
  <2> QED
    BY <1>1, <2>1, ExchangedNames, TouchedNodes, NoNewInode
<1>8. CASE Crash
  <2>1. UNCHANGED <<dir, node, gone, retired, others, ops, theirs>> /\ pc' \notin Unstaged
        /\ op'.source = Missing /\ op'.staged = Missing /\ op'.displaced = Missing
    BY <1>8 DEF Crash, NoOp, files, Unstaged
  <2> QED
    BY <1>1, <2>1, NoNewInode
<1>9. ASSUME NEW t \in Texts, OtherWrites(t)
      PROVE  FileTyping'
  <2>1. /\ UNCHANGED <<dir, theirs, gone, retired, op, pc, ops>> /\ others' = others + 1
        /\ At(Leaf) \in DOMAIN node
        /\ node' = [node EXCEPT ![At(Leaf)].text = t, ![At(Leaf)].mtime = @ + 1,
                                ![At(Leaf)].ctime = @ + 1]
    BY <1>1, <1>9, ToolAssumption DEF OtherWrites, Other, At, Leaf, Names
  <2>2. node' \in [DOMAIN node -> [text : Texts \union Payloads, mtime : Nat,
                                   ctime : Nat, by : {"agent", "other"}]]
    BY <1>1, <2>1
  <2> QED
    BY <1>1, <2>1, <2>2, NoNewInode
<1>10. ASSUME NEW t \in Texts, OtherPuts(t)
       PROVE  FileTyping'
  <2>1. /\ UNCHANGED <<retired, op, pc, ops>> /\ others < MaxOthers /\ others' = others + 1
        /\ dir' = [dir EXCEPT ![Leaf] = NewInode]
        /\ node' = Created(File(t, "other"))
        /\ theirs' = NewInode /\ gone' = gone \union {At(Leaf)}
    BY <1>10 DEF OtherPuts, Other
  <2>2. /\ NewInode \in Nat /\ NewInode # Missing /\ NewInode \notin DOMAIN node
        /\ DOMAIN node' = DOMAIN node \union {NewInode}
        /\ node' = [i \in DOMAIN node \union {NewInode} |->
                      IF i = NewInode THEN File(t, "other") ELSE node[i]]
        /\ \A k \in Nat : NodesBelow(k) => DOMAIN node' = 1 .. k + 1
    BY <2>1, NodeAdded
  <2>3. File(t, "other") \in [text : Texts \union Payloads, mtime : Nat,
                              ctime : Nat, by : {"agent", "other"}]
    BY DEF File
  <2>4. node' \in [DOMAIN node' -> [text : Texts \union Payloads, mtime : Nat,
                                    ctime : Nat, by : {"agent", "other"}]]
    BY <1>1, <2>2, <2>3
  <2>5. \E k \in 0 .. 1 + ops' + others' : NodesBelow(k)'
    <3>1. PICK k \in 0 .. 1 + ops + others : NodesBelow(k)
      BY DEF FileTyping
    <3> QED
      BY <1>2, <2>1, <2>2, <3>1 DEF NodesBelow
  <2>6. dir' \in [Names -> DOMAIN node' \union {Missing}]
        /\ At(Leaf) \in DOMAIN node \union {Missing}
    BY <1>1, <2>1, <2>2, ToolAssumption DEF At, Leaf, Names
  <2>7. /\ {op'.source, op'.staged, op'.displaced, theirs'} \subseteq DOMAIN node' \union {Missing}
        /\ gone' \subseteq DOMAIN node' \union {Missing} /\ retired' \subseteq DOMAIN node'
    BY <1>1, <2>1, <2>2, <2>6
  <2> QED
    BY <2>4, <2>5, <2>6, <2>7, Zenon DEF FileTyping
<1>11. CASE OtherUnlinks \/ RootReplaced \/ \E n \in Names : OtherSweeps(n)
  <2>1. /\ UNCHANGED <<node, retired, op, pc, ops>> /\ others' = others + 1
        /\ theirs' \in {theirs, Missing}
        /\ dir' = dir \/ \E n \in Names : dir' = [dir EXCEPT ![n] = Missing]
        /\ gone' = gone \/ \E n \in Names : gone' = gone \union {dir[n]}
    BY <1>11, ToolAssumption DEF OtherUnlinks, RootReplaced, OtherSweeps, Other, files,
       At, Leaf, Names
  <2> QED
    BY <1>1, <2>1, NoNewInode
<1>12. CASE UNCHANGED vars
  BY <1>1, <1>2, <1>12, NoNewInode DEF vars
<1> QED
  BY <1>3, <1>4, <1>5, <1>6, <1>7, <1>8, <1>9, <1>10, <1>11, <1>12, NextSteps DEF Others

(* What each step that changes an entry or an inode does, in one place.     *)
LEMMA RequestEffect ==
  ASSUME CallTyping, NEW tool \in {"edit", "write"}, NEW p \in Payloads, Request(tool, p)
  PROVE  /\ UNCHANGED <<dir, node, gone, retired, others>>
         /\ ops' = ops + 1 /\ theirs' = At(Leaf) /\ pc \in Resting
         /\ pc' \in {"decide", "done"} /\ op'.tool = tool
         /\ op'.result \in {"none", "identity"}
         /\ op'.source = Missing /\ op'.staged = Missing
  BY DEF Request, NoOp, files, Resting

LEMMA StageEffect ==
  ASSUME CallTyping, FileTyping, Stage \/ StageOnWindows
  PROVE  /\ pc = "stage"
         /\ \/ /\ platform = "linux"
               /\ pc' \in {"cleanup", IF op.source = Missing THEN "create"
                                      ELSE IF op.tool = "edit" THEN "verify" ELSE "exchange"}
            \/ platform = "windows" /\ pc' \in {"discard", "rename"}
         /\ UNCHANGED <<theirs, gone, retired, ops, others, platform>>
         /\ NewInode # Missing /\ NewInode \notin DOMAIN node
         /\ \A n \in Names : dir'[n] = IF n = Temp THEN NewInode ELSE dir[n]
         /\ node'[NewInode].by = "agent"
         /\ DOMAIN node' = DOMAIN node \union {NewInode}
         /\ \A i \in DOMAIN node : node'[i] = node[i]
         /\ op'.staged = NewInode /\ op'.source = op.source /\ op'.tool = op.tool
         /\ op'.version = op.version /\ op'.result = op.result
<1>1. /\ pc = "stage"
      /\ dir' = [dir EXCEPT ![Temp] = NewInode]
      /\ node' = Created(File(op.payload, "agent"))
      /\ op'.staged = NewInode /\ op'.source = op.source /\ op'.tool = op.tool
      /\ op'.version = op.version /\ op'.result = op.result
      /\ UNCHANGED <<theirs, gone, retired, ops, others, platform>>
  BY DEF Stage, StageOnWindows, NewTemporary, environment, CallTyping
<1>2. /\ NewInode \in Nat /\ NewInode # Missing /\ NewInode \notin DOMAIN node
      /\ DOMAIN node' = DOMAIN node \union {NewInode}
      /\ node' = [i \in DOMAIN node \union {NewInode} |->
                    IF i = NewInode THEN File(op.payload, "agent") ELSE node[i]]
  BY <1>1, NodeAdded
<1>3. node'[NewInode].by = "agent" /\ \A i \in DOMAIN node : node'[i] = node[i]
  BY <1>2 DEF File
<1>4. \A n \in Names : dir'[n] = IF n = Temp THEN NewInode ELSE dir[n]
  BY <1>1 DEF FileTyping
<1>5. \/ /\ platform = "linux"
         /\ pc' \in {"cleanup", IF op.source = Missing THEN "create"
                                ELSE IF op.tool = "edit" THEN "verify" ELSE "exchange"}
      \/ platform = "windows" /\ pc' \in {"discard", "rename"}
  BY DEF Stage, StageOnWindows
<1> QED
  BY <1>1, <1>2, <1>3, <1>4, <1>5

LEMMA RenameEffect ==
  ASSUME CallTyping, FileTyping, Create \/ RenameOnWindows
  PROVE  /\ UNCHANGED <<node, theirs, gone, retired, ops, others, op, platform>>
         /\ pc \in {"create", "rename"}
         /\ \/ dir' = dir /\ pc' \in {"cleanup", "discard"}
            \/ /\ At(Leaf) = Missing /\ At(Temp) # Missing
               /\ pc' \in {"created", "commit"}
               /\ \A n \in Names : dir'[n] = IF n = Leaf THEN dir[Temp]
                                             ELSE IF n = Temp THEN Missing ELSE dir[n]
  BY RenamedNames DEF Create, RenameOnWindows, environment, Goes, Unoccupied

LEMMA ExchangeEffect ==
  ASSUME CallTyping, FileTyping, Exchange \/ RestoreSwap
  PROVE  /\ UNCHANGED <<theirs, gone, retired, ops, others, platform>>
         /\ op'.source = op.source /\ op'.staged = op.staged /\ op'.tool = op.tool
         /\ op'.version = op.version
         /\ \/ UNCHANGED <<dir, node, op>> /\ pc = "exchange" /\ pc' = "cleanup"
            \/ /\ UNCHANGED <<dir, node>> /\ pc = "restore_swap" /\ pc' = "done"
               /\ op'.result = "uncertain"
            \/ /\ op' = op /\ Missing \notin {At(Temp), At(Leaf)}
               /\ \/ pc = "exchange" /\ pc' = "check_leaf"
                  \/ pc = "restore_swap" /\ pc' = "restored"
               /\ \A n \in Names : dir'[n] = IF n = Leaf THEN dir[Temp]
                                             ELSE IF n = Temp THEN dir[Leaf] ELSE dir[n]
               /\ DOMAIN node' = DOMAIN node
               /\ \A i \in DOMAIN node : node'[i].text = node[i].text /\ node'[i].by = node[i].by
  BY ExchangedNames, TouchedNodes
     DEF Exchange, RestoreSwap, environment, files, Goes, Ends, CallTyping

LEMMA RemovalEffect ==
  ASSUME CallTyping, FileTyping, DiscardOnWindows \/ UnlinkOld \/ CleanupUnlink
  PROVE  /\ UNCHANGED <<node, theirs, gone, ops, others, platform>>
         /\ op'.source = op.source /\ op'.staged = op.staged /\ op'.tool = op.tool
         /\ op'.version = op.version
         /\ \/ /\ pc = "discard" /\ pc' = "done" /\ op'.result = "failed"
               /\ retired' = retired
               /\ \A n \in Names : dir'[n] = IF dir[n] = op.staged THEN Missing ELSE dir[n]
            \/ /\ pc = "unlink_old" /\ pc' = "commit" /\ op' = op
               /\ retired' = retired \union {op.source}
               /\ \A n \in Names : dir'[n] = IF n = Temp THEN Missing ELSE dir[n]
            \/ /\ pc = "cleanup_unlink" /\ pc' = "done" /\ op'.result = "failed"
               /\ retired' = retired
               /\ \A n \in Names : dir'[n] = IF n = Temp THEN Missing ELSE dir[n]
<1>1. op = [tool |-> op.tool, payload |-> op.payload, shown |-> op.shown,
            version |-> op.version, source |-> op.source, staged |-> op.staged,
            displaced |-> op.displaced, result |-> op.result]
  BY DEF CallTyping
<1>2. dir \in [Names -> DOMAIN node \union {Missing}]
  BY DEF FileTyping
<1> QED
  BY <1>1, <1>2 DEF DiscardOnWindows, UnlinkOld, CleanupUnlink, environment, Goes, Ends

LEMMA CrashEffect ==
  ASSUME Crash
  PROVE  /\ UNCHANGED <<dir, node, theirs, gone, retired, ops, others>>
         /\ pc' = "idle" /\ op' = NoOp
  BY DEF Crash, files

LEMMA OthersEffect ==
  ASSUME CallTyping, FileTyping, Others
  PROVE  /\ UNCHANGED <<platform, pc, op, retired, ops>>
         /\ gone \subseteq gone'
         /\ \/ UNCHANGED <<dir, theirs, gone>> /\ DOMAIN node' = DOMAIN node
               /\ \A i \in DOMAIN node : /\ node'[i].by = node[i].by
                                         /\ i # At(Leaf) => node'[i] = node[i]
            \/ /\ NewInode # Missing /\ NewInode \notin DOMAIN node
               /\ \A n \in Names : dir'[n] = IF n = Leaf THEN NewInode ELSE dir[n]
               /\ DOMAIN node' = DOMAIN node \union {NewInode}
               /\ \A i \in DOMAIN node : node'[i] = node[i]
               /\ theirs' = NewInode /\ At(Leaf) \in gone'
            \/ /\ \A n \in Names : dir'[n] = IF n = Leaf THEN Missing ELSE dir[n]
               /\ node' = node /\ theirs' = Missing /\ At(Leaf) \in gone'
            \/ \E m \in Names \ {Leaf} :
                 /\ \A n \in Names : dir'[n] = IF n = m THEN Missing ELSE dir[n]
                 /\ node' = node /\ theirs' = theirs /\ At(m) \in gone'
<1>1. /\ node \in [DOMAIN node -> [text : Texts \union Payloads, mtime : Nat,
                                   ctime : Nat, by : {"agent", "other"}]]
      /\ dir \in [Names -> DOMAIN node \union {Missing}] /\ Leaf \in Names
  BY ToolAssumption DEF FileTyping, Leaf, Names
<1>2. ASSUME NEW t \in Texts, OtherWrites(t)
      PROVE  /\ UNCHANGED <<platform, pc, op, retired, ops, dir, theirs, gone>>
             /\ DOMAIN node' = DOMAIN node
             /\ \A i \in DOMAIN node : /\ node'[i].by = node[i].by
                                       /\ i # At(Leaf) => node'[i] = node[i]
  BY <1>1, <1>2 DEF OtherWrites, Other
<1>3. ASSUME NEW t \in Texts, OtherPuts(t)
      PROVE  /\ UNCHANGED <<platform, pc, op, retired, ops>>
             /\ NewInode # Missing /\ NewInode \notin DOMAIN node
             /\ \A n \in Names : dir'[n] = IF n = Leaf THEN NewInode ELSE dir[n]
             /\ DOMAIN node' = DOMAIN node \union {NewInode}
             /\ \A i \in DOMAIN node : node'[i] = node[i]
             /\ theirs' = NewInode /\ gone' = gone \union {At(Leaf)}
  <2>1. /\ UNCHANGED <<platform, pc, op, retired, ops>> /\ others < MaxOthers
        /\ dir' = [dir EXCEPT ![Leaf] = NewInode]
        /\ node' = Created(File(t, "other"))
        /\ theirs' = NewInode /\ gone' = gone \union {At(Leaf)}
    BY <1>3 DEF OtherPuts, Other
  <2>2. /\ NewInode # Missing /\ NewInode \notin DOMAIN node
        /\ DOMAIN node' = DOMAIN node \union {NewInode}
        /\ node' = [i \in DOMAIN node \union {NewInode} |->
                      IF i = NewInode THEN File(t, "other") ELSE node[i]]
    BY <2>1, NodeAdded
  <2> QED
    BY <1>1, <2>1, <2>2
<1>4. CASE OtherUnlinks \/ RootReplaced \/ \E n \in Names : OtherSweeps(n)
  BY <1>1, <1>4 DEF OtherUnlinks, RootReplaced, OtherSweeps, Other, files, At
<1> QED
  BY <1>2, <1>3, <1>4 DEF Others

LEMMA NamesKept ==
  ASSUME CallTyping, FileTyping, FileTyping', NamesInv, [Next]_vars
  PROVE  NamesInv'
<1>1. /\ dir \in [Names -> DOMAIN node \union {Missing}]
      /\ ops \in Nat /\ \A n \in Names : n \in Nat
  <2>1. dir \in [Names -> DOMAIN node \union {Missing}]
    BY DEF FileTyping
  <2>2. ops \in Nat /\ \A n \in Names : n \in Nat
    BY ToolAssumption DEF CallTyping, Names
  <2> QED
    BY <2>1, <2>2
<1>2. /\ \A m, n \in Names : dir[m] = dir[n] /\ dir[m] # Missing => m = n
      /\ \A n \in Names : n > ops \/ (pc \in Unstaged /\ n = ops) => dir[n] = Missing
  BY DEF NamesInv
<1>3. CASE Looks \/ UNCHANGED vars \/ Crash
  BY <1>2, <1>3, LooksLeaveFiles, CrashEffect DEF NamesInv, vars, Unstaged
<1>4. ASSUME NEW tool \in {"edit", "write"}, NEW p \in Payloads, Request(tool, p)
      PROVE  NamesInv'
  <2>1. dir' = dir /\ ops' = ops + 1
    BY <1>4, RequestEffect
  <2>2. ASSUME NEW n \in Names, n > ops' \/ (pc' \in Unstaged /\ n = ops')
        PROVE  dir[n] = Missing
    <3>1. n > ops
      BY <1>1, <2>1, <2>2
    <3> QED
      BY <1>2, <3>1
  <2> QED
    BY <1>2, <2>1, <2>2 DEF NamesInv
<1>5. CASE Stage \/ StageOnWindows
  BY <1>1, <1>2, <1>5, StageEffect DEF NamesInv, Unstaged, Temp
<1>6. CASE Create \/ RenameOnWindows
  BY <1>1, <1>2, <1>6, RenameEffect, TempIsAName DEF NamesInv, Unstaged, Temp, At, Leaf
<1>7. CASE Exchange \/ RestoreSwap
  BY <1>1, <1>2, <1>7, ExchangeEffect, TempIsAName DEF NamesInv, Unstaged, Temp, Leaf
<1>8. CASE DiscardOnWindows \/ UnlinkOld \/ CleanupUnlink
  BY <1>1, <1>2, <1>8, RemovalEffect, TempIsAName DEF NamesInv, Unstaged, Temp, Leaf
<1>9. CASE Others
  BY <1>1, <1>2, <1>9, OthersEffect, TempIsAName DEF NamesInv, Unstaged, Temp, Leaf
<1> QED
  BY <1>3, <1>4, <1>5, <1>6, <1>7, <1>8, <1>9, NextSteps

(* What the steps that only look do to the call.                            *)
LEMMA LookEffect ==
  ASSUME CallTyping, Looks
  PROVE  \/ /\ pc \in {"decide", "prompt", "enter", "inspect", "open"}
            /\ pc' \in Unstaged \ {"stage"} /\ op'.source = op.source
         \/ /\ pc = "open" /\ pc' = "stage" /\ op'.source = At(Leaf)
            /\ op.tool = "edit" => At(Leaf) # Missing /\ platform = "linux"
         \/ pc \in Unstaged /\ pc' = "done" /\ op'.source = op.source /\ op'.result # "ok"
         \/ pc' = pc /\ op' = op
         \/ pc = "created" /\ pc' = "commit" /\ op' = op
         \/ /\ pc \in {"created", "commit", "restore", "restore_leaf", "restored", "restored_temp"}
            /\ pc' = "done" /\ op'.result \in {"uncertain", "identity"}
         \/ /\ pc = "verify" /\ op' = op
            /\ pc' = "cleanup" \/ (pc' = "exchange" /\ MatchesVersion)
         \/ pc = "check_leaf" /\ op' = op /\ pc' \in {"check_temp", "restore"}
         \/ /\ pc = "check_temp" /\ op' = op
            /\ pc' = "restore" \/ (pc' = "check_text" /\ At(Temp) = op.source)
         \/ /\ pc = "check_text" /\ op' = op
            /\ pc' = "restore" \/ (pc' = "copy_metadata" /\ ContentMatches)
         \/ pc = "copy_metadata" /\ op' = op /\ pc' \in {"restore", "unlink"}
         \/ /\ pc = "unlink" /\ op' = op
            /\ pc' = "commit" \/ (pc' = "unlink_old" /\ At(Temp) = op.source)
         \/ /\ pc = "commit" /\ pc' = "done" /\ op'.result = "ok"
            /\ op'.source = op.source /\ op'.version = op.version
         \/ pc = "restore" /\ pc' = "restore_leaf"
         \/ pc = "restore_leaf" /\ pc' = "restore_swap"
         \/ pc = "restored" /\ pc' = "restored_temp"
         \/ pc = "restored_temp" /\ pc' = "cleanup" /\ At(Temp) = op.staged
         \/ pc = "cleanup" /\ pc' = "cleanup_unlink" /\ At(Temp) = op.staged
         \/ pc = "cleanup" /\ pc' = "done" /\ op'.result = "failed" /\ At(Temp) # op.staged
<1>1. op = [tool |-> op.tool, payload |-> op.payload, shown |-> op.shown,
            version |-> op.version, source |-> op.source, staged |-> op.staged,
            displaced |-> op.displaced, result |-> op.result]
  BY DEF CallTyping
<1> USE DEF Ends, Goes, Unstaged
<1>2. CASE Asks \/ Commands
  BY <1>1, <1>2 DEF Asks, Commands, Decide, PayloadChanges, Refuse, SayYes, SayAlways,
     Enter, CmdAllow, CmdDeny
<1>3. CASE Opens
  BY <1>1, <1>3 DEF Opens, Inspect, OpenExisting, OpenOnWindows, Found
<1>4. CASE Checks
  BY <1>1, <1>4 DEF Checks, CheckCreated, Verify, CheckLeaf, CheckDisplaced, CheckText,
     CopyMetadata, UnlinkLook, ReportDone
<1>5. CASE Restores
  BY <1>1, <1>5 DEF Restores, RestoreLookTemp, RestoreLookLeaf, CheckRestored,
     CheckStaged, CleanupLook
<1> QED
  BY <1>2, <1>3, <1>4, <1>5 DEF Looks

LEMMA StagedKept ==
  ASSUME CallTyping, FileTyping, NamesInv, StagedInv, [Next]_vars
  PROVE  StagedInv'
<1> USE DEF Unstaged, Resting
<1>1. /\ dir \in [Names -> DOMAIN node \union {Missing}]
      /\ op.staged \in DOMAIN node \union {Missing} /\ theirs \in DOMAIN node \union {Missing}
      /\ Leaf \in Names
  BY ToolAssumption DEF FileTyping, Leaf, Names
<1>2. /\ pc \in Unstaged \union {"idle"} => op.staged = Missing
      /\ pc \notin Unstaged \union Resting => op.staged # Missing
      /\ op.staged # Missing =>
           /\ node[op.staged].by = "agent" /\ theirs # op.staged
           /\ \A n \in Names : dir[n] = op.staged => n \in {Leaf, Temp}
  BY DEF StagedInv
<1>3. CASE Looks
  <2>1. /\ UNCHANGED <<dir, node, theirs, ops>> /\ op'.staged = op.staged
    BY <1>3, LooksLeaveFiles
  <2>2. /\ pc' \in Unstaged \union {"idle"} => pc \in Unstaged \union {"idle"}
        /\ pc' \notin Unstaged \union Resting =>
             pc \notin Unstaged \union Resting
    BY <1>3, LookEffect
  <2> QED
    BY <1>2, <2>1, <2>2 DEF StagedInv, Temp
<1>4. CASE UNCHANGED vars
  BY <1>2, <1>4 DEF StagedInv, vars, Temp
<1>11. CASE Crash
  <2>1. pc' = "idle" /\ op'.staged = Missing
    BY <1>11 DEF Crash, NoOp
  <2> QED
    BY <2>1 DEF StagedInv
<1>5. ASSUME NEW tool \in {"edit", "write"}, NEW p \in Payloads, Request(tool, p)
      PROVE  StagedInv'
  BY <1>5, RequestEffect DEF StagedInv
<1>6. CASE Stage \/ StageOnWindows
  BY <1>1, <1>6, StageEffect DEF StagedInv, Temp
<1>7. CASE Create \/ RenameOnWindows
  <2>1. /\ UNCHANGED <<node, theirs, ops, op>>
        /\ pc \notin Unstaged \union Resting /\ pc' \notin Unstaged \union Resting
        /\ \A n \in Names : dir'[n] = dir[n] \/ n \in {Leaf, Temp}
    BY <1>7, RenameEffect
  <2> QED
    BY <1>2, <2>1 DEF StagedInv, Temp
<1>8. CASE Exchange \/ RestoreSwap
  <2>1. /\ UNCHANGED <<theirs, ops>> /\ op'.staged = op.staged
        /\ pc \notin Unstaged \union Resting /\ pc' \notin Unstaged \union {"idle"}
        /\ \A n \in Names : dir'[n] = dir[n] \/ n \in {Leaf, Temp}
        /\ \A i \in DOMAIN node : node'[i].by = node[i].by
    BY <1>8, ExchangeEffect
  <2> QED
    BY <1>1, <1>2, <2>1 DEF StagedInv, Temp
<1>9. CASE DiscardOnWindows \/ UnlinkOld \/ CleanupUnlink
  <2>1. /\ UNCHANGED <<node, theirs, ops>> /\ op'.staged = op.staged
        /\ pc \notin Unstaged \union Resting /\ pc' \notin Unstaged \union {"idle"}
        /\ \A n \in Names : dir'[n] \in {dir[n], Missing}
    BY <1>9, RemovalEffect
  <2> QED
    BY <1>1, <1>2, <2>1 DEF StagedInv, Temp
<1>10. CASE Others
  <2>1. /\ UNCHANGED <<pc, op, ops>>
        /\ \/ theirs' \in {theirs, Missing}
           \/ theirs' \notin DOMAIN node /\ theirs' # Missing
        /\ \A n \in Names : \/ dir'[n] \in {dir[n], Missing}
                            \/ dir'[n] \notin DOMAIN node /\ dir'[n] # Missing
        /\ \A i \in DOMAIN node : node'[i].by = node[i].by
    BY <1>1, <1>10, OthersEffect
  <2> QED
    BY <1>1, <1>2, <2>1 DEF StagedInv, Temp
<1> QED
  BY <1>3, <1>4, <1>5, <1>6, <1>7, <1>8, <1>9, <1>10, <1>11, NextSteps

(* Leaf stays the others' until the names are exchanged, and is theirs      *)
(* again once the staged file is back under its temporary name.             *)
LEMMA LeafKept ==
  ASSUME CallTyping, FileTyping, NamesInv, StagedInv, LeafInv, [Next]_vars
  PROVE  LeafInv'
<1> USE DEF Unstaged, Beside, Exchanging, Restored, Resting, Failed
<1>1. /\ dir \in [Names -> DOMAIN node \union {Missing}]
      /\ {op.staged, op.source, theirs} \subseteq DOMAIN node \union {Missing}
      /\ Leaf \in Names /\ \A n : At(n) = dir[n]
      /\ pc # "idle" => Temp \in Names /\ Temp # Leaf
      /\ \A m, n \in Names : dir[m] = dir[n] /\ dir[m] # Missing => m = n
      /\ pc \in Unstaged => dir[Temp] = Missing
  <2>1. /\ dir \in [Names -> DOMAIN node \union {Missing}]
        /\ {op.staged, op.source, theirs} \subseteq DOMAIN node \union {Missing}
    BY DEF FileTyping
  <2>2. Leaf \in Names /\ \A n : At(n) = dir[n]
    BY ToolAssumption DEF Leaf, Names, At
  <2>3. pc # "idle" => Temp \in Names /\ Temp # Leaf
    BY TempIsAName
  <2>4. \A m, n \in Names : dir[m] = dir[n] /\ dir[m] # Missing => m = n
    BY DEF NamesInv
  <2>5. pc \in Unstaged => dir[Temp] = Missing
    BY <2>3 DEF NamesInv, Temp
  <2> QED
    BY <2>1, <2>2, <2>3, <2>4, <2>5
<1>2. /\ pc \in Unstaged \union {"idle"} => op.staged = Missing
      /\ pc \notin Unstaged \union Resting => op.staged # Missing
      /\ op.staged # Missing =>
           /\ theirs # op.staged
           /\ \A n \in Names : dir[n] = op.staged => n \in {Leaf, Temp}
  BY DEF StagedInv
<1>3. /\ pc \in Unstaged \union Beside \/ Failed => dir[Leaf] = theirs
      /\ pc \in Exchanging =>
           /\ dir[Temp] # op.staged
           /\ dir[Leaf] = op.staged => dir[Temp] \in {theirs, Missing}
      /\ pc \in Restored /\ dir[Temp] = op.staged => dir[Leaf] = theirs
      /\ pc = "cleanup_unlink" => dir[Temp] \in {op.staged, Missing}
      /\ pc = "unlink_old" => dir[Temp] \in {op.source, Missing}
      /\ Failed => \A n \in Names : dir[n] # op.staged \/ dir[n] = Missing
  BY <1>1 DEF LeafInv
<1>4. CASE Looks
  <2>1. UNCHANGED <<dir, theirs, ops>> /\ op'.staged = op.staged
    BY <1>4, LooksLeaveFiles
  <2>2. CASE pc' = "done" /\ op'.result = "failed" /\ ~(pc' = pc /\ op' = op)
    <3>1. \/ pc \in Unstaged /\ op.staged = Missing
          \/ pc = "cleanup" /\ dir[Temp] # op.staged
      BY <1>2, <1>4, <2>2, LookEffect DEF At
    <3>2. dir[Leaf] = theirs /\ \A n \in Names : dir[n] # op.staged \/ dir[n] = Missing
      BY <1>1, <1>2, <1>3, <3>1
    <3> QED
      BY <2>1, <2>2, <3>2 DEF LeafInv, At, Temp
  <2>3. CASE ~(pc' = "done" /\ op'.result = "failed") \/ (pc' = pc /\ op' = op)
    <3>1. /\ pc' \in Unstaged \union Beside =>
               \/ pc \in Unstaged \union Beside
               \/ pc = "restored_temp" /\ dir[Temp] = op.staged
          /\ pc' \in Exchanging => pc \in Exchanging
          /\ pc' \in Restored => pc \in Restored
          /\ pc' = "cleanup_unlink" => dir[Temp] = op.staged \/ (pc' = pc /\ op' = op)
          /\ pc' = "unlink_old" => \/ dir[Temp] = op.source /\ op' = op
                                   \/ pc' = pc /\ op' = op
      BY <1>4, LookEffect DEF At
    <3> QED
      BY <1>1, <1>2, <1>3, <2>1, <2>3, <3>1 DEF LeafInv, At, Temp
  <2> QED
    BY <2>2, <2>3
<1>5. CASE UNCHANGED vars
  BY <1>5 DEF LeafInv, vars, At, Temp
<1>6. CASE Crash
  BY <1>6 DEF Crash, LeafInv
<1>7. ASSUME NEW tool \in {"edit", "write"}, NEW p \in Payloads, Request(tool, p)
      PROVE  LeafInv'
  BY <1>7, RequestEffect DEF LeafInv, At
<1>8. CASE Stage \/ StageOnWindows
  BY <1>1, <1>3, <1>8, StageEffect DEF LeafInv, At, Temp
<1>9. CASE Create \/ RenameOnWindows
  BY <1>1, <1>3, <1>9, RenameEffect DEF LeafInv, At, Temp
<1>10. CASE Exchange \/ RestoreSwap
  BY <1>1, <1>2, <1>3, <1>10, ExchangeEffect DEF LeafInv, At, Temp
<1>11. CASE DiscardOnWindows \/ UnlinkOld \/ CleanupUnlink
  BY <1>1, <1>2, <1>3, <1>11, RemovalEffect DEF LeafInv, At, Temp
<1>12. CASE Others
  BY <1>1, <1>2, <1>3, <1>12, OthersEffect DEF LeafInv, At, Temp
<1> QED
  BY <1>4, <1>5, <1>6, <1>7, <1>8, <1>9, <1>10, <1>11, <1>12, NextSteps

(* Between the comparison with the inspected version and the end of the     *)
(* call nobody can write to the replaced file by name.                      *)
LEMMA SourceKept ==
  ASSUME CallTyping, FileTyping, NamesInv, LeafInv, SourceInv, [Next]_vars
  PROVE  SourceInv'
<1> USE DEF Unstaged, Compared, Settled, Succeeded
<1>1. /\ dir \in [Names -> DOMAIN node \union {Missing}]
      /\ {op.staged, op.source, theirs} \subseteq DOMAIN node \union {Missing}
      /\ Leaf \in Names /\ \A n : At(n) = dir[n]
      /\ pc # "idle" => Temp \in Names /\ Temp # Leaf
      /\ \A m, n \in Names : dir[m] = dir[n] /\ dir[m] # Missing => m = n
  BY TempIsAName, ToolAssumption DEF FileTyping, Leaf, Names, At, NamesInv, Temp
<1>2. /\ pc \in {"verify"} \union Compared => op.source # Missing
      /\ op.tool = "edit" =>
           /\ pc \notin {"create", "created", "rename"}
           /\ pc = "stage" => op.source # Missing /\ platform = "linux"
           /\ pc \in Compared \union {"commit"} \/ Succeeded => op.source = op.version.ino
           /\ pc \in Settled \/ Succeeded => op.source # Missing /\ dir[Leaf] # op.source
           /\ pc \in Settled \ {"check_text"} \/ Succeeded =>
                node[op.source].text = op.version.file.text
  BY <1>1 DEF SourceInv
<1>3. CASE Looks
  <2>1. UNCHANGED <<dir, node, platform>> /\ op'.tool = op.tool
    BY <1>3, LooksLeaveFiles
  <2>2. CASE pc' \in Unstaged \ {"stage"} \/ pc' \in {"restore", "restore_leaf", "restore_swap",
             "restored_temp", "cleanup", "cleanup_unlink"} \/ (pc' = "done" /\ op'.result # "ok")
    BY <2>2 DEF SourceInv
  <2>3. CASE pc' = pc /\ op' = op
    BY <1>1, <1>2, <2>1, <2>3 DEF SourceInv, At
  <2>4. CASE pc = "open" /\ pc' = "stage" /\ op'.source = dir[Leaf]
             /\ (op.tool = "edit" => dir[Leaf] # Missing /\ platform = "linux")
    BY <2>1, <2>4 DEF SourceInv
  <2>5. CASE pc = "verify" /\ pc' = "exchange" /\ op' = op /\ MatchesVersion
    BY <1>2, <2>5 DEF SourceInv, MatchesVersion
  <2>6. CASE pc = "created" /\ pc' = "commit" /\ op' = op
    BY <1>2, <2>6 DEF SourceInv
  <2>7. CASE pc = "check_leaf" /\ pc' = "check_temp" /\ op' = op
    BY <1>2, <2>7 DEF SourceInv
  <2>8. CASE pc = "check_temp" /\ pc' = "check_text" /\ op' = op /\ dir[Temp] = op.source
    BY <1>1, <1>2, <2>1, <2>8 DEF SourceInv, At
  <2>9. CASE pc = "check_text" /\ pc' = "copy_metadata" /\ op' = op /\ ContentMatches
    BY <1>1, <1>2, <2>1, <2>9 DEF SourceInv, At, ContentMatches
  <2>10. CASE pc \in {"copy_metadata", "unlink"} /\ op' = op
              /\ pc' \in {"unlink", "unlink_old", "commit"}
    BY <1>1, <1>2, <2>1, <2>10 DEF SourceInv, At
  <2>11. CASE /\ pc = "commit" /\ pc' = "done" /\ op'.result = "ok"
              /\ op'.source = op.source /\ op'.version = op.version
    BY <1>1, <1>2, <2>1, <2>11 DEF SourceInv, At
  <2> QED
    BY <1>1, <1>3, <2>2, <2>3, <2>4, <2>5, <2>6, <2>7, <2>8, <2>9, <2>10, <2>11, LookEffect
<1>4. CASE UNCHANGED vars
  BY <1>4 DEF SourceInv, vars, At
<1>5. CASE Crash
  BY <1>5 DEF Crash, SourceInv
<1>6. ASSUME NEW tool \in {"edit", "write"}, NEW p \in Payloads, Request(tool, p)
      PROVE  SourceInv'
  BY <1>6, RequestEffect DEF SourceInv
<1>7. CASE Stage \/ StageOnWindows
  <2>1. /\ pc = "stage" /\ op'.source = op.source /\ op'.tool = op.tool
        /\ \/ pc' \in {"cleanup", "discard"}
           \/ pc' = "verify" /\ op.source # Missing
           \/ pc' \in {"exchange"} /\ op.source # Missing /\ op.tool # "edit"
           \/ pc' = "create" /\ op.source = Missing
           \/ pc' = "rename" /\ platform = "windows"
    BY <1>7, StageEffect
  <2> QED
    BY <1>2, <2>1 DEF SourceInv
<1>8. CASE Create \/ RenameOnWindows
  <2>1. pc \in {"create", "rename"} /\ op' = op /\ pc' \in {"cleanup", "discard", "created", "commit"}
    BY <1>8, RenameEffect
  <2> QED
    BY <1>2, <2>1 DEF SourceInv
<1>9. CASE Exchange \/ RestoreSwap
  <2>1. \/ pc' \in {"cleanup", "restored"} \/ (pc' = "done" /\ op'.result = "uncertain")
        \/ pc = "exchange" /\ pc' = "check_leaf" /\ op' = op
    BY <1>9, ExchangeEffect
  <2> QED
    BY <1>2, <2>1 DEF SourceInv
<1>10. CASE DiscardOnWindows \/ UnlinkOld \/ CleanupUnlink
  <2>1. \/ pc' = "done" /\ op'.result = "failed"
        \/ /\ pc = "unlink_old" /\ pc' = "commit" /\ op' = op /\ node' = node
           /\ dir'[Leaf] = dir[Leaf]
    BY <1>1, <1>10, RemovalEffect
  <2> QED
    BY <1>1, <1>2, <2>1 DEF SourceInv, At
<1>11. CASE Others
  <2>1. /\ UNCHANGED <<platform, pc, op>>
        /\ dir'[Leaf] \in {dir[Leaf], Missing} \/ dir'[Leaf] \notin DOMAIN node
        /\ \A i \in DOMAIN node : i # dir[Leaf] => node'[i] = node[i]
    BY <1>1, <1>11, OthersEffect
  <2> QED
    BY <1>1, <1>2, <2>1 DEF SourceInv, At
<1> QED
  BY <1>3, <1>4, <1>5, <1>6, <1>7, <1>8, <1>9, <1>10, <1>11, NextSteps

-----------------------------------------------------------------------------
(* A file of another actor leaves the directory only by its own hand or as  *)
(* the file the call replaces: the entries the agent removes are the staged *)
(* file's and, once compared, the replaced one's.                           *)
LEMMA InTheDirectory ==
  ASSUME FileTyping
  PROVE  \A i : i \in Range(dir) <=> \E n \in Names : dir[n] = i
  BY DEF FileTyping, Range

LEMMA NothingIsLostByAStep ==
  ASSUME CallTyping, FileTyping, FileTyping', NamesInv, StagedInv, LeafInv,
         NothingForeignIsLost,
         [Next]_vars
  PROVE  NothingForeignIsLost'
<1>1. \A i \in DOMAIN node : \/ \E n \in Names : dir[n] = i
                             \/ i \in gone \/ i \in retired \/ node[i].by = "agent"
  BY InTheDirectory DEF NothingForeignIsLost
<1>2. SUFFICES ASSUME NEW i \in DOMAIN node'
               PROVE  \/ \E n \in Names : dir'[n] = i
                      \/ i \in gone' \/ i \in retired' \/ node'[i].by = "agent"
  <2>1. \A i : i \in Range(dir') <=> \E n \in Names : dir'[n] = i
    BY DEF FileTyping, Range
  <2> QED
    BY <1>2, <2>1 DEF NothingForeignIsLost
<1>3. /\ Leaf \in Names /\ (pc # "idle" => Temp \in Names /\ Temp # Leaf)
      /\ \A n : At(n) = dir[n]
      /\ \A n \in Names : dir[n] \in DOMAIN node \union {Missing}
      /\ Missing \notin DOMAIN node
  <2>1. Missing \notin DOMAIN node
    BY DEF FileTyping, NodesBelow, Missing
  <2> QED
    BY <2>1, TempIsAName, ToolAssumption DEF FileTyping, Leaf, Names, At
<1>4. CASE Looks
  BY <1>1, <1>4, LooksLeaveFiles
<1>5. CASE UNCHANGED vars
  BY <1>1, <1>5 DEF vars
<1>6. CASE Crash
  BY <1>1, <1>6 DEF Crash, files
<1>7. ASSUME NEW tool \in {"edit", "write"}, NEW p \in Payloads, Request(tool, p)
      PROVE  \/ \E n \in Names : dir'[n] = i
             \/ i \in gone' \/ i \in retired' \/ node'[i].by = "agent"
  BY <1>1, <1>7, RequestEffect
<1>8. CASE Stage \/ StageOnWindows
  <2>1. pc \in Unstaged /\ (\A n \in Names : dir'[n] = IF n = Temp THEN NewInode ELSE dir[n])
        /\ DOMAIN node' = DOMAIN node \union {NewInode} /\ node'[NewInode].by = "agent"
        /\ (\A j \in DOMAIN node : node'[j] = node[j]) /\ gone' = gone /\ retired' = retired
    BY <1>8, StageEffect DEF Unstaged
  <2>2. CASE i = NewInode
    BY <2>1, <2>2
  <2>3. CASE i \in DOMAIN node
    <3>1. \A n \in Names : dir[n] = i => n # Temp
      BY <1>3, <2>1, <2>3 DEF NamesInv, Temp
    <3> QED
      BY <1>1, <1>3, <2>1, <2>3, <3>1
  <2> QED
    BY <2>1, <2>2, <2>3
<1>9. CASE Create \/ RenameOnWindows
  <2>1. /\ node' = node /\ gone' = gone /\ retired' = retired /\ pc # "idle"
        /\ \/ dir' = dir
           \/ /\ dir[Leaf] = Missing
              /\ \A n \in Names : dir'[n] = IF n = Leaf THEN dir[Temp]
                                            ELSE IF n = Temp THEN Missing ELSE dir[n]
    BY <1>3, <1>9, RenameEffect
  <2> QED
    BY <1>1, <1>3, <2>1
<1>10. CASE Exchange \/ RestoreSwap
  <2>1. /\ gone' = gone /\ retired' = retired /\ pc # "idle"
        /\ \/ dir' = dir
           \/ \A n \in Names : dir'[n] = IF n = Leaf THEN dir[Temp]
                                         ELSE IF n = Temp THEN dir[Leaf] ELSE dir[n]
        /\ DOMAIN node' = DOMAIN node /\ \A j \in DOMAIN node : node'[j].by = node[j].by
    BY <1>3, <1>10, ExchangeEffect
  <2>2. ASSUME NEW n \in Names, dir[n] = i
        PROVE  \E m \in Names : dir'[m] = i
    BY <1>3, <2>1, <2>2
  <2> QED
    BY <1>1, <2>1, <2>2
<1>11. CASE DiscardOnWindows \/ UnlinkOld \/ CleanupUnlink
  <2>1. /\ node' = node /\ gone' = gone /\ retired \subseteq retired' /\ pc # "idle"
        /\ op.staged # Missing => node[op.staged].by = "agent"
        /\ \A n \in Names : \/ dir'[n] = dir[n] \/ dir[n] = op.staged \/ dir[n] = Missing
                            \/ dir[n] = op.source /\ op.source \in retired'
    BY <1>3, <1>11, RemovalEffect DEF LeafInv, StagedInv
  <2> QED
    BY <1>1, <1>3, <2>1
<1>12. CASE Others
  <2>1. /\ gone \subseteq gone' /\ retired' = retired
        /\ \A n \in Names : dir'[n] = dir[n] \/ dir[n] \in gone'
        /\ \A j \in DOMAIN node : node'[j].by = node[j].by
        /\ \/ DOMAIN node' = DOMAIN node
           \/ DOMAIN node' = DOMAIN node \union {NewInode} /\ dir'[Leaf] = NewInode
    BY <1>3, <1>12, OthersEffect
  <2> QED
    BY <1>1, <1>3, <2>1
<1> QED
  BY <1>4, <1>5, <1>6, <1>7, <1>8, <1>9, <1>10, <1>11, <1>12, NextSteps

-----------------------------------------------------------------------------
LEMMA InitTool == Init => ToolInv
<1> SUFFICES ASSUME Init
             PROVE  ToolInv
  OBVIOUS
<1>1. /\ platform \in Platforms /\ moved = FALSE /\ pc = "idle" /\ op = NoOp
      /\ perm = "ask" /\ denied = FALSE /\ consent = Nobody
      /\ theirs = dir[Leaf] /\ gone = {} /\ retired = {} /\ ops = 0 /\ others = 0 /\ starts = 0
      /\ \/ dir = [n \in Names |-> Missing] /\ node = <<>>
         \/ \E t \in Texts : /\ dir = [n \in Names |-> IF n = Leaf THEN 1 ELSE Missing]
                             /\ node = <<File(t, "other")>>
  BY DEF Init
<1>2. CallTyping
  <2>1. ops \in 0 .. MaxOps /\ others \in 0 .. MaxOthers /\ starts \in 0 .. MaxStarts
    BY <1>1, ToolAssumption
  <2> QED
    BY <1>1, <2>1 DEF CallTyping, NoOp, PCs, Resting
<1>3. Leaf \in Names /\ 1 # Missing /\ \A n \in Names : n > 0 => n # Leaf
  BY ToolAssumption DEF Leaf, Names, Missing
<1>6. op.source = Missing /\ op.staged = Missing /\ op.displaced = Missing
  BY <1>1 DEF NoOp
<1>4. CASE dir = [n \in Names |-> Missing] /\ node = <<>>
  <2>1. DOMAIN node = 1 .. 0 /\ DOMAIN node = {}
    BY <1>4
  <2>2. NodesBelow(0)
    BY <1>1, <2>1 DEF NodesBelow, Unstaged
  <2>3. FileTyping
    <3>1. \E k \in 0 .. 1 + ops + others : NodesBelow(k)
      BY <1>1, <2>2
    <3>2. node \in [DOMAIN node -> [text : Texts \union Payloads, mtime : Nat,
                                    ctime : Nat, by : {"agent", "other"}]]
      BY <1>4, <2>1
    <3>3. dir \in [Names -> DOMAIN node \union {Missing}] /\ theirs = Missing
      BY <1>1, <1>3, <1>4
    <3> QED
      BY <1>1, <1>6, <3>1, <3>2, <3>3 DEF FileTyping
  <2>4. NamesInv /\ NothingForeignIsLost
    BY <1>4, <2>1 DEF NamesInv, NothingForeignIsLost
  <2> QED
    BY <1>1, <1>2, <2>3, <2>4 DEF ToolInv, StagedInv, LeafInv, SourceInv, ConsentInv, NoOp,
       OnlyConsentedActionsRun, Staging, Unstaged, Beside, Exchanging, Restored, Resting,
       Compared, Settled, Failed, Succeeded
<1>5. ASSUME NEW t \in Texts, dir = [n \in Names |-> IF n = Leaf THEN 1 ELSE Missing],
             node = <<File(t, "other")>>
      PROVE  ToolInv
  <2>1. DOMAIN node = 1 .. 1 /\ DOMAIN node = {1} /\ node[1] = File(t, "other")
    BY <1>5
  <2>2. NodesBelow(1)
    BY <1>1, <2>1 DEF NodesBelow, Unstaged
  <2>3. File(t, "other") \in [text : Texts \union Payloads, mtime : Nat,
                              ctime : Nat, by : {"agent", "other"}]
    BY DEF File
  <2>4. node \in [DOMAIN node -> [text : Texts \union Payloads, mtime : Nat,
                                  ctime : Nat, by : {"agent", "other"}]]
    BY <1>5, <2>1, <2>3
  <2>5. FileTyping
    <3>1. \E k \in 0 .. 1 + ops + others : NodesBelow(k)
      BY <1>1, <2>2
    <3>2. dir \in [Names -> DOMAIN node \union {Missing}] /\ theirs = 1
      BY <1>1, <1>3, <1>5, <2>1
    <3> QED
      BY <1>1, <1>6, <2>1, <2>4, <3>1, <3>2 DEF FileTyping
  <2>6. NamesInv
    BY <1>1, <1>3, <1>5 DEF NamesInv, Unstaged
  <2>7. NothingForeignIsLost
    BY <1>3, <1>5, <2>1, <2>5, InTheDirectory DEF NothingForeignIsLost
  <2> QED
    BY <1>1, <1>2, <2>5, <2>6, <2>7 DEF ToolInv, StagedInv, LeafInv, SourceInv, ConsentInv,
       NoOp, OnlyConsentedActionsRun, Staging, Unstaged, Beside, Exchanging, Restored,
       Resting, Compared, Settled, Failed, Succeeded
<1> QED
  BY <1>1, <1>4, <1>5

LEMMA ToolInductive == ToolInv /\ [Next]_vars => ToolInv'
<1> SUFFICES ASSUME ToolInv, [Next]_vars
             PROVE  ToolInv'
  OBVIOUS
<1>1. /\ CallTyping /\ FileTyping /\ NamesInv /\ StagedInv /\ LeafInv /\ SourceInv
      /\ ConsentInv /\ NothingForeignIsLost
  BY DEF ToolInv
<1>2. CallTyping' /\ ConsentInv'
  BY <1>1, CallTypingKept, ConsentKept
<1>3. FileTyping'
  BY <1>1, <1>2, FileTypingKept
<1>4. NamesInv'
  BY <1>1, <1>3, NamesKept
<1>5. StagedInv' /\ LeafInv' /\ SourceInv'
  BY <1>1, StagedKept, LeafKept, SourceKept
<1>6. NothingForeignIsLost'
  BY <1>1, <1>3, NothingIsLostByAStep
<1> QED
  BY <1>2, <1>3, <1>4, <1>5, <1>6 DEF ToolInv

LEMMA ToolAlways == Spec => []ToolInv
  BY InitTool, ToolInductive, PTL DEF Spec

(* The variables of the tool runner keep their types, and inodes and names  *)
(* never run out, for any numbers of calls and of steps of others.          *)
THEOREM ToolTyping == Spec => []TypeOK
<1>1. ToolInv => TypeOK
  <2> SUFFICES ASSUME ToolInv
               PROVE  TypeOK
    OBVIOUS
  <2>1. CallTyping /\ FileTyping /\ ConsentInv
    BY DEF ToolInv
  <2>2. DOMAIN node \subseteq Inodes
    <3>1. PICK k \in 0 .. 1 + ops + others : NodesBelow(k)
      BY <2>1 DEF FileTyping
    <3>2. k <= 1 + MaxOps + MaxOthers
      BY <2>1, <3>1, ToolAssumption DEF CallTyping
    <3> QED
      BY <3>1, <3>2, ToolAssumption DEF NodesBelow, Inodes
  <2>3. /\ \A i \in DOMAIN node : /\ node[i].text \in Texts \union Payloads
                                  /\ node[i].by \in {"agent", "other"}
        /\ dir \in [Names -> Inodes \union {Missing}]
        /\ {op.source, op.staged, op.displaced} \subseteq Inodes \union {Missing}
        /\ theirs \in Inodes \union {Missing}
        /\ gone \subseteq Inodes \union {Missing} /\ retired \subseteq Inodes
    BY <2>1, <2>2 DEF FileTyping
  <2> QED
    BY <2>1, <2>2, <2>3 DEF TypeOK, CallTyping, ConsentInv
<1> QED
  BY <1>1, ToolAlways, PTL

(* tools.py:826: churn by any number of concurrent actors, and a crash at   *)
(* any system call, never makes the agent drop an entry that is not its own *)
(* or the very file a successful call replaced.                             *)
THEOREM ForeignFilesSurvive == Spec => []NothingForeignIsLost
<1>1. ToolInv => NothingForeignIsLost
  BY DEF ToolInv
<1> QED
  BY <1>1, ToolAlways, PTL

(* What a write or an edit reports is so: success only for the very inode   *)
(* and text it was computed from, plain failure only when Leaf is the       *)
(* others' and no staged file is left behind.                               *)
THEOREM OutcomesHold == Spec => []OutcomesAreHonest
<1>1. ToolInv => OutcomesAreHonest
  <2> SUFFICES ASSUME ToolInv, pc = "done"
               PROVE  /\ (op.result = "ok" /\ op.tool = "edit") =>
                           /\ op.source = op.version.ino
                           /\ node[op.source].text = op.version.file.text
                      /\ op.result = "failed" =>
                           op.staged \notin Range(dir) \ {Missing} /\ At(Leaf) = theirs
    BY DEF OutcomesAreHonest
  <2>1. SourceInv /\ LeafInv /\ FileTyping
    BY DEF ToolInv
  <2>2. (op.result = "ok" /\ op.tool = "edit") =>
           /\ op.source = op.version.ino
           /\ node[op.source].text = op.version.file.text
    BY <2>1 DEF SourceInv, Succeeded
  <2>3. op.result = "failed" =>
           op.staged \notin Range(dir) \ {Missing} /\ At(Leaf) = theirs
    BY <2>1, InTheDirectory DEF LeafInv, Failed
  <2> QED
    BY <2>2, <2>3
<1> QED
  BY <1>1, ToolAlways, PTL

(* ToolRunner._check_permission: no payload is staged that the user did not *)
(* see in full and agree to, or allow beforehand, in this very process.     *)
THEOREM ConsentIsAsked == Spec => []OnlyConsentedActionsRun
<1>1. ToolInv => OnlyConsentedActionsRun
  BY DEF ToolInv, ConsentInv
<1> QED
  BY <1>1, ToolAlways, PTL
=============================================================================
