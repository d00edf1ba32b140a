------------------------------ MODULE ToolRunner ------------------------------
(***************************************************************************)
(* apps/agent-cli tools.py, actions.py and the consent half of repl.py:    *)
(* one write or edit of a project file asked for by the model - the user's *)
(* permission, the inspection of the file, the staged replacement and its  *)
(* commit - while other actors work in the same directory and the process  *)
(* may die.                                                                *)
(*                                                                         *)
(* One project file, Leaf, in one directory.  A temporary name is random,  *)
(* so each operation has a name of its own.  Each step is one system call; *)
(* the inspection of a file, which compares the state before and after the *)
(* read and fails when they differ, is one.  A file is an inode with a     *)
(* text and two time stamps.  Other actors write in place by name, replace *)
(* by rename, create and unlink Leaf, and sweep temporary names; writing   *)
(* through a descriptor opened earlier is left out, the code does not      *)
(* claim to see it.  Path forms, links and mounts are refused before any   *)
(* of this and are not modelled; read, glob and grep change nothing.       *)
(***************************************************************************)
EXTENDS Naturals, Sequences, FiniteSets, FiniteSetsExt, Functions

CONSTANTS
    Texts,          \* contents other actors write
    Payloads,       \* what the model asks to put there
    Shown,          \* the payloads that fit MAX_APPROVAL_PREVIEW_BYTES
    Platforms,      \* "linux", "windows"
    MaxOps,         \* bound: tool calls
    MaxOthers,      \* bound: steps of other actors
    MaxStarts       \* bound: restarts of the agent

Leaf == 0
Names == 0..MaxOps
Missing == 0
Inodes == 1..(1 + MaxOps + MaxOthers)

ASSUME ToolAssumption ==
    /\ Shown \subseteq Payloads /\ Platforms \subseteq {"linux", "windows"}
    /\ MaxOps \in Nat /\ MaxOthers \in Nat /\ MaxStarts \in Nat

VARIABLES
    platform,   \* os.name of this history
    dir,        \* name -> inode of the directory entries
    node,       \* inode -> text and time stamps of the inodes that exist
    moved,      \* the project root at that path is another directory now
    pc,         \* where the tool call stands
    op,         \* its locals
    perm,       \* ToolRunner.perms of the tool: allow, ask or deny
    denied,     \* perms.json holds a denial of it
    consent,    \* history: the payload the user said yes to, or any of them
    theirs,     \* history: what Leaf would be without the call
    gone,       \* history: inodes other actors removed
    retired,    \* history: inodes a successful call replaced
    ops, others, starts     \* bounds

vars == <<platform, dir, node, moved, pc, op, perm, denied, consent, theirs,
          gone, retired, ops, others, starts>>
files == <<dir, node>>
rights == <<perm, denied, consent>>
environment == <<platform, moved, theirs, gone, others, starts>>

File(t, who) == [text |-> t, mtime |-> 0, ctime |-> 0, by |-> who]
NoOp == [tool |-> "edit", payload |-> "", shown |-> "", version |-> <<>>,
         source |-> Missing, staged |-> Missing, displaced |-> Missing,
         result |-> "none"]
Nobody == "nobody"
Anything == "anything"

TypeOK ==
    /\ platform \in Platforms /\ moved \in BOOLEAN
    /\ dir \in [Names -> Inodes \union {Missing}]
    /\ DOMAIN node \subseteq Inodes
    /\ \A i \in DOMAIN node : /\ node[i].text \in Texts \union Payloads
                              /\ node[i].by \in {"agent", "other"}
    /\ {op.source, op.staged, op.displaced} \subseteq Inodes \union {Missing}
    /\ op.result \in {"none", "ok", "failed", "uncertain", "denied", "identity"}
    /\ perm \in {"allow", "ask", "deny"} /\ denied \in BOOLEAN
    /\ consent \in Payloads \union {Nobody, Anything}
    /\ theirs \in Inodes \union {Missing}
    /\ gone \subseteq Inodes \union {Missing} /\ retired \subseteq Inodes
    /\ ops \in 0..MaxOps /\ others \in 0..MaxOthers /\ starts \in 0..MaxStarts

Init ==
    /\ platform \in Platforms
    /\ \/ dir = [n \in Names |-> Missing] /\ node = <<>>
       \/ \E t \in Texts : /\ dir = [n \in Names |-> IF n = Leaf THEN 1 ELSE Missing]
                           /\ node = <<File(t, "other")>>
    /\ moved = FALSE /\ pc = "idle" /\ op = NoOp
    /\ perm = "ask" /\ denied = FALSE /\ consent = Nobody
    /\ theirs = dir[Leaf] /\ gone = {} /\ retired = {}
    /\ ops = 0 /\ others = 0 /\ starts = 0

\* _same_file and the descriptor checks compare device and inode.
At(name) == dir[name]
Temp == ops
NewInode == Min(Inodes \ DOMAIN node)
Created(file) == [i \in DOMAIN node \union {NewInode} |->
    IF i = NewInode THEN file ELSE node[i]]
\* RENAME_EXCHANGE: both entries change places, both inodes their ctime.
Exchanged == [dir EXCEPT ![Temp] = dir[Leaf], ![Leaf] = dir[Temp]]
Touched == [i \in DOMAIN node |->
    IF i \in {dir[Temp], dir[Leaf]} THEN [node[i] EXCEPT !.ctime = @ + 1] ELSE node[i]]

Ends(result) == pc' = "done" /\ op' = [op EXCEPT !.result = result]
Goes(to) == pc' = to /\ UNCHANGED op

(***************************************************************************)
(* Consent: ToolRunner.run, _check_permission and Repl._ask_permission     *)
(***************************************************************************)
Request(tool, p) ==
    /\ pc \in {"idle", "done"} /\ ops < MaxOps
    /\ ops' = ops + 1
    /\ op' = [NoOp EXCEPT !.tool = tool, !.payload = p,
                          !.result = IF moved THEN "identity" ELSE "none"]
    /\ pc' = IF moved THEN "done" ELSE "decide"
    /\ consent' = IF consent = Anything THEN Anything ELSE Nobody
    /\ theirs' = At(Leaf)
    /\ UNCHANGED <<files, perm, denied, platform, moved, gone, others, starts,
                   retired>>

\* A payload that cannot be shown in full is never put to the user.
Decide ==
    /\ pc = "decide"
    /\ CASE perm = "allow" -> Goes("enter")
         [] perm = "deny" \/ op.payload \notin Shown -> Ends("denied")
         [] OTHER -> pc' = "prompt" /\ op' = [op EXCEPT !.shown = op.payload]
    /\ UNCHANGED <<files, rights, environment, retired, ops>>

\* The Action object is mutable while the prompt waits.
PayloadChanges(p) ==
    /\ pc = "prompt" /\ p # op.payload
    /\ op' = [op EXCEPT !.payload = p]
    /\ UNCHANGED <<files, pc, rights, environment, retired, ops>>

\* Mutant: the answer is taken for whatever the action is by now.
SameTool == op.shown \in Shown

\* The answer counts only for the payload that was shown.
SameAsShown == op.payload = op.shown

\* n or the end of input, y, and a: allow for the rest of the process.
Refuse ==
    /\ pc = "prompt"
    /\ Ends("denied")
    /\ UNCHANGED <<files, rights, environment, retired, ops>>

SayYes ==
    /\ pc = "prompt" /\ SameAsShown
    /\ consent' = IF consent = Anything THEN Anything ELSE op.shown
    /\ Goes("enter")
    /\ UNCHANGED <<files, perm, denied, environment, retired, ops>>

\* _persist_perms writes the denials that are left, and refuses when the
\* project is another one; the grant itself is never written.
SayAlways ==
    /\ pc = "prompt" /\ SameAsShown
    /\ perm' = "allow" /\ consent' = Anything
    /\ IF moved THEN Ends("identity") /\ UNCHANGED denied
                ELSE Goes("enter") /\ denied' = FALSE
    /\ UNCHANGED <<files, environment, retired, ops>>

\* /allow and /deny between two calls.
CmdAllow ==
    /\ pc \in {"idle", "done"} /\ ~moved /\ perm # "allow"
    /\ perm' = "allow" /\ denied' = FALSE /\ consent' = Anything
    /\ UNCHANGED <<files, pc, op, environment, retired, ops>>

CmdDeny ==
    /\ pc \in {"idle", "done"} /\ ~moved /\ perm # "deny"
    /\ perm' = "deny" /\ denied' = TRUE /\ consent' = Nobody
    /\ UNCHANGED <<files, pc, op, environment, retired, ops>>

\* The handler starts after a second look at the project's identity.
Enter ==
    /\ pc = "enter"
    /\ IF moved THEN Ends("identity")
                ELSE Goes(IF op.tool = "edit" THEN "inspect" ELSE "open")
    /\ UNCHANGED <<files, rights, environment, retired, ops>>

(***************************************************************************)
(* Inspection and staging                                                  *)
(***************************************************************************)
\* _read_existing_file_snapshot: the descriptor's state and text.
Snapshot == [ino |-> At(Leaf), file |-> node[At(Leaf)]]

\* _tool_edit: the inspection, between two looks at the project's identity,
\* and the search for the text to replace, which may not be there.
Inspect ==
    /\ pc = "inspect"
    /\ \/ Ends(IF moved THEN "identity" ELSE "failed")
       \/ /\ ~moved /\ At(Leaf) # Missing
          /\ op' = [op EXCEPT !.version = Snapshot]
          /\ pc' = "open"
    /\ UNCHANGED <<files, rights, environment, retired, ops>>

Found == pc' = "stage" /\ op' = [op EXCEPT !.source = At(Leaf)]

\* The parents without following links, then the entry to replace.
OpenExisting ==
    /\ pc = "open" /\ platform = "linux"
    /\ CASE moved -> Ends("identity")
         [] ~moved /\ op.tool = "edit" /\ At(Leaf) = Missing -> Ends("failed")
         [] OTHER -> Found
    /\ UNCHANGED <<files, rights, environment, retired, ops>>

\* Windows has no exchange of names by handle: an entry that exists is refused.
OpenOnWindows ==
    /\ pc = "open" /\ platform = "windows"
    /\ CASE moved -> Ends("identity")
         [] ~moved /\ (op.tool = "edit" \/ At(Leaf) # Missing) -> Ends("failed")
         [] OTHER -> Found
    /\ UNCHANGED <<files, rights, environment, retired, ops>>

\* O_EXCL of a random name, then the whole text; the disk may be full.
NewTemporary ==
    /\ dir' = [dir EXCEPT ![Temp] = NewInode]
    /\ node' = Created(File(op.payload, "agent"))
    /\ op' = [op EXCEPT !.staged = NewInode]
    /\ UNCHANGED <<rights, environment, retired, ops>>

Stage ==
    /\ pc = "stage" /\ platform = "linux"
    /\ NewTemporary
    /\ pc' \in {"cleanup", IF op.source = Missing THEN "create"
                           ELSE IF op.tool = "edit" THEN "verify" ELSE "exchange"}

StageOnWindows ==
    /\ pc = "stage" /\ platform = "windows"
    /\ NewTemporary
    /\ pc' \in {"discard", "rename"}

(***************************************************************************)
(* Commit of a new file                                                    *)
(***************************************************************************)
\* Mutant: the rename replaces whatever is there.
Occupied == TRUE

\* RENAME_NOREPLACE, or ReplaceIfExists = 0.
Unoccupied == At(Leaf) = Missing

Renamed == [dir EXCEPT ![Leaf] = dir[Temp], ![Temp] = Missing]

Create ==
    /\ pc = "create"
    /\ IF Unoccupied /\ At(Temp) # Missing
         THEN dir' = Renamed /\ Goes("created")
         ELSE UNCHANGED dir /\ Goes("cleanup")
    /\ UNCHANGED <<node, rights, environment, retired, ops>>

RenameOnWindows ==
    /\ pc = "rename"
    /\ IF Unoccupied /\ At(Temp) # Missing
         THEN dir' = Renamed /\ Goes("commit")
         ELSE UNCHANGED dir /\ Goes("discard")
    /\ UNCHANGED <<node, rights, environment, retired, ops>>

\* The handle of the staged file deletes it, whatever its name is.
DiscardOnWindows ==
    /\ pc = "discard"
    /\ dir' = [n \in Names |-> IF dir[n] = op.staged THEN Missing ELSE dir[n]]
    /\ Ends("failed")
    /\ UNCHANGED <<node, rights, environment, retired, ops>>

CheckCreated ==
    /\ pc = "created"
    /\ IF At(Leaf) = op.staged THEN Goes("commit") ELSE Ends("uncertain")
    /\ UNCHANGED <<files, rights, environment, retired, ops>>

(***************************************************************************)
(* Commit of a replacement                                                 *)
(***************************************************************************)
\* _matches_file_version: nothing about the inspected inode has changed.
MatchesVersion ==
    /\ op.source = op.version.ino
    /\ node[op.source] = op.version.file

Verify ==
    /\ pc = "verify"
    /\ Goes(IF MatchesVersion THEN "exchange" ELSE "cleanup")
    /\ UNCHANGED <<files, rights, environment, retired, ops>>

Exchange ==
    /\ pc = "exchange"
    /\ IF Missing \in {At(Temp), At(Leaf)}
         THEN Goes("cleanup") /\ UNCHANGED files
         ELSE Goes("check_leaf") /\ dir' = Exchanged /\ node' = Touched
    /\ UNCHANGED <<rights, environment, retired, ops>>

CheckLeaf ==
    /\ pc = "check_leaf"
    /\ Goes(IF At(Leaf) = op.staged THEN "check_temp" ELSE "restore")
    /\ UNCHANGED <<files, rights, environment, retired, ops>>

CheckDisplaced ==
    /\ pc = "check_temp"
    /\ Goes(IF At(Temp) = op.source THEN "check_text" ELSE "restore")
    /\ UNCHANGED <<files, rights, environment, retired, ops>>

\* Mutant: no look at the source after the exchange.
ContentAssumed == op.tool \in {"edit", "write"}

\* _matches_file_content_after_exchange: the ctime is the exchange's own.
ContentMatches ==
    op.tool = "edit" => /\ node[op.source].text = op.version.file.text
                        /\ node[op.source].mtime = op.version.file.mtime

CheckText ==
    /\ pc = "check_text"
    /\ Goes(IF ContentMatches THEN "copy_metadata" ELSE "restore")
    /\ UNCHANGED <<files, rights, environment, retired, ops>>

\* Owner, mode and attributes of the old inode, or none of the replacement.
CopyMetadata ==
    /\ pc = "copy_metadata"
    /\ Goes("unlink") \/ Goes("restore")
    /\ UNCHANGED <<files, rights, environment, retired, ops>>

\* The old inode goes, if it is still what the temporary name holds.
UnlinkLook ==
    /\ pc = "unlink"
    /\ IF At(Temp) = op.source THEN Goes("unlink_old") ELSE Goes("commit")
    /\ UNCHANGED <<files, rights, environment, retired, ops>>

UnlinkOld ==
    /\ pc = "unlink_old"
    /\ dir' = [dir EXCEPT ![Temp] = Missing]
    /\ retired' = retired \union {op.source}
    /\ Goes("commit")
    /\ UNCHANGED <<node, rights, environment, ops>>

\* A replacement in a project that moved meanwhile is not reported as done.
ReportDone ==
    /\ pc = "commit"
    /\ Ends(IF moved THEN "identity" ELSE "ok")
    /\ UNCHANGED <<files, rights, environment, retired, ops>>

(***************************************************************************)
(* restore_exchanged_entry and the finally block                           *)
(***************************************************************************)
RestoreLookTemp ==
    /\ pc = "restore"
    /\ IF At(Temp) = Missing THEN Ends("uncertain")
       ELSE pc' = "restore_leaf" /\ op' = [op EXCEPT !.displaced = At(Temp)]
    /\ UNCHANGED <<files, rights, environment, retired, ops>>

RestoreLookLeaf ==
    /\ pc = "restore_leaf"
    /\ IF At(Leaf) = op.staged THEN Goes("restore_swap") ELSE Ends("uncertain")
    /\ UNCHANGED <<files, rights, environment, retired, ops>>

RestoreSwap ==
    /\ pc = "restore_swap"
    /\ IF Missing \in {At(Temp), At(Leaf)}
         THEN Ends("uncertain") /\ UNCHANGED files
         ELSE Goes("restored") /\ dir' = Exchanged /\ node' = Touched
    /\ UNCHANGED <<rights, environment, retired, ops>>

CheckRestored ==
    /\ pc = "restored"
    /\ IF At(Leaf) = op.displaced THEN Goes("restored_temp") ELSE Ends("uncertain")
    /\ UNCHANGED <<files, rights, environment, retired, ops>>

CheckStaged ==
    /\ pc = "restored_temp"
    /\ IF At(Temp) = op.staged THEN Goes("cleanup") ELSE Ends("uncertain")
    /\ UNCHANGED <<files, rights, environment, retired, ops>>

\* The staged file goes, if the temporary name still holds it.
CleanupLook ==
    /\ pc = "cleanup"
    /\ IF At(Temp) = op.staged THEN Goes("cleanup_unlink") ELSE Ends("failed")
    /\ UNCHANGED <<files, rights, environment, retired, ops>>

CleanupUnlink ==
    /\ pc = "cleanup_unlink"
    /\ dir' = [dir EXCEPT ![Temp] = Missing]
    /\ Ends("failed")
    /\ UNCHANGED <<node, rights, environment, retired, ops>>

(***************************************************************************)
(* The agent's process and the other actors                                *)
(***************************************************************************)
\* A new process takes over the denials of perms.json and nothing else.
Rights(inFile) == IF inFile THEN "deny" ELSE "ask"

Crash ==
    /\ starts < MaxStarts
    /\ starts' = starts + 1
    /\ pc' = "idle" /\ op' = NoOp /\ perm' = Rights(denied) /\ consent' = Nobody
    /\ UNCHANGED <<files, denied, platform, moved, theirs, gone, others,
                   retired, ops>>

Other ==
    /\ others < MaxOthers
    /\ others' = others + 1
    /\ UNCHANGED <<platform, pc, op, rights, retired, ops, starts>>

OtherWrites(t) ==
    /\ Other /\ At(Leaf) # Missing
    /\ node' = [node EXCEPT ![At(Leaf)].text = t, ![At(Leaf)].mtime = @ + 1,
                            ![At(Leaf)].ctime = @ + 1]
    /\ UNCHANGED <<dir, moved, theirs, gone>>

OtherPuts(t) ==     \* creates Leaf, or replaces it by rename
    /\ Other
    /\ node' = Created(File(t, "other"))
    /\ dir' = [dir EXCEPT ![Leaf] = NewInode]
    /\ theirs' = NewInode /\ gone' = gone \union {At(Leaf)}
    /\ UNCHANGED moved

OtherUnlinks ==
    /\ Other /\ At(Leaf) # Missing
    /\ dir' = [dir EXCEPT ![Leaf] = Missing]
    /\ theirs' = Missing /\ gone' = gone \union {At(Leaf)}
    /\ UNCHANGED <<node, moved>>

OtherSweeps(n) ==   \* a job that removes temporary files
    /\ Other /\ n # Leaf /\ At(n) # Missing
    /\ dir' = [dir EXCEPT ![n] = Missing]
    /\ gone' = gone \union {At(n)}
    /\ UNCHANGED <<node, moved, theirs>>

RootReplaced ==
    /\ Other /\ ~moved
    /\ moved' = TRUE
    /\ UNCHANGED <<files, theirs, gone>>

Consent ==
    \/ \E tool \in {"edit", "write"}, p \in Payloads : Request(tool, p)
    \/ Decide \/ \E p \in Payloads : PayloadChanges(p)
    \/ Refuse \/ SayYes \/ SayAlways \/ CmdAllow \/ CmdDeny \/ Enter

Replacement ==
    \/ Inspect \/ OpenExisting \/ Stage \/ Create \/ CheckCreated
    \/ OpenOnWindows \/ StageOnWindows \/ RenameOnWindows \/ DiscardOnWindows
    \/ Verify \/ Exchange \/ CheckLeaf \/ CheckDisplaced \/ CheckText
    \/ CopyMetadata \/ UnlinkLook \/ UnlinkOld \/ ReportDone
    \/ RestoreLookTemp \/ RestoreLookLeaf \/ RestoreSwap \/ CheckRestored
    \/ CheckStaged \/ CleanupLook \/ CleanupUnlink

Others ==
    \/ \E t \in Texts : OtherWrites(t) \/ OtherPuts(t)
    \/ OtherUnlinks \/ \E n \in Names : OtherSweeps(n)
    \/ RootReplaced

Next == Consent \/ Replacement \/ Crash \/ Others

Spec == Init /\ [][Next]_vars

(***************************************************************************)
(* Properties                                                              *)
(***************************************************************************)
Staging == pc \notin {"idle", "done", "decide", "prompt"}

\* Concurrent churn never makes the agent drop an entry that is not its own
\* (tools.py:826): every inode of another actor that nobody else removed is
\* still in the directory - under Leaf, or under a temporary name as the
\* recovery path - unless it is the very file a successful call replaced.
\* A crash at any system call included.
NothingForeignIsLost ==
    \A i \in DOMAIN node :
        \/ i \in Range(dir) \/ i \in gone \/ i \in retired
        \/ node[i].by = "agent"

\* A call that reports success replaced exactly the inode and the text the
\* edit was computed from; one that reports plain failure left Leaf to the
\* others, with no staged file behind; anything else says uncertain.
OutcomesAreHonest ==
    pc = "done" =>
        /\ (op.result = "ok" /\ op.tool = "edit") =>
               /\ op.source = op.version.ino
               /\ node[op.source].text = op.version.file.text
        /\ op.result = "failed" =>
               op.staged \notin Range(dir) \ {Missing} /\ At(Leaf) = theirs

\* Nothing is staged without consent: the user said yes to exactly this
\* payload, or allowed the tool in this process and has not denied it since -
\* whatever perms.json says of earlier processes.
OnlyConsentedActionsRun ==
    Staging => consent \in {op.payload, Anything}
=============================================================================
