---------------------------- MODULE AgentSession ----------------------------
(***************************************************************************)
(* apps/agent-cli: one pp-agent process - the REPL, the turns of AgentCore *)
(* over the working memory, and the session files a later process resumes  *)
(* from.  core.py, repl.py, __main__.py and the session half of            *)
(* persistence.py.                                                         *)
(*                                                                         *)
(* A turn and a command are chains of awaits put on work, like the memory  *)
(* operations they are made of.  The process may die, or an exception may  *)
(* leave the REPL, at any point of a chain; then nothing more is saved.    *)
(* A session file is truncated first and written second.                   *)
(*                                                                         *)
(* Left out: what is displayed, the goal, the model's name and the usage   *)
(* counters; /budget and /plan only choose between behaviours that the     *)
(* model has anyway.                                                       *)
(***************************************************************************)
EXTENDS WorkingMemory

CONSTANTS
    Sessions,       \* sanitized session names
    Default,        \* DEFAULT_SESSION
    HandEdited,     \* sessions whose file somebody else wrote
    MaxIterations,  \* model calls one turn may make
    Outputs,        \* what the action of a tool can leave: a text, pinned or not
    MaxActions,     \* bound: tool actions in one reply
    TailSize,       \* raw messages the tail aims to keep
    SaveEvery,      \* turns between two automatic saves
    MaxStarts,      \* bound: processes started
    MaxTurns        \* bound: commands and turns, over all processes

ASSUME SessionAssumption ==
    /\ Default \in Sessions
    /\ Outputs \subseteq [text: Texts, pin: BOOLEAN] /\ MaxActions \in Nat
    /\ SaveEvery \in Nat \ {0}

VARIABLES
    file,       \* session -> Absent, Broken, Malformed or a snapshot
    session,    \* Repl.session, or NoSession when no process runs
    started,    \* the session __main__._run holds
    tail,       \* AgentCore._tail_groups: the session and the length of each
    unsaved,    \* Repl._turns_since_save
    starts,     \* bound
    turns       \* bound

vars == <<memory, file, session, started, tail, unsaved, starts, turns>>
process == <<session, started, starts, turns>>

NoSession == "none"
Absent == [kind |-> "absent"]
Broken == [kind |-> "broken"]           \* cut off: json.loads fails
Malformed == [kind |-> "malformed"]     \* JSON, but no snapshot
\* export_state; of is the session whose content it is.
Snapshot == [kind |-> "whole", of |-> session, hot |-> hot, manifest |-> manifest]

Running == session # NoSession

TypeOK ==
    /\ MemoryTypeOK
    /\ DOMAIN file = Sessions
    /\ session \in Sessions \union {NoSession} /\ started \in Sessions
    /\ unsaved \in 0..SaveEvery

Init ==
    /\ MemoryInit
    /\ file = [s \in Sessions |-> IF s \in HandEdited THEN Malformed ELSE Absent]
    /\ session = NoSession /\ started = Default /\ tail = <<>>
    /\ unsaved = 0 /\ starts = 0 /\ turns = 0

(***************************************************************************)
(* Reading and writing session files                                       *)
(***************************************************************************)
\* save_json: the target is truncated by write_text before it is filled.
SaveOps(s) == <<[op |-> "truncate", to |-> s], [op |-> "write", to |-> s]>>

Truncate ==
    /\ Doing("truncate")
    /\ file' = [file EXCEPT ![work[1].to] = Broken]
    /\ work' = Rest
    /\ UNCHANGED <<hot, cold, manifest, seq, demoted, torn, process,
                   tail, unsaved>>

Write ==
    /\ Doing("write")
    /\ file' = [file EXCEPT ![work[1].to] = Snapshot]
    /\ work' = Rest
    /\ UNCHANGED <<hot, cold, manifest, seq, demoted, torn, process,
                   tail, unsaved>>

Loads(s) == file[s].kind = "whole"

\* Mutant: import_state without the rollback of a malformed snapshot.
ImportUnchecked(s) ==
    CASE Loads(s) -> hot' = file[s].hot /\ manifest' = file[s].manifest
      [] file[s] = Malformed -> hot' = <<>> /\ manifest' = <<>>
      [] OTHER -> UNCHANGED <<hot, manifest>>

\* _import_state_safely: all of a whole snapshot, or the memory as it was.
Import(s) ==
    IF Loads(s) THEN hot' = file[s].hot /\ manifest' = file[s].manifest
                ELSE UNCHANGED <<hot, manifest>>

(***************************************************************************)
(* A process starts and ends                                               *)
(***************************************************************************)
\* __main__._run: the session asked for is loaded when it can be; with
\* --continue the latest one too, and its name is taken when it loads.
\* Which file is the latest (mtime) is a choice.
Start(asked, latest) ==
    /\ ~Running /\ starts < MaxStarts
    /\ latest = asked \/ (asked = Default /\ file[latest] # Absent)
    /\ LET s == IF Loads(latest) THEN latest ELSE asked IN
          /\ Import(s)
          /\ session' = s /\ started' = s
    /\ starts' = starts + 1 /\ unsaved' = 0 /\ tail' = <<>>
    /\ UNCHANGED <<turns, cold, seq, work, demoted, torn, file>>

Stop ==
    /\ Doing("stop")
    /\ MemoryLost
    /\ session' = NoSession /\ tail' = <<>> /\ unsaved' = 0
    /\ UNCHANGED <<file, started, starts, turns>>

\* A death, or an exception that is not TokenBudgetExceededError, inside an
\* operation; between operations the process may be killed too.
Crash ==
    /\ Running
    /\ MemoryLost
    /\ session' = NoSession /\ tail' = <<>> /\ unsaved' = 0
    /\ UNCHANGED <<file, started, starts, turns>>

(***************************************************************************)
(* A turn of AgentCore                                                     *)
(***************************************************************************)
PlanOp(i, t) == [op |-> "plan", i |-> i, text |-> t]
ChatOp(i) == [op |-> "chat", i |-> i]
PushOp(n) == [op |-> "push", size |-> n]

\* What follows the turn: the automatic save every SaveEvery turns.
TickOp == [op |-> "tick"]

\* preflight and _plan_request: the whole request fits, and then the user's
\* text is recorded before the first model call; or the turn is refused with
\* TokenBudgetExceededError, which the REPL reports.
PlanRequest ==
    /\ Doing("plan")
    /\ \/ work' = (IF work[1].i = 1
                     THEN <<AddOp(work[1].text, FALSE, FALSE), PushOp(1)>>
                     ELSE <<>>)
                  \o <<ChatOp(work[1].i)>> \o Rest
       \/ work' = <<>>
    /\ UNCHANGED <<hot, cold, manifest, seq, demoted, torn, process,
                   file, tail, unsaved>>

\* parse_actions: the actions of one reply, by what each leaves.
Actions == UNION {[1..n -> Outputs] : n \in 1..MaxActions}

\* The model answers: a reply ends the turn; actions are run one by one, each
\* output remembered (pinned for PIN_TOOLS), the pair of messages pushed, and
\* the model is asked again; in plan mode the plan becomes a pinned note.
ModelAnswers ==
    /\ Doing("chat")
    /\ \/ \E t \in Texts : work' = <<AddOp(t, FALSE, FALSE), PushOp(1)>> \o Rest
       \/ \E actions \in Actions :
             work' = [k \in DOMAIN actions |-> AddOp(actions[k].text, FALSE, actions[k].pin)]
                     \o <<PushOp(2)>>
                     \o (IF work[1].i < MaxIterations
                           THEN <<PlanOp(work[1].i + 1, actions[1].text)>> ELSE <<>>)
                     \o Rest
       \/ /\ work[1].i = 1
          /\ \E plan \in {<<>>} \union {<<AddOp(t, TRUE, TRUE)>> : t \in Texts} :
                work' = plan \o <<PushOp(1)>> \o Rest
    /\ UNCHANGED <<hot, cold, manifest, seq, demoted, torn, process,
                   file, tail, unsaved>>

TailLength(groups) == FoldSeq(LAMBDA g, n : n + g.size, 0, groups)

\* _push_tail_group: whole groups leave at the front, the last one stays.
PushTail ==
    /\ Doing("push")
    /\ LET groups == Append(tail, [of |-> session, size |-> work[1].size])
           Kept(k) == SubSeq(groups, k, Len(groups))
       IN tail' = Kept(Min({k \in 1..Len(groups) :
                       k = Len(groups) \/ TailLength(Kept(k)) <= TailSize}))
    /\ work' = Rest
    /\ UNCHANGED <<hot, cold, manifest, seq, demoted, torn, process,
                   file, unsaved>>

Tick ==
    /\ Doing("tick")
    /\ LET due == unsaved + 1 >= SaveEvery IN
          /\ unsaved' = IF due THEN 0 ELSE unsaved + 1
          /\ work' = IF due THEN SaveOps(session) \o Rest ELSE Rest
    /\ UNCHANGED <<hot, cold, manifest, seq, demoted, torn, process,
                   file, tail>>

(***************************************************************************)
(* compact: the hot set is demoted, item by item, for one pinned overview  *)
(***************************************************************************)
Compact ==
    /\ Doing("compact")
    /\ \/ hot # <<>> /\ \E t \in Texts, order \in SetToSeqs(DOMAIN hot) :
             work' = [k \in DOMAIN order |-> [op |-> "evict", id |-> order[k]]]
                     \o <<AddOp(t, TRUE, TRUE)>> \o Rest
       \/ work' = Rest
    /\ UNCHANGED <<hot, cold, manifest, seq, demoted, torn, process,
                   file, tail, unsaved>>

(***************************************************************************)
(* Changing sessions                                                       *)
(***************************************************************************)
\* /resume, after it saved the current session: nothing changes when the
\* target does not load.
LoadTarget ==
    /\ Doing("load")
    /\ Import(work[1].to)
    /\ IF Loads(work[1].to) THEN session' = work[1].to /\ tail' = <<>>
                            ELSE UNCHANGED <<session, tail>>
    /\ work' = Rest
    /\ UNCHANGED <<cold, seq, demoted, torn, file, started, starts,
                   turns, unsaved>>

\* /new, after it saved: import_state({}) and the new name, whether or not a
\* file of that name exists.
Fresh ==
    /\ Doing("fresh")
    /\ hot' = <<>> /\ manifest' = <<>> /\ session' = work[1].to /\ tail' = <<>>
    /\ work' = Rest
    /\ UNCHANGED <<cold, seq, demoted, torn, file, started, starts,
                   turns, unsaved>>

(***************************************************************************)
(* What the user types                                                     *)
(***************************************************************************)
Begin(ops) ==
    /\ Running /\ Idle /\ turns < MaxTurns
    /\ work' = ops
    /\ turns' = turns + 1
    /\ UNCHANGED <<hot, cold, manifest, seq, demoted, torn, file,
                   session, started, starts, tail, unsaved>>

Turn(t) == Begin(<<PlanOp(1, t), TickOp>>)
Shell(t) == Begin(<<AddOp(t, FALSE, FALSE)>>)            \* !command
CmdNote(t) == Begin(<<AddOp(t, TRUE, TRUE)>>)
CmdAdd(t) == Begin(<<AddOp(t, FALSE, TRUE)>>)
CmdRecall == Begin(<<[op |-> "recall"]>>)
CmdForget(i) == i \in DOMAIN hot /\ Begin(<<[op |-> "evict", id |-> i]>>)
CmdCompact == Begin(<<[op |-> "compact"]>>)
CmdSave == Begin(SaveOps(session))
CmdResume(s) ==
    file[s] # Absent /\ Begin(SaveOps(session) \o <<[op |-> "load", to |-> s]>>)
CmdNew(s) == Begin(SaveOps(session) \o <<[op |-> "fresh", to |-> s]>>)

\* /exit saves; the end of input does not; then _run saves the session it
\* started with.
Leave(saves) ==
    /\ Running /\ Idle
    /\ work' = saves \o SaveOps(started) \o <<[op |-> "stop"]>>
    /\ UNCHANGED <<hot, cold, manifest, seq, demoted, torn, file,
                   process, tail, unsaved>>
CmdExit == Leave(SaveOps(session))
EndOfInput == Leave(<<>>)

CmdPin(i, pin) ==
    /\ Running /\ turns < MaxTurns
    /\ hot[i].pinned # pin
    /\ SetPin(i, pin)
    /\ turns' = turns + 1
    /\ UNCHANGED <<file, session, started, starts, tail, unsaved>>

CmdClear ==
    /\ Running /\ Idle /\ turns < MaxTurns
    /\ hot' = <<>>
    /\ turns' = turns + 1
    /\ UNCHANGED <<cold, manifest, seq, work, demoted, torn, file,
                   session, started, starts, tail, unsaved>>

Command ==
    \/ \E t \in Texts : Turn(t) \/ Shell(t) \/ CmdNote(t) \/ CmdAdd(t)
    \/ CmdRecall \/ CmdCompact \/ CmdSave \/ CmdClear
    \/ \E i \in DOMAIN hot : CmdForget(i) \/ \E pin \in BOOLEAN : CmdPin(i, pin)
    \/ \E s \in Sessions : CmdResume(s) \/ CmdNew(s)
    \/ CmdExit \/ EndOfInput

SessionStep ==
    \/ PlanRequest \/ ModelAnswers \/ PushTail \/ Tick \/ Compact
    \/ Truncate \/ Write \/ LoadTarget \/ Fresh \/ Stop

Next ==
    \/ MemoryStep /\ UNCHANGED <<file, process, tail, unsaved>>
    \/ SessionStep \/ Command \/ Crash
    \/ \E asked, latest \in Sessions : Start(asked, latest)

Spec == Init /\ [][Next]_vars

(***************************************************************************)
(* Properties                                                              *)
(***************************************************************************)
Demoting(l) == /\ work # <<>> /\ work[1].op \in {"delete", "store"}
               /\ work[1].item.lineage = l

\* "Forgetting is a demotion, not a deletion" (working.py:7): the text that
\* last left the hot set under a lineage is in the cold zone, through any
\* number of demotions, recalls, session changes and restarts - except for a
\* lineage whose demotion the process died in.
OnlyInterruptedDemotionsLose ==
    \A l \in DOMAIN demoted :
        \/ l \in torn \/ Demoting(l)
        \/ l \in DOMAIN cold /\ cold[l].text = demoted[l]

\* "Collision-free item id even after import_state" (working.py:170): a new
\* item never gets the id under which another one lies in the cold zone, for
\* its own demotion would delete that copy.
IdsAreCollisionFree == [][seq' > seq => seq' \notin DOMAIN cold]_vars

\* recall makes room for the whole batch before it commits it, so that an
\* add of the batch demotes nothing (working.py:374, :544) - unless pinned
\* items and the batch together are over the budget.
RecallMakesRoomFirst ==
    [][(/\ Doing("enforce") /\ Len(work) > 1 /\ work[2].op = "mark"
        /\ hot' # hot /\ session' = session)
         => Spent(hot, PinnedIn(hot)) + work[2].need > MaxTokens]_vars

\* Changing the session loses neither: the one left behind is on disk as it
\* was in memory, the tail of its messages goes, and a target that cannot be
\* read changes nothing at all.
SwitchKeepsBoth ==
    [][(Running /\ session' # NoSession) =>
         /\ session' # session => file[session] = Snapshot /\ tail' = <<>>
         /\ Doing("load") /\ ~Loads(work[1].to)
              => UNCHANGED <<hot, manifest, session, tail>>]_vars

\* DESIGN.md:376: sessions/<name>.json holds the state of the session it is
\* named after.
FilesHoldTheirSessions ==
    \A s \in Sessions : Loads(s) => file[s].of = s
=============================================================================
