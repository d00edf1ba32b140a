------------------------------ MODULE DialogData ------------------------------
(***************************************************************************)
(* apps/ollama-chat app.py: what the application keeps of one dialog and   *)
(* of the uploaded documents - rows in chat.db, files in uploads, vectors  *)
(* in memory.db, the task-resume mapping with its Ledger - and the         *)
(* requests that change it: upload, removal and retrieval of documents,    *)
(* the archive of the transcript, deletion of the dialog, and the startup  *)
(* that repairs what a crash left.                                         *)
(*                                                                         *)
(* The requests are coroutines of one event loop: a step runs from one     *)
(* await, or from one commit, to the next.  The turn lock is a mutex here  *)
(* (ChatTurn is about the lock itself), one chat and one deletion at a     *)
(* time are enough for it.  A document is its id, never used twice; a      *)
(* segment is <<first id, last id>>.  A fault is an exception of an await, *)
(* a browser that leaves during the archive, a crash, or an outsider's     *)
(* change to the mapping or the secret.                                    *)
(***************************************************************************)
EXTENDS TaskBinding, FiniteSetsExt

CONSTANTS
    Docs,           \* uploads
    Stray,          \* a document an older version left without a row
    Intervals,      \* memory_interval, which a restart may change
    MaxMessages,    \* bound: messages ever appended
    MaxFaults,      \* bound: faults
    MaxStarts       \* bound: starts of the application

Clerks == {"chat", "delete", "remove", "start"}
TaskIds == Clerks \union Docs
Nobody == "nobody"

ASSUME DialogAssumption ==
    /\ Stray \notin Docs /\ Docs \intersect (Clerks \union {Nobody}) = {}
    /\ Intervals \subseteq Nat \ {0}
    /\ {MaxMessages, MaxFaults, MaxStarts} \subseteq Nat

VARIABLES
    phase,      \* down, enabling (the demo), reconciling, up
    demo,       \* this process was started with a seed
    interval,   \* config.memory_interval of this process
    dialog,     \* has_conversation
    messages,   \* ids of its messages
    nextId,     \* AUTOINCREMENT
    segments,   \* conversation_memory: segment -> "pending" or "ready"
    rows,       \* documents: id -> "pending" or "ready"
    files,      \* the uploads on disk
    indexed,    \* the documents with vectors
    archived,   \* the segments with vectors
    session,    \* a legacy session vector of the dialog
    late,       \* segments whose cancelled add still runs in its thread
    landed,     \* history: vectors last written by such an add
    turn, lock, \* who holds the dialog's turn and document_lock
    pc, job,    \* where each task stands; its locals
    touched,    \* history: a deletion took vectors of this dialog
    faults, starts      \* bounds

Segments == {s \in (1..MaxMessages) \X (1..MaxMessages) : s[1] <= s[2]}

locks == <<turn, lock>>
table == <<dialog, messages, nextId, segments, touched>>
store == <<rows, files, indexed>>
memory == <<archived, session, late, landed>>
process == <<phase, demo, interval, starts>>
vars == <<host, process, table, store, memory, locks, pc, job, faults>>

NoJob == [doc |-> Stray, docs |-> {}, segs |-> {}, got |-> {}, gotSegs |-> {},
          batch |-> <<1, 1>>, doomed |-> {}, clean |-> TRUE, tried |-> {},
          resumed |-> FALSE, existed |-> FALSE]

TypeOK ==
    /\ BindingTypeOK
    /\ phase \in {"down", "enabling", "reconciling", "up"} /\ demo \in BOOLEAN
    /\ messages \subseteq 1..MaxMessages /\ nextId \in 1..(MaxMessages + 1)
    /\ DOMAIN segments \subseteq Segments /\ Range(segments) \subseteq {"pending", "ready"}
    /\ DOMAIN rows \subseteq Docs /\ Range(rows) \subseteq {"pending", "ready"}
    /\ files \subseteq Docs /\ indexed \subseteq Docs \union {Stray}
    /\ archived \subseteq Segments /\ session \in BOOLEAN /\ dialog \in BOOLEAN
    /\ late \subseteq Segments /\ landed \subseteq archived
    /\ turn \in {Nobody, "chat", "delete"} /\ lock \in TaskIds \union {Nobody}

Init ==
    /\ BindingInit
    /\ phase = "down" /\ demo = FALSE /\ interval \in Intervals /\ starts = 0
    /\ dialog \in BOOLEAN /\ messages = {} /\ nextId = 1 /\ segments = <<>>
    /\ rows = <<>> /\ files = {} /\ indexed \in {{}, {Stray}}
    /\ archived = {} /\ session \in BOOLEAN /\ late = {} /\ landed = {}
    /\ turn = Nobody /\ lock = Nobody
    /\ pc = [t \in TaskIds |-> "idle"] /\ job = [t \in TaskIds |-> NoJob]
    /\ touched = FALSE /\ faults = 0

Without(f, keys) == Restrict(f, DOMAIN f \ keys)
ReadyOf(f) == {k \in DOMAIN f : f[k] = "ready"}
Goto(t, to) == pc' = [pc EXCEPT ![t] = to]
Fault == faults < MaxFaults /\ faults' = faults + 1
NoFault == UNCHANGED faults

(***************************************************************************)
(* Upload and removal of a document                                        *)
(***************************************************************************)
TakeLock(t) == lock = Nobody /\ lock' = t
DropLock(t) == lock = t /\ lock' = Nobody
OnlyStore == UNCHANGED <<host, process, table, memory, turn>>

UploadBegin(d) ==
    /\ pc[d] = "idle" /\ TakeLock(d)
    /\ rows' = Put(rows, d, "pending")
    /\ Goto(d, "reserved")
    /\ UNCHANGED <<files, indexed, job>> /\ NoFault /\ OnlyStore

\* An upload that is too big, or no PDF, fails with its file on disk.
UploadWrite(d) ==
    /\ pc[d] = "reserved"
    /\ files' = files \union {d}
    /\ \/ Goto(d, "written") /\ NoFault /\ UNCHANGED lock
       \/ Goto(d, "failed") /\ Fault /\ DropLock(d)
    /\ UNCHANGED <<rows, indexed, job>> /\ OnlyStore

UploadIndex(d) ==
    /\ pc[d] = "written"
    /\ \/ indexed' = indexed \union {d} /\ Goto(d, "indexed") /\ NoFault /\ UNCHANGED lock
       \/ Goto(d, "failed") /\ Fault /\ DropLock(d) /\ UNCHANGED indexed
    /\ UNCHANGED <<rows, files, job>> /\ OnlyStore

UploadReady(d) ==
    /\ pc[d] = "indexed" /\ DropLock(d)
    /\ rows' = Put(rows, d, "ready")
    /\ Goto(d, "over")
    /\ UNCHANGED <<files, indexed, job>> /\ NoFault /\ OnlyStore

CleanupBegin(d) ==
    /\ pc[d] = "failed" /\ TakeLock(d)
    /\ Goto(d, "cleaning")
    /\ UNCHANGED <<store, job>> /\ NoFault /\ OnlyStore

CleanupVectors(d) ==
    /\ pc[d] = "cleaning"
    /\ Goto(d, "unlinking")
    /\ \/ indexed' = indexed \ {d} /\ UNCHANGED job /\ NoFault
       \/ job' = [job EXCEPT ![d].clean = FALSE] /\ UNCHANGED indexed /\ Fault
    /\ UNCHANGED <<rows, files, lock>> /\ OnlyStore

CleanupFile(d) ==
    /\ pc[d] = "unlinking"
    /\ Goto(d, "forgetting")
    /\ \/ files' = files \ {d} /\ UNCHANGED job /\ NoFault
       \/ job' = [job EXCEPT ![d].clean = FALSE] /\ UNCHANGED files /\ Fault
    /\ UNCHANGED <<rows, indexed, lock>> /\ OnlyStore

\* Mutant: the row goes whatever is left of the upload.
AlwaysClean(d) == d \in Docs

Clean(d) == job[d].clean

CleanupRow(d) ==
    /\ pc[d] = "forgetting" /\ DropLock(d)
    /\ rows' = IF Clean(d) THEN Without(rows, {d}) ELSE rows
    /\ Goto(d, "over")
    /\ UNCHANGED <<files, indexed, job>> /\ NoFault /\ OnlyStore

RemoveBegin(d) ==
    /\ pc["remove"] = "idle" /\ d \in DOMAIN rows /\ TakeLock("remove")
    /\ job' = [job EXCEPT !["remove"].doc = d]
    /\ Goto("remove", "vectors")
    /\ UNCHANGED store /\ NoFault /\ OnlyStore

RemoveFails == Fault /\ DropLock("remove") /\ Goto("remove", "idle") /\ UNCHANGED store

RemoveVectors ==
    /\ pc["remove"] = "vectors"
    /\ \/ indexed' = indexed \ {job["remove"].doc} /\ Goto("remove", "file")
          /\ NoFault /\ UNCHANGED <<rows, files, lock>>
       \/ RemoveFails
    /\ UNCHANGED job /\ OnlyStore

RemoveFile ==
    /\ pc["remove"] = "file"
    /\ \/ files' = files \ {job["remove"].doc} /\ Goto("remove", "row")
          /\ NoFault /\ UNCHANGED <<rows, indexed, lock>>
       \/ RemoveFails
    /\ UNCHANGED job /\ OnlyStore

RemoveRow ==
    /\ pc["remove"] = "row" /\ DropLock("remove")
    /\ rows' = Without(rows, {job["remove"].doc})
    /\ Goto("remove", "idle")
    /\ UNCHANGED <<files, indexed, job>> /\ NoFault /\ OnlyStore

(***************************************************************************)
(* A chat: planning, the two messages, the archive                         *)
(***************************************************************************)
ChatEnds == turn' = Nobody /\ pc' = [pc EXCEPT !["chat"] = "idle"]

ChatBegin ==
    /\ pc["chat"] = "idle" /\ turn = Nobody /\ dialog
    /\ turn' = "chat" /\ Goto("chat", "planning")
    /\ UNCHANGED <<host, process, table, store, memory, lock, job>> /\ NoFault

\* Mutant: a search among all rows, whatever their status.
AnyOf(f) == DOMAIN f

SearchableDocs(f) == ReadyOf(f)

\* The transcript archive never joins the references of a task.
SearchableSegs == IF demo /\ Active THEN {} ELSE ReadyOf(segments)

\* plan_chat takes document_lock and fixes what the search may return.
PlanBegin ==
    /\ pc["chat"] = "planning" /\ lock = Nobody
    /\ IF demo /\ ~Authentic
         THEN ChatEnds /\ UNCHANGED <<host, lock, job>>
         ELSE /\ lock' = "chat"
              /\ composing' = IF demo /\ Active THEN binding ELSE NoRow
              /\ Goto("chat", IF demo /\ Active THEN "composing" ELSE "querying")
              /\ job' = [job EXCEPT !["chat"].docs = SearchableDocs(rows),
                    !["chat"].segs = SearchableSegs]
              /\ UNCHANGED <<binding, installed, secret, episodes, turn>>
    /\ UNCHANGED <<process, table, store, memory>> /\ NoFault

PlanFails == ChatEnds /\ lock' = Nobody /\ composing' = NoRow /\ UNCHANGED job

Searched(resumed) ==
    job' = [job EXCEPT !["chat"].got = job["chat"].docs \intersect indexed,
                       !["chat"].gotSegs = job["chat"].segs \intersect archived,
                       !["chat"].resumed = resumed]

Retrieve ==
    /\ pc["chat"] = "querying"
    /\ \/ Searched(FALSE) /\ Goto("chat", "asking") /\ lock' = Nobody
          /\ UNCHANGED <<turn, composing>> /\ NoFault
       \/ PlanFails /\ Fault
    /\ UNCHANGED <<binding, installed, secret, episodes, process, table, store, memory>>

\* With an active mapping: the search, then the composer's last look at the
\* Ledger.  Its first look can only refuse what this one refuses too.
Compose ==
    /\ pc["chat"] = "composing"
    /\ \/ Composable(composing) /\ Searched(TRUE) /\ Goto("chat", "composed")
          /\ UNCHANGED <<turn, lock, composing>> /\ NoFault
       \/ ~Composable(composing) /\ PlanFails /\ NoFault
       \/ PlanFails /\ Fault
    /\ UNCHANGED <<binding, installed, secret, episodes, process, table, store, memory>>

\* Then, under the host's lock, the second look at the mapping.
Confirm ==
    /\ pc["chat"] = "composed"
    /\ IF SameBinding
         THEN Goto("chat", "asking") /\ lock' = Nobody /\ composing' = NoRow
              /\ UNCHANGED <<turn, job>>
         ELSE PlanFails
    /\ UNCHANGED <<binding, installed, secret, episodes, process, table, store, memory>>
    /\ NoFault

Append1 ==
    /\ nextId <= MaxMessages
    /\ messages' = messages \union {nextId} /\ nextId' = nextId + 1
    /\ UNCHANGED <<dialog, segments, touched>>

Ask ==
    /\ pc["chat"] = "asking" /\ Append1 /\ Goto("chat", "answering")
    /\ UNCHANGED <<host, process, store, memory, locks, job>> /\ NoFault

\* The model may fail; an answer of a resumed task is never archived.
Answer ==
    /\ pc["chat"] = "answering"
    /\ \/ Append1 /\ NoFault
          /\ IF job["chat"].resumed THEN ChatEnds
             ELSE Goto("chat", "archiving") /\ UNCHANGED turn
       \/ Fault /\ ChatEnds /\ UNCHANGED table
    /\ UNCHANGED <<host, process, store, memory, lock, job>>

\* Mutant: the last segment counts before it is stored.
ReservedMark == Max({0} \union {s[2] : s \in DOMAIN segments})

\* pending_memory_messages: the oldest messages after the last ready segment.
Watermark == Max({0} \union {s[2] : s \in ReadyOf(segments)})
Unarchived == {m \in messages : m > Watermark}

\* ORDER BY id LIMIT interval, from the first to the last of them.
Batches ==
    {b \in Segments : /\ {b[1], b[2]} \subseteq Unarchived
                      /\ \A m \in Unarchived : b[1] <= m
                      /\ Cardinality({m \in Unarchived : m <= b[2]}) = interval}

ArchiveBegin ==
    /\ pc["chat"] = "archiving"
    /\ IF Cardinality(Unarchived) < interval
         THEN ChatEnds /\ UNCHANGED <<segments, job>>
         ELSE \E batch \in Batches :
              /\ segments' = Put(segments, batch, "pending")
              /\ job' = [job EXCEPT !["chat"].batch = batch]
              /\ Goto("chat", "storing") /\ UNCHANGED turn
    /\ UNCHANGED <<host, process, dialog, messages, nextId, touched, store, memory, lock>>
    /\ NoFault

\* The add runs in a thread.  A browser that leaves cancels the await, which
\* frees the turn, but not the thread: the vector may be written later.
ArchiveStore ==
    /\ pc["chat"] = "storing"
    /\ \/ archived' = archived \union {job["chat"].batch}
          /\ landed' = landed \ {job["chat"].batch}
          /\ Goto("chat", "stored") /\ NoFault /\ UNCHANGED <<turn, late>>
       \/ Fault /\ ChatEnds /\ UNCHANGED <<archived, landed>>
          /\ late' \in {late, late \union {job["chat"].batch}}
    /\ UNCHANGED <<host, process, table, store, session, lock, job>>

LateAdd ==
    /\ \E s \in late :
         /\ archived' = archived \union {s} /\ landed' = landed \union {s}
         /\ late' = late \ {s}
    /\ UNCHANGED <<host, process, table, store, session, locks, pc, job>> /\ NoFault

\* The text of a batch is never empty: chunks == 0 does not occur.
ArchiveReady ==
    /\ pc["chat"] = "stored"
    /\ segments' = [segments EXCEPT ![job["chat"].batch] = "ready"]
    /\ ChatEnds
    /\ UNCHANGED <<host, process, dialog, messages, nextId, touched, store, memory,
                   lock, job>> /\ NoFault

(***************************************************************************)
(* Deletion of the dialog                                                  *)
(***************************************************************************)
DeleteFails == turn' = Nobody /\ Goto("delete", "idle")

\* An unknown dialog is a 404; without the demo there is nothing to close.
DeleteBegin ==
    /\ pc["delete"] = "idle" /\ turn = Nobody /\ dialog
    /\ turn' = "delete" /\ Goto("delete", IF demo THEN "closing" ELSE "listing")
    /\ UNCHANGED <<host, process, table, store, memory, lock, job>> /\ NoFault

CloseBegin ==
    /\ pc["delete"] = "closing"
    /\ CASE ~Authentic -> DeleteFails /\ UNCHANGED binding
         [] binding = NoRow -> Goto("delete", "listing") /\ UNCHANGED <<turn, binding>>
         [] OTHER -> binding' = Closed /\ Goto("delete", "forgetting") /\ UNCHANGED turn
    /\ UNCHANGED <<installed, secret, episodes, composing, process, table, store,
                   memory, lock, job>> /\ NoFault

CloseForget ==
    /\ pc["delete"] = "forgetting"
    /\ \/ episodes' = ForgottenEpisode /\ Goto("delete", "finishing")
          /\ UNCHANGED turn /\ NoFault
       \/ DeleteFails /\ UNCHANGED episodes /\ Fault
    /\ UNCHANGED <<binding, installed, secret, composing, process, table, store,
                   memory, lock, job>>

CloseFinish ==
    /\ pc["delete"] = "finishing"
    /\ binding' = NoRow /\ Goto("delete", "listing")
    /\ UNCHANGED <<installed, secret, episodes, composing, process, table, store,
                   memory, locks, job>> /\ NoFault

\* The vectors of the dialog: by its rows and by their metadata.
DeleteList ==
    /\ pc["delete"] = "listing"
    /\ job' = [job EXCEPT !["delete"].doomed = DOMAIN segments \union archived]
    /\ Goto("delete", "erasing")
    /\ UNCHANGED <<host, process, table, store, memory, locks>> /\ NoFault

DeleteVector ==
    /\ pc["delete"] = "erasing" /\ job["delete"].doomed # {}
    /\ \/ \E s \in job["delete"].doomed :
            /\ archived' = archived \ {s} /\ landed' = landed \ {s}
            /\ job' = [job EXCEPT !["delete"].doomed = job["delete"].doomed \ {s}]
          /\ touched' = TRUE
          /\ UNCHANGED <<turn, pc>> /\ NoFault
       \/ DeleteFails /\ Fault /\ UNCHANGED <<archived, landed, job, touched>>
    /\ UNCHANGED <<host, process, dialog, messages, nextId, segments, store, session, late,
                   lock>>

DeleteSession ==
    /\ pc["delete"] = "erasing" /\ job["delete"].doomed = {}
    /\ \/ session' = FALSE /\ Goto("delete", "erased") /\ UNCHANGED turn /\ NoFault
       \/ DeleteFails /\ Fault /\ UNCHANGED session
    /\ UNCHANGED <<host, process, table, store, archived, late, landed, lock, job>>

\* Mutant: the transcript goes first, the vectors after it.
EarlyOrErased == pc["delete"] \in {"erasing", "erased"}

VectorsErased == pc["delete"] = "erased"

DeleteDialog ==
    /\ VectorsErased
    /\ dialog' = FALSE /\ messages' = {} /\ segments' = <<>> /\ touched' = FALSE
    /\ DeleteFails
    /\ UNCHANGED <<host, process, nextId, store, memory, lock, job>> /\ NoFault

\* The embedding host may close the mapping itself, from a thread of its own
\* and during a chat: under the host's lock, so that the second look at the
\* mapping comes before all of it or after all of it.
HostCloses ==
    /\ demo /\ Authentic /\ binding # NoRow /\ pc["chat"] \in {"composing", "composed"}
    /\ \/ binding' = NoRow /\ episodes' = ForgottenEpisode /\ NoFault
       \/ binding' = Closed /\ episodes' \in {episodes, ForgottenEpisode} /\ Fault
    /\ UNCHANGED <<installed, secret, composing, process, table, store, memory, locks,
                   pc, job>>

(***************************************************************************)
(* Startup: _enable_task_resume_demo and reconcile_pending_documents       *)
(***************************************************************************)
Start ==
    /\ phase = "down" /\ starts < MaxStarts
    /\ starts' = starts + 1
    /\ demo' \in BOOLEAN /\ interval' \in Intervals
    /\ phase' = IF demo' THEN "enabling" ELSE "reconciling"
    /\ Goto("start", "opening")
    /\ UNCHANGED <<host, table, store, memory, locks, job>> /\ NoFault

Refused == phase' = "down" /\ Goto("start", "idle") /\ UNCHANGED <<demo, interval, starts>>

\* A secret or a mapping that does not verify stops the application.
EnableDemo ==
    /\ phase = "enabling" /\ pc["start"] = "opening"
    /\ secret' = LoadedSecret
    /\ installed' = IF SecretAccepted(LoadedSecret) THEN LoadedSecret ELSE installed
    /\ IF SecretAccepted(LoadedSecret) /\ SignedWith(LoadedSecret)
         THEN /\ dialog' = TRUE
              /\ job' = [job EXCEPT !["start"] = [NoJob EXCEPT !.existed = dialog]]
              /\ IF Active THEN phase' = "reconciling" /\ UNCHANGED pc
                           ELSE UNCHANGED phase /\ Goto("start", "submitting")
              /\ UNCHANGED <<demo, interval, starts>>
         ELSE Refused /\ UNCHANGED <<dialog, job>>
    /\ UNCHANGED <<binding, episodes, composing, messages, nextId, segments,
                   touched, store, memory, locks>> /\ NoFault

\* The failed start takes the dialog it created with it, never an older one.
SeedRefused ==
    /\ Refused
    /\ dialog' = job["start"].existed
    /\ messages' = IF dialog' THEN messages ELSE {}
    /\ segments' = IF dialog' THEN segments ELSE <<>>

SeedSteps == [submitting |-> "confirming", confirming |-> "sealing",
              sealing |-> "binding", binding |-> "bound"]

\* submit, confirm and seal_checkpoint; from the confirmation on an error
\* forgets the episode.
SeedEpisode ==
    /\ phase = "enabling" /\ pc["start"] \in {"submitting", "confirming", "sealing"}
    /\ pc["start"] = "submitting" => NewTask \in Tasks
    /\ \/ /\ episodes' = IF pc["start"] = "submitting" THEN Submitted ELSE
                       Now(IF pc["start"] = "confirming" THEN "active" ELSE "sealed")
          /\ Goto("start", SeedSteps[pc["start"]])
          /\ UNCHANGED <<process, dialog, messages, segments>> /\ NoFault
       \/ /\ Fault /\ SeedRefused
          /\ episodes' = IF pc["start"] = "sealing" THEN Now("forgotten") ELSE episodes
    /\ UNCHANGED <<binding, installed, secret, composing, nextId, touched, store,
                   memory, locks, job>>

SeedBinding ==
    /\ phase = "enabling" /\ pc["start"] = "binding"
    /\ IF Unbound
         THEN /\ binding' = Created /\ phase' = "reconciling" /\ Goto("start", "bound")
              /\ UNCHANGED <<episodes, demo, interval, starts, dialog, messages, segments>>
         ELSE episodes' = Now("forgotten") /\ SeedRefused /\ UNCHANGED binding
    /\ UNCHANGED <<installed, secret, composing, nextId, touched, store, memory,
                   locks, job>> /\ NoFault

\* A pending upload of an earlier process: vectors, file, row.  An error of
\* the first two leaves the row for the next start, one of the last stops
\* this start.
ReconcileDoc(d) ==
    /\ phase = "reconciling" /\ d \in DOMAIN rows \ ReadyOf(rows)
    /\ d \notin job["start"].tried
    /\ \/ /\ job' = [job EXCEPT !["start"].tried = job["start"].tried \union {d}]
          /\ \/ /\ indexed' = indexed \ {d} /\ files' = files \ {d}
                /\ rows' = Without(rows, {d}) /\ NoFault
             \/ indexed' \in {indexed, indexed \ {d}} /\ UNCHANGED <<files, rows>> /\ Fault
          /\ UNCHANGED <<process, pc>>
       \/ /\ Fault /\ Refused /\ job' = [job EXCEPT !["start"] = NoJob]
          /\ indexed' = indexed \ {d} /\ files' = files \ {d} /\ UNCHANGED rows
    /\ UNCHANGED <<host, table, memory, locks>>

\* Then the vectors no row knows; an error stops the application.
ReconcileStrays ==
    /\ phase = "reconciling" /\ DOMAIN rows \ ReadyOf(rows) \subseteq job["start"].tried
    /\ \/ /\ indexed' = indexed \intersect DOMAIN rows
          /\ archived' = archived \intersect DOMAIN segments
          /\ session' = (session /\ dialog)
          /\ phase' = "up" /\ Goto("start", "idle") /\ NoFault
          /\ UNCHANGED <<demo, interval, starts>>
       \/ Fault /\ Refused
          /\ indexed' \in {indexed, indexed \intersect DOMAIN rows}
          /\ archived' \in {archived, archived \intersect DOMAIN segments}
          /\ UNCHANGED session
    /\ job' = [job EXCEPT !["start"] = NoJob]
    /\ UNCHANGED <<host, table, rows, files, late, landed, locks>>

\* The threads end with the process.
Crash ==
    /\ phase # "down" /\ Fault
    /\ phase' = "down" /\ turn' = Nobody /\ lock' = Nobody /\ composing' = NoRow
    /\ pc' = [t \in TaskIds |-> IF t \in Docs /\ pc[t] # "idle" THEN "over" ELSE "idle"]
    /\ job' = [t \in TaskIds |-> NoJob] /\ late' = {} /\ landed' = {}
    /\ UNCHANGED <<binding, installed, secret, episodes, demo, interval, starts, table,
                   store, archived, session>>

\* While the application is down: the row is edited, the secret is removed
\* or another one is put in its place.
Outsider ==
    /\ phase = "down" /\ Fault
    /\ \/ binding # NoRow /\ binding' = [binding EXCEPT !.key = Forged]
          /\ UNCHANGED secret
       \/ secret' \in {NoSecret, installed + 1} /\ UNCHANGED binding
    /\ UNCHANGED <<installed, episodes, composing, process, table, store, memory,
                   locks, pc, job>>

-----------------------------------------------------------------------------
\* close_binding and the listing of the vectors await nothing.
LoopFree == pc["delete"] \notin {"closing", "forgetting", "finishing", "listing"}

Upload(d) ==
    \/ UploadBegin(d) \/ UploadWrite(d) \/ UploadIndex(d) \/ UploadReady(d)
    \/ CleanupBegin(d) \/ CleanupVectors(d) \/ CleanupFile(d) \/ CleanupRow(d)
Removal == RemoveVectors \/ RemoveFile \/ RemoveRow \/ \E d \in Docs : RemoveBegin(d)
Chat == ChatBegin \/ PlanBegin \/ Retrieve \/ Compose \/ Confirm \/ Ask \/ Answer
        \/ ArchiveBegin \/ ArchiveStore \/ ArchiveReady
CloseBinding == CloseBegin \/ CloseForget \/ CloseFinish \/ DeleteList
Delete == DeleteBegin \/ DeleteVector \/ DeleteSession \/ DeleteDialog
Requests == (\E d \in Docs : Upload(d)) \/ Removal \/ Chat \/ Delete \/ HostCloses
Startup == Start \/ EnableDemo \/ SeedEpisode \/ SeedBinding
           \/ (\E d \in Docs : ReconcileDoc(d)) \/ ReconcileStrays

Next ==
    \/ phase = "up" /\ CloseBinding
    \/ phase = "up" /\ LoopFree /\ Requests
    \/ phase = "up" /\ LateAdd
    \/ Startup \/ Crash \/ Outsider

Spec == Init /\ [][Next]_vars

(***************************************************************************)
(* Properties                                                              *)
(***************************************************************************)
\* Whatever fails or crashes in the middle of an upload or a removal, a file
\* and, while requests are served, a vector always has the row by which the
\* next removal or the next startup finds it - but for an archive vector
\* written last by a cancelled add, which this process may lose track of.
NothingUntracked ==
    /\ files \subseteq DOMAIN rows
    /\ phase = "up" => /\ indexed \subseteq DOMAIN rows
                       /\ archived \subseteq DOMAIN segments \union landed

\* A dialog that is not listed any more has no segment, no session vector, in
\* a process of the demo no mapping, and no vector but those that cancelled
\* adds of this very process wrote after their deletion: a deletion
\* interrupted anywhere leaves the dialog listed, to be deleted again, and a
\* start leaves no vector of a dialog deleted before it.
DeletedDialogsLeaveNothing ==
    phase = "up" /\ ~dialog =>
        /\ archived \subseteq landed /\ segments = <<>> /\ ~session
        /\ demo => binding = NoRow

\* What the documentation says of a deletion: "deleting a dialog deletes the
\* transcript and its archive vectors", and a failure between the steps makes
\* no vector forgotten (apps/ollama-chat/README.md:58-61).
DeletionTakesEveryVector == phase = "up" /\ ~dialog => archived = {}

\* The archive has no holes: a segment that counts for the watermark has its
\* vectors, unless a deletion of the dialog took them, ready segments do not
\* overlap, and every message up to the watermark is in one of them - also
\* when a restart changed the interval.
ArchiveIsComplete ==
    LET ready == ReadyOf(segments) IN
    /\ touched \/ ready \subseteq archived
    /\ \A s, t \in ready : s = t \/ s[2] < t[1] \/ t[2] < s[1]
    /\ \A m \in messages : m <= Watermark => \E s \in ready : m \in s[1]..s[2]

\* A search returns only documents whose upload was completed and nothing of
\* an upload that failed, was cut off or is being removed, and archive
\* segments only of completed batches.
OnlyReadyIsRetrieved ==
    [][pc["chat"] \in {"composing", "querying"} /\ pc'["chat"] \in {"composed", "asking"} =>
         /\ job'["chat"].got \subseteq ReadyOf(rows) \intersect indexed
         /\ job'["chat"].gotSegs \subseteq ReadyOf(segments)]_vars

\* No request composed from a task episode goes on once the episode's text is
\* forgotten.  Mapping and episode are in two databases, looked at in two
\* steps, and the look that lets the request go on is only at the mapping:
\* it is enough because every close marks the mapping before it forgets.
ForgottenIsNeverResumed ==
    [][pc["chat"] = "composed" /\ pc'["chat"] = "asking" =>
         episodes[composing.task] = "sealed"]_vars

\* The documentation's order of a deletion, for every process: the mapping of
\* a seeded dialog is gone before the dialog is
\* (docs/en/ollama-task-resume-demo.md:131).
MappingGoesFirst == phase = "up" /\ ~dialog => binding = NoRow
=============================================================================
