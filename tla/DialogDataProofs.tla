--------------------------- MODULE DialogDataProofs ---------------------------
(***************************************************************************)
(* Theorems about DialogData.  Its state falls into two halves that the    *)
(* two locks guard: what is kept of documents, under document_lock, and    *)
(* what is kept of the dialog, under its turn.  The invariant says, for    *)
(* each half, who holds the lock at which step and what that step relies   *)
(* on; a request changes one half and leaves the other as it stands; a     *)
(* start runs when neither lock is held.                                   *)
(***************************************************************************)
EXTENDS DialogData, TLAPS

Job == [doc : Docs \union {Stray}, docs : SUBSET Docs, segs : SUBSET Segments,
        got : SUBSET Docs, gotSegs : SUBSET Segments, batch : Nat \X Nat,
        doomed : SUBSET Segments, clean : BOOLEAN, tried : SUBSET Docs,
        resumed : BOOLEAN, existed : BOOLEAN]

Statuses == {"pending", "ready"}

Typed ==
    /\ pc = [t \in TaskIds |-> pc[t]] /\ job \in [TaskIds -> Job]
    /\ rows \in [DOMAIN rows -> Statuses] /\ DOMAIN rows \subseteq Docs
    /\ segments \in [DOMAIN segments -> Statuses] /\ DOMAIN segments \subseteq Segments
    /\ archived \subseteq Segments /\ messages \subseteq Nat \ {0} /\ nextId \in Nat \ {0}
    /\ late \subseteq Segments /\ landed \subseteq Segments
    /\ files \subseteq Docs /\ indexed \subseteq Docs \union {Stray}
    /\ dialog \in BOOLEAN /\ session \in BOOLEAN /\ touched \in BOOLEAN
    /\ phase \in {"down", "enabling", "reconciling", "up"}
    /\ interval \in Nat \ {0}

\* Requests are served, and locks taken, by a process that is up.
Quiet ==
    phase # "up" =>
        /\ turn = Nobody /\ lock = Nobody
        /\ \A t \in {"chat", "delete", "remove"} : pc[t] = "idle"
        /\ \A d \in Docs : pc[d] \in {"idle", "over"}

(***************************************************************************)
(* Documents                                                               *)
(***************************************************************************)
\* An upload holds document_lock while it works; as long as its cleanup has
\* missed nothing, what it has cleaned is gone.
UploadHolds(d) ==
    /\ pc[d] \in {"reserved", "written", "indexed", "cleaning", "unlinking", "forgetting"} =>
         lock = d
    /\ pc[d] \in {"reserved", "written", "indexed"} => d \in DOMAIN rows
    /\ pc[d] \in {"unlinking", "forgetting"} /\ job[d].clean => d \notin indexed
    /\ pc[d] = "forgetting" /\ job[d].clean => d \notin files

RemovalHolds ==
    /\ pc["remove"] \in {"vectors", "file", "row"} => lock = "remove"
    /\ pc["remove"] \in {"file", "row"} => job["remove"].doc \notin indexed
    /\ pc["remove"] = "row" => job["remove"].doc \notin files

SearchHolds ==
    /\ pc["chat"] \in {"composing", "querying", "composed"} => lock = "chat"
    /\ pc["chat"] \in {"composing", "querying"} => job["chat"].docs \subseteq ReadyOf(rows)

Tracked ==
    /\ files \subseteq DOMAIN rows
    /\ phase = "up" => indexed \subseteq DOMAIN rows

DocumentsHold == (\A d \in Docs : UploadHolds(d)) /\ RemovalHolds /\ SearchHolds /\ Tracked

(***************************************************************************)
(* The dialog                                                              *)
(***************************************************************************)
TurnsHold ==
    /\ pc["chat"] # "idle" => turn = "chat" /\ dialog
    /\ pc["delete"] # "idle" => turn = "delete" /\ dialog

\* A deletion has listed every vector before it erases the first; one that a
\* cancelled add writes meanwhile is in landed.
DeletionHolds ==
    /\ pc["delete"] = "erasing" => archived \subseteq job["delete"].doomed \union landed
    /\ pc["delete"] = "erased" => archived \subseteq landed /\ ~session

ServedHold ==
    /\ ~dialog => segments = <<>>
    /\ phase = "up" => /\ archived \subseteq DOMAIN segments \union landed
                       /\ ~dialog => ~session

\* A process of the demo has a dialog for its mapping.
MappingHolds ==
    /\ demo /\ pc["delete"] \in {"listing", "erasing", "erased"} => binding = NoRow
    /\ demo /\ phase \in {"reconciling", "up"} /\ ~dialog => binding = NoRow
    /\ phase = "enabling" /\ pc["start"] # "opening" => dialog

\* Message m comes after every segment that counts.
After(m) == \A s \in ReadyOf(segments) : s[2] < m

\* The batch in work starts at the oldest message after the watermark.
BatchHolds ==
    /\ pc["chat"] \in {"composing", "querying"} => job["chat"].segs \subseteq ReadyOf(segments)
    /\ pc["chat"] \in {"storing", "stored"} =>
         LET b == job["chat"].batch IN
         /\ b \in DOMAIN segments /\ After(b[1]) /\ b[1] <= b[2]
         /\ \A m \in messages : After(m) => b[1] <= m
    /\ pc["chat"] = "stored" => touched \/ job["chat"].batch \in archived

Numbered ==
    /\ \A m \in messages : m < nextId
    /\ \A s \in DOMAIN segments : s[2] < nextId

Ends == {0} \union {s[2] : s \in ReadyOf(segments)}

\* The archive without holes, for the greatest end and for every other one.
ArchiveHolds ==
    /\ touched \/ ReadyOf(segments) \subseteq archived
    /\ \A s, t \in ReadyOf(segments) : s = t \/ s[2] < t[1] \/ t[2] < s[1]
    /\ \A m \in messages : After(m) \/ \E s \in ReadyOf(segments) : m \in s[1]..s[2]
    /\ \E w \in Ends : \A e \in Ends : w >= e

DialogHolds == TurnsHold /\ DeletionHolds /\ ServedHold /\ MappingHolds
               /\ BatchHolds /\ Numbered /\ ArchiveHolds

DataInv == Typed /\ Quiet /\ DocumentsHold /\ DialogHolds

-----------------------------------------------------------------------------
(***************************************************************************)
(* What the helpers on tables do.                                          *)
(***************************************************************************)
LEMMA PutFacts ==
    ASSUME NEW f, f \in [DOMAIN f -> Statuses], NEW k, NEW v \in Statuses
    PROVE  /\ DOMAIN Put(f, k, v) = DOMAIN f \union {k}
           /\ Put(f, k, v) \in [DOMAIN Put(f, k, v) -> Statuses]
           /\ Put(f, k, v)[k] = v
           /\ \A j \in DOMAIN f \ {k} : Put(f, k, v)[j] = f[j]
    BY DEF Put

LEMMA WithoutFacts ==
    ASSUME NEW f, f \in [DOMAIN f -> Statuses], NEW S
    PROVE  /\ DOMAIN Without(f, S) = DOMAIN f \ S
           /\ Without(f, S) \in [DOMAIN Without(f, S) -> Statuses]
           /\ \A j \in DOMAIN f \ S : Without(f, S)[j] = f[j]
    BY DEF Without, Restrict

LEMMA EmptyTable == DOMAIN <<>> = {} /\ <<>> \in [DOMAIN <<>> -> Statuses] /\ ReadyOf(<<>>) = {}
    BY DEF ReadyOf

LEMMA TasksApart ==
    /\ Nobody \notin TaskIds /\ Stray \notin Docs
    /\ \A t \in {"chat", "delete", "remove", "start"} : t \in TaskIds /\ t \notin Docs
    /\ Docs \subseteq TaskIds
    BY DialogAssumption DEF TaskIds, Clerks, Nobody

\* A step of the task t, of which nothing else is known.
Moves(t) ==
    /\ pc' = [u \in TaskIds |-> pc'[u]] /\ job' \in [TaskIds -> Job]
    /\ \A u \in TaskIds \ {t} : pc'[u] = pc[u] /\ job'[u] = job[u]

LEMMA MovedTask ==
    ASSUME Typed, NEW t \in TaskIds, NEW to, pc' = [pc EXCEPT ![t] = to],
           NEW j \in Job, job' = job \/ job' = [job EXCEPT ![t] = j]
    PROVE  Moves(t) /\ pc'[t] = to
    BY DEF Typed, Moves

LEMMA GoneTask ==
    ASSUME Typed, NEW t \in TaskIds, NEW to, pc' = [pc EXCEPT ![t] = to], UNCHANGED job
    PROVE  Moves(t) /\ pc'[t] = to
    BY DEF Typed, Moves

-----------------------------------------------------------------------------
(***************************************************************************)
(* Documents: a task that has document_lock, or takes it, meets no other.  *)
(***************************************************************************)
LEMMA LockedStep ==
    ASSUME DocumentsHold, NEW t \in TaskIds, lock \in {t, Nobody},
           \A u \in TaskIds \ {t} : pc'[u] = pc[u]
    PROVE  /\ \A e \in Docs \ {t} : UploadHolds(e)'
           /\ t # "remove" => RemovalHolds'
           /\ t # "chat" => SearchHolds'
    <1>1. ASSUME NEW e \in Docs \ {t} PROVE UploadHolds(e)'
        <2>1. UploadHolds(e) /\ lock # e /\ pc'[e] = pc[e]
            BY TasksApart DEF DocumentsHold
        <2> QED BY <2>1 DEF UploadHolds
    <1>2. ASSUME t # "remove" PROVE RemovalHolds'
        <2>1. lock # "remove" /\ pc'["remove"] = pc["remove"]
            BY <1>2, TasksApart
        <2> QED BY <2>1 DEF DocumentsHold, RemovalHolds
    <1>3. ASSUME t # "chat" PROVE SearchHolds'
        <2>1. lock # "chat" /\ pc'["chat"] = pc["chat"]
            BY <1>3, TasksApart
        <2> QED BY <2>1 DEF DocumentsHold, SearchHolds
    <1> QED BY <1>1, <1>2, <1>3

\* What a request about documents leaves alone.
DialogStands ==
    /\ UNCHANGED <<host, process, table, memory, turn>>
    /\ \A t \in {"chat", "delete", "start"} : pc'[t] = pc[t] /\ job'[t] = job[t]

StoreKept ==
    /\ rows' \in [DOMAIN rows' -> Statuses] /\ DOMAIN rows' \subseteq Docs
    /\ files' \subseteq DOMAIN rows' /\ indexed' \subseteq DOMAIN rows'

\* The task t makes a step under document_lock; the rest of the invariant.
LEMMA DocumentStep ==
    ASSUME Typed, DocumentsHold, NEW t \in Docs \union {"remove"}, lock \in {t, Nobody},
           Moves(t), OnlyStore, StoreKept,
           t \in Docs => UploadHolds(t)', t = "remove" => RemovalHolds'
    PROVE  Typed' /\ DocumentsHold' /\ DialogStands
    <1>1. t \in TaskIds /\ t # "chat" /\ t # "delete" /\ t # "start" /\ (t # "remove" => t \in Docs)
        BY TasksApart
    <1>2. files' \subseteq Docs /\ indexed' \subseteq Docs \union {Stray}
        BY DEF StoreKept
    <1>3. Typed'
        BY <1>2 DEF Typed, OnlyStore, Moves, StoreKept, host, process, table, memory
    <1>4. DialogStands
        BY <1>1, TasksApart DEF DialogStands, OnlyStore, Moves
    <1>5. (\A e \in Docs \ {t} : UploadHolds(e)') /\ (t # "remove" => RemovalHolds') /\ SearchHolds'
        BY <1>1, LockedStep DEF Moves
    <1>6. Tracked'
        BY DEF Tracked, StoreKept
    <1> QED BY <1>1, <1>3, <1>4, <1>5, <1>6 DEF DocumentsHold

LEMMA UploadStep ==
    ASSUME Typed, DocumentsHold, phase = "up", NEW d \in Docs, Upload(d)
    PROVE  Typed' /\ DocumentsHold' /\ DialogStands
    <1>1. /\ d \in TaskIds /\ d # "remove" /\ d # Nobody /\ job[d] \in Job
          /\ UploadHolds(d) /\ Tracked
          /\ rows \in [DOMAIN rows -> Statuses] /\ DOMAIN rows \subseteq Docs
          /\ files \subseteq DOMAIN rows /\ indexed \subseteq DOMAIN rows
        BY TasksApart DEF Typed, DocumentsHold, Tracked
    <1>2. ASSUME lock \in {d, Nobody}, Moves(d), OnlyStore, StoreKept, UploadHolds(d)'
          PROVE  Typed' /\ DocumentsHold' /\ DialogStands
        BY <1>1, <1>2, DocumentStep
    <1>3. ASSUME UploadBegin(d) PROVE Typed' /\ DocumentsHold' /\ DialogStands
        <2>1. lock = Nobody /\ lock' = d /\ rows' = Put(rows, d, "pending")
              /\ Goto(d, "reserved") /\ UNCHANGED <<files, indexed, job>> /\ OnlyStore
            BY <1>3 DEF UploadBegin, TakeLock
        <2>2. DOMAIN rows' = DOMAIN rows \union {d} /\ rows' \in [DOMAIN rows' -> Statuses]
            BY <1>1, <2>1, PutFacts DEF Statuses
        <2>3. Moves(d) /\ UploadHolds(d)'
            <3>1. Moves(d) /\ pc'[d] = "reserved"
                BY <1>1, <2>1, GoneTask DEF Goto
            <3> QED BY <3>1, <2>1, <2>2 DEF UploadHolds
        <2> QED BY <1>1, <1>2, <2>1, <2>2, <2>3 DEF StoreKept
    <1>4. ASSUME UploadWrite(d) PROVE Typed' /\ DocumentsHold' /\ DialogStands
        <2>1. pc[d] = "reserved" /\ files' = files \union {d}
              /\ UNCHANGED <<rows, indexed, job>> /\ OnlyStore
            BY <1>4 DEF UploadWrite
        <2>2. lock = d /\ d \in DOMAIN rows
            BY <1>1, <2>1 DEF UploadHolds
        <2>3. CASE Goto(d, "written") /\ UNCHANGED lock
            <3>1. Moves(d) /\ UploadHolds(d)'
                <4>1. Moves(d) /\ pc'[d] = "written"
                    BY <1>1, <2>1, <2>3, GoneTask DEF Goto
                <4> QED BY <4>1, <2>1, <2>2, <2>3 DEF UploadHolds
            <3> QED BY <1>1, <1>2, <2>1, <2>2, <2>3, <3>1 DEF StoreKept
        <2>4. CASE Goto(d, "failed")
            <3>1. Moves(d) /\ UploadHolds(d)'
                <4>1. Moves(d) /\ pc'[d] = "failed"
                    BY <1>1, <2>1, <2>4, GoneTask DEF Goto
                <4> QED BY <4>1 DEF UploadHolds
            <3> QED BY <1>1, <1>2, <2>1, <2>2, <2>4, <3>1 DEF StoreKept
        <2> QED BY <1>4, <2>3, <2>4 DEF UploadWrite
    <1>5. ASSUME UploadIndex(d) PROVE Typed' /\ DocumentsHold' /\ DialogStands
        <2>1. pc[d] = "written" /\ indexed' \subseteq indexed \union {d}
              /\ UNCHANGED <<rows, files, job>> /\ OnlyStore
            BY <1>5 DEF UploadIndex
        <2>2. lock = d /\ d \in DOMAIN rows
            BY <1>1, <2>1 DEF UploadHolds
        <2>3. CASE Goto(d, "indexed") /\ UNCHANGED lock
            <3>1. Moves(d) /\ UploadHolds(d)'
                <4>1. Moves(d) /\ pc'[d] = "indexed"
                    BY <1>1, <2>1, <2>3, GoneTask DEF Goto
                <4> QED BY <4>1, <2>1, <2>2, <2>3 DEF UploadHolds
            <3> QED BY <1>1, <1>2, <2>1, <2>2, <2>3, <3>1 DEF StoreKept
        <2>4. CASE Goto(d, "failed")
            <3>1. Moves(d) /\ UploadHolds(d)'
                <4>1. Moves(d) /\ pc'[d] = "failed"
                    BY <1>1, <2>1, <2>4, GoneTask DEF Goto
                <4> QED BY <4>1 DEF UploadHolds
            <3> QED BY <1>1, <1>2, <2>1, <2>2, <2>4, <3>1 DEF StoreKept
        <2> QED BY <1>5, <2>3, <2>4 DEF UploadIndex
    <1>6. ASSUME UploadReady(d) PROVE Typed' /\ DocumentsHold' /\ DialogStands
        <2>1. lock = d /\ rows' = Put(rows, d, "ready")
              /\ Goto(d, "over") /\ UNCHANGED <<files, indexed, job>> /\ OnlyStore
            BY <1>6 DEF UploadReady, DropLock
        <2>2. pc[d] = "indexed" /\ d \in DOMAIN rows
            BY <1>1, <1>6 DEF UploadReady, UploadHolds
        <2>3. DOMAIN rows' = DOMAIN rows /\ rows' \in [DOMAIN rows' -> Statuses]
            BY <1>1, <2>1, <2>2, PutFacts DEF Put, Statuses
        <2>4. Moves(d) /\ UploadHolds(d)'
            <3>1. Moves(d) /\ pc'[d] = "over"
                BY <1>1, <2>1, GoneTask DEF Goto
            <3> QED BY <3>1 DEF UploadHolds
        <2> QED BY <1>1, <1>2, <2>1, <2>3, <2>4 DEF StoreKept
    <1>7. ASSUME CleanupBegin(d) PROVE Typed' /\ DocumentsHold' /\ DialogStands
        <2>1. lock = Nobody /\ lock' = d /\ Goto(d, "cleaning")
              /\ UNCHANGED <<store, job>> /\ OnlyStore
            BY <1>7 DEF CleanupBegin, TakeLock
        <2>2. Moves(d) /\ UploadHolds(d)'
            <3>1. Moves(d) /\ pc'[d] = "cleaning"
                BY <1>1, <2>1, GoneTask DEF Goto
            <3> QED BY <3>1, <2>1 DEF UploadHolds
        <2> QED BY <1>1, <1>2, <2>1, <2>2 DEF store, StoreKept
    <1>8. ASSUME CleanupVectors(d) PROVE Typed' /\ DocumentsHold' /\ DialogStands
        <2>1. pc[d] = "cleaning" /\ Goto(d, "unlinking")
              /\ UNCHANGED <<rows, files, lock>> /\ OnlyStore
            BY <1>8 DEF CleanupVectors
        <2>2. lock = d
            BY <1>1, <2>1 DEF UploadHolds
        <2>3. CASE indexed' = indexed \ {d} /\ UNCHANGED job
            <3>1. Moves(d) /\ UploadHolds(d)'
                <4>1. Moves(d) /\ pc'[d] = "unlinking"
                    BY <1>1, <2>1, <2>3, GoneTask DEF Goto
                <4> QED BY <4>1, <2>1, <2>2, <2>3 DEF UploadHolds
            <3> QED BY <1>1, <1>2, <2>1, <2>2, <2>3, <3>1 DEF StoreKept
        <2>4. CASE job' = [job EXCEPT ![d].clean = FALSE] /\ UNCHANGED indexed
            <3> DEFINE j == [job[d] EXCEPT !.clean = FALSE]
            <3>1. j \in Job /\ ~j.clean
                BY <1>1 DEF Job
            <3>2. job' = [job EXCEPT ![d] = j]
                BY <1>1, <2>4
            <3> HIDE DEF j
            <3>3. job'[d] = j
                BY <1>1, <3>2 DEF Typed
            <3>4. Moves(d) /\ UploadHolds(d)'
                <4>1. Moves(d) /\ pc'[d] = "unlinking"
                    BY <1>1, <2>1, <2>4, <3>1, <3>2, MovedTask DEF Goto
                <4> QED BY <4>1, <2>1, <2>2, <3>1, <3>3 DEF UploadHolds
            <3> QED BY <1>1, <1>2, <2>1, <2>2, <2>4, <3>1, <3>2, <3>4 DEF StoreKept
        <2> QED BY <1>8, <2>3, <2>4 DEF CleanupVectors
    <1>9. ASSUME CleanupFile(d) PROVE Typed' /\ DocumentsHold' /\ DialogStands
        <2>1. pc[d] = "unlinking" /\ Goto(d, "forgetting")
              /\ UNCHANGED <<rows, indexed, lock>> /\ OnlyStore
            BY <1>9 DEF CleanupFile
        <2>2. lock = d /\ (job[d].clean => d \notin indexed)
            BY <1>1, <2>1 DEF UploadHolds
        <2>3. CASE files' = files \ {d} /\ UNCHANGED job
            <3>1. Moves(d) /\ UploadHolds(d)'
                <4>1. Moves(d) /\ pc'[d] = "forgetting"
                    BY <1>1, <2>1, <2>3, GoneTask DEF Goto
                <4> QED BY <4>1, <2>1, <2>2, <2>3 DEF UploadHolds
            <3> QED BY <1>1, <1>2, <2>1, <2>2, <2>3, <3>1 DEF StoreKept
        <2>4. CASE job' = [job EXCEPT ![d].clean = FALSE] /\ UNCHANGED files
            <3> DEFINE j == [job[d] EXCEPT !.clean = FALSE]
            <3>1. j \in Job /\ ~j.clean
                BY <1>1 DEF Job
            <3>2. job' = [job EXCEPT ![d] = j]
                BY <1>1, <2>4
            <3> HIDE DEF j
            <3>3. job'[d] = j
                BY <1>1, <3>2 DEF Typed
            <3>4. Moves(d) /\ UploadHolds(d)'
                <4>1. Moves(d) /\ pc'[d] = "forgetting"
                    BY <1>1, <2>1, <2>4, <3>1, <3>2, MovedTask DEF Goto
                <4> QED BY <4>1, <2>1, <2>2, <3>1, <3>3 DEF UploadHolds
            <3> QED BY <1>1, <1>2, <2>1, <2>2, <2>4, <3>1, <3>2, <3>4 DEF StoreKept
        <2> QED BY <1>9, <2>3, <2>4 DEF CleanupFile
    <1>10. ASSUME CleanupRow(d) PROVE Typed' /\ DocumentsHold' /\ DialogStands
        <2>1. pc[d] = "forgetting" /\ lock = d /\ Goto(d, "over")
              /\ UNCHANGED <<files, indexed, job>> /\ OnlyStore
              /\ rows' = IF job[d].clean THEN Without(rows, {d}) ELSE rows
            BY <1>10 DEF CleanupRow, DropLock, Clean
        <2>2. job[d].clean => d \notin files /\ d \notin indexed
            BY <1>1, <2>1 DEF UploadHolds
        <2>3. Moves(d) /\ UploadHolds(d)'
            <3>1. Moves(d) /\ pc'[d] = "over"
                BY <1>1, <2>1, GoneTask DEF Goto
            <3> QED BY <3>1 DEF UploadHolds
        <2>4. StoreKept
            BY <1>1, <2>1, <2>2, WithoutFacts DEF StoreKept, Without, Restrict
        <2> QED BY <1>1, <1>2, <2>1, <2>3, <2>4 DEF StoreKept
    <1> QED BY <1>3, <1>4, <1>5, <1>6, <1>7, <1>8, <1>9, <1>10 DEF Upload

LEMMA RemovalStep ==
    ASSUME Typed, DocumentsHold, phase = "up", Removal
    PROVE  Typed' /\ DocumentsHold' /\ DialogStands
    <1>1. /\ "remove" \in TaskIds /\ "remove" \notin Docs /\ job["remove"] \in Job
          /\ RemovalHolds /\ Tracked
          /\ rows \in [DOMAIN rows -> Statuses] /\ DOMAIN rows \subseteq Docs
          /\ files \subseteq DOMAIN rows /\ indexed \subseteq DOMAIN rows
        BY TasksApart DEF Typed, DocumentsHold, Tracked
    <1>2. ASSUME lock \in {"remove", Nobody}, Moves("remove"), OnlyStore, StoreKept, RemovalHolds'
          PROVE  Typed' /\ DocumentsHold' /\ DialogStands
        BY <1>1, <1>2, DocumentStep
    <1>3. ASSUME NEW d \in Docs, RemoveBegin(d) PROVE Typed' /\ DocumentsHold' /\ DialogStands
        <2> DEFINE j == [job["remove"] EXCEPT !.doc = d]
        <2>1. lock = Nobody /\ lock' = "remove" /\ Goto("remove", "vectors")
              /\ UNCHANGED store /\ OnlyStore /\ job' = [job EXCEPT !["remove"].doc = d]
            BY <1>3 DEF RemoveBegin, TakeLock
        <2>2. j \in Job /\ job' = [job EXCEPT !["remove"] = j]
            BY <1>1, <2>1 DEF Job
        <2> HIDE DEF j
        <2>3. Moves("remove") /\ RemovalHolds'
            <3>1. Moves("remove") /\ pc'["remove"] = "vectors"
                BY <1>1, <2>1, <2>2, MovedTask DEF Goto
            <3> QED BY <3>1, <2>1 DEF RemovalHolds
        <2> QED BY <1>1, <1>2, <2>1, <2>2, <2>3 DEF store, StoreKept
    <1>4. ASSUME lock = "remove", Goto("remove", "idle"), UNCHANGED job, OnlyStore, StoreKept
          PROVE  Typed' /\ DocumentsHold' /\ DialogStands
        <2>1. Moves("remove") /\ RemovalHolds'
            <3>1. Moves("remove") /\ pc'["remove"] = "idle"
                BY <1>1, <1>4, GoneTask DEF Goto
            <3> QED BY <3>1 DEF RemovalHolds
        <2> QED BY <1>1, <1>2, <1>4, <2>1 DEF StoreKept
    <1>5. ASSUME RemoveFails, UNCHANGED job, OnlyStore
          PROVE  Typed' /\ DocumentsHold' /\ DialogStands
        BY <1>1, <1>4, <1>5 DEF RemoveFails, DropLock, store, StoreKept
    <1>6. ASSUME RemoveVectors PROVE Typed' /\ DocumentsHold' /\ DialogStands
        <2>1. pc["remove"] = "vectors" /\ lock = "remove" /\ UNCHANGED job /\ OnlyStore
            BY <1>1, <1>6 DEF RemoveVectors, RemovalHolds
        <2>2. CASE indexed' = indexed \ {job["remove"].doc} /\ Goto("remove", "file")
                   /\ UNCHANGED <<rows, files, lock>>
            <3>1. Moves("remove") /\ RemovalHolds'
                <4>1. Moves("remove") /\ pc'["remove"] = "file"
                    BY <1>1, <2>1, <2>2, GoneTask DEF Goto
                <4> QED BY <4>1, <2>1, <2>2 DEF RemovalHolds
            <3> QED BY <1>1, <1>2, <2>1, <2>2, <3>1 DEF StoreKept
        <2> QED BY <1>5, <1>6, <2>1, <2>2 DEF RemoveVectors
    <1>7. ASSUME RemoveFile PROVE Typed' /\ DocumentsHold' /\ DialogStands
        <2>1. /\ pc["remove"] = "file" /\ lock = "remove" /\ UNCHANGED job /\ OnlyStore
              /\ job["remove"].doc \notin indexed
            BY <1>1, <1>7 DEF RemoveFile, RemovalHolds
        <2>2. CASE files' = files \ {job["remove"].doc} /\ Goto("remove", "row")
                   /\ UNCHANGED <<rows, indexed, lock>>
            <3>1. Moves("remove") /\ RemovalHolds'
                <4>1. Moves("remove") /\ pc'["remove"] = "row"
                    BY <1>1, <2>1, <2>2, GoneTask DEF Goto
                <4> QED BY <4>1, <2>1, <2>2 DEF RemovalHolds
            <3> QED BY <1>1, <1>2, <2>1, <2>2, <3>1 DEF StoreKept
        <2> QED BY <1>5, <1>7, <2>1, <2>2 DEF RemoveFile
    <1>8. ASSUME RemoveRow PROVE Typed' /\ DocumentsHold' /\ DialogStands
        <2>1. /\ pc["remove"] = "row" /\ lock = "remove" /\ Goto("remove", "idle")
              /\ UNCHANGED <<files, indexed, job>> /\ OnlyStore
              /\ rows' = Without(rows, {job["remove"].doc})
              /\ job["remove"].doc \notin indexed /\ job["remove"].doc \notin files
            BY <1>1, <1>8 DEF RemoveRow, DropLock, RemovalHolds
        <2>2. StoreKept
            BY <1>1, <2>1, WithoutFacts DEF StoreKept, Without, Restrict
        <2> QED BY <1>4, <2>1, <2>2
    <1> QED BY <1>3, <1>6, <1>7, <1>8 DEF Removal

-----------------------------------------------------------------------------
(***************************************************************************)
(* The dialog: a step of the task that has the turn, or takes it.          *)
(***************************************************************************)
LEMMA StoreStep ==
    ASSUME Typed, DocumentsHold, NEW t \in {"chat", "delete"}, Moves(t),
           UNCHANGED <<store, process>>,
           UNCHANGED lock \/ (t = "chat" /\ lock \in {"chat", Nobody}), SearchHolds'
    PROVE  DocumentsHold'
    <1>1. t \in TaskIds /\ t \notin Docs /\ t # "remove" /\ "remove" \in TaskIds
        BY TasksApart
    <1>2. Tracked'
        BY DEF DocumentsHold, Tracked, store, process
    <1>3. (\A d \in Docs : UploadHolds(d)') /\ RemovalHolds'
        <2>1. CASE UNCHANGED lock
            <3>1. ASSUME NEW d \in Docs PROVE UploadHolds(d)'
                <4>1. UploadHolds(d) /\ pc'[d] = pc[d] /\ job'[d] = job[d]
                    BY <1>1, TasksApart DEF DocumentsHold, Moves
                <4> QED BY <2>1, <4>1 DEF UploadHolds, store
            <3>2. RemovalHolds'
                BY <1>1, <2>1 DEF DocumentsHold, RemovalHolds, Moves, store
            <3> QED BY <3>1, <3>2
        <2>2. CASE t = "chat" /\ lock \in {"chat", Nobody}
            BY <1>1, <2>2, LockedStep DEF Moves
        <2> QED BY <2>1, <2>2
    <1> QED BY <1>2, <1>3 DEF DocumentsHold

LEMMA TypedStep ==
    ASSUME Typed, NEW t \in TaskIds, Moves(t), UNCHANGED <<process, store>>,
           segments' \in [DOMAIN segments' -> Statuses], DOMAIN segments' \subseteq Segments,
           archived' \subseteq Segments, messages' \subseteq Nat \ {0}, nextId' \in Nat \ {0},
           late' \subseteq Segments, landed' \subseteq Segments,
           dialog' \in BOOLEAN, session' \in BOOLEAN, touched' \in BOOLEAN
    PROVE  Typed'
    BY DEF Typed, Moves, process, store

\* What the watermark is: every segment that counts ends at or before it.
LEMMA WatermarkFacts ==
    ASSUME Typed, ArchiveHolds
    PROVE  /\ Watermark \in Nat /\ \A s \in ReadyOf(segments) : s[2] <= Watermark
           /\ \A m \in Nat \ {0} : m > Watermark <=> After(m)
    <1>1. Ends \subseteq Nat /\ ReadyOf(segments) \subseteq Segments
        BY DEF Ends, Typed, Segments, ReadyOf
    <1>2. Watermark \in Ends /\ \A e \in Ends : Watermark >= e
        BY DEF Watermark, Max, ArchiveHolds, Ends
    <1>3. \A s \in ReadyOf(segments) : s[2] \in Ends
        BY DEF Ends
    <1>4. Watermark = 0 \/ \E s \in ReadyOf(segments) : Watermark = s[2]
        BY <1>2 DEF Ends
    <1>5. Watermark \in Nat /\ \A s \in ReadyOf(segments) : s[2] \in Nat /\ s[2] <= Watermark
        BY <1>1, <1>2, <1>3
    <1>6. ASSUME NEW m \in Nat \ {0} PROVE m > Watermark <=> After(m)
        BY <1>4, <1>5 DEF After
    <1> QED BY <1>5, <1>6

\* The table and the archive stand: what is said of them still holds.
LEMMA TableFrame ==
    ASSUME DialogHolds, UNCHANGED <<table, memory, phase>>
    PROVE  ServedHold' /\ Numbered' /\ ArchiveHolds'
    BY DEF DialogHolds, ServedHold, Numbered, ArchiveHolds, Ends, After, ReadyOf, table, memory

\* While a chat has the turn, or takes it, no deletion is under way.
LEMMA ChatFrame ==
    ASSUME DialogHolds, phase = "up", Moves("chat"), UNCHANGED <<phase, demo, dialog>>,
           pc["chat"] # "idle" \/ (turn = Nobody /\ dialog),
           pc'["chat"] # "idle" => turn' = "chat"
    PROVE  dialog /\ TurnsHold' /\ DeletionHolds' /\ MappingHolds'
    <1>1. dialog /\ pc["delete"] = "idle"
        BY DEF DialogHolds, TurnsHold, Nobody
    <1>2. pc'["delete"] = "idle"
        BY <1>1, TasksApart DEF Moves
    <1>3. TurnsHold'
        BY <1>1, <1>2 DEF TurnsHold
    <1>4. DeletionHolds' /\ MappingHolds'
        BY <1>1, <1>2 DEF DeletionHolds, MappingHolds
    <1> QED BY <1>1, <1>3, <1>4

\* While a deletion has the turn, or takes it, no chat is under way.
LEMMA DeletionFrame ==
    ASSUME DialogHolds, Moves("delete"),
           pc["delete"] # "idle" \/ (turn = Nobody /\ dialog)
    PROVE  dialog /\ pc["chat"] = "idle" /\ pc'["chat"] = "idle" /\ BatchHolds'
    <1>1. dialog /\ pc["chat"] = "idle"
        BY DEF DialogHolds, TurnsHold, Nobody
    <1>2. pc'["chat"] = "idle"
        BY <1>1, TasksApart DEF Moves
    <1> QED BY <1>1, <1>2 DEF BatchHolds

Kept == Typed' /\ DocumentsHold' /\ DialogHolds'

TableTyped ==
    /\ segments' \in [DOMAIN segments' -> Statuses] /\ DOMAIN segments' \subseteq Segments
    /\ archived' \subseteq Segments /\ messages' \subseteq Nat \ {0} /\ nextId' \in Nat \ {0}
    /\ late' \subseteq Segments /\ landed' \subseteq Segments
    /\ dialog' \in BOOLEAN /\ session' \in BOOLEAN /\ touched' \in BOOLEAN

LEMMA TableStands ==
    ASSUME Typed, UNCHANGED <<table, memory>>
    PROVE  TableTyped
    BY DEF Typed, TableTyped, table, memory

LEMMA ChatStep ==
    ASSUME Typed, DocumentsHold, DialogHolds, phase = "up", Moves("chat"),
           UNCHANGED <<store, process, dialog>>,
           pc["chat"] # "idle" \/ (turn = Nobody /\ dialog),
           pc'["chat"] # "idle" => turn' = "chat",
           UNCHANGED lock \/ lock \in {"chat", Nobody}, SearchHolds',
           TableTyped, BatchHolds',
           UNCHANGED <<table, memory>> \/ (ServedHold' /\ Numbered' /\ ArchiveHolds')
    PROVE  Kept
    <1>1. "chat" \in TaskIds /\ UNCHANGED <<phase, demo>>
        BY TasksApart DEF process
    <1>2. Typed'
        BY <1>1, TypedStep DEF TableTyped
    <1>3. DocumentsHold'
        BY StoreStep
    <1>4. TurnsHold' /\ DeletionHolds' /\ MappingHolds'
        BY <1>1, ChatFrame
    <1>5. ServedHold' /\ Numbered' /\ ArchiveHolds'
        BY <1>1, TableFrame
    <1> QED BY <1>2, <1>3, <1>4, <1>5 DEF Kept, DialogHolds

\* A step of a chat outside of planning: it neither takes nor drops the lock
\* and has no search.
LEMMA ChatStepUnlocked ==
    ASSUME Typed, DocumentsHold, DialogHolds, phase = "up", Moves("chat"),
           UNCHANGED <<store, process, dialog, lock>>,
           pc["chat"] # "idle" \/ (turn = Nobody /\ dialog),
           pc'["chat"] # "idle" => turn' = "chat",
           pc'["chat"] \notin {"composing", "querying", "composed"},
           TableTyped,
           pc'["chat"] \notin {"storing", "stored"} \/ BatchHolds',
           UNCHANGED <<table, memory>> \/ (ServedHold' /\ Numbered' /\ ArchiveHolds')
    PROVE  Kept
    <1>1. SearchHolds'
        BY DEF SearchHolds
    <1>2. BatchHolds'
        BY DEF BatchHolds
    <1> QED BY <1>1, <1>2, ChatStep

LEMMA ChatTask == "chat" \in TaskIds /\ (Typed => job["chat"] \in Job)
    BY TasksApart DEF Typed

LEMMA PlanKeeps ==
    ASSUME Typed, DocumentsHold, DialogHolds, phase = "up", PlanBegin
    PROVE  Kept
    <1>1. pc["chat"] = "planning" /\ lock = Nobody /\ turn = "chat" /\ dialog
          /\ UNCHANGED <<process, table, store, memory>> /\ UNCHANGED <<store, process, dialog>>
        BY DEF PlanBegin, DialogHolds, TurnsHold, table
    <1>2. CASE ChatEnds /\ UNCHANGED <<job, lock>>
        <2>1. Moves("chat") /\ pc'["chat"] = "idle"
            BY <1>2, ChatTask, GoneTask DEF ChatEnds
        <2> QED BY <1>1, <1>2, <2>1, ChatStepUnlocked, TableStands
    <1>3. CASE /\ lock' = "chat" /\ UNCHANGED turn
               /\ Goto("chat", IF demo /\ Active THEN "composing" ELSE "querying")
               /\ job' = [job EXCEPT !["chat"].docs = SearchableDocs(rows),
                                     !["chat"].segs = SearchableSegs]
        <2> DEFINE j == [job["chat"] EXCEPT !.docs = SearchableDocs(rows), !.segs = SearchableSegs]
        <2>1. SearchableDocs(rows) = ReadyOf(rows) /\ SearchableSegs \subseteq ReadyOf(segments)
            BY DEF SearchableDocs, SearchableSegs
        <2>2. SearchableDocs(rows) \subseteq Docs /\ SearchableSegs \subseteq Segments
            BY <2>1 DEF Typed, ReadyOf
        <2>3. /\ j \in Job /\ job' = [job EXCEPT !["chat"] = j]
              /\ j.docs = SearchableDocs(rows) /\ j.segs = SearchableSegs
            BY <1>3, <2>2, ChatTask DEF Job
        <2> HIDE DEF j
        <2>4. Moves("chat") /\ pc'["chat"] \in {"composing", "querying"} /\ job'["chat"] = j
            <3>1. Moves("chat") /\ pc'["chat"] = IF demo /\ Active THEN "composing" ELSE "querying"
                BY <1>3, <2>3, ChatTask, MovedTask DEF Goto
            <3>2. job'["chat"] = j
                BY <2>3, ChatTask DEF Typed
            <3> QED BY <3>1, <3>2
        <2>5. UNCHANGED <<rows, segments>>
            BY <1>1 DEF store, table
        <2>6. SearchHolds'
            BY <1>3, <2>1, <2>3, <2>4, <2>5 DEF SearchHolds, ReadyOf
        <2>7. BatchHolds'
            BY <2>1, <2>3, <2>4, <2>5 DEF BatchHolds, ReadyOf
        <2> QED BY <1>1, <1>3, <2>4, <2>6, <2>7, ChatStep, TableStands
    <1> QED BY <1>2, <1>3 DEF PlanBegin

\* The end of a planning that fails, and what the search leaves behind.
LEMMA PlanFailsKeeps ==
    ASSUME Typed, DocumentsHold, DialogHolds, phase = "up", PlanFails,
           pc["chat"] \in {"composing", "querying", "composed"},
           UNCHANGED <<process, table, store, memory>>
    PROVE  Kept
    <1>1. lock = "chat" /\ turn = "chat" /\ dialog /\ UNCHANGED <<store, process, dialog>>
        BY DEF DialogHolds, TurnsHold, DocumentsHold, SearchHolds, table
    <1>2. Moves("chat") /\ pc'["chat"] = "idle"
        BY ChatTask, GoneTask DEF PlanFails, ChatEnds
    <1>3. SearchHolds' /\ BatchHolds'
        BY <1>2 DEF SearchHolds, BatchHolds
    <1> QED BY <1>1, <1>2, <1>3, ChatStep, TableStands

LEMMA SearchedTask ==
    ASSUME Typed, NEW resumed \in BOOLEAN, Searched(resumed), NEW to, Goto("chat", to)
    PROVE  /\ Moves("chat") /\ pc'["chat"] = to
           /\ job'["chat"].got = job["chat"].docs \intersect indexed
           /\ job'["chat"].gotSegs = job["chat"].segs \intersect archived
    <1> DEFINE j == [job["chat"] EXCEPT !.got = job["chat"].docs \intersect indexed,
                                        !.gotSegs = job["chat"].segs \intersect archived,
                                        !.resumed = resumed]
    <1>1. job["chat"].docs \subseteq Docs /\ job["chat"].segs \subseteq Segments
        BY ChatTask DEF Job
    <1>2. /\ j \in Job /\ job' = [job EXCEPT !["chat"] = j]
          /\ j.got = job["chat"].docs \intersect indexed
          /\ j.gotSegs = job["chat"].segs \intersect archived
        BY <1>1, ChatTask DEF Job, Searched
    <1> HIDE DEF j
    <1>3. job'["chat"] = j
        BY <1>2, ChatTask DEF Typed
    <1>4. Moves("chat") /\ pc'["chat"] = to
        BY <1>2, ChatTask, MovedTask DEF Goto
    <1> QED BY <1>2, <1>3, <1>4

LEMMA RetrieveKeeps ==
    ASSUME Typed, DocumentsHold, DialogHolds, phase = "up", Retrieve \/ Compose
    PROVE  Kept
    <1>1. /\ pc["chat"] \in {"composing", "querying"} /\ lock = "chat" /\ turn = "chat" /\ dialog
          /\ UNCHANGED <<process, table, store, memory>> /\ UNCHANGED <<store, process, dialog>>
        BY DEF Retrieve, Compose, DialogHolds, TurnsHold, DocumentsHold, SearchHolds, table
    <1>2. CASE PlanFails
        BY <1>1, <1>2, PlanFailsKeeps
    <1>3. CASE Searched(FALSE) /\ Goto("chat", "asking") /\ lock' = Nobody /\ UNCHANGED turn
        <2>1. Moves("chat") /\ pc'["chat"] = "asking"
            BY <1>3, SearchedTask
        <2>2. SearchHolds' /\ BatchHolds'
            BY <2>1 DEF SearchHolds, BatchHolds
        <2> QED BY <1>1, <1>3, <2>1, <2>2, ChatStep, TableStands
    <1>4. CASE Searched(TRUE) /\ Goto("chat", "composed") /\ UNCHANGED <<turn, lock>>
        <2>1. Moves("chat") /\ pc'["chat"] = "composed"
            BY <1>4, SearchedTask
        <2>2. SearchHolds' /\ BatchHolds'
            BY <1>1, <1>4, <2>1 DEF SearchHolds, BatchHolds
        <2> QED BY <1>1, <1>4, <2>1, <2>2, ChatStep, TableStands
    <1> QED BY <1>2, <1>3, <1>4 DEF Retrieve, Compose

LEMMA ConfirmKeeps ==
    ASSUME Typed, DocumentsHold, DialogHolds, phase = "up", Confirm
    PROVE  Kept
    <1>1. /\ pc["chat"] = "composed" /\ lock = "chat" /\ turn = "chat" /\ dialog
          /\ UNCHANGED <<process, table, store, memory>> /\ UNCHANGED <<store, process, dialog>>
        BY DEF Confirm, DialogHolds, TurnsHold, DocumentsHold, SearchHolds, table
    <1>2. CASE PlanFails
        BY <1>1, <1>2, PlanFailsKeeps
    <1>3. CASE Goto("chat", "asking") /\ lock' = Nobody /\ UNCHANGED <<turn, job>>
        <2>1. Moves("chat") /\ pc'["chat"] = "asking"
            BY <1>3, ChatTask, GoneTask DEF Goto
        <2>2. SearchHolds' /\ BatchHolds'
            BY <2>1 DEF SearchHolds, BatchHolds
        <2> QED BY <1>1, <1>3, <2>1, <2>2, ChatStep, TableStands
    <1> QED BY <1>2, <1>3 DEF Confirm

LEMMA AppendKeeps ==
    ASSUME Typed, DialogHolds, dialog, Append1, UNCHANGED <<memory, phase>>
    PROVE  TableTyped /\ ServedHold' /\ Numbered' /\ ArchiveHolds'
    <1>1. /\ messages' = messages \union {nextId} /\ nextId' = nextId + 1
          /\ UNCHANGED <<dialog, segments, touched, archived, session, late, landed, phase>>
        BY DEF Append1, memory
    <1>2. nextId \in Nat \ {0} /\ messages \subseteq Nat \ {0}
        BY DEF Typed
    <1>3. TableTyped
        BY <1>1, <1>2 DEF TableTyped, Typed
    <1>4. ServedHold'
        BY <1>1 DEF ServedHold, DialogHolds
    <1>5. Numbered'
        <2>1. \A m \in messages : m < nextId /\ m \in Nat
            BY <1>2 DEF DialogHolds, Numbered
        <2>2. \A s \in DOMAIN segments : s[2] < nextId /\ s[2] \in Nat
            BY DEF DialogHolds, Numbered, Typed, Segments
        <2>3. \A m \in messages' : m < nextId'
            BY <1>1, <1>2, <2>1
        <2>4. \A s \in DOMAIN segments' : s[2] < nextId'
            BY <1>1, <1>2, <2>2
        <2> QED BY <2>3, <2>4 DEF Numbered
    <1>6. ArchiveHolds'
        <2>1. After(nextId) /\ UNCHANGED <<segments, archived, touched>>
            BY <1>1 DEF DialogHolds, Numbered, After, ReadyOf
        <2>2. \A m \in messages' : After(m)' \/ \E s \in ReadyOf(segments)' : m \in s[1]..s[2]
            BY <1>1, <2>1 DEF DialogHolds, ArchiveHolds, After, ReadyOf
        <2> QED BY <2>1, <2>2 DEF DialogHolds, ArchiveHolds, Ends, ReadyOf
    <1> QED BY <1>3, <1>4, <1>5, <1>6

LEMMA AskKeeps ==
    ASSUME Typed, DocumentsHold, DialogHolds, phase = "up", ChatBegin \/ Ask \/ Answer
    PROVE  Kept
    <1>1. CASE ChatBegin
        <2>1. /\ turn = Nobody /\ dialog /\ turn' = "chat"
              /\ UNCHANGED <<table, memory>> /\ UNCHANGED <<store, process, dialog, lock>>
            BY <1>1 DEF ChatBegin, table
        <2>2. Moves("chat") /\ pc'["chat"] = "planning"
            BY <1>1, ChatTask, GoneTask DEF ChatBegin, Goto
        <2> QED BY <2>1, <2>2, ChatStepUnlocked, TableStands
    <1>2. ASSUME pc["chat"] \in {"asking", "answering"}, Append1, UNCHANGED <<process, store, memory, lock>>,
                 Moves("chat"), pc'["chat"] \in {"answering", "archiving", "idle"},
                 pc'["chat"] # "idle" => UNCHANGED turn
          PROVE  Kept
        <2>1. turn = "chat" /\ dialog
            BY <1>2 DEF DialogHolds, TurnsHold
        <2>2. UNCHANGED <<store, process, dialog, lock>> /\ UNCHANGED <<memory, phase>>
            BY <1>2 DEF Append1, process
        <2>3. TableTyped /\ ServedHold' /\ Numbered' /\ ArchiveHolds'
            BY <1>2, <2>1, <2>2, AppendKeeps
        <2> QED BY <1>2, <2>1, <2>2, <2>3, ChatStepUnlocked
    <1>3. CASE Ask
        <2>1. Moves("chat") /\ pc'["chat"] = "answering"
            BY <1>3, ChatTask, GoneTask DEF Ask, Goto
        <2> QED BY <1>2, <1>3, <2>1 DEF Ask, locks
    <1>4. CASE Answer
        <2>1. pc["chat"] = "answering" /\ UNCHANGED <<process, store, memory, lock, job>>
            BY <1>4 DEF Answer
        <2>2. CASE ChatEnds
            <3>1. Moves("chat") /\ pc'["chat"] = "idle"
                BY <2>1, <2>2, ChatTask, GoneTask DEF ChatEnds
            <3>2. CASE Append1
                BY <1>2, <2>1, <3>1, <3>2
            <3>3. CASE UNCHANGED table
                <4>1. UNCHANGED <<table, memory>> /\ UNCHANGED <<store, process, dialog, lock>>
                    BY <2>1, <3>3 DEF table
                <4> QED BY <2>1, <3>1, <4>1, ChatStepUnlocked, TableStands
            <3> QED BY <1>4, <3>2, <3>3 DEF Answer
        <2>3. CASE Append1 /\ Goto("chat", "archiving") /\ UNCHANGED turn
            <3>1. Moves("chat") /\ pc'["chat"] = "archiving"
                BY <2>1, <2>3, ChatTask, GoneTask DEF Goto
            <3> QED BY <1>2, <2>1, <2>3, <3>1
        <2> QED BY <1>4, <2>2, <2>3 DEF Answer
    <1> QED BY <1>1, <1>3, <1>4

\* A new batch is of no segment that counts, and starts with the oldest
\* message that none of them covers.
LEMMA BatchFacts ==
    ASSUME Typed, ArchiveHolds, NEW b \in Batches
    PROVE  /\ b \in Segments /\ b[1] <= b[2] /\ b[2] \in messages /\ b \notin ReadyOf(segments)
           /\ After(b[1]) /\ \A m \in messages : After(m) => b[1] <= m
    <1>1. b \in Segments /\ b[1] \in Unarchived /\ b[2] \in Unarchived
          /\ \A m \in Unarchived : b[1] <= m
        BY DEF Batches
    <1>2. b[1] \in Nat \ {0} /\ b[2] \in Nat \ {0} /\ b[1] <= b[2]
        BY <1>1 DEF Segments
    <1>3. \A m \in messages : m \in Unarchived <=> After(m)
        BY WatermarkFacts DEF Unarchived, Typed
    <1>4. b[1] \in messages /\ b[2] \in messages
        BY <1>1 DEF Unarchived
    <1>5. After(b[1]) /\ After(b[2]) /\ \A m \in messages : After(m) => b[1] <= m
        BY <1>1, <1>3, <1>4
    <1>6. b \notin ReadyOf(segments)
        BY <1>2, <1>5 DEF After
    <1> QED BY <1>1, <1>2, <1>4, <1>5, <1>6

LEMMA ArchiveBeginKeeps ==
    ASSUME Typed, DocumentsHold, DialogHolds, phase = "up", ArchiveBegin
    PROVE  Kept
    <1>1. /\ pc["chat"] = "archiving" /\ turn = "chat" /\ dialog
          /\ UNCHANGED <<messages, nextId, touched, archived, session, late, landed>>
          /\ UNCHANGED memory /\ UNCHANGED <<store, process, dialog, lock>>
        BY DEF ArchiveBegin, DialogHolds, TurnsHold, memory
    <1>2. CASE ChatEnds /\ UNCHANGED <<segments, job>>
        <2>1. Moves("chat") /\ pc'["chat"] = "idle"
            BY <1>2, ChatTask, GoneTask DEF ChatEnds
        <2>2. UNCHANGED <<table, memory>>
            BY <1>1, <1>2 DEF table
        <2> QED BY <1>1, <2>1, <2>2, ChatStepUnlocked, TableStands
    <1>3. ASSUME NEW b \in Batches, segments' = Put(segments, b, "pending"),
                 job' = [job EXCEPT !["chat"].batch = b], Goto("chat", "storing"), UNCHANGED turn
          PROVE  Kept
        <2> DEFINE j == [job["chat"] EXCEPT !.batch = b]
        <2>1. /\ b \in Segments /\ b[1] <= b[2] /\ b[2] \in messages /\ b \notin ReadyOf(segments)
              /\ After(b[1]) /\ \A m \in messages : After(m) => b[1] <= m
            BY BatchFacts DEF DialogHolds
        <2>2. b \in Nat \X Nat
            BY <2>1 DEF Segments
        <2>3. j \in Job /\ job' = [job EXCEPT !["chat"] = j] /\ j.batch = b
            BY <1>3, <2>2, ChatTask DEF Job
        <2> HIDE DEF j
        <2>4. Moves("chat") /\ pc'["chat"] = "storing" /\ job'["chat"] = j
            <3>1. Moves("chat") /\ pc'["chat"] = "storing"
                BY <1>3, <2>3, ChatTask, MovedTask DEF Goto
            <3>2. job'["chat"] = j
                BY <2>3, ChatTask DEF Typed
            <3> QED BY <3>1, <3>2
        <2>5. /\ DOMAIN segments' = DOMAIN segments \union {b}
              /\ segments' \in [DOMAIN segments' -> Statuses]
              /\ segments'[b] = "pending" /\ \A s \in DOMAIN segments \ {b} : segments'[s] = segments[s]
            BY <1>3 DEF Put, Typed, Statuses
        <2>6. ReadyOf(segments') = ReadyOf(segments)
            BY <2>1, <2>5 DEF ReadyOf
        <2>7. TableTyped
            BY <1>1, <2>1, <2>5 DEF TableTyped, Typed
        <2>8. ServedHold'
            BY <1>1, <2>5 DEF DialogHolds, ServedHold, process
        <2>9. Numbered'
            <3>1. b[2] < nextId
                BY <2>1 DEF DialogHolds, Numbered
            <3> QED BY <1>1, <2>5, <3>1 DEF DialogHolds, Numbered
        <2>10. ArchiveHolds'
            BY <1>1, <2>6 DEF DialogHolds, ArchiveHolds, Ends, After
        <2>11. BatchHolds'
            <3>1. After(b[1])' /\ \A m \in messages' : After(m)' => b[1] <= m
                BY <1>1, <2>1, <2>6 DEF After
            <3> QED BY <2>1, <2>3, <2>4, <2>5, <3>1 DEF BatchHolds
        <2> QED BY <1>1, <1>3, <2>4, <2>7, <2>8, <2>9, <2>10, <2>11, ChatStepUnlocked
    <1> QED BY <1>2, <1>3 DEF ArchiveBegin

LEMMA ArchiveStoreKeeps ==
    ASSUME Typed, DocumentsHold, DialogHolds, phase = "up", ArchiveStore
    PROVE  Kept
    <1>1. /\ pc["chat"] = "storing" /\ turn = "chat" /\ dialog
          /\ UNCHANGED <<table, session, job>> /\ UNCHANGED <<store, process, dialog, lock>>
          /\ UNCHANGED <<dialog, messages, nextId, segments, touched, phase>>
          /\ job["chat"].batch \in DOMAIN segments /\ BatchHolds
        BY DEF ArchiveStore, DialogHolds, TurnsHold, BatchHolds, table, process
    <1>2. CASE ChatEnds /\ UNCHANGED <<archived, landed>>
               /\ late' \in {late, late \union {job["chat"].batch}}
        <2>1. Moves("chat") /\ pc'["chat"] = "idle"
            BY <1>1, <1>2, ChatTask, GoneTask DEF ChatEnds
        <2>2. TableTyped
            BY <1>1, <1>2 DEF TableTyped, Typed
        <2>3. ServedHold' /\ Numbered' /\ ArchiveHolds'
            BY <1>1, <1>2 DEF DialogHolds, ServedHold, Numbered, ArchiveHolds, Ends, After, ReadyOf
        <2> QED BY <1>1, <2>1, <2>2, <2>3, ChatStepUnlocked
    <1>3. CASE /\ archived' = archived \union {job["chat"].batch} /\ Goto("chat", "stored")
               /\ landed' = landed \ {job["chat"].batch} /\ UNCHANGED <<turn, late>>
        <2>1. Moves("chat") /\ pc'["chat"] = "stored"
            BY <1>1, <1>3, ChatTask, GoneTask DEF Goto
        <2>3. TableTyped
            BY <1>1, <1>3 DEF TableTyped, Typed
        <2>4. ServedHold' /\ Numbered' /\ ArchiveHolds'
            <3>1. ServedHold' /\ Numbered'
                BY <1>1, <1>3 DEF DialogHolds, ServedHold, Numbered, process
            <3>2. ArchiveHolds /\ archived \subseteq archived'
                BY <1>3 DEF DialogHolds
            <3> QED BY <1>1, <3>1, <3>2 DEF ArchiveHolds, Ends, After, ReadyOf
        <2>5. BatchHolds'
            BY <1>1, <1>3, <2>1 DEF BatchHolds, After
        <2> QED BY <1>1, <1>3, <2>1, <2>3, <2>4, <2>5, ChatStepUnlocked
    <1> QED BY <1>2, <1>3 DEF ArchiveStore

LEMMA ArchiveReadyKeeps ==
    ASSUME Typed, DocumentsHold, DialogHolds, phase = "up", ArchiveReady
    PROVE  Kept
    <1> DEFINE b == job["chat"].batch
    <1>1. /\ pc["chat"] = "stored" /\ turn = "chat" /\ dialog
          /\ UNCHANGED <<messages, nextId, touched, archived, session, late, landed>>
          /\ UNCHANGED memory /\ UNCHANGED <<store, process, dialog, lock>>
          /\ segments' = [segments EXCEPT ![b] = "ready"]
        BY DEF ArchiveReady, DialogHolds, TurnsHold, memory
    <1>2. Moves("chat") /\ pc'["chat"] = "idle"
        BY ChatTask, GoneTask DEF ArchiveReady, ChatEnds
    <1>3. /\ b \in DOMAIN segments /\ After(b[1]) /\ b[1] <= b[2]
          /\ \A m \in messages : After(m) => b[1] <= m
          /\ touched \/ b \in archived
        BY <1>1 DEF DialogHolds, BatchHolds
    <1>4. b \in Segments /\ b[1] \in Nat \ {0} /\ b[2] \in Nat \ {0}
          /\ ReadyOf(segments) \subseteq Segments /\ messages \subseteq Nat \ {0}
        BY <1>3 DEF Typed, Segments, ReadyOf
    <1> HIDE DEF b
    <1>5. /\ DOMAIN segments' = DOMAIN segments /\ segments' \in [DOMAIN segments' -> Statuses]
          /\ ReadyOf(segments') = ReadyOf(segments) \union {b}
        BY <1>1, <1>3 DEF Typed, Statuses, ReadyOf
    <1>6. TableTyped
        BY <1>1, <1>5 DEF TableTyped, Typed
    <1>7. ServedHold' /\ Numbered'
        BY <1>1, <1>5 DEF DialogHolds, ServedHold, Numbered, process
    <1>8. \A s \in ReadyOf(segments) : s[2] \in Nat /\ s[1] \in Nat /\ s[2] < b[1] /\ s[2] < b[2]
        BY <1>3, <1>4 DEF After, Segments
    <1>9. ArchiveHolds'
        <2>1. touched' \/ ReadyOf(segments') \subseteq archived'
            BY <1>1, <1>3, <1>5 DEF DialogHolds, ArchiveHolds
        <2>2. \A s, t \in ReadyOf(segments') : s = t \/ s[2] < t[1] \/ t[2] < s[1]
            BY <1>5, <1>8 DEF DialogHolds, ArchiveHolds
        <2>3. ASSUME NEW m \in messages'
              PROVE  (\A s \in ReadyOf(segments') : s[2] < m)
                     \/ \E s \in ReadyOf(segments') : m \in s[1]..s[2]
            <3>1. m \in messages /\ m \in Nat
                BY <1>1, <1>4, <2>3
            <3>2. CASE After(m)
                <4>1. b[1] <= m /\ (m <= b[2] \/ b[2] < m)
                    BY <1>3, <1>4, <3>1, <3>2
                <4>2. m <= b[2] => m \in b[1]..b[2]
                    BY <1>4, <3>1, <4>1
                <4> QED BY <1>5, <3>2, <4>1, <4>2 DEF After
            <3> QED BY <1>5, <3>1, <3>2 DEF DialogHolds, ArchiveHolds
        <2>4. \E w \in Ends' : \A e \in Ends' : w >= e
            <3>1. Ends' = Ends \union {b[2]} /\ \A e \in Ends : b[2] >= e
                BY <1>4, <1>5, <1>8 DEF Ends
            <3> QED BY <1>4, <3>1
        <2> QED BY <2>1, <2>2, <2>3, <2>4 DEF ArchiveHolds, After
    <1> QED BY <1>1, <1>2, <1>6, <1>7, <1>9, ChatStepUnlocked

LEMMA ChatKeeps ==
    ASSUME Typed, DocumentsHold, DialogHolds, phase = "up", Chat
    PROVE  Kept
    BY PlanKeeps, RetrieveKeeps, ConfirmKeeps, AskKeeps, ArchiveBeginKeeps, ArchiveStoreKeeps, ArchiveReadyKeeps
       DEF Chat

-----------------------------------------------------------------------------
(***************************************************************************)
(* The deletion.                                                           *)
(***************************************************************************)
LEMMA DeletionStep ==
    ASSUME Typed, DocumentsHold, DialogHolds, phase = "up", Moves("delete"),
           UNCHANGED <<store, process, lock>>,
           pc["delete"] # "idle" \/ (turn = Nobody /\ dialog),
           pc'["delete"] # "idle" => turn' = "delete" /\ UNCHANGED dialog,
           TableTyped, DeletionHolds', MappingHolds',
           UNCHANGED <<table, memory>> \/ (ServedHold' /\ Numbered' /\ ArchiveHolds')
    PROVE  Kept
    <1>1. "delete" \in TaskIds /\ UNCHANGED <<phase, demo>>
        BY TasksApart DEF process
    <1>2. dialog /\ pc["chat"] = "idle" /\ pc'["chat"] = "idle" /\ BatchHolds'
        BY DeletionFrame
    <1>3. TurnsHold' /\ SearchHolds'
        BY <1>2 DEF TurnsHold, SearchHolds
    <1>4. Typed'
        BY <1>1, TypedStep DEF TableTyped
    <1>5. DocumentsHold'
        BY <1>3, StoreStep
    <1>6. ServedHold' /\ Numbered' /\ ArchiveHolds'
        BY <1>1, TableFrame
    <1> QED BY <1>2, <1>3, <1>4, <1>5, <1>6 DEF Kept, DialogHolds

LEMMA DeleteTask ==
    "delete" \in TaskIds /\ (Typed => job["delete"] \in Job)
    BY TasksApart DEF Typed

LEMMA CloseKeeps ==
    ASSUME Typed, DocumentsHold, DialogHolds, phase = "up", CloseBinding
    PROVE  Kept
    <1>1. /\ pc["delete"] \in {"closing", "forgetting", "finishing", "listing"}
          /\ turn = "delete" /\ dialog /\ MappingHolds
          /\ UNCHANGED <<table, memory>> /\ UNCHANGED <<store, process, lock>>
          /\ UNCHANGED <<dialog, demo, phase>>
        BY DEF CloseBinding, CloseBegin, CloseForget, CloseFinish, DeleteList, DialogHolds,
               TurnsHold, table, locks, process
    <1>2. TableTyped
        BY <1>1, TableStands
    <1>3. ASSUME Moves("delete"), pc'["delete"] \in {"forgetting", "finishing", "listing", "idle"},
                 pc'["delete"] = "listing" => binding' = NoRow,
                 pc'["delete"] # "idle" => UNCHANGED turn
          PROVE  Kept
        <2>1. DeletionHolds' /\ MappingHolds'
            BY <1>1, <1>3 DEF DeletionHolds, MappingHolds
        <2> QED BY <1>1, <1>2, <1>3, <2>1, DeletionStep
    <1>4. ASSUME DeleteFails, UNCHANGED job PROVE Kept
        <2>1. Moves("delete") /\ pc'["delete"] = "idle"
            BY <1>4, DeleteTask, GoneTask DEF DeleteFails, Goto
        <2> QED BY <1>3, <2>1
    <1>5. CASE CloseBegin
        <2>1. UNCHANGED job
            BY <1>5 DEF CloseBegin
        <2>2. CASE DeleteFails
            BY <1>4, <2>1, <2>2
        <2>3. CASE binding = NoRow /\ Goto("delete", "listing") /\ UNCHANGED <<turn, binding>>
            <3>1. Moves("delete") /\ pc'["delete"] = "listing"
                BY <2>1, <2>3, DeleteTask, GoneTask DEF Goto
            <3> QED BY <1>3, <2>3, <3>1
        <2>4. CASE Goto("delete", "forgetting") /\ UNCHANGED turn
            <3>1. Moves("delete") /\ pc'["delete"] = "forgetting"
                BY <2>1, <2>4, DeleteTask, GoneTask DEF Goto
            <3> QED BY <1>3, <2>4, <3>1
        <2> QED BY <1>5, <2>2, <2>3, <2>4 DEF CloseBegin
    <1>6. CASE CloseForget
        <2>1. UNCHANGED job
            BY <1>6 DEF CloseForget
        <2>2. CASE Goto("delete", "finishing") /\ UNCHANGED turn
            <3>1. Moves("delete") /\ pc'["delete"] = "finishing"
                BY <2>1, <2>2, DeleteTask, GoneTask DEF Goto
            <3> QED BY <1>3, <2>2, <3>1
        <2> QED BY <1>4, <1>6, <2>1, <2>2 DEF CloseForget
    <1>7. CASE CloseFinish
        <2>1. Moves("delete") /\ pc'["delete"] = "listing"
            BY <1>7, DeleteTask, GoneTask DEF CloseFinish, Goto
        <2> QED BY <1>3, <1>7, <2>1 DEF CloseFinish, locks
    <1>8. CASE DeleteList
        <2> DEFINE j == [job["delete"] EXCEPT !.doomed = DOMAIN segments \union archived]
        <2>1. pc["delete"] = "listing" /\ UNCHANGED <<binding, archived, landed, turn>>
            BY <1>8 DEF DeleteList, host, memory, locks
        <2>2. j \in Job /\ job' = [job EXCEPT !["delete"] = j] /\ archived \subseteq j.doomed
            BY <1>8, DeleteTask DEF DeleteList, Job, Typed
        <2> HIDE DEF j
        <2>3. Moves("delete") /\ pc'["delete"] = "erasing" /\ job'["delete"] = j
            <3>1. Moves("delete") /\ pc'["delete"] = "erasing"
                BY <1>8, <2>2, DeleteTask, MovedTask DEF DeleteList, Goto
            <3>2. job'["delete"] = j
                BY <2>2, DeleteTask DEF Typed
            <3> QED BY <3>1, <3>2
        <2>4. DeletionHolds' /\ MappingHolds'
            BY <1>1, <2>1, <2>2, <2>3 DEF DeletionHolds, MappingHolds
        <2> QED BY <1>1, <1>2, <2>1, <2>3, <2>4, DeletionStep
    <1> QED BY <1>5, <1>6, <1>7, <1>8 DEF CloseBinding

LEMMA EraseKeeps ==
    ASSUME Typed, DocumentsHold, DialogHolds, phase = "up", Delete
    PROVE  Kept
    <1>1. CASE DeleteBegin
        <2>1. /\ turn = Nobody /\ dialog /\ turn' = "delete" /\ UNCHANGED job
              /\ UNCHANGED <<table, memory>> /\ UNCHANGED <<store, process, lock>>
              /\ UNCHANGED <<dialog, demo, phase>>
            BY <1>1 DEF DeleteBegin, table, process
        <2>2. Moves("delete") /\ pc'["delete"] = IF demo THEN "closing" ELSE "listing"
            BY <1>1, <2>1, DeleteTask, GoneTask DEF DeleteBegin, Goto
        <2>3. DeletionHolds' /\ MappingHolds'
            BY <2>1, <2>2 DEF DeletionHolds, MappingHolds
        <2> QED BY <2>1, <2>2, <2>3, DeletionStep, TableStands
    \* The steps that erase, and what they share.
    <1>2. ASSUME pc["delete"] \in {"erasing", "erased"}
          PROVE  /\ turn = "delete" /\ dialog /\ (demo => binding = NoRow)
                 /\ pc["delete"] = "erasing" => archived \subseteq job["delete"].doomed \union landed
                 /\ pc["delete"] = "erased" => archived \subseteq landed /\ ~session
        BY <1>2 DEF DialogHolds, TurnsHold, MappingHolds, DeletionHolds
    <1>3. ASSUME pc["delete"] = "erasing", DeleteFails, UNCHANGED <<table, memory, store, process, lock, job>>
          PROVE  Kept
        <2>1. Moves("delete") /\ pc'["delete"] = "idle"
            BY <1>3, DeleteTask, GoneTask DEF DeleteFails, Goto
        <2>2. UNCHANGED <<dialog, demo, phase>> /\ dialog /\ UNCHANGED <<table, memory>>
              /\ UNCHANGED <<store, process, lock>>
            BY <1>2, <1>3 DEF table, process
        <2>3. DeletionHolds' /\ MappingHolds'
            BY <2>1, <2>2 DEF DeletionHolds, MappingHolds
        <2> QED BY <1>3, <2>1, <2>2, <2>3, DeletionStep, TableStands
    <1>4. CASE DeleteVector
        <2>1. /\ pc["delete"] = "erasing" /\ UNCHANGED <<host, process, store, lock>>
              /\ UNCHANGED <<dialog, messages, nextId, segments, session, late>>
              /\ UNCHANGED <<dialog, demo, phase, binding>> /\ UNCHANGED <<store, process, lock>>
            BY <1>4 DEF DeleteVector, host, process
        <2>2. ASSUME NEW s, archived' = archived \ {s}, landed' = landed \ {s}, touched' = TRUE,
                     UNCHANGED <<turn, pc>>,
                     job' = [job EXCEPT !["delete"].doomed = job["delete"].doomed \ {s}]
              PROVE  Kept
            <3> DEFINE j == [job["delete"] EXCEPT !.doomed = job["delete"].doomed \ {s}]
            <3>1. j \in Job /\ job' = [job EXCEPT !["delete"] = j]
                  /\ j.doomed = job["delete"].doomed \ {s}
                BY <2>2, DeleteTask DEF Job
            <3> HIDE DEF j
            <3>2. Moves("delete") /\ pc'["delete"] = "erasing" /\ job'["delete"] = j
                BY <2>1, <2>2, <3>1, DeleteTask DEF Moves, Typed
            <3>3. TableTyped
                BY <2>1, <2>2 DEF TableTyped, Typed
            <3>4. DeletionHolds' /\ MappingHolds'
                BY <1>2, <2>1, <2>2, <3>1, <3>2 DEF DeletionHolds, MappingHolds
            <3>5. ServedHold' /\ Numbered'
                BY <2>1, <2>2 DEF DialogHolds, ServedHold, Numbered
            <3>6. ArchiveHolds'
                BY <2>1, <2>2 DEF DialogHolds, ArchiveHolds, Ends, After, ReadyOf
            <3> QED BY <1>2, <2>1, <2>2, <3>2, <3>3, <3>4, <3>5, <3>6, DeletionStep
        <2>3. ASSUME DeleteFails, UNCHANGED <<archived, landed, job, touched>> PROVE Kept
            BY <1>3, <2>1, <2>3 DEF table, memory
        <2> QED BY <1>4, <2>2, <2>3 DEF DeleteVector
    <1>5. CASE DeleteSession
        <2>1. /\ pc["delete"] = "erasing" /\ archived \subseteq landed
              /\ UNCHANGED <<host, process, table, store, archived, late, landed, lock, job>>
              /\ UNCHANGED <<dialog, demo, phase, binding>> /\ UNCHANGED <<store, process, lock>>
            BY <1>2, <1>5 DEF DeleteSession, host, process, table
        <2>2. CASE session' = FALSE /\ Goto("delete", "erased") /\ UNCHANGED turn
            <3>1. Moves("delete") /\ pc'["delete"] = "erased"
                BY <2>1, <2>2, DeleteTask, GoneTask DEF Goto
            <3>2. UNCHANGED <<messages, nextId, segments, touched>>
                BY <2>1 DEF table
            <3>3. TableTyped
                BY <2>1, <2>2, <3>2 DEF TableTyped, Typed
            <3>4. DeletionHolds' /\ MappingHolds'
                BY <1>2, <2>1, <2>2, <3>1 DEF DeletionHolds, MappingHolds
            <3>5. ServedHold' /\ Numbered'
                BY <2>1, <2>2, <3>2 DEF DialogHolds, ServedHold, Numbered
            <3>6. ArchiveHolds'
                BY <2>1, <2>2, <3>2 DEF DialogHolds, ArchiveHolds, Ends, After, ReadyOf
            <3> QED BY <1>2, <2>1, <2>2, <3>1, <3>3, <3>4, <3>5, <3>6, DeletionStep
        <2>3. ASSUME DeleteFails, UNCHANGED session PROVE Kept
            BY <1>3, <2>1, <2>3 DEF memory
        <2> QED BY <1>5, <2>2, <2>3 DEF DeleteSession
    <1>6. CASE DeleteDialog
        <2>1. /\ pc["delete"] = "erased" /\ archived \subseteq landed /\ ~session
              /\ dialog' = FALSE /\ messages' = {} /\ segments' = <<>> /\ touched' = FALSE
              /\ UNCHANGED <<host, process, nextId, store, memory, lock, job>>
              /\ UNCHANGED <<demo, phase, binding, archived, session, late, landed>>
              /\ UNCHANGED <<store, process, lock>>
            BY <1>2, <1>6 DEF DeleteDialog, VectorsErased, host, process, memory
        <2>2. Moves("delete") /\ pc'["delete"] = "idle"
            BY <1>6, <2>1, DeleteTask, GoneTask DEF DeleteDialog, DeleteFails, Goto
        <2>3. /\ DOMAIN segments' = {} /\ segments' \in [DOMAIN segments' -> Statuses]
              /\ ReadyOf(segments') = {}
            BY <2>1, EmptyTable
        <2>4. TableTyped
            BY <2>1, <2>3 DEF TableTyped, Typed
        <2>5. DeletionHolds' /\ MappingHolds'
            BY <1>2, <2>1, <2>2 DEF DeletionHolds, MappingHolds
        <2>6. ServedHold' /\ Numbered'
            BY <2>1, <2>3 DEF ServedHold, Numbered
        <2>7. ArchiveHolds'
            <3>1. Ends' = {0}
                BY <2>3 DEF Ends
            <3> QED BY <2>1, <2>3, <3>1 DEF ArchiveHolds
        <2> QED BY <1>2, <2>1, <2>2, <2>4, <2>5, <2>6, <2>7, DeletionStep
    <1> QED BY <1>1, <1>4, <1>5, <1>6 DEF Delete

\* The host may close a mapping, never open one.
LEMMA HostCloseKeeps ==
    ASSUME Typed, DocumentsHold, DialogHolds, phase = "up", HostCloses
    PROVE  Kept
    <1>1. /\ pc["chat"] \in {"composing", "composed"}
          /\ UNCHANGED <<process, table, store, memory, locks, pc, job>>
          /\ UNCHANGED <<phase, demo, interval, dialog, messages, nextId, segments, touched, rows,
                         files, indexed, archived, session, late, landed, turn, lock>>
        BY DEF HostCloses, process, table, store, memory, locks
    <1>2. dialog /\ pc["delete"] = "idle"
        BY <1>1 DEF DialogHolds, TurnsHold
    <1>3. Typed' /\ DocumentsHold'
        BY <1>1 DEF Typed, DocumentsHold, UploadHolds, RemovalHolds, SearchHolds, Tracked, ReadyOf
    <1>4. MappingHolds'
        BY <1>1, <1>2 DEF MappingHolds
    <1>5. TurnsHold' /\ DeletionHolds' /\ ServedHold' /\ BatchHolds' /\ Numbered' /\ ArchiveHolds'
        BY <1>1 DEF DialogHolds, TurnsHold, DeletionHolds, ServedHold, BatchHolds, Numbered,
                    ArchiveHolds, Ends, After, ReadyOf
    <1> QED BY <1>3, <1>4, <1>5 DEF Kept, DialogHolds

\* A request about documents leaves the dialog as it stands.
LEMMA DocumentsKeep ==
    ASSUME Typed, DocumentsHold, DialogHolds, phase = "up",
           (\E d \in Docs : Upload(d)) \/ Removal
    PROVE  Kept
    <1>1. Typed' /\ DocumentsHold' /\ DialogStands
        BY UploadStep, RemovalStep
    <1>2. /\ UNCHANGED <<binding, phase, demo, dialog, messages, nextId, segments, touched,
                         archived, session, late, landed, turn>>
          /\ pc'["chat"] = pc["chat"] /\ job'["chat"] = job["chat"]
          /\ pc'["delete"] = pc["delete"] /\ job'["delete"] = job["delete"]
          /\ pc'["start"] = pc["start"]
        BY <1>1 DEF DialogStands, host, process, table, memory
    <1>3. TurnsHold' /\ DeletionHolds' /\ ServedHold' /\ MappingHolds' /\ Numbered'
        BY <1>2 DEF DialogHolds, TurnsHold, DeletionHolds, ServedHold, MappingHolds, Numbered
    <1>4. BatchHolds' /\ ArchiveHolds'
        BY <1>2 DEF DialogHolds, BatchHolds, ArchiveHolds, Ends, After, ReadyOf
    <1> QED BY <1>1, <1>3, <1>4 DEF Kept, DialogHolds

\* A cancelled add writes its vector, whatever was done since.
LEMMA LateAddKeeps ==
    ASSUME Typed, DocumentsHold, DialogHolds, LateAdd
    PROVE  Kept
    <1> PICK s \in late : /\ archived' = archived \union {s} /\ landed' = landed \union {s}
                          /\ late' = late \ {s}
        BY DEF LateAdd
    <1>1. UNCHANGED <<binding, phase, demo, interval, dialog, messages, nextId, segments, touched,
                      rows, files, indexed, session, turn, lock, pc, job>>
        BY DEF LateAdd, host, process, table, store, locks
    <1>2. Typed'
        BY <1>1 DEF Typed
    <1>3. DocumentsHold'
        BY <1>1 DEF DocumentsHold, UploadHolds, RemovalHolds, SearchHolds, Tracked, ReadyOf
    <1>4. TurnsHold' /\ DeletionHolds' /\ ServedHold' /\ MappingHolds' /\ Numbered'
        BY <1>1 DEF DialogHolds, TurnsHold, DeletionHolds, ServedHold, MappingHolds, Numbered
    <1>5. BatchHolds' /\ ArchiveHolds'
        BY <1>1 DEF DialogHolds, BatchHolds, ArchiveHolds, Ends, After, ReadyOf
    <1> QED BY <1>2, <1>3, <1>4, <1>5 DEF Kept, DialogHolds

-----------------------------------------------------------------------------
(***************************************************************************)
(* Startup: no lock is held and no request is under way.                   *)
(***************************************************************************)
LEMMA NoJobTyped == NoJob \in Job
    BY DEF NoJob, Job

MappingAfterStart ==
    /\ demo /\ phase \in {"reconciling", "up"} /\ ~dialog => binding = NoRow
    /\ phase = "enabling" /\ pc["start"] # "opening" => dialog

LEMMA IdleHolds ==
    ASSUME \A t \in {"chat", "delete", "remove"} : pc'[t] = "idle",
           \A d \in Docs : pc'[d] \in {"idle", "over"},
           Tracked', ServedHold', MappingAfterStart', Numbered', ArchiveHolds'
    PROVE  DocumentsHold' /\ DialogHolds'
    <1>1. \A d \in Docs : UploadHolds(d)'
        BY DEF UploadHolds
    <1>2. RemovalHolds' /\ SearchHolds'
        BY DEF RemovalHolds, SearchHolds
    <1>3. TurnsHold' /\ DeletionHolds' /\ BatchHolds'
        BY DEF TurnsHold, DeletionHolds, BatchHolds
    <1>4. MappingHolds'
        BY DEF MappingHolds, MappingAfterStart
    <1> QED BY <1>1, <1>2, <1>3, <1>4 DEF DocumentsHold, DialogHolds

LEMMA StartupStep ==
    ASSUME Quiet, phase # "up", Moves("start"), UNCHANGED locks,
           Typed', Tracked', ServedHold', MappingAfterStart', Numbered', ArchiveHolds'
    PROVE  DataInv'
    <1>1. /\ \A t \in {"chat", "delete", "remove"} : pc'[t] = "idle"
          /\ \A d \in Docs : pc'[d] \in {"idle", "over"}
        BY TasksApart DEF Quiet, Moves
    <1>2. Quiet'
        BY <1>1 DEF Quiet, locks
    <1> QED BY <1>1, <1>2, IdleHolds DEF DataInv

\* The dialog and its archive stand through a step of the startup.
LEMMA StartupFrame ==
    ASSUME DialogHolds, UNCHANGED <<messages, nextId, segments, touched>>,
           ReadyOf(segments) \subseteq archived => ReadyOf(segments) \subseteq archived'
    PROVE  Numbered' /\ ArchiveHolds'
    <1>1. Numbered'
        BY DEF DialogHolds, Numbered
    <1>2. ArchiveHolds'
        BY DEF DialogHolds, ArchiveHolds, Ends, After, ReadyOf
    <1> QED BY <1>1, <1>2

LEMMA StartTask == "start" \in TaskIds /\ (Typed => job["start"] \in Job)
    BY TasksApart DEF Typed

LEMMA StartKeeps ==
    ASSUME DataInv, Start
    PROVE  DataInv'
    <1>1. /\ phase = "down" /\ interval' \in Intervals /\ UNCHANGED <<host, table, store, memory, locks, job>>
          /\ phase' = IF demo' THEN "enabling" ELSE "reconciling"
          /\ UNCHANGED <<dialog, messages, nextId, segments, touched, rows, files, indexed,
                         archived, session, late, landed>>
        BY DEF Start, table, store, memory
    <1>2. Typed /\ Quiet /\ DialogHolds /\ ServedHold /\ Tracked
        BY DEF DataInv, DialogHolds, DocumentsHold
    <1>3. Moves("start") /\ pc'["start"] = "opening"
        BY <1>1, <1>2, StartTask, GoneTask DEF Start, Goto
    <1>4. Typed'
        BY <1>1, <1>2, <1>3, DialogAssumption DEF Typed, Moves
    <1>5. Tracked' /\ ServedHold'
        BY <1>1, <1>2 DEF Tracked, ServedHold
    <1>6. MappingAfterStart'
        BY <1>1, <1>3 DEF MappingAfterStart
    <1> QED BY <1>1, <1>2, <1>3, <1>4, <1>5, <1>6, StartupStep, StartupFrame

\* A step of the seeding: it may create the dialog, or take with it the
\* dialog that this start created.
LEMMA SeedStep ==
    ASSUME DataInv, phase = "enabling", Moves("start"), UNCHANGED <<store, memory, locks, nextId, touched>>,
           UNCHANGED <<demo, interval>>, phase' \in {"down", "enabling", "reconciling"},
           dialog' \in BOOLEAN, phase' # "down" => dialog',
           \/ UNCHANGED <<messages, segments>> /\ (~dialog' => ~dialog)
           \/ messages' = {} /\ segments' = <<>>
    PROVE  DataInv'
    <1>1. Typed /\ Quiet /\ DialogHolds /\ ServedHold /\ Tracked
        BY DEF DataInv, DialogHolds, DocumentsHold
    <1>2. UNCHANGED <<rows, files, indexed, archived, session, late, landed, touched, nextId>>
        BY DEF store, memory
    <1>3. CASE UNCHANGED <<messages, segments>> /\ (~dialog' => ~dialog)
        <2>1. Numbered' /\ ArchiveHolds'
            BY <1>1, <1>2, <1>3, StartupFrame
        <2>2. Typed'
            BY <1>1, <1>2, <1>3 DEF Typed, Moves
        <2>3. Tracked' /\ ServedHold' /\ MappingAfterStart'
            BY <1>1, <1>2, <1>3 DEF Tracked, ServedHold, MappingAfterStart
        <2> QED BY <1>1, <2>1, <2>2, <2>3, StartupStep
    <1>4. CASE messages' = {} /\ segments' = <<>>
        <2>1. /\ DOMAIN segments' = {} /\ segments' \in [DOMAIN segments' -> Statuses]
              /\ ReadyOf(segments') = {}
            BY <1>4, EmptyTable
        <2>2. Numbered'
            BY <1>4, <2>1 DEF Numbered
        <2>3. ArchiveHolds'
            <3>1. Ends' = {0}
                BY <2>1 DEF Ends
            <3> QED BY <1>4, <2>1, <3>1 DEF ArchiveHolds
        <2>4. Typed'
            BY <1>1, <1>2, <1>4, <2>1 DEF Typed, Moves
        <2>5. Tracked' /\ ServedHold' /\ MappingAfterStart'
            BY <1>1, <1>2, <1>4 DEF Tracked, ServedHold, MappingAfterStart
        <2> QED BY <1>1, <2>2, <2>3, <2>4, <2>5, StartupStep
    <1> QED BY <1>3, <1>4

LEMMA EnableKeeps ==
    ASSUME DataInv, EnableDemo
    PROVE  DataInv'
    <1>1. /\ phase = "enabling" /\ UNCHANGED <<store, memory, locks, nextId, touched>>
          /\ UNCHANGED <<messages, segments>> /\ Typed
        BY DEF EnableDemo, DataInv
    <1>2. CASE Refused /\ UNCHANGED <<dialog, job>>
        <2>1. Moves("start")
            BY <1>1, <1>2, StartTask, GoneTask DEF Refused, Goto
        <2>2. phase' = "down" /\ UNCHANGED <<demo, interval>> /\ dialog' \in BOOLEAN
            BY <1>1, <1>2 DEF Refused, Typed
        <2> QED BY <1>1, <1>2, <2>1, <2>2, SeedStep
    <1>3. CASE /\ dialog' = TRUE
               /\ job' = [job EXCEPT !["start"] = [NoJob EXCEPT !.existed = dialog]]
               /\ IF Active THEN phase' = "reconciling" /\ UNCHANGED pc
                            ELSE UNCHANGED phase /\ Goto("start", "submitting")
               /\ UNCHANGED <<demo, interval, starts>>
        <2> DEFINE j == [NoJob EXCEPT !.existed = dialog]
        <2>1. j \in Job /\ job' = [job EXCEPT !["start"] = j]
            BY <1>1, <1>3, NoJobTyped DEF Job, Typed
        <2> HIDE DEF j
        <2>2. Moves("start")
            <3>1. CASE UNCHANGED pc
                BY <1>1, <2>1, <3>1, StartTask DEF Moves, Typed
            <3>2. CASE Goto("start", "submitting")
                BY <1>1, <2>1, <3>2, StartTask, MovedTask DEF Goto
            <3> QED BY <1>3, <3>1, <3>2
        <2> QED BY <1>1, <1>3, <2>2, SeedStep
    <1> QED BY <1>2, <1>3 DEF EnableDemo

LEMMA RefusedSeedKeeps ==
    ASSUME DataInv, phase = "enabling", SeedRefused,
           UNCHANGED <<store, memory, locks, nextId, touched, job>>, dialog
    PROVE  DataInv'
    <1>1. Typed
        BY DEF DataInv
    <1>2. Moves("start")
        BY <1>1, StartTask, GoneTask DEF SeedRefused, Refused, Goto
    <1>3. phase' = "down" /\ UNCHANGED <<demo, interval>>
        BY DEF SeedRefused, Refused
    <1>4. dialog' \in BOOLEAN
        BY <1>1, StartTask DEF SeedRefused, Job
    <1>5. \/ UNCHANGED <<messages, segments>> /\ (~dialog' => ~dialog)
          \/ messages' = {} /\ segments' = <<>>
        BY <1>4 DEF SeedRefused
    <1> QED BY <1>2, <1>3, <1>4, <1>5, SeedStep

LEMMA SeedKeeps ==
    ASSUME DataInv, SeedEpisode \/ SeedBinding
    PROVE  DataInv'
    <1>1. /\ phase = "enabling" /\ UNCHANGED <<store, memory, locks, nextId, touched, job>>
          /\ Typed /\ dialog
        BY DEF SeedEpisode, SeedBinding, DataInv, DialogHolds, MappingHolds
    <1>2. CASE SeedRefused
        BY <1>1, <1>2, RefusedSeedKeeps
    <1>3. ASSUME NEW to, Goto("start", to), UNCHANGED <<demo, interval, dialog, messages, segments>>,
                 phase' \in {"enabling", "reconciling"}
          PROVE  DataInv'
        <2>1. Moves("start")
            BY <1>1, <1>3, StartTask, GoneTask DEF Goto
        <2>2. dialog' \in BOOLEAN /\ dialog'
            BY <1>1, <1>3 DEF Typed
        <2> QED BY <1>1, <1>3, <2>1, <2>2, SeedStep
    <1>4. CASE SeedEpisode
        <2>1. CASE Goto("start", SeedSteps[pc["start"]]) /\ UNCHANGED <<process, dialog, messages, segments>>
            BY <1>1, <1>3, <2>1 DEF process
        <2> QED BY <1>2, <1>4, <2>1 DEF SeedEpisode
    <1>5. CASE SeedBinding
        BY <1>2, <1>3, <1>5 DEF SeedBinding
    <1> QED BY <1>4, <1>5

LEMMA ReconcileDocKeeps ==
    ASSUME DataInv, NEW d \in Docs, ReconcileDoc(d)
    PROVE  DataInv'
    <1>1. /\ phase = "reconciling" /\ UNCHANGED <<host, table, memory, locks>>
          /\ UNCHANGED <<binding, demo, interval, dialog, messages, nextId, segments,
                         touched, archived, session, late, landed>>
          /\ phase' \in {"down", "reconciling"}
        BY DEF ReconcileDoc, Refused, host, process, table, memory
    <1>2. Typed /\ Quiet /\ DialogHolds /\ ServedHold /\ Tracked /\ MappingHolds
        BY DEF DataInv, DialogHolds, DocumentsHold
    <1>3. Moves("start")
        <2>1. CASE job' = [job EXCEPT !["start"].tried = job["start"].tried \union {d}] /\ UNCHANGED pc
            <3> DEFINE j == [job["start"] EXCEPT !.tried = job["start"].tried \union {d}]
            <3>1. j \in Job /\ job' = [job EXCEPT !["start"] = j]
                BY <1>2, <2>1, StartTask DEF Job
            <3> HIDE DEF j
            <3> QED BY <1>2, <2>1, <3>1, StartTask DEF Moves, Typed
        <2>2. CASE job' = [job EXCEPT !["start"] = NoJob] /\ Goto("start", "idle")
            BY <1>2, <2>2, StartTask, NoJobTyped, MovedTask DEF Goto
        <2> QED BY <2>1, <2>2 DEF ReconcileDoc, Refused
    <1>4. /\ rows' \in [DOMAIN rows' -> Statuses] /\ DOMAIN rows' \subseteq Docs
          /\ files' \subseteq DOMAIN rows' /\ indexed' \subseteq Docs \union {Stray}
        <2>1. CASE indexed' = indexed \ {d} /\ files' = files \ {d} /\ rows' = Without(rows, {d})
            BY <1>2, <2>1 DEF Typed, Tracked, Without, Restrict
        <2>2. CASE indexed' \in {indexed, indexed \ {d}} /\ files' \subseteq files /\ UNCHANGED rows
            BY <1>2, <2>2 DEF Typed, Tracked
        <2> QED BY <2>1, <2>2 DEF ReconcileDoc
    <1>5. Typed'
        BY <1>1, <1>2, <1>3, <1>4 DEF Typed, Moves
    <1>6. Tracked' /\ ServedHold' /\ MappingAfterStart'
        BY <1>1, <1>2, <1>4 DEF Tracked, ServedHold, MappingAfterStart, MappingHolds
    <1> QED BY <1>1, <1>2, <1>3, <1>5, <1>6, StartupStep, StartupFrame

\* What no row knows is gone before the first request.
LEMMA ReconcileStraysKeeps ==
    ASSUME DataInv, ReconcileStrays
    PROVE  DataInv'
    <1>1. /\ phase = "reconciling" /\ UNCHANGED <<host, table, rows, files, locks>>
          /\ UNCHANGED <<binding, demo, interval, dialog, messages, nextId, segments, touched,
                         late, landed>>
          /\ job' = [job EXCEPT !["start"] = NoJob] /\ Goto("start", "idle")
          /\ phase' \in {"down", "up"}
        BY DEF ReconcileStrays, Refused, host, table
    <1>2. Typed /\ Quiet /\ DialogHolds /\ ServedHold /\ Tracked /\ MappingHolds
        BY DEF DataInv, DialogHolds, DocumentsHold
    <1>3. Moves("start")
        BY <1>1, <1>2, StartTask, NoJobTyped, MovedTask DEF Goto
    <1>4. /\ indexed' \subseteq indexed /\ archived' \subseteq archived
          /\ archived \intersect DOMAIN segments \subseteq archived'
          /\ session' \in BOOLEAN
          /\ phase' = "up" => /\ indexed' \subseteq DOMAIN rows /\ archived' \subseteq DOMAIN segments
                              /\ (~dialog => ~session')
        BY <1>2 DEF ReconcileStrays, Refused, Typed
    <1>5. Typed'
        BY <1>1, <1>2, <1>3, <1>4 DEF Typed, Moves
    <1>6. Tracked' /\ ServedHold' /\ MappingAfterStart'
        BY <1>1, <1>2, <1>4 DEF Tracked, ServedHold, MappingAfterStart, MappingHolds
    <1>7. ReadyOf(segments) \subseteq archived => ReadyOf(segments) \subseteq archived'
        BY <1>4 DEF ReadyOf
    <1> QED BY <1>1, <1>2, <1>3, <1>5, <1>6, <1>7, StartupStep, StartupFrame

\* A crash ends every task and loses nothing that was kept.
LEMMA CrashKeeps ==
    ASSUME DataInv, Crash
    PROVE  DataInv'
    <1>1. /\ phase' = "down" /\ turn' = Nobody /\ lock' = Nobody
          /\ pc' = [t \in TaskIds |-> IF t \in Docs /\ pc[t] # "idle" THEN "over" ELSE "idle"]
          /\ job' = [t \in TaskIds |-> NoJob]
          /\ UNCHANGED <<table, store>> /\ late' = {} /\ landed' = {}
          /\ UNCHANGED <<binding, demo, interval, dialog, messages, nextId, segments, touched,
                         rows, files, indexed, archived, session>>
        BY DEF Crash, table, store
    <1>2. Typed /\ DialogHolds /\ ServedHold /\ Tracked
        BY DEF DataInv, DialogHolds, DocumentsHold
    <1>3. /\ \A t \in {"chat", "delete", "remove"} : pc'[t] = "idle"
          /\ \A d \in Docs : pc'[d] \in {"idle", "over"}
        BY <1>1, TasksApart
    <1>4. job' \in [TaskIds -> Job] /\ pc' = [t \in TaskIds |-> pc'[t]]
        BY <1>1, NoJobTyped
    <1>5. Typed'
        BY <1>1, <1>2, <1>4 DEF Typed
    <1>6. Tracked' /\ ServedHold' /\ MappingAfterStart'
        BY <1>1, <1>2 DEF Tracked, ServedHold, MappingAfterStart
    <1>7. Numbered' /\ ArchiveHolds'
        BY <1>1, <1>2, StartupFrame
    <1>8. Quiet'
        BY <1>1, <1>3 DEF Quiet
    <1> QED BY <1>3, <1>5, <1>6, <1>7, <1>8, IdleHolds DEF DataInv

\* What an outsider, or nobody, changes while the application is down.
LEMMA OutsideKeeps ==
    ASSUME DataInv, UNCHANGED <<process, table, store, memory, locks, pc, job>>,
           phase = "down" \/ UNCHANGED binding
    PROVE  DataInv'
    <1>1. UNCHANGED <<phase, demo, interval, dialog, messages, nextId, segments, touched,
                      rows, files, indexed, archived, session, late, landed, turn, lock>>
        BY DEF process, table, store, memory, locks
    <1>2. Typed' /\ Quiet'
        BY <1>1 DEF DataInv, Typed, Quiet
    <1>3. DocumentsHold'
        BY <1>1 DEF DataInv, DocumentsHold, UploadHolds, RemovalHolds, SearchHolds, Tracked, ReadyOf
    <1>4. MappingHolds'
        <2>1. phase = "down" => pc["delete"] = "idle"
            BY DEF DataInv, Quiet
        <2> QED BY <1>1, <2>1 DEF DataInv, DialogHolds, MappingHolds
    <1>5. TurnsHold' /\ DeletionHolds' /\ ServedHold' /\ BatchHolds' /\ Numbered' /\ ArchiveHolds'
        BY <1>1 DEF DataInv, DialogHolds, TurnsHold, DeletionHolds, ServedHold, BatchHolds,
                    Numbered, ArchiveHolds, Ends, After, ReadyOf
    <1> QED BY <1>2, <1>3, <1>4, <1>5 DEF DataInv, DialogHolds

LEMMA InitHolds == Init => DataInv
    <1> SUFFICES ASSUME Init PROVE DataInv
        OBVIOUS
    <1>1. /\ DOMAIN segments = {} /\ segments \in [DOMAIN segments -> Statuses]
          /\ DOMAIN rows = {} /\ rows \in [DOMAIN rows -> Statuses] /\ ReadyOf(segments) = {}
        BY EmptyTable DEF Init
    <1>2. interval \in Nat \ {0}
        BY DialogAssumption DEF Init
    <1>3. Typed
        <2>1. pc = [t \in TaskIds |-> pc[t]] /\ job \in [TaskIds -> Job]
            BY NoJobTyped DEF Init
        <2>2. messages = {} /\ archived = {} /\ late = {} /\ landed = {} /\ files = {} /\ indexed \subseteq {Stray}
              /\ nextId = 1 /\ touched = FALSE /\ phase = "down"
            BY DEF Init
        <2>3. dialog \in BOOLEAN /\ session \in BOOLEAN
            BY DEF Init
        <2>4. /\ DOMAIN rows \subseteq Docs /\ DOMAIN segments \subseteq Segments
              /\ archived \subseteq Segments /\ messages \subseteq Nat \ {0} /\ nextId \in Nat \ {0}
              /\ late \subseteq Segments /\ landed \subseteq Segments
            BY <1>1, <2>2
        <2>5. /\ files \subseteq Docs /\ indexed \subseteq Docs \union {Stray}
              /\ touched \in BOOLEAN /\ phase \in {"down", "enabling", "reconciling", "up"}
            BY <2>2
        <2> QED BY <1>1, <1>2, <2>1, <2>3, <2>4, <2>5, Zenon DEF Typed
    <1>4. \A t \in TaskIds : pc[t] = "idle"
        BY DEF Init
    <1>5. Quiet
        BY <1>4, TasksApart DEF Init, Quiet
    <1>6. DocumentsHold
        BY <1>4, TasksApart DEF Init, DocumentsHold, UploadHolds, RemovalHolds, SearchHolds, Tracked
    <1>7. TurnsHold /\ DeletionHolds /\ BatchHolds
        BY <1>4, TasksApart DEF TurnsHold, DeletionHolds, BatchHolds
    <1>8. ServedHold /\ MappingHolds /\ Numbered
        BY <1>1, <1>4, TasksApart DEF Init, BindingInit, ServedHold, MappingHolds, Numbered
    <1>9. ArchiveHolds
        <2>1. Ends = {0}
            BY <1>1 DEF Ends
        <2> QED BY <1>1, <2>1 DEF Init, ArchiveHolds
    <1> QED BY <1>3, <1>5, <1>6, <1>7, <1>8, <1>9 DEF DataInv, DialogHolds

\* No request stops the process that serves it.
LEMMA RequestsServe ==
    ASSUME CloseBinding \/ Requests
    PROVE  UNCHANGED process
    <1>1. ASSUME NEW d \in Docs, Upload(d) PROVE UNCHANGED process
        BY <1>1 DEF Upload, UploadBegin, UploadWrite, UploadIndex, UploadReady, CleanupBegin,
                    CleanupVectors, CleanupFile, CleanupRow, OnlyStore
    <1>2. ASSUME Removal PROVE UNCHANGED process
        BY <1>2 DEF Removal, RemoveBegin, RemoveVectors, RemoveFile, RemoveRow, OnlyStore
    <1>3. ASSUME Chat PROVE UNCHANGED process
        BY <1>3 DEF Chat, ChatBegin, PlanBegin, Retrieve, Compose, Confirm, Ask, Answer,
                    ArchiveBegin, ArchiveStore, ArchiveReady
    <1>4. ASSUME CloseBinding PROVE UNCHANGED process
        BY <1>4 DEF CloseBinding, CloseBegin, CloseForget, CloseFinish, DeleteList
    <1>5. ASSUME Delete PROVE UNCHANGED process
        BY <1>5 DEF Delete, DeleteBegin, DeleteVector, DeleteSession, DeleteDialog
    <1>6. ASSUME HostCloses PROVE UNCHANGED process
        BY <1>6 DEF HostCloses
    <1> QED BY <1>1, <1>2, <1>3, <1>4, <1>5, <1>6 DEF Requests

LEMMA ServedKeeps ==
    ASSUME DataInv, phase = "up", CloseBinding \/ Requests \/ LateAdd
    PROVE  DataInv'
    <1>1. Typed /\ DocumentsHold /\ DialogHolds
        BY DEF DataInv
    <1>2. Kept
        <2>1. CASE (\E d \in Docs : Upload(d)) \/ Removal
            BY <1>1, <2>1, DocumentsKeep
        <2>2. CASE Chat
            BY <1>1, <2>2, ChatKeeps
        <2>3. CASE CloseBinding
            BY <1>1, <2>3, CloseKeeps
        <2>4. CASE Delete
            BY <1>1, <2>4, EraseKeeps
        <2>5. CASE HostCloses
            BY <1>1, <2>5, HostCloseKeeps
        <2>6. CASE LateAdd
            BY <1>1, <2>6, LateAddKeeps
        <2> QED BY <2>1, <2>2, <2>3, <2>4, <2>5, <2>6 DEF Requests
    <1>3. phase' = "up"
        BY RequestsServe DEF process, LateAdd
    <1>4. Quiet'
        BY <1>3 DEF Quiet
    <1> QED BY <1>2, <1>4 DEF Kept, DataInv

LEMMA StepHolds == DataInv /\ [Next]_vars => DataInv'
    <1> SUFFICES ASSUME DataInv, [Next]_vars PROVE DataInv'
        OBVIOUS
    <1>1. CASE phase = "up" /\ (CloseBinding \/ Requests \/ LateAdd)
        BY <1>1, ServedKeeps
    <1>2. CASE Startup
        BY <1>2, StartKeeps, EnableKeeps, SeedKeeps, ReconcileDocKeeps, ReconcileStraysKeeps DEF Startup
    <1>3. CASE Crash
        BY <1>3, CrashKeeps
    <1>4. CASE Outsider
        <2>1. phase = "down" /\ UNCHANGED <<process, table, store, memory, locks, pc, job>>
            BY <1>4 DEF Outsider
        <2> QED BY <2>1, OutsideKeeps
    <1>5. CASE UNCHANGED vars
        <2>1. UNCHANGED <<process, table, store, memory, locks, pc, job>> /\ UNCHANGED binding
            BY <1>5 DEF vars, host
        <2> QED BY <2>1, OutsideKeeps
    <1> QED BY <1>1, <1>2, <1>3, <1>4, <1>5 DEF Next

\* The invariant of all the requests, the startup and the crashes.
THEOREM DataHolds == Spec => []DataInv
    BY InitHolds, StepHolds, PTL DEF Spec

-----------------------------------------------------------------------------
(***************************************************************************)
(* What the runs check.                                                    *)
(***************************************************************************)
\* Type correctness of what the application keeps, for every value of the
\* bounds (DialogDataProofs' own types; TypeOK adds the bounds themselves).
THEOREM DataTyping == Spec => []Typed
    BY DataHolds, PTL DEF DataInv

\* Whatever fails or crashes in the middle of an upload or a removal, a file
\* has its row, and so has a vector while requests are served - but for one
\* that an add cancelled in its thread wrote last.
THEOREM NothingIsUntracked == Spec => []NothingUntracked
    <1>1. DataInv => NothingUntracked
        BY DEF DataInv, DocumentsHold, Tracked, DialogHolds, ServedHold, NothingUntracked
    <1> QED BY <1>1, DataHolds, PTL

\* A dialog that is not listed any more has no segment, in a process of the
\* demo no mapping, and no vector but those that cancelled adds of this very
\* process wrote last.
THEOREM DeletionLeavesNothing == Spec => []DeletedDialogsLeaveNothing
    <1>1. DataInv => DeletedDialogsLeaveNothing
        <2> SUFFICES ASSUME DataInv, phase = "up", ~dialog
                     PROVE  /\ archived \subseteq landed /\ segments = <<>> /\ ~session
                            /\ demo => binding = NoRow
            BY DEF DeletedDialogsLeaveNothing
        <2>1. segments = <<>> /\ archived \subseteq DOMAIN segments \union landed /\ ~session
            BY DEF DataInv, DialogHolds, ServedHold
        <2>2. archived \subseteq landed
            BY <2>1, EmptyTable
        <2>3. demo => binding = NoRow
            BY DEF DataInv, DialogHolds, MappingHolds
        <2> QED BY <2>1, <2>2, <2>3
    <1> QED BY <1>1, DataHolds, PTL

\* The archive of a dialog has no holes, also when restarts change the
\* interval and any step of it fails.
THEOREM ArchiveStaysComplete == Spec => []ArchiveIsComplete
    <1>1. DataInv => ArchiveIsComplete
        <2> SUFFICES ASSUME DataInv PROVE ArchiveIsComplete
            OBVIOUS
        <2>1. Typed /\ ArchiveHolds
            BY DEF DataInv, DialogHolds
        <2>2. ASSUME NEW m \in messages, m <= Watermark
              PROVE  \E s \in ReadyOf(segments) : m \in s[1]..s[2]
            <3>1. m \in Nat \ {0}
                BY <2>1 DEF Typed
            <3>2. ~After(m)
                BY <2>1, <2>2, <3>1, WatermarkFacts
            <3> QED BY <2>1, <3>2 DEF ArchiveHolds
        <2> QED BY <2>1, <2>2 DEF ArchiveIsComplete, ArchiveHolds
    <1> QED BY <1>1, DataHolds, PTL

\* While a chat plans it has the turn and document_lock: of the requests only
\* its own steps move it, and no deletion is under way.
LEMMA OnlyChatMoves ==
    ASSUME DataInv, [Next]_vars, pc["chat"] \in {"composing", "querying", "composed"},
           pc'["chat"] \notin {pc["chat"], "idle"}
    PROVE  Retrieve \/ Compose \/ Confirm
    <1>1. turn = "chat" /\ pc["delete"] = "idle" /\ phase = "up"
        BY TasksApart DEF DataInv, DialogHolds, TurnsHold, Quiet, Nobody
    <1>2. Typed /\ DocumentsHold /\ pc'["chat"] # pc["chat"]
        BY DEF DataInv
    <1>3. ~((\E d \in Docs : Upload(d)) \/ Removal)
        BY <1>1, <1>2, UploadStep, RemovalStep DEF DialogStands
    <1>4. ~CloseBinding /\ ~Delete
        BY <1>1 DEF CloseBinding, CloseBegin, CloseForget, CloseFinish, DeleteList, Delete,
                    DeleteBegin, DeleteVector, DeleteSession, DeleteDialog, VectorsErased, Nobody
    <1>5. ~HostCloses /\ ~LateAdd /\ ~UNCHANGED vars
        BY <1>2 DEF HostCloses, LateAdd, vars
    <1>6. ~Startup /\ ~Outsider
        BY <1>1 DEF Startup, Start, EnableDemo, SeedEpisode, SeedBinding, ReconcileDoc,
                    ReconcileStrays, Outsider
    <1>7. ~Crash
        BY TasksApart DEF Crash
    <1>8. ~(ChatBegin \/ PlanBegin \/ Ask \/ Answer \/ ArchiveBegin \/ ArchiveStore \/ ArchiveReady)
        BY DEF ChatBegin, PlanBegin, Ask, Answer, ArchiveBegin, ArchiveStore, ArchiveReady
    <1> QED BY <1>3, <1>4, <1>5, <1>6, <1>7, <1>8 DEF Next, Requests, Chat

\* What the search returned.
LEMMA SearchResult ==
    ASSUME Typed, Retrieve \/ Compose, pc'["chat"] # "idle"
    PROVE  /\ job'["chat"].got = job["chat"].docs \intersect indexed
           /\ job'["chat"].gotSegs = job["chat"].segs \intersect archived
    <1>1. ~PlanFails
        BY ChatTask DEF PlanFails, ChatEnds, Typed
    <1>2. \/ Searched(FALSE) /\ Goto("chat", "asking")
          \/ Searched(TRUE) /\ Goto("chat", "composed")
        BY <1>1 DEF Retrieve, Compose
    <1> QED BY <1>2, SearchedTask

\* A search returns only documents whose upload was completed and archive
\* segments only of completed batches, whatever failed or was cut off.
THEOREM SearchIsClean == Spec => OnlyReadyIsRetrieved
    <1>1. ASSUME DataInv, [Next]_vars
          PROVE  [pc["chat"] \in {"composing", "querying"} /\ pc'["chat"] \in {"composed", "asking"} =>
                    /\ job'["chat"].got \subseteq ReadyOf(rows) \intersect indexed
                    /\ job'["chat"].gotSegs \subseteq ReadyOf(segments)]_vars
        <2> SUFFICES ASSUME pc["chat"] \in {"composing", "querying"}, pc'["chat"] \in {"composed", "asking"}
                     PROVE  /\ job'["chat"].got \subseteq ReadyOf(rows) \intersect indexed
                            /\ job'["chat"].gotSegs \subseteq ReadyOf(segments)
            OBVIOUS
        <2>1. Typed /\ (Retrieve \/ Compose)
            BY <1>1, OnlyChatMoves DEF DataInv, Confirm
        <2>2. /\ job'["chat"].got = job["chat"].docs \intersect indexed
              /\ job'["chat"].gotSegs = job["chat"].segs \intersect archived
            BY <2>1, SearchResult
        <2>3. job["chat"].docs \subseteq ReadyOf(rows) /\ job["chat"].segs \subseteq ReadyOf(segments)
            BY <1>1 DEF DataInv, DocumentsHold, SearchHolds, DialogHolds, BatchHolds
        <2> QED BY <2>2, <2>3
    <1> QED BY <1>1, DataHolds, PTL DEF Spec, OnlyReadyIsRetrieved

-----------------------------------------------------------------------------
(***************************************************************************)
(* The resumed task: mapping and episode are looked at in two steps.       *)
(***************************************************************************)
\* As long as the mapping is still the one the composer loaded, the episode
\* it found usable is; no mapping returns to an earlier value, because one
\* that is closing never becomes active again.
ResumeInv ==
    /\ "state" \in DOMAIN binding
    /\ pc["chat"] \in {"composing", "composed"} => composing.state = "active"
    /\ pc["chat"] = "composed" /\ binding = composing => episodes[composing.task] = "sealed"

LEMMA ClosedFacts ==
    ASSUME "state" \in DOMAIN binding
    PROVE  "state" \in DOMAIN Closed /\ Closed.state # "active"
    <1>1. CASE Active
        <2> DEFINE b == [binding EXCEPT !.state = "closing"]
        <2>1. "state" \in DOMAIN b /\ b.state = "closing"
            OBVIOUS
        <2>2. Closed = [b EXCEPT !.generation = binding.generation + 1]
            BY <1>1 DEF Closed
        <2> HIDE DEF b
        <2> QED BY <2>1, <2>2
    <1>2. CASE ~Active
        BY <1>2 DEF Closed, Active
    <1> QED BY <1>1, <1>2

\* The steps during which no chat plans, before or after them.
LEMMA ResumeIdle ==
    ASSUME "state" \in DOMAIN binding', pc'["chat"] \notin {"composing", "composed"}
    PROVE  ResumeInv'
    BY DEF ResumeInv

LEMMA ResumeStep ==
    ASSUME DataInv, ResumeInv, [Next]_vars
    PROVE  ResumeInv'
    <1>1. Typed /\ "state" \in DOMAIN binding /\ "state" \in DOMAIN NoRow
        BY DEF DataInv, ResumeInv, NoRow
    <1>2. ASSUME UNCHANGED <<binding, episodes, composing>>, pc'["chat"] = pc["chat"]
          PROVE  ResumeInv'
        BY <1>2 DEF ResumeInv
    <1>3. ASSUME UNCHANGED binding, pc'["chat"] \notin {"composing", "composed"} PROVE ResumeInv'
        BY <1>1, <1>3, ResumeIdle
    <1>4. CASE phase = "up" /\ Chat
        <2>1. UNCHANGED <<binding, episodes>>
            BY <1>4 DEF Chat, ChatBegin, PlanBegin, Retrieve, Compose, Confirm, Ask, Answer,
                        ArchiveBegin, ArchiveStore, ArchiveReady, host
        <2>2. CASE PlanBegin
            <3>1. CASE ChatEnds
                <4>1. pc'["chat"] = "idle"
                    BY <1>1, <3>1, ChatTask DEF ChatEnds, Typed
                <4> QED BY <1>3, <2>1, <4>1
            <3>2. CASE /\ composing' = IF demo /\ Active THEN binding ELSE NoRow
                       /\ Goto("chat", IF demo /\ Active THEN "composing" ELSE "querying")
                <4>1. pc'["chat"] = IF demo /\ Active THEN "composing" ELSE "querying"
                    BY <1>1, <3>2, ChatTask DEF Goto, Typed
                <4> QED BY <1>1, <2>1, <3>2, <4>1 DEF ResumeInv, Active
            <3> QED BY <2>2, <3>1, <3>2 DEF PlanBegin
        <2>3. CASE Compose
            <3>1. CASE PlanFails
                <4>1. pc'["chat"] = "idle"
                    BY <1>1, <3>1, ChatTask DEF PlanFails, ChatEnds, Typed
                <4> QED BY <1>3, <2>1, <4>1
            <3>2. CASE Composable(composing) /\ Goto("chat", "composed") /\ UNCHANGED composing
                <4>1. pc["chat"] = "composing" /\ pc'["chat"] = "composed"
                    BY <1>1, <2>3, <3>2, ChatTask DEF Compose, Goto, Typed
                <4> QED BY <2>1, <3>2, <4>1 DEF ResumeInv, Composable
            <3> QED BY <2>3, <3>1, <3>2 DEF Compose
        <2>4. CASE ChatBegin \/ Retrieve \/ Confirm \/ Ask \/ Answer \/ ArchiveBegin
                   \/ ArchiveStore \/ ArchiveReady
            <3>1. pc'["chat"] \notin {"composing", "composed"}
                BY <1>1, <2>4, ChatTask DEF ChatBegin, Retrieve, Confirm, Ask, Answer, ArchiveBegin,
                   ArchiveStore, ArchiveReady, PlanFails, ChatEnds, Goto, Typed
            <3> QED BY <1>3, <2>1, <3>1
        <2> QED BY <1>4, <2>2, <2>3, <2>4 DEF Chat
    <1>5. CASE phase = "up" /\ ((\E d \in Docs : Upload(d)) \/ Removal)
        <2>1. DialogStands
            BY <1>5, UploadStep, RemovalStep DEF DataInv
        <2> QED BY <1>2, <2>1 DEF DialogStands, host
    \* A deletion has the turn: no chat plans.
    <1>6. CASE phase = "up" /\ (CloseBinding \/ Delete)
        <2>1. pc["delete"] # "idle" \/ turn = Nobody
            BY <1>6 DEF CloseBinding, CloseBegin, CloseForget, CloseFinish, DeleteList, Delete,
                        DeleteBegin, DeleteVector, DeleteSession, DeleteDialog, VectorsErased
        <2>2. pc["chat"] = "idle"
            BY <2>1 DEF DataInv, DialogHolds, TurnsHold, Nobody
        <2>3. pc'["chat"] = "idle"
            BY <1>1, <1>6, <2>2, TasksApart DEF CloseBinding, CloseBegin, CloseForget, CloseFinish,
               DeleteList, Delete, DeleteBegin, DeleteVector, DeleteSession, DeleteDialog,
               DeleteFails, Goto, Typed
        <2>4. binding' \in {binding, Closed, NoRow}
            BY <1>6 DEF CloseBinding, CloseBegin, CloseForget, CloseFinish, DeleteList, Delete,
                        DeleteBegin, DeleteVector, DeleteSession, DeleteDialog, host
        <2> QED BY <1>1, <2>3, <2>4, ClosedFacts, ResumeIdle
    <1>7. CASE HostCloses
        <2>1. UNCHANGED <<composing, pc>> /\ binding' \in {NoRow, Closed}
            BY <1>7 DEF HostCloses
        <2>2. "state" \in DOMAIN binding' /\ binding'.state # "active"
            BY <1>1, <2>1, ClosedFacts DEF NoRow
        <2> QED BY <2>1, <2>2 DEF ResumeInv
    <1>8. CASE LateAdd \/ UNCHANGED vars
        BY <1>2, <1>8 DEF LateAdd, vars, host
    <1>9. CASE Startup
        <2>1. phase # "up"
            BY <1>9 DEF Startup, Start, EnableDemo, SeedEpisode, SeedBinding, ReconcileDoc,
                        ReconcileStrays
        <2>2. pc["chat"] = "idle"
            BY <2>1 DEF DataInv, Quiet
        <2>3. pc'["chat"] = "idle"
            BY <1>1, <1>9, <2>2, TasksApart DEF Startup, Start, EnableDemo, SeedEpisode, SeedBinding,
               SeedRefused, Refused, ReconcileDoc, ReconcileStrays, Goto, Typed
        <2>4. binding' \in {binding, Created}
            BY <1>9 DEF Startup, Start, EnableDemo, SeedEpisode, SeedBinding, ReconcileDoc,
                        ReconcileStrays, host
        <2>5. "state" \in DOMAIN Created
            BY DEF Created
        <2> QED BY <1>1, <2>3, <2>4, <2>5, ResumeIdle
    <1>10. CASE Crash
        <2>1. UNCHANGED binding /\ pc'["chat"] = "idle"
            BY <1>10, TasksApart DEF Crash
        <2> QED BY <1>3, <2>1
    <1>11. CASE Outsider
        <2>1. phase = "down" /\ UNCHANGED pc
              /\ (UNCHANGED binding \/ binding' = [binding EXCEPT !.key = Forged])
            BY <1>11 DEF Outsider
        <2>2. pc'["chat"] = "idle"
            BY <2>1 DEF DataInv, Quiet
        <2>3. "state" \in DOMAIN binding'
            BY <1>1, <2>1
        <2> QED BY <2>2, <2>3, ResumeIdle
    <1> QED BY <1>4, <1>5, <1>6, <1>7, <1>8, <1>9, <1>10, <1>11 DEF Next, Requests

LEMMA ResumeHolds == Spec => [](DataInv /\ ResumeInv)
    <1>1. Init => ResumeInv
        <2> SUFFICES ASSUME Init PROVE ResumeInv
            OBVIOUS
        <2>1. pc["chat"] = "idle" /\ binding = NoRow
            BY TasksApart DEF Init, BindingInit
        <2> QED BY <2>1 DEF ResumeInv, NoRow
    <1> QED BY <1>1, InitHolds, StepHolds, ResumeStep, PTL DEF Spec

\* No request composed from a task episode goes on once the episode's text is
\* forgotten, although its last look is only at the mapping.
THEOREM ForgottenStaysUnresumed == Spec => ForgottenIsNeverResumed
    <1>1. ASSUME DataInv, ResumeInv, [Next]_vars
          PROVE  [pc["chat"] = "composed" /\ pc'["chat"] = "asking" =>
                    episodes[composing.task] = "sealed"]_vars
        <2> SUFFICES ASSUME pc["chat"] = "composed", pc'["chat"] = "asking"
                     PROVE  episodes[composing.task] = "sealed"
            OBVIOUS
        <2>1. Confirm
            BY <1>1, OnlyChatMoves DEF Retrieve, Compose
        <2>2. ~PlanFails
            BY <1>1, ChatTask DEF DataInv, PlanFails, ChatEnds, Typed
        <2>3. binding = composing
            BY <2>1, <2>2 DEF Confirm, SameBinding
        <2> QED BY <1>1, <2>3 DEF ResumeInv
    <1> QED BY <1>1, ResumeHolds, PTL DEF Spec, ForgottenIsNeverResumed
=============================================================================
