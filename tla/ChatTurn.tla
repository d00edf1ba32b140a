-------------------------------- MODULE ChatTurn --------------------------------
(***************************************************************************)
(* The chat turns of one dialog in the Ollama reference application        *)
(* (apps/ollama-chat/.../app.py): the per-dialog turn lock, the chat and   *)
(* delete handlers that hold it, and the streaming response, where the SSE *)
(* generator (the consumer) and the model task (the producer) meet in a    *)
(* bounded queue and the browser may leave at any time.                    *)
(*                                                                         *)
(* A step runs from one await to the next: the handlers are coroutines of  *)
(* one event loop.  Abstracted: what the messages say, retrieval (an await *)
(* that may fail), vector deletion (likewise), the task-resume demo.       *)
(***************************************************************************)
EXTENDS Naturals, Sequences, FiniteSets

CONSTANTS
  Chats, Deletes,   \* the requests: POST /api/chat, DELETE /api/conversations/{id}
  Entries,          \* _TurnLockEntry objects
  QueueMax,         \* SSE_QUEUE_MAX_EVENTS
  MaxTokens,        \* bound: fragments one answer has
  ClientsLeave,     \* whether browsers disconnect before the response ends
  None

Requests == Chats \cup Deletes

ASSUME ChatConstants ==
  /\ QueueMax \in Nat \ {0} /\ MaxTokens \in Nat
  /\ ClientsLeave \in BOOLEAN
  /\ Chats \cap Deletes = {} /\ None \notin Requests \cup Entries
  /\ IsFiniteSet(Requests)

VARIABLES
  table,       \* _turn_locks.get(conversation_id)
  users,       \* by entry: users
  holder,      \* by entry: the request that holds entry.lock
  waiters,     \* by entry: the requests queued on entry.lock
  pc,          \* by request: where its handler is suspended
  entry,       \* by request: the entry it got from acquire_turn
  producer,    \* by chat: where its generate task is suspended
  queue,       \* by chat: the SSE queue
  tokens,      \* by chat: fragments in answer
  completed,   \* by chat: model_completed
  exists,      \* has_conversation
  transcript   \* the messages of the dialog: <<role, request>>

locks == <<table, users, holder, waiters, entry>>
stream == <<producer, queue, tokens, completed>>
dialog == <<exists, transcript>>
vars == <<locks, pc, stream, dialog>>

PCs == {"idle", "waiting", "acquired", "planning", "deleting", "returned", "sending",
        "getting", "archiving", "ending", "closing", "lost", "over"}
ProducerPCs == {"none", "created", "generating", "putting", "failing", "finishing", "done"}

TypeOK ==
  /\ table \in Entries \cup {None}
  /\ users \in [Entries -> Nat]
  /\ holder \in [Entries -> Requests \cup {None}]
  /\ waiters \in [Entries -> Seq(Requests)]
  /\ pc \in [Requests -> PCs]
  /\ entry \in [Requests -> Entries \cup {None}]
  /\ producer \in [Chats -> ProducerPCs]
  /\ queue \in [Chats -> Seq({"token", "error", "finished"})]
  /\ tokens \in [Chats -> 0 .. MaxTokens]
  /\ completed \in [Chats -> BOOLEAN]
  /\ exists \in BOOLEAN
  /\ transcript \in Seq({"user", "assistant"} \X Chats)

Init ==
  /\ table = None
  /\ users = [e \in Entries |-> 0]
  /\ holder = [e \in Entries |-> None]
  /\ waiters = [e \in Entries |-> <<>>]
  /\ pc = [i \in Requests |-> "idle"]
  /\ entry = [i \in Requests |-> None]
  /\ producer = [i \in Chats |-> "none"]
  /\ queue = [i \in Chats |-> <<>>]
  /\ tokens = [i \in Chats |-> 0]
  /\ completed = [i \in Chats |-> FALSE]
  /\ exists = TRUE
  /\ transcript = <<>>

Goto(i, label) == pc' = [pc EXCEPT ![i] = label]

-----------------------------------------------------------------------------
(* The turn lock.                                                           *)

FreshEntries == {e \in Entries : \A i \in Requests : entry[i] # e}

(* The entry of the dialog: the one in the table, or a new one.             *)
EntryOf == IF table = None THEN FreshEntries ELSE {table}

Counted(e) == [users EXCEPT ![e] = @ + 1]

(* acquire_turn, up to the await.  asyncio.Lock is fair: it is taken at     *)
(* once only when it is free and nobody waits.                              *)
Acquire(i) ==
  /\ pc[i] = "idle"
  /\ \E e \in EntryOf :
     /\ table' = e
     /\ users' = Counted(e)
     /\ entry' = [entry EXCEPT ![i] = e]
     /\ IF holder[e] = None /\ waiters[e] = <<>>
        THEN /\ holder' = [holder EXCEPT ![e] = i]
             /\ Goto(i, "acquired")
             /\ UNCHANGED waiters
        ELSE /\ waiters' = [waiters EXCEPT ![e] = Append(@, i)]
             /\ Goto(i, "waiting")
             /\ UNCHANGED holder
  /\ UNCHANGED <<stream, dialog>>

(* The lock wakes its first waiter.                                         *)
Wake(i) ==
  /\ pc[i] = "waiting"
  /\ LET e == entry[i] IN
     /\ holder[e] = None
     /\ Head(waiters[e]) = i
     /\ holder' = [holder EXCEPT ![e] = i]
     /\ waiters' = [waiters EXCEPT ![e] = Tail(@)]
  /\ Goto(i, "acquired")
  /\ UNCHANGED <<table, users, entry, stream, dialog>>

Leaving(e) == [users EXCEPT ![e] = @ - 1]

Unlocked(i, e) == [holder EXCEPT ![e] = IF @ = i THEN None ELSE @]

EntryLeft(e) == table = e
EntryUnused(e) == table = e /\ Leaving(e)[e] = 0

(* release_turn drops the entry with its last user.                         *)
Release(i) ==
  LET e == entry[i] IN
  /\ holder' = Unlocked(i, e)
  /\ users' = Leaving(e)
  /\ table' = IF EntryUnused(e) THEN None ELSE table
  /\ entry' = [entry EXCEPT ![i] = None]
  /\ Goto(i, "over")

(* A request cancelled in the queue leaves it without having the lock.      *)
CancelWaiting(i) ==
  /\ ClientsLeave
  /\ pc[i] = "waiting"
  /\ Release(i)
  /\ waiters' = [waiters EXCEPT ![entry[i]] = SelectSeq(@, LAMBDA j : j # i)]
  /\ UNCHANGED <<stream, dialog>>

-----------------------------------------------------------------------------
(* The chat handler, up to its StreamingResponse.                           *)

Unchecked(i) == TRUE
DialogKnown(i) == exists

(* A queued request must not recreate a dialog deleted while it waited.     *)
BeginChat(i) ==
  /\ pc[i] = "acquired"
  /\ IF DialogKnown(i)
     THEN Goto(i, "planning") /\ UNCHANGED <<table, users, holder, entry>>
     ELSE Release(i)
  /\ UNCHANGED <<waiters, stream, dialog>>

(* append_message creates the conversation when it is missing.              *)
PlanDone(i) ==
  /\ pc[i] = "planning"
  /\ transcript' = Append(transcript, <<"user", i>>)
  /\ exists' = TRUE
  /\ Goto(i, "returned")
  /\ UNCHANGED <<locks, stream>>

(* Planning failed, or was cancelled: every except branch releases.         *)
PlanAborted(i) ==
  /\ pc[i] = "planning"
  /\ Release(i)
  /\ UNCHANGED <<waiters, stream, dialog>>

(* The browser left before the framework took the first step of the         *)
(* generator: an async generator that never started has no finally to run.  *)
NeverStarted(i) ==
  /\ ClientsLeave
  /\ pc[i] = "returned"
  /\ Goto(i, "lost")
  /\ UNCHANGED <<locks, stream, dialog>>

-----------------------------------------------------------------------------
(* The generator of the response: the consumer of the queue.                *)

Start(i) ==
  /\ pc[i] = "returned"
  /\ producer' = [producer EXCEPT ![i] = "created"]
  /\ Goto(i, "sending")
  /\ UNCHANGED <<locks, queue, tokens, completed, dialog>>

(* The browser took what was yielded.                                       *)
Sent(i) ==
  /\ pc[i] = "sending"
  /\ Goto(i, "getting")
  /\ UNCHANGED <<locks, stream, dialog>>

AnyAnswer(i) == tokens[i] > 0
FinalAnswer(i) == completed[i] /\ tokens[i] > 0

Get(i) ==
  /\ pc[i] = "getting"
  /\ queue[i] # <<>>
  /\ queue' = [queue EXCEPT ![i] = Tail(@)]
  /\ IF Head(queue[i]) # "finished"
     THEN Goto(i, "sending") /\ UNCHANGED dialog
     ELSE IF FinalAnswer(i)
          THEN /\ transcript' = Append(transcript, <<"assistant", i>>)
               /\ exists' = TRUE
               /\ Goto(i, "archiving")
          ELSE Goto(i, "ending") /\ UNCHANGED dialog
  /\ UNCHANGED <<locks, producer, tokens, completed>>

(* archive_memory returned or raised, which the handler suppresses.         *)
Archived(i) ==
  /\ pc[i] = "archiving"
  /\ Goto(i, "ending")
  /\ UNCHANGED <<locks, stream, dialog>>

(* The done event was taken; the producer has finished, so finally releases.*)
Ended(i) ==
  /\ pc[i] = "ending"
  /\ Goto(i, "closing")
  /\ UNCHANGED <<locks, stream, dialog>>

(* Cancelling generate runs its finally, unless it was there or not started.*)
Cancelled(p) ==
  CASE p \in {"generating", "putting", "failing"} -> "finishing"
    [] p \in {"created", "finishing"} -> "done"
    [] OTHER -> p

(* The browser leaves: the generator is closed where it is suspended.       *)
Leave(i) ==
  /\ ClientsLeave
  /\ pc[i] \in {"sending", "getting", "archiving", "ending"}
  /\ producer' = [producer EXCEPT ![i] = Cancelled(@)]
  /\ Goto(i, "closing")
  /\ UNCHANGED <<locks, queue, tokens, completed, dialog>>

(* finally: await task, then release_turn.                                  *)
Closed(i) ==
  /\ pc[i] = "closing"
  /\ producer[i] = "done"
  /\ Release(i)
  /\ UNCHANGED <<waiters, stream, dialog>>

Full(i) == Len(queue[i]) = QueueMax

(* A closed generator waits for a task that waits for room in a queue that  *)
(* nobody reads.  Only the garbage collector, which finds the cycle, ends   *)
(* it, at a time of its own.                                                *)
Collect(i) ==
  /\ pc[i] = "closing"
  /\ producer[i] = "finishing"
  /\ Full(i)
  /\ producer' = [producer EXCEPT ![i] = "done"]
  /\ UNCHANGED <<locks, pc, queue, tokens, completed, dialog>>

-----------------------------------------------------------------------------
(* generate: the producer.                                                  *)

Produce(i, from, to) ==
  /\ producer[i] = from
  /\ producer' = [producer EXCEPT ![i] = to]

Put(i, event) == ~Full(i) /\ queue' = [queue EXCEPT ![i] = Append(@, event)]

CallModel(i) ==
  /\ Produce(i, "created", "generating")
  /\ UNCHANGED <<locks, pc, queue, tokens, completed, dialog>>

(* on_token keeps the fragment, then waits for room in the queue.           *)
OnToken(i) ==
  /\ tokens[i] < MaxTokens
  /\ Produce(i, "generating", "putting")
  /\ tokens' = [tokens EXCEPT ![i] = @ + 1]
  /\ UNCHANGED <<locks, pc, queue, completed, dialog>>

PutToken(i) ==
  /\ Produce(i, "putting", "generating")
  /\ Put(i, "token")
  /\ UNCHANGED <<locks, pc, tokens, completed, dialog>>

ModelDone(i) ==
  /\ Produce(i, "generating", "finishing")
  /\ completed' = [completed EXCEPT ![i] = TRUE]
  /\ UNCHANGED <<locks, pc, queue, tokens, dialog>>

ModelFailed(i) ==
  /\ Produce(i, "generating", "failing")
  /\ UNCHANGED <<locks, pc, queue, tokens, completed, dialog>>

AfterErrorDone == "done"
AfterError == "finishing"

PutError(i) ==
  /\ Produce(i, "failing", AfterError)
  /\ Put(i, "error")
  /\ UNCHANGED <<locks, pc, tokens, completed, dialog>>

PutFinished(i) ==
  /\ Produce(i, "finishing", "done")
  /\ Put(i, "finished")
  /\ UNCHANGED <<locks, pc, tokens, completed, dialog>>

-----------------------------------------------------------------------------
(* The delete handler.                                                      *)

BeginDelete(i) ==
  /\ pc[i] = "acquired"
  /\ IF exists
     THEN Goto(i, "deleting") /\ UNCHANGED <<table, users, holder, entry>>
     ELSE Release(i)
  /\ UNCHANGED <<waiters, stream, dialog>>

(* Vectors first; the transcript only once they are gone.                   *)
DeleteDone(i) ==
  /\ pc[i] = "deleting"
  /\ exists' = FALSE
  /\ transcript' = <<>>
  /\ Release(i)
  /\ UNCHANGED <<waiters, stream>>

DeleteFailed(i) ==
  /\ pc[i] = "deleting"
  /\ Release(i)
  /\ UNCHANGED <<waiters, stream, dialog>>

-----------------------------------------------------------------------------
ModelStep(i) == CallModel(i) \/ OnToken(i) \/ ModelDone(i) \/ ModelFailed(i)
QueueStep(i) == PutToken(i) \/ PutError(i) \/ PutFinished(i)
ChatStep(i) ==
  \/ BeginChat(i) \/ PlanDone(i) \/ PlanAborted(i)
  \/ Start(i) \/ Sent(i) \/ Get(i) \/ Archived(i) \/ Ended(i) \/ Closed(i)
DeleteStep(i) == BeginDelete(i) \/ DeleteDone(i) \/ DeleteFailed(i)
ClientStep(i) == NeverStarted(i) \/ Leave(i)

Next ==
  \/ \E i \in Requests : Acquire(i) \/ Wake(i) \/ CancelWaiting(i)
  \/ \E i \in Chats : ChatStep(i) \/ ModelStep(i) \/ QueueStep(i) \/ ClientStep(i)
  \/ \E i \in Chats : Collect(i)
  \/ \E i \in Deletes : DeleteStep(i)

Spec == Init /\ [][Next]_vars

(* The event loop runs what is ready, the model and the vector store answer *)
(* or fail, and a browser that stays reads what it is sent.  Nothing obliges*)
(* a request to arrive, a browser to leave or the collector to run.         *)
Fairness ==
  /\ \A i \in Requests : WF_vars(Wake(i))
  /\ \A i \in Chats : WF_vars(ChatStep(i)) /\ WF_vars(ModelStep(i)) /\ WF_vars(QueueStep(i))
  /\ \A i \in Deletes : WF_vars(DeleteStep(i))

FairSpec == Spec /\ Fairness

-----------------------------------------------------------------------------
InTurn(i) == entry[i] # None /\ pc[i] # "waiting"

(* One dialog is never split across two locks: no two requests, whenever    *)
(* they arrived, wait or were cancelled, are in a turn together.            *)
OneTurnAtATime == \A i, j \in Requests : InTurn(i) /\ InTurn(j) => i = j

(* An entry is retained exactly while a holder or a waiter refers to it.    *)
EntriesAreCounted ==
  \A e \in Entries :
    /\ users[e] = Cardinality({i \in Requests : entry[i] = e})
    /\ users[e] > 0 => table = e

(* Turns do not interleave in the transcript: an answer directly follows    *)
(* the question it answers.                                                 *)
AnswersFollowQuestions ==
  \A n \in DOMAIN transcript : transcript[n][1] = "assistant" =>
    n > 1 /\ transcript[n - 1] = <<"user", transcript[n][2]>>

(* Only answers that the model completed are kept.                          *)
OnlyCompleteAnswers ==
  \A n \in DOMAIN transcript : transcript[n][1] = "assistant" => completed[transcript[n][2]]

(* A deleted dialog is not recreated by a chat that was queued behind the   *)
(* deletion.                                                                *)
DeletionIsFinal == [][~exists => ~exists']_vars

(* The two ways a browser that leaves can strand its turn: the generator    *)
(* never started, or it waits for a task that waits for room in the queue.  *)
Stranded(i) ==
  pc[i] = "lost" \/ (pc[i] = "closing" /\ producer[i] = "finishing" /\ Full(i))

(* Whoever gets a turn gives it back.                                       *)
TurnsAreReleased == \A i \in Requests : InTurn(i) ~> ~InTurn(i)

(* Whoever gets a turn gives it back, unless its browser left it stranded.  *)
TurnsEndOrStrand == \A i \in Requests : InTurn(i) ~> ~InTurn(i) \/ Stranded(i)

(* Whoever queues for a turn gets it, or stops waiting, unless a stranded   *)
(* turn is in its way.                                                      *)
WaitersAreServed ==
  \A i \in Requests :
    pc[i] = "waiting" ~> pc[i] # "waiting" \/ \E j \in Chats : Stranded(j)

(* One turn of a dialog at a time, because the entry that serializes them   *)
(* is kept exactly while somebody holds it or waits for it.                 *)
TurnsAreExclusive == OneTurnAtATime /\ EntriesAreCounted

(* The transcript alternates questions and complete answers.                *)
TranscriptIsSound == AnswersFollowQuestions /\ OnlyCompleteAnswers

(* Every turn and every wait ends, unless a browser left a turn stranded.   *)
TurnsAndWaitsEnd == TurnsEndOrStrand /\ WaitersAreServed
=============================================================================
