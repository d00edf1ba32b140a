----------------------------- MODULE ChatTurnProofs -----------------------------
(***************************************************************************)
(* Proofs about ChatTurn, for any number of chats and deletions, whenever  *)
(* they arrive and are cancelled: the turn lock excludes, and what a turn  *)
(* therefore keeps of the transcript and of the dialog.                    *)
(***************************************************************************)
EXTENDS ChatTurn, FiniteSetTheorems, TLAPS

Users(e) == {i \in Requests : entry[i] = e}

LockTyping ==
  /\ table \in Entries \cup {None}
  /\ users \in [Entries -> Int]
  /\ holder \in [Entries -> Requests \cup {None}]
  /\ pc \in [Requests -> PCs]
  /\ entry \in [Requests -> Entries \cup {None}]

(* Every request refers to the entry in the table, which counts them all;   *)
(* whoever is past the lock holds it.                                       *)
LockInv ==
  /\ LockTyping
  /\ \A i \in Requests : entry[i] = None <=> pc[i] \in {"idle", "over"}
  /\ \A i \in Requests : entry[i] # None => entry[i] = table
  /\ \A i \in Requests : InTurn(i) => holder[entry[i]] = i
  /\ \A e \in Entries : users[e] = Cardinality(Users(e))

-----------------------------------------------------------------------------
LEMMA UsersAreFinite == \A e : IsFiniteSet(Users(e))
  BY ChatConstants, FS_Subset DEF Users

(* A request that takes an entry adds itself to the users of the entry.     *)
LEMMA OneMoreUser ==
  ASSUME LockTyping, NEW i \in Requests, NEW e \in Entries, entry[i] = None,
         entry' = [entry EXCEPT ![i] = e]
  PROVE  \A f \in Entries :
           Cardinality(Users(f)') = IF f = e THEN Cardinality(Users(f)) + 1
                                             ELSE Cardinality(Users(f))
<1> TAKE f \in Entries
<1>1. CASE f = e
  <2>1. Users(f)' = Users(f) \cup {i} /\ i \notin Users(f)
    BY <1>1, ChatConstants DEF Users, LockTyping
  <2> QED
    BY <1>1, <2>1, UsersAreFinite, FS_AddElement
<1>2. CASE f # e
  <2>1. Users(f)' = Users(f)
    BY <1>2, ChatConstants DEF Users, LockTyping
  <2> QED
    BY <1>2, <2>1
<1> QED
  BY <1>1, <1>2

(* A request that gives its entry back removes itself from its users.       *)
LEMMA OneUserLess ==
  ASSUME LockTyping, NEW i \in Requests, entry[i] # None,
         entry' = [entry EXCEPT ![i] = None]
  PROVE  \A f \in Entries :
           Cardinality(Users(f)') = IF f = entry[i] THEN Cardinality(Users(f)) - 1
                                                    ELSE Cardinality(Users(f))
<1> TAKE f \in Entries
<1>1. CASE f = entry[i]
  <2>1. Users(f)' = Users(f) \ {i} /\ i \in Users(f)
    BY <1>1, ChatConstants DEF Users, LockTyping
  <2> QED
    BY <1>1, <2>1, UsersAreFinite, FS_RemoveElement
<1>2. CASE f # entry[i]
  <2>1. Users(f)' = Users(f)
    BY <1>2, ChatConstants DEF Users, LockTyping
  <2> QED
    BY <1>2, <2>1
<1> QED
  BY <1>1, <1>2

(* The last user of an entry is its only one.                               *)
LEMMA LastUser ==
  ASSUME NEW e, NEW i \in Requests, i \in Users(e), Cardinality(Users(e)) = 1
  PROVE  \A j \in Users(e) : j = i
<1>1. PICK x : Users(e) = {x}
  BY UsersAreFinite, FS_Singleton
<1> QED
  BY <1>1

-----------------------------------------------------------------------------
LEMMA InitLock == Init => LockInv
<1> SUFFICES ASSUME Init
             PROVE  LockInv
  OBVIOUS
<1>1. LockTyping
  BY DEF Init, LockTyping, PCs
<1>2. ASSUME NEW e \in Entries
      PROVE  users[e] = Cardinality(Users(e))
  <2>1. Users(e) = {}
    BY <1>2, ChatConstants DEF Init, Users
  <2> QED
    BY <1>2, <2>1, FS_EmptySet DEF Init
<1> QED
  BY <1>1, <1>2 DEF Init, LockInv, InTurn

(* release_turn, for the holder of the lock and for a cancelled waiter.     *)
LEMMA ReleaseKeepsLock ==
  ASSUME LockInv, NEW i \in Requests, entry[i] # None, Release(i)
  PROVE  LockInv'
<1> DEFINE e == entry[i]
<1>1. e \in Entries /\ e = table
  BY DEF LockInv, LockTyping
<1>2. /\ entry' = [entry EXCEPT ![i] = None]
      /\ pc' = [pc EXCEPT ![i] = "over"]
      /\ holder' = [holder EXCEPT ![e] = IF @ = i THEN None ELSE @]
      /\ users' = [users EXCEPT ![e] = @ - 1]
      /\ table' = IF users[e] - 1 = 0 THEN None ELSE table
  BY <1>1 DEF Release, Goto, Unlocked, Leaving, EntryUnused, LockInv, LockTyping
<1>3. LockTyping'
  BY <1>1, <1>2 DEF LockInv, LockTyping, PCs
<1>4. \A f \in Entries : users'[f] = Cardinality(Users(f)')
  <2> TAKE f \in Entries
  <2>1. users[f] = Cardinality(Users(f)) /\ users[f] \in Int
    BY DEF LockInv, LockTyping
  <2>2. users'[f] = IF f = e THEN users[f] - 1 ELSE users[f]
    BY <1>1, <1>2 DEF LockInv, LockTyping
  <2>3. Cardinality(Users(f)') = IF f = e THEN Cardinality(Users(f)) - 1
                                          ELSE Cardinality(Users(f))
    BY <1>2, OneUserLess DEF LockInv
  <2> QED
    BY <2>1, <2>2, <2>3
<1>5. ASSUME NEW j \in Requests, entry'[j] # None
      PROVE  entry'[j] = table'
  <2>1. j # i /\ entry'[j] = entry[j] /\ entry[j] = e
    BY <1>1, <1>2, <1>5 DEF LockInv, LockTyping
  <2>2. users[e] # 1
    <3> SUFFICES ASSUME users[e] = 1
                 PROVE  FALSE
      OBVIOUS
    <3>1. Cardinality(Users(e)) = 1 /\ i \in Users(e) /\ j \in Users(e)
      BY <1>1, <2>1 DEF LockInv, Users
    <3> QED
      BY <2>1, <3>1, LastUser
  <2>3. users[e] \in Int
    BY <1>1 DEF LockInv, LockTyping
  <2> QED
    BY <1>1, <1>2, <2>1, <2>2, <2>3
<1>6. ASSUME NEW j \in Requests, InTurn(j)'
      PROVE  holder'[entry'[j]] = j
  <2>1. j # i /\ InTurn(j) /\ entry'[j] = entry[j] /\ entry[j] = e
    BY <1>1, <1>2, <1>6 DEF LockInv, LockTyping, InTurn
  <2>2. holder[e] = j
    BY <2>1 DEF LockInv
  <2> QED
    BY <1>1, <1>2, <2>1, <2>2 DEF LockInv, LockTyping
<1>7. \A j \in Requests : entry'[j] = None <=> pc'[j] \in {"idle", "over"}
  BY <1>2 DEF LockInv, LockTyping
<1> QED
  BY <1>3, <1>4, <1>5, <1>6, <1>7 DEF LockInv

(* A step within a turn: neither the lock nor its users change, and nobody  *)
(* moves past the lock.                                                     *)
LEMMA StepWithinTurn ==
  ASSUME LockInv, UNCHANGED <<table, users, holder, entry>>, NEW i \in Requests,
         pc' = pc \/ \E label \in PCs \ {"idle", "waiting", "over"} :
                       /\ pc' = [pc EXCEPT ![i] = label]
                       /\ pc[i] \notin {"idle", "waiting", "over"}
  PROVE  LockInv'
<1>1. \A e : Users(e)' = Users(e)
  BY DEF Users
<1>2. LockTyping'
  BY DEF LockInv, LockTyping
<1>3. \A j \in Requests : /\ InTurn(j)' => InTurn(j)
                          /\ pc'[j] \in {"idle", "over"} <=> pc[j] \in {"idle", "over"}
  BY DEF LockInv, LockTyping, InTurn
<1> QED
  BY <1>1, <1>2, <1>3 DEF LockInv

LEMMA AcquireKeepsLock ==
  ASSUME LockInv, NEW i \in Requests, Acquire(i)
  PROVE  LockInv'
<1>1. PICK e \in EntryOf :
        /\ table' = e
        /\ users' = [users EXCEPT ![e] = @ + 1]
        /\ entry' = [entry EXCEPT ![i] = e]
        /\ \/ /\ holder[e] = None
              /\ holder' = [holder EXCEPT ![e] = i]
              /\ pc' = [pc EXCEPT ![i] = "acquired"]
           \/ /\ pc' = [pc EXCEPT ![i] = "waiting"]
              /\ UNCHANGED holder
  BY DEF Acquire, Counted, Goto
<1>2. e \in Entries /\ (table # None => e = table) /\ entry[i] = None
  BY DEF LockInv, LockTyping, EntryOf, FreshEntries, Acquire
<1>3. LockTyping'
  BY <1>1, <1>2 DEF LockInv, LockTyping, PCs
<1>4. \A f \in Entries : users'[f] = Cardinality(Users(f)')
  <2> TAKE f \in Entries
  <2>1. users[f] = Cardinality(Users(f)) /\ users[f] \in Int
    BY DEF LockInv, LockTyping
  <2>2. users'[f] = IF f = e THEN users[f] + 1 ELSE users[f]
    BY <1>1, <1>2 DEF LockInv, LockTyping
  <2>3. Cardinality(Users(f)') = IF f = e THEN Cardinality(Users(f)) + 1
                                          ELSE Cardinality(Users(f))
    BY <1>1, <1>2, OneMoreUser DEF LockInv
  <2> QED
    BY <2>1, <2>2, <2>3
<1>5. \A j \in Requests \ {i} : entry'[j] = entry[j] /\ pc'[j] = pc[j]
  BY <1>1 DEF LockInv, LockTyping
<1>6. /\ entry'[i] = e /\ e # None
      /\ pc'[i] \in {"acquired", "waiting"}
      /\ pc'[i] = "acquired" => holder'[e] = i
  BY <1>1, <1>2, ChatConstants DEF LockInv, LockTyping
<1>7. ASSUME NEW j \in Requests, entry'[j] # None
      PROVE  entry'[j] = table'
  BY <1>1, <1>2, <1>5, <1>6, <1>7, ChatConstants DEF LockInv, LockTyping
<1>8. ASSUME NEW j \in Requests, InTurn(j)'
      PROVE  holder'[entry'[j]] = j
  <2>1. CASE j = i
    BY <1>6, <1>8, <2>1 DEF InTurn
  <2>2. CASE j # i
    <3>1. InTurn(j) /\ entry'[j] = entry[j] /\ entry[j] = e /\ holder[e] = j
      BY <1>2, <1>5, <1>8, <2>2, ChatConstants DEF LockInv, LockTyping, InTurn
    <3>2. holder[e] # None
      BY <3>1, ChatConstants
    <3> QED
      BY <1>1, <3>1, <3>2
  <2> QED
    BY <2>1, <2>2
<1>9. \A j \in Requests : entry'[j] = None <=> pc'[j] \in {"idle", "over"}
  BY <1>5, <1>6 DEF LockInv
<1> QED
  BY <1>3, <1>4, <1>7, <1>8, <1>9 DEF LockInv

LEMMA WakeKeepsLock ==
  ASSUME LockInv, NEW i \in Requests, Wake(i)
  PROVE  LockInv'
<1> DEFINE e == entry[i]
<1>1. /\ pc[i] = "waiting" /\ holder[e] = None
      /\ holder' = [holder EXCEPT ![e] = i]
      /\ pc' = [pc EXCEPT ![i] = "acquired"]
      /\ UNCHANGED <<table, users, entry>>
  BY DEF Wake, Goto
<1>2. e \in Entries /\ e = table
  BY <1>1 DEF LockInv, LockTyping
<1>3. LockTyping'
  BY <1>1, <1>2 DEF LockInv, LockTyping, PCs
<1>4. \A f \in Entries : users'[f] = Cardinality(Users(f)')
  <2>1. \A f : Users(f)' = Users(f)
    BY <1>1 DEF Users
  <2> QED
    BY <1>1, <2>1 DEF LockInv
<1>5. ASSUME NEW j \in Requests, InTurn(j)'
      PROVE  holder'[entry'[j]] = j
  <2>1. CASE j = i
    BY <1>1, <1>2, <2>1 DEF LockInv, LockTyping
  <2>2. CASE j # i
    <3>1. InTurn(j) /\ entry[j] = e /\ holder[e] = j
      BY <1>1, <1>2, <1>5, <2>2 DEF LockInv, LockTyping, InTurn
    <3> QED
      BY <1>1, <3>1, ChatConstants
  <2> QED
    BY <2>1, <2>2
<1>6. \A j \in Requests : entry'[j] = None <=> pc'[j] \in {"idle", "over"}
  BY <1>1 DEF LockInv, LockTyping
<1> QED
  BY <1>1, <1>3, <1>4, <1>5, <1>6 DEF LockInv

-----------------------------------------------------------------------------
LEMMA LockInductive == LockInv /\ [Next]_vars => LockInv'
<1> SUFFICES ASSUME LockInv, [Next]_vars
             PROVE  LockInv'
  OBVIOUS
<1> USE DEF Requests
<1>1. ASSUME NEW i \in Requests, Acquire(i) \/ Wake(i)
      PROVE  LockInv'
  BY <1>1, AcquireKeepsLock, WakeKeepsLock
<1>2. ASSUME NEW i \in Requests, CancelWaiting(i)
      PROVE  LockInv'
  BY <1>2, ReleaseKeepsLock DEF CancelWaiting, LockInv
<1>3. ASSUME NEW i \in Chats, ChatStep(i)
      PROVE  LockInv'
  <2>1. CASE BeginChat(i) \/ PlanAborted(i) \/ Closed(i)
    <3>1. entry[i] # None
      BY <2>1 DEF BeginChat, PlanAborted, Closed, LockInv
    <3>2. CASE Release(i)
      BY <3>1, <3>2, ReleaseKeepsLock
    <3>3. CASE ~Release(i)
      BY <2>1, <3>3, StepWithinTurn DEF BeginChat, PlanAborted, Closed, Goto, PCs
    <3> QED
      BY <3>2, <3>3
  <2>2. CASE PlanDone(i) \/ Start(i) \/ Sent(i) \/ Archived(i) \/ Ended(i)
    BY <2>2, StepWithinTurn DEF PlanDone, Start, Sent, Archived, Ended, Goto, PCs, locks
  <2>3. CASE Get(i)
    BY <2>3, StepWithinTurn DEF Get, Goto, PCs, locks
  <2> QED
    BY <1>3, <2>1, <2>2, <2>3 DEF ChatStep
<1>4. ASSUME NEW i \in Chats, ModelStep(i) \/ QueueStep(i) \/ Collect(i)
      PROVE  LockInv'
  BY <1>4, StepWithinTurn DEF ModelStep, QueueStep, CallModel, OnToken, ModelDone,
     ModelFailed, PutToken, PutError, PutFinished, Collect, locks
<1>5. ASSUME NEW i \in Chats, ClientStep(i)
      PROVE  LockInv'
  BY <1>5, StepWithinTurn DEF ClientStep, NeverStarted, Leave, Goto, PCs, locks
<1>6. ASSUME NEW i \in Deletes, DeleteStep(i)
      PROVE  LockInv'
  <2>1. entry[i] # None
    BY <1>6 DEF DeleteStep, BeginDelete, DeleteDone, DeleteFailed, LockInv
  <2>2. CASE Release(i)
    BY <2>1, <2>2, ReleaseKeepsLock
  <2>3. CASE ~Release(i)
    BY <1>6, <2>3, StepWithinTurn
       DEF DeleteStep, BeginDelete, DeleteDone, DeleteFailed, Goto, PCs
  <2> QED
    BY <2>2, <2>3
<1>7. CASE UNCHANGED vars
  BY <1>7 DEF vars, locks, LockInv, LockTyping, InTurn, Users
<1> QED
  BY <1>1, <1>2, <1>3, <1>4, <1>5, <1>6, <1>7 DEF Next

LEMMA LockAlways == Spec => []LockInv
  BY InitLock, LockInductive, PTL DEF Spec

(* acquire_turn and release_turn exclude: no interleaving of arrivals,      *)
(* cancellations and releases puts two requests in a turn of one dialog.    *)
THEOREM TurnsExclude == Spec => []OneTurnAtATime
<1>1. LockInv => OneTurnAtATime
  BY DEF LockInv, OneTurnAtATime, InTurn
<1> QED
  BY <1>1, LockAlways, PTL

(* The users of an entry are counted exactly, waiters included, so an entry *)
(* somebody refers to is always the one in the table.                       *)
THEOREM CountingIsExact == Spec => []EntriesAreCounted
<1>1. LockInv => EntriesAreCounted
  <2> SUFFICES ASSUME LockInv, NEW e \in Entries
               PROVE  /\ users[e] = Cardinality(Users(e))
                      /\ users[e] > 0 => table = e
    BY DEF EntriesAreCounted, Users
  <2>1. users[e] = Cardinality(Users(e))
    BY DEF LockInv
  <2>2. CASE Users(e) = {}
    BY <2>1, <2>2, FS_EmptySet
  <2>3. CASE Users(e) # {}
    BY <2>1, <2>3, ChatConstants DEF LockInv, LockTyping, Users
  <2> QED
    BY <2>2, <2>3
<1> QED
  BY <1>1, LockAlways, PTL

(* The two as the run checks them: acquire_turn and release_turn exclude    *)
(* because the entry they share is counted exactly.                         *)
THEOREM TurnsHold == Spec => []TurnsAreExclusive
  BY TurnsExclude, CountingIsExact, PTL DEF TurnsAreExclusive

-----------------------------------------------------------------------------
(* The dialog.  A turn that is between its question and its answer finds    *)
(* its question where it left it, because nobody else is in a turn.         *)
Questioning == {"returned", "sending", "getting"}
Writing == {"planning", "deleting"} \cup Questioning

DialogTyping ==
  /\ completed \in [Chats -> BOOLEAN]
  /\ transcript \in Seq({"user", "assistant"} \X Chats)

DialogInv ==
  /\ DialogTyping
  /\ \A i \in Requests : pc[i] \in Writing => exists
  /\ \A i \in Requests : pc[i] \in Questioning =>
       transcript # <<>> /\ transcript[Len(transcript)] = <<"user", i>>
  /\ TranscriptIsSound

(* Who writes to the dialog is in a turn, so nobody else is writing.        *)
LEMMA WritersExclude ==
  ASSUME LockInv, NEW i \in Requests, NEW j \in Requests,
         pc[i] \in Writing, pc[j] \in Writing
  PROVE  i = j
<1>1. InTurn(i) /\ InTurn(j)
  BY DEF LockInv, InTurn, Writing, Questioning
<1> QED
  BY <1>1 DEF LockInv, InTurn

LEMMA InitDialog == Init => DialogInv
<1> SUFFICES ASSUME Init
             PROVE  DialogInv
  OBVIOUS
<1>1. DialogTyping
  BY DEF Init, DialogTyping
<1>2. DOMAIN transcript = {}
  BY DEF Init
<1>3. TranscriptIsSound
  BY <1>2 DEF TranscriptIsSound, AnswersFollowQuestions, OnlyCompleteAnswers
<1> QED
  BY <1>1, <1>3 DEF Init, DialogInv, Writing, Questioning

(* A step that leaves the dialog alone, and lets nobody write to a dialog   *)
(* that is gone.                                                            *)
LEMMA QuietStepKeepsDialog ==
  ASSUME DialogInv, UNCHANGED dialog,
         completed' \in [Chats -> BOOLEAN],
         \A i \in Chats : completed[i] => completed'[i],
         \A i \in Requests : /\ pc'[i] \in Questioning => pc[i] \in Questioning
                             /\ pc'[i] \in Writing => pc[i] \in Writing \/ exists
  PROVE  DialogInv'
<1>1. exists' = exists /\ transcript' = transcript
  BY DEF dialog
<1>2. DialogTyping'
  BY <1>1 DEF DialogInv, DialogTyping
<1>3. AnswersFollowQuestions'
  BY <1>1 DEF DialogInv, TranscriptIsSound, AnswersFollowQuestions
<1>4. OnlyCompleteAnswers'
  <2> SUFFICES ASSUME NEW n \in DOMAIN transcript, transcript[n][1] = "assistant"
               PROVE  completed'[transcript[n][2]]
    BY <1>1 DEF OnlyCompleteAnswers
  <2>1. completed[transcript[n][2]]
    BY DEF DialogInv, TranscriptIsSound, OnlyCompleteAnswers
  <2>2. transcript[n] \in {"user", "assistant"} \X Chats
    BY DEF DialogInv, DialogTyping
  <2> QED
    BY <2>1, <2>2
<1> QED
  BY <1>1, <1>2, <1>3, <1>4 DEF DialogInv, TranscriptIsSound

(* A message appended to a sound transcript keeps it sound: a question      *)
(* always does, an answer when its question was last and it is complete.    *)
LEMMA AppendingKeepsSound ==
  ASSUME DialogTyping, TranscriptIsSound, NEW i \in Chats,
         NEW role \in {"user", "assistant"},
         transcript' = Append(transcript, <<role, i>>), completed' = completed,
         role = "assistant" => /\ completed[i]
                               /\ transcript # <<>>
                               /\ transcript[Len(transcript)] = <<"user", i>>
  PROVE  /\ DialogTyping' /\ TranscriptIsSound'
         /\ transcript' # <<>> /\ transcript'[Len(transcript')] = <<role, i>>
<1> DEFINE message == <<role, i>>
<1>1. message \in {"user", "assistant"} \X Chats /\ message[1] = role /\ message[2] = i
  OBVIOUS
<1>2. /\ Len(transcript') = Len(transcript) + 1 /\ Len(transcript) \in Nat
      /\ \A n \in 1 .. Len(transcript) : transcript'[n] = transcript[n]
      /\ transcript'[Len(transcript) + 1] = message
      /\ transcript' \in Seq({"user", "assistant"} \X Chats)
      /\ DOMAIN transcript' = 1 .. Len(transcript) + 1
      /\ DOMAIN transcript = 1 .. Len(transcript)
  BY <1>1 DEF DialogTyping
<1> HIDE DEF message
<1>3. AnswersFollowQuestions'
  <2> SUFFICES ASSUME NEW n \in DOMAIN transcript', transcript'[n][1] = "assistant"
               PROVE  n > 1 /\ transcript'[n - 1] = <<"user", transcript'[n][2]>>
    BY DEF AnswersFollowQuestions
  <2>1. CASE n \in DOMAIN transcript
    <3>1. transcript'[n] = transcript[n]
      BY <1>2, <2>1
    <3>2. n > 1 /\ transcript[n - 1] = <<"user", transcript[n][2]>>
      BY <2>1, <3>1 DEF TranscriptIsSound, AnswersFollowQuestions
    <3>3. n - 1 \in 1 .. Len(transcript)
      BY <1>2, <2>1, <3>2
    <3> QED
      BY <1>2, <3>1, <3>2, <3>3
  <2>2. CASE n = Len(transcript) + 1
    <3>1. transcript'[n] = message /\ role = "assistant"
      BY <1>1, <1>2, <2>2
    <3>2. transcript # <<>> /\ transcript[Len(transcript)] = <<"user", i>>
      BY <3>1
    <3>3. Len(transcript) \in 1 .. Len(transcript)
      BY <1>2, <3>2 DEF DialogTyping
    <3> QED
      BY <1>1, <1>2, <2>2, <3>1, <3>2, <3>3
  <2> QED
    BY <1>2, <2>1, <2>2
<1>4. OnlyCompleteAnswers'
  <2> SUFFICES ASSUME NEW n \in DOMAIN transcript', transcript'[n][1] = "assistant"
               PROVE  completed'[transcript'[n][2]]
    BY DEF OnlyCompleteAnswers
  <2>1. CASE n \in DOMAIN transcript
    <3>1. transcript'[n] = transcript[n]
      BY <1>2, <2>1
    <3> QED
      BY <2>1, <3>1 DEF TranscriptIsSound, OnlyCompleteAnswers
  <2>2. CASE n = Len(transcript) + 1
    BY <1>1, <1>2, <2>2
  <2> QED
    BY <1>2, <2>1, <2>2
<1>5. completed' \in [Chats -> BOOLEAN]
  BY DEF DialogTyping
<1>6. transcript' # <<>> /\ transcript'[Len(transcript')] = message
  BY <1>2
<1> QED
  BY <1>2, <1>3, <1>4, <1>5, <1>6 DEF DialogTyping, TranscriptIsSound, message

LEMMA PlanDoneKeepsDialog ==
  ASSUME LockInv, DialogInv, NEW i \in Chats, PlanDone(i)
  PROVE  DialogInv'
<1>1. i \in Requests /\ pc[i] \in Writing /\ pc' = [pc EXCEPT ![i] = "returned"]
  BY DEF PlanDone, Goto, Requests, Writing
<1>2. /\ transcript' = Append(transcript, <<"user", i>>)
      /\ exists' = TRUE
      /\ completed' = completed
  BY DEF PlanDone, stream
<1>3. /\ DialogTyping' /\ TranscriptIsSound'
      /\ transcript' # <<>> /\ transcript'[Len(transcript')] = <<"user", i>>
  BY <1>2, AppendingKeepsSound DEF DialogInv
<1>4. \A j \in Requests : pc'[j] \in Questioning => j = i
  BY <1>1, WritersExclude DEF LockInv, LockTyping, Writing
<1> QED
  BY <1>2, <1>3, <1>4 DEF DialogInv

LEMMA GetKeepsDialog ==
  ASSUME LockInv, DialogInv, NEW i \in Chats, Get(i)
  PROVE  DialogInv'
<1>1. i \in Requests /\ pc[i] \in Questioning /\ pc[i] \in Writing /\ completed' = completed
  BY DEF Get, Requests, Writing, Questioning
<1>2. CASE UNCHANGED dialog
  <2>1. \A j \in Requests : /\ pc'[j] \in Questioning => pc[j] \in Questioning
                            /\ pc'[j] \in Writing => pc[j] \in Writing
    BY <1>1 DEF Get, Goto, LockInv, LockTyping, Writing, Questioning
  <2> QED
    BY <1>1, <1>2, <2>1, QuietStepKeepsDialog DEF DialogInv, DialogTyping
<1>3. CASE ~UNCHANGED dialog
  <2>1. /\ completed[i]
        /\ transcript' = Append(transcript, <<"assistant", i>>)
        /\ exists' = TRUE
        /\ pc' = [pc EXCEPT ![i] = "archiving"]
    BY <1>3 DEF Get, Goto, FinalAnswer
  <2>2. DialogTyping' /\ TranscriptIsSound'
    BY <1>1, <2>1, AppendingKeepsSound DEF DialogInv
  <2>3. \A j \in Requests : pc'[j] \notin Writing
    BY <1>1, <2>1, WritersExclude DEF LockInv, LockTyping, Writing, Questioning
  <2> QED
    BY <2>2, <2>3 DEF DialogInv, Writing
<1> QED
  BY <1>2, <1>3

LEMMA DeleteDoneKeepsDialog ==
  ASSUME LockInv, DialogInv, NEW i \in Deletes, DeleteDone(i)
  PROVE  DialogInv'
<1>1. /\ i \in Requests /\ pc[i] \in Writing
      /\ pc' = [pc EXCEPT ![i] = "over"]
      /\ transcript' = <<>> /\ completed' = completed
  BY DEF DeleteDone, Release, Goto, Requests, Writing, stream
<1>2. \A j \in Requests : pc'[j] \notin Writing
  BY <1>1, WritersExclude DEF LockInv, LockTyping, Writing, Questioning
<1>3. DialogTyping'
  BY <1>1 DEF DialogInv, DialogTyping
<1>4. DOMAIN transcript' = {}
  BY <1>1
<1>5. TranscriptIsSound'
  BY <1>4 DEF TranscriptIsSound, AnswersFollowQuestions, OnlyCompleteAnswers
<1> QED
  BY <1>2, <1>3, <1>5 DEF DialogInv, Writing

LEMMA DialogInductive == LockInv /\ DialogInv /\ [Next]_vars => DialogInv'
<1> SUFFICES ASSUME LockInv, DialogInv, [Next]_vars
             PROVE  DialogInv'
  OBVIOUS
<1>1. completed \in [Chats -> BOOLEAN] /\ pc \in [Requests -> PCs]
  BY DEF DialogInv, DialogTyping, LockInv, LockTyping
<1> USE DEF Requests
<1>2. ASSUME NEW i \in Requests, Acquire(i) \/ Wake(i) \/ CancelWaiting(i)
      PROVE  DialogInv'
  <2>1. UNCHANGED dialog /\ completed' = completed
    BY <1>2 DEF Acquire, Wake, CancelWaiting, stream
  <2>2. \E label \in {"acquired", "waiting", "over"} : pc' = [pc EXCEPT ![i] = label]
    BY <1>2 DEF Acquire, Wake, CancelWaiting, Release, Goto
  <2> QED
    BY <1>1, <2>1, <2>2, QuietStepKeepsDialog DEF Writing, Questioning
<1>3. ASSUME NEW i \in Chats, ChatStep(i)
      PROVE  DialogInv'
  <2>1. CASE PlanDone(i) \/ Get(i)
    BY <2>1, PlanDoneKeepsDialog, GetKeepsDialog
  <2>2. CASE BeginChat(i)
    <3>1. UNCHANGED dialog /\ completed' = completed
      BY <2>2 DEF BeginChat, stream
    <3>2. \/ exists /\ pc' = [pc EXCEPT ![i] = "planning"]
          \/ pc' = [pc EXCEPT ![i] = "over"]
      BY <2>2 DEF BeginChat, Release, Goto, DialogKnown
    <3> QED
      BY <1>1, <3>1, <3>2, QuietStepKeepsDialog DEF Writing, Questioning
  <2>3. CASE PlanAborted(i) \/ Start(i) \/ Sent(i) \/ Archived(i) \/ Ended(i) \/ Closed(i)
    <3>1. UNCHANGED dialog /\ completed' = completed
      BY <2>3 DEF PlanAborted, Start, Sent, Archived, Ended, Closed, stream
    <3>2. \/ pc[i] \in Questioning /\ pc' = [pc EXCEPT ![i] = "sending"]
          \/ pc[i] \in Questioning /\ pc' = [pc EXCEPT ![i] = "getting"]
          \/ \E label \in {"ending", "closing", "over"} : pc' = [pc EXCEPT ![i] = label]
      BY <2>3 DEF PlanAborted, Start, Sent, Archived, Ended, Closed, Release, Goto, Questioning
    <3>3. \A j \in Requests : /\ pc'[j] \in Questioning => pc[j] \in Questioning
                              /\ pc'[j] \in Writing => pc[j] \in Writing
      BY <1>1, <3>2 DEF Writing, Questioning
    <3> QED
      BY <1>1, <3>1, <3>3, QuietStepKeepsDialog
  <2> QED
    BY <1>3, <2>1, <2>2, <2>3 DEF ChatStep
<1>4. ASSUME NEW i \in Chats, ModelStep(i) \/ QueueStep(i) \/ Collect(i)
      PROVE  DialogInv'
  <2>1. UNCHANGED dialog /\ pc' = pc
    BY <1>4 DEF ModelStep, QueueStep, CallModel, OnToken, ModelDone, ModelFailed,
       PutToken, PutError, PutFinished, Collect
  <2>2. completed' = completed \/ completed' = [completed EXCEPT ![i] = TRUE]
    BY <1>4 DEF ModelStep, QueueStep, CallModel, OnToken, ModelDone, ModelFailed,
       PutToken, PutError, PutFinished, Collect
  <2> QED
    BY <1>1, <2>1, <2>2, QuietStepKeepsDialog
<1>5. ASSUME NEW i \in Chats, ClientStep(i)
      PROVE  DialogInv'
  <2>1. UNCHANGED dialog /\ completed' = completed
    BY <1>5 DEF ClientStep, NeverStarted, Leave, stream
  <2>2. \E label \in {"lost", "closing"} : pc' = [pc EXCEPT ![i] = label]
    BY <1>5 DEF ClientStep, NeverStarted, Leave, Goto
  <2> QED
    BY <1>1, <2>1, <2>2, QuietStepKeepsDialog DEF Writing, Questioning
<1>6. ASSUME NEW i \in Deletes, DeleteStep(i)
      PROVE  DialogInv'
  <2>1. CASE DeleteDone(i)
    BY <2>1, DeleteDoneKeepsDialog
  <2>2. CASE BeginDelete(i) \/ DeleteFailed(i)
    <3>1. UNCHANGED dialog /\ completed' = completed
      BY <2>2 DEF BeginDelete, DeleteFailed, stream
    <3>2. \/ exists /\ pc' = [pc EXCEPT ![i] = "deleting"]
          \/ pc' = [pc EXCEPT ![i] = "over"]
      BY <2>2 DEF BeginDelete, DeleteFailed, Release, Goto
    <3> QED
      BY <1>1, <3>1, <3>2, QuietStepKeepsDialog DEF Writing, Questioning
  <2> QED
    BY <1>6, <2>1, <2>2 DEF DeleteStep
<1>7. CASE UNCHANGED vars
  BY <1>1, <1>7, QuietStepKeepsDialog DEF vars, stream
<1> QED
  BY <1>2, <1>3, <1>4, <1>5, <1>6, <1>7 DEF Next

LEMMA DialogAlways == Spec => [](LockInv /\ DialogInv)
  BY InitLock, InitDialog, LockInductive, DialogInductive, PTL DEF Spec

(* The chat handlers and the streaming responses of any number of browsers  *)
(* write a transcript whose answers directly follow their questions, and    *)
(* keep only answers the model completed.                                   *)
THEOREM TranscriptHolds == Spec => []TranscriptIsSound
<1>1. DialogInv => TranscriptIsSound
  BY DEF DialogInv
<1> QED
  BY <1>1, DialogAlways, PTL

(* append_message would create a missing conversation again, yet no step of *)
(* any turn recreates a dialog that delete_conversation removed.            *)
THEOREM DeletionHolds == Spec => DeletionIsFinal
<1>1. LockInv /\ DialogInv /\ [Next]_vars => [~exists => ~exists']_vars
  <2> SUFFICES ASSUME DialogInv, Next, ~exists
               PROVE  ~exists'
    BY DEF vars, dialog
  <2>1. \A i \in Requests : pc[i] \notin {"planning", "getting"}
    BY DEF DialogInv, Writing, Questioning
  <2>2. exists' = exists \/ exists' = FALSE
    <3>1. ASSUME NEW i \in Requests, Acquire(i) \/ Wake(i) \/ CancelWaiting(i)
          PROVE  exists' = exists
      BY <3>1 DEF Acquire, Wake, CancelWaiting, dialog
    <3>2. ASSUME NEW i \in Chats, ChatStep(i)
          PROVE  exists' = exists
      BY <2>1, <3>2 DEF ChatStep, BeginChat, PlanDone, PlanAborted, Start, Sent, Get,
         Archived, Ended, Closed, dialog, Requests
    <3>3. ASSUME NEW i \in Chats,
                 ModelStep(i) \/ QueueStep(i) \/ ClientStep(i) \/ Collect(i)
          PROVE  exists' = exists
      BY <3>3 DEF ModelStep, QueueStep, ClientStep, CallModel, OnToken, ModelDone,
         ModelFailed, PutToken, PutError, PutFinished, NeverStarted, Leave, Collect, dialog
    <3>4. ASSUME NEW i \in Deletes, DeleteStep(i)
          PROVE  exists' = exists \/ exists' = FALSE
      BY <3>4 DEF DeleteStep, BeginDelete, DeleteDone, DeleteFailed, dialog
    <3> QED
      BY <3>1, <3>2, <3>3, <3>4 DEF Next
  <2> QED
    BY <2>2
<1> QED
  BY <1>1, DialogAlways, PTL DEF Spec, DeletionIsFinal
=============================================================================
