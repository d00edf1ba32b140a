------------------------- MODULE AgentSessionProofs -------------------------
(***************************************************************************)
(* What is proved of AgentSession and the WorkingMemory under it, for any  *)
(* texts, sizes, budgets, sessions and bounds: a demotion loses a text     *)
(* only when the process dies in it, a change of session loses neither of  *)
(* the two, and a recall makes room for its batch before it commits it.    *)
(*                                                                         *)
(* All rest on the shape of work, the rest of the chain of awaits: a       *)
(* demotion or a change of session never lies in the middle of it, and a   *)
(* recall is alone in it.                                                  *)
(***************************************************************************)
EXTENDS AgentSession, FiniteSetTheorems, SequenceTheorems, WellFoundedInduction, TLAPS

(* The operations that wait for another one of their own chain.             *)
Moving == {"delete", "store"}
Switching == {"load", "fresh"}

Ordinary(w) ==
    /\ w \in Seq(Range(w))
    /\ \A k \in DOMAIN w : w[k].op \notin Moving \union Switching

(* A demotion is the first thing to do, and its text is on record.          *)
Evicting ==
    /\ work # <<>> /\ work \in Seq(Range(work))
    /\ work[1].op \in Moving /\ Ordinary(Rest)
    /\ work[1].item.lineage \in DOMAIN demoted
    /\ demoted[work[1].item.lineage] = work[1].item.text

(* A change of session comes last, after the session left was saved.        *)
Changing ==
    \E o \in Switching, s \in Sessions :
        \/ work = <<[op |-> "truncate", to |-> session], [op |-> "write", to |-> session],
                    [op |-> o, to |-> s]>>
        \/ work = <<[op |-> "write", to |-> session], [op |-> o, to |-> s]>>
        \/ work = <<[op |-> o, to |-> s]>> /\ file[session] = Snapshot

WorkInv == Ordinary(work) \/ Evicting \/ Changing

(* Whatever was demoted is where the cold zone keeps it.                    *)
ColdInv ==
    \A l \in DOMAIN demoted :
        \/ l \in torn \/ Demoting(l)
        \/ l \in DOMAIN cold /\ cold[l].text = demoted[l]

(* The hot set and those in the files are numbered by ids.                  *)
NumberedInv ==
    /\ DOMAIN hot \subseteq Ids
    /\ DOMAIN file = Sessions
    /\ \A s \in Sessions : Loads(s) => DOMAIN file[s].hot \subseteq Ids

RunningInv ==
    /\ session \in Sessions \union {NoSession}
    /\ ~Running => work = <<>>

Inv == NumberedInv /\ RunningInv /\ WorkInv /\ ColdInv

-----------------------------------------------------------------------------
(* Sequences of operations.                                                 *)
LEMMA SequenceOfItsOwn ==
  ASSUME NEW S, NEW w \in Seq(S)
  PROVE  w \in Seq(Range(w))
<1>1. DOMAIN w = 1 .. Len(w) /\ Len(w) \in Nat /\ w \in [1 .. Len(w) -> S]
  OBVIOUS
<1>2. w \in [1 .. Len(w) -> {w[k] : k \in 1 .. Len(w)}]
  BY <1>1
<1>3. w \in Seq({w[k] : k \in 1 .. Len(w)})
  BY <1>1, <1>2, SeqDef
<1> QED
  BY <1>1, <1>3 DEF Range

LEMMA IsOrdinary ==
  ASSUME NEW S, NEW w \in Seq(S),
         \A k \in 1 .. Len(w) : w[k].op \notin Moving \union Switching
  PROVE  Ordinary(w)
<1>1. DOMAIN w = 1 .. Len(w)
  OBVIOUS
<1> QED
  BY <1>1, SequenceOfItsOwn DEF Ordinary

LEMMA OrdinaryIsTyped ==
  ASSUME NEW w, Ordinary(w)
  PROVE  \E S : w \in Seq(S) /\ \A k \in 1 .. Len(w) : w[k].op \notin Moving \union Switching
<1> DEFINE S == Range(w)
<1>1. w \in Seq(S)
  BY DEF Ordinary
<1>2. DOMAIN w = 1 .. Len(w)
  BY <1>1
<1> QED
  BY <1>1, <1>2 DEF Ordinary

LEMMA NothingIsOrdinary == Ordinary(<<>>)
<1>1. <<>> \in Seq({}) /\ \A k \in 1 .. Len(<<>>) : <<>>[k].op \notin Moving \union Switching
  OBVIOUS
<1> QED
  BY <1>1, IsOrdinary, Zenon

LEMMA OneIsOrdinary ==
  ASSUME NEW o, o.op \notin Moving \union Switching
  PROVE  Ordinary(<<o>>)
<1> DEFINE w == <<o>>
<1>1. w \in Seq({o}) /\ Len(w) = 1 /\ w[1] = o
  OBVIOUS
<1> HIDE DEF w
<1>2. \A k \in 1 .. Len(w) : w[k].op \notin Moving \union Switching
  BY <1>1
<1>3. Ordinary(w)
  BY <1>1, <1>2, IsOrdinary, Zenon
<1> QED
  BY <1>3 DEF w

LEMMA TwoAreOrdinary ==
  ASSUME NEW o, NEW p, {o.op, p.op} \cap (Moving \union Switching) = {}
  PROVE  Ordinary(<<o, p>>)
<1> DEFINE w == <<o, p>>
<1>1. w \in Seq({o, p}) /\ Len(w) = 2 /\ w[1] = o /\ w[2] = p
  OBVIOUS
<1> HIDE DEF w
<1>2. \A k \in 1 .. Len(w) : w[k].op \notin Moving \union Switching
  BY <1>1
<1>3. Ordinary(w)
  BY <1>1, <1>2, IsOrdinary, Zenon
<1> QED
  BY <1>3 DEF w

LEMMA JoinedIsOrdinary ==
  ASSUME NEW v, NEW w, Ordinary(v), Ordinary(w)
  PROVE  Ordinary(v \o w)
<1>1. PICK S : v \in Seq(S) /\ \A k \in 1 .. Len(v) : v[k].op \notin Moving \union Switching
  BY OrdinaryIsTyped
<1>2. PICK T : w \in Seq(T) /\ \A k \in 1 .. Len(w) : w[k].op \notin Moving \union Switching
  BY OrdinaryIsTyped
<1>3. v \in Seq(S \union T) /\ w \in Seq(S \union T)
  BY <1>1, <1>2, SeqMonotonic
<1>4. /\ v \o w \in Seq(S \union T) /\ Len(v \o w) = Len(v) + Len(w)
      /\ \A k \in 1 .. Len(v) + Len(w) :
           (v \o w)[k] = IF k <= Len(v) THEN v[k] ELSE w[k - Len(v)]
  BY <1>3, ConcatProperties
<1>5. Len(v) \in Nat /\ Len(w) \in Nat
  BY <1>1, <1>2
<1>6. ASSUME NEW k \in 1 .. Len(v \o w)
      PROVE  (v \o w)[k].op \notin Moving \union Switching
  <2>1. CASE k <= Len(v)
    BY <1>1, <1>4, <1>5, <1>6, <2>1
  <2>2. CASE ~(k <= Len(v))
    <3>1. k - Len(v) \in 1 .. Len(w) /\ (v \o w)[k] = w[k - Len(v)]
      BY <1>4, <1>5, <1>6, <2>2
    <3> QED
      BY <1>2, <3>1
  <2> QED
    BY <2>1, <2>2
<1> QED
  BY <1>4, <1>6, IsOrdinary

LEMMA RestIsOrdinary ==
  ASSUME NEW w, Ordinary(w), w # <<>>
  PROVE  Ordinary(Tail(w))
<1>1. PICK S : w \in Seq(S) /\ \A k \in 1 .. Len(w) : w[k].op \notin Moving \union Switching
  BY OrdinaryIsTyped
<1>2. /\ Tail(w) \in Seq(S) /\ Len(Tail(w)) = Len(w) - 1 /\ Len(w) \in Nat \ {0}
      /\ \A k \in 1 .. Len(Tail(w)) : Tail(w)[k] = w[k + 1]
  BY <1>1, HeadTailProperties, EmptySeq
<1>3. \A k \in 1 .. Len(Tail(w)) : Tail(w)[k].op \notin Moving \union Switching
  BY <1>1, <1>2
<1> QED
  BY <1>2, <1>3, IsOrdinary

LEMMA PushedBefore ==
  ASSUME NEW o, NEW w, Ordinary(w), NEW v, v = <<o>> \o w
  PROVE  /\ v # <<>> /\ v \in Seq(Range(v))
         /\ v[1] = o /\ Tail(v) = w
<1>1. PICK S : w \in Seq(S)
  BY OrdinaryIsTyped
<1>2. w \in Seq(S \union {o}) /\ <<o>> \in Seq(S \union {o})
  BY <1>1, SeqMonotonic
<1>3. /\ v \in Seq(S \union {o}) /\ Len(v) = 1 + Len(w) /\ Len(w) \in Nat
      /\ v[1] = o /\ \A k \in 1 .. Len(w) : v[k + 1] = w[k]
  BY <1>2
<1>4. v # <<>>
  BY <1>3
<1>5. /\ Tail(v) \in Seq(S \union {o}) /\ Len(Tail(v)) = Len(w)
      /\ \A k \in 1 .. Len(w) : Tail(v)[k] = w[k]
  BY <1>3, <1>4, HeadTailProperties
<1>6. Tail(v) = w
  BY <1>2, <1>5, SeqEqual
<1>7. v \in Seq(Range(v))
  BY <1>3, SequenceOfItsOwn, Zenon
<1> QED
  BY <1>3, <1>4, <1>6, <1>7, Zenon

(* What is known of the chain from the operation at its head.               *)
LEMMA OrdinaryHead ==
  ASSUME WorkInv, work # <<>>,
         work[1].op \notin Moving \union Switching \union {"truncate", "write"}
  PROVE  Ordinary(work) /\ Ordinary(Rest)
<1>1. ~Evicting
  BY DEF Evicting
<1>2. ~Changing
  <2> SUFFICES ASSUME Changing PROVE FALSE
    OBVIOUS
  <2>1. work[1].op \in {"truncate", "write"} \union Switching
    BY DEF Changing, Switching
  <2> QED
    BY <2>1
<1>3. Ordinary(work)
  BY <1>1, <1>2 DEF WorkInv
<1> QED
  BY <1>3, RestIsOrdinary DEF Rest

LEMMA MovingHead ==
  ASSUME WorkInv, work # <<>>, work[1].op \in Moving
  PROVE  Evicting
<1>1. ~Ordinary(work)
  <2> SUFFICES ASSUME Ordinary(work) PROVE FALSE
    OBVIOUS
  <2>1. 1 \in DOMAIN work
    BY DEF Ordinary
  <2> QED
    BY <2>1 DEF Ordinary
<1>2. ~Changing
  <2> SUFFICES ASSUME Changing PROVE FALSE
    OBVIOUS
  <2>1. work[1].op \in {"truncate", "write"} \union Switching
    BY DEF Changing, Switching
  <2> QED
    BY <2>1 DEF Moving, Switching
<1> QED
  BY <1>1, <1>2 DEF WorkInv

LEMMA SwitchingHead ==
  ASSUME WorkInv, work # <<>>, work[1].op \in Switching
  PROVE  /\ file[session] = Snapshot /\ Rest = <<>>
         /\ \E o \in Switching, s \in Sessions : work = <<[op |-> o, to |-> s]>>
<1>1. ~Ordinary(work)
  <2> SUFFICES ASSUME Ordinary(work) PROVE FALSE
    OBVIOUS
  <2>1. 1 \in DOMAIN work
    BY DEF Ordinary
  <2> QED
    BY <2>1 DEF Ordinary
<1>2. ~Evicting
  BY DEF Evicting, Moving, Switching
<1>3. Changing
  BY <1>1, <1>2 DEF WorkInv
<1>4. PICK o \in Switching, s \in Sessions :
         work = <<[op |-> o, to |-> s]>> /\ file[session] = Snapshot
  BY <1>3 DEF Changing, Switching
<1> QED
  BY <1>4 DEF Rest

(* A save writes the file of a session; only a change of session relies on  *)
(* which one.                                                               *)
LEMMA SavingHead ==
  ASSUME WorkInv, work # <<>>, work[1].op \in {"truncate", "write"}
  PROVE  \/ Ordinary(work) /\ Ordinary(Rest)
         \/ Changing /\ work[1].to = session
<1>1. ~Evicting
  BY DEF Evicting, Moving
<1>2. CASE Ordinary(work)
  BY <1>2, RestIsOrdinary DEF Rest
<1>3. CASE Changing
  <2>1. work[1].to = session
    BY <1>3 DEF Changing, Switching
  <2> QED
    BY <1>3, <2>1
<1> QED
  BY <1>1, <1>2, <1>3 DEF WorkInv

(* No demotion is going on in a chain that is ordinary or a change.         *)
LEMMA OnlyEvictingDemotes ==
  ASSUME Ordinary(work) \/ Changing, NEW l
  PROVE  ~Demoting(l)
<1> SUFFICES ASSUME Demoting(l) PROVE FALSE
  OBVIOUS
<1>1. work # <<>> /\ work[1].op \in Moving
  BY DEF Demoting, Moving
<1>2. ~Ordinary(work)
  <2> SUFFICES ASSUME Ordinary(work) PROVE FALSE
    OBVIOUS
  <2>1. 1 \in DOMAIN work
    BY <1>1 DEF Ordinary
  <2> QED
    BY <1>1, <2>1 DEF Ordinary
<1>3. ~Changing
  <2> SUFFICES ASSUME Changing PROVE FALSE
    OBVIOUS
  <2>1. work[1].op \in {"truncate", "write"} \union Switching
    BY DEF Changing, Switching
  <2> QED
    BY <1>1, <2>1 DEF Moving, Switching
<1> QED
  BY <1>2, <1>3

-----------------------------------------------------------------------------
(* The operations of the working memory.                                    *)

(* What an operation may do to an ordinary chain.                           *)
Carries(w) == Ordinary(work) /\ Ordinary(w)
Still == UNCHANGED <<cold, demoted, torn>>

LEMMA InsertEffect ==
  ASSUME Inv, NEW id, NEW t, NEW note, NEW pin, NEW after, Ordinary(after),
         Insert(id, t, note, pin, after)
  PROVE  /\ Still /\ Ordinary(work') /\ DOMAIN hot' \subseteq Ids
<1>1. Ordinary(<<EnforceOp>>)
  BY OneIsOrdinary DEF EnforceOp, Moving, Switching
<1>2. Ordinary(work')
  BY <1>1, JoinedIsOrdinary DEF Insert
<1>3. DOMAIN hot' = DOMAIN hot \union {id} /\ id \in Ids
  BY DEF Insert, With, Unpin, IsNextId, FreshIds
<1>4. DOMAIN hot' \subseteq Ids
  BY <1>3 DEF Inv, NumberedInv
<1> QED
  BY <1>2, <1>4 DEF Insert, Still

LEMMA AddEffect ==
  ASSUME Inv, Add \/ CommitRecalled
  PROVE  Still /\ Carries(work') /\ DOMAIN hot' \subseteq Ids
<1>1. CASE Add
  <2>1. Ordinary(work) /\ Ordinary(Rest)
    BY <1>1, OrdinaryHead DEF Inv, Add, Doing, Moving, Switching
  <2> QED
    BY <1>1, <2>1, InsertEffect DEF Add, Carries
<1>2. CASE CommitRecalled
  <2>1. Ordinary(work) /\ Ordinary(Rest)
    BY <1>2, OrdinaryHead DEF Inv, CommitRecalled, Doing, Moving, Switching
  <2> DEFINE mark(id) == [op |-> "mark", id |-> id, cand |-> work[1].cand,
                          need |-> work[1].need]
  <2>2. PICK id \in Ids : Insert(id, work[1].cand.text, FALSE, FALSE, <<mark(id)>> \o Rest)
    BY <1>2 DEF CommitRecalled
  <2>3. Ordinary(<<mark(id)>>)
    BY OneIsOrdinary DEF Moving, Switching
  <2>4. Ordinary(<<mark(id)>> \o Rest)
    BY <2>1, <2>3, JoinedIsOrdinary
  <2> QED
    BY <2>1, <2>2, <2>4, InsertEffect DEF Carries
<1> QED
  BY <1>1, <1>2

LEMMA TouchEffect ==
  ASSUME Inv, MergeNote \/ MarkRecalled
  PROVE  Still /\ Carries(work') /\ DOMAIN hot' \subseteq Ids
<1>1. work # <<>> /\ work[1].op \in {"add", "mark"}
  BY DEF MergeNote, MarkRecalled, Doing
<1>2. Ordinary(work) /\ Ordinary(Rest)
  BY <1>1, OrdinaryHead DEF Inv, Moving, Switching
<1>3. Still /\ work' = Rest
  BY DEF MergeNote, MarkRecalled, Still
<1>4. DOMAIN hot' = DOMAIN hot
  <2>1. CASE MergeNote
    BY <2>1 DEF MergeNote
  <2>2. CASE MarkRecalled
    BY <2>2 DEF MarkRecalled
  <2> QED
    BY <2>1, <2>2
<1> QED
  BY <1>2, <1>3, <1>4 DEF Carries, Inv, NumberedInv

(* The commits of a recalled batch are a sequence, whatever was selected.   *)
LEMMA BatchIsASequence ==
  ASSUME NEW batch \in Selections
  PROVE  batch \in Seq(ColdHits \union DigestHits)
<1>1. PICK s, order : /\ s \subseteq ColdHits \union DigestHits /\ Cardinality(s) \in Nat
                      /\ order \in SetToSeqs(s) /\ batch \in Fitting(order)
  <2>1. PICK order \in UNION {SetToSeqs(s) :
               s \in {x \in SUBSET (ColdHits \union DigestHits) :
                         /\ Cardinality(x) \in 1 .. TopK
                         /\ Cardinality({c.lineage : c \in x}) = Cardinality(x)}} :
             batch \in Fitting(order)
    BY Zenon DEF Selections
  <2>2. PICK s \in SUBSET (ColdHits \union DigestHits) :
          Cardinality(s) \in 1 .. TopK /\ order \in SetToSeqs(s)
    BY <2>1, Zenon
  <2> QED
    BY <2>1, <2>2, MemoryAssumption
<1>2. order \in [1 .. Cardinality(s) -> s]
  BY <1>1 DEF SetToSeqs
<1>3. PICK n \in 1 .. Cardinality(s) : batch = SubSeq(order, 1, n)
  BY <1>1, <1>2 DEF Fitting
<1>4. \A k \in 1 .. n : order[k] \in s
  BY <1>1, <1>2, <1>3
<1>5. batch \in Seq(s)
  BY <1>1, <1>3, <1>4, SubSeqProperties
<1> QED
  BY <1>1, <1>5, SeqMonotonic

LEMMA SelectEffect ==
  ASSUME Inv, SelectBatch
  PROVE  Still /\ Carries(work') /\ DOMAIN hot' \subseteq Ids
<1>1. Ordinary(work) /\ Ordinary(Rest)
  BY OrdinaryHead DEF Inv, SelectBatch, Doing, Moving, Switching
<1>2. Still /\ DOMAIN hot' \subseteq Ids
  BY DEF SelectBatch, Still, Inv, NumberedInv
<1>3. CASE work' = Rest
  BY <1>1, <1>2, <1>3 DEF Carries
<1>4. CASE work' # Rest
  <2> DEFINE commits(batch) == [k \in DOMAIN batch |-> [op |-> "commit", cand |-> batch[k],
                                                        need |-> BatchTokens(batch)]]
             room(batch) == [op |-> "room", need |-> BatchTokens(batch),
                             staged |-> {batch[k].lineage : k \in DOMAIN batch}]
  <2>1. PICK batch \in Selections : work' = <<room(batch)>> \o commits(batch) \o Rest
    BY <1>4 DEF SelectBatch
  <2>2. Ordinary(<<room(batch)>>)
    BY OneIsOrdinary DEF Moving, Switching
  <2>3. PICK n \in Nat : DOMAIN batch = 1 .. n
    <3>1. batch \in Seq(ColdHits \union DigestHits)
      BY <2>1, BatchIsASequence
    <3> QED
      BY <3>1
  <2> DEFINE C == commits(batch)
  <2>4. DOMAIN C = 1 .. n /\ \A k \in 1 .. n : C[k].op = "commit"
    BY <2>3
  <2>5. C \in [1 .. n -> Range(C)]
    BY <2>3 DEF Range
  <2> HIDE DEF C
  <2>6. C \in Seq(Range(C)) /\ Len(C) = n
    BY <2>3, <2>5, SeqDef
  <2>7. Ordinary(C)
    BY <2>4, <2>6, IsOrdinary DEF Moving, Switching
  <2>8. Ordinary(<<room(batch)>> \o C)
    BY <2>2, <2>7, JoinedIsOrdinary
  <2>9. Ordinary(<<room(batch)>> \o C \o Rest)
    BY <1>1, <2>8, JoinedIsOrdinary
  <2> QED
    BY <1>1, <1>2, <2>1, <2>9 DEF Carries, C
<1> QED
  BY <1>3, <1>4

(* Three operations demote: each takes one victim, or is done.              *)
LEMMA DemotingEffect ==
  ASSUME Inv, EnforceBudget \/ MakeRoom \/ Evict
  PROVE  /\ UNCHANGED <<cold, torn>> /\ DOMAIN hot' \subseteq Ids /\ Ordinary(work)
         /\ \/ Ordinary(work') /\ UNCHANGED demoted
            \/ \E v \in DOMAIN hot : \E todo : Ordinary(todo) /\ Pop(v, todo)
<1>1. work # <<>> /\ work[1].op \in {"enforce", "room", "evict"}
  BY DEF EnforceBudget, MakeRoom, Evict, Doing
<1>2. Ordinary(work) /\ Ordinary(Rest)
  BY <1>1, OrdinaryHead DEF Inv, Moving, Switching
<1>3. /\ UNCHANGED <<cold, torn>>
      /\ \/ work' = Rest /\ UNCHANGED <<hot, demoted>>
         \/ \E v \in DOMAIN hot, todo \in {work, Rest} : Pop(v, todo)
  <2>1. CASE EnforceBudget
    BY <2>1 DEF EnforceBudget, Unpinned
  <2>2. CASE MakeRoom
    BY <2>2 DEF MakeRoom, Unpinned
  <2>3. CASE Evict
    BY <2>3 DEF Evict
  <2> QED
    BY <2>1, <2>2, <2>3
<1>4. DOMAIN hot' \subseteq Ids
  BY <1>3 DEF Pop, Without, Inv, NumberedInv
<1> QED
  BY <1>2, <1>3, <1>4

LEMMA PopIsOnRecord ==
  ASSUME Inv, UNCHANGED <<cold, torn>>, Ordinary(work),
         NEW v \in DOMAIN hot, NEW todo, Ordinary(todo), Pop(v, todo)
  PROVE  WorkInv' /\ ColdInv'
<1>1. /\ work' # <<>> /\ work' \in Seq(Range(work'))
      /\ work'[1] = DeleteOp(v) /\ Tail(work') = todo
  BY PushedBefore DEF Pop
<1>2. work'[1].op = "delete" /\ work'[1].item = hot[v]
  BY <1>1 DEF DeleteOp
<1>3. /\ DOMAIN demoted' = DOMAIN demoted \union {hot[v].lineage}
      /\ demoted'[hot[v].lineage] = hot[v].text
      /\ \A l \in DOMAIN demoted \ {hot[v].lineage} : demoted'[l] = demoted[l]
  BY DEF Pop, With
<1>4. Evicting'
  BY <1>1, <1>2, <1>3 DEF Evicting, Rest, Moving
<1>5. ASSUME NEW l \in DOMAIN demoted'
      PROVE  \/ l \in torn' \/ Demoting(l)'
             \/ l \in DOMAIN cold' /\ cold'[l].text = demoted'[l]
  <2>1. CASE l = hot[v].lineage
    BY <1>1, <1>2, <2>1 DEF Demoting
  <2>2. CASE l # hot[v].lineage
    <3>1. l \in DOMAIN demoted /\ demoted'[l] = demoted[l] /\ ~Demoting(l)
      BY <1>3, <1>5, <2>2, OnlyEvictingDemotes
    <3> QED
      BY <3>1 DEF Inv, ColdInv
  <2> QED
    BY <2>1, <2>2
<1> QED
  BY <1>4, <1>5 DEF WorkInv, ColdInv

(* The two awaits of a demotion.                                            *)
LEMMA DeleteColdKeeps ==
  ASSUME Inv, DeleteCold
  PROVE  WorkInv' /\ ColdInv' /\ UNCHANGED <<hot>>
<1> DEFINE item == work[1].item
           store == StoreOp(work[1].id, work[1].item)
<1>1. work # <<>> /\ work[1].op = "delete"
  BY DEF DeleteCold, Doing
<1>2. Evicting
  BY <1>1, MovingHead DEF Inv, Moving
<1>3. /\ work' = <<store>> \o Rest /\ Ordinary(Rest)
      /\ cold' = Without(cold, item.lineage)
      /\ UNCHANGED <<hot, demoted, torn>>
  BY <1>2 DEF DeleteCold, Evicting
<1> HIDE DEF store
<1>4. /\ work' # <<>> /\ work' \in Seq(Range(work'))
      /\ work'[1] = store /\ Tail(work') = Rest
  BY <1>3, PushedBefore, Zenon
<1>5. work'[1].op = "store" /\ work'[1].item = item
  BY <1>4 DEF StoreOp, store
<1>6. Evicting'
  BY <1>2, <1>3, <1>4, <1>5 DEF Evicting, Rest, Moving
<1>7. ASSUME NEW l \in DOMAIN demoted'
      PROVE  \/ l \in torn' \/ Demoting(l)'
             \/ l \in DOMAIN cold' /\ cold'[l].text = demoted'[l]
  <2>1. CASE l = item.lineage
    BY <1>4, <1>5, <2>1 DEF Demoting
  <2>2. CASE l # item.lineage
    <3>1. l \in DOMAIN demoted /\ demoted'[l] = demoted[l] /\ ~Demoting(l)
      BY <1>3, <1>7, <2>2 DEF Demoting
    <3>2. l \in DOMAIN cold => l \in DOMAIN cold' /\ cold'[l] = cold[l]
      BY <1>3, <2>2 DEF Without
    <3> QED
      BY <1>3, <3>1, <3>2 DEF Inv, ColdInv
  <2> QED
    BY <2>1, <2>2
<1> QED
  BY <1>3, <1>6, <1>7 DEF WorkInv, ColdInv

LEMMA StoreColdKeeps ==
  ASSUME Inv, StoreCold
  PROVE  WorkInv' /\ ColdInv' /\ UNCHANGED <<hot>>
<1> DEFINE item == work[1].item
<1>1. work # <<>> /\ work[1].op = "store"
  BY DEF StoreCold, Doing
<1>2. Evicting
  BY <1>1, MovingHead DEF Inv, Moving
<1>3. /\ work' = Rest /\ Ordinary(work')
      /\ cold' = With(cold, item.lineage, [text |-> item.text, orig |-> work[1].id])
      /\ torn' = torn \ {item.lineage}
      /\ UNCHANGED <<hot, demoted>>
  BY <1>2 DEF StoreCold, Evicting
<1>4. ASSUME NEW l \in DOMAIN demoted'
      PROVE  \/ l \in torn'
             \/ l \in DOMAIN cold' /\ cold'[l].text = demoted'[l]
  <2>1. CASE l = item.lineage
    BY <1>2, <1>3, <2>1 DEF Evicting, With
  <2>2. CASE l # item.lineage
    <3>1. l \in DOMAIN demoted /\ demoted'[l] = demoted[l] /\ ~Demoting(l)
      BY <1>3, <1>4, <2>2 DEF Demoting
    <3>2. l \in DOMAIN cold => l \in DOMAIN cold' /\ cold'[l] = cold[l]
      BY <1>3, <2>2 DEF With
    <3> QED
      BY <1>3, <2>2, <3>1, <3>2 DEF Inv, ColdInv
  <2> QED
    BY <2>1, <2>2
<1> QED
  BY <1>3, <1>4 DEF WorkInv, ColdInv

(* A death takes the chain with it; the lineage in flight is torn.          *)
LEMMA LossKeeps ==
  ASSUME Inv, MemoryLost
  PROVE  WorkInv' /\ ColdInv' /\ DOMAIN hot' \subseteq Ids
<1>1. Ordinary(work') /\ hot' = <<>>
  BY NothingIsOrdinary DEF MemoryLost
<1>2. ASSUME NEW l \in DOMAIN demoted'
      PROVE  \/ l \in torn'
             \/ l \in DOMAIN cold' /\ cold'[l].text = demoted'[l]
  BY <1>2 DEF MemoryLost, Inv, ColdInv, Demoting
<1>3. DOMAIN hot' = {}
  BY <1>1
<1> QED
  BY <1>1, <1>2, <1>3 DEF WorkInv, ColdInv

(* A step that leaves the cold zone and the record of demotions alone.      *)
LEMMA StillKeeps ==
  ASSUME Inv, Still, Ordinary(work) \/ Changing, Ordinary(work') \/ Changing'
  PROVE  WorkInv' /\ ColdInv'
<1>1. \A l \in DOMAIN demoted : \/ l \in torn
                                \/ l \in DOMAIN cold /\ cold[l].text = demoted[l]
  BY OnlyEvictingDemotes DEF Inv, ColdInv
<1> QED
  BY <1>1 DEF Still, WorkInv, ColdInv

-----------------------------------------------------------------------------
(* The steps of a turn and of the session.                                  *)

(* The operations a chain is made of, apart from the last of a switch.      *)
LEMMA OpsAreOrdinary ==
  /\ \A t, note, pin : Ordinary(<<AddOp(t, note, pin)>>)
  /\ \A i, t : Ordinary(<<PlanOp(i, t)>>)
  /\ \A i : Ordinary(<<ChatOp(i)>>)
  /\ \A n : Ordinary(<<PushOp(n)>>)
  /\ \A t, note, pin, n : Ordinary(<<AddOp(t, note, pin), PushOp(n)>>)
  /\ \A i, t : Ordinary(<<PlanOp(i, t), TickOp>>)
  /\ \A s : Ordinary(SaveOps(s))
<1> USE DEF AddOp, PlanOp, ChatOp, PushOp, TickOp, Moving, Switching
<1>1. \A t, note, pin : Ordinary(<<AddOp(t, note, pin)>>)
  BY OneIsOrdinary
<1>2. \A i, t : Ordinary(<<PlanOp(i, t)>>)
  BY OneIsOrdinary
<1>3. \A i : Ordinary(<<ChatOp(i)>>)
  BY OneIsOrdinary
<1>4. \A n : Ordinary(<<PushOp(n)>>)
  BY OneIsOrdinary
<1>5. \A t, note, pin, n : Ordinary(<<AddOp(t, note, pin), PushOp(n)>>)
  BY TwoAreOrdinary
<1>6. \A i, t : Ordinary(<<PlanOp(i, t), TickOp>>)
  BY TwoAreOrdinary
<1>7. \A s : Ordinary(SaveOps(s))
  BY TwoAreOrdinary DEF SaveOps
<1> QED
  BY <1>1, <1>2, <1>3, <1>4, <1>5, <1>6, <1>7, Zenon

LEMMA PlanEffect ==
  ASSUME Inv, PlanRequest
  PROVE  Carries(work')
<1>1. Ordinary(work) /\ Ordinary(Rest)
  BY OrdinaryHead DEF Inv, PlanRequest, Doing, Moving, Switching
<1> DEFINE first == IF work[1].i = 1 THEN <<AddOp(work[1].text, FALSE, FALSE), PushOp(1)>>
                                     ELSE <<>>
<1>2. Ordinary(first)
  BY OpsAreOrdinary, NothingIsOrdinary
<1> HIDE DEF first
<1>3. Ordinary(first \o <<ChatOp(work[1].i)>>)
  BY <1>2, OpsAreOrdinary, JoinedIsOrdinary
<1>4. Ordinary(first \o <<ChatOp(work[1].i)>> \o Rest)
  BY <1>1, <1>3, JoinedIsOrdinary
<1>5. work' = first \o <<ChatOp(work[1].i)>> \o Rest \/ work' = <<>>
  BY DEF PlanRequest, first
<1> QED
  BY <1>1, <1>4, <1>5, NothingIsOrdinary DEF Carries

(* What the actions of a reply leave to remember, whatever they are.        *)
LEMMA AddsAreOrdinary ==
  ASSUME NEW actions \in Actions
  PROVE  Ordinary([k \in DOMAIN actions |-> AddOp(actions[k].text, FALSE, actions[k].pin)])
<1> DEFINE A == [k \in DOMAIN actions |-> AddOp(actions[k].text, FALSE, actions[k].pin)]
<1>1. PICK n \in Nat : DOMAIN actions = 1 .. n
  BY SessionAssumption DEF Actions
<1>2. DOMAIN A = 1 .. n /\ \A k \in 1 .. n : A[k].op = "add"
  BY <1>1 DEF AddOp
<1>3. A \in [1 .. n -> Range(A)]
  BY <1>1 DEF Range
<1> HIDE DEF A
<1>4. A \in Seq(Range(A)) /\ Len(A) = n
  BY <1>1, <1>2, <1>3, SeqDef
<1>5. Ordinary(A)
  BY <1>2, <1>4, IsOrdinary DEF Moving, Switching
<1> QED
  BY <1>5 DEF A

LEMMA AnswerEffect ==
  ASSUME Inv, ModelAnswers
  PROVE  Carries(work')
<1>1. Ordinary(work) /\ Ordinary(Rest)
  BY OrdinaryHead DEF Inv, ModelAnswers, Doing, Moving, Switching
<1> DEFINE adds(actions) == [k \in DOMAIN actions |->
                               AddOp(actions[k].text, FALSE, actions[k].pin)]
           again(t) == IF work[1].i < MaxIterations THEN <<PlanOp(work[1].i + 1, t)>>
                                                    ELSE <<>>
<1>2. \/ \E t \in Texts : work' = <<AddOp(t, FALSE, FALSE), PushOp(1)>> \o Rest
      \/ \E actions \in Actions :
            work' = adds(actions) \o <<PushOp(2)>> \o again(actions[1].text) \o Rest
      \/ \E plan \in {<<>>} \union {<<AddOp(t, TRUE, TRUE)>> : t \in Texts} :
            work' = plan \o <<PushOp(1)>> \o Rest
  BY DEF ModelAnswers
<1>3. \A t : Ordinary(again(t))
  BY OpsAreOrdinary, NothingIsOrdinary
<1>4. \A actions \in Actions : Ordinary(adds(actions))
  BY AddsAreOrdinary
<1> HIDE DEF again, adds
<1>5. CASE \E t \in Texts : work' = <<AddOp(t, FALSE, FALSE), PushOp(1)>> \o Rest
  BY <1>1, <1>5, OpsAreOrdinary, JoinedIsOrdinary DEF Carries
<1>6. CASE \E actions \in Actions :
             work' = adds(actions) \o <<PushOp(2)>> \o again(actions[1].text) \o Rest
  <2>1. PICK v, w : /\ Ordinary(v) /\ Ordinary(w)
                    /\ work' = v \o <<PushOp(2)>> \o w \o Rest
    BY <1>3, <1>4, <1>6
  <2>2. Ordinary(v \o <<PushOp(2)>>)
    BY <2>1, OpsAreOrdinary, JoinedIsOrdinary
  <2>3. Ordinary(v \o <<PushOp(2)>> \o w)
    BY <2>1, <2>2, JoinedIsOrdinary
  <2> QED
    BY <1>1, <2>1, <2>3, JoinedIsOrdinary DEF Carries
<1>7. CASE \E plan \in {<<>>} \union {<<AddOp(t, TRUE, TRUE)>> : t \in Texts} :
             work' = plan \o <<PushOp(1)>> \o Rest
  <2>1. PICK plan : Ordinary(plan) /\ work' = plan \o <<PushOp(1)>> \o Rest
    BY <1>7, OpsAreOrdinary, NothingIsOrdinary
  <2>2. Ordinary(plan \o <<PushOp(1)>>)
    BY <2>1, OpsAreOrdinary, JoinedIsOrdinary
  <2> QED
    BY <1>1, <2>1, <2>2, JoinedIsOrdinary DEF Carries
<1> QED
  BY <1>2, <1>5, <1>6, <1>7

LEMMA PushAndTickEffect ==
  ASSUME Inv, PushTail \/ Tick
  PROVE  Carries(work')
<1>1. Ordinary(work) /\ Ordinary(Rest)
  BY OrdinaryHead DEF Inv, PushTail, Tick, Doing, Moving, Switching
<1>2. work' = Rest \/ work' = SaveOps(session) \o Rest
  BY DEF PushTail, Tick
<1> QED
  BY <1>1, <1>2, OpsAreOrdinary, JoinedIsOrdinary DEF Carries

LEMMA CompactEffect ==
  ASSUME Inv, Compact
  PROVE  Carries(work')
<1>1. Ordinary(work) /\ Ordinary(Rest)
  BY OrdinaryHead DEF Inv, Compact, Doing, Moving, Switching
<1>2. CASE work' = Rest
  BY <1>1, <1>2 DEF Carries
<1>3. CASE work' # Rest
  <2> DEFINE evicts(order) == [k \in DOMAIN order |-> [op |-> "evict", id |-> order[k]]]
  <2>1. PICK t \in Texts, order \in SetToSeqs(DOMAIN hot) :
           work' = evicts(order) \o <<AddOp(t, TRUE, TRUE)>> \o Rest
    BY <1>3 DEF Compact
  <2>2. Cardinality(DOMAIN hot) \in Nat
    <3>1. IsFiniteSet(Ids)
      BY MemoryAssumption, FS_Interval DEF Ids
    <3> QED
      BY <3>1, FS_Subset, FS_CardinalityType DEF Inv, NumberedInv
  <2>3. PICK n \in Nat : DOMAIN order = 1 .. n
    BY <2>1, <2>2 DEF SetToSeqs
  <2> DEFINE E == evicts(order)
  <2>4. DOMAIN E = 1 .. n /\ \A k \in 1 .. n : E[k].op = "evict"
    BY <2>3
  <2>5. E \in [1 .. n -> Range(E)]
    BY <2>3 DEF Range
  <2> HIDE DEF E
  <2>6. E \in Seq(Range(E)) /\ Len(E) = n
    BY <2>3, <2>5, SeqDef
  <2>7. Ordinary(E)
    BY <2>4, <2>6, IsOrdinary DEF Moving, Switching
  <2>8. Ordinary(E \o <<AddOp(t, TRUE, TRUE)>>)
    BY <2>7, OpsAreOrdinary, JoinedIsOrdinary
  <2>9. Ordinary(E \o <<AddOp(t, TRUE, TRUE)>> \o Rest)
    BY <1>1, <2>8, JoinedIsOrdinary
  <2> QED
    BY <1>1, <2>1, <2>9 DEF Carries, E
<1> QED
  BY <1>2, <1>3

-----------------------------------------------------------------------------
(* Every step keeps the invariant.                                          *)

(* A chain of operations belongs to a process.                              *)
LEMMA WorkingIsRunning ==
  ASSUME Inv, work # <<>>
  PROVE  Running /\ session \in Sessions
  BY DEF Inv, RunningInv, Running

(* What most steps are: the cold zone, the files and the session stay, and  *)
(* the chain is ordinary before and after.                                  *)
LEMMA PlainKeeps ==
  ASSUME Inv, Still, Running, Carries(work'), DOMAIN hot' \subseteq Ids,
         UNCHANGED <<file, session>>
  PROVE  Inv'
<1>1. WorkInv' /\ ColdInv'
  BY StillKeeps DEF Carries
<1>2. NumberedInv'
  BY DEF Inv, NumberedInv, Loads
<1>3. RunningInv'
  BY DEF Inv, RunningInv, Running
<1> QED
  BY <1>1, <1>2, <1>3 DEF Inv

LEMMA MemoryStepKeeps ==
  ASSUME Inv, MemoryStep, UNCHANGED <<file, process, tail, unsaved>>
  PROVE  Inv'
<1>1. work # <<>>
  BY DEF MemoryStep, Add, MergeNote, EnforceBudget, DeleteCold, StoreCold, SelectBatch,
         MakeRoom, CommitRecalled, MarkRecalled, Evict, Doing
<1>2. Running /\ UNCHANGED <<file, session>>
  BY <1>1, WorkingIsRunning DEF process
<1>3. CASE Add \/ CommitRecalled
  BY <1>2, <1>3, AddEffect, PlainKeeps
<1>4. CASE MergeNote \/ MarkRecalled
  BY <1>2, <1>4, TouchEffect, PlainKeeps
<1>5. CASE SelectBatch
  BY <1>2, <1>5, SelectEffect, PlainKeeps
<1>6. DOMAIN hot' \subseteq Ids => NumberedInv' /\ RunningInv'
  BY <1>2 DEF Inv, NumberedInv, RunningInv, Running, Loads
<1>7. CASE EnforceBudget \/ MakeRoom \/ Evict
  <2>1. /\ UNCHANGED <<cold, torn>> /\ DOMAIN hot' \subseteq Ids /\ Ordinary(work)
        /\ \/ Ordinary(work') /\ UNCHANGED demoted
           \/ \E v \in DOMAIN hot : \E todo : Ordinary(todo) /\ Pop(v, todo)
    BY <1>7, DemotingEffect
  <2>2. CASE Ordinary(work') /\ UNCHANGED demoted
    BY <1>2, <2>1, <2>2, PlainKeeps DEF Carries, Still
  <2>3. CASE \E v \in DOMAIN hot : \E todo : Ordinary(todo) /\ Pop(v, todo)
    <3>1. WorkInv' /\ ColdInv'
      BY <2>1, <2>3, PopIsOnRecord
    <3> QED
      BY <1>6, <2>1, <3>1 DEF Inv
  <2> QED
    BY <2>1, <2>2, <2>3
<1>8. CASE DeleteCold \/ StoreCold
  <2>1. WorkInv' /\ ColdInv' /\ UNCHANGED <<hot>>
    BY <1>8, DeleteColdKeeps, StoreColdKeeps
  <2> QED
    BY <1>6, <2>1 DEF Inv, NumberedInv
<1> QED
  BY <1>3, <1>4, <1>5, <1>7, <1>8 DEF MemoryStep

LEMMA TurnStepKeeps ==
  ASSUME Inv, PlanRequest \/ ModelAnswers \/ PushTail \/ Tick \/ Compact
  PROVE  Inv'
<1>1. Carries(work')
  BY PlanEffect, AnswerEffect, PushAndTickEffect, CompactEffect
<1>2. work # <<>> /\ Still /\ UNCHANGED <<file, session, hot>>
  BY DEF PlanRequest, ModelAnswers, PushTail, Tick, Compact, Doing, Still, process
<1>3. Running
  BY <1>2, WorkingIsRunning
<1>4. DOMAIN hot' \subseteq Ids
  BY <1>2 DEF Inv, NumberedInv
<1> QED
  BY <1>1, <1>2, <1>3, <1>4, PlainKeeps

LEMMA SaveKeeps ==
  ASSUME Inv, Truncate \/ Write
  PROVE  Inv'
<1> DEFINE to == work[1].to
<1>1. /\ work # <<>> /\ work[1].op \in {"truncate", "write"}
      /\ Still /\ UNCHANGED <<hot, manifest, session>> /\ work' = Rest
  BY DEF Truncate, Write, Doing, Still, process
<1>2. Running /\ session \in Sessions
  BY <1>1, WorkingIsRunning
<1>3. NumberedInv'
  <2>1. DOMAIN file' = Sessions /\ DOMAIN hot' \subseteq Ids
    BY <1>1 DEF Truncate, Write, Inv, NumberedInv
  <2>2. ASSUME NEW s \in Sessions, file'[s].kind = "whole"
        PROVE  DOMAIN file'[s].hot \subseteq Ids
    <3>1. s \in DOMAIN file
      BY DEF Inv, NumberedInv
    <3>2. CASE file'[s] = file[s]
      BY <2>2, <3>2 DEF Inv, NumberedInv, Loads
    <3>3. CASE file'[s] = Broken
      BY <2>2, <3>3 DEF Broken
    <3>4. CASE file'[s] = Snapshot
      BY <3>4 DEF Snapshot, Inv, NumberedInv
    <3> QED
      BY <3>1, <3>2, <3>3, <3>4 DEF Truncate, Write
  <2> QED
    BY <2>1, <2>2 DEF NumberedInv, Loads
<1>4. RunningInv'
  BY <1>1, <1>2 DEF RunningInv, Running, Inv
<1>5. CASE Ordinary(work) /\ Ordinary(Rest)
  <2>1. WorkInv' /\ ColdInv'
    BY <1>1, <1>5, StillKeeps
  <2> QED
    BY <1>3, <1>4, <2>1 DEF Inv
<1>6. CASE Changing /\ to = session
  <2>1. PICK o \in Switching, s \in Sessions :
          \/ work = <<[op |-> "truncate", to |-> session], [op |-> "write", to |-> session],
                      [op |-> o, to |-> s]>>
          \/ work = <<[op |-> "write", to |-> session], [op |-> o, to |-> s]>>
          \/ work = <<[op |-> o, to |-> s]>> /\ file[session] = Snapshot
    BY <1>6 DEF Changing
  <2>2. ~(work = <<[op |-> o, to |-> s]>>)
    BY <1>1, <2>1 DEF Switching
  <2>3. ASSUME Truncate PROVE Changing'
    <3>1. work = <<[op |-> "truncate", to |-> session], [op |-> "write", to |-> session],
                   [op |-> o, to |-> s]>>
      BY <2>1, <2>2, <2>3 DEF Truncate, Doing
    <3>2. work' = <<[op |-> "write", to |-> session'], [op |-> o, to |-> s]>>
      BY <1>1, <3>1 DEF Rest
    <3> QED
      BY <3>2, Zenon DEF Changing
  <2>4. ASSUME Write PROVE Changing'
    <3>1. work = <<[op |-> "write", to |-> session], [op |-> o, to |-> s]>>
      BY <2>1, <2>2, <2>4 DEF Write, Doing
    <3>2. work' = <<[op |-> o, to |-> s]>>
      BY <1>1, <3>1 DEF Rest
    <3>3. file'[session'] = Snapshot'
      BY <1>1, <1>2, <1>6, <2>4 DEF Write, Inv, NumberedInv, Snapshot
    <3> QED
      BY <3>2, <3>3, Zenon DEF Changing
  <2>5. Changing'
    BY <2>3, <2>4
  <2>6. WorkInv' /\ ColdInv'
    BY <1>1, <1>6, <2>5, StillKeeps
  <2> QED
    BY <1>3, <1>4, <2>6 DEF Inv
<1>7. WorkInv
  BY DEF Inv
<1> QED
  BY <1>1, <1>5, <1>6, <1>7, SavingHead, Zenon

(* What a process reads back is numbered by ids.                            *)
LEMMA ImportKeepsNumbers ==
  ASSUME Inv, NEW s \in Sessions, Import(s)
  PROVE  DOMAIN hot' \subseteq Ids
  BY DEF Import, Inv, NumberedInv

LEMMA SwitchKeeps ==
  ASSUME Inv, LoadTarget \/ Fresh
  PROVE  Inv'
<1>1. work # <<>> /\ work[1].op \in Switching
  BY DEF LoadTarget, Fresh, Doing, Switching
<1>2. WorkInv
  BY DEF Inv
<1>3. /\ Rest = <<>>
      /\ \E o \in Switching, s \in Sessions : work = <<[op |-> o, to |-> s]>>
  BY <1>1, <1>2, SwitchingHead, Zenon
<1>4. work[1].to \in Sessions
  BY <1>3
<1>5. Still /\ UNCHANGED file /\ work' = <<>> /\ session' \in {session, work[1].to}
  BY <1>3 DEF LoadTarget, Fresh, Still
<1>6. DOMAIN hot' \subseteq Ids
  BY <1>4, ImportKeepsNumbers DEF LoadTarget, Fresh
<1>7. \A l : ~Demoting(l)
  BY <1>1 DEF Demoting, Switching
<1>8. WorkInv' /\ ColdInv'
  BY <1>5, <1>7, NothingIsOrdinary DEF Still, WorkInv, ColdInv, Inv
<1>9. NumberedInv'
  BY <1>5, <1>6 DEF Inv, NumberedInv, Loads
<1>10. RunningInv'
  BY <1>4, <1>5 DEF Inv, RunningInv
<1> QED
  BY <1>8, <1>9, <1>10 DEF Inv

LEMMA EndKeeps ==
  ASSUME Inv, Stop \/ Crash
  PROVE  Inv'
<1>1. MemoryLost /\ session' = NoSession /\ UNCHANGED file
  BY DEF Stop, Crash
<1>2. WorkInv' /\ ColdInv' /\ DOMAIN hot' \subseteq Ids
  BY <1>1, LossKeeps
<1>3. NumberedInv'
  BY <1>1, <1>2 DEF Inv, NumberedInv, Loads
<1>4. RunningInv'
  BY <1>1 DEF MemoryLost, RunningInv
<1> QED
  BY <1>2, <1>3, <1>4 DEF Inv

LEMMA StartKeeps ==
  ASSUME Inv, NEW asked \in Sessions, NEW latest \in Sessions, Start(asked, latest)
  PROVE  Inv'
<1>1. work = <<>> /\ work' = <<>> /\ Still /\ UNCHANGED file
  BY DEF Inv, RunningInv, Start, Still
<1>2. session' \in Sessions
  BY DEF Start
<1>3. DOMAIN hot' \subseteq Ids
  BY ImportKeepsNumbers DEF Start
<1>4. WorkInv' /\ ColdInv'
  BY <1>1, NothingIsOrdinary, StillKeeps
<1>5. NumberedInv'
  BY <1>1, <1>3 DEF Inv, NumberedInv, Loads
<1>6. RunningInv'
  BY <1>1, <1>2 DEF RunningInv
<1> QED
  BY <1>4, <1>5, <1>6 DEF Inv

(* What the user types: a new chain, ordinary but for a change of session,  *)
(* or a change of the hot set alone.                                        *)
LEMMA BeginKeeps ==
  ASSUME Inv, NEW ops, Ordinary(ops), Begin(ops)
  PROVE  Inv'
<1>1. /\ Running /\ Still /\ work = <<>> /\ work' = ops
      /\ UNCHANGED <<file, session, hot>>
  BY DEF Begin, Idle, Still
<1>2. DOMAIN hot' \subseteq Ids
  BY <1>1 DEF Inv, NumberedInv
<1> QED
  BY <1>1, <1>2, NothingIsOrdinary, PlainKeeps DEF Carries

(* The chain of /resume and /new.                                           *)
LEMMA ThreeInARow ==
  ASSUME NEW a, NEW b, NEW c
  PROVE  <<a, b>> \o <<c>> = <<a, b, c>>
<1> DEFINE S == {a, b, c}
           v == <<a, b>> \o <<c>>
           w == <<a, b, c>>
<1>1. <<a, b>> \in Seq(S) /\ <<c>> \in Seq(S)
  OBVIOUS
<1>2. /\ v \in Seq(S) /\ Len(v) = 3
      /\ v[1] = a /\ v[2] = b /\ v[3] = c
  BY <1>1
<1>3. /\ w \in Seq(S) /\ Len(w) = 3
      /\ w[1] = a /\ w[2] = b /\ w[3] = c
  OBVIOUS
<1> HIDE DEF v, w, S
<1>4. \A k \in 1 .. 3 : v[k] = w[k]
  BY <1>2, <1>3
<1>5. v = w
  BY <1>2, <1>3, <1>4, SeqEqual
<1> QED
  BY <1>5 DEF v, w

LEMMA ChangeKeeps ==
  ASSUME Inv, NEW o \in Switching, NEW s \in Sessions,
         Begin(SaveOps(session) \o <<[op |-> o, to |-> s]>>)
  PROVE  Inv'
<1>1. /\ Running /\ Still /\ work = <<>>
      /\ work' = SaveOps(session) \o <<[op |-> o, to |-> s]>>
      /\ UNCHANGED <<file, session, hot>>
  BY DEF Begin, Idle, Still
<1>2. work' = <<[op |-> "truncate", to |-> session'], [op |-> "write", to |-> session'],
                [op |-> o, to |-> s]>>
  BY <1>1, ThreeInARow, Zenon DEF SaveOps
<1>3. Changing'
  BY <1>2 DEF Changing
<1>4. WorkInv' /\ ColdInv'
  BY <1>1, <1>3, NothingIsOrdinary, StillKeeps
<1>5. NumberedInv' /\ RunningInv'
  BY <1>1 DEF Inv, NumberedInv, RunningInv, Running, Loads
<1> QED
  BY <1>4, <1>5 DEF Inv

LEMMA CommandKeeps ==
  ASSUME Inv, Command
  PROVE  Inv'
<1>1. ASSUME NEW t \in Texts, Turn(t) \/ Shell(t) \/ CmdNote(t) \/ CmdAdd(t)
      PROVE  Inv'
  BY <1>1, OpsAreOrdinary, BeginKeeps DEF Turn, Shell, CmdNote, CmdAdd
<1>2. CASE CmdRecall \/ CmdCompact \/ CmdSave
  <2>1. Ordinary(<<[op |-> "recall"]>>) /\ Ordinary(<<[op |-> "compact"]>>)
    BY OneIsOrdinary DEF Moving, Switching
  <2> QED
    BY <1>2, <2>1, OpsAreOrdinary, BeginKeeps DEF CmdRecall, CmdCompact, CmdSave
<1>3. ASSUME NEW i \in DOMAIN hot, CmdForget(i)
      PROVE  Inv'
  <2>1. Ordinary(<<[op |-> "evict", id |-> i]>>)
    BY OneIsOrdinary DEF Moving, Switching
  <2> QED
    BY <1>3, <2>1, BeginKeeps DEF CmdForget
<1>4. ASSUME NEW s \in Sessions, CmdResume(s) \/ CmdNew(s)
      PROVE  Inv'
  BY <1>4, ChangeKeeps DEF CmdResume, CmdNew, Switching
<1>5. CASE CmdExit \/ EndOfInput
  <2>1. PICK saves : Ordinary(saves) /\ Leave(saves)
    BY <1>5, OpsAreOrdinary, NothingIsOrdinary DEF CmdExit, EndOfInput
  <2>2. Ordinary(<<[op |-> "stop"]>>)
    BY OneIsOrdinary DEF Moving, Switching
  <2>3. Ordinary(saves \o SaveOps(started))
    BY <2>1, OpsAreOrdinary, JoinedIsOrdinary
  <2>4. Ordinary(saves \o SaveOps(started) \o <<[op |-> "stop"]>>)
    BY <2>2, <2>3, JoinedIsOrdinary
  <2>5. /\ Running /\ Still /\ work = <<>>
        /\ work' = saves \o SaveOps(started) \o <<[op |-> "stop"]>>
        /\ UNCHANGED <<file, session, hot>>
    BY <2>1 DEF Leave, Idle, Still, process
  <2>6. DOMAIN hot' \subseteq Ids
    BY <2>5 DEF Inv, NumberedInv
  <2> QED
    BY <2>4, <2>5, <2>6, NothingIsOrdinary, PlainKeeps DEF Carries
<1>6. ASSUME CmdClear \/ \E i \in DOMAIN hot : \E pin \in BOOLEAN : CmdPin(i, pin)
      PROVE  Inv'
  <2>1. /\ Running /\ Still /\ work = <<>> /\ work' = <<>>
        /\ UNCHANGED <<file, session>>
        /\ hot' = <<>> \/ DOMAIN hot' = DOMAIN hot
    BY <1>6 DEF CmdClear, CmdPin, SetPin, Idle, Still
  <2>2. DOMAIN hot' \subseteq Ids
    BY <2>1 DEF Inv, NumberedInv
  <2> QED
    BY <2>1, <2>2, NothingIsOrdinary, PlainKeeps DEF Carries
<1> QED
  BY <1>1, <1>2, <1>3, <1>4, <1>5, <1>6 DEF Command

LEMMA InvHoldsAtFirst == Init => Inv
<1> SUFFICES ASSUME Init PROVE Inv
  OBVIOUS
<1>1. hot = <<>> /\ cold = <<>> /\ work = <<>> /\ demoted = <<>>
  BY DEF Init, MemoryInit
<1>2. NumberedInv
  BY <1>1 DEF Init, NumberedInv, Loads, Malformed, Absent
<1>3. RunningInv
  BY <1>1 DEF Init, RunningInv
<1>4. WorkInv
  BY <1>1, NothingIsOrdinary DEF WorkInv
<1>5. ColdInv
  BY <1>1 DEF ColdInv
<1> QED
  BY <1>2, <1>3, <1>4, <1>5 DEF Inv

LEMMA StepKeepsInv == Inv /\ [Next]_vars => Inv'
<1> SUFFICES ASSUME Inv, [Next]_vars PROVE Inv'
  OBVIOUS
<1>1. CASE MemoryStep /\ UNCHANGED <<file, process, tail, unsaved>>
  BY <1>1, MemoryStepKeeps
<1>2. CASE SessionStep
  BY <1>2, TurnStepKeeps, SaveKeeps, SwitchKeeps, EndKeeps DEF SessionStep
<1>3. CASE Command
  BY <1>3, CommandKeeps
<1>4. CASE Crash
  BY <1>4, EndKeeps
<1>5. CASE \E asked, latest \in Sessions : Start(asked, latest)
  BY <1>5, StartKeeps
<1>6. CASE UNCHANGED vars
  <2>1. UNCHANGED <<hot, cold, manifest, work, demoted, torn, file, session>>
    BY <1>6 DEF vars, memory
  <2>2. NumberedInv'
    BY <2>1 DEF Inv, NumberedInv, Loads
  <2>3. RunningInv'
    BY <2>1 DEF Inv, RunningInv, Running
  <2>4. WorkInv'
    BY <2>1 DEF Inv, WorkInv, Evicting, Changing, Rest, Snapshot
  <2>5. ColdInv'
    BY <2>1 DEF Inv, ColdInv, Demoting
  <2> QED
    BY <2>2, <2>3, <2>4, <2>5 DEF Inv
<1> QED
  BY <1>1, <1>2, <1>3, <1>4, <1>5, <1>6 DEF Next

-----------------------------------------------------------------------------
(* In every behaviour of the program the invariant holds.                   *)
THEOREM Invariance == Spec => []Inv
<1>1. Init => Inv
  BY InvHoldsAtFirst
<1>2. Inv /\ [Next]_vars => Inv'
  BY StepKeepsInv
<1> QED
  BY <1>1, <1>2, PTL DEF Spec

(* Forgetting is a demotion: through any chain of demotions, recalls,       *)
(* changes of session, deaths and restarts, the text that last left the hot *)
(* set under a lineage lies in the cold zone under that lineage, unless the *)
(* process died between the delete and the store of that very demotion, or  *)
(* is between them now (WorkingMemory._evict_item).                         *)
THEOREM DemotionsAreKept == Spec => []OnlyInterruptedDemotionsLose
<1>1. Inv => OnlyInterruptedDemotionsLose
  BY DEF Inv, ColdInv, OnlyInterruptedDemotionsLose
<1> QED
  BY <1>1, Invariance, PTL

(* /resume and /new leave a session only when its file holds what the       *)
(* memory holds, and a target that does not load changes nothing            *)
(* (Repl._cmd_resume, Repl._cmd_new).                                       *)
THEOREM SwitchesKeepBoth == Spec => SwitchKeepsBoth
<1> DEFINE Kept == (Running /\ session' # NoSession) =>
         /\ session' # session => file[session] = Snapshot /\ tail' = <<>>
         /\ Doing("load") /\ ~Loads(work[1].to)
              => UNCHANGED <<hot, manifest, session, tail>>
<1>1. ASSUME Inv, [Next]_vars
      PROVE  [Kept]_vars
  <2> SUFFICES ASSUME Next, Running, session' # NoSession
               PROVE  /\ session' # session => file[session] = Snapshot /\ tail' = <<>>
                      /\ Doing("load") /\ ~Loads(work[1].to)
                           => UNCHANGED <<hot, manifest, session, tail>>
    BY <1>1
  <2>1. CASE LoadTarget \/ Fresh
    <3>1. work # <<>> /\ work[1].op \in Switching
      BY <2>1 DEF LoadTarget, Fresh, Doing, Switching
    <3>2. file[session] = Snapshot
      BY <1>1, <3>1, SwitchingHead DEF Inv
    <3>3. session' # session => tail' = <<>>
      BY <2>1 DEF LoadTarget, Fresh
    <3>4. Doing("load") /\ ~Loads(work[1].to) => UNCHANGED <<hot, manifest, session, tail>>
      BY <2>1 DEF LoadTarget, Fresh, Doing, Import
    <3> QED
      BY <3>2, <3>3, <3>4
  <2>2. CASE ~(LoadTarget \/ Fresh)
    <3>1. session' = session /\ ~Doing("load")
      <4>1. CASE MemoryStep /\ UNCHANGED <<file, process, tail, unsaved>>
        BY <4>1 DEF MemoryStep, Add, MergeNote, EnforceBudget, DeleteCold, StoreCold,
                    SelectBatch, MakeRoom, CommitRecalled, MarkRecalled, Evict, Doing,
                    process
      <4>2. CASE SessionStep
        BY <2>2, <4>2 DEF SessionStep, PlanRequest, ModelAnswers, PushTail, Tick, Compact,
                          Truncate, Write, Stop, Doing, process
      <4>3. CASE Command
        BY <4>3 DEF Command, Turn, Shell, CmdNote, CmdAdd, CmdRecall, CmdForget, CmdCompact,
                    CmdSave, CmdResume, CmdNew, Leave, CmdExit, EndOfInput, CmdPin, CmdClear,
                    Begin, SetPin, Idle, Doing, process
      <4>4. CASE Crash
        BY <4>4 DEF Crash
      <4>5. CASE \E asked, latest \in Sessions : Start(asked, latest)
        BY <4>5 DEF Start
      <4> QED
        BY <4>1, <4>2, <4>3, <4>4, <4>5 DEF Next
    <3> QED
      BY <3>1
  <2> QED
    BY <2>1, <2>2
<1>2. Spec => []Inv
  BY Invariance
<1> QED
  BY <1>1, <1>2, PTL DEF Spec, SwitchKeepsBoth

-----------------------------------------------------------------------------
(* Sums over a finite set: MapThenSumSet takes one element after another,   *)
(* in an order of its own; the sum does not depend on it.                   *)
Chosen(s) == CHOOSE x \in s : TRUE
Sums(g, F, S) == g = [s \in SUBSET S |-> IF s = {} THEN 0
                                         ELSE F[Chosen(s)] + g[s \ {Chosen(s)}]]

LEMMA Smallest ==
  ASSUME NEW T, T \subseteq Nat, T # {}
  PROVE  \E x \in T : \A y \in T : x <= y
<1>1. \E x \in T : \A y \in T : ~(<<y, x>> \in OpToRel(<,Nat))
  BY NatLessThanWellFounded, WFMin
<1>2. \A x, y \in Nat : <<y, x>> \in OpToRel(<,Nat) <=> y < x
  BY DEF OpToRel
<1>3. \E x \in T : \A y \in T : ~(y < x)
  BY <1>1, <1>2, Zenon
<1> QED
  BY <1>3

LEMMA Inductive ==
  ASSUME NEW K, 0 \in K, \A n \in Nat : n \in K => n + 1 \in K
  PROVE  Nat \subseteq K
<1> SUFFICES ASSUME Nat \ K # {} PROVE FALSE
  OBVIOUS
<1>1. PICK x \in Nat \ K : \A y \in Nat \ K : x <= y
  <2>1. Nat \ K \subseteq Nat
    OBVIOUS
  <2> QED
    BY <2>1, Smallest
<1>2. x - 1 \in Nat /\ x - 1 \in K
  BY <1>1
<1> QED
  BY <1>1, <1>2

LEMMA ChosenIsIn ==
  ASSUME NEW s, s # {}
  PROVE  Chosen(s) \in s
  BY DEF Chosen

LEMMA SumsExist ==
  ASSUME NEW S, IsFiniteSet(S), NEW F \in [S -> Nat]
  PROVE  \E g : Sums(g, F, S)
<1> DEFINE Level(n) == {s \in SUBSET S : Cardinality(s) <= n}
           Rec(g, n) == g = [s \in Level(n) |-> IF s = {} THEN 0
                                  ELSE F[Chosen(s)] + g[s \ {Chosen(s)}]]
           K == {n \in Nat : \E g : Rec(g, n)}
<1>0. \A s \in SUBSET S : IsFiniteSet(s) /\ Cardinality(s) \in Nat
  BY FS_Subset, FS_CardinalityType
<1>1. 0 \in K
  <2>1. \A s \in Level(0) : s = {}
    BY <1>0, FS_EmptySet
  <2> DEFINE g == [s \in Level(0) |-> 0]
  <2>2. Rec(g, 0)
    BY <2>1
  <2> QED
    BY <2>2
<1>2. ASSUME NEW n \in Nat, n \in K
      PROVE  n + 1 \in K
  <2>1. PICK g : Rec(g, n)
    BY <1>2
  <2> DEFINE k == [s \in Level(n + 1) |-> IF s \in Level(n) THEN g[s]
                        ELSE F[Chosen(s)] + g[s \ {Chosen(s)}]]
  <2>2. ASSUME NEW s \in Level(n + 1), s # {}
        PROVE  s \ {Chosen(s)} \in Level(n)
    <3>1. Chosen(s) \in s /\ IsFiniteSet(s)
      BY <1>0, <2>2, ChosenIsIn
    <3>2. Cardinality(s \ {Chosen(s)}) = Cardinality(s) - 1
      BY <3>1, FS_RemoveElement
    <3> QED
      BY <1>0, <2>2, <3>2
  <2>3. Level(n) \subseteq Level(n + 1)
    BY <1>0
  <2>4. {} \in Level(n)
    BY FS_EmptySet
  <2>5. ASSUME NEW s \in Level(n + 1)
        PROVE  k[s] = IF s = {} THEN 0 ELSE F[Chosen(s)] + k[s \ {Chosen(s)}]
    <3>1. CASE s = {}
      BY <2>1, <2>4, <2>5, <3>1
    <3>2. CASE s # {} /\ s \in Level(n)
      <4>1. g[s] = F[Chosen(s)] + g[s \ {Chosen(s)}]
        BY <2>1, <3>2
      <4>2. k[s] = g[s]
        BY <2>5, <3>2
      <4>3. k[s \ {Chosen(s)}] = g[s \ {Chosen(s)}]
        BY <2>2, <2>3, <2>5, <3>2
      <4> QED
        BY <3>2, <4>1, <4>2, <4>3
    <3>3. CASE s # {} /\ s \notin Level(n)
      <4>1. k[s] = F[Chosen(s)] + g[s \ {Chosen(s)}]
        BY <2>5, <3>3
      <4>2. k[s \ {Chosen(s)}] = g[s \ {Chosen(s)}]
        BY <2>2, <2>3, <2>5, <3>3
      <4> QED
        BY <3>3, <4>1, <4>2
    <3> QED
      BY <3>1, <3>2, <3>3
  <2> HIDE DEF Level
  <2>6. Rec(k, n + 1)
    BY <2>5
  <2>7. n + 1 \in Nat
    OBVIOUS
  <2> HIDE DEF k, Rec
  <2>8. \E f : Rec(f, n + 1)
    BY <2>6, Zenon
  <2> QED
    BY <2>7, <2>8, Zenon
<1> HIDE DEF K
<1>3. Cardinality(S) \in K
  BY <1>0, <1>1, <1>2, Inductive
<1>4. PICK g : Rec(g, Cardinality(S))
  BY <1>3 DEF K
<1>5. Level(Cardinality(S)) = SUBSET S
  <2>1. \A s \in SUBSET S : Cardinality(s) <= Cardinality(S)
    BY FS_Subset
  <2> QED
    BY <2>1
<1> QED
  BY <1>4, <1>5 DEF Sums

(* Every sum that Sums describes is one number, whatever order Chosen takes.*)
LEMMA SumsAreNumbers ==
  ASSUME NEW S, IsFiniteSet(S), NEW F \in [S -> Nat], NEW g, Sums(g, F, S)
  PROVE  \A s \in SUBSET S : g[s] \in Nat
<1> DEFINE K == {n \in Nat : \A s \in SUBSET S : Cardinality(s) = n => g[s] \in Nat}
<1>0. \A s \in SUBSET S : IsFiniteSet(s) /\ Cardinality(s) \in Nat
  BY FS_Subset, FS_CardinalityType
<1>1. 0 \in K
  BY <1>0, FS_EmptySet DEF Sums
<1>2. ASSUME NEW n \in Nat, n \in K
      PROVE  n + 1 \in K
  <2>1. ASSUME NEW s \in SUBSET S, Cardinality(s) = n + 1
        PROVE  g[s] \in Nat
    <3>1. s # {}
      BY <2>1, FS_EmptySet
    <3>2. Chosen(s) \in s
      BY <3>1, ChosenIsIn
    <3>3. Cardinality(s \ {Chosen(s)}) = n
      BY <1>0, <2>1, <3>2, FS_RemoveElement
    <3>4. g[s \ {Chosen(s)}] \in Nat
      BY <1>2, <2>1, <3>3
    <3>5. g[s] = F[Chosen(s)] + g[s \ {Chosen(s)}]
      BY <2>1, <3>1 DEF Sums
    <3>6. F[Chosen(s)] \in Nat
      BY <2>1, <3>2
    <3> QED
      BY <3>4, <3>5, <3>6
  <2> QED
    BY <2>1
<1> HIDE DEF K
<1>3. Nat \subseteq K
  BY <1>1, <1>2, Inductive
<1> QED
  BY <1>0, <1>3 DEF K

LEMMA SumsAgree ==
  ASSUME NEW S, IsFiniteSet(S), NEW F \in [S -> Nat], NEW g, Sums(g, F, S),
         NEW T, NEW H, NEW k, Sums(k, H, T)
  PROVE  \A s \in SUBSET S : (s \subseteq T /\ \A x \in s : H[x] = F[x]) => k[s] = g[s]
<1> DEFINE Same(s) == s \subseteq T /\ \A x \in s : H[x] = F[x]
           K == {n \in Nat : \A s \in SUBSET S : Same(s) /\ Cardinality(s) = n => k[s] = g[s]}
<1>0. \A s \in SUBSET S : IsFiniteSet(s) /\ Cardinality(s) \in Nat
  BY FS_Subset, FS_CardinalityType
<1>1. 0 \in K
  BY <1>0, FS_EmptySet DEF Sums
<1>2. ASSUME NEW n \in Nat, n \in K
      PROVE  n + 1 \in K
  <2>1. ASSUME NEW s \in SUBSET S, Same(s), Cardinality(s) = n + 1
        PROVE  k[s] = g[s]
    <3>0. IsFiniteSet(s) /\ Cardinality(s) = n + 1
      BY <1>0, <2>1
    <3>1. s # {}
      BY <3>0, FS_EmptySet
    <3>2. Chosen(s) \in s
      BY <3>1, ChosenIsIn
    <3>3. Cardinality(s \ {Chosen(s)}) = n
      <4>1. Cardinality(s \ {Chosen(s)}) = Cardinality(s) - 1
        BY <3>0, <3>2, FS_RemoveElement, Zenon
      <4> QED
        BY <3>0, <4>1
    <3>4. k[s \ {Chosen(s)}] = g[s \ {Chosen(s)}]
      BY <1>2, <2>1, <3>3
    <3>5. g[s] = F[Chosen(s)] + g[s \ {Chosen(s)}]
      BY <2>1, <3>1 DEF Sums
    <3>6. k[s] = H[Chosen(s)] + k[s \ {Chosen(s)}]
      BY <2>1, <3>1 DEF Sums
    <3> QED
      BY <2>1, <3>2, <3>4, <3>5, <3>6
  <2> QED
    BY <2>1
<1> HIDE DEF K
<1>3. Nat \subseteq K
  BY <1>1, <1>2, Inductive
<1> QED
  BY <1>0, <1>3 DEF K

LEMMA SumsSplit ==
  ASSUME NEW S, IsFiniteSet(S), NEW F \in [S -> Nat], NEW g, Sums(g, F, S)
  PROVE  \A s \in SUBSET S : \A y \in s : g[s] = F[y] + g[s \ {y}]
<1> DEFINE K == {n \in Nat : \A s \in SUBSET S : Cardinality(s) = n =>
                    \A y \in s : g[s] = F[y] + g[s \ {y}]}
<1>0. \A s \in SUBSET S : IsFiniteSet(s) /\ Cardinality(s) \in Nat
  BY FS_Subset, FS_CardinalityType
<1>1. 0 \in K
  BY <1>0, FS_EmptySet
<1>2. ASSUME NEW n \in Nat, n \in K
      PROVE  n + 1 \in K
  <2>1. ASSUME NEW s \in SUBSET S, Cardinality(s) = n + 1, NEW y \in s
        PROVE  g[s] = F[y] + g[s \ {y}]
    <3> DEFINE x == Chosen(s)
               r == (s \ {x}) \ {y}
    <3>1. s # {} /\ x \in s
      BY ChosenIsIn
    <3>2. g[s] = F[x] + g[s \ {x}]
      BY <2>1, <3>1 DEF Sums
    <3>3. CASE x = y
      BY <3>2, <3>3
    <3>4. CASE x # y
      <4>1. Cardinality(s \ {x}) = n /\ Cardinality(s \ {y}) = n
        BY <1>0, <2>1, <3>1, FS_RemoveElement
      <4>2. g[s \ {x}] = F[y] + g[(s \ {x}) \ {y}]
        BY <1>2, <2>1, <3>4, <4>1
      <4>3. g[s \ {y}] = F[x] + g[(s \ {y}) \ {x}]
        BY <1>2, <2>1, <3>1, <3>4, <4>1
      <4>4. (s \ {y}) \ {x} = r
        OBVIOUS
      <4>5. F[x] \in Nat /\ F[y] \in Nat /\ g[r] \in Nat
        BY <3>1, SumsAreNumbers
      <4> HIDE DEF x, r
      <4>6. g[s] = F[x] + (F[y] + g[r]) /\ g[s \ {y}] = F[x] + g[r]
        BY <3>2, <4>2, <4>3, <4>4 DEF r
      <4> QED
        BY <4>5, <4>6
    <3> QED
      BY <3>3, <3>4
  <2> QED
    BY <2>1
<1> HIDE DEF K
<1>3. Nat \subseteq K
  BY <1>1, <1>2, Inductive
<1> QED
  BY <1>0, <1>3 DEF K

(* What the items at a set of places weigh.                                 *)
Weighed(h, ids) == IsFiniteSet(ids) /\ \A i \in ids : h[i].text \in Texts
Weights(h, ids) == [i \in ids |-> Size[h[i].text]]

LEMMA SpentIsASum ==
  ASSUME NEW h, NEW ids, Weighed(h, ids)
  PROVE  /\ Weights(h, ids) \in [ids -> Nat]
         /\ \E g : Sums(g, Weights(h, ids), ids) /\ Spent(h, ids) = g[ids]
<1> DEFINE F == Weights(h, ids)
           Rec(g) == g = [s \in SUBSET ids |-> IF s = {} THEN 0
                            ELSE Size[h[CHOOSE x \in s : TRUE].text]
                                 + g[s \ {CHOOSE x \in s : TRUE}]]
           iter == CHOOSE g : Rec(g)
<1>1. Spent(h, ids) = iter[ids]
  BY DEF Spent, MapThenSumSet, MapThenFoldSet
<1>2. F \in [ids -> Nat]
  BY MemoryAssumption DEF Weighed, Weights
<1>3. PICK k : Sums(k, F, ids)
  BY <1>2, SumsExist DEF Weighed
<1>4. \A g : Rec(g) <=> Sums(g, F, ids)
  <2>1. \A s \in SUBSET ids : s # {} => F[Chosen(s)] = Size[h[CHOOSE x \in s : TRUE].text]
    <3>1. \A s \in SUBSET ids : s # {} => Chosen(s) \in ids
      BY ChosenIsIn
    <3> QED
      BY <3>1 DEF Chosen, Weights
  <2> QED
    BY <2>1 DEF Sums, Chosen
<1> HIDE DEF Rec, F
<1>5. Rec(iter)
  BY <1>3, <1>4
<1> QED
  BY <1>1, <1>2, <1>4, <1>5 DEF F

LEMMA SpentIsANumber ==
  ASSUME NEW h, NEW ids, Weighed(h, ids)
  PROVE  Spent(h, ids) \in Nat
<1>1. PICK g : Sums(g, Weights(h, ids), ids) /\ Spent(h, ids) = g[ids]
  BY SpentIsASum
<1>2. \A s \in SUBSET ids : g[s] \in Nat
  BY <1>1, SpentIsASum, SumsAreNumbers DEF Weighed
<1> QED
  BY <1>1, <1>2

(* Only the texts count.                                                    *)
LEMMA SpentIsOfTexts ==
  ASSUME NEW h, NEW ids, Weighed(h, ids), NEW k, \A i \in ids : k[i].text = h[i].text
  PROVE  Spent(k, ids) = Spent(h, ids)
<1>1. Weighed(k, ids)
  BY DEF Weighed
<1>2. PICK g : Sums(g, Weights(h, ids), ids) /\ Spent(h, ids) = g[ids]
  BY SpentIsASum
<1>3. PICK f : Sums(f, Weights(k, ids), ids) /\ Spent(k, ids) = f[ids]
  BY <1>1, SpentIsASum
<1>4. Weights(k, ids) = Weights(h, ids)
  BY DEF Weights
<1>5. Weights(h, ids) \in [ids -> Nat] /\ IsFiniteSet(ids)
  BY SpentIsASum DEF Weighed
<1>6. f[ids] = g[ids]
  BY <1>2, <1>3, <1>4, <1>5, SumsAgree
<1> QED
  BY <1>2, <1>3, <1>6

LEMMA SpentLessOne ==
  ASSUME NEW h, NEW ids, Weighed(h, ids), NEW y \in ids
  PROVE  Spent(h, ids) = Size[h[y].text] + Spent(h, ids \ {y})
<1> DEFINE F == Weights(h, ids)
           H == Weights(h, ids \ {y})
<1>1. PICK g : Sums(g, F, ids) /\ Spent(h, ids) = g[ids]
  BY SpentIsASum
<1>2. Weighed(h, ids \ {y})
  BY FS_Subset DEF Weighed
<1>3. PICK f : Sums(f, H, ids \ {y}) /\ Spent(h, ids \ {y}) = f[ids \ {y}]
  BY <1>2, SpentIsASum
<1>4. F \in [ids -> Nat] /\ IsFiniteSet(ids) /\ F[y] = Size[h[y].text]
  BY SpentIsASum DEF Weighed, Weights
<1>5. \A x \in ids \ {y} : H[x] = F[x]
  BY DEF Weights
<1> HIDE DEF F, H
<1>6. g[ids] = F[y] + g[ids \ {y}]
  BY <1>1, <1>4, SumsSplit
<1>7. f[ids \ {y}] = g[ids \ {y}]
  BY <1>1, <1>3, <1>4, <1>5, SumsAgree
<1> QED
  BY <1>1, <1>3, <1>4, <1>6, <1>7

-----------------------------------------------------------------------------
(* Types.  What an operation carries is typed with the operation.           *)
AddOps == [op: {"add"}, text: Texts, note: BOOLEAN, pin: BOOLEAN]
MovingOps == [op: Moving, id: Ids, item: Item]
TurnOps ==
    [op: {"enforce", "compact", "tick", "stop"}]
    \union [op: {"plan"}, i: Nat, text: Texts]
    \union [op: {"chat"}, i: Nat]
    \union [op: {"push"}, size: Nat]
    \union [op: {"evict"}, id: Ids]
SaveOrSwitchOps == [op: {"truncate", "write"} \union Switching, to: Sessions]
PlainOps == AddOps \union MovingOps \union TurnOps \union SaveOrSwitchOps

Candidates == [lineage: Ids, heir: Ids, text: Texts, orig: Ids]

HotTyped(h) == DOMAIN h \subseteq Ids /\ \A i \in DOMAIN h : h[i] \in Item

FilesTyped ==
    /\ DOMAIN file = Sessions
    /\ \A s \in Sessions : Loads(s) => /\ HotTyped(file[s].hot)
                                       /\ file[s].manifest \in Seq(Entry)

(* A recall is a chain of its own: make room, then for each candidate of    *)
(* the batch insert it, enforce the budget and let it inherit.              *)
Then(o, w) == <<o>> \o w
RoomOp(b) == [op |-> "room", need |-> BatchTokens(b),
              staged |-> {b[k].lineage : k \in DOMAIN b}]
CommitOp(b, k) == [op |-> "commit", cand |-> b[k], need |-> BatchTokens(b)]
MarkOp(b, k, id) == [op |-> "mark", id |-> id, cand |-> b[k], need |-> BatchTokens(b)]
Commits(b, k) == [i \in 1 .. (Len(b) + 1 - k) |-> CommitOp(b, k + i - 1)]

(* There is room for what is left of the batch; or the pinned items and     *)
(* the batch are together over the budget, and there never was.             *)
Roomy(b, k) ==
    \/ Used + Spent(b, k .. Len(b)) <= MaxTokens
    \/ Spent(hot, PinnedIn(hot)) + BatchTokens(b) > MaxTokens

RoomChain(w, b) ==
    /\ w = Then(RoomOp(b), Commits(b, 1))
    /\ {b[k].lineage : k \in DOMAIN b} \cap HotLineages = {}
CommitChain(w, b, k) == w = Commits(b, k) /\ Roomy(b, k)
EnforceChain(w, b, k, id) ==
    w = Then(EnforceOp, Then(MarkOp(b, k, id), Commits(b, k + 1))) /\ Roomy(b, k + 1)
MarkChain(w, b, k, id) ==
    w = Then(MarkOp(b, k, id), Commits(b, k + 1)) /\ Roomy(b, k + 1)

RecallChain(w) ==
    \/ w = <<[op |-> "recall"]>>
    \/ \E b \in Seq(Candidates) :
          \/ RoomChain(w, b)
          \/ \E k \in 1 .. Len(b) :
                \/ CommitChain(w, b, k)
                \/ \E id \in Ids : EnforceChain(w, b, k, id) \/ MarkChain(w, b, k, id)

(* It is only interrupted by a demotion it made itself.                     *)
ChainInv ==
    \/ work \in Seq(PlainOps)
    \/ RecallChain(work)
    \/ \E m \in MovingOps : \E w : RecallChain(w) /\ work = Then(m, w)

RoomInv == TypeOK /\ FilesTyped /\ ChainInv

-----------------------------------------------------------------------------
(* Sequences of operations.                                                 *)
LEMMA CommitsAreSequences ==
  ASSUME NEW b \in Seq(Candidates), NEW k \in 1 .. Len(b)
  PROVE  /\ Commits(b, k) \in Seq({CommitOp(b, j) : j \in 1 .. Len(b)})
         /\ Commits(b, k) # <<>> /\ Commits(b, k)[1] = CommitOp(b, k)
         /\ Commits(b, k + 1) \in Seq({CommitOp(b, j) : j \in 1 .. Len(b)})
         /\ Tail(Commits(b, k)) = Commits(b, k + 1)
<1> DEFINE S == {CommitOp(b, j) : j \in 1 .. Len(b)}
           o == [j \in 1 .. Len(b) |-> CommitOp(b, j)]
           n == Len(b) + 1 - k
           v == [i \in 1 .. n |-> o[k + i - 1]]
           w == [i \in 1 .. (n - 1) |-> o[k + i]]
<1>0. Len(b) \in Nat /\ n \in Nat \ {0} /\ n - 1 \in Nat
  OBVIOUS
<1>1. Commits(b, k) = v
  BY DEF Commits
<1>2. Commits(b, k + 1) = w
  <2>1. Len(b) + 1 - (k + 1) = n - 1
    BY <1>0
  <2>2. \A i \in 1 .. (n - 1) : (k + 1) + i - 1 = k + i /\ k + i \in 1 .. Len(b)
    BY <1>0
  <2> QED
    BY <2>1, <2>2 DEF Commits
<1>3. o \in [1 .. Len(b) -> S]
  OBVIOUS
<1>4. v \in Seq(S) /\ Len(v) = n /\ v[1] = o[k]
  <2>1. \A i \in 1 .. n : k + i - 1 \in 1 .. Len(b)
    BY <1>0
  <2>2. v \in [1 .. n -> S]
    BY <1>3, <2>1
  <2> HIDE DEF o, S, n
  <2>3. v[1] = o[k]
    BY <1>0
  <2> HIDE DEF v
  <2> QED
    BY <1>0, <2>2, <2>3
<1>5. w \in Seq(S) /\ Len(w) = n - 1
  <2>1. \A i \in 1 .. (n - 1) : k + i \in 1 .. Len(b)
    BY <1>0
  <2>2. w \in [1 .. (n - 1) -> S]
    BY <1>3, <2>1
  <2> HIDE DEF o, S, n, w
  <2> QED
    BY <1>0, <2>2
<1>6. v # <<>>
  BY <1>0, <1>4
<1>7. Tail(v) = w
  <2>1. \A i \in 1 .. (n - 1) : v[i + 1] = w[i]
    BY <1>0
  <2>2. /\ Tail(v) \in Seq(S) /\ Len(Tail(v)) = n - 1
        /\ \A i \in 1 .. (n - 1) : Tail(v)[i] = v[i + 1]
    <3> HIDE DEF v, S, n
    <3> QED
      BY <1>0, <1>4, <1>6, HeadTailProperties
  <2> HIDE DEF v, w, S, n, o
  <2> QED
    BY <1>0, <1>5, <2>1, <2>2, SeqEqual
<1>8. o[k] = CommitOp(b, k)
  OBVIOUS
<1> HIDE DEF v, w, o, S, n
<1> QED
  BY <1>1, <1>2, <1>4, <1>5, <1>6, <1>7, <1>8 DEF S

LEMMA LastCommit ==
  ASSUME NEW b \in Seq(Candidates)
  PROVE  Commits(b, Len(b) + 1) = <<>>
<1>1. Len(b) \in Nat /\ Len(b) + 1 - (Len(b) + 1) = 0
  OBVIOUS
<1> QED
  BY <1>1 DEF Commits

LEMMA AllCommits ==
  ASSUME NEW b \in Seq(Candidates)
  PROVE  \E S : Commits(b, 1) \in Seq(S)
<1>1. CASE Len(b) = 0
  <2>0. Commits(b, Len(b) + 1) = <<>>
    BY LastCommit, Zenon
  <2>1. Len(b) + 1 = 1
    BY <1>1
  <2>2. Commits(b, 1) = <<>>
    BY <2>0, <2>1, Zenon
  <2>3. <<>> \in Seq({})
    OBVIOUS
  <2> QED
    BY <2>2, <2>3
<1>2. CASE Len(b) # 0
  <2>1. 1 \in 1 .. Len(b)
    BY <1>2
  <2> QED
    BY <2>1, CommitsAreSequences
<1> QED
  BY <1>1, <1>2

LEMMA ThenHasHeadAndTail ==
  ASSUME NEW S, NEW w \in Seq(S), NEW o
  PROVE  /\ Then(o, w) \in Seq(S \union {o}) /\ Then(o, w) # <<>>
         /\ Then(o, w)[1] = o /\ Tail(Then(o, w)) = w
<1> DEFINE v == <<o>> \o w
<1>1. w \in Seq(S \union {o})
  BY SeqMonotonic
<1>2. /\ v \in Seq(S \union {o}) /\ Len(v) = 1 + Len(w) /\ Len(w) \in Nat
      /\ v[1] = o /\ \A k \in 1 .. Len(w) : v[k + 1] = w[k]
  BY <1>1
<1> HIDE DEF v
<1>3. v # <<>>
  BY <1>2
<1>4. /\ Tail(v) \in Seq(S \union {o}) /\ Len(Tail(v)) = Len(w)
      /\ \A k \in 1 .. Len(w) : Tail(v)[k] = w[k]
  BY <1>2, <1>3, HeadTailProperties
<1>5. Tail(v) = w
  BY <1>1, <1>4, SeqEqual
<1> QED
  BY <1>2, <1>3, <1>5 DEF v, Then

LEMMA NothingMore ==
  ASSUME NEW S, NEW w \in Seq(S)
  PROVE  w \o <<>> = w
  BY ConcatEmptySeq

(* A chain is a sequence; a plain one stays plain.                          *)
LEMMA RecallsAreSequences ==
  ASSUME NEW w, RecallChain(w)
  PROVE  \E S : w \in Seq(S)
<1>1. CASE w = <<[op |-> "recall"]>>
  <2>1. w \in Seq({[op |-> "recall"]})
    BY <1>1
  <2> QED
    BY <2>1
<1>2. ASSUME NEW b \in Seq(Candidates), RoomChain(w, b)
      PROVE  \E S : w \in Seq(S)
  <2>1. \E S : Commits(b, 1) \in Seq(S)
    BY AllCommits
  <2> QED
    BY <1>2, <2>1, ThenHasHeadAndTail DEF RoomChain
<1>3. ASSUME NEW b \in Seq(Candidates), NEW k \in 1 .. Len(b), CommitChain(w, b, k)
      PROVE  \E S : w \in Seq(S)
  BY <1>3, CommitsAreSequences DEF CommitChain
<1>4. ASSUME NEW b \in Seq(Candidates), NEW k \in 1 .. Len(b), NEW id,
             EnforceChain(w, b, k, id) \/ MarkChain(w, b, k, id)
      PROVE  \E S : w \in Seq(S)
  <2>1. PICK S : Commits(b, k + 1) \in Seq(S)
    BY CommitsAreSequences
  <2> DEFINE v == Then(MarkOp(b, k, id), Commits(b, k + 1))
             u == Then(EnforceOp, v)
  <2>2. v \in Seq(S \union {MarkOp(b, k, id)})
    BY <2>1, ThenHasHeadAndTail
  <2>3. w = u \/ w = v
    BY <1>4 DEF EnforceChain, MarkChain
  <2> HIDE DEF v
  <2>4. u \in Seq((S \union {MarkOp(b, k, id)}) \union {EnforceOp})
    BY <2>2, ThenHasHeadAndTail
  <2> QED
    BY <2>2, <2>3, <2>4
<1>5. CASE w # <<[op |-> "recall"]>>
  <2>1. PICK b \in Seq(Candidates) :
          \/ RoomChain(w, b)
          \/ \E k \in 1 .. Len(b) :
                \/ CommitChain(w, b, k)
                \/ \E id \in Ids : EnforceChain(w, b, k, id) \/ MarkChain(w, b, k, id)
    BY <1>5, Zenon DEF RecallChain
  <2>2. CASE RoomChain(w, b)
    BY <1>2, <2>2
  <2>3. ASSUME NEW k \in 1 .. Len(b), CommitChain(w, b, k)
        PROVE  \E S : w \in Seq(S)
    BY <1>3, <2>3
  <2>4. ASSUME NEW k \in 1 .. Len(b), NEW id \in Ids,
               EnforceChain(w, b, k, id) \/ MarkChain(w, b, k, id)
        PROVE  \E S : w \in Seq(S)
    BY <1>4, <2>4
  <2> QED
    BY <2>1, <2>2, <2>3, <2>4, Zenon
<1> QED
  BY <1>1, <1>5

(* What an operation carries.                                               *)
LEMMA PlainHead ==
  ASSUME NEW o \in PlainOps
  PROVE  /\ o.op \notin {"recall", "room", "commit", "mark"}
         /\ o.op = "add" => o.text \in Texts /\ o.note \in BOOLEAN /\ o.pin \in BOOLEAN
         /\ o.op = "plan" => o.i \in Nat /\ o.text \in Texts
         /\ o.op = "chat" => o.i \in Nat
         /\ o.op \in Moving => o \in MovingOps
         /\ o.op \in {"truncate", "write"} \union Switching => o.to \in Sessions
<1>1. CASE o \in AddOps
  BY <1>1 DEF AddOps, Moving, Switching
<1>2. CASE o \in MovingOps
  BY <1>2 DEF MovingOps, Moving, Switching
<1>3. CASE o \in TurnOps
  BY <1>3 DEF TurnOps, Moving, Switching
<1>4. CASE o \in SaveOrSwitchOps
  BY <1>4 DEF SaveOrSwitchOps, Moving, Switching
<1> QED
  BY <1>1, <1>2, <1>3, <1>4 DEF PlainOps

LEMMA PlainOperations ==
  /\ \A t \in Texts, note, pin \in BOOLEAN : AddOp(t, note, pin) \in PlainOps
  /\ EnforceOp \in PlainOps /\ TickOp \in PlainOps
  /\ [op |-> "compact"] \in PlainOps /\ [op |-> "stop"] \in PlainOps
  /\ \A i \in Nat, t \in Texts : PlanOp(i, t) \in PlainOps
  /\ \A i \in Nat : ChatOp(i) \in PlainOps /\ PushOp(i) \in PlainOps
  /\ \A i \in Ids : [op |-> "evict", id |-> i] \in PlainOps
  /\ \A s \in Sessions : \A o \in {"truncate", "write"} \union Switching :
        [op |-> o, to |-> s] \in PlainOps
<1>1. \A t \in Texts, note, pin \in BOOLEAN : AddOp(t, note, pin) \in AddOps
  BY DEF AddOp, AddOps
<1>2. EnforceOp \in TurnOps /\ TickOp \in TurnOps
  BY DEF EnforceOp, TickOp, TurnOps
<1>3. [op |-> "compact"] \in TurnOps /\ [op |-> "stop"] \in TurnOps
  BY DEF TurnOps
<1>4. \A i \in Nat, t \in Texts : PlanOp(i, t) \in TurnOps
  BY DEF PlanOp, TurnOps
<1>5. \A i \in Nat : ChatOp(i) \in TurnOps /\ PushOp(i) \in TurnOps
  BY DEF ChatOp, PushOp, TurnOps
<1>6. \A i \in Ids : [op |-> "evict", id |-> i] \in TurnOps
  BY DEF TurnOps
<1>7. \A s \in Sessions : \A o \in {"truncate", "write"} \union Switching :
        [op |-> o, to |-> s] \in SaveOrSwitchOps
  BY DEF SaveOrSwitchOps
<1> QED
  BY <1>1, <1>2, <1>3, <1>4, <1>5, <1>6, <1>7 DEF PlainOps

(* What is left of a recall once its head is done.                          *)
LEMMA RecallHead ==
  ASSUME NEW w, RecallChain(w)
  PROVE  /\ w # <<>>
         /\ \/ w = <<[op |-> "recall"]>>
            \/ \E b \in Seq(Candidates) :
                 /\ RoomChain(w, b) /\ w[1] = RoomOp(b) /\ Tail(w) = Commits(b, 1)
            \/ \E b \in Seq(Candidates) : \E k \in 1 .. Len(b) :
                 /\ CommitChain(w, b, k) /\ w[1] = CommitOp(b, k)
                 /\ Tail(w) = Commits(b, k + 1)
            \/ \E b \in Seq(Candidates) : \E k \in 1 .. Len(b) : \E id \in Ids :
                 /\ EnforceChain(w, b, k, id) /\ w[1] = EnforceOp
                 /\ Tail(w) = Then(MarkOp(b, k, id), Commits(b, k + 1))
                 /\ w[2] = MarkOp(b, k, id)
            \/ \E b \in Seq(Candidates) : \E k \in 1 .. Len(b) : \E id \in Ids :
                 /\ MarkChain(w, b, k, id) /\ w[1] = MarkOp(b, k, id)
                 /\ Tail(w) = Commits(b, k + 1)
<1> DEFINE Starts(u, o, r) == u # <<>> /\ u[1] = o /\ Tail(u) = r
<1>0. ASSUME NEW S, NEW r \in Seq(S), NEW o
      PROVE  Starts(Then(o, r), o, r)
  BY ThenHasHeadAndTail
<1>1. CASE w = <<[op |-> "recall"]>>
  BY <1>1
<1>2. ASSUME NEW b \in Seq(Candidates), RoomChain(w, b)
      PROVE  Starts(w, RoomOp(b), Commits(b, 1))
  <2>1. \E S : Commits(b, 1) \in Seq(S)
    BY AllCommits
  <2> QED
    BY <1>0, <1>2, <2>1 DEF RoomChain
<1>3. ASSUME NEW b \in Seq(Candidates), NEW k \in 1 .. Len(b), CommitChain(w, b, k)
      PROVE  Starts(w, CommitOp(b, k), Commits(b, k + 1))
  BY <1>3, CommitsAreSequences DEF CommitChain
<1>4. ASSUME NEW b \in Seq(Candidates), NEW k \in 1 .. Len(b), NEW id
      PROVE  Starts(Then(MarkOp(b, k, id), Commits(b, k + 1)), MarkOp(b, k, id), Commits(b, k + 1))
  BY <1>0, CommitsAreSequences
<1>5. ASSUME NEW b \in Seq(Candidates), NEW k \in 1 .. Len(b), NEW id,
             EnforceChain(w, b, k, id)
      PROVE  /\ Starts(w, EnforceOp, Then(MarkOp(b, k, id), Commits(b, k + 1)))
             /\ w[2] = MarkOp(b, k, id)
  <2> DEFINE v == Then(MarkOp(b, k, id), Commits(b, k + 1))
  <2>0. PICK T : Commits(b, k + 1) \in Seq(T)
    BY CommitsAreSequences
  <2> DEFINE S == T \union {MarkOp(b, k, id)}
  <2>1. v \in Seq(S) /\ v # <<>> /\ v[1] = MarkOp(b, k, id)
    BY <2>0, ThenHasHeadAndTail
  <2>2. w = Then(EnforceOp, v)
    BY <1>5 DEF EnforceChain
  <2> HIDE DEF v, S
  <2>3. Starts(w, EnforceOp, v)
    BY <1>0, <2>1, <2>2
  <2>4. w[2] = v[1]
    BY <2>1, <2>2 DEF Then
  <2> QED
    BY <2>1, <2>3, <2>4 DEF v
<1> HIDE DEF Starts
<1>6. CASE w # <<[op |-> "recall"]>>
  <2>1. PICK b \in Seq(Candidates) :
          \/ RoomChain(w, b)
          \/ \E k \in 1 .. Len(b) :
                \/ CommitChain(w, b, k)
                \/ \E id \in Ids : EnforceChain(w, b, k, id) \/ MarkChain(w, b, k, id)
    BY <1>6, Zenon DEF RecallChain
  <2>2. CASE RoomChain(w, b)
    BY <1>2, <2>2 DEF Starts
  <2>3. ASSUME NEW k \in 1 .. Len(b), CommitChain(w, b, k)
        PROVE  w # <<>> /\ w[1] = CommitOp(b, k) /\ Tail(w) = Commits(b, k + 1)
    BY <1>3, <2>3 DEF Starts
  <2>4. ASSUME NEW k \in 1 .. Len(b), NEW id \in Ids, EnforceChain(w, b, k, id)
        PROVE  /\ w # <<>> /\ w[1] = EnforceOp /\ w[2] = MarkOp(b, k, id)
               /\ Tail(w) = Then(MarkOp(b, k, id), Commits(b, k + 1))
    BY <1>5, <2>4 DEF Starts
  <2>5. ASSUME NEW k \in 1 .. Len(b), NEW id \in Ids, MarkChain(w, b, k, id)
        PROVE  w # <<>> /\ w[1] = MarkOp(b, k, id) /\ Tail(w) = Commits(b, k + 1)
    BY <1>4, <2>5 DEF Starts, MarkChain
  <2> QED
    BY <2>1, <2>2, <2>3, <2>4, <2>5, Zenon
<1> QED
  BY <1>1, <1>6

(* Which chain is at work, from the operation at its head.                  *)
LEMMA ChainHead ==
  ASSUME ChainInv, work # <<>>
  PROVE  \/ work \in Seq(PlainOps) /\ work[1] \in PlainOps /\ Rest \in Seq(PlainOps)
         \/ RecallChain(work)
         \/ work[1] \in MovingOps /\ RecallChain(Rest)
<1>1. CASE work \in Seq(PlainOps)
  BY <1>1 DEF Rest
<1>2. ASSUME NEW m \in MovingOps, NEW w, RecallChain(w), work = Then(m, w)
      PROVE  work[1] \in MovingOps /\ RecallChain(Rest)
  <2>1. PICK S : w \in Seq(S)
    BY <1>2, RecallsAreSequences
  <2>2. work[1] = m /\ Rest = w
    BY <1>2, <2>1, ThenHasHeadAndTail DEF Rest
  <2> QED
    BY <1>2, <2>2
<1> QED
  BY <1>1, <1>2 DEF ChainInv

(* The head of a recall is an operation that only recalls have, or the      *)
(* enforcement that follows an insertion.                                   *)
LEMMA RecallOp ==
  ASSUME NEW w, RecallChain(w)
  PROVE  w # <<>> /\ w[1].op \in {"recall", "room", "commit", "enforce", "mark"}
<1>1. \A b, k, id : /\ RoomOp(b).op = "room" /\ CommitOp(b, k).op = "commit"
                   /\ EnforceOp.op = "enforce" /\ MarkOp(b, k, id).op = "mark"
  BY DEF RoomOp, CommitOp, EnforceOp, MarkOp
<1>2. w = <<[op |-> "recall"]>> => w[1].op = "recall"
  OBVIOUS
<1>3. /\ w # <<>>
      /\ \/ w[1].op = "recall" \/ w[1] = EnforceOp
         \/ \E b : w[1] = RoomOp(b)
         \/ \E b, k : w[1] = CommitOp(b, k)
         \/ \E b, k, id : w[1] = MarkOp(b, k, id)
  BY <1>2, RecallHead, Zenon
<1> QED
  BY <1>1, <1>3, Zenon

LEMMA MovingOp ==
  ASSUME NEW m \in MovingOps
  PROVE  m.op \in Moving /\ m \in PlainOps /\ m.item \in Item /\ m.id \in Ids
  BY DEF MovingOps, PlainOps

(* All but a recall and what it interrupts itself for is a plain chain.     *)
LEMMA PlainChain ==
  ASSUME ChainInv, work # <<>>,
         work[1].op \notin Moving \union {"recall", "room", "commit", "enforce", "mark"}
  PROVE  work \in Seq(PlainOps) /\ work[1] \in PlainOps /\ Rest \in Seq(PlainOps)
  BY ChainHead, RecallOp, MovingOp

-----------------------------------------------------------------------------
(* What a recall does to the hot set.                                       *)
LEMMA HotIsWeighed ==
  ASSUME NEW h, HotTyped(h), NEW ids \in SUBSET DOMAIN h
  PROVE  Weighed(h, ids) /\ Spent(h, ids) \in Nat
<1>1. IsFiniteSet(Ids)
  BY MemoryAssumption, FS_Interval DEF Ids
<1>2. IsFiniteSet(ids)
  BY <1>1, FS_Subset DEF HotTyped
<1>3. Weighed(h, ids)
  BY <1>2 DEF HotTyped, Item, Weighed
<1> QED
  BY <1>3, SpentIsANumber

LEMMA BatchIsWeighed ==
  ASSUME NEW b \in Seq(Candidates), NEW k \in Nat \ {0}
  PROVE  /\ Weighed(b, k .. Len(b)) /\ Spent(b, k .. Len(b)) \in Nat
         /\ DOMAIN b = 1 .. Len(b) /\ BatchTokens(b) = Spent(b, 1 .. Len(b))
         /\ BatchTokens(b) \in Nat
<1>1. Len(b) \in Nat /\ DOMAIN b = 1 .. Len(b) /\ \A i \in 1 .. Len(b) : b[i].text \in Texts
  <2>1. \A i \in 1 .. Len(b) : b[i] \in Candidates
    OBVIOUS
  <2>2. \A c \in Candidates : c.text \in Texts
    BY DEF Candidates
  <2>3. Len(b) \in Nat /\ DOMAIN b = 1 .. Len(b)
    OBVIOUS
  <2> QED
    BY <2>1, <2>2, <2>3
<1>2. ASSUME NEW j \in Nat \ {0}
      PROVE  Weighed(b, j .. Len(b))
  <2>1. IsFiniteSet(j .. Len(b))
    BY <1>1, FS_Interval
  <2>2. \A i \in j .. Len(b) : i \in 1 .. Len(b)
    BY <1>1
  <2> QED
    BY <1>1, <2>1, <2>2 DEF Weighed
<1>3. Spent(b, k .. Len(b)) \in Nat /\ Spent(b, 1 .. Len(b)) \in Nat
  BY <1>2, SpentIsANumber
<1> QED
  BY <1>1, <1>2, <1>3 DEF BatchTokens

(* A text leaves the batch when it enters the hot set.                      *)
LEMMA OneLessToCommit ==
  ASSUME NEW b \in Seq(Candidates), NEW k \in 1 .. Len(b)
  PROVE  Spent(b, k .. Len(b)) = Size[b[k].text] + Spent(b, (k + 1) .. Len(b))
<1>1. Len(b) \in Nat /\ k \in Nat \ {0} /\ k \in k .. Len(b)
  OBVIOUS
<1>2. (k .. Len(b)) \ {k} = (k + 1) .. Len(b)
  BY <1>1
<1>3. Weighed(b, k .. Len(b))
  BY <1>1, BatchIsWeighed
<1>4. Spent(b, k .. Len(b)) = Size[b[k].text] + Spent(b, (k .. Len(b)) \ {k})
  BY <1>1, <1>3, SpentLessOne
<1> QED
  BY <1>2, <1>4

LEMMA OneMoreIsHot ==
  ASSUME HotTyped(hot), NEW id, id \notin DOMAIN hot, NEW x, x.text \in Texts, ~x.pinned,
         hot' = With(hot, id, x), HotTyped(hot')
  PROVE  /\ Used' = Size[x.text] + Used
         /\ Spent(hot', PinnedIn(hot')) = Spent(hot, PinnedIn(hot))
<1>1. /\ DOMAIN hot' = DOMAIN hot \union {id} /\ hot'[id] = x
      /\ \A i \in DOMAIN hot : hot'[i] = hot[i]
  BY DEF With
<1>2. PinnedIn(hot') = PinnedIn(hot) /\ PinnedIn(hot) \subseteq DOMAIN hot
  BY <1>1 DEF PinnedIn
<1>3. Weighed(hot', DOMAIN hot') /\ Weighed(hot, DOMAIN hot) /\ Weighed(hot, PinnedIn(hot))
  BY <1>2, HotIsWeighed
<1>4. DOMAIN hot' \ {id} = DOMAIN hot
  BY <1>1
<1>5. Spent(hot', DOMAIN hot') = Size[x.text] + Spent(hot', DOMAIN hot)
  BY <1>1, <1>3, <1>4, SpentLessOne
<1>6. Spent(hot', DOMAIN hot) = Spent(hot, DOMAIN hot)
  BY <1>1, <1>3, SpentIsOfTexts
<1>7. Spent(hot', PinnedIn(hot)) = Spent(hot, PinnedIn(hot))
  BY <1>1, <1>2, <1>3, SpentIsOfTexts
<1> QED
  BY <1>2, <1>5, <1>6, <1>7 DEF Used

(* Neither a demotion of an unpinned item nor an inheritance touches what   *)
(* the pinned ones weigh.                                                   *)
LEMMA PinnedStay ==
  ASSUME HotTyped(hot), PinnedIn(hot') = PinnedIn(hot),
         \A i \in PinnedIn(hot) : hot'[i].text = hot[i].text
  PROVE  Spent(hot', PinnedIn(hot')) = Spent(hot, PinnedIn(hot))
<1>1. PinnedIn(hot) \in SUBSET DOMAIN hot
  BY DEF PinnedIn
<1>2. Weighed(hot, PinnedIn(hot))
  BY <1>1, HotIsWeighed
<1>3. Spent(hot', PinnedIn(hot)) = Spent(hot, PinnedIn(hot))
  BY <1>2, SpentIsOfTexts
<1> QED
  BY <1>3

(* A chain of a recall is one in the next state too when the hot set stays. *)
LEMMA RecallChainStays ==
  ASSUME NEW w, RecallChain(w), UNCHANGED hot
  PROVE  RecallChain(w)'
<1>1. HotLineages' = HotLineages /\ Used' = Used /\ PinnedIn(hot') = PinnedIn(hot)
  BY DEF HotLineages, Used, PinnedIn
<1>2. \A b, k : Roomy(b, k) => Roomy(b, k)'
  BY <1>1 DEF Roomy
<1>3. \A b : RoomChain(w, b) => RoomChain(w, b)'
  BY <1>1 DEF RoomChain
<1>4. \A b, k : CommitChain(w, b, k) => CommitChain(w, b, k)'
  BY <1>2 DEF CommitChain
<1>5. \A b, k, id : EnforceChain(w, b, k, id) => EnforceChain(w, b, k, id)'
  BY <1>2 DEF EnforceChain
<1>6. \A b, k, id : MarkChain(w, b, k, id) => MarkChain(w, b, k, id)'
  BY <1>2 DEF MarkChain
<1> QED
  BY <1>3, <1>4, <1>5, <1>6, Zenon DEF RecallChain

-----------------------------------------------------------------------------
(* The steps of the working memory keep the types.                          *)
MemoryTyped ==
    /\ HotTyped(hot)
    /\ DOMAIN cold \subseteq Ids /\ \A l \in DOMAIN cold : cold[l] \in Document
    /\ manifest \in Seq(Entry) /\ seq \in 0 .. MaxId /\ torn \subseteq Ids

LEMMA MemoryTypes == MemoryTyped <=> MemoryTypeOK
  BY DEF MemoryTyped, MemoryTypeOK, HotTyped

LEMMA InsertTypes ==
  ASSUME MemoryTyped, NEW id, NEW t \in Texts, NEW note \in BOOLEAN, NEW pin \in BOOLEAN,
         NEW after, Insert(id, t, note, pin, after)
  PROVE  MemoryTyped'
<1> DEFINE item == [text |-> t, note |-> note, pinned |-> pin, lineage |-> id]
           h == With(hot, id, item)
<1>1. id \in Ids
  BY DEF Insert, IsNextId, FreshIds
<1>2. item \in Item
  BY <1>1 DEF Item
<1>3. PICK unpin \in SUBSET DOMAIN h : hot' = Unpin(h, unpin)
  BY DEF Insert
<1>4. HotTyped(h)
  BY <1>1, <1>2 DEF HotTyped, With, MemoryTyped
<1> HIDE DEF h, item
<1>5. HotTyped(hot')
  <2>1. DOMAIN hot' = DOMAIN h
    BY <1>3 DEF Unpin
  <2>2. ASSUME NEW i \in DOMAIN h
        PROVE  hot'[i] \in Item
    <3>1. h[i] \in Item
      BY <1>4 DEF HotTyped
    <3>2. [h[i] EXCEPT !.pinned = FALSE] \in Item
      BY <3>1 DEF Item
    <3>3. hot'[i] = h[i] \/ hot'[i] = [h[i] EXCEPT !.pinned = FALSE]
      BY <1>3 DEF Unpin
    <3> QED
      BY <3>1, <3>2, <3>3
  <2> QED
    BY <1>4, <2>1, <2>2 DEF HotTyped
<1>6. seq' \in 0 .. MaxId
  BY <1>1, MemoryAssumption DEF Insert, Ids
<1> QED
  BY <1>5, <1>6 DEF Insert, MemoryTyped

LEMMA PopTypes ==
  ASSUME MemoryTyped, NEW v \in DOMAIN hot, NEW todo, Pop(v, todo),
         UNCHANGED <<cold, manifest, seq, torn>>
  PROVE  MemoryTyped' /\ DeleteOp(v) \in MovingOps /\ work' = Then(DeleteOp(v), todo)
<1>1. HotTyped(hot')
  BY DEF MemoryTyped, HotTyped, Pop, Without
<1>2. MemoryTyped'
  BY <1>1 DEF MemoryTyped
<1>3. DeleteOp(v) \in MovingOps
  BY DEF DeleteOp, MovingOps, Moving, MemoryTyped, HotTyped
<1> QED
  BY <1>2, <1>3 DEF Pop, Then

LEMMA MovingTypes ==
  ASSUME MemoryTyped, work # <<>>, work[1] \in MovingOps, DeleteCold \/ StoreCold
  PROVE  /\ MemoryTyped' /\ UNCHANGED hot
         /\ \/ work' = Rest
            \/ \E m \in MovingOps : work' = Then(m, Rest)
<1>1. /\ work[1].id \in Ids /\ work[1].item \in Item /\ work[1].item.lineage \in Ids
      /\ work[1].item.text \in Texts
  BY DEF MovingOps, Item
<1>2. CASE DeleteCold
  <2>1. StoreOp(work[1].id, work[1].item) \in MovingOps
    BY <1>1 DEF StoreOp, MovingOps, Moving
  <2>2. MemoryTyped'
    BY <1>2 DEF DeleteCold, MemoryTyped, Without
  <2> QED
    BY <1>2, <2>1, <2>2 DEF DeleteCold, Then
<1>3. CASE StoreCold
  <2> DEFINE lineage == work[1].item.lineage
             doc == [text |-> work[1].item.text, orig |-> work[1].id]
             entry == [id |-> work[1].id, lineage |-> lineage]
  <2>1. doc \in Document /\ entry \in Entry
    BY <1>1 DEF Document, Entry
  <2>2. /\ cold' = With(cold, lineage, doc) /\ manifest' = Append(manifest, entry)
        /\ torn' = torn \ {lineage} /\ work' = Rest /\ UNCHANGED <<hot, seq>>
    BY <1>3 DEF StoreCold
  <2> HIDE DEF doc, entry
  <2>3. manifest' \in Seq(Entry)
    BY <2>1, <2>2 DEF MemoryTyped
  <2>4. DOMAIN cold' \subseteq Ids /\ \A l \in DOMAIN cold' : cold'[l] \in Document
    BY <1>1, <2>1, <2>2 DEF MemoryTyped, With
  <2> QED
    BY <2>2, <2>3, <2>4 DEF MemoryTyped
<1> QED
  BY <1>2, <1>3

LEMMA MergeTypes ==
  ASSUME MemoryTyped, MergeNote, work[1].text \in Texts
  PROVE  MemoryTyped'
<1>1. PICK i \in DOMAIN hot :
         hot' = [hot EXCEPT ![i].text =
                    IF Size[work[1].text] > Size[@] THEN work[1].text ELSE @]
  BY DEF MergeNote
<1>2. PICK t \in Texts : hot' = [hot EXCEPT ![i].text = t]
  BY <1>1 DEF MemoryTyped, HotTyped, Item
<1>3. hot[i] \in Item
  BY DEF MemoryTyped, HotTyped
<1>4. [hot[i] EXCEPT !.text = t] \in Item
  BY <1>3 DEF Item
<1>5. HotTyped(hot')
  BY <1>2, <1>4 DEF MemoryTyped, HotTyped
<1> QED
  BY <1>5 DEF MergeNote, MemoryTyped

LEMMA MarkTypes ==
  ASSUME MemoryTyped, MarkRecalled, work[1].cand \in Candidates
  PROVE  /\ MemoryTyped' /\ DOMAIN hot' = DOMAIN hot
         /\ \A i \in DOMAIN hot : hot'[i].text = hot[i].text /\ hot'[i].pinned = hot[i].pinned
<1> DEFINE i == work[1].id
           heir == work[1].cand.heir
           listed == {k \in DOMAIN manifest : manifest[k].id = work[1].cand.orig}
<1>1. i \in DOMAIN hot /\ heir \in Ids /\ hot[i] \in Item
  BY DEF MarkRecalled, Candidates, MemoryTyped, HotTyped
<1>2. hot' = [hot EXCEPT ![i].lineage = heir]
  BY DEF MarkRecalled
<1>3. /\ [hot[i] EXCEPT !.lineage = heir] \in Item
      /\ [hot[i] EXCEPT !.lineage = heir].text = hot[i].text
      /\ [hot[i] EXCEPT !.lineage = heir].pinned = hot[i].pinned
  BY <1>1 DEF Item
<1>4. manifest' \in Seq(Entry)
  <2>1. manifest' = IF listed = {} THEN manifest ELSE RemoveAt(manifest, Min(listed))
    BY DEF MarkRecalled
  <2>2. manifest \in Seq(Entry)
    BY DEF MemoryTyped
  <2>3. listed \subseteq Nat /\ listed \subseteq 1 .. Len(manifest)
    BY <2>2
  <2>4. CASE listed # {}
    <3>1. \E x \in listed : \A y \in listed : x <= y
      BY <2>3, <2>4, Smallest
    <3>2. Min(listed) \in listed
      BY <3>1 DEF Min
    <3> DEFINE n == Min(listed)
    <3>3. n \in 1 .. Len(manifest)
      BY <2>3, <3>2
    <3> HIDE DEF n, listed
    <3>4. RemoveAt(manifest, n) \in Seq(Entry)
      <4>1. SubSeq(manifest, 1, n - 1) \in Seq(Entry)
        BY <2>2, <3>3
      <4>2. SubSeq(manifest, n + 1, Len(manifest)) \in Seq(Entry)
        BY <2>2, <3>3
      <4> QED
        BY <4>1, <4>2 DEF RemoveAt
    <3> QED
      BY <2>1, <2>4, <3>4 DEF n
  <2> QED
    BY <2>1, <2>2, <2>4
<1> HIDE DEF i, heir
<1>5. HotTyped(hot')
  BY <1>1, <1>2, <1>3 DEF MemoryTyped, HotTyped
<1>6. MemoryTyped'
  BY <1>4, <1>5 DEF MarkRecalled, MemoryTyped
<1> QED
  BY <1>1, <1>2, <1>3, <1>6

(* A batch is made of candidates whose lineage is not hot.                  *)
LEMMA BatchTypes ==
  ASSUME MemoryTyped, NEW batch \in Selections
  PROVE  /\ batch \in Seq(Candidates)
         /\ {batch[k].lineage : k \in DOMAIN batch} \cap HotLineages = {}
<1> DEFINE Hits == ColdHits \union DigestHits
<1>1. \A e \in Range(manifest) : e \in Entry /\ e.id \in Ids /\ e.lineage \in Ids
  <2>1. manifest \in Seq(Entry)
    BY DEF MemoryTyped
  <2>2. \A e \in Range(manifest) : e \in Entry
    BY <2>1 DEF Range
  <2>3. \A e \in Entry : e.id \in Ids /\ e.lineage \in Ids
    BY DEF Entry
  <2> QED
    BY <2>2, <2>3
<1>2. \A l \in DOMAIN cold : l \in Ids /\ cold[l].text \in Texts /\ cold[l].orig \in Ids
  BY DEF MemoryTyped, Document
<1>3. ASSUME NEW c \in ColdHits
      PROVE  c \in Candidates /\ c.lineage \notin HotLineages
  <2> DEFINE Fit == {l \in DOMAIN cold : Size[cold[l].text] <= MaxTokens}
  <2>1. \/ \E l \in Fit \ HotLineages : c = Candidate(l, l, cold[l].text, cold[l].orig)
        \/ \E e \in {x \in Range(manifest) : /\ x.id \in Fit
                            /\ x.lineage \notin HotLineages \union DOMAIN cold} :
              c = Candidate(e.lineage, e.id, cold[e.id].text, cold[e.id].orig)
    BY DEF ColdHits
  <2> QED
    BY <1>1, <1>2, <2>1 DEF Candidate, Candidates
<1>4. ASSUME NEW c \in DigestHits
      PROVE  c \in Candidates /\ c.lineage \notin HotLineages
  <2>1. PICK e \in Range(manifest) : e.lineage \notin HotLineages
                                     /\ c = Candidate(e.lineage, e.id, Digest, e.id)
    BY DEF DigestHits
  <2> QED
    BY <1>1, <2>1, MemoryAssumption DEF Candidate, Candidates
<1>5. Hits \subseteq Candidates /\ \A c \in Hits : c.lineage \notin HotLineages
  BY <1>3, <1>4
<1>6. batch \in Seq(Hits)
  BY BatchIsASequence
<1> HIDE DEF Hits
<1>7. \A k \in DOMAIN batch : batch[k] \in Hits
  BY <1>6
<1> QED
  BY <1>5, <1>6, <1>7, SeqMonotonic

-----------------------------------------------------------------------------
(* The steps of a recall, one by one.                                       *)
MemoryKept == MemoryTyped' /\ ChainInv'

LEMMA RecallOps ==
  /\ \A b, k, id : /\ RoomOp(b).op = "room" /\ CommitOp(b, k).op = "commit"
                   /\ EnforceOp.op = "enforce" /\ MarkOp(b, k, id).op = "mark"
  /\ \A w : w = <<[op |-> "recall"]>> => w[1].op = "recall"
  BY DEF RoomOp, CommitOp, EnforceOp, MarkOp

LEMMA RecallAtWork ==
  ASSUME NEW w, RecallChain(w)
  PROVE  /\ w[1].op = "recall" => w = <<[op |-> "recall"]>>
         /\ w[1].op = "room" => \E b \in Seq(Candidates) :
                 /\ RoomChain(w, b) /\ w[1] = RoomOp(b) /\ Tail(w) = Commits(b, 1)
         /\ w[1].op = "commit" => \E b \in Seq(Candidates) : \E k \in 1 .. Len(b) :
                 /\ CommitChain(w, b, k) /\ w[1] = CommitOp(b, k)
                 /\ Tail(w) = Commits(b, k + 1)
         /\ w[1].op = "enforce" =>
               \E b \in Seq(Candidates) : \E k \in 1 .. Len(b) : \E id \in Ids :
                 /\ EnforceChain(w, b, k, id) /\ w[1] = EnforceOp
                 /\ Tail(w) = Then(MarkOp(b, k, id), Commits(b, k + 1))
                 /\ w[2] = MarkOp(b, k, id)
         /\ w[1].op = "mark" =>
               \E b \in Seq(Candidates) : \E k \in 1 .. Len(b) : \E id \in Ids :
                 /\ MarkChain(w, b, k, id) /\ w[1] = MarkOp(b, k, id)
                 /\ Tail(w) = Commits(b, k + 1)
<1>1. \A w1 : /\ (w1 = <<[op |-> "recall"]>> => w1[1].op = "recall")
             /\ (\A b : w1[1] = RoomOp(b) => w1[1].op = "room")
             /\ (\A b, k : w1[1] = CommitOp(b, k) => w1[1].op = "commit")
             /\ (w1[1] = EnforceOp => w1[1].op = "enforce")
             /\ (\A b, k, id : w1[1] = MarkOp(b, k, id) => w1[1].op = "mark")
  BY RecallOps, Zenon
<1>2. /\ "recall" # "room" /\ "recall" # "commit" /\ "recall" # "enforce" /\ "recall" # "mark"
      /\ "room" # "commit" /\ "room" # "enforce" /\ "room" # "mark" /\ "commit" # "enforce"
      /\ "commit" # "mark" /\ "enforce" # "mark"
  OBVIOUS
<1> QED
  BY <1>1, <1>2, RecallHead

(* The chain of the next state.                                             *)
LEMMA ChainGoesOn ==
  ASSUME NEW w, RecallChain(w)', work' = w
  PROVE  ChainInv'
  BY DEF ChainInv

LEMMA ChainIsInterrupted ==
  ASSUME NEW w, RecallChain(w)', NEW m \in MovingOps, work' = Then(m, w)
  PROVE  ChainInv'
  BY Zenon DEF ChainInv


LEMMA SelectStep ==
  ASSUME MemoryTyped, RecallChain(work), SelectBatch
  PROVE  MemoryKept
<1>1. work = <<[op |-> "recall"]>>
  <2>1. work[1].op = "recall"
    BY DEF SelectBatch, Doing
  <2> QED
    BY <2>1, RecallAtWork
<1>2. Rest = <<>>
  BY <1>1 DEF Rest
<1>3. MemoryTyped' /\ UNCHANGED hot
  BY DEF SelectBatch, MemoryTyped
<1>4. CASE work' = Rest
  BY <1>2, <1>3, <1>4 DEF ChainInv, MemoryKept
<1>5. CASE work' # Rest
  <2> DEFINE commits(batch) == [k \in DOMAIN batch |-> [op |-> "commit", cand |-> batch[k],
                                                        need |-> BatchTokens(batch)]]
  <2>1. PICK batch \in Selections :
          work' = <<RoomOp(batch)>> \o commits(batch) \o Rest
    BY <1>5 DEF SelectBatch, RoomOp
  <2>2. /\ batch \in Seq(Candidates)
        /\ {batch[k].lineage : k \in DOMAIN batch} \cap HotLineages = {}
    BY BatchTypes
  <2>3. commits(batch) = Commits(batch, 1)
    <3>1. DOMAIN batch = 1 .. Len(batch) /\ Len(batch) + 1 - 1 = Len(batch)
      BY <2>2
    <3>2. \A i \in 1 .. Len(batch) : 1 + i - 1 = i
      OBVIOUS
    <3> QED
      BY <3>1, <3>2 DEF Commits, CommitOp
  <2>4. work' = Then(RoomOp(batch), Commits(batch, 1)) \o <<>>
    BY <1>2, <2>1, <2>3 DEF Then
  <2>5. PICK S : Then(RoomOp(batch), Commits(batch, 1)) \in Seq(S)
    <3>1. RoomChain(Then(RoomOp(batch), Commits(batch, 1)), batch)
      BY <2>2 DEF RoomChain
    <3> QED
      BY <2>2, <3>1, RecallsAreSequences DEF RecallChain
  <2>6. work' = Then(RoomOp(batch), Commits(batch, 1))
    BY <2>4, <2>5, NothingMore
  <2>7. PICK w : w = Then(RoomOp(batch), Commits(batch, 1))
    OBVIOUS
  <2>8. RoomChain(w, batch)'
    BY <1>3, <2>2, <2>7 DEF RoomChain, HotLineages
  <2>9. RecallChain(w)'
    BY <2>2, <2>8, Zenon DEF RecallChain
  <2>10. ChainInv'
    BY <2>6, <2>7, <2>9, ChainGoesOn
  <2> QED
    BY <1>3, <2>10 DEF MemoryKept
<1> QED
  BY <1>4, <1>5

LEMMA RoomStep ==
  ASSUME MemoryTyped, RecallChain(work), MakeRoom
  PROVE  MemoryKept
<1>1. PICK b \in Seq(Candidates) :
        /\ RoomChain(work, b) /\ work[1] = RoomOp(b) /\ Rest = Commits(b, 1)
  <2>1. work[1].op = "room"
    BY DEF MakeRoom, Doing
  <2> QED
    BY <2>1, RecallAtWork, Zenon DEF Rest
<1> DEFINE staged == {b[k].lineage : k \in DOMAIN b}
           victims == {i \in Unpinned : hot[i].lineage \notin staged}
<1>2. /\ staged \cap HotLineages = {} /\ work = Then(RoomOp(b), Commits(b, 1))
      /\ work[1].staged = staged /\ work[1].need = BatchTokens(b)
  <2>1. RoomOp(b).staged = staged /\ RoomOp(b).need = BatchTokens(b)
    BY DEF RoomOp
  <2>2. staged \cap HotLineages = {} /\ work = Then(RoomOp(b), Commits(b, 1))
    BY <1>1, Zenon DEF RoomChain
  <2> QED
    BY <1>1, <2>1, <2>2, Zenon
<1>3. victims = Unpinned
  <2>1. \A i \in Unpinned : hot[i].lineage \in HotLineages
    BY DEF Unpinned, HotLineages
  <2> QED
    BY <1>2, <2>1
<1>4. \/ \E v \in Unpinned : Pop(v, work)
      \/ /\ Unpinned = {} \/ ~(Used + BatchTokens(b) > MaxTokens)
         /\ work' = Rest /\ UNCHANGED <<hot, demoted>>
  BY <1>2, <1>3 DEF MakeRoom
<1>5. UNCHANGED <<cold, manifest, seq, torn>>
  BY DEF MakeRoom
<1>6. ASSUME NEW v \in Unpinned, Pop(v, work)
      PROVE  MemoryKept
  <2>1. v \in DOMAIN hot
    BY DEF Unpinned
  <2>2. MemoryTyped' /\ DeleteOp(v) \in MovingOps /\ work' = Then(DeleteOp(v), work)
    BY <1>5, <1>6, <2>1, PopTypes
  <2>3. HotLineages' \subseteq HotLineages
    BY <1>6 DEF Pop, Without, HotLineages
  <2>4. RoomChain(work, b) /\ staged \cap HotLineages' = {}
    BY <1>1, <1>2, <2>3
  <2>6. PICK u : u = work /\ u = Then(RoomOp(b), Commits(b, 1))
    BY <1>2
  <2>7. RoomChain(u, b)'
    BY <2>4, <2>6 DEF RoomChain
  <2>8. RecallChain(u)'
    BY <2>7, Zenon DEF RecallChain
  <2>9. ChainInv'
    BY <2>2, <2>6, <2>8, ChainIsInterrupted
  <2> QED
    BY <2>2, <2>9 DEF MemoryKept
<1>7. CASE /\ Unpinned = {} \/ ~(Used + BatchTokens(b) > MaxTokens)
           /\ work' = Rest /\ UNCHANGED <<hot, demoted>>
  <2>1. MemoryTyped'
    BY <1>5, <1>7 DEF MemoryTyped
  <2>2. Used \in Nat /\ BatchTokens(b) \in Nat /\ BatchTokens(b) = Spent(b, 1 .. Len(b))
    <3>1. HotTyped(hot)
      BY DEF MemoryTyped
    <3> QED
      BY <3>1, BatchIsWeighed, HotIsWeighed DEF Used
  <2>3. Roomy(b, 1)
    <3>1. CASE Unpinned = {}
      <4>1. PinnedIn(hot) = DOMAIN hot
        BY <3>1 DEF Unpinned, PinnedIn
      <4>2. Spent(hot, PinnedIn(hot)) = Used
        BY <4>1 DEF Used
      <4> QED
        BY <2>2, <4>2, MemoryAssumption DEF Roomy
    <3>2. CASE Unpinned # {}
      BY <1>7, <2>2, <3>2, MemoryAssumption DEF Roomy
    <3> QED
      BY <3>1, <3>2
  <2>4. CASE Len(b) = 0
    <3>1. Len(b) + 1 = 1 /\ Commits(b, Len(b) + 1) = <<>>
      <4>1. Len(b) + 1 = 1
        BY <2>4
      <4> QED
        BY <4>1, LastCommit, Zenon
    <3>2. work' = <<>>
      BY <1>1, <1>7, <3>1, Zenon
    <3> QED
      BY <2>1, <3>2 DEF ChainInv, MemoryKept
  <2>5. CASE Len(b) # 0
    <3>1. 1 \in 1 .. Len(b)
      BY <2>5
    <3>2. CommitChain(Rest, b, 1)
      BY <1>1, <2>3 DEF CommitChain
    <3>3. PICK u : u = Rest
      OBVIOUS
    <3>4. RecallChain(u)
      BY <3>1, <3>2, <3>3 DEF RecallChain
    <3>5. RecallChain(u)'
      BY <1>7, <3>4, RecallChainStays
    <3>6. ChainInv'
      BY <1>7, <3>3, <3>5, ChainGoesOn
    <3> QED
      BY <2>1, <3>6 DEF MemoryKept
  <2> QED
    BY <2>4, <2>5
<1> QED
  BY <1>4, <1>6, <1>7

LEMMA CommitStep ==
  ASSUME MemoryTyped, RecallChain(work), CommitRecalled
  PROVE  MemoryKept
<1>0. PICK b \in Seq(Candidates) : \E k \in 1 .. Len(b) :
        CommitChain(work, b, k) /\ work[1] = CommitOp(b, k) /\ Rest = Commits(b, k + 1)
  <2>1. work[1].op = "commit"
    BY DEF CommitRecalled, Doing
  <2> QED
    BY <2>1, RecallAtWork, Zenon DEF Rest
<1>1. PICK k \in 1 .. Len(b) :
        CommitChain(work, b, k) /\ work[1] = CommitOp(b, k) /\ Rest = Commits(b, k + 1)
  BY <1>0
<1>2. /\ work[1].cand = b[k] /\ work[1].need = BatchTokens(b)
      /\ b[k].text \in Texts /\ k \in DOMAIN b
  <2>1. CommitOp(b, k).cand = b[k] /\ CommitOp(b, k).need = BatchTokens(b)
    BY DEF CommitOp
  <2>2. b[k] \in Candidates /\ k \in DOMAIN b
    OBVIOUS
  <2>3. b[k].text \in Texts
    BY <2>2 DEF Candidates
  <2> QED
    BY <1>1, <2>1, <2>2, <2>3, Zenon
<1>3. PICK id \in Ids :
        Insert(id, b[k].text, FALSE, FALSE, <<MarkOp(b, k, id)>> \o Commits(b, k + 1))
  BY <1>1, <1>2 DEF CommitRecalled, MarkOp
<1>4. MemoryTyped'
  BY <1>2, <1>3, InsertTypes
<1> DEFINE x == [text |-> b[k].text, note |-> FALSE, pinned |-> FALSE, lineage |-> id]
<1>5. id \notin DOMAIN hot /\ hot' = With(hot, id, x)
  <2>1. id \notin DOMAIN hot /\ hot' = Unpin(With(hot, id, x), {})
    BY <1>3 DEF Insert, IsNextId, FreshIds
  <2>2. Unpin(With(hot, id, x), {}) = With(hot, id, x)
    BY DEF Unpin, With
  <2> QED
    BY <2>1, <2>2
<1>6. /\ Used' = Size[b[k].text] + Used
      /\ Spent(hot', PinnedIn(hot')) = Spent(hot, PinnedIn(hot))
  <2>1. HotTyped(hot) /\ HotTyped(hot')
    BY <1>4 DEF MemoryTyped
  <2>2. x.text = b[k].text /\ ~x.pinned
    OBVIOUS
  <2> HIDE DEF x
  <2>3. Used' = Size[x.text] + Used /\ Spent(hot', PinnedIn(hot')) = Spent(hot, PinnedIn(hot))
    BY <1>2, <1>5, <2>1, <2>2, OneMoreIsHot
  <2> QED
    BY <2>2, <2>3
<1>7. Roomy(b, k + 1)'
  <2>1. Spent(b, k .. Len(b)) = Size[b[k].text] + Spent(b, (k + 1) .. Len(b))
    BY OneLessToCommit
  <2>2. /\ Spent(b, (k + 1) .. Len(b)) \in Nat /\ Size[b[k].text] \in Nat
        /\ Used \in Nat /\ MaxTokens \in Nat
    <3>1. HotTyped(hot)
      BY DEF MemoryTyped
    <3>2. k + 1 \in Nat \ {0}
      OBVIOUS
    <3>3. Spent(b, (k + 1) .. Len(b)) \in Nat
      BY <3>2, BatchIsWeighed
    <3> QED
      BY <1>2, <3>1, <3>3, HotIsWeighed, MemoryAssumption DEF Used
  <2>3. Roomy(b, k)
    BY <1>1 DEF CommitChain
  <2> DEFINE u == Used
             u1 == Used'
             s0 == Spent(b, k .. Len(b))
             s1 == Spent(b, (k + 1) .. Len(b))
             z == Size[b[k].text]
  <2>4. CASE u + s0 <= MaxTokens
    <3>1. u1 = z + u /\ s0 = z + s1
      BY <1>6, <2>1
    <3>2. s1 \in Nat /\ z \in Nat /\ u \in Nat /\ MaxTokens \in Nat
      BY <2>2
    <3> HIDE DEF u, u1, s0, s1, z
    <3>3. u1 + s1 <= MaxTokens
      BY <2>4, <3>1, <3>2
    <3> QED
      BY <3>3 DEF Roomy, u1, s1
  <2>5. CASE Spent(hot, PinnedIn(hot)) + BatchTokens(b) > MaxTokens
    BY <1>6, <2>5 DEF Roomy
  <2> QED
    BY <2>3, <2>4, <2>5 DEF Roomy
<1>8. PICK w : w = Then(EnforceOp, Then(MarkOp(b, k, id), Commits(b, k + 1)))
  OBVIOUS
<1>9. work' = w
  BY <1>3, <1>8 DEF Insert, Then
<1>10. EnforceChain(w, b, k, id)'
  BY <1>7, <1>8 DEF EnforceChain
<1>11. RecallChain(w)'
  BY <1>10, Zenon DEF RecallChain
<1>12. ChainInv'
  BY <1>9, <1>11, ChainGoesOn
<1> QED
  BY <1>4, <1>12 DEF MemoryKept

(* The budget is over only when the pins and the batch are, together.       *)
LEMMA EnforcedWhenTight ==
  ASSUME MemoryTyped, NEW b \in Seq(Candidates), NEW k \in 1 .. Len(b),
         Roomy(b, k + 1), Used > MaxTokens
  PROVE  Spent(hot, PinnedIn(hot)) + BatchTokens(b) > MaxTokens
<1>1. k + 1 \in Nat \ {0}
  OBVIOUS
<1>2. Spent(b, (k + 1) .. Len(b)) \in Nat
  BY <1>1, BatchIsWeighed
<1>3. Used \in Nat
  BY HotIsWeighed DEF MemoryTyped, Used
<1> QED
  BY <1>2, <1>3, MemoryAssumption DEF Roomy

LEMMA EnforceStep ==
  ASSUME MemoryTyped, RecallChain(work), EnforceBudget
  PROVE  MemoryKept
<1>0. PICK b \in Seq(Candidates) : \E k \in 1 .. Len(b) : \E id \in Ids :
        /\ EnforceChain(work, b, k, id)
        /\ Rest = Then(MarkOp(b, k, id), Commits(b, k + 1))
  <2>1. work[1].op = "enforce"
    BY DEF EnforceBudget, Doing
  <2> QED
    BY <2>1, RecallAtWork, Zenon DEF Rest
<1>1. PICK k \in 1 .. Len(b), id \in Ids :
        /\ EnforceChain(work, b, k, id)
        /\ Rest = Then(MarkOp(b, k, id), Commits(b, k + 1))
  BY <1>0
<1>2. UNCHANGED <<cold, manifest, seq, torn>>
  BY DEF EnforceBudget
<1>3. CASE work' = Rest /\ UNCHANGED <<hot, demoted>>
  <2>1. MemoryTyped'
    BY <1>2, <1>3 DEF MemoryTyped
  <2>2. PICK u : u = Rest
    OBVIOUS
  <2>3. MarkChain(u, b, k, id)
    BY <1>1, <2>2 DEF MarkChain, EnforceChain
  <2>4. RecallChain(u)
    BY <2>3, Zenon DEF RecallChain
  <2>5. RecallChain(u)'
    BY <1>3, <2>4, RecallChainStays
  <2>6. ChainInv'
    BY <1>3, <2>2, <2>5, ChainGoesOn
  <2> QED
    BY <2>1, <2>6 DEF MemoryKept
<1>4. ASSUME Used > MaxTokens, NEW v \in Unpinned, Pop(v, work)
      PROVE  MemoryKept
  <2>1. v \in DOMAIN hot /\ v \notin PinnedIn(hot)
    BY DEF Unpinned
  <2>2. MemoryTyped' /\ DeleteOp(v) \in MovingOps /\ work' = Then(DeleteOp(v), work)
    BY <1>2, <1>4, <2>1, PopTypes
  <2>3. Spent(hot', PinnedIn(hot')) = Spent(hot, PinnedIn(hot))
    <3>1. DOMAIN hot' = DOMAIN hot \ {v} /\ \A i \in DOMAIN hot' : hot'[i] = hot[i]
      BY <1>4 DEF Pop, Without
    <3>2. PinnedIn(hot') = PinnedIn(hot) /\ PinnedIn(hot) \subseteq DOMAIN hot'
      BY <2>1, <3>1 DEF PinnedIn
    <3> QED
      BY <3>1, <3>2, PinnedStay DEF MemoryTyped
  <2>4. Spent(hot, PinnedIn(hot)) + BatchTokens(b) > MaxTokens
    BY <1>1, <1>4, EnforcedWhenTight DEF EnforceChain
  <2>5. Roomy(b, k + 1)'
    BY <2>3, <2>4 DEF Roomy
  <2>6. PICK u : u = work
    OBVIOUS
  <2>7. EnforceChain(u, b, k, id)'
    BY <1>1, <2>5, <2>6 DEF EnforceChain
  <2>8. RecallChain(u)'
    BY <2>7, Zenon DEF RecallChain
  <2>9. ChainInv'
    BY <2>2, <2>6, <2>8, ChainIsInterrupted
  <2> QED
    BY <2>2, <2>9 DEF MemoryKept
<1> QED
  BY <1>3, <1>4 DEF EnforceBudget

LEMMA MarkStep ==
  ASSUME MemoryTyped, RecallChain(work), MarkRecalled
  PROVE  MemoryKept
<1>0. PICK b \in Seq(Candidates) : \E k \in 1 .. Len(b) : \E id \in Ids :
        MarkChain(work, b, k, id) /\ work[1] = MarkOp(b, k, id) /\ Rest = Commits(b, k + 1)
  <2>1. work[1].op = "mark"
    BY DEF MarkRecalled, Doing
  <2> QED
    BY <2>1, RecallAtWork, Zenon DEF Rest
<1>1. PICK k \in 1 .. Len(b), id \in Ids :
        MarkChain(work, b, k, id) /\ work[1] = MarkOp(b, k, id) /\ Rest = Commits(b, k + 1)
  BY <1>0
<1>2. work[1].cand \in Candidates
  <2>1. MarkOp(b, k, id).cand = b[k]
    BY DEF MarkOp
  <2>2. b[k] \in Candidates
    OBVIOUS
  <2> QED
    BY <1>1, <2>1, <2>2, Zenon
<1>3. /\ MemoryTyped' /\ DOMAIN hot' = DOMAIN hot
      /\ \A i \in DOMAIN hot : hot'[i].text = hot[i].text /\ hot'[i].pinned = hot[i].pinned
  BY <1>2, MarkTypes
<1>4. HotTyped(hot) /\ HotTyped(hot')
  BY <1>3 DEF MemoryTyped
<1>5. Spent(hot', PinnedIn(hot')) = Spent(hot, PinnedIn(hot))
  <2>1. PinnedIn(hot') = PinnedIn(hot) /\ PinnedIn(hot) \subseteq DOMAIN hot
    BY <1>3 DEF PinnedIn
  <2> QED
    BY <1>3, <1>4, <2>1, PinnedStay
<1>6. Used' = Used
  <2>1. Weighed(hot, DOMAIN hot)
    BY <1>4, HotIsWeighed
  <2>2. Spent(hot', DOMAIN hot) = Spent(hot, DOMAIN hot)
    BY <1>3, <2>1, SpentIsOfTexts
  <2> QED
    BY <1>3, <2>2 DEF Used
<1>7. Roomy(b, k + 1)'
  BY <1>1, <1>5, <1>6 DEF Roomy, MarkChain
<1>8. work' = Commits(b, k + 1)
  BY <1>1 DEF MarkRecalled
<1>9. CASE k = Len(b)
  <2>1. Commits(b, Len(b) + 1) = <<>>
    BY LastCommit, Zenon
  <2>2. work' = <<>>
    BY <1>8, <1>9, <2>1, Zenon
  <2> QED
    BY <1>3, <2>2 DEF ChainInv, MemoryKept
<1>10. CASE k # Len(b)
  <2>1. k + 1 \in 1 .. Len(b)
    BY <1>10
  <2>2. PICK w : w = Commits(b, k + 1)
    OBVIOUS
  <2>3. CommitChain(w, b, k + 1)'
    BY <1>7, <2>2 DEF CommitChain
  <2>4. RecallChain(w)'
    BY <2>1, <2>3, Zenon DEF RecallChain
  <2>5. ChainInv'
    BY <1>8, <2>2, <2>4, ChainGoesOn
  <2> QED
    BY <1>3, <2>5 DEF MemoryKept
<1> QED
  BY <1>9, <1>10

-----------------------------------------------------------------------------
(* Every step keeps the types and the chain.                                *)
LEMMA PlainGoesOn ==
  ASSUME work' \in Seq(PlainOps)
  PROVE  ChainInv'
  BY DEF ChainInv

LEMMA PlainJoined ==
  ASSUME NEW v \in Seq(PlainOps), NEW w \in Seq(PlainOps)
  PROVE  v \o w \in Seq(PlainOps)
  OBVIOUS

LEMMA PlainAhead ==
  ASSUME NEW o \in PlainOps, NEW w \in Seq(PlainOps)
  PROVE  <<o>> \o w \in Seq(PlainOps) /\ Then(o, w) \in Seq(PlainOps) /\ <<o>> \in Seq(PlainOps)
  BY DEF Then

LEMMA RecallStepKeeps ==
  ASSUME MemoryTyped, ChainInv, SelectBatch \/ MakeRoom \/ CommitRecalled \/ MarkRecalled
  PROVE  MemoryKept
<1>1. work # <<>> /\ work[1].op \in {"recall", "room", "commit", "mark"}
  BY DEF SelectBatch, MakeRoom, CommitRecalled, MarkRecalled, Doing
<1>2. work[1] \notin PlainOps
  BY <1>1, PlainHead
<1>3. work[1] \notin MovingOps
  BY <1>2, MovingOp
<1>4. RecallChain(work)
  BY <1>1, <1>2, <1>3, ChainHead
<1> QED
  BY <1>4, SelectStep, RoomStep, CommitStep, MarkStep

LEMMA EnforceKeeps ==
  ASSUME MemoryTyped, ChainInv, EnforceBudget
  PROVE  MemoryKept
<1>1. work # <<>> /\ work[1].op = "enforce"
  BY DEF EnforceBudget, Doing
<1>2. work[1] \notin MovingOps
  BY <1>1, MovingOp DEF Moving
<1>3. CASE RecallChain(work)
  BY <1>3, EnforceStep
<1>4. CASE work \in Seq(PlainOps) /\ Rest \in Seq(PlainOps)
  <2>1. UNCHANGED <<cold, manifest, seq, torn>>
    BY DEF EnforceBudget
  <2>2. CASE work' = Rest /\ UNCHANGED <<hot, demoted>>
    BY <1>4, <2>1, <2>2, PlainGoesOn DEF MemoryTyped, MemoryKept
  <2>3. ASSUME NEW v \in DOMAIN hot, Pop(v, work)
        PROVE  MemoryKept
    <3>1. MemoryTyped' /\ DeleteOp(v) \in PlainOps /\ work' = Then(DeleteOp(v), work)
      BY <2>1, <2>3, PopTypes, MovingOp
    <3> QED
      BY <1>4, <3>1, PlainAhead, PlainGoesOn DEF MemoryKept
  <2> QED
    BY <2>2, <2>3 DEF EnforceBudget, Unpinned
<1> QED
  BY <1>1, <1>2, <1>3, <1>4, ChainHead

LEMMA AddKeeps ==
  ASSUME MemoryTyped, ChainInv, Add \/ MergeNote
  PROVE  MemoryKept
<1>1. work # <<>> /\ work[1].op = "add"
  BY DEF Add, MergeNote, Doing
<1>2. work[1] \in PlainOps /\ Rest \in Seq(PlainOps)
  BY <1>1, PlainChain DEF Moving
<1>3. work[1].text \in Texts /\ work[1].note \in BOOLEAN /\ work[1].pin \in BOOLEAN
  BY <1>1, <1>2, PlainHead
<1>4. CASE Add
  <2>1. PICK id \in Ids : Insert(id, work[1].text, work[1].note, work[1].pin, Rest)
    BY <1>4 DEF Add
  <2>2. MemoryTyped'
    BY <1>3, <2>1, InsertTypes
  <2>3. work' \in Seq(PlainOps)
    BY <1>2, <2>1, PlainOperations, PlainAhead DEF Insert
  <2> QED
    BY <2>2, <2>3, PlainGoesOn DEF MemoryKept
<1>5. CASE MergeNote
  <2>1. MemoryTyped'
    BY <1>3, <1>5, MergeTypes
  <2>2. work' \in Seq(PlainOps)
    BY <1>2, <1>5 DEF MergeNote
  <2> QED
    BY <2>1, <2>2, PlainGoesOn DEF MemoryKept
<1> QED
  BY <1>4, <1>5

LEMMA EvictKeeps ==
  ASSUME MemoryTyped, ChainInv, Evict
  PROVE  MemoryKept
<1>1. work # <<>> /\ work[1].op = "evict"
  BY DEF Evict, Doing
<1>2. Rest \in Seq(PlainOps)
  BY <1>1, PlainChain DEF Moving
<1>3. UNCHANGED <<cold, manifest, seq, torn>>
  BY DEF Evict
<1>4. CASE work[1].id \in DOMAIN hot
  <2>1. Pop(work[1].id, Rest)
    BY <1>4 DEF Evict
  <2>2. /\ MemoryTyped' /\ DeleteOp(work[1].id) \in PlainOps
        /\ work' = Then(DeleteOp(work[1].id), Rest)
    BY <1>3, <1>4, <2>1, PopTypes, MovingOp
  <2> QED
    BY <1>2, <2>2, PlainAhead, PlainGoesOn DEF MemoryKept
<1>5. CASE work[1].id \notin DOMAIN hot
  BY <1>2, <1>3, <1>5, PlainGoesOn DEF Evict, MemoryTyped, MemoryKept
<1> QED
  BY <1>4, <1>5

LEMMA DemotionKeeps ==
  ASSUME MemoryTyped, ChainInv, DeleteCold \/ StoreCold
  PROVE  MemoryKept
<1>1. work # <<>> /\ work[1].op \in Moving
  BY DEF DeleteCold, StoreCold, Doing, Moving
<1>2. ~RecallChain(work)
  BY <1>1, RecallOp DEF Moving
<1>3. work[1] \in MovingOps /\ (Rest \in Seq(PlainOps) \/ RecallChain(Rest))
  BY <1>1, <1>2, ChainHead, PlainHead
<1>4. /\ MemoryTyped' /\ UNCHANGED hot
      /\ \/ work' = Rest
         \/ \E m \in MovingOps : work' = Then(m, Rest)
  BY <1>1, <1>3, MovingTypes
<1>5. CASE Rest \in Seq(PlainOps)
  <2>1. work' \in Seq(PlainOps)
    BY <1>4, <1>5, MovingOp, PlainAhead
  <2> QED
    BY <1>4, <2>1, PlainGoesOn DEF MemoryKept
<1>6. CASE RecallChain(Rest)
  <2>1. PICK u : u = Rest
    OBVIOUS
  <2>2. RecallChain(u)
    BY <1>6, <2>1
  <2>3. RecallChain(u)'
    BY <1>4, <2>2, RecallChainStays
  <2>4. ChainInv'
    BY <1>4, <2>1, <2>3, ChainGoesOn, ChainIsInterrupted
  <2> QED
    BY <1>4, <2>4 DEF MemoryKept
<1> QED
  BY <1>3, <1>5, <1>6

LEMMA MemoryStepKeepsTypes ==
  ASSUME MemoryTyped, ChainInv, MemoryStep
  PROVE  MemoryKept
  BY RecallStepKeeps, EnforceKeeps, AddKeeps, EvictKeeps, DemotionKeeps DEF MemoryStep

(* The steps of a turn put plain chains to work.                            *)
LEMMA PlainBeginnings ==
  ASSUME NEW t \in Texts
  PROVE  /\ AddOp(t, FALSE, FALSE) \in PlainOps /\ AddOp(t, FALSE, TRUE) \in PlainOps
         /\ AddOp(t, TRUE, TRUE) \in PlainOps
         /\ <<AddOp(t, FALSE, FALSE), PushOp(1)>> \in Seq(PlainOps)
         /\ <<AddOp(t, TRUE, TRUE)>> \in Seq(PlainOps)
<1>1. FALSE \in BOOLEAN /\ TRUE \in BOOLEAN
  OBVIOUS
<1>2. /\ AddOp(t, FALSE, FALSE) \in PlainOps /\ AddOp(t, FALSE, TRUE) \in PlainOps
      /\ AddOp(t, TRUE, TRUE) \in PlainOps
  BY <1>1, PlainOperations, Zenon
<1>3. PushOp(1) \in PlainOps
  BY PlainOperations
<1> DEFINE a == AddOp(t, FALSE, FALSE)
           c == AddOp(t, TRUE, TRUE)
<1>4. a \in PlainOps /\ c \in PlainOps
  BY <1>2, Zenon
<1> HIDE DEF a, c
<1>5. <<a, PushOp(1)>> \in Seq(PlainOps) /\ <<c>> \in Seq(PlainOps)
  BY <1>3, <1>4
<1> QED
  BY <1>2, <1>5, Zenon DEF a, c

LEMMA PlanKeepsTypes ==
  ASSUME ChainInv, PlanRequest
  PROVE  work' \in Seq(PlainOps)
<1>1. work # <<>> /\ work[1].op = "plan"
  BY DEF PlanRequest, Doing
<1>2. work[1] \in PlainOps /\ Rest \in Seq(PlainOps)
  BY <1>1, PlainChain DEF Moving
<1>3. work[1].i \in Nat /\ work[1].text \in Texts
  BY <1>1, <1>2, PlainHead
<1> DEFINE first == IF work[1].i = 1 THEN <<AddOp(work[1].text, FALSE, FALSE), PushOp(1)>>
                                     ELSE <<>>
<1>4. first \in Seq(PlainOps)
  <2>1. <<>> \in Seq(PlainOps)
    OBVIOUS
  <2>2. <<AddOp(work[1].text, FALSE, FALSE), PushOp(1)>> \in Seq(PlainOps)
    BY <1>3, PlainBeginnings, Zenon
  <2> QED
    BY <2>1, <2>2, Zenon
<1>5. <<ChatOp(work[1].i)>> \in Seq(PlainOps)
  BY <1>3, PlainOperations
<1>6. work' = first \o <<ChatOp(work[1].i)>> \o Rest \/ work' = <<>>
  BY DEF PlanRequest
<1>9. <<>> \in Seq(PlainOps)
  OBVIOUS
<1> HIDE DEF first
<1>7. first \o <<ChatOp(work[1].i)>> \in Seq(PlainOps)
  BY <1>4, <1>5, PlainJoined
<1>8. first \o <<ChatOp(work[1].i)>> \o Rest \in Seq(PlainOps)
  BY <1>2, <1>7, PlainJoined
<1> QED
  BY <1>6, <1>8, <1>9

LEMMA AnswerKeepsTypes ==
  ASSUME ChainInv, ModelAnswers
  PROVE  work' \in Seq(PlainOps)
<1>1. work # <<>> /\ work[1].op = "chat"
  BY DEF ModelAnswers, Doing
<1>2. work[1] \in PlainOps /\ Rest \in Seq(PlainOps)
  BY <1>1, PlainChain DEF Moving
<1>3. work[1].i \in Nat
  BY <1>1, <1>2, PlainHead
<1> DEFINE adds(actions) == [k \in DOMAIN actions |->
                               AddOp(actions[k].text, FALSE, actions[k].pin)]
           again(t) == IF work[1].i < MaxIterations THEN <<PlanOp(work[1].i + 1, t)>>
                                                    ELSE <<>>
<1>4. \/ \E t \in Texts : work' = <<AddOp(t, FALSE, FALSE), PushOp(1)>> \o Rest
      \/ \E actions \in Actions :
            work' = adds(actions) \o <<PushOp(2)>> \o again(actions[1].text) \o Rest
      \/ \E plan \in {<<>>} \union {<<AddOp(t, TRUE, TRUE)>> : t \in Texts} :
            work' = plan \o <<PushOp(1)>> \o Rest
  BY DEF ModelAnswers
<1>5. <<PushOp(1)>> \in Seq(PlainOps) /\ <<PushOp(2)>> \in Seq(PlainOps)
  BY PlainOperations
<1>6. \A t \in Texts : again(t) \in Seq(PlainOps)
  BY <1>3, PlainOperations
<1>7. ASSUME NEW actions \in Actions
      PROVE  adds(actions) \in Seq(PlainOps) /\ actions[1].text \in Texts
  <2>1. PICK n \in 1 .. MaxActions : actions \in [1 .. n -> Outputs]
    BY DEF Actions
  <2>2. \A k \in 1 .. n : actions[k].text \in Texts /\ actions[k].pin \in BOOLEAN
    BY <2>1, SessionAssumption
  <2>3. \A k \in 1 .. n : AddOp(actions[k].text, FALSE, actions[k].pin) \in PlainOps
    BY <2>2, PlainOperations
  <2>4. n \in Nat /\ 1 \in 1 .. n
    BY SessionAssumption
  <2>5. adds(actions) \in [1 .. n -> PlainOps]
    BY <2>1, <2>3
  <2> HIDE DEF adds
  <2> QED
    BY <2>2, <2>4, <2>5, SeqDef
<1> HIDE DEF again, adds
<1>8. CASE \E t \in Texts : work' = <<AddOp(t, FALSE, FALSE), PushOp(1)>> \o Rest
  <2>1. PICK t \in Texts : work' = <<AddOp(t, FALSE, FALSE), PushOp(1)>> \o Rest
    BY <1>8
  <2>2. <<AddOp(t, FALSE, FALSE), PushOp(1)>> \in Seq(PlainOps)
    BY PlainBeginnings
  <2> QED
    BY <1>2, <2>1, <2>2, PlainJoined
<1>9. CASE \E actions \in Actions :
             work' = adds(actions) \o <<PushOp(2)>> \o again(actions[1].text) \o Rest
  <2>1. PICK v \in Seq(PlainOps), w \in Seq(PlainOps) : work' = v \o <<PushOp(2)>> \o w \o Rest
    BY <1>6, <1>7, <1>9
  <2>2. v \o <<PushOp(2)>> \in Seq(PlainOps)
    BY <1>5, PlainJoined
  <2>3. v \o <<PushOp(2)>> \o w \in Seq(PlainOps)
    BY <2>2, PlainJoined
  <2> QED
    BY <1>2, <2>1, <2>3, PlainJoined
<1>10. CASE \E plan \in {<<>>} \union {<<AddOp(t, TRUE, TRUE)>> : t \in Texts} :
              work' = plan \o <<PushOp(1)>> \o Rest
  <2>1. PICK plan \in Seq(PlainOps) : work' = plan \o <<PushOp(1)>> \o Rest
    <3>1. <<>> \in Seq(PlainOps)
      OBVIOUS
    <3> QED
      BY <1>10, <3>1, PlainBeginnings
  <2>2. plan \o <<PushOp(1)>> \in Seq(PlainOps)
    BY <1>5, PlainJoined
  <2> QED
    BY <1>2, <2>1, <2>2, PlainJoined
<1> QED
  BY <1>4, <1>8, <1>9, <1>10

LEMMA SavesArePlain ==
  ASSUME NEW s \in Sessions
  PROVE  SaveOps(s) \in Seq(PlainOps)
<1>1. [op |-> "truncate", to |-> s] \in PlainOps /\ [op |-> "write", to |-> s] \in PlainOps
  BY PlainOperations
<1> QED
  BY <1>1 DEF SaveOps

LEMMA CompactKeepsTypes ==
  ASSUME MemoryTyped, ChainInv, Compact
  PROVE  work' \in Seq(PlainOps)
<1>1. work # <<>> /\ work[1].op = "compact"
  BY DEF Compact, Doing
<1>2. Rest \in Seq(PlainOps)
  BY <1>1, PlainChain DEF Moving
<1>3. CASE work' = Rest
  BY <1>2, <1>3
<1>4. CASE work' # Rest
  <2> DEFINE evicts(order) == [k \in DOMAIN order |-> [op |-> "evict", id |-> order[k]]]
  <2>1. PICK t \in Texts, order \in SetToSeqs(DOMAIN hot) :
           work' = evicts(order) \o <<AddOp(t, TRUE, TRUE)>> \o Rest
    BY <1>4 DEF Compact
  <2>2. Cardinality(DOMAIN hot) \in Nat
    <3>1. IsFiniteSet(Ids)
      BY MemoryAssumption, FS_Interval DEF Ids
    <3> QED
      BY <3>1, FS_Subset, FS_CardinalityType DEF MemoryTyped, HotTyped
  <2>3. PICK n \in Nat : order \in [1 .. n -> DOMAIN hot]
    BY <2>1, <2>2 DEF SetToSeqs
  <2>4. evicts(order) \in [1 .. n -> PlainOps]
    <3>1. \A i \in DOMAIN hot : [op |-> "evict", id |-> i] \in PlainOps
      BY PlainOperations DEF MemoryTyped, HotTyped
    <3> QED
      BY <2>3, <3>1
  <2> HIDE DEF evicts
  <2>5. evicts(order) \in Seq(PlainOps)
    BY <2>4, SeqDef
  <2>6. <<AddOp(t, TRUE, TRUE)>> \in Seq(PlainOps)
    BY PlainBeginnings
  <2>7. evicts(order) \o <<AddOp(t, TRUE, TRUE)>> \in Seq(PlainOps)
    BY <2>5, <2>6, PlainJoined
  <2> QED
    BY <1>2, <2>1, <2>7, PlainJoined
<1> QED
  BY <1>3, <1>4

(* A step that leaves the files and the session alone.                      *)
LEMMA RoomKept ==
  ASSUME RoomInv, MemoryKept, UNCHANGED <<file, session, started>>,
         unsaved' \in 0 .. SaveEvery
  PROVE  RoomInv'
<1>1. MemoryTypeOK'
  BY DEF MemoryKept, MemoryTyped, MemoryTypeOK, HotTyped
<1>2. TypeOK'
  BY <1>1 DEF RoomInv, TypeOK
<1>3. FilesTyped'
  BY DEF RoomInv, FilesTyped, Loads
<1> QED
  BY <1>2, <1>3 DEF RoomInv, MemoryKept

LEMMA RoomIsTyped ==
  ASSUME RoomInv
  PROVE  MemoryTyped /\ ChainInv /\ unsaved \in 0 .. SaveEvery
  BY MemoryTypes DEF RoomInv, TypeOK

LEMMA TurnKeepsRoom ==
  ASSUME Inv, RoomInv, PlanRequest \/ ModelAnswers \/ PushTail \/ Tick \/ Compact
  PROVE  RoomInv'
<1>1. MemoryTyped /\ ChainInv
  BY RoomIsTyped
<1>2. work # <<>> /\ UNCHANGED <<hot, cold, manifest, seq, torn, file, session, started>>
  BY DEF PlanRequest, ModelAnswers, PushTail, Tick, Compact, Doing, process
<1>3. MemoryTyped'
  BY <1>1, <1>2 DEF MemoryTyped
<1>4. unsaved' \in 0 .. SaveEvery
  <2>1. CASE Tick
    BY <2>1, SessionAssumption, RoomIsTyped DEF Tick
  <2>2. CASE ~Tick
    BY <2>2, RoomIsTyped DEF PlanRequest, ModelAnswers, PushTail, Compact
  <2> QED
    BY <2>1, <2>2
<1>5. work' \in Seq(PlainOps)
  <2>1. CASE PushTail \/ Tick
    <3>1. work[1].op \in {"push", "tick"}
      BY <2>1 DEF PushTail, Tick, Doing
    <3>2. Rest \in Seq(PlainOps)
      BY <1>1, <1>2, <3>1, PlainChain DEF Moving
    <3>3. SaveOps(session) \in Seq(PlainOps)
      BY <1>2, WorkingIsRunning, SavesArePlain
    <3>4. work' = Rest \/ work' = SaveOps(session) \o Rest
      BY <2>1 DEF PushTail, Tick
    <3> QED
      BY <3>2, <3>3, <3>4, PlainJoined
  <2> QED
    BY <1>1, <2>1, PlanKeepsTypes, AnswerKeepsTypes, CompactKeepsTypes
<1> QED
  BY <1>2, <1>3, <1>4, <1>5, PlainGoesOn, RoomKept DEF MemoryKept

LEMMA SaveKeepsRoom ==
  ASSUME Inv, RoomInv, Truncate \/ Write
  PROVE  RoomInv'
<1>1. MemoryTyped /\ ChainInv
  BY RoomIsTyped
<1>2. /\ work # <<>> /\ work[1].op \in {"truncate", "write"} /\ work' = Rest
      /\ UNCHANGED <<hot, cold, manifest, seq, torn, session, started, unsaved>>
  BY DEF Truncate, Write, Doing, process
<1>3. work' \in Seq(PlainOps)
  BY <1>1, <1>2, PlainChain DEF Moving
<1>4. FilesTyped'
  <2>1. DOMAIN file' = Sessions
    BY DEF Truncate, Write, RoomInv, FilesTyped
  <2>2. ASSUME NEW s \in Sessions, file'[s].kind = "whole"
        PROVE  HotTyped(file'[s].hot) /\ file'[s].manifest \in Seq(Entry)
    <3>1. s \in DOMAIN file
      BY DEF RoomInv, FilesTyped
    <3>2. CASE file'[s] = file[s]
      BY <2>2, <3>2 DEF RoomInv, FilesTyped, Loads
    <3>3. CASE file'[s] = Broken
      BY <2>2, <3>3 DEF Broken
    <3>4. CASE file'[s] = Snapshot
      BY <1>1, <3>4 DEF Snapshot, MemoryTyped
    <3> QED
      BY <3>1, <3>2, <3>3, <3>4 DEF Truncate, Write
  <2> QED
    BY <2>1, <2>2 DEF FilesTyped, Loads
<1>5. MemoryTypeOK'
  BY <1>1, <1>2, MemoryTypes DEF MemoryTypeOK
<1>6. TypeOK'
  BY <1>2, <1>4, <1>5 DEF TypeOK, RoomInv, FilesTyped
<1> QED
  BY <1>3, <1>4, <1>6, PlainGoesOn DEF RoomInv

LEMMA ImportIsTyped ==
  ASSUME RoomInv, NEW s \in Sessions, Import(s)
  PROVE  HotTyped(hot') /\ manifest' \in Seq(Entry)
<1>1. HotTyped(hot) /\ manifest \in Seq(Entry)
  BY RoomIsTyped DEF MemoryTyped
<1> QED
  BY <1>1 DEF Import, RoomInv, FilesTyped

(* What a process reads back, or starts from nothing.                       *)
LEMMA ReadKeepsRoom ==
  ASSUME RoomInv, HotTyped(hot'), manifest' \in Seq(Entry), work' = <<>>,
         UNCHANGED <<cold, file>>, seq' \in {0, seq}, torn' \in SUBSET Ids,
         session' \in Sessions \union {NoSession}, started' \in Sessions,
         unsaved' \in {0, unsaved}
  PROVE  RoomInv'
<1>1. MemoryTyped /\ unsaved \in 0 .. SaveEvery
  BY RoomIsTyped
<1>2. MemoryTypeOK'
  BY <1>1, MemoryAssumption DEF MemoryTyped, MemoryTypeOK, HotTyped
<1>3. TypeOK'
  BY <1>1, <1>2, SessionAssumption DEF TypeOK, RoomInv
<1>4. FilesTyped'
  BY DEF RoomInv, FilesTyped, Loads
<1>5. work' \in Seq(PlainOps)
  OBVIOUS
<1> QED
  BY <1>3, <1>4, <1>5, PlainGoesOn DEF RoomInv

LEMMA SwitchKeepsRoom ==
  ASSUME Inv, RoomInv, LoadTarget \/ Fresh
  PROVE  RoomInv'
<1>1. work # <<>> /\ work[1].op \in Switching
  BY DEF LoadTarget, Fresh, Doing, Switching
<1>2. WorkInv
  BY DEF Inv
<1>3. /\ Rest = <<>>
      /\ \E o \in Switching, s \in Sessions : work = <<[op |-> o, to |-> s]>>
  BY <1>1, <1>2, SwitchingHead, Zenon
<1>4. work[1].to \in Sessions
  BY <1>3
<1>5. /\ UNCHANGED <<cold, seq, torn, file, started, unsaved>> /\ work' = <<>>
      /\ session' \in {session, work[1].to}
  BY <1>3 DEF LoadTarget, Fresh
<1>6. HotTyped(hot') /\ manifest' \in Seq(Entry)
  <2>1. CASE LoadTarget
    BY <1>4, <2>1, ImportIsTyped DEF LoadTarget
  <2>2. CASE Fresh
    BY <2>2 DEF Fresh, HotTyped
  <2> QED
    BY <2>1, <2>2
<1>7. torn \in SUBSET Ids /\ session \in Sessions \union {NoSession} /\ started \in Sessions
  BY RoomIsTyped DEF MemoryTyped, RoomInv, TypeOK
<1> QED
  BY <1>4, <1>5, <1>6, <1>7, ReadKeepsRoom

LEMMA EndKeepsRoom ==
  ASSUME RoomInv, Stop \/ Crash
  PROVE  RoomInv'
<1>1. /\ MemoryLost /\ session' = NoSession /\ unsaved' = 0
      /\ UNCHANGED <<file, started>>
  BY DEF Stop, Crash
<1>2. MemoryTyped /\ ChainInv /\ started \in Sessions
  BY RoomIsTyped DEF RoomInv, TypeOK
<1>3. torn' \in SUBSET Ids
  <2>1. ASSUME work # <<>>, work[1].op \in Moving
        PROVE  work[1].item.lineage \in Ids
    <3>1. work[1] \in MovingOps
      BY <1>2, <2>1, ChainHead, PlainHead, RecallOp DEF Moving
    <3> QED
      BY <3>1, MovingOp DEF Item
  <2> QED
    BY <1>1, <1>2, <2>1 DEF MemoryLost, MemoryTyped, Moving
<1>4. HotTyped(hot') /\ manifest' \in Seq(Entry)
  BY <1>1 DEF MemoryLost, HotTyped
<1> QED
  BY <1>1, <1>2, <1>3, <1>4, ReadKeepsRoom DEF MemoryLost

LEMMA StartKeepsRoom ==
  ASSUME Inv, RoomInv, NEW asked \in Sessions, NEW latest \in Sessions, Start(asked, latest)
  PROVE  RoomInv'
<1>1. work' = <<>> /\ UNCHANGED <<cold, seq, torn, file>> /\ unsaved' = 0
  BY DEF Inv, RunningInv, Start
<1>2. session' \in Sessions /\ started' \in Sessions
  BY DEF Start
<1>3. HotTyped(hot') /\ manifest' \in Seq(Entry)
  <2>1. \E s \in Sessions : Import(s)
    BY DEF Start
  <2> QED
    BY <2>1, ImportIsTyped
<1>4. torn \in SUBSET Ids
  BY RoomIsTyped DEF MemoryTyped
<1> QED
  BY <1>1, <1>2, <1>3, <1>4, ReadKeepsRoom

(* What the user types.                                                     *)
LEMMA BeginKeepsRoom ==
  ASSUME RoomInv, NEW ops, Begin(ops),
         ops \in Seq(PlainOps) \/ ops = <<[op |-> "recall"]>>
  PROVE  RoomInv'
<1>1. /\ UNCHANGED <<hot, cold, manifest, seq, torn, file, session, started, unsaved>>
      /\ work' = ops
  BY DEF Begin
<1>2. MemoryTyped'
  BY <1>1, RoomIsTyped DEF MemoryTyped
<1>3. ChainInv'
  <2>1. CASE ops \in Seq(PlainOps)
    BY <1>1, <2>1, PlainGoesOn
  <2>2. CASE ops = <<[op |-> "recall"]>>
    <3>1. PICK w : w = <<[op |-> "recall"]>>
      OBVIOUS
    <3>2. RecallChain(w)'
      BY <3>1, Zenon DEF RecallChain
    <3> QED
      BY <1>1, <2>2, <3>1, <3>2, ChainGoesOn
  <2> QED
    BY <2>1, <2>2
<1> QED
  BY <1>1, <1>2, <1>3, RoomIsTyped, RoomKept DEF MemoryKept

LEMMA CommandKeepsRoom ==
  ASSUME Inv, RoomInv, Command
  PROVE  RoomInv'
<1>0. /\ session \in Sessions \union {NoSession} /\ started \in Sessions
      /\ torn \in SUBSET Ids /\ HotTyped(hot) /\ manifest \in Seq(Entry)
  BY RoomIsTyped DEF RoomInv, TypeOK, MemoryTyped
<1>1. ASSUME NEW t \in Texts, Turn(t) \/ Shell(t) \/ CmdNote(t) \/ CmdAdd(t)
      PROVE  RoomInv'
  <2>1. PICK ops : /\ Begin(ops)
                   /\ \/ ops = <<PlanOp(1, t), TickOp>> \/ ops = <<AddOp(t, FALSE, FALSE)>>
                      \/ ops = <<AddOp(t, TRUE, TRUE)>> \/ ops = <<AddOp(t, FALSE, TRUE)>>
    BY <1>1 DEF Turn, Shell, CmdNote, CmdAdd
  <2>2. <<PlanOp(1, t), TickOp>> \in Seq(PlainOps)
    BY PlainOperations
  <2>3. /\ <<AddOp(t, FALSE, FALSE)>> \in Seq(PlainOps)
        /\ <<AddOp(t, TRUE, TRUE)>> \in Seq(PlainOps)
        /\ <<AddOp(t, FALSE, TRUE)>> \in Seq(PlainOps)
    <3>1. \A o \in PlainOps : <<o>> \in Seq(PlainOps)
      OBVIOUS
    <3> QED
      BY <3>1, PlainBeginnings, Zenon
  <2>4. ops \in Seq(PlainOps)
    BY <2>1, <2>2, <2>3, Zenon
  <2> QED
    BY <2>1, <2>4, BeginKeepsRoom
<1>2. CASE CmdRecall
  BY <1>2, BeginKeepsRoom DEF CmdRecall
<1>3. CASE CmdCompact
  <2>1. <<[op |-> "compact"]>> \in Seq(PlainOps)
    BY PlainOperations
  <2> QED
    BY <1>3, <2>1, BeginKeepsRoom DEF CmdCompact
<1>4. CASE CmdSave
  <2>1. SaveOps(session) \in Seq(PlainOps)
    BY <1>0, <1>4, SavesArePlain DEF CmdSave, Begin, Running
  <2> QED
    BY <1>4, <2>1, BeginKeepsRoom DEF CmdSave
<1>5. ASSUME NEW i \in DOMAIN hot, CmdForget(i)
      PROVE  RoomInv'
  <2>1. [op |-> "evict", id |-> i] \in PlainOps
    BY <1>0, PlainOperations DEF HotTyped
  <2>2. <<[op |-> "evict", id |-> i]>> \in Seq(PlainOps)
    BY <2>1
  <2> QED
    BY <1>5, <2>2, BeginKeepsRoom DEF CmdForget
<1>6. ASSUME NEW s \in Sessions, CmdResume(s) \/ CmdNew(s)
      PROVE  RoomInv'
  <2>1. PICK o \in Switching : Begin(SaveOps(session) \o <<[op |-> o, to |-> s]>>)
    BY <1>6 DEF CmdResume, CmdNew, Switching
  <2>2. SaveOps(session) \in Seq(PlainOps)
    BY <1>0, <2>1, SavesArePlain DEF Begin, Running
  <2>3. [op |-> o, to |-> s] \in PlainOps
    BY PlainOperations
  <2>4. <<[op |-> o, to |-> s]>> \in Seq(PlainOps)
    BY <2>3
  <2>5. SaveOps(session) \o <<[op |-> o, to |-> s]>> \in Seq(PlainOps)
    BY <2>2, <2>4, PlainJoined
  <2> QED
    BY <2>1, <2>5, BeginKeepsRoom
<1>7. CASE CmdExit \/ EndOfInput
  <2>1. PICK saves \in Seq(PlainOps) : Leave(saves)
    <3>1. <<>> \in Seq(PlainOps)
      OBVIOUS
    <3>2. Running => SaveOps(session) \in Seq(PlainOps)
      BY <1>0, SavesArePlain DEF Running
    <3> QED
      BY <1>7, <3>1, <3>2 DEF CmdExit, EndOfInput, Leave
  <2>2. <<[op |-> "stop"]>> \in Seq(PlainOps)
    BY PlainOperations
  <2>3. saves \o SaveOps(started) \in Seq(PlainOps)
    BY <1>0, SavesArePlain, PlainJoined
  <2>4. saves \o SaveOps(started) \o <<[op |-> "stop"]>> \in Seq(PlainOps)
    BY <2>2, <2>3, PlainJoined
  <2>5. /\ work' = saves \o SaveOps(started) \o <<[op |-> "stop"]>>
        /\ UNCHANGED <<hot, cold, manifest, seq, torn, file, session, started, unsaved>>
    BY <2>1 DEF Leave, process
  <2>6. MemoryTyped'
    BY <2>5, RoomIsTyped DEF MemoryTyped
  <2> QED
    BY <2>4, <2>5, <2>6, PlainGoesOn, RoomIsTyped, RoomKept DEF MemoryKept
<1>8. CASE CmdClear
  <2>1. HotTyped(hot')
    BY <1>8 DEF CmdClear, HotTyped
  <2> QED
    BY <1>0, <1>8, <2>1, ReadKeepsRoom DEF CmdClear, Idle
<1>9. ASSUME NEW i \in DOMAIN hot, NEW pin \in BOOLEAN, CmdPin(i, pin)
      PROVE  RoomInv'
  <2>1. hot[i] \in Item
    BY <1>0 DEF HotTyped
  <2>2. [hot[i] EXCEPT !.pinned = pin] \in Item
    BY <2>1 DEF Item
  <2>3. HotTyped(hot')
    BY <1>0, <1>9, <2>2 DEF CmdPin, SetPin, HotTyped
  <2> QED
    BY <1>0, <1>9, <2>3, ReadKeepsRoom DEF CmdPin, SetPin, Idle
<1> QED
  BY <1>1, <1>2, <1>3, <1>4, <1>5, <1>6, <1>7, <1>8, <1>9 DEF Command

LEMMA RoomHoldsAtFirst == Init => RoomInv
<1> SUFFICES ASSUME Init PROVE RoomInv
  OBVIOUS
<1>1. /\ hot = <<>> /\ cold = <<>> /\ manifest = <<>> /\ seq = 0 /\ work = <<>> /\ torn = {}
      /\ file = [s \in Sessions |-> IF s \in HandEdited THEN Malformed ELSE Absent]
      /\ session = NoSession /\ started = Default /\ unsaved = 0
  BY DEF Init, MemoryInit
<1>2. MemoryTypeOK
  BY <1>1, MemoryAssumption DEF MemoryTypeOK
<1>3. TypeOK
  BY <1>1, <1>2, SessionAssumption DEF TypeOK
<1>4. FilesTyped
  BY <1>1 DEF FilesTyped, Loads, Malformed, Absent
<1>5. ChainInv
  BY <1>1 DEF ChainInv
<1> QED
  BY <1>3, <1>4, <1>5 DEF RoomInv

LEMMA StepKeepsRoom == Inv /\ RoomInv /\ [Next]_vars => RoomInv'
<1> SUFFICES ASSUME Inv, RoomInv, [Next]_vars PROVE RoomInv'
  OBVIOUS
<1>1. CASE MemoryStep /\ UNCHANGED <<file, process, tail, unsaved>>
  <2>1. MemoryKept
    BY <1>1, RoomIsTyped, MemoryStepKeepsTypes
  <2> QED
    BY <1>1, <2>1, RoomIsTyped, RoomKept DEF process
<1>2. CASE SessionStep
  BY <1>2, TurnKeepsRoom, SaveKeepsRoom, SwitchKeepsRoom, EndKeepsRoom DEF SessionStep
<1>3. CASE Command
  BY <1>3, CommandKeepsRoom
<1>4. CASE Crash
  BY <1>4, EndKeepsRoom
<1>5. CASE \E asked, latest \in Sessions : Start(asked, latest)
  BY <1>5, StartKeepsRoom
<1>6. CASE UNCHANGED vars
  <2>1. UNCHANGED <<hot, cold, manifest, seq, work, torn, file, session, started, unsaved>>
    BY <1>6 DEF vars, memory
  <2>2. MemoryTyped'
    BY <2>1, RoomIsTyped DEF MemoryTyped
  <2>3. ChainInv'
    <3>1. CASE work \in Seq(PlainOps)
      BY <2>1, <3>1, PlainGoesOn
    <3>2. CASE RecallChain(work)
      <4>1. PICK w : w = work
        OBVIOUS
      <4>2. RecallChain(w)'
        BY <2>1, <3>2, <4>1, RecallChainStays
      <4> QED
        BY <2>1, <4>1, <4>2, ChainGoesOn
    <3>3. ASSUME NEW m \in MovingOps, NEW w, RecallChain(w), work = Then(m, w)
          PROVE  ChainInv'
      <4>1. RecallChain(w)'
        BY <2>1, <3>3, RecallChainStays
      <4> QED
        BY <2>1, <3>3, <4>1, ChainIsInterrupted
    <3> QED
      BY <3>1, <3>2, <3>3, RoomIsTyped DEF ChainInv
  <2> QED
    BY <2>1, <2>2, <2>3, RoomIsTyped, RoomKept DEF MemoryKept
<1> QED
  BY <1>1, <1>2, <1>3, <1>4, <1>5, <1>6 DEF Next

-----------------------------------------------------------------------------
(* Everything a process holds and saves is typed, and whatever it has still *)
(* to do is a plain chain of operations or the rest of one recall.          *)
THEOREM RoomInvariance == Spec => []RoomInv
<1>1. Init => RoomInv
  BY RoomHoldsAtFirst
<1>2. Inv /\ RoomInv /\ [Next]_vars => RoomInv'
  BY StepKeepsRoom
<1> QED
  BY <1>1, <1>2, Invariance, PTL DEF Spec

(* recall makes room for the whole batch before it commits the first of it: *)
(* the add of a restored text demotes nothing, neither another text of the  *)
(* batch nor a tenant, unless the pinned items and the batch are together   *)
(* over the budget (WorkingMemory._commit_recall_batch and                  *)
(* _enforce_budget).                                                        *)
THEOREM RecallsMakeRoomFirst == Spec => RecallMakesRoomFirst
<1> DEFINE Roomed == (/\ Doing("enforce") /\ Len(work) > 1 /\ work[2].op = "mark"
                      /\ hot' # hot /\ session' = session)
                       => Spent(hot, PinnedIn(hot)) + work[2].need > MaxTokens
<1>1. ASSUME Inv, RoomInv, [Next]_vars
      PROVE  [Roomed]_vars
  <2> SUFFICES ASSUME Next, work # <<>>, work[1].op = "enforce", Len(work) > 1,
                      work[2].op = "mark", hot' # hot, session' = session
               PROVE  Spent(hot, PinnedIn(hot)) + work[2].need > MaxTokens
    BY <1>1 DEF Doing
  <2>1. MemoryTyped /\ ChainInv /\ Running
    BY <1>1, RoomIsTyped, WorkingIsRunning
  <2>2. Used > MaxTokens
    <3>1. EnforceBudget
      <4>1. CASE MemoryStep
        BY <4>1 DEF MemoryStep, Add, MergeNote, DeleteCold, StoreCold,
                    SelectBatch, MakeRoom, CommitRecalled, MarkRecalled, Evict, Doing
      <4>2. CASE SessionStep
        BY <4>2 DEF SessionStep, PlanRequest, ModelAnswers, PushTail, Tick, Compact,
                    Truncate, Write, LoadTarget, Fresh, Stop, Doing
      <4>3. CASE Command
        BY <4>3 DEF Command, Turn, Shell, CmdNote, CmdAdd, CmdRecall, CmdForget, CmdCompact,
                    CmdSave, CmdResume, CmdNew, Leave, CmdExit, EndOfInput, CmdPin, CmdClear,
                    Begin, SetPin, Idle
      <4>4. CASE Crash \/ \E asked, latest \in Sessions : Start(asked, latest)
        BY <2>1, <4>4 DEF Crash, Start, Running
      <4> QED
        BY <4>1, <4>2, <4>3, <4>4 DEF Next
    <3> QED
      BY <3>1 DEF EnforceBudget
  <2>3. work \notin Seq(PlainOps)
    <3> SUFFICES ASSUME work \in Seq(PlainOps) PROVE FALSE
      OBVIOUS
    <3>1. work[2] \in PlainOps
      OBVIOUS
    <3> QED
      BY <3>1, PlainHead
  <2>4. work[1] \notin MovingOps
    BY MovingOp DEF Moving
  <2>5. RecallChain(work)
    BY <2>1, <2>3, <2>4, ChainHead
  <2>6. PICK b \in Seq(Candidates) : \E k \in 1 .. Len(b) : \E id \in Ids :
          EnforceChain(work, b, k, id) /\ work[2] = MarkOp(b, k, id)
    BY <2>5, RecallAtWork, Zenon
  <2>7. PICK k \in 1 .. Len(b), id \in Ids :
          EnforceChain(work, b, k, id) /\ work[2] = MarkOp(b, k, id)
    BY <2>6
  <2>8. Spent(hot, PinnedIn(hot)) + BatchTokens(b) > MaxTokens
    BY <2>1, <2>2, <2>7, EnforcedWhenTight DEF EnforceChain
  <2>9. work[2].need = BatchTokens(b)
    <3>1. MarkOp(b, k, id).need = BatchTokens(b)
      BY DEF MarkOp
    <3> QED
      BY <2>7, <3>1, Zenon
  <2> QED
    BY <2>8, <2>9
<1> QED
  BY <1>1, Invariance, RoomInvariance, PTL DEF Spec, RecallMakesRoomFirst
=============================================================================
