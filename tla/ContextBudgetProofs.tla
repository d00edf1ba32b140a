------------------------ MODULE ContextBudgetProofs ------------------------
(***************************************************************************)
(* What a plan of the request builder keeps for any history, final input,  *)
(* settings, retrieved texts and edits: the ceiling, the account its       *)
(* decisions give, the longest cut, exchanges of calls and outputs that    *)
(* stay whole, and recalled records that are current.                      *)
(*                                                                         *)
(* The loops of the builder are folds and recursive functions here, so     *)
(* their facts need induction.  The library's induction theorems take an   *)
(* operator; Inductive takes a set instead, and rests on the well-founded  *)
(* order of Nat.  A loop is reasoned about by the equation its CHOOSE      *)
(* satisfies (Recurs, GroupsFrom, Bisects, Flattens), once a solution is   *)
(* shown to exist; what each round keeps then holds at the end.            *)
(***************************************************************************)
EXTENDS ContextBudget, FiniteSetTheorems, SequenceTheorems, WellFoundedInduction, TLAPS

(* Every nonempty set of numbers has a least element.                       *)
LEMMA Smallest ==
  ASSUME NEW T, T \subseteq Nat, T # {}
  PROVE  \E x \in T : \A y \in T : x <= y
<1>1. \E x \in T : \A y \in T : ~(<<y, x>> \in OpToRel(<,Nat))
  BY NatLessThanWellFounded, WFMin
<1>2. \A x, y \in Nat : <<y, x>> \in OpToRel(<,Nat) <=> y < x
  BY DEF OpToRel
<1>3. \E x \in T : \A y \in T : ~(y < x)
  BY <1>1, <1>2, Zenon
<1> QED
  BY <1>3

(* A set that holds 0 and with every number its successor holds all.        *)
LEMMA Inductive ==
  ASSUME NEW K, 0 \in K, \A n \in Nat : n \in K => n + 1 \in K
  PROVE  Nat \subseteq K
<1> SUFFICES ASSUME Nat \ K # {} PROVE FALSE
  OBVIOUS
<1>1. PICK x \in Nat \ K : \A y \in Nat \ K : x <= y
  <2>1. Nat \ K \subseteq Nat
    OBVIOUS
  <2> QED
    BY <2>1, Smallest
<1>2. x - 1 \in Nat /\ x - 1 \in K
  BY <1>1
<1> QED
  BY <1>1, <1>2

(* The CHOOSE of Max picks the largest element of a bounded set.            *)
LEMMA MaxIsIn ==
  ASSUME NEW n \in Nat, NEW s, s \subseteq 0 .. n, s # {}
  PROVE  Max(s) \in s /\ \A x \in s : x <= Max(s)
<1> DEFINE T == {n - x : x \in s}
<1>1. T \subseteq Nat /\ T # {}
  OBVIOUS
<1>2. PICK y \in T : \A z \in T : y <= z
  BY <1>1, Smallest
<1>3. PICK x \in s : y = n - x
  BY <1>2
<1>4. \A z \in s : x >= z
  BY <1>2, <1>3
<1>5. \E m \in s : \A z \in s : m >= z
  BY <1>4
<1> QED
  BY <1>5 DEF Max

(* The recursion of a fold that takes the largest index first. *)
Recurs(g, n, A, base, Step) ==
  /\ g \in [SUBSET (1 .. n) -> A]
  /\ \A s \in SUBSET (1 .. n) :
       g[s] = IF s = {} THEN base ELSE Step[<<Max(s), g[s \ {Max(s)}]>>]

(* Such a recursion has a solution with values in the set its step keeps.   *)
LEMMA FoldsExist ==
  ASSUME NEW n \in Nat, NEW A, NEW base \in A, NEW Step \in [(1 .. n) \X A -> A]
  PROVE  \E g : Recurs(g, n, A, base, Step)
<1> DEFINE Level(k) == {s \in SUBSET (1 .. n) : s \subseteq 1 .. k}
           Rec(g, k) == /\ g \in [Level(k) -> A]
                        /\ \A s \in Level(k) :
                             g[s] = IF s = {} THEN base ELSE Step[<<Max(s), g[s \ {Max(s)}]>>]
           K == {k \in Nat : \E g : Rec(g, k)}
<1>1. 0 \in K
  <2>1. \A s \in Level(0) : s = {}
    OBVIOUS
  <2> DEFINE g == [s \in Level(0) |-> base]
  <2>2. Rec(g, 0)
    BY <2>1
  <2> QED
    BY <2>2
<1>2. ASSUME NEW k \in Nat, k \in K
      PROVE  k + 1 \in K
  <2>1. PICK g : Rec(g, k)
    BY <1>2
  <2> DEFINE h == [s \in Level(k + 1) |-> IF s \in Level(k) THEN g[s]
                        ELSE Step[<<Max(s), g[s \ {Max(s)}]>>]]
  <2>2. ASSUME NEW s \in Level(k + 1), s # {}
        PROVE  s \ {Max(s)} \in Level(k) /\ Max(s) \in 1 .. n
    <3>1. s \subseteq 0 .. n
      OBVIOUS
    <3>2. Max(s) \in s /\ \A x \in s : x <= Max(s)
      BY <2>2, <3>1, MaxIsIn, Zenon
    <3>3. s \subseteq 1 .. n /\ s \subseteq 1 .. k + 1
      OBVIOUS
    <3>4. ASSUME NEW x \in s \ {Max(s)}
          PROVE  x \in 1 .. k
      <4>1. x \in 1 .. k + 1 /\ Max(s) \in 1 .. k + 1 /\ x <= Max(s) /\ x # Max(s)
        BY <3>2, <3>3, <3>4
      <4> HIDE DEF Level
      <4> QED
        BY <4>1
    <3> QED
      BY <3>2, <3>3, <3>4
  <2>3. Level(k) \subseteq Level(k + 1)
    OBVIOUS
  <2>4. {} \in Level(k)
    OBVIOUS
  <2> HIDE DEF Level
  <2>5. ASSUME NEW s \in Level(k + 1)
        PROVE  h[s] = (IF s = {} THEN base ELSE Step[<<Max(s), h[s \ {Max(s)}]>>]) /\ h[s] \in A
    <3>1. CASE s = {}
      BY <2>1, <2>4, <2>5, <3>1
    <3>2. CASE s # {} /\ s \in Level(k)
      <4>1. g[s] = Step[<<Max(s), g[s \ {Max(s)}]>>] /\ g[s] \in A
        BY <2>1, <3>2
      <4>2. h[s] = g[s]
        BY <2>5, <3>2
      <4>3. h[s \ {Max(s)}] = g[s \ {Max(s)}]
        BY <2>2, <2>3, <2>5, <3>2
      <4> QED
        BY <3>2, <4>1, <4>2, <4>3
    <3>3. CASE s # {} /\ s \notin Level(k)
      <4>1. h[s] = Step[<<Max(s), g[s \ {Max(s)}]>>]
        BY <2>5, <3>3
      <4>2. h[s \ {Max(s)}] = g[s \ {Max(s)}]
        BY <2>2, <2>3, <2>5, <3>3
      <4>3. g[s \ {Max(s)}] \in A /\ Max(s) \in 1 .. n
        BY <2>1, <2>2, <3>3
      <4> QED
        BY <3>3, <4>1, <4>2, <4>3
    <3> QED
      BY <3>1, <3>2, <3>3
  <2>6. Rec(h, k + 1)
    BY <2>5
  <2>7. k + 1 \in Nat
    OBVIOUS
  <2> HIDE DEF h, Rec
  <2>8. \E f : Rec(f, k + 1)
    BY <2>6, Zenon
  <2> QED
    BY <2>7, <2>8, Zenon
<1> HIDE DEF K
<1>3. n \in K
  BY <1>1, <1>2, Inductive
<1>4. PICK g : Rec(g, n)
  BY <1>3 DEF K
<1>5. Level(n) = SUBSET (1 .. n)
  OBVIOUS
<1>6. Recurs(g, n, A, base, Step)
  BY <1>4, <1>5 DEF Recurs
<1> QED
  BY <1>6

(* Along the prefixes of the indices such a recursion goes forward.         *)
LEMMA GoingForward ==
  ASSUME NEW n \in Nat, NEW k \in 1 .. n
  PROVE  /\ 1 .. k # {} /\ 1 .. k \in SUBSET (1 .. n)
         /\ Max(1 .. k) = k /\ (1 .. k) \ {k} = 1 .. k - 1
<1>1. 1 .. k # {} /\ 1 .. k \subseteq 0 .. n
  OBVIOUS
<1>2. Max(1 .. k) \in 1 .. k /\ \A x \in 1 .. k : x <= Max(1 .. k)
  BY <1>1, MaxIsIn, Zenon
<1>3. Max(1 .. k) = k
  BY <1>2
<1> QED
  BY <1>1, <1>3

(* The sum of a sequence of numbers. *)
Total(F) ==
  LET upTo[k \in 0 .. Len(F)] == IF k = 0 THEN 0 ELSE upTo[k - 1] + F[k]
  IN upTo[Len(F)]

Adds(up, F) ==
  up = [k \in 0 .. Len(F) |-> IF k = 0 THEN 0 ELSE up[k - 1] + F[k]]

Folds(g, F) ==
  g = [s \in SUBSET (1 .. Len(F)) |-> IF s = {} THEN 0 ELSE g[s \ {Max(s)}] + F[Max(s)]]

(* The recursion by which FoldLeft sums a sequence has a solution.          *)
LEMMA SumFoldsExist ==
  ASSUME NEW F \in Seq(Nat)
  PROVE  \E g : Folds(g, F)
<1> DEFINE n == Len(F)
           Step == [p \in (1 .. n) \X Nat |-> p[2] + F[p[1]]]
<1>1. n \in Nat /\ Step \in [(1 .. n) \X Nat -> Nat] /\ 0 \in Nat
  OBVIOUS
<1> HIDE DEF Step, n
<1>2. PICK g : Recurs(g, n, Nat, 0, Step)
  BY <1>1, FoldsExist
<1>3. ASSUME NEW s \in SUBSET (1 .. n), s # {}
      PROVE  g[s] = g[s \ {Max(s)}] + F[Max(s)]
  <2>1. s \subseteq 0 .. n
    OBVIOUS
  <2>2. Max(s) \in 1 .. n
    BY <1>1, <1>3, <2>1, MaxIsIn
  <2>3. g[s \ {Max(s)}] \in Nat
    BY <1>2 DEF Recurs
  <2>4. Step[<<Max(s), g[s \ {Max(s)}]>>] = g[s \ {Max(s)}] + F[Max(s)]
    BY <2>2, <2>3 DEF Step
  <2> QED
    BY <1>2, <1>3, <2>4 DEF Recurs
<1>4. \A s \in SUBSET (1 .. n) : g[s] = IF s = {} THEN 0 ELSE g[s \ {Max(s)}] + F[Max(s)]
  BY <1>2, <1>3 DEF Recurs
<1>5. Folds(g, F)
  BY <1>2, <1>4 DEF Folds, Recurs, n
<1> QED
  BY <1>5

(* Taken along the prefixes, that recursion sums from the front.            *)
LEMMA FoldAdds ==
  ASSUME NEW F \in Seq(Nat), NEW g, Folds(g, F)
  PROVE  Adds([k \in 0 .. Len(F) |-> g[1 .. k]], F)
<1>1. g[{}] = 0
  BY DEF Folds
<1>2. ASSUME NEW k \in 1 .. Len(F)
      PROVE  g[1 .. k] = g[1 .. k - 1] + F[k]
  <2>1. /\ 1 .. k # {} /\ 1 .. k \in SUBSET (1 .. Len(F))
        /\ Max(1 .. k) = k /\ (1 .. k) \ {k} = 1 .. k - 1
    BY GoingForward
  <2>2. \A s \in SUBSET (1 .. Len(F)) : s # {} => g[s] = g[s \ {Max(s)}] + F[Max(s)]
    BY DEF Folds
  <2>3. g[1 .. k] = g[(1 .. k) \ {Max(1 .. k)}] + F[Max(1 .. k)]
    BY <2>1, <2>2, Zenon
  <2> QED
    BY <2>1, <2>3
<1>3. 1 .. 0 = {}
  OBVIOUS
<1> QED
  BY <1>1, <1>2, <1>3 DEF Adds

(* There is one way of summing from the front.                              *)
LEMMA SumsAreUnique ==
  ASSUME NEW F \in Seq(Nat), NEW up, Adds(up, F), NEW down, Adds(down, F)
  PROVE  \A k \in 0 .. Len(F) : up[k] \in Nat /\ down[k] = up[k]
<1> DEFINE K == {k \in Nat : k \in 0 .. Len(F) => up[k] \in Nat /\ down[k] = up[k]}
<1>1. 0 \in K
  BY DEF Adds
<1>2. ASSUME NEW k \in Nat, k \in K
      PROVE  k + 1 \in K
  <2>1. ASSUME k + 1 \in 0 .. Len(F)
        PROVE  up[k + 1] \in Nat /\ down[k + 1] = up[k + 1]
    <3>1. up[k] \in Nat /\ down[k] = up[k]
      BY <1>2, <2>1
    <3>2. up[k + 1] = up[k] + F[k + 1] /\ down[k + 1] = down[k] + F[k + 1]
      BY <2>1 DEF Adds
    <3>3. F[k + 1] \in Nat
      BY <2>1
    <3> QED
      BY <3>1, <3>2, <3>3
  <2> QED
    BY <2>1
<1> HIDE DEF K
<1>3. Nat \subseteq K
  BY <1>1, <1>2, Inductive
<1> QED
  BY <1>3 DEF K

(* Total is where any running sum ends.                                     *)
LEMMA TotalAdds ==
  ASSUME NEW F \in Seq(Nat), NEW up, Adds(up, F)
  PROVE  Total(F) = up[Len(F)] /\ Total(F) \in Nat
<1> DEFINE down == CHOOSE f : Adds(f, F)
<1>1. Adds(down, F)
  OBVIOUS
<1>2. Total(F) = down[Len(F)]
  BY DEF Total, Adds
<1> HIDE DEF down
<1>3. Len(F) \in 0 .. Len(F)
  OBVIOUS
<1> QED
  BY <1>1, <1>2, <1>3, SumsAreUnique

(* Total is what the fold computes.                                         *)
LEMMA TotalFolds ==
  ASSUME NEW F \in Seq(Nat), NEW g, Folds(g, F)
  PROVE  Total(F) = g[1 .. Len(F)]
<1>1. Adds([k \in 0 .. Len(F) |-> g[1 .. k]], F)
  BY FoldAdds
<1>2. Total(F) = [k \in 0 .. Len(F) |-> g[1 .. k]][Len(F)]
  BY <1>1, TotalAdds, Zenon
<1> QED
  BY <1>2

(* Every sequence of numbers has a running sum.                             *)
LEMMA SumsExist ==
  ASSUME NEW F \in Seq(Nat)
  PROVE  \E up : Adds(up, F)
  BY SumFoldsExist, FoldAdds

(* A total of numbers is a number.                                          *)
LEMMA TotalIsNat ==
  ASSUME NEW F \in Seq(Nat)
  PROVE  Total(F) \in Nat
  BY SumsExist, TotalAdds

(* Appending a number adds it to the total.                                 *)
LEMMA TotalOfAppended ==
  ASSUME NEW F \in Seq(Nat), NEW x \in Nat
  PROVE  Total(Append(F, x)) = Total(F) + x
<1>1. PICK up : Adds(up, F)
  BY SumsExist
<1> DEFINE n == Len(F)
           more == [k \in 0 .. n + 1 |-> IF k = n + 1 THEN up[n] + x ELSE up[k]]
<1>2. Append(F, x) \in Seq(Nat) /\ Len(Append(F, x)) = n + 1 /\ Append(F, x)[n + 1] = x
  OBVIOUS
<1>3. \A k \in 1 .. n : Append(F, x)[k] = F[k]
  OBVIOUS
<1>4. up[0] = 0 /\ \A k \in 1 .. n : up[k] = up[k - 1] + F[k]
  BY <1>1 DEF Adds
<1>5. \A k \in 0 .. n + 1 :
         more[k] = IF k = 0 THEN 0 ELSE more[k - 1] + Append(F, x)[k]
  BY <1>2, <1>3, <1>4
<1>6. Adds(more, Append(F, x))
  BY <1>2, <1>5 DEF Adds
<1>7. Total(F) = up[n]
  BY <1>1, TotalAdds
<1>8. Total(Append(F, x)) = more[n + 1]
  BY <1>2, <1>6, TotalAdds
<1> QED
  BY <1>7, <1>8

(* Nothing totals zero.                                                     *)
LEMMA TotalOfNothing == Total(<<>>) = 0
<1>1. <<>> \in Seq(Nat) /\ Len(<<>>) = 0
  OBVIOUS
<1>2. PICK up : Adds(up, <<>>)
  BY <1>1, SumsExist
<1>3. up[0] = 0
  BY <1>2 DEF Adds
<1> QED
  BY <1>1, <1>2, <1>3, TotalAdds

(***************************************************************************)
(* What messages and blocks cost.                                          *)
(***************************************************************************)
LEMMA CountIsNat ==
  ASSUME NEW item
  PROVE  Count(item) \in Nat
  BY ContextAssumption DEF Count, Weight

Counts(items) == [i \in 1 .. Len(items) |-> Count(items[i])]

(* The counts of a list are a sequence of numbers.                          *)
LEMMA CountsAreNumbers ==
  ASSUME NEW S, NEW items \in Seq(S)
  PROVE  Counts(items) \in Seq(Nat) /\ Len(Counts(items)) = Len(items)
<1>1. \A i \in 1 .. Len(items) : Count(items[i]) \in Nat
  BY CountIsNat
<1> QED
  BY <1>1 DEF Counts

(* CountAll, a fold over messages, is the total of their counts.            *)
LEMMA CountAllIsTotal ==
  ASSUME NEW S, NEW items \in Seq(S)
  PROVE  CountAll(items) = Total(Counts(items))
<1> DEFINE F == Counts(items)
           Rec(g) == g = [s \in SUBSET DOMAIN items |->
                             IF s = {} THEN 0 ELSE g[s \ {Max(s)}] + Count(items[Max(s)])]
           iter == CHOOSE g : Rec(g)
<1>1. CountAll(items) = iter[DOMAIN items]
  BY DEF CountAll, FoldLeft, MapThenFoldSet
<1>2. F \in Seq(Nat) /\ Len(F) = Len(items) /\ DOMAIN items = 1 .. Len(F)
  BY CountsAreNumbers
<1>3. ASSUME NEW s \in SUBSET (1 .. Len(F)), s # {}
      PROVE  F[Max(s)] = Count(items[Max(s)])
  <2>1. Len(F) \in Nat /\ s \subseteq 0 .. Len(F)
    BY <1>2
  <2>2. Max(s) \in 1 .. Len(F)
    <3>1. Max(s) \in s
      BY <1>3, <2>1, MaxIsIn, Zenon
    <3> QED
      BY <3>1
  <2> QED
    BY <1>2, <2>2 DEF Counts
<1> HIDE DEF F
<1>4. \A g : Rec(g) <=> Folds(g, F)
  BY <1>2, <1>3 DEF Folds
<1>5. \E g : Folds(g, F)
  BY <1>2, SumFoldsExist
<1> HIDE DEF Rec
<1>6. Rec(iter)
  BY <1>4, <1>5
<1>7. Folds(iter, F)
  BY <1>4, <1>6
<1> HIDE DEF iter
<1> QED
  BY <1>1, <1>2, <1>7, TotalFolds DEF F

(* Any list of messages costs a number of tokens.                           *)
LEMMA CountAllIsNat ==
  ASSUME NEW S, NEW items \in Seq(S)
  PROVE  CountAll(items) \in Nat
  BY CountAllIsTotal, CountsAreNumbers, TotalIsNat

Block == [words : Nat, cut : BOOLEAN]

BlockCounts(blocks) == [i \in 1 .. Len(blocks) |-> BlockTokens(blocks[i])]
BlockSum(blocks) == FoldLeft(LAMBDA sum, block : sum + BlockTokens(block), 0, blocks)

(* A block costs a number of tokens.                                        *)
LEMMA BlockIsNat ==
  ASSUME NEW block \in Block
  PROVE  BlockTokens(block) \in Nat
  BY DEF Block, BlockTokens

(* The counts of blocks are a sequence of numbers.                          *)
LEMMA BlockCountsAreNumbers ==
  ASSUME NEW blocks \in Seq(Block)
  PROVE  BlockCounts(blocks) \in Seq(Nat) /\ Len(BlockCounts(blocks)) = Len(blocks)
<1>1. \A i \in 1 .. Len(blocks) : BlockTokens(blocks[i]) \in Nat
  BY BlockIsNat
<1> QED
  BY <1>1 DEF BlockCounts

(* The fold inside Joined is the total of the block counts.                 *)
LEMMA BlockSumIsTotal ==
  ASSUME NEW blocks \in Seq(Block)
  PROVE  BlockSum(blocks) = Total(BlockCounts(blocks))
<1> DEFINE F == BlockCounts(blocks)
           Rec(g) == g = [s \in SUBSET DOMAIN blocks |->
                             IF s = {} THEN 0 ELSE g[s \ {Max(s)}] + BlockTokens(blocks[Max(s)])]
           iter == CHOOSE g : Rec(g)
<1>1. BlockSum(blocks) = iter[DOMAIN blocks]
  BY DEF BlockSum, FoldLeft, MapThenFoldSet
<1>2. F \in Seq(Nat) /\ Len(F) = Len(blocks) /\ DOMAIN blocks = 1 .. Len(F)
  BY BlockCountsAreNumbers
<1>3. ASSUME NEW s \in SUBSET (1 .. Len(F)), s # {}
      PROVE  F[Max(s)] = BlockTokens(blocks[Max(s)])
  <2>1. Len(F) \in Nat /\ s \subseteq 0 .. Len(F)
    BY <1>2
  <2>2. Max(s) \in 1 .. Len(F)
    <3>1. Max(s) \in s
      BY <1>3, <2>1, MaxIsIn, Zenon
    <3> QED
      BY <3>1
  <2> QED
    BY <1>2, <2>2 DEF BlockCounts
<1> HIDE DEF F
<1>4. \A g : Rec(g) <=> Folds(g, F)
  BY <1>2, <1>3 DEF Folds
<1>5. \E g : Folds(g, F)
  BY <1>2, SumFoldsExist
<1> HIDE DEF Rec
<1>6. Rec(iter)
  BY <1>4, <1>5
<1>7. Folds(iter, F)
  BY <1>4, <1>6
<1> HIDE DEF iter
<1> QED
  BY <1>1, <1>2, <1>7, TotalFolds DEF F

(* Putting one more block into a section adds it and perhaps a separator.   *)
LEMMA JoinedOfAppended ==
  ASSUME NEW blocks \in Seq(Block), NEW block \in Block
  PROVE  /\ Joined(blocks) \in Nat /\ Joined(Append(blocks, block)) \in Nat
         /\ Joined(Append(blocks, block)) =
               BlockTokens(block) + IF blocks = <<>> THEN 0 ELSE Joined(blocks) + Separator
<1>1. Append(blocks, block) \in Seq(Block) /\ Append(blocks, block) # <<>>
      /\ Len(Append(blocks, block)) = Len(blocks) + 1
  BY AppendProperties
<1>2. BlockCounts(Append(blocks, block)) = Append(BlockCounts(blocks), BlockTokens(block))
  <2>1. \A i \in 1 .. Len(blocks) + 1 :
           Append(blocks, block)[i] = IF i = Len(blocks) + 1 THEN block ELSE blocks[i]
    OBVIOUS
  <2>2. BlockTokens(block) \in Nat /\ BlockCounts(blocks) \in Seq(Nat)
        /\ Len(BlockCounts(blocks)) = Len(blocks)
    BY BlockIsNat, BlockCountsAreNumbers
  <2> DEFINE a == BlockCounts(Append(blocks, block))
             b == Append(BlockCounts(blocks), BlockTokens(block))
  <2>3. a \in Seq(Nat) /\ Len(a) = Len(blocks) + 1
    BY <1>1, BlockCountsAreNumbers
  <2>4. b \in Seq(Nat) /\ Len(b) = Len(blocks) + 1
    BY <2>2
  <2>5. \A i \in 1 .. Len(blocks) + 1 : a[i] = b[i]
    BY <1>1, <2>1, <2>2 DEF BlockCounts
  <2> HIDE DEF a, b
  <2>6. a = b
    BY <2>3, <2>4, <2>5, SeqEqual
  <2> QED
    BY <2>6 DEF a, b
<1>3. BlockSum(Append(blocks, block)) = BlockSum(blocks) + BlockTokens(block)
      /\ BlockSum(blocks) \in Nat /\ BlockTokens(block) \in Nat
  BY <1>1, <1>2, BlockSumIsTotal, BlockIsNat, BlockCountsAreNumbers, TotalOfAppended, TotalIsNat
<1>4. Joined(Append(blocks, block)) =
         BlockSum(Append(blocks, block)) + Separator * Len(blocks)
  <2> DEFINE more == Append(blocks, block)
  <2>1. more # <<>> /\ Len(more) = Len(blocks) + 1
    BY <1>1
  <2> HIDE DEF more
  <2>2. Joined(more) = BlockSum(more) + Separator * (Len(more) - 1)
    BY <2>1 DEF Joined, BlockSum
  <2>3. Len(more) - 1 = Len(blocks)
    BY <2>1
  <2>4. Joined(more) = BlockSum(more) + Separator * Len(blocks)
    BY <2>2, <2>3, Zenon
  <2> QED
    BY <2>4 DEF more
<1>5. Joined(blocks) = BlockSum(blocks) + IF blocks = <<>> THEN 0 ELSE Separator * (Len(blocks) - 1)
  BY DEF Joined, BlockSum
<1>6. blocks = <<>> => BlockSum(blocks) = 0
  <2>1. ASSUME blocks = <<>> PROVE BlockCounts(blocks) = <<>>
    BY <2>1 DEF BlockCounts
  <2> QED
    BY <2>1, BlockSumIsTotal, TotalOfNothing
<1>7. Separator \in Nat
  BY ContextAssumption
<1>8. CASE blocks = <<>>
  BY <1>3, <1>4, <1>5, <1>6, <1>7, <1>8
<1>9. CASE blocks # <<>>
  <2>1. Len(blocks) \in Nat \ {0}
    BY <1>9
  <2> DEFINE n == Len(blocks)
             m == n - 1
  <2>2. m \in Nat /\ n = m + 1
    BY <2>1
  <2> HIDE DEF m, n
  <2>3. Separator * m \in Nat /\ Separator * (m + 1) = Separator * m + Separator
    BY <1>7, <2>2
  <2>4. Joined(blocks) = BlockSum(blocks) + Separator * m
    BY <1>5, <1>9 DEF m, n
  <2>5. Joined(Append(blocks, block)) = BlockSum(blocks) + BlockTokens(block) + Separator * (m + 1)
    BY <1>3, <1>4, <2>2 DEF n
  <2> QED
    BY <1>3, <1>7, <1>9, <2>3, <2>4, <2>5
<1> QED
  BY <1>8, <1>9

(* Totals of two lists add up to that of their concatenation.               *)
LEMMA TotalOfJoined ==
  ASSUME NEW F \in Seq(Nat), NEW G \in Seq(Nat)
  PROVE  Total(F \o G) = Total(F) + Total(G)
<1> DEFINE K == {n \in Nat : \A H \in Seq(Nat) : Len(H) = n => Total(F \o H) = Total(F) + Total(H)}
<1>1. 0 \in K
  <2>1. ASSUME NEW H \in Seq(Nat), Len(H) = 0
        PROVE  Total(F \o H) = Total(F) + Total(H)
    <3>1. H = <<>> /\ F \o H = F
      BY <2>1, EmptySeq, ConcatEmptySeq
    <3> QED
      BY <3>1, TotalOfNothing, TotalIsNat
  <2> QED
    BY <2>1
<1>2. ASSUME NEW n \in Nat, n \in K
      PROVE  n + 1 \in K
  <2>1. ASSUME NEW H \in Seq(Nat), Len(H) = n + 1
        PROVE  Total(F \o H) = Total(F) + Total(H)
    <3> DEFINE short == [i \in 1 .. n |-> H[i]]
               x == H[n + 1]
    <3>1. short \in Seq(Nat) /\ Len(short) = n /\ x \in Nat
      BY <2>1
    <3>2. H = Append(short, x)
      BY <2>1, <3>1, SeqEqual
    <3> HIDE DEF short, x
    <3>3. F \o H = Append(F \o short, x) /\ F \o short \in Seq(Nat)
      BY <3>1, <3>2, SMTT(40)
    <3>4. Total(F \o short) = Total(F) + Total(short)
      BY <1>2, <3>1
    <3>5. Total(H) = Total(short) + x /\ Total(F \o H) = Total(F \o short) + x
      BY <3>1, <3>2, <3>3, TotalOfAppended
    <3> QED
      BY <3>1, <3>4, <3>5, TotalIsNat
  <2> QED
    BY <2>1
<1> HIDE DEF K
<1>3. Nat \subseteq K
  BY <1>1, <1>2, Inductive
<1>4. Len(G) \in K
  BY <1>3
<1> QED
  BY <1>4 DEF K

(* A sequence whose two parts are F and G is their concatenation.           *)
LEMMA JoinedFromParts ==
  ASSUME NEW F \in Seq(Nat), NEW G \in Seq(Nat), NEW H \in Seq(Nat),
         Len(H) = Len(F) + Len(G),
         \A i \in 1 .. Len(F) : H[i] = F[i],
         \A i \in 1 .. Len(G) : H[Len(F) + i] = G[i]
  PROVE  H = F \o G
<1>1. F \o G \in Seq(Nat) /\ Len(F \o G) = Len(H)
  OBVIOUS
<1>2. ASSUME NEW i \in 1 .. Len(H)
      PROVE  (F \o G)[i] = H[i]
  <2>1. CASE i <= Len(F)
    BY <2>1
  <2>2. CASE i > Len(F)
    <3> DEFINE k == i - Len(F)
    <3>1. k \in 1 .. Len(G) /\ Len(F) + k = i
      BY <2>2
    <3>2. (F \o G)[i] = G[k]
      BY <2>2, ConcatProperties
    <3> HIDE DEF k
    <3> QED
      BY <3>1, <3>2
  <2> QED
    BY <2>1, <2>2
<1> QED
  BY <1>1, <1>2, SeqEqual

(* Two message lists cost together what each costs alone.                   *)
LEMMA CountAllOfJoined ==
  ASSUME NEW S, NEW s \in Seq(S), NEW t \in Seq(S)
  PROVE  CountAll(s \o t) = CountAll(s) + CountAll(t)
<1>1. s \o t \in Seq(S) /\ Len(s \o t) = Len(s) + Len(t)
  OBVIOUS
<1>2. /\ Counts(s) \in Seq(Nat) /\ Len(Counts(s)) = Len(s)
      /\ Counts(t) \in Seq(Nat) /\ Len(Counts(t)) = Len(t)
      /\ Counts(s \o t) \in Seq(Nat) /\ Len(Counts(s \o t)) = Len(s) + Len(t)
  BY <1>1, CountsAreNumbers
<1>3. Counts(s \o t) = Counts(s) \o Counts(t)
  <2>1. \A i \in 1 .. Len(s) : Counts(s \o t)[i] = Counts(s)[i]
    BY <1>1 DEF Counts
  <2>2. ASSUME NEW i \in 1 .. Len(t)
        PROVE  Counts(s \o t)[Len(s) + i] = Counts(t)[i]
    <3>1. Len(s) + i \in 1 .. Len(s \o t) /\ (s \o t)[Len(s) + i] = t[i]
      BY <1>1
    <3>2. Counts(s \o t)[Len(s) + i] = Count((s \o t)[Len(s) + i])
      BY <3>1 DEF Counts
    <3>3. Counts(t)[i] = Count(t[i])
      BY DEF Counts
    <3> QED
      BY <3>1, <3>2, <3>3
  <2>3. Len(Counts(s \o t)) = Len(Counts(s)) + Len(Counts(t))
    BY <1>2
  <2>4. \A i \in 1 .. Len(Counts(s)) : Counts(s \o t)[i] = Counts(s)[i]
    BY <1>2, <2>1, Zenon
  <2>5. \A i \in 1 .. Len(Counts(t)) : Counts(s \o t)[Len(Counts(s)) + i] = Counts(t)[i]
    BY <1>2, <2>2, Zenon
  <2> QED
    BY <1>2, <2>3, <2>4, <2>5, JoinedFromParts, Zenon
<1>4. /\ CountAll(s) = Total(Counts(s)) /\ CountAll(t) = Total(Counts(t))
      /\ CountAll(s \o t) = Total(Counts(s \o t))
  BY <1>1, CountAllIsTotal, Zenon
<1>5. Total(Counts(s) \o Counts(t)) = Total(Counts(s)) + Total(Counts(t))
  BY <1>2, TotalOfJoined, Zenon
<1> QED
  BY <1>3, <1>4, <1>5, Zenon

(***************************************************************************)
(* What decisions claim.                                                   *)
(***************************************************************************)
Verdicts == {"included", "excluded", "truncated", "reserved"}
Decided == [source : Sources, part : SUBSET Int, verdict : Verdicts, cost : Nat]

Costs(decisions) == [i \in 1 .. Len(decisions) |-> decisions[i].cost]

(* The costs of decisions are a sequence of numbers.                        *)
LEMMA CostsAreNumbers ==
  ASSUME NEW ds \in Seq(Decided)
  PROVE  Costs(ds) \in Seq(Nat) /\ Len(Costs(ds)) = Len(ds)
<1>1. \A i \in 1 .. Len(ds) : ds[i] \in Decided
  OBVIOUS
<1>2. \A d \in Decided : d.cost \in Nat
  BY DEF Decided
<1> QED
  BY <1>1, <1>2 DEF Costs

(* SumOfCosts, a fold over decisions, is the total of their costs.          *)
LEMMA SumOfCostsIsTotal ==
  ASSUME NEW ds \in Seq(Decided)
  PROVE  SumOfCosts(ds) = Total(Costs(ds))
<1> DEFINE F == Costs(ds)
           Rec(g) == g = [s \in SUBSET DOMAIN ds |->
                             IF s = {} THEN 0 ELSE g[s \ {Max(s)}] + ds[Max(s)].cost]
           iter == CHOOSE g : Rec(g)
<1>1. SumOfCosts(ds) = iter[DOMAIN ds]
  BY DEF SumOfCosts, FoldLeft, MapThenFoldSet
<1>2. F \in Seq(Nat) /\ Len(F) = Len(ds) /\ DOMAIN ds = 1 .. Len(F)
  BY CostsAreNumbers
<1>3. ASSUME NEW s \in SUBSET (1 .. Len(F)), s # {}
      PROVE  F[Max(s)] = ds[Max(s)].cost
  <2>1. Len(F) \in Nat /\ s \subseteq 0 .. Len(F)
    BY <1>2
  <2>2. Max(s) \in 1 .. Len(F)
    <3>1. Max(s) \in s
      BY <1>3, <2>1, MaxIsIn, Zenon
    <3> QED
      BY <3>1
  <2> QED
    BY <1>2, <2>2 DEF Costs
<1> HIDE DEF F
<1>4. \A g : Rec(g) <=> Folds(g, F)
  BY <1>2, <1>3 DEF Folds
<1>5. \E g : Folds(g, F)
  BY <1>2, SumFoldsExist
<1> HIDE DEF Rec
<1>6. Rec(iter)
  BY <1>4, <1>5
<1>7. Folds(iter, F)
  BY <1>4, <1>6
<1> HIDE DEF iter
<1> QED
  BY <1>1, <1>2, <1>7, TotalFolds DEF F

(* Decisions claim a number of tokens.                                      *)
LEMMA SumOfCostsIsNat ==
  ASSUME NEW ds \in Seq(Decided)
  PROVE  SumOfCosts(ds) \in Nat
  BY SumOfCostsIsTotal, CostsAreNumbers, TotalIsNat

(* One more decision adds its cost.                                         *)
LEMMA SumOfCostsAppended ==
  ASSUME NEW ds \in Seq(Decided), NEW d \in Decided
  PROVE  SumOfCosts(Append(ds, d)) = SumOfCosts(ds) + d.cost
<1>1. Append(ds, d) \in Seq(Decided) /\ Len(Append(ds, d)) = Len(ds) + 1 /\ d.cost \in Nat
  BY DEF Decided
<1>2. Costs(ds) \in Seq(Nat) /\ Len(Costs(ds)) = Len(ds)
  BY CostsAreNumbers
<1>3. Costs(Append(ds, d)) = Append(Costs(ds), d.cost)
  <2> DEFINE a == Costs(Append(ds, d))
             b == Append(Costs(ds), d.cost)
  <2>0. b \in Seq(Nat) /\ Len(b) = Len(Costs(ds)) + 1
    BY <1>1, <1>2, AppendProperties
  <2>1. a \in Seq(Nat) /\ b \in Seq(Nat) /\ Len(a) = Len(ds) + 1 /\ Len(b) = Len(a)
    BY <1>1, <1>2, <2>0, CostsAreNumbers
  <2>2. \A i \in 1 .. Len(a) : a[i] = b[i]
    <3>1. \A i \in 1 .. Len(ds) + 1 :
             Append(ds, d)[i] = IF i = Len(ds) + 1 THEN d ELSE ds[i]
      OBVIOUS
    <3> QED
      BY <1>1, <1>2, <2>1, <3>1 DEF Costs
  <2> HIDE DEF a, b
  <2>3. a = b
    BY <2>1, <2>2, SeqEqual
  <2> QED
    BY <2>3 DEF a, b
<1> QED
  BY <1>1, <1>2, <1>3, SumOfCostsIsTotal, TotalOfAppended

(* Two lists of decisions claim together what each claims alone.            *)
LEMMA SumOfCostsJoined ==
  ASSUME NEW s \in Seq(Decided), NEW t \in Seq(Decided)
  PROVE  SumOfCosts(s \o t) = SumOfCosts(s) + SumOfCosts(t)
<1>1. s \o t \in Seq(Decided) /\ Len(s \o t) = Len(s) + Len(t)
  OBVIOUS
<1>2. /\ Costs(s) \in Seq(Nat) /\ Len(Costs(s)) = Len(s)
      /\ Costs(t) \in Seq(Nat) /\ Len(Costs(t)) = Len(t)
      /\ Costs(s \o t) \in Seq(Nat) /\ Len(Costs(s \o t)) = Len(s) + Len(t)
  BY <1>1, CostsAreNumbers
<1>3. Costs(s \o t) = Costs(s) \o Costs(t)
  <2>1. \A i \in 1 .. Len(s) : Costs(s \o t)[i] = Costs(s)[i]
    BY <1>1 DEF Costs
  <2>2. ASSUME NEW i \in 1 .. Len(t)
        PROVE  Costs(s \o t)[Len(s) + i] = Costs(t)[i]
    <3>1. Len(s) + i \in 1 .. Len(s \o t) /\ (s \o t)[Len(s) + i] = t[i]
      BY <1>1
    <3>2. Costs(s \o t)[Len(s) + i] = (s \o t)[Len(s) + i].cost
      BY <3>1 DEF Costs
    <3>3. Costs(t)[i] = t[i].cost
      BY DEF Costs
    <3> QED
      BY <3>1, <3>2, <3>3
  <2>3. Len(Costs(s \o t)) = Len(Costs(s)) + Len(Costs(t))
    BY <1>2
  <2>4. \A i \in 1 .. Len(Costs(s)) : Costs(s \o t)[i] = Costs(s)[i]
    BY <1>2, <2>1, Zenon
  <2>5. \A i \in 1 .. Len(Costs(t)) : Costs(s \o t)[Len(Costs(s)) + i] = Costs(t)[i]
    BY <1>2, <2>2, Zenon
  <2> QED
    BY <1>2, <2>3, <2>4, <2>5, JoinedFromParts, Zenon
<1> QED
  BY <1>1, <1>2, <1>3, SumOfCostsIsTotal, TotalOfJoined

(***************************************************************************)
(* The groups of a history, and which of them fit.                         *)
(***************************************************************************)
LEMMA StretchEnds ==
  ASSUME NEW n \in Nat, NEW indices, indices \subseteq 1 .. n, NEW first \in 1 .. n + 1
  PROVE  /\ Stretch(indices, first) \in first - 1 .. n
         /\ first \in indices => Stretch(indices, first) >= first
<1> DEFINE T == {first - 1} \cup {e \in indices : first .. e \subseteq indices}
<1>1. T \subseteq 0 .. n /\ T # {} /\ first - 1 \in T
  <2>1. first - 1 \in 0 .. n /\ \A e \in indices : e \in 0 .. n
    OBVIOUS
  <2> QED
    BY <2>1
<1>2. first \in indices => first \in T
  OBVIOUS
<1>3. Stretch(indices, first) = Max(T)
  BY DEF Stretch
<1> HIDE DEF T
<1>4. Max(T) \in T /\ \A x \in T : x <= Max(T)
  BY <1>1, MaxIsIn, Zenon
<1> DEFINE m == Max(T)
<1>5. m \in 0 .. n /\ first - 1 <= m /\ (first \in indices => first <= m)
  BY <1>1, <1>2, <1>4
<1>6. Stretch(indices, first) = m
  BY <1>3
<1> HIDE DEF m
<1>7. m \in first - 1 .. n /\ (first \in indices => m >= first)
  BY <1>5
<1> QED
  BY <1>6, <1>7, Zenon

(* A group of messages ends within the history, not before it starts.       *)
LEMMA GroupsEnd ==
  ASSUME NEW S, NEW items \in Seq(S), NEW i \in 1 .. Len(items)
  PROVE  GroupEnd(items, i) \in i .. Len(items)
<1> DEFINE n == Len(items)
<1>1. n \in Nat /\ DOMAIN items = 1 .. n /\ i \in 1 .. n + 1 /\ i + 1 \in 1 .. n + 1
  OBVIOUS
<1>2. ProtocolItems(items) \subseteq 1 .. n /\ ToolReplies(items) \subseteq 1 .. n
  BY DEF ProtocolItems, ToolReplies
<1>3. CASE IsProtocol(items[i])
  <2>1. i \in ProtocolItems(items)
    BY <1>3 DEF ProtocolItems
  <2>2. GroupEnd(items, i) = Stretch(ProtocolItems(items), i)
    BY <1>3 DEF GroupEnd
  <2> HIDE DEF n
  <2>3. Stretch(ProtocolItems(items), i) \in i - 1 .. n
        /\ Stretch(ProtocolItems(items), i) >= i
    BY <1>1, <1>2, <2>1, StretchEnds
  <2> QED
    BY <1>1, <2>2, <2>3 DEF n
<1>4. CASE ~IsProtocol(items[i]) /\ items[i].kind = "calls"
  <2>2. GroupEnd(items, i) = Stretch(ToolReplies(items), i + 1)
    BY <1>4 DEF GroupEnd
  <2> HIDE DEF n
  <2>3. Stretch(ToolReplies(items), i + 1) \in i + 1 - 1 .. n
    BY <1>1, <1>2, StretchEnds
  <2> QED
    BY <1>1, <2>2, <2>3 DEF n
<1>5. CASE ~IsProtocol(items[i]) /\ ~(items[i].kind = "calls")
  BY <1>5 DEF GroupEnd
<1> QED
  BY <1>3, <1>4, <1>5

GroupAt(items, i) ==
  [first |-> i, last |-> GroupEnd(items, i),
   sendable |-> GroupIsSendable(items, i, GroupEnd(items, i))]
GroupsOf(items) == {GroupAt(items, i) : i \in 1 .. Len(items)}

GroupsFrom(f, items, D) ==
  \A i \in D : f[i] = IF i > Len(items) THEN <<>>
                      ELSE <<GroupAt(items, i)>> \o f[GroupEnd(items, i) + 1]

(* The recursion that groups a history ends.                                *)
LEMMA HistoryUnfolds ==
  ASSUME NEW S, NEW items \in Seq(S)
  PROVE  \E from : /\ GroupsFrom(from, items, 1 .. Len(items) + 1)
                   /\ HistoryGroups(items) = from[1]
<1> DEFINE n == Len(items)
           D(k) == n + 1 - k .. n + 1
           Rec(f, k) == f \in [D(k) -> Seq(GroupsOf(items))] /\ GroupsFrom(f, items, D(k))
           K == {k \in Nat : k <= n => \E f : Rec(f, k)}
<1>0. n \in Nat
  OBVIOUS
<1>1. 0 \in K
  <2> DEFINE f == [i \in D(0) |-> <<>>]
  <2>1. Rec(f, 0)
    BY DEF GroupsFrom
  <2> QED
    BY <2>1
<1>2. ASSUME NEW k \in Nat, k \in K
      PROVE  k + 1 \in K
  <2>1. ASSUME k + 1 <= n
        PROVE  \E f : Rec(f, k + 1)
    <3>1. PICK f : Rec(f, k)
      BY <1>2, <2>1
    <3> DEFINE j == n - k
               h == [i \in D(k + 1) |-> IF i \in D(k) THEN f[i]
                        ELSE <<GroupAt(items, i)>> \o f[GroupEnd(items, i) + 1]]
    <3>2. j \in 1 .. n /\ D(k + 1) = {j} \cup D(k) /\ j \notin D(k)
      BY <2>1
    <3>3. \A i \in 1 .. n : GroupEnd(items, i) \in i .. n
      BY GroupsEnd
    <3>4. GroupEnd(items, j) + 1 \in D(k) /\ \A i \in D(k) : i <= n => GroupEnd(items, i) + 1 \in D(k)
      <4>1. ASSUME NEW i \in j .. n
            PROVE  GroupEnd(items, i) + 1 \in D(k)
        <5>1. GroupEnd(items, i) \in i .. n
          BY <2>1, <3>3, <4>1
        <5> QED
          BY <2>1, <4>1, <5>1
      <4>2. j \in j .. n /\ \A i \in D(k) : i <= n => i \in j .. n
        BY <2>1
      <4> HIDE DEF j, D
      <4> QED
        BY <4>1, <4>2
    <3>5. GroupAt(items, j) \in GroupsOf(items)
      BY <3>2 DEF GroupsOf
    <3> HIDE DEF D
    <3>6. ASSUME NEW i \in D(k)
          PROVE  h[i] = f[i]
      BY <3>2
    <3>7. h[j] = <<GroupAt(items, j)>> \o f[GroupEnd(items, j) + 1]
      BY <3>2
    <3>8. h \in [D(k + 1) -> Seq(GroupsOf(items))]
      <4>1. f[GroupEnd(items, j) + 1] \in Seq(GroupsOf(items))
        BY <3>1, <3>4
      <4>2. <<GroupAt(items, j)>> \in Seq(GroupsOf(items))
        BY <3>5
      <4> HIDE DEF j
      <4>3. <<GroupAt(items, j)>> \o f[GroupEnd(items, j) + 1] \in Seq(GroupsOf(items))
        BY <4>1, <4>2, ConcatProperties
      <4>4. \A i \in D(k) : f[i] \in Seq(GroupsOf(items))
        BY <3>1
      <4> QED
        BY <3>2, <4>3, <4>4
    <3>9. GroupsFrom(h, items, D(k + 1))
      <4> SUFFICES ASSUME NEW i \in D(k + 1)
                   PROVE  h[i] = IF i > Len(items) THEN <<>>
                                 ELSE <<GroupAt(items, i)>> \o h[GroupEnd(items, i) + 1]
        BY DEF GroupsFrom
      <4>1. CASE i = j
        <5>1. h[GroupEnd(items, j) + 1] = f[GroupEnd(items, j) + 1]
          BY <3>4, <3>6
        <5>2. ~(j > Len(items))
          BY <3>2
        <5> HIDE DEF h, j
        <5> QED
          BY <3>7, <4>1, <5>1, <5>2
      <4>2. CASE i \in D(k)
        <5>1. h[i] = f[i]
          BY <3>6, <4>2
        <5>2. f[i] = IF i > Len(items) THEN <<>>
                     ELSE <<GroupAt(items, i)>> \o f[GroupEnd(items, i) + 1]
          BY <3>1, <4>2 DEF GroupsFrom
        <5>3. ASSUME ~(i > Len(items))
              PROVE  h[GroupEnd(items, i) + 1] = f[GroupEnd(items, i) + 1]
          <6>1. i <= n
            BY <4>2, <5>3 DEF D
          <6> QED
            BY <3>4, <3>6, <4>2, <6>1
        <5> HIDE DEF h
        <5> QED
          BY <5>1, <5>2, <5>3
      <4> QED
        BY <3>2, <4>1, <4>2
    <3>10. Rec(h, k + 1)
      BY <3>8, <3>9
    <3> HIDE DEF h, Rec
    <3> QED
      BY <3>10, Zenon
  <2> HIDE DEF Rec
  <2> QED
    BY <2>1
<1> HIDE DEF K
<1>3. n \in K
  BY <1>0, <1>1, <1>2, Inductive
<1>4. PICK f : Rec(f, n)
  BY <1>0, <1>3 DEF K
<1> DEFINE Right(g) == g = [i \in 1 .. Len(items) + 1 |->
                              IF i > Len(items) THEN <<>>
                              ELSE <<GroupAt(items, i)>> \o g[GroupEnd(items, i) + 1]]
           from == CHOOSE g : Right(g)
<1>5. D(n) = 1 .. Len(items) + 1
  OBVIOUS
<1>6. Right(f)
  BY <1>4, <1>5 DEF GroupsFrom
<1>7. HistoryGroups(items) = from[1]
  BY DEF HistoryGroups, GroupAt
<1>8. Right(from)
  BY <1>6
<1>9. GroupsFrom(from, items, 1 .. Len(items) + 1)
  <2> HIDE DEF from, K
  <2> QED
    BY <1>8 DEF GroupsFrom
<1> HIDE DEF from
<1> QED
  BY <1>7, <1>9, Zenon

(* The groups follow one another from an index to the end of a history.     *)
Tiles(gs, first, n) ==
  /\ gs = <<>> => first = n + 1
  /\ gs # <<>> => gs[1].first = first /\ gs[Len(gs)].last = n
  /\ \A k \in 1 .. Len(gs) : k + 1 \in 1 .. Len(gs) => gs[k + 1].first = gs[k].last + 1

(* Putting a group before those that follow it.                             *)
LEMMA OneMoreTile ==
  ASSUME NEW G, NEW gs \in Seq(G), NEW g \in G, NEW n \in Nat, Tiles(gs, g.last + 1, n),
         g.last \in Int
  PROVE  Tiles(<<g>> \o gs, g.first, n) /\ <<g>> \o gs \in Seq(G)
<1> DEFINE hs == <<g>> \o gs
<1>1. /\ hs \in Seq(G) /\ Len(hs) = Len(gs) + 1 /\ Len(gs) \in Nat
      /\ hs[1] = g /\ \A k \in 1 .. Len(gs) : hs[k + 1] = gs[k]
  <2>1. <<g>> \in Seq(G) /\ Len(<<g>>) = 1 /\ <<g>>[1] = g
    OBVIOUS
  <2>2. /\ hs \in Seq(G) /\ Len(hs) = Len(<<g>>) + Len(gs)
        /\ \A k \in 1 .. Len(<<g>>) + Len(gs) :
              hs[k] = IF k <= Len(<<g>>) THEN <<g>>[k] ELSE gs[k - Len(<<g>>)]
    BY <2>1, ConcatProperties
  <2> HIDE DEF hs
  <2>3. Len(gs) \in Nat
    OBVIOUS
  <2>4. ASSUME NEW k \in 1 .. Len(gs)
        PROVE  hs[k + 1] = gs[k]
    <3>1. k + 1 \in 1 .. 1 + Len(gs) /\ ~(k + 1 <= 1) /\ k + 1 - 1 = k
      BY <2>3
    <3> DEFINE m == k + 1
    <3>2. hs[m] = gs[m - 1]
      <4>1. m \in 1 .. 1 + Len(gs) /\ ~(m <= 1)
        BY <3>1
      <4> HIDE DEF m
      <4> QED
        BY <2>1, <2>2, <4>1
    <3> QED
      BY <3>1, <3>2
  <2>5. 1 \in 1 .. 1 + Len(gs) /\ 1 <= 1
    BY <2>3
  <2>6. hs[1] = g
    BY <2>1, <2>2, <2>5
  <2> QED
    BY <2>1, <2>2, <2>3, <2>4, <2>6
<1> HIDE DEF hs
<1>2. hs # <<>>
  BY <1>1
<1>3. hs[Len(hs)].last = n
  <2>1. CASE gs = <<>>
    <3>1. Len(gs) = 0 /\ g.last + 1 = n + 1
      BY <2>1 DEF Tiles
    <3> QED
      BY <1>1, <3>1
  <2>2. CASE gs # <<>>
    <3>1. Len(gs) \in 1 .. Len(gs) /\ gs[Len(gs)].last = n
      BY <2>2 DEF Tiles
    <3> QED
      BY <1>1, <3>1
  <2> QED
    BY <2>1, <2>2
<1>4. ASSUME NEW k \in 1 .. Len(hs), k + 1 \in 1 .. Len(hs)
      PROVE  hs[k + 1].first = hs[k].last + 1
  <2>1. k \in 1 .. Len(gs) /\ hs[k + 1] = gs[k]
    BY <1>1, <1>4
  <2>2. CASE k = 1
    <3>1. gs # <<>>
      BY <2>1
    <3>2. gs[1].first = g.last + 1
      BY <3>1 DEF Tiles
    <3> QED
      BY <1>1, <2>1, <2>2, <3>2
  <2>3. CASE k # 1
    <3> DEFINE i == k - 1
    <3>1. i \in 1 .. Len(gs) /\ i + 1 \in 1 .. Len(gs) /\ i + 1 = k
      BY <1>1, <2>1, <2>3
    <3> HIDE DEF i
    <3>2. gs[i + 1].first = gs[i].last + 1 /\ hs[i + 1] = gs[i]
      BY <1>1, <3>1 DEF Tiles
    <3> QED
      BY <2>1, <3>1, <3>2
  <2> QED
    BY <2>2, <2>3
<1>5. Tiles(hs, g.first, n)
  BY <1>1, <1>2, <1>3, <1>4 DEF Tiles
<1> QED
  BY <1>1, <1>5 DEF hs

(* The groups of a history follow one another from its first item to its    *)
(* last: no item is in two of them, and none is in no group.                *)
LEMMA HistoryIsGrouped ==
  ASSUME NEW S, NEW items \in Seq(S)
  PROVE  /\ HistoryGroups(items) \in Seq(GroupsOf(items))
         /\ Tiles(HistoryGroups(items), 1, Len(items))
<1> DEFINE n == Len(items)
           G == GroupsOf(items)
<1>1. PICK from : GroupsFrom(from, items, 1 .. n + 1) /\ HistoryGroups(items) = from[1]
  BY HistoryUnfolds
<1>2. n \in Nat /\ \A i \in 1 .. n : GroupEnd(items, i) \in i .. n
  BY GroupsEnd
<1>3. \A i \in 1 .. n : GroupAt(items, i) \in G
  BY DEF GroupsOf
<1>4. \A i \in 1 .. n : GroupAt(items, i).first = i /\ GroupAt(items, i).last = GroupEnd(items, i)
  BY DEF GroupAt
<1>5. \A i \in 1 .. n + 1 : from[i] = IF i > n THEN <<>>
                                      ELSE <<GroupAt(items, i)>> \o from[GroupEnd(items, i) + 1]
  BY <1>1 DEF GroupsFrom
<1> HIDE DEF n, G
<1> DEFINE Good(i) == from[i] \in Seq(G) /\ Tiles(from[i], i, n)
           J == {k \in Nat : \A i \in 1 .. n + 1 : i >= n + 1 - k => Good(i)}
<1>6. Good(n + 1)
  <2>1. n + 1 \in 1 .. n + 1 /\ n + 1 > n
    BY <1>2
  <2>2. from[n + 1] = <<>>
    BY <1>5, <2>1
  <2>3. Len(<<>>) = 0 /\ <<>> \in Seq(G)
    OBVIOUS
  <2> QED
    BY <2>2, <2>3 DEF Tiles
<1>7. ASSUME NEW i \in 1 .. n, Good(GroupEnd(items, i) + 1)
      PROVE  Good(i)
  <2> DEFINE g == GroupAt(items, i)
             gs == from[GroupEnd(items, i) + 1]
  <2>1. g \in G /\ g.first = i /\ g.last = GroupEnd(items, i) /\ g.last \in Int
    BY <1>2, <1>3, <1>4
  <2>2. gs \in Seq(G) /\ Tiles(gs, g.last + 1, n)
    BY <1>7, <2>1
  <2>3. from[i] = <<g>> \o gs
    <3>1. i \in 1 .. n + 1 /\ ~(i > n)
      BY <1>2
    <3> HIDE DEF g, gs
    <3>2. from[i] = IF i > n THEN <<>> ELSE <<GroupAt(items, i)>> \o from[GroupEnd(items, i) + 1]
      BY <1>5, <3>1
    <3> QED
      BY <3>1, <3>2 DEF g, gs
  <2> HIDE DEF g, gs
  <2> QED
    BY <1>2, <2>1, <2>2, <2>3, OneMoreTile
<1>8. 0 \in J
  <2>1. \A i \in 1 .. n + 1 : i >= n + 1 - 0 => i = n + 1
    BY <1>2
  <2> HIDE DEF Good
  <2> QED
    BY <1>6, <2>1
<1>9. ASSUME NEW k \in Nat, k \in J
      PROVE  k + 1 \in J
  <2>1. ASSUME NEW i \in 1 .. n + 1, i >= n + 1 - (k + 1)
        PROVE  Good(i)
    <3>1. CASE i = n + 1
      <4> HIDE DEF Good
      <4> QED
        BY <1>6, <3>1
    <3>2. CASE i # n + 1
      <4>1. i \in 1 .. n /\ GroupEnd(items, i) \in i .. n
        BY <1>2, <3>2
      <4>2. GroupEnd(items, i) + 1 \in 1 .. n + 1 /\ GroupEnd(items, i) + 1 >= n + 1 - k
        BY <1>2, <2>1, <4>1
      <4> HIDE DEF Good
      <4>3. Good(GroupEnd(items, i) + 1)
        BY <1>9, <4>2
      <4> QED
        BY <1>7, <4>1, <4>3
    <3> QED
      BY <3>1, <3>2
  <2> HIDE DEF Good
  <2> QED
    BY <2>1
<1> HIDE DEF J
<1>10. n \in J
  BY <1>2, <1>8, <1>9, Inductive
<1>11. 1 \in 1 .. n + 1 /\ 1 >= n + 1 - n
  BY <1>2
<1>12. Good(1)
  <2> HIDE DEF Good
  <2> QED
    BY <1>10, <1>11 DEF J
<1> QED
  BY <1>1, <1>12 DEF n, G

(* What every step of a fold keeps holds at its end.                        *)
LEMMA ChainStays ==
  ASSUME NEW n \in Nat, NEW A, NEW g, g[{}] \in A,
         \A k \in 1 .. n : g[1 .. k - 1] \in A => g[1 .. k] \in A
  PROVE  g[1 .. n] \in A
<1> DEFINE K == {k \in Nat : k <= n => g[1 .. k] \in A}
<1>1. 0 \in K
  <2>1. 1 .. 0 = {}
    OBVIOUS
  <2> QED
    BY <2>1
<1>2. ASSUME NEW k \in Nat, k \in K
      PROVE  k + 1 \in K
  <2>1. ASSUME k + 1 <= n
        PROVE  g[1 .. k + 1] \in A
    <3> DEFINE m == k + 1
    <3>1. m \in 1 .. n /\ m - 1 = k /\ k <= n
      BY <2>1
    <3>2. g[1 .. k] \in A
      BY <1>2, <3>1
    <3> HIDE DEF m
    <3>3. g[1 .. m - 1] \in A
      BY <3>1, <3>2, Zenon
    <3>4. g[1 .. m] \in A
      BY <3>1, <3>3, Zenon
    <3> QED
      BY <3>4 DEF m
  <2> QED
    BY <2>1
<1> HIDE DEF K
<1>3. n \in K
  BY <1>1, <1>2, Inductive
<1> QED
  BY <1>3 DEF K

(***************************************************************************)
(* Lists that orphan nothing: each item finds in the list what it needs,   *)
(* so such lists may be put one behind the other.                          *)
(***************************************************************************)
\* A list that orphans nothing, and that no request before it could claim.
Unbroken(items) ==
  /\ ChatPairsAreWhole(items) /\ CallGraphIsWhole(items)
  /\ items # <<>> => ~IsTool(items[1])

(* The kinds of calls and outputs, spelled out.                             *)
LEMMA KindsAre ==
  /\ CallKinds = {"program", "function", "shell", "search", "approval"}
  /\ OutputKinds = {"program_output", "function_output", "shell_output", "search_output",
                    "approval_response"}
<1>1. CallKinds = {"program", "function", "shell", "search", "approval"}
  BY DEF CallKinds, CallOutput
<1>2. /\ CallOutput["program"] = "program_output" /\ CallOutput["function"] = "function_output"
      /\ CallOutput["shell"] = "shell_output" /\ CallOutput["search"] = "search_output"
      /\ CallOutput["approval"] = "approval_response"
  BY DEF CallOutput
<1> QED
  BY <1>1, <1>2 DEF OutputKinds

(* A stretch reaches as far as every index on the way is in the set.        *)
LEMMA StretchReaches ==
  ASSUME NEW n \in Nat, NEW indices, indices \subseteq 1 .. n, NEW first \in 1 .. n + 1,
         NEW k \in first .. n
  PROVE  k <= Stretch(indices, first) <=> first .. k \subseteq indices
<1> DEFINE T == {first - 1} \cup {e \in indices : first .. e \subseteq indices}
<1>1. T \subseteq 0 .. n /\ T # {}
  <2>1. first - 1 \in 0 .. n /\ \A e \in indices : e \in 0 .. n
    OBVIOUS
  <2> QED
    BY <2>1
<1>2. Stretch(indices, first) = Max(T)
  BY DEF Stretch
<1>3. first .. k \subseteq indices => k \in T
  OBVIOUS
<1>4. \A e \in T : k <= e => first .. k \subseteq indices
  OBVIOUS
<1> HIDE DEF T
<1>5. Max(T) \in T /\ \A x \in T : x <= Max(T)
  BY <1>1, MaxIsIn, Zenon
<1> QED
  BY <1>2, <1>3, <1>4, <1>5

(* The replies to a request are the tool messages right behind it.          *)
LEMMA RepliesAre ==
  ASSUME NEW S, NEW items \in Seq(S), NEW i \in 1 .. Len(items), NEW k
  PROVE  k \in RepliesTo(items, i) <=>
            k \in i + 1 .. Len(items) /\ \A l \in i + 1 .. k : IsTool(items[l])
<1> DEFINE n == Len(items)
           R == ToolReplies(items)
<1>1. n \in Nat /\ R \subseteq 1 .. n /\ i + 1 \in 1 .. n + 1
  BY DEF ToolReplies
<1>2. Stretch(R, i + 1) \in i + 1 - 1 .. n
  <2> DEFINE first == i + 1
  <2>1. first \in 1 .. n + 1
    BY <1>1
  <2> HIDE DEF first, R, n
  <2>2. Stretch(R, first) \in first - 1 .. n
    BY <1>1, <2>1, StretchEnds
  <2> QED
    BY <2>2 DEF first
<1>3. \A l \in i + 1 .. n : l \in R <=> IsTool(items[l])
  BY DEF ToolReplies
<1>4. ASSUME NEW m \in i + 1 .. n
      PROVE  m <= Stretch(R, i + 1) <=> \A l \in i + 1 .. m : IsTool(items[l])
  <2> DEFINE first == i + 1
  <2>1. first \in 1 .. n + 1 /\ m \in first .. n
    BY <1>1
  <2>2. m <= Stretch(R, first) <=> first .. m \subseteq R
    <3> HIDE DEF first, R, n
    <3> QED
      BY <1>1, <2>1, StretchReaches
  <2>3. i + 1 .. m \subseteq R <=> \A l \in i + 1 .. m : IsTool(items[l])
    <3> HIDE DEF R
    <3> QED
      BY <1>1, <1>3
  <2> QED
    BY <2>2, <2>3
<1>5. k \in RepliesTo(items, i) <=> k \in i + 1 .. Stretch(R, i + 1)
  BY DEF RepliesTo
<1> HIDE DEF R, n
<1>6. k \in i + 1 .. Stretch(R, i + 1) => k \in i + 1 .. n /\ k <= Stretch(R, i + 1)
  BY <1>1, <1>2
<1>7. k \in i + 1 .. n /\ k <= Stretch(R, i + 1) => k \in i + 1 .. Stretch(R, i + 1)
  BY <1>1, <1>2
<1> QED
  BY <1>4, <1>5, <1>6, <1>7 DEF n

\* What the list owes to one of its items.
Served(items, j) ==
  /\ items[j].kind = "calls" => IdsOf(items, RepliesTo(items, j)) = items[j].ids
  /\ IsTool(items[j]) =>
        \E i \in 1 .. j - 1 : items[i].kind = "calls" /\ j \in RepliesTo(items, i)
  /\ IsOutput(items[j]) =>
        \E i \in 1 .. j - 1 : IsCall(items[i]) /\ CallPair(items[i]) = OutputPair(items[j])
  /\ IsCall(items[j]) /\ ~MayStayOpen(items[j]) =>
        \E k \in j + 1 .. Len(items) : CallPair(items[j]) = OutputPair(items[k])
  /\ items[j].owner # Nobody => UnderAnOpenProgram(items, j)
  /\ items[j].kind = "reasoning" =>
        j < Len(items) /\ (IsEmitted(items[j + 1]) \/ items[j + 1].kind = "reasoning")

(* A list orphans nothing when it serves each of its items.                 *)
LEMMA ServedIsWhole ==
  ASSUME NEW S, NEW items \in Seq(S)
  PROVE  ChatPairsAreWhole(items) /\ CallGraphIsWhole(items)
            <=> \A j \in 1 .. Len(items) : Served(items, j)
<1>1. DOMAIN items = 1 .. Len(items)
  OBVIOUS
<1>2. \A j \in DOMAIN items : items[j].kind = "calls" =>
         (IdsOf(items, RepliesTo(items, j)) = items[j].ids
            <=> IF Malformed(items[j]) THEN IdsOf(items, RepliesTo(items, j)) = {}
                ELSE IdsOf(items, RepliesTo(items, j)) = items[j].ids)
  BY DEF Malformed
<1>3. ChatPairsAreWhole(items) <=>
         /\ \A j \in DOMAIN items : items[j].kind = "calls" =>
               IdsOf(items, RepliesTo(items, j)) = items[j].ids
         /\ \A j \in DOMAIN items : IsTool(items[j]) =>
               \E i \in 1 .. j - 1 : items[i].kind = "calls" /\ j \in RepliesTo(items, i)
  BY <1>2 DEF ChatPairsAreWhole, Malformed
<1> QED
  BY <1>1, <1>3 DEF CallGraphIsWhole, Served

\* A part of a list, from behind an offset, that no tool reply follows.
PartOf(part, items, o) ==
  /\ o \in Nat /\ o + Len(part) <= Len(items)
  /\ \A i \in 1 .. Len(part) : items[o + i] = part[i]
  /\ o + Len(part) < Len(items) => ~IsTool(items[o + Len(part) + 1])

(* In a part that no tool reply follows, requests have the same replies.    *)
LEMMA RepliesOfPart ==
  ASSUME NEW S, NEW items \in Seq(S), NEW part \in Seq(S), NEW o, PartOf(part, items, o),
         NEW i \in 1 .. Len(part)
  PROVE  RepliesTo(items, o + i) = {o + k : k \in RepliesTo(part, i)}
<1> DEFINE n == Len(items)
           m == Len(part)
<1>1. /\ o \in Nat /\ n \in Nat /\ m \in Nat /\ o + m <= n /\ o + i \in 1 .. n
      /\ \A l \in 1 .. m : items[o + l] = part[l]
      /\ o + m < n => ~IsTool(items[o + m + 1])
  BY DEF PartOf
<1>2. ASSUME NEW k \in RepliesTo(part, i)
      PROVE  o + k \in RepliesTo(items, o + i)
  <2>1. k \in i + 1 .. m /\ \A l \in i + 1 .. k : IsTool(part[l])
    BY RepliesAre
  <2>2. o + k \in o + i + 1 .. n
    BY <1>1, <2>1
  <2>3. ASSUME NEW l \in o + i + 1 .. o + k
        PROVE  IsTool(items[l])
    <3> DEFINE p == l - o
    <3>1. p \in i + 1 .. k /\ p \in 1 .. m /\ l = o + p
      BY <1>1, <2>1
    <3> HIDE DEF p
    <3> QED
      BY <1>1, <2>1, <3>1
  <2> QED
    BY <1>1, <2>2, <2>3, RepliesAre
<1>3. ASSUME NEW q \in RepliesTo(items, o + i)
      PROVE  \E k \in RepliesTo(part, i) : q = o + k
  <2>1. q \in o + i + 1 .. n /\ \A l \in o + i + 1 .. q : IsTool(items[l])
    BY <1>1, RepliesAre
  <2>2. q <= o + m
    <3> SUFFICES ASSUME q > o + m PROVE FALSE
      BY <1>1, <2>1
    <3>1. o + m + 1 \in o + i + 1 .. q /\ o + m < n
      BY <1>1, <2>1
    <3> QED
      BY <1>1, <2>1, <3>1
  <2> DEFINE k == q - o
  <2>3. k \in i + 1 .. m /\ q = o + k
    BY <1>1, <2>1, <2>2
  <2> HIDE DEF k
  <2>4. ASSUME NEW l \in i + 1 .. k
        PROVE  IsTool(part[l])
    <3>1. l \in 1 .. m /\ o + l \in o + i + 1 .. q
      BY <1>1, <2>3
    <3> QED
      BY <1>1, <2>1, <3>1
  <2>5. k \in RepliesTo(part, i)
    BY <2>3, <2>4, RepliesAre
  <2> QED
    BY <2>3, <2>5
<1> QED
  BY <1>2, <1>3

(* What serves an item in such a part serves it in the list.                *)
LEMMA ServedInPart ==
  ASSUME NEW S, NEW items \in Seq(S), NEW part \in Seq(S), NEW o, PartOf(part, items, o),
         NEW j \in 1 .. Len(part), Served(part, j)
  PROVE  Served(items, o + j)
<1> DEFINE n == Len(items)
           m == Len(part)
           t == o + j
<1>1. /\ o \in Nat /\ n \in Nat /\ m \in Nat /\ o + m <= n /\ t \in 1 .. n /\ t - 1 \in Nat
      /\ \A l \in 1 .. m : items[o + l] = part[l]
  BY DEF PartOf
<1>2. items[t] = part[j]
  BY <1>1
<1>3. \A i \in 1 .. m : RepliesTo(items, o + i) = {o + k : k \in RepliesTo(part, i)}
  BY RepliesOfPart
<1>4. \A i \in 1 .. j - 1 : i \in 1 .. m /\ o + i \in 1 .. t - 1 /\ items[o + i] = part[i]
  BY <1>1
<1>5. ASSUME items[t].kind = "calls"
      PROVE  IdsOf(items, RepliesTo(items, t)) = items[t].ids
  <2>1. IdsOf(part, RepliesTo(part, j)) = part[j].ids
    BY <1>2, <1>5 DEF Served
  <2>2. RepliesTo(part, j) \subseteq 1 .. m
    <3>1. \A k : k \in RepliesTo(part, j) => k \in j + 1 .. m
      BY RepliesAre
    <3> QED
      BY <1>1, <3>1
  <2>3. {items[k].ids : k \in RepliesTo(items, t)} = {part[k].ids : k \in RepliesTo(part, j)}
    <3> DEFINE R == RepliesTo(part, j)
    <3>1. RepliesTo(items, t) = {o + k : k \in R}
      BY <1>3
    <3>2. \A k \in R : items[o + k].ids = part[k].ids
      BY <1>1, <2>2
    <3> HIDE DEF R, t
    <3>3. {items[k].ids : k \in {o + l : l \in R}} = {part[k].ids : k \in R}
      BY <3>2
    <3> QED
      BY <3>1, <3>3 DEF R
  <2> QED
    BY <1>2, <2>1, <2>3 DEF IdsOf
<1>6. ASSUME IsTool(items[t])
      PROVE  \E i \in 1 .. t - 1 : items[i].kind = "calls" /\ t \in RepliesTo(items, i)
  <2>1. PICK i \in 1 .. j - 1 : part[i].kind = "calls" /\ j \in RepliesTo(part, i)
    BY <1>2, <1>6 DEF Served
  <2>2. o + i \in 1 .. t - 1 /\ items[o + i].kind = "calls" /\ t \in RepliesTo(items, o + i)
    BY <1>3, <1>4, <2>1
  <2> QED
    BY <2>2
<1>7. ASSUME IsOutput(items[t])
      PROVE  \E i \in 1 .. t - 1 : IsCall(items[i]) /\ CallPair(items[i]) = OutputPair(items[t])
  <2>1. PICK i \in 1 .. j - 1 : IsCall(part[i]) /\ CallPair(part[i]) = OutputPair(part[j])
    BY <1>2, <1>7 DEF Served
  <2>2. o + i \in 1 .. t - 1 /\ items[o + i] = part[i]
    BY <1>4
  <2> QED
    BY <1>2, <2>1, <2>2
<1>8. ASSUME IsCall(items[t]), ~MayStayOpen(items[t])
      PROVE  \E k \in t + 1 .. n : CallPair(items[t]) = OutputPair(items[k])
  <2>1. PICK k \in j + 1 .. m : CallPair(part[j]) = OutputPair(part[k])
    BY <1>2, <1>8 DEF Served
  <2>2. o + k \in t + 1 .. n /\ items[o + k] = part[k]
    BY <1>1
  <2> QED
    BY <1>2, <2>1, <2>2
<1>9. ASSUME items[t].owner # Nobody
      PROVE  UnderAnOpenProgram(items, t)
  <2> DEFINE Ended(e, p) == e.kind = "program_output" /\ e.ids = p.ids /\ e.status = "completed"
  <2>1. PICK i \in 1 .. j - 1 :
           /\ part[i].kind = "program" /\ part[i].ids = {part[j].owner}
           /\ \A k \in i + 1 .. j - 1 : ~Ended(part[k], part[i])
    BY <1>2, <1>9 DEF Served, UnderAnOpenProgram
  <2>2. o + i \in 1 .. t - 1 /\ items[o + i] = part[i]
    BY <1>4
  <2>3. ASSUME NEW k \in o + i + 1 .. t - 1
        PROVE  ~Ended(items[k], items[o + i])
    <3> DEFINE p == k - o
    <3>1. p \in i + 1 .. j - 1 /\ p \in 1 .. m /\ k = o + p
      BY <1>1
    <3> HIDE DEF p
    <3>2. items[k] = part[p]
      BY <1>1, <3>1
    <3> QED
      BY <2>1, <2>2, <3>1, <3>2
  <2> QED
    BY <1>2, <2>1, <2>2, <2>3 DEF UnderAnOpenProgram
<1>10. ASSUME items[t].kind = "reasoning"
       PROVE  t < n /\ (IsEmitted(items[t + 1]) \/ items[t + 1].kind = "reasoning")
  <2>1. j < m /\ (IsEmitted(part[j + 1]) \/ part[j + 1].kind = "reasoning")
    BY <1>2, <1>10 DEF Served
  <2>2. j + 1 \in 1 .. m /\ t < n /\ t + 1 = o + (j + 1)
    BY <1>1, <2>1
  <2>3. items[t + 1] = part[j + 1]
    BY <1>1, <2>2
  <2> QED
    BY <2>1, <2>2, <2>3
<1> QED
  BY <1>5, <1>6, <1>7, <1>8, <1>9, <1>10 DEF Served

(* Two lists that orphan nothing orphan nothing together, when the second   *)
(* does not start with a tool reply.                                        *)
LEMMA UnbrokenJoined ==
  ASSUME NEW S, NEW s \in Seq(S), NEW u \in Seq(S), Unbroken(s), Unbroken(u)
  PROVE  Unbroken(s \o u)
<1> DEFINE c == s \o u
           a == Len(s)
           b == Len(u)
<1>1. /\ a \in Nat /\ b \in Nat /\ c \in Seq(S) /\ Len(c) = a + b
      /\ \A i \in 1 .. a : c[i] = s[i]
      /\ \A i \in 1 .. b : c[a + i] = u[i]
  OBVIOUS
<1>2. PartOf(s, c, 0)
  <2>1. ASSUME a < a + b
        PROVE  ~IsTool(c[a + 1])
    <3>1. u # <<>> /\ 1 \in 1 .. b
      BY <1>1, <2>1
    <3>2. c[a + 1] = u[1]
      BY <1>1, <3>1
    <3> QED
      BY <3>1, <3>2 DEF Unbroken
  <2> QED
    BY <1>1, <2>1 DEF PartOf
<1>3. PartOf(u, c, a)
  BY <1>1 DEF PartOf
<1>4. (\A j \in 1 .. a : Served(s, j)) /\ (\A j \in 1 .. b : Served(u, j))
  BY ServedIsWhole DEF Unbroken
<1> HIDE DEF c
<1>5. ASSUME NEW j \in 1 .. a
      PROVE  Served(c, j)
  <2>1. Served(c, 0 + j)
    <3> DEFINE z == 0
    <3>1. PartOf(s, c, z)
      BY <1>2
    <3> HIDE DEF z
    <3>2. Served(c, z + j)
      BY <1>1, <1>4, <3>1, ServedInPart
    <3> QED
      BY <3>2 DEF z
  <2>2. 0 + j = j
    BY <1>1
  <2> QED
    BY <2>1, <2>2
<1>6. ASSUME NEW j \in 1 .. b
      PROVE  Served(c, a + j)
  BY <1>1, <1>3, <1>4, ServedInPart
<1>7. ASSUME NEW j \in 1 .. Len(c)
      PROVE  Served(c, j)
  <2>1. CASE j <= a
    <3>1. j \in 1 .. a
      BY <1>1, <2>1
    <3> QED
      BY <1>5, <3>1
  <2>2. CASE j > a
    <3>1. j - a \in 1 .. b /\ j = a + (j - a)
      BY <1>1, <2>2
    <3>2. Served(c, a + (j - a))
      BY <1>6, <3>1
    <3> QED
      BY <3>1, <3>2
  <2> QED
    BY <1>1, <2>1, <2>2
<1>8. ChatPairsAreWhole(c) /\ CallGraphIsWhole(c)
  BY <1>1, <1>7, ServedIsWhole
<1>9. c # <<>> => ~IsTool(c[1])
  <2>1. CASE s # <<>>
    <3>1. 1 \in 1 .. a
      BY <1>1, <2>1
    <3> QED
      BY <1>1, <2>1, <3>1 DEF Unbroken
  <2>2. CASE s = <<>>
    <3>1. c = u
      BY <2>2 DEF c
    <3> QED
      BY <3>1 DEF Unbroken
  <2> QED
    BY <2>1, <2>2
<1> QED
  BY <1>8, <1>9 DEF Unbroken, c

\* Items that neither call nor complete anything, nor lead to anything.
IsPlain(item) ==
  /\ ~IsCall(item) /\ ~IsOutput(item)
  /\ item.owner = Nobody /\ item.kind # "reasoning"

(* Chat messages are plain.                                                 *)
LEMMA ChatIsPlain ==
  ASSUME NEW item \in Items, item.kind \in {"calls", "tool"}
  PROVE  IsPlain(item)
  BY ItemsAssumption, KindsAre DEF IsPlain, IsCall, IsOutput

(* A request with all its replies orphans nothing.                          *)
LEMMA ChatGroupIsWhole ==
  ASSUME NEW g \in Seq(Items), g # <<>>, g[1].kind = "calls",
         \A k \in 2 .. Len(g) : IsTool(g[k]),
         UNION {g[k].ids : k \in 2 .. Len(g)} = g[1].ids
  PROVE  Unbroken(g)
<1> DEFINE n == Len(g)
<1>1. n \in Nat /\ 1 \in 1 .. n /\ \A j \in 1 .. n : g[j] \in Items
  OBVIOUS
<1>2. \A k : k \in RepliesTo(g, 1) <=> k \in 2 .. n
  <2>1. ASSUME NEW k
        PROVE  k \in RepliesTo(g, 1) <=> k \in 1 + 1 .. n /\ \A l \in 1 + 1 .. k : IsTool(g[l])
    BY <1>1, RepliesAre
  <2>2. ASSUME NEW k \in 2 .. n
        PROVE  \A l \in 2 .. k : IsTool(g[l])
    BY <1>1
  <2> QED
    BY <2>1, <2>2
<1>3. RepliesTo(g, 1) = 2 .. n
  BY <1>2
<1>4. ~IsTool(g[1])
  BY DEF IsTool
<1>5. ASSUME NEW j \in 1 .. n
      PROVE  Served(g, j)
  <2>1. g[j].kind \in {"calls", "tool"}
    <3>1. j = 1 \/ j \in 2 .. n
      OBVIOUS
    <3> QED
      BY <3>1 DEF IsTool
  <2>2. IsPlain(g[j])
    BY <1>1, <2>1, ChatIsPlain
  <2>3. g[j].kind = "calls" => IdsOf(g, RepliesTo(g, j)) = g[j].ids
    <3>1. g[j].kind = "calls" => j = 1
      BY <1>1 DEF IsTool
    <3>2. IdsOf(g, RepliesTo(g, 1)) = g[1].ids
      BY <1>3 DEF IdsOf
    <3> QED
      BY <3>1, <3>2
  <2>4. ASSUME IsTool(g[j])
        PROVE  \E i \in 1 .. j - 1 : g[i].kind = "calls" /\ j \in RepliesTo(g, i)
    <3>1. j # 1
      BY <1>4, <2>4
    <3>2. 1 \in 1 .. j - 1 /\ j \in RepliesTo(g, 1)
      BY <1>3, <3>1
    <3> QED
      BY <3>2
  <2> QED
    BY <2>2, <2>3, <2>4 DEF Served, IsPlain
<1>6. ChatPairsAreWhole(g) /\ CallGraphIsWhole(g)
  BY <1>5, ServedIsWhole
<1> QED
  BY <1>4, <1>6 DEF Unbroken

(* A plain message that is neither a request nor a reply stands alone.      *)
LEMMA SingleIsWhole ==
  ASSUME NEW item \in Items, IsPlain(item), item.kind \notin {"calls", "tool"}
  PROVE  Unbroken(<<item>>)
<1> DEFINE g == <<item>>
<1>1. g \in Seq(Items) /\ Len(g) = 1 /\ g[1] = item
  OBVIOUS
<1> HIDE DEF g
<1>2. Served(g, 1)
  BY <1>1 DEF Served, IsPlain, IsTool
<1>3. \A j \in 1 .. Len(g) : Served(g, j)
  BY <1>1, <1>2
<1>4. ChatPairsAreWhole(g) /\ CallGraphIsWhole(g)
  BY <1>1, <1>3, ServedIsWhole
<1> QED
  BY <1>1, <1>4 DEF Unbroken, IsTool, g

(* Nothing orphans nothing.                                                 *)
LEMMA NothingIsWhole == Unbroken(<<>>)
<1> DEFINE g == <<>>
<1>1. g \in Seq(Items) /\ Len(g) = 0
  OBVIOUS
<1> HIDE DEF g
<1>2. \A j \in 1 .. Len(g) : Served(g, j)
  BY <1>1
<1>3. ChatPairsAreWhole(g) /\ CallGraphIsWhole(g)
  BY <1>1, <1>2, ServedIsWhole
<1> QED
  BY <1>3 DEF Unbroken, g

\* The searches, or the outputs, from behind an index of a run.
After(set, k) == {i \in set : i > k}

\* The scan from the right of a run has matched what is behind an index.
MatchesAfter(run, k, acc) ==
  /\ acc.free \in Seq(After(Found(run), k))
  /\ acc.ok => /\ Len(acc.free) + Cardinality(After(Searches(run), k))
                     = Cardinality(After(Found(run), k))
               /\ \A i \in After(Searches(run), k) : \E j \in Found(run) : i < j

(* Indices of one kind behind the next index to the left.                   *)
LEMMA OneMoreToTheLeft ==
  ASSUME NEW n \in Nat, NEW set, set \subseteq 1 .. n, NEW k \in 1 .. n
  PROVE  /\ Cardinality(After(set, k)) \in Nat
         /\ After(set, k) \subseteq After(set, k - 1)
         /\ k \in set => /\ After(set, k - 1) = After(set, k) \cup {k}
                         /\ Cardinality(After(set, k - 1)) = Cardinality(After(set, k)) + 1
         /\ k \notin set => After(set, k - 1) = After(set, k)
<1>1. IsFiniteSet(After(set, k)) /\ k \notin After(set, k)
  <2>1. After(set, k) \subseteq 1 .. n
    BY DEF After
  <2>2. IsFiniteSet(1 .. n)
    BY FS_Interval
  <2> QED
    BY <2>1, <2>2, FS_Subset DEF After
<1>0. \A i \in set : i \in Nat /\ (i > k - 1 <=> i > k \/ i = k)
  OBVIOUS
<1>2. k \in set => After(set, k - 1) = After(set, k) \cup {k}
  BY <1>0 DEF After
<1>3. k \notin set => After(set, k - 1) = After(set, k)
  BY <1>0 DEF After
<1>4. Cardinality(After(set, k)) \in Nat
  BY <1>1, FS_CardinalityType
<1>5. Cardinality(After(set, k) \cup {k}) = Cardinality(After(set, k)) + 1
  BY <1>1, FS_AddElement
<1>6. After(set, k) \subseteq After(set, k - 1)
  BY <1>2, <1>3
<1> QED
  BY <1>2, <1>3, <1>4, <1>5, <1>6

\* The states of the scan from the right.
Matching == [ok : BOOLEAN, free : Seq(Nat), pairs : SUBSET (Nat \X Nat)]

(* One more item to the left keeps the match.                               *)
LEMMA MatchStepStays ==
  ASSUME NEW run \in Seq(Items), NEW k \in 1 .. Len(run), NEW acc \in Matching
  PROVE  /\ MatchStep(run, acc, k) \in Matching
         /\ MatchesAfter(run, k, acc) => MatchesAfter(run, k - 1, MatchStep(run, acc, k))
         /\ MatchStep(run, acc, k).ok => acc.ok
<1> DEFINE n == Len(run)
           F == Found(run)
           S == Searches(run)
           next == MatchStep(run, acc, k)
<1>1. n \in Nat /\ k \in Nat /\ k \in 1 .. n /\ F \subseteq 1 .. n /\ S \subseteq 1 .. n
  BY DEF Found, Searches
<1>2. k \in F => k \notin S
  BY DEF Found, Searches, IsAnonymousFound, IsAnonymousSearch
<1>3. acc.ok \in BOOLEAN /\ acc.free \in Seq(Nat) /\ acc.pairs \in SUBSET (Nat \X Nat)
      /\ acc = [ok |-> acc.ok, free |-> acc.free, pairs |-> acc.pairs]
  BY DEF Matching
<1> HIDE DEF n, F, S
<1>0. ASSUME NEW set, set \subseteq 1 .. n
      PROVE  /\ Cardinality(After(set, k)) \in Nat
             /\ After(set, k) \subseteq After(set, k - 1)
             /\ k \in set => /\ After(set, k - 1) = After(set, k) \cup {k}
                             /\ Cardinality(After(set, k - 1)) = Cardinality(After(set, k)) + 1
             /\ k \notin set => After(set, k - 1) = After(set, k)
  BY <1>0, <1>1, OneMoreToTheLeft
<1>4. /\ Cardinality(After(F, k)) \in Nat /\ After(F, k) \subseteq After(F, k - 1)
      /\ k \in F => /\ After(F, k - 1) = After(F, k) \cup {k}
                    /\ Cardinality(After(F, k - 1)) = Cardinality(After(F, k)) + 1
      /\ k \notin F => After(F, k - 1) = After(F, k)
  BY <1>0, <1>1, Zenon
<1>5. /\ Cardinality(After(S, k)) \in Nat
      /\ k \in S => /\ After(S, k - 1) = After(S, k) \cup {k}
                    /\ Cardinality(After(S, k - 1)) = Cardinality(After(S, k)) + 1
      /\ k \notin S => After(S, k - 1) = After(S, k)
  BY <1>0, <1>1, Zenon
<1>6. MatchesAfter(run, k, acc) <=>
         /\ acc.free \in Seq(After(F, k))
         /\ acc.ok => /\ Len(acc.free) + Cardinality(After(S, k)) = Cardinality(After(F, k))
                      /\ \A i \in After(S, k) : \E j \in F : i < j
  BY DEF MatchesAfter, F, S
<1>7. \A x : MatchesAfter(run, k - 1, x) <=>
         /\ x.free \in Seq(After(F, k - 1))
         /\ x.ok => /\ Len(x.free) + Cardinality(After(S, k - 1)) = Cardinality(After(F, k - 1))
                    /\ \A i \in After(S, k - 1) : \E j \in F : i < j
  BY DEF MatchesAfter, F, S
<1>8. next = IF k \in F THEN [acc EXCEPT !.free = <<k>> \o acc.free]
             ELSE IF k \notin S \/ ~acc.ok THEN acc
             ELSE IF acc.free = <<>> THEN [acc EXCEPT !.ok = FALSE]
             ELSE [acc EXCEPT !.free = Tail(acc.free),
                              !.pairs = acc.pairs \cup {<<k, Head(acc.free)>>}]
  BY DEF MatchStep, F, S
<1> HIDE DEF next
<1>13. next.ok => acc.ok
  BY <1>3, <1>8
<1>9. CASE k \in F
  <2>1. next = [ok |-> acc.ok, free |-> <<k>> \o acc.free, pairs |-> acc.pairs]
    BY <1>3, <1>8, <1>9
  <2>2. <<k>> \o acc.free \in Seq(Nat) /\ Len(<<k>> \o acc.free) = Len(acc.free) + 1
    BY <1>1, <1>3
  <2>3. next \in Matching
    BY <1>3, <2>1, <2>2 DEF Matching
  <2>4. ASSUME MatchesAfter(run, k, acc)
        PROVE  MatchesAfter(run, k - 1, next)
    <3>1. acc.free \in Seq(After(F, k - 1)) /\ k \in After(F, k - 1)
      <4>1. After(F, k - 1) = After(F, k) \cup {k} /\ acc.free \in Seq(After(F, k))
        BY <1>4, <1>6, <1>9, <2>4
      <4> QED
        BY <4>1
    <3>2. <<k>> \o acc.free \in Seq(After(F, k - 1))
      BY <3>1
    <3>3. After(S, k - 1) = After(S, k)
      BY <1>2, <1>5, <1>9, Zenon DEF F, S
    <3>4. acc.ok => Len(<<k>> \o acc.free) + Cardinality(After(S, k - 1))
                       = Cardinality(After(F, k - 1))
      <4>1. Len(acc.free) \in Nat
        BY <1>3
      <4>2. acc.ok => Len(acc.free) + Cardinality(After(S, k)) = Cardinality(After(F, k))
        BY <1>6, <2>4
      <4> QED
        BY <1>4, <1>5, <1>9, <2>2, <3>3, <4>1, <4>2
    <3>5. next.free = <<k>> \o acc.free /\ next.ok = acc.ok
      BY <2>1
    <3>6. acc.ok => \A i \in After(S, k - 1) : \E j \in F : i < j
      BY <1>6, <2>4, <3>3
    <3> QED
      BY <1>7, <3>2, <3>4, <3>5, <3>6
  <2> QED
    BY <1>13, <2>3, <2>4 DEF next
<1>10. CASE k \notin F /\ (k \notin S \/ ~acc.ok)
  <2>1. next = acc
    BY <1>8, <1>10
  <2>2. ASSUME MatchesAfter(run, k, acc)
        PROVE  MatchesAfter(run, k - 1, acc)
    <3>1. After(F, k - 1) = After(F, k)
      BY <1>4, <1>10
    <3>2. acc.ok => After(S, k - 1) = After(S, k)
      BY <1>5, <1>10
    <3> QED
      BY <1>6, <1>7, <2>2, <3>1, <3>2
  <2> QED
    BY <1>13, <2>1, <2>2 DEF next
<1>11. CASE k \notin F /\ k \in S /\ acc.ok /\ acc.free = <<>>
  <2>1. next = [ok |-> FALSE, free |-> acc.free, pairs |-> acc.pairs]
    BY <1>3, <1>8, <1>11
  <2>2. next \in Matching
    BY <1>3, <2>1 DEF Matching
  <2>3. MatchesAfter(run, k, acc) => MatchesAfter(run, k - 1, next)
    <3>1. After(F, k - 1) = After(F, k)
      BY <1>4, <1>11
    <3>2. next.free = acc.free /\ ~next.ok
      BY <2>1
    <3> QED
      BY <1>6, <1>7, <3>1, <3>2
  <2> QED
    BY <1>13, <2>2, <2>3 DEF next
<1>12. CASE k \notin F /\ k \in S /\ acc.ok /\ acc.free # <<>>
  <2> DEFINE more == acc.pairs \cup {<<k, Head(acc.free)>>}
  <2>1. next = [ok |-> acc.ok, free |-> Tail(acc.free), pairs |-> more]
    BY <1>3, <1>8, <1>12
  <2>2. /\ Tail(acc.free) \in Seq(Nat) /\ Head(acc.free) \in Nat
        /\ Len(acc.free) \in Nat /\ Len(Tail(acc.free)) = Len(acc.free) - 1
    BY <1>3, <1>12
  <2>3. next \in Matching
    <3>1. more \in SUBSET (Nat \X Nat)
      BY <1>1, <1>3, <2>2
    <3> HIDE DEF more
    <3> QED
      BY <1>3, <2>1, <2>2, <3>1 DEF Matching
  <2>4. ASSUME MatchesAfter(run, k, acc)
        PROVE  MatchesAfter(run, k - 1, next)
    <3>1. After(F, k - 1) = After(F, k) /\ acc.free \in Seq(After(F, k))
      BY <1>4, <1>6, <1>12, <2>4
    <3>2. Tail(acc.free) \in Seq(After(F, k - 1)) /\ Head(acc.free) \in After(F, k)
      <4> DEFINE C == After(F, k)
                 q == acc.free
      <4>1. q \in Seq(C) /\ q # <<>>
        BY <1>12, <3>1
      <4> HIDE DEF C, q
      <4>2. Tail(q) \in Seq(C) /\ Head(q) \in C
        BY <4>1
      <4> QED
        BY <3>1, <4>2 DEF C, q
    <3>3. Len(Tail(acc.free)) + Cardinality(After(S, k - 1)) = Cardinality(After(F, k - 1))
      <4>1. Len(acc.free) + Cardinality(After(S, k)) = Cardinality(After(F, k))
        BY <1>6, <1>12, <2>4
      <4>2. Cardinality(After(S, k - 1)) = Cardinality(After(S, k)) + 1
        BY <1>5, <1>12
      <4>3. Cardinality(After(F, k - 1)) = Cardinality(After(F, k))
        BY <3>1
      <4> QED
        BY <1>4, <1>5, <2>2, <4>1, <4>2, <4>3
    <3>4. \A i \in After(S, k - 1) : \E j \in F : i < j
      <4>1. Head(acc.free) \in F /\ k < Head(acc.free)
        <5>1. \A i : i \in After(F, k) => i \in F /\ i > k
          BY DEF After
        <5>2. Head(acc.free) \in F /\ Head(acc.free) > k
          BY <3>2, <5>1
        <5> QED
          BY <1>1, <2>2, <5>2
      <4>2. \A i \in After(S, k) : \E j \in F : i < j
        BY <1>6, <1>12, <2>4
      <4>3. After(S, k - 1) = After(S, k) \cup {k}
        BY <1>5, <1>12
      <4> QED
        BY <4>1, <4>2, <4>3
    <3>5. next.free = Tail(acc.free) /\ next.ok = acc.ok
      BY <2>1
    <3> QED
      BY <1>7, <3>2, <3>3, <3>4, <3>5
  <2> QED
    BY <1>13, <2>3, <2>4 DEF next
<1> QED
  BY <1>9, <1>10, <1>11, <1>12

\* Behind no index are there more searches than outputs for them.
NeverShort(run, k) ==
  \A m \in k .. Len(run) : Cardinality(After(Searches(run), m)) <= Cardinality(After(Found(run), m))

(* The scan ends having matched the whole run.                              *)
LEMMA MatchedIsRight ==
  ASSUME NEW run \in Seq(Items)
  PROVE  /\ Matched(run) \in Matching /\ MatchesAfter(run, 0, Matched(run))
         /\ Matched(run).ok => NeverShort(run, 0)
<1> DEFINE n == Len(run)
           order == Reverse([i \in DOMAIN run |-> i])
           base == [ok |-> TRUE, free |-> <<>>, pairs |-> {}]
           A == Matching
           Step == [p \in (1 .. n) \X A |-> MatchStep(run, p[2], order[p[1]])]
           Rec(g) == g = [s \in SUBSET DOMAIN order |->
                             IF s = {} THEN base
                             ELSE MatchStep(run, g[s \ {Max(s)}], order[Max(s)])]
           iter == CHOOSE g : Rec(g)
<1>1. Matched(run) = iter[DOMAIN order]
  BY DEF Matched, FoldLeft, MapThenFoldSet
<1>2. n \in Nat /\ DOMAIN order = 1 .. n /\ \A k \in 1 .. n : order[k] = n + 1 - k
  <2> DEFINE ids == [i \in 1 .. n |-> i]
  <2>1. n \in Nat /\ DOMAIN run = 1 .. n
    OBVIOUS
  <2>2. ids \in Seq(Nat) /\ Len(ids) = n
    BY <2>1
  <2>3. order = [k \in 1 .. n |-> ids[(n - k) + 1]]
    BY <2>1, <2>2 DEF Reverse
  <2>4. \A k \in 1 .. n : (n - k) + 1 \in 1 .. n /\ (n - k) + 1 = n + 1 - k
    BY <2>1
  <2>5. \A i \in 1 .. n : ids[i] = i
    OBVIOUS
  <2> HIDE DEF ids, order
  <2> QED
    BY <2>1, <2>3, <2>4, <2>5
<1>3. base \in A
  BY DEF Matching
<1> HIDE DEF n, order, base, A
<1>4. ASSUME NEW k \in 1 .. n, NEW acc \in A
      PROVE  /\ MatchStep(run, acc, order[k]) \in A
             /\ MatchesAfter(run, n + 1 - k, acc) =>
                   MatchesAfter(run, n - k, MatchStep(run, acc, order[k]))
             /\ MatchStep(run, acc, order[k]).ok => acc.ok
  <2> DEFINE m == n + 1 - k
  <2>1. m \in 1 .. n /\ order[k] = m /\ m - 1 = n - k
    BY <1>2
  <2> HIDE DEF m
  <2>2. m \in 1 .. Len(run)
    BY <2>1 DEF n
  <2>3. /\ MatchStep(run, acc, m) \in Matching
        /\ MatchesAfter(run, m, acc) => MatchesAfter(run, m - 1, MatchStep(run, acc, m))
        /\ MatchStep(run, acc, m).ok => acc.ok
    BY <2>2, MatchStepStays DEF A
  <2> QED
    BY <2>1, <2>3, Zenon DEF A, m
<1>5. Step \in [(1 .. n) \X A -> A]
  BY <1>4
<1>6. \A k \in 1 .. n, acc \in A : Step[<<k, acc>>] = MatchStep(run, acc, order[k])
  OBVIOUS
<1> HIDE DEF Step
<1>7. PICK f : Recurs(f, n, A, base, Step)
  BY <1>2, <1>3, <1>5, FoldsExist
<1>8. ASSUME NEW s \in SUBSET (1 .. n), s # {}
      PROVE  Max(s) \in 1 .. n
  <2>1. s \subseteq 0 .. n
    OBVIOUS
  <2>2. Max(s) \in s
    BY <1>2, <1>8, <2>1, MaxIsIn, Zenon
  <2> QED
    BY <2>2
<1>9. Rec(f)
  <2>1. ASSUME NEW s \in SUBSET (1 .. n), s # {}
        PROVE  f[s] = MatchStep(run, f[s \ {Max(s)}], order[Max(s)])
    <3>1. f[s] = Step[<<Max(s), f[s \ {Max(s)}]>>] /\ f[s \ {Max(s)}] \in A
      BY <1>7, <2>1 DEF Recurs
    <3> QED
      BY <1>6, <1>8, <2>1, <3>1
  <2> QED
    BY <1>2, <1>7, <2>1 DEF Recurs
<1>10. Rec(iter)
  BY <1>9
<1> HIDE DEF iter
<1>11. iter[{}] = base
  BY <1>10
<1>12. ASSUME NEW k \in 1 .. n
       PROVE  iter[1 .. k] = MatchStep(run, iter[1 .. k - 1], order[k])
  <2>1. /\ 1 .. k # {} /\ 1 .. k \in SUBSET (1 .. n)
        /\ Max(1 .. k) = k /\ (1 .. k) \ {k} = 1 .. k - 1
    BY <1>2, GoingForward
  <2>2. \A s \in SUBSET (1 .. n) :
           s # {} => iter[s] = MatchStep(run, iter[s \ {Max(s)}], order[Max(s)])
    BY <1>2, <1>10
  <2>3. iter[1 .. k] = MatchStep(run, iter[(1 .. k) \ {Max(1 .. k)}], order[Max(1 .. k)])
    BY <2>1, <2>2, Zenon
  <2> QED
    BY <2>1, <2>3, Zenon
<1>18. ASSUME NEW k \in 0 .. n, NEW acc \in A, MatchesAfter(run, k, acc), acc.ok,
              k < n => NeverShort(run, k + 1)
       PROVE  NeverShort(run, k)
  <2> DEFINE a == Cardinality(After(Searches(run), k))
             b == Cardinality(After(Found(run), k))
  <2>1. a \in Nat /\ b \in Nat
    <3>1. After(Searches(run), k) \subseteq 1 .. n /\ After(Found(run), k) \subseteq 1 .. n
      BY DEF After, Searches, Found, n
    <3>2. IsFiniteSet(1 .. n)
      BY <1>2, FS_Interval
    <3> QED
      BY <3>1, <3>2, FS_Subset, FS_CardinalityType
  <2>2. Len(acc.free) \in Nat
    BY DEF A, Matching
  <2>3. Len(acc.free) + a = b
    BY <1>18 DEF MatchesAfter
  <2> HIDE DEF a, b
  <2>4. a <= b
    BY <2>1, <2>2, <2>3
  <2>5. ASSUME NEW m \in k .. n
        PROVE  m = k \/ (k < n /\ m \in k + 1 .. n)
    BY <1>2
  <2> QED
    BY <1>18, <2>4, <2>5 DEF NeverShort, a, b, n
<1> DEFINE Good(k) == /\ iter[1 .. k] \in A /\ MatchesAfter(run, n - k, iter[1 .. k])
                      /\ iter[1 .. k].ok => NeverShort(run, n - k)
           K == {k \in Nat : k <= n => Good(k)}
<1>13. 0 \in K
  <2>1. 1 .. 0 = {} /\ n - 0 = n
    BY <1>2
  <2>2. After(Found(run), n) = {} /\ After(Searches(run), n) = {}
    <3>1. \A i \in DOMAIN run : ~(i > n)
      BY DEF n
    <3> QED
      BY <3>1 DEF After, Found, Searches
  <2>3. base.free = <<>> /\ Len(base.free) = 0 /\ Cardinality({}) = 0
    BY FS_EmptySet DEF base
  <2>4. MatchesAfter(run, n, base)
    BY <2>2, <2>3 DEF MatchesAfter
  <2>6. base.ok
    BY DEF base
  <2>7. NeverShort(run, n)
    BY <1>2, <1>3, <1>18, <2>4, <2>6
  <2>5. Good(0)
    BY <1>3, <1>11, <2>1, <2>4, <2>7
  <2> HIDE DEF Good
  <2> QED
    BY <2>5
<1>14. ASSUME NEW k \in Nat, k \in K
       PROVE  k + 1 \in K
  <2>1. ASSUME k + 1 <= n
        PROVE  Good(k + 1)
    <3> DEFINE m == k + 1
    <3>1. m \in 1 .. n /\ m - 1 = k /\ n + 1 - m = n - k /\ k <= n
      BY <1>2, <2>1
    <3>2. Good(k)
      <4> HIDE DEF Good
      <4> QED
        BY <1>14, <3>1
    <3> HIDE DEF m
    <3>3. iter[1 .. m] = MatchStep(run, iter[1 .. k], order[m])
      BY <1>12, <3>1
    <3>5. /\ iter[1 .. m] \in A /\ MatchesAfter(run, n - m, iter[1 .. m])
          /\ iter[1 .. m].ok => iter[1 .. k].ok
      BY <1>4, <3>1, <3>2, <3>3
    <3>6. n - m \in 0 .. n /\ (n - m) + 1 = n - k
      BY <1>2, <3>1
    <3>7. iter[1 .. m].ok => NeverShort(run, n - m)
      BY <1>18, <3>2, <3>5, <3>6
    <3>4. Good(m)
      BY <3>5, <3>7
    <3> QED
      BY <3>4 DEF m
  <2> HIDE DEF Good
  <2> QED
    BY <2>1
<1> HIDE DEF K
<1>15. n \in K
  BY <1>2, <1>13, <1>14, Inductive
<1>16. Good(n)
  BY <1>2, <1>15 DEF K
<1>17. n - n = 0
  BY <1>2
<1> QED
  BY <1>1, <1>2, <1>16, <1>17 DEF A

(* Searches that carry no id have what they found behind them, and what is  *)
(* found has a search before it.                                            *)
LEMMA SearchesArePaired ==
  ASSUME NEW run \in Seq(Items), AnonymousSearchesMatch(run)
  PROVE  /\ \A i \in Searches(run) : \E j \in Found(run) : i < j
         /\ \A j \in Found(run) : \E i \in Searches(run) : i < j
<1> DEFINE n == Len(run)
           F == Found(run)
           S == Searches(run)
<1>1. n \in Nat /\ F \subseteq 1 .. n /\ S \subseteq 1 .. n /\ F \cap S = {}
  BY DEF Found, Searches, IsAnonymousFound, IsAnonymousSearch
<1>2. IsFiniteSet(F) /\ IsFiniteSet(S)
  <2>1. IsFiniteSet(1 .. n)
    BY <1>1, FS_Interval
  <2> QED
    BY <1>1, <2>1, FS_Subset
<1>3. CASE S = {} /\ F = {}
  BY <1>3
<1>4. CASE /\ Cardinality(S) = 1 /\ F # {}
           /\ \A e \in AnonymousEdges(run) : e[1] < e[2]
  <2>1. AnonymousEdges(run) = S \X F
    BY <1>4 DEF AnonymousEdges
  <2>2. S # {}
    <3>1. S = {} => Cardinality(S) = 0
      BY FS_EmptySet, Zenon
    <3> HIDE DEF S
    <3> QED
      BY <1>4, <3>1
  <2>3. \A i \in S : \A j \in F : i < j
    <3> TAKE i \in S
    <3> TAKE j \in F
    <3>1. <<i, j>> \in S \X F
      OBVIOUS
    <3> HIDE DEF S, F
    <3> QED
      BY <1>4, <2>1, <3>1
  <2> QED
    BY <1>4, <2>2, <2>3
<1>5. CASE Cardinality(S) = Cardinality(F) /\ Matched(run).ok
  <2> DEFINE acc == Matched(run)
  <2>1. acc \in Matching /\ MatchesAfter(run, 0, acc)
    BY MatchedIsRight
  <2>2. After(S, 0) = S
    BY <1>1 DEF After
  <2>3. \A i \in S : \E j \in F : i < j
    BY <1>5, <2>1, <2>2 DEF MatchesAfter
  <2>4. ASSUME NEW j \in F, ~ \E i \in S : i < j
        PROVE  FALSE
    <3>1. \A i \in S : i > j
      BY <1>1, <2>4
    <3>2. After(S, j) = S /\ After(F, j) \subseteq F \ {j} /\ j \in 0 .. n
      BY <1>1, <3>1 DEF After
    <3>3. NeverShort(run, 0)
      BY <1>5, MatchedIsRight
    <3>4. Cardinality(After(S, j)) <= Cardinality(After(F, j))
      BY <3>2, <3>3 DEF NeverShort
    <3>5. /\ IsFiniteSet(F \ {j}) /\ Cardinality(F \ {j}) = Cardinality(F) - 1
          /\ Cardinality(F) \in Nat
      BY <1>2, FS_RemoveElement, FS_CardinalityType
    <3>6. /\ Cardinality(After(F, j)) <= Cardinality(F \ {j})
          /\ Cardinality(After(F, j)) \in Nat
      BY <3>2, <3>5, FS_Subset, FS_CardinalityType
    <3> DEFINE x == Cardinality(F)
               y == Cardinality(After(F, j))
    <3>7. x \in Nat /\ y \in Nat /\ x <= y /\ y <= x - 1
      BY <1>5, <3>2, <3>4, <3>5, <3>6
    <3> HIDE DEF x, y
    <3> QED
      BY <3>7
  <2> QED
    BY <2>3, <2>4
<1> QED
  BY <1>3, <1>4, <1>5 DEF AnonymousSearchesMatch

(* A valid run closes every call it must and issues every output it holds.  *)
LEMMA RunIsWhole ==
  ASSUME NEW run \in Seq(Items), RunIsValid(run)
  PROVE  Unbroken(run)
<1> DEFINE n == Len(run)
           C == Calls(run)
           O == OutputsOf(run)
<1>1. /\ n \in Nat /\ DOMAIN run = 1 .. n /\ C \subseteq 1 .. n /\ O \subseteq 1 .. n
      /\ \A i \in 1 .. n : run[i] \in Items
  BY DEF Calls, OutputsOf
<1>2. \A i \in C : /\ IsCall(run[i])
                   /\ run[i].ids # {}
                   /\ \A k \in C : CallPair(run[k]) = CallPair(run[i]) => k = i
  BY DEF RunIsValid, ItemsAreIdentified, Calls
<1>3. \A i \in 1 .. n : IsEmitted(run[i]) \/ IsOutput(run[i]) \/ run[i].kind = "reasoning"
  BY <1>1 DEF RunIsValid, ItemsAreIdentified
<1>4. \A i \in 1 .. n : run[i].kind \notin {"calls", "tool"}
  <2>1. \A item : IsEmitted(item) \/ IsOutput(item) \/ item.kind = "reasoning"
                     => item.kind \notin {"calls", "tool"}
    BY KindsAre DEF IsEmitted, IsOutput, IsCall, OpaqueKinds
  <2> QED
    BY <1>3, <2>1
<1>5. ASSUME NEW j \in O
      PROVE  \E i \in C : i < j /\ CallPair(run[i]) = OutputPair(run[j])
  <2>1. \E i \in CallOf(run, j) : i < j
    BY DEF RunIsValid, OutputsCloseCalls, ProgramOutputsFollow
  <2> QED
    BY <2>1 DEF CallOf
<1>6. /\ \A i \in Searches(run) : \E j \in Found(run) : i < j
      /\ \A j \in Found(run) : \E i \in Searches(run) : i < j
  BY SearchesArePaired DEF RunIsValid
<1>7. \A i \in Searches(run), j \in Found(run) :
         CallPair(run[i]) = OutputPair(run[j]) /\ i \in 1 .. n /\ j \in 1 .. n /\ IsCall(run[i])
  <2>1. CallOutput["search"] = "search_output"
    BY DEF CallOutput
  <2> QED
    BY <1>1, <2>1, KindsAre DEF Searches, Found, IsAnonymousSearch, IsAnonymousFound, CallPair,
                                OutputPair, IsCall
<1>8. ASSUME NEW j \in 1 .. n, IsOutput(run[j])
      PROVE  \E i \in 1 .. j - 1 : IsCall(run[i]) /\ CallPair(run[i]) = OutputPair(run[j])
  <2>1. CASE j \in O
    <3>1. PICK i \in C : i < j /\ CallPair(run[i]) = OutputPair(run[j])
      BY <1>5, <2>1
    <3>2. i \in 1 .. j - 1 /\ IsCall(run[i])
      BY <1>1, <1>2, <3>1
    <3> QED
      BY <3>1, <3>2
  <2>2. CASE j \notin O
    <3>1. j \in Found(run)
      BY <1>1, <1>8, <2>2 DEF OutputsOf, Found
    <3>2. PICK i \in Searches(run) : i < j
      BY <1>6, <3>1
    <3>3. i \in 1 .. j - 1 /\ IsCall(run[i]) /\ CallPair(run[i]) = OutputPair(run[j])
      BY <1>1, <1>7, <3>1, <3>2
    <3> QED
      BY <3>3
  <2> QED
    BY <2>1, <2>2
<1>9. ASSUME NEW j \in 1 .. n, IsCall(run[j]), ~MayStayOpen(run[j])
      PROVE  \E k \in j + 1 .. n : CallPair(run[j]) = OutputPair(run[k])
  <2>1. CASE j \in C
    <3>1. ClosedBy(run, j) # {}
      BY <1>9, <2>1 DEF RunIsValid, CallsAreAnswered
    <3>2. PICK k \in O : OutputPair(run[k]) = CallPair(run[j])
      BY <3>1 DEF ClosedBy
    <3>3. PICK i \in C : i < k /\ CallPair(run[i]) = OutputPair(run[k])
      BY <1>5
    <3>4. i = j
      BY <1>2, <2>1, <3>2, <3>3
    <3>5. k \in j + 1 .. n
      BY <1>1, <3>3, <3>4
    <3> QED
      BY <3>2, <3>5
  <2>2. CASE j \notin C
    <3>1. j \in Searches(run)
      BY <1>1, <1>9, <2>2 DEF Calls, Searches
    <3>2. PICK k \in Found(run) : j < k
      BY <1>6, <3>1
    <3>3. k \in j + 1 .. n /\ CallPair(run[j]) = OutputPair(run[k])
      BY <1>1, <1>7, <3>1, <3>2
    <3> QED
      BY <3>3
  <2> QED
    BY <2>1, <2>2
<1>10. ASSUME NEW j \in 1 .. n, run[j].owner # Nobody
       PROVE  UnderAnOpenProgram(run, j)
  <2>1. PICK i \in Programs(run) : i < j /\ ProgramId(run[i]) = run[j].owner
    BY <1>1, <1>10 DEF RunIsValid, OwnersComeFirst
  <2>2. i \in C /\ run[i].kind = "program" /\ i \in 1 .. j - 1 /\ run[i].ids # {}
    BY <1>1, <1>2, <2>1 DEF Programs
  <2>3. run[i].ids = {run[j].owner}
    <3>1. PICK id : run[i].ids = {id}
      BY <1>1, <2>2, ItemsAssumption
    <3>2. ProgramId(run[i]) = id
      BY <3>1 DEF ProgramId
    <3> QED
      BY <2>1, <3>1, <3>2
  <2>4. ASSUME NEW k \in i + 1 .. j - 1, run[k].kind = "program_output",
               run[k].ids = run[i].ids, run[k].status = "completed"
        PROVE  FALSE
    <3>1. k \in 1 .. n /\ j \in k + 1 .. n /\ k \in DOMAIN run
      BY <1>1, <2>2
    <3>2. IsOutput(run[k]) /\ ~IsAnonymousFound(run[k])
      BY <2>2, <2>4, KindsAre DEF IsOutput, IsAnonymousFound
    <3>3. k \in O
      BY <3>1, <3>2 DEF OutputsOf
    <3>4. OutputPair(run[k]) = CallPair(run[i])
      <4>1. CallOutput["program"] = "program_output"
        BY DEF CallOutput
      <4> QED
        BY <2>2, <2>4, <4>1 DEF OutputPair, CallPair
    <3>5. k \in ClosedBy(run, i)
      BY <3>3, <3>4 DEF ClosedBy
    <3>6. ProgramId(run[i]) \notin {run[j].owner, InferredOwner(run, j)}
      BY <2>1, <2>4, <3>1, <3>5 DEF RunIsValid, NothingAfterCompletion
    <3> QED
      BY <2>1, <3>6
  <2> QED
    BY <2>2, <2>3, <2>4 DEF UnderAnOpenProgram
<1>11. ASSUME NEW j \in 1 .. n, run[j].kind = "reasoning"
       PROVE  j < n /\ (IsEmitted(run[j + 1]) \/ run[j + 1].kind = "reasoning")
  <2>1. PICK k \in j + 1 .. n : IsEmitted(run[k]) /\ \A l \in j + 1 .. k - 1 : run[l].kind = "reasoning"
    BY <1>1, <1>11 DEF RunIsValid, ReasoningIsFollowed
  <2>2. k = j + 1 \/ j + 1 \in j + 1 .. k - 1
    BY <1>1
  <2> QED
    BY <1>1, <2>1, <2>2
<1>12. \A j \in 1 .. n : Served(run, j)
  BY <1>4, <1>8, <1>9, <1>10, <1>11 DEF Served, IsTool
<1>13. run # <<>> => ~IsTool(run[1])
  BY <1>1, <1>4 DEF IsTool
<1> QED
  BY <1>12, <1>13, ServedIsWhole DEF Unbroken

(* A group that may be sent orphans nothing by itself.                      *)
LEMMA GroupIsWhole ==
  ASSUME NEW items \in Seq(Items), NEW i \in 1 .. Len(items),
         GroupIsSendable(items, i, GroupEnd(items, i))
  PROVE  Unbroken(Span(items, i, GroupEnd(items, i)))
<1> DEFINE n == Len(items)
           last == GroupEnd(items, i)
           g == Span(items, i, last)
<1>1. n \in Nat /\ i \in 1 .. n /\ last \in i .. n /\ items[i] \in Items
  BY GroupsEnd
<1>2. /\ g \in Seq(Items) /\ Len(g) = last - i + 1
      /\ \A k \in 1 .. last - i + 1 : g[k] = items[i + k - 1]
  <2> HIDE DEF last
  <2> QED
    BY <1>1, SubSeqProperties DEF Span
<1>3. g[1] = items[i] /\ g # <<>>
  <2> HIDE DEF last, g
  <2> QED
    BY <1>1, <1>2
<1>4. CASE IsProtocol(items[i])
  <2>1. RunIsValid(g)
    BY <1>4 DEF GroupIsSendable
  <2> HIDE DEF g
  <2> QED
    BY <1>2, <2>1, RunIsWhole DEF g
<1>5. CASE ~IsProtocol(items[i]) /\ items[i].kind = "calls"
  <2>1. last = Stretch(ToolReplies(items), i + 1)
    BY <1>5 DEF GroupEnd
  <2>2. RepliesMatch(items, i, last)
    BY <1>5 DEF GroupIsSendable
  <2> HIDE DEF last, g
  <2>3. ASSUME NEW k \in i + 1 .. last
        PROVE  IsTool(items[k])
    <3>1. k \in RepliesTo(items, i)
      BY <2>1 DEF RepliesTo
    <3>2. \A l \in i + 1 .. k : IsTool(items[l])
      BY <3>1, RepliesAre
    <3> QED
      BY <1>1, <3>2
  <2>4. \A k \in 2 .. Len(g) : g[k] = items[i + k - 1] /\ i + k - 1 \in i + 1 .. last
    BY <1>1, <1>2
  <2>5. \A k \in 2 .. Len(g) : IsTool(g[k])
    BY <2>3, <2>4
  <2>6. \A k \in i + 1 .. last : k - i + 1 \in 2 .. Len(g) /\ g[k - i + 1] = items[k]
    BY <1>1, <1>2
  <2>7. UNION {g[k].ids : k \in 2 .. Len(g)} = UNION {items[k].ids : k \in i + 1 .. last}
    BY <2>4, <2>6
  <2>8. UNION {g[k].ids : k \in 2 .. Len(g)} = g[1].ids
    BY <1>3, <2>2, <2>7 DEF RepliesMatch
  <2>9. g[1].kind = "calls"
    BY <1>3, <1>5
  <2> QED
    BY <1>2, <1>3, <2>5, <2>8, <2>9, ChatGroupIsWhole DEF g, last
<1>6. CASE ~IsProtocol(items[i]) /\ ~(items[i].kind = "calls")
  <2>1. last = i
    BY <1>6 DEF GroupEnd
  <2>2. ~IsTool(items[i])
    BY <1>6 DEF GroupIsSendable
  <2>3. IsPlain(items[i]) /\ items[i].kind \notin {"calls", "tool"}
    BY <1>6, <2>2 DEF IsProtocol, IsEmitted, IsPlain, IsTool
  <2>4. g = <<items[i]>>
    <3> HIDE DEF last, g
    <3> QED
      BY <1>1, <1>2, <1>3, <2>1
  <2>5. Unbroken(<<items[i]>>)
    BY <1>1, <2>3, SingleIsWhole
  <2> QED
    BY <2>4, <2>5
<1> QED
  BY <1>4, <1>5, <1>6

\* The outputs a final input starts with.
Leading(tail) ==
  IF tail # <<>> /\ IsTool(tail[1])
  THEN Span(tail, 1, LeadingTools(tail)) ELSE Span(tail, 1, LeadingOutputs(tail))

(* Tool replies, and outputs, lead a final input as far as they go.         *)
LEMMA LeadingAre ==
  ASSUME NEW tail \in Seq(Items)
  PROVE  /\ LeadingTools(tail) \in 0 .. Len(tail)
         /\ \A k \in 1 .. LeadingTools(tail) : IsTool(tail[k])
         /\ LeadingOutputs(tail) \in 0 .. Len(tail)
         /\ \A k \in 1 .. LeadingOutputs(tail) : IsOutput(tail[k])
         /\ \A k \in 0 .. Len(tail) :
               /\ Span(tail, 1, k) \in Seq(Items) /\ Len(Span(tail, 1, k)) = k
               /\ \A i \in 1 .. k : Span(tail, 1, k)[i] = tail[i]
<1> DEFINE n == Len(tail)
           T == ToolReplies(tail)
           P == {k \in DOMAIN tail : IsOutput(tail[k])}
<1>1. n \in Nat /\ T \subseteq 1 .. n /\ P \subseteq 1 .. n /\ 1 \in 1 .. n + 1
  BY DEF ToolReplies
<1>2. ASSUME NEW R, R \subseteq 1 .. n
      PROVE  Stretch(R, 1) \in 0 .. n /\ \A k \in 1 .. Stretch(R, 1) : k \in R
  <2> HIDE DEF n
  <2>1. Stretch(R, 1) \in 1 - 1 .. n
    BY <1>1, <1>2, StretchEnds, Zenon
  <2>2. \A k \in 1 .. n : k <= Stretch(R, 1) <=> 1 .. k \subseteq R
    BY <1>1, <1>2, StretchReaches
  <2> DEFINE m == Stretch(R, 1)
  <2> HIDE DEF m
  <2>3. m \in 0 .. n
    BY <2>1 DEF m
  <2>4. ASSUME NEW k \in 1 .. m
        PROVE  k \in R
    <3>1. k \in 1 .. n /\ k <= m /\ k \in 1 .. k
      BY <1>1, <2>3
    <3>2. 1 .. k \subseteq R
      BY <2>2, <3>1 DEF m
    <3> QED
      BY <3>1, <3>2
  <2> QED
    BY <2>3, <2>4 DEF m
<1>3. LeadingTools(tail) \in 0 .. n /\ \A k \in 1 .. LeadingTools(tail) : k \in T
  BY <1>1, <1>2 DEF LeadingTools
<1>4. LeadingOutputs(tail) \in 0 .. n /\ \A k \in 1 .. LeadingOutputs(tail) : k \in P
  BY <1>1, <1>2 DEF LeadingOutputs
<1>5. ASSUME NEW k \in 0 .. n
      PROVE  /\ Span(tail, 1, k) \in Seq(Items) /\ Len(Span(tail, 1, k)) = k
             /\ \A i \in 1 .. k : Span(tail, 1, k)[i] = tail[i]
  BY <1>1, SubSeqProperties DEF Span
<1> QED
  BY <1>3, <1>4, <1>5 DEF ToolReplies

(* The reserved end of a history starts within it.                          *)
LEMMA DependencyStarts ==
  ASSUME NEW items \in Seq(Items), NEW tail \in Seq(Items)
  PROVE  /\ HistoryDependency(items, tail).start \in Nat
         /\ HistoryDependency(items, tail).valid =>
               HistoryDependency(items, tail).start \in 1 .. Len(items) + 1
<1> DEFINE n == Len(items)
           set == {0} \cup {i \in DOMAIN items : ~IsProtocol(items[i])}
           start == TailStart(items)
<1>1. n \in Nat /\ set \subseteq 0 .. n /\ set # {}
  OBVIOUS
<1>2. Max(set) \in 0 .. n
  <2> HIDE DEF set, n
  <2>1. Max(set) \in set
    BY <1>1, MaxIsIn
  <2> QED
    BY <1>1, <2>1
<1>3. start = 1 + Max(set)
  BY DEF TailStart
<1> HIDE DEF set
<1>4. start \in 1 .. n + 1
  BY <1>1, <1>2, <1>3
<1> HIDE DEF start
<1>5. CASE tail = <<>>
  BY <1>1, <1>5 DEF HistoryDependency
<1>6. CASE tail # <<>> /\ IsTool(tail[1])
  BY <1>1, <1>6 DEF HistoryDependency
<1>7. CASE tail # <<>> /\ ~IsTool(tail[1]) /\ IsOutput(tail[1])
  <2>1. HistoryDependency(items, tail).start = start
    BY <1>7 DEF HistoryDependency, start
  <2> QED
    BY <1>1, <1>4, <2>1
<1>8. CASE tail # <<>> /\ ~IsTool(tail[1]) /\ ~IsOutput(tail[1])
  BY <1>1, <1>8 DEF HistoryDependency
<1> QED
  BY <1>5, <1>6, <1>7, <1>8

(* Where the items of two lists are in the two together.                    *)
LEMMA JoinedPlaces ==
  ASSUME NEW S, NEW s \in Seq(S), NEW u \in Seq(S)
  PROVE  /\ s \o u \in Seq(S) /\ Len(s \o u) = Len(s) + Len(u)
         /\ \A i \in 1 .. Len(s) : (s \o u)[i] = s[i]
         /\ \A i \in 1 .. Len(u) : (s \o u)[Len(s) + i] = u[i]
  OBVIOUS

(* What a valid dependency reserves orphans nothing together with the       *)
(* outputs the final input starts with.                                     *)
LEMMA DependencyIsWhole ==
  ASSUME NEW items \in Seq(Items), NEW tail \in Seq(Items),
         HistoryDependency(items, tail).valid
  PROVE  Unbroken(Span(items, HistoryDependency(items, tail).start, Len(items)) \o Leading(tail))
<1> DEFINE n == Len(items)
           d == HistoryDependency(items, tail)
           dep == Span(items, d.start, n)
           tools == LeadingTools(tail)
           outputs == LeadingOutputs(tail)
<1>1. n \in Nat /\ d.start \in 1 .. n + 1
  BY DependencyStarts
<1>2. /\ dep \in Seq(Items) /\ Len(dep) = n - d.start + 1
      /\ \A i \in 1 .. n - d.start + 1 : dep[i] = items[d.start + i - 1]
  <2> HIDE DEF d
  <2> QED
    BY <1>1, SubSeqProperties DEF Span
<1>3. /\ tools \in 0 .. Len(tail) /\ \A k \in 1 .. tools : IsTool(tail[k])
      /\ outputs \in 0 .. Len(tail) /\ \A k \in 1 .. outputs : IsOutput(tail[k])
      /\ \A k \in 0 .. Len(tail) :
            /\ Span(tail, 1, k) \in Seq(Items) /\ Len(Span(tail, 1, k)) = k
            /\ \A i \in 1 .. k : Span(tail, 1, k)[i] = tail[i]
  BY LeadingAre
<1>4. CASE tail # <<>> /\ IsTool(tail[1])
  <2>1. /\ d.start = n /\ n > 0 /\ items[n].kind = "calls"
        /\ UNION {tail[j].ids : j \in 1 .. tools} = items[n].ids
    BY <1>4 DEF HistoryDependency
  <2> DEFINE g == dep \o Span(tail, 1, tools)
  <2>2. Leading(tail) = Span(tail, 1, tools)
    BY <1>4 DEF Leading
  <2> HIDE DEF d, tools, dep
  <2>3. Len(dep) = 1 /\ dep[1] = items[n]
    BY <1>1, <1>2, <2>1
  <2>4. /\ g \in Seq(Items) /\ Len(g) = tools + 1 /\ g[1] = items[n]
        /\ \A k \in 1 .. tools : g[k + 1] = tail[k]
    <3> DEFINE u == Span(tail, 1, tools)
    <3>1. u \in Seq(Items) /\ Len(u) = tools /\ \A i \in 1 .. tools : u[i] = tail[i]
      BY <1>3
    <3> HIDE DEF u
    <3>3. tools \in Nat
      BY <1>3
    <3>2. dep \o u \in Seq(Items) /\ Len(dep \o u) = 1 + tools /\ (dep \o u)[1] = dep[1]
          /\ \A k \in 1 .. tools : (dep \o u)[k + 1] = u[k]
      <4>1. dep \in Seq(Items)
        BY <1>2
      <4>2. u \in Seq(Items)
        BY <3>1
      <4> DEFINE c == dep \o u
                 a == Len(dep)
                 b == Len(u)
      <4>3. /\ c \in Seq(Items) /\ Len(c) = a + b
            /\ \A i \in 1 .. a : c[i] = dep[i]
            /\ \A i \in 1 .. b : c[a + i] = u[i]
        BY <4>1, <4>2, JoinedPlaces
      <4>4. a = 1 /\ b = tools
        BY <2>3, <3>1
      <4> HIDE DEF a, b, c
      <4>5. \A k \in 1 .. tools : 1 + k = k + 1
        BY <3>3
      <4> QED
        BY <4>3, <4>4, <4>5, <3>3 DEF c
    <3> QED
      BY <1>3, <2>3, <3>1, <3>2 DEF u
  <2> HIDE DEF g
  <2>5. \A k \in 2 .. Len(g) : k - 1 \in 1 .. tools /\ g[k] = tail[k - 1]
    BY <1>3, <2>4
  <2>6. \A k \in 2 .. Len(g) : IsTool(g[k])
    BY <1>3, <2>5
  <2>7. \A k \in 1 .. tools : k + 1 \in 2 .. Len(g) /\ g[k + 1] = tail[k]
    BY <1>3, <2>4
  <2>8. UNION {g[k].ids : k \in 2 .. Len(g)} = UNION {tail[j].ids : j \in 1 .. tools}
    <3>1. \A k \in 2 .. Len(g) : \E j \in 1 .. tools : g[k].ids = tail[j].ids
      BY <2>5
    <3>2. \A j \in 1 .. tools : \E k \in 2 .. Len(g) : g[k].ids = tail[j].ids
      BY <2>7
    <3> DEFINE D == 2 .. Len(g)
               E == 1 .. tools
               a(k) == g[k].ids
               b(j) == tail[j].ids
    <3>4. (\A k \in D : \E j \in E : a(k) = b(j)) /\ (\A j \in E : \E k \in D : a(k) = b(j))
      BY <3>1, <3>2
    <3> HIDE DEF D, E, a, b
    <3>5. {a(k) : k \in D} = {b(j) : j \in E}
      BY <3>4
    <3>3. {g[k].ids : k \in 2 .. Len(g)} = {tail[j].ids : j \in 1 .. tools}
      BY <3>5 DEF D, E, a, b
    <3> QED
      BY <3>3
  <2>11. g # <<>> /\ g[1].kind = "calls"
    BY <1>3, <2>1, <2>4
  <2>9. g # <<>> /\ g[1].kind = "calls" /\ UNION {g[k].ids : k \in 2 .. Len(g)} = g[1].ids
    BY <2>1, <2>4, <2>8, <2>11, Zenon
  <2>10. Unbroken(g)
    BY <2>4, <2>6, <2>9, ChatGroupIsWhole
  <2> QED
    BY <2>2, <2>10 DEF g, dep, d
<1>5. CASE tail # <<>> /\ ~IsTool(tail[1]) /\ IsOutput(tail[1])
  <2>1. RunIsValid(dep \o Span(tail, 1, outputs))
    BY <1>5 DEF HistoryDependency
  <2>2. Leading(tail) = Span(tail, 1, outputs)
    BY <1>5 DEF Leading
  <2>3. Span(tail, 1, outputs) \in Seq(Items)
    BY <1>3
  <2> HIDE DEF dep, outputs
  <2>4. dep \o Span(tail, 1, outputs) \in Seq(Items)
    BY <1>2, <2>3
  <2> QED
    BY <2>1, <2>2, <2>4, RunIsWhole DEF dep, d
<1>6. CASE tail = <<>> \/ (~IsTool(tail[1]) /\ ~IsOutput(tail[1]))
  <2>1. d.start = n + 1
    BY <1>6 DEF HistoryDependency
  <2>2. outputs = 0
    <3>1. tail = <<>> => Len(tail) = 0
      OBVIOUS
    <3> HIDE DEF outputs
    <3> QED
      BY <1>3, <1>6, <3>1
  <2>3. Leading(tail) = Span(tail, 1, 0)
    BY <1>6, <2>2 DEF Leading
  <2>4. Leading(tail) \in Seq(Items) /\ Len(Leading(tail)) = 0
    BY <1>3, <2>3
  <2> HIDE DEF d, dep
  <2>5. dep \in Seq(Items) /\ Len(dep) = 0
    BY <1>1, <1>2, <2>1
  <2>6. dep = <<>> /\ Leading(tail) = <<>>
    BY <2>4, <2>5
  <2>7. dep \o Leading(tail) = <<>>
    BY <2>6
  <2> QED
    BY <2>7, NothingIsWhole DEF dep, d
<1> QED
  BY <1>4, <1>5, <1>6

(***************************************************************************)
(* The groups that are kept.                                               *)
(***************************************************************************)
(* What the selection has taken so far costs what it says, fits and orphans *)
(* nothing.                                                                 *)
Keeping(room) ==
  {acc \in [spent : Nat, kept : Seq(Items), decisions : Seq(Decided)] :
      /\ acc.spent = 0 \/ acc.spent <= room
      /\ acc.spent = CountAll(acc.kept)
      /\ SumOfCosts(acc.decisions) = acc.spent
      /\ Unbroken(acc.kept)}

(* No message costs nothing.                                                *)
LEMMA CountAllOfNothing == CountAll(<<>>) = 0
<1>1. <<>> \in Seq(Items) /\ Counts(<<>>) = <<>>
  BY DEF Counts
<1> QED
  BY <1>1, CountAllIsTotal, TotalOfNothing

(* No decision claims nothing.                                              *)
LEMMA SumOfNoCosts == SumOfCosts(<<>>) = 0
<1>1. <<>> \in Seq(Decided) /\ Costs(<<>>) = <<>>
  BY DEF Costs
<1> QED
  BY <1>1, SumOfCostsIsTotal, TotalOfNothing

(* A stretch of a list is a list.                                           *)
LEMMA SpansAreItems ==
  ASSUME NEW S, NEW items \in Seq(S), NEW first \in 1 .. Len(items) + 1,
         NEW last \in first - 1 .. Len(items)
  PROVE  Span(items, first, last) \in Seq(S)
  BY SubSeqProperties DEF Span

(* Taking or passing over one more group keeps the account.                 *)
LEMMA KeepGroupStays ==
  ASSUME NEW items \in Seq(Items), NEW room \in Int, NEW acc \in Keeping(room),
         NEW group \in GroupsOf(items)
  PROVE  KeepGroup(items, room, acc, group) \in Keeping(room)
<1> DEFINE span == Span(items, group.first, group.last)
           cost == CountAll(span)
           D(verdict, c) == Decision("history", group.first .. group.last, verdict, c)
<1>1. group.first \in 1 .. Len(items) /\ group.last \in group.first .. Len(items)
  <2>1. PICK i \in 1 .. Len(items) : group = GroupAt(items, i)
    BY DEF GroupsOf
  <2>2. GroupEnd(items, i) \in i .. Len(items)
    BY GroupsEnd
  <2> QED
    BY <2>1, <2>2 DEF GroupAt
<1>2. span \in Seq(Items)
  <2> DEFINE first == group.first
             last == group.last
  <2>1. first \in 1 .. Len(items) + 1 /\ last \in first - 1 .. Len(items)
    BY <1>1
  <2> HIDE DEF first, last
  <2>2. Span(items, first, last) \in Seq(Items)
    BY <2>1, SpansAreItems
  <2> QED
    BY <2>2 DEF first, last
<1>3. cost \in Nat
  BY <1>2, CountAllIsNat
<1>4. \A c \in Nat : D("excluded", c) \in Decided /\ D("included", c) \in Decided
  <2>1. group.first .. group.last \in SUBSET Int
    BY <1>1
  <2> QED
    BY <2>1 DEF Decided, Decision, Sources, Sections, Verdicts
<1>5. /\ acc.spent \in Nat /\ acc.kept \in Seq(Items) /\ acc.decisions \in Seq(Decided)
      /\ acc.spent = 0 \/ acc.spent <= room
      /\ acc.spent = CountAll(acc.kept) /\ SumOfCosts(acc.decisions) = acc.spent
      /\ Unbroken(acc.kept)
      /\ acc = [spent |-> acc.spent, kept |-> acc.kept, decisions |-> acc.decisions]
  BY DEF Keeping
<1> DEFINE out == ~group.sendable \/ acc.spent + cost > room
           left == Append(acc.decisions, D("excluded", 0))
           taken == Append(acc.decisions, D("included", cost))
<1>6. left \in Seq(Decided) /\ SumOfCosts(left) = acc.spent
  <2>1. D("excluded", 0).cost = 0
    BY DEF Decision
  <2> HIDE DEF D
  <2>2. D("excluded", 0) \in Decided
    BY <1>4
  <2>3. SumOfCosts(left) = SumOfCosts(acc.decisions) + D("excluded", 0).cost
    BY <1>5, <2>2, SumOfCostsAppended
  <2> QED
    BY <1>5, <2>1, <2>2, <2>3
<1>7. taken \in Seq(Decided) /\ SumOfCosts(taken) = acc.spent + cost
  <2>1. D("included", cost).cost = cost
    BY DEF Decision
  <2> HIDE DEF D, cost
  <2>2. D("included", cost) \in Decided
    BY <1>3, <1>4
  <2>3. SumOfCosts(taken) = SumOfCosts(acc.decisions) + D("included", cost).cost
    BY <1>5, <2>2, SumOfCostsAppended
  <2> QED
    BY <1>5, <2>1, <2>2, <2>3
<1>8. span \o acc.kept \in Seq(Items) /\ CountAll(span \o acc.kept) = cost + acc.spent
  BY <1>2, <1>5, CountAllOfJoined, ConcatProperties
<1>12. group.sendable => Unbroken(span \o acc.kept)
  <2>1. PICK i \in 1 .. Len(items) : group = GroupAt(items, i)
    BY DEF GroupsOf
  <2>2. /\ group.first = i /\ group.last = GroupEnd(items, i)
        /\ group.sendable = GroupIsSendable(items, i, GroupEnd(items, i))
    BY <2>1 DEF GroupAt
  <2>3. group.sendable => Unbroken(span)
    BY <2>2, GroupIsWhole
  <2> HIDE DEF span
  <2> QED
    BY <1>2, <1>5, <2>3, UnbrokenJoined
<1> DEFINE next == KeepGroup(items, room, acc, group)
<1>9. next = IF out THEN [acc EXCEPT !.decisions = left]
             ELSE [spent |-> acc.spent + cost, kept |-> span \o acc.kept, decisions |-> taken]
  BY DEF KeepGroup
<1> HIDE DEF next, left, taken, span, cost
<1>10. CASE out
  <2>1. next = [spent |-> acc.spent, kept |-> acc.kept, decisions |-> left]
    BY <1>5, <1>9, <1>10
  <2> QED
    BY <1>5, <1>6, <2>1 DEF Keeping, next
<1>11. CASE ~out
  <2>1. next = [spent |-> acc.spent + cost, kept |-> span \o acc.kept, decisions |-> taken]
    BY <1>9, <1>11
  <2>2. acc.spent + cost \in Nat /\ acc.spent + cost <= room /\ acc.spent + cost = cost + acc.spent
    BY <1>3, <1>5, <1>11
  <2> DEFINE x == acc.spent + cost
             y == span \o acc.kept
  <2>3. /\ x \in Nat /\ x <= room /\ y \in Seq(Items) /\ taken \in Seq(Decided)
        /\ x = CountAll(y) /\ SumOfCosts(taken) = x /\ Unbroken(y)
    BY <1>7, <1>8, <1>11, <1>12, <2>2
  <2>4. next = [spent |-> x, kept |-> y, decisions |-> taken]
    BY <2>1
  <2> HIDE DEF x, y
  <2>5. next \in Keeping(room)
    BY <2>3, <2>4 DEF Keeping
  <2> QED
    BY <2>5 DEF next
<1> QED
  BY <1>10, <1>11

(* The selection goes over the groups one by one, from the newest.          *)
Selects(iter, items, room, r) ==
  /\ iter[{}] = [spent |-> 0, kept |-> <<>>, decisions |-> <<>>]
  /\ \A k \in 1 .. Len(r) : iter[1 .. k] = KeepGroup(items, room, iter[1 .. k - 1], r[k])
  /\ \A k \in 0 .. Len(r) : iter[1 .. k] \in Keeping(room)

(* So it does, and keeps the account on the way.                            *)
LEMMA SelectionFolds ==
  ASSUME NEW items \in Seq(Items), NEW room \in Int
  PROVE  LET r == Reverse(HistoryGroups(items))
         IN \E iter : /\ Selects(iter, items, room, r)
                      /\ SelectHistory(items, room) = iter[1 .. Len(r)]
<1> DEFINE r == Reverse(HistoryGroups(items))
           n == Len(r)
           base == [spent |-> 0, kept |-> <<>>, decisions |-> <<>>]
           A == Keeping(room)
           Step == [p \in (1 .. n) \X A |-> KeepGroup(items, room, p[2], r[p[1]])]
           Rec(g) == g = [s \in SUBSET DOMAIN r |->
                             IF s = {} THEN base
                             ELSE KeepGroup(items, room, g[s \ {Max(s)}], r[Max(s)])]
           iter == CHOOSE g : Rec(g)
<1>1. SelectHistory(items, room) = iter[DOMAIN r]
  BY DEF SelectHistory, FoldLeft, MapThenFoldSet
<1>2. r \in Seq(GroupsOf(items)) /\ n \in Nat /\ DOMAIN r = 1 .. n
  <2>1. HistoryGroups(items) \in Seq(GroupsOf(items))
    BY HistoryIsGrouped
  <2> HIDE DEF n
  <2>2. r \in Seq(GroupsOf(items))
    BY <2>1 DEF Reverse
  <2> HIDE DEF r
  <2> QED
    BY <2>2 DEF n
<1>3. base \in A
  BY CountAllOfNothing, SumOfNoCosts, NothingIsWhole DEF Keeping
<1> HIDE DEF r, n, base, A
<1>4. ASSUME NEW k \in 1 .. n, NEW acc \in A
      PROVE  KeepGroup(items, room, acc, r[k]) \in A
  <2>1. r[k] \in GroupsOf(items)
    BY <1>2
  <2> QED
    BY <2>1, KeepGroupStays DEF A
<1>5. Step \in [(1 .. n) \X A -> A]
  BY <1>4
<1>6. \A k \in 1 .. n, acc \in A : Step[<<k, acc>>] = KeepGroup(items, room, acc, r[k])
  OBVIOUS
<1> HIDE DEF Step
<1>7. PICK f : Recurs(f, n, A, base, Step)
  BY <1>2, <1>3, <1>5, FoldsExist
<1>8. ASSUME NEW s \in SUBSET (1 .. n), s # {}
      PROVE  Max(s) \in 1 .. n
  <2>1. s \subseteq 0 .. n
    OBVIOUS
  <2>2. Max(s) \in s
    BY <1>2, <1>8, <2>1, MaxIsIn, Zenon
  <2> QED
    BY <2>2
<1>9. Rec(f)
  <2>1. ASSUME NEW s \in SUBSET (1 .. n), s # {}
        PROVE  f[s] = KeepGroup(items, room, f[s \ {Max(s)}], r[Max(s)])
    <3>1. f[s] = Step[<<Max(s), f[s \ {Max(s)}]>>] /\ f[s \ {Max(s)}] \in A
      BY <1>7, <2>1 DEF Recurs
    <3> QED
      BY <1>6, <1>8, <2>1, <3>1
  <2> QED
    BY <1>2, <1>7, <2>1 DEF Recurs
<1>10. Rec(iter)
  BY <1>9
<1> HIDE DEF iter
<1>11. iter[{}] = base
  BY <1>10
<1>12. ASSUME NEW k \in 1 .. n
       PROVE  iter[1 .. k] = KeepGroup(items, room, iter[1 .. k - 1], r[k])
  <2>1. /\ 1 .. k # {} /\ 1 .. k \in SUBSET (1 .. n)
        /\ Max(1 .. k) = k /\ (1 .. k) \ {k} = 1 .. k - 1
    BY <1>2, GoingForward
  <2>2. \A s \in SUBSET (1 .. n) :
           s # {} => iter[s] = KeepGroup(items, room, iter[s \ {Max(s)}], r[Max(s)])
    BY <1>2, <1>10
  <2>3. iter[1 .. k] = KeepGroup(items, room, iter[(1 .. k) \ {Max(1 .. k)}], r[Max(1 .. k)])
    BY <2>1, <2>2, Zenon
  <2> QED
    BY <2>1, <2>3, Zenon
<1>13. ASSUME NEW m \in 0 .. n
       PROVE  iter[1 .. m] \in A
  <2>1. \A k \in 1 .. m : iter[1 .. k - 1] \in A => iter[1 .. k] \in A
    <3>1. 1 .. m \subseteq 1 .. n
      BY <1>2
    <3> QED
      BY <1>4, <1>12, <3>1
  <2>2. m \in Nat
    BY <1>2
  <2> QED
    BY <1>3, <1>11, <2>1, <2>2, ChainStays
<1>14. Selects(iter, items, room, r)
  BY <1>11, <1>12, <1>13 DEF Selects, base, n, A
<1>15. SelectHistory(items, room) = iter[1 .. n]
  BY <1>1, <1>2
<1> QED
  BY <1>14, <1>15 DEF n, r

(* The history selected fits its room and orphans nothing, and its          *)
(* decisions account for it.                                                *)
LEMMA SelectionFits ==
  ASSUME NEW items \in Seq(Items), NEW room \in Int
  PROVE  SelectHistory(items, room) \in Keeping(room)
<1> DEFINE r == Reverse(HistoryGroups(items))
<1>1. PICK iter : Selects(iter, items, room, r) /\ SelectHistory(items, room) = iter[1 .. Len(r)]
  BY SelectionFolds
<1>2. Len(r) \in 0 .. Len(r)
  <2>1. HistoryGroups(items) \in Seq(GroupsOf(items))
    BY HistoryIsGrouped
  <2> QED
    BY <2>1 DEF Reverse
<1> QED
  BY <1>1, <1>2 DEF Selects

\* No decision is about the history.
Silent(ds) == \A k \in 1 .. Len(ds) : ds[k].source # "history"

(* Lists that say nothing of the history say nothing of it together.        *)
LEMMA SilentJoined ==
  ASSUME NEW ds \in Seq(Decided), NEW es \in Seq(Decided), Silent(ds), Silent(es)
  PROVE  Silent(ds \o es)
<1>1. ASSUME NEW k \in 1 .. Len(ds \o es)
      PROVE  (ds \o es)[k].source # "history"
  <2>1. /\ k \in 1 .. Len(ds) + Len(es) /\ Len(ds) \in Nat /\ Len(es) \in Nat
        /\ (ds \o es)[k] = IF k <= Len(ds) THEN ds[k] ELSE es[k - Len(ds)]
    BY ConcatProperties
  <2>2. CASE k <= Len(ds)
    <3>1. k \in 1 .. Len(ds)
      BY <2>1, <2>2
    <3> QED
      BY <2>1, <2>2, <3>1 DEF Silent
  <2>3. CASE ~(k <= Len(ds))
    <3>1. k - Len(ds) \in 1 .. Len(es)
      BY <2>1, <2>3
    <3> QED
      BY <2>1, <2>3, <3>1 DEF Silent
  <2> QED
    BY <2>2, <2>3
<1> QED
  BY <1>1 DEF Silent

(* Nor does one more decision about something else.                         *)
LEMMA SilentAppended ==
  ASSUME NEW ds \in Seq(Decided), NEW d \in Decided, Silent(ds), d.source # "history"
  PROVE  Silent(Append(ds, d))
<1>1. <<d>> \in Seq(Decided) /\ Silent(<<d>>)
  BY DEF Silent
<1>2. Append(ds, d) = ds \o <<d>>
  BY AppendIsConcat
<1> QED
  BY <1>1, <1>2, SilentJoined

(***************************************************************************)
(* The binary search for the longest cut that fits.                        *)
(***************************************************************************)
Bounds(w) == (0 .. w) \X (0 .. w)
Mid(b) == (b[1] + b[2] + 1) \div 2
Narrowed(b, F) == IF Mid(b) \in F THEN <<Mid(b), b[2]>> ELSE <<b[1], Mid(b) - 1>>
Bisects(f, w, F) ==
  f = [b \in Bounds(w) |-> IF b[1] >= b[2] THEN b[1] ELSE f[Narrowed(b, F)]]

(* The middle of two bounds lies above the lower one.                       *)
LEMMA MidIsBetween ==
  ASSUME NEW w \in Nat, NEW b \in Bounds(w), ~(b[1] >= b[2])
  PROVE  Mid(b) \in b[1] + 1 .. b[2]
  BY DEF Bounds, Mid

(* Each step of the search narrows its bounds.                              *)
LEMMA BoundsNarrow ==
  ASSUME NEW w \in Nat, NEW b \in Bounds(w), ~(b[1] >= b[2]), NEW F
  PROVE  /\ Narrowed(b, F) \in Bounds(w)
         /\ Narrowed(b, F)[1] <= Narrowed(b, F)[2]
         /\ Narrowed(b, F)[2] - Narrowed(b, F)[1] < b[2] - b[1]
<1>1. Mid(b) \in b[1] + 1 .. b[2] /\ b[1] \in 0 .. w /\ b[2] \in 0 .. w
  BY MidIsBetween DEF Bounds
<1>2. CASE Mid(b) \in F
  <2>1. Narrowed(b, F) = <<Mid(b), b[2]>>
    BY <1>2 DEF Narrowed
  <2> QED
    BY <1>1, <2>1 DEF Bounds
<1>3. CASE Mid(b) \notin F
  <2>1. Narrowed(b, F) = <<b[1], Mid(b) - 1>>
    BY <1>3 DEF Narrowed
  <2> QED
    BY <1>1, <2>1 DEF Bounds
<1> QED
  BY <1>2, <1>3

(* The recursion of the search has a solution: it ends.                     *)
LEMMA BisectionExists ==
  ASSUME NEW w \in Nat, NEW F
  PROVE  \E f : Bisects(f, w, F)
<1> DEFINE Level(k) == {b \in Bounds(w) : b[2] - b[1] <= k}
           Rec(f, k) == f = [b \in Level(k) |-> IF b[1] >= b[2] THEN b[1] ELSE f[Narrowed(b, F)]]
           K == {k \in Nat : \E f : Rec(f, k)}
<1>0. \A b \in Bounds(w) : b[1] \in 0 .. w /\ b[2] \in 0 .. w
  BY DEF Bounds
<1>1. 0 \in K
  <2>1. \A b \in Level(0) : b[1] >= b[2]
    BY <1>0
  <2> DEFINE f == [b \in Level(0) |-> b[1]]
  <2>2. Rec(f, 0)
    BY <2>1
  <2> QED
    BY <2>2
<1>2. ASSUME NEW k \in Nat, k \in K
      PROVE  k + 1 \in K
  <2>1. PICK f : Rec(f, k)
    BY <1>2
  <2> DEFINE h == [b \in Level(k + 1) |-> IF b[1] >= b[2] THEN b[1] ELSE f[Narrowed(b, F)]]
  <2>2. ASSUME NEW b \in Level(k + 1), ~(b[1] >= b[2])
        PROVE  Narrowed(b, F) \in Level(k)
    <3>1. /\ Narrowed(b, F) \in Bounds(w)
          /\ Narrowed(b, F)[2] - Narrowed(b, F)[1] < b[2] - b[1]
      BY <2>2, BoundsNarrow
    <3> DEFINE c == Narrowed(b, F)
    <3>2. c[1] \in 0 .. w /\ c[2] \in 0 .. w /\ b[1] \in 0 .. w /\ b[2] \in 0 .. w
      BY <1>0, <3>1
    <3>3. b[2] - b[1] <= k + 1
      OBVIOUS
    <3> HIDE DEF c
    <3>4. c[2] - c[1] <= k
      BY <3>1, <3>2, <3>3 DEF c
    <3> QED
      BY <3>1, <3>4 DEF c
  <2>3. Level(k) \subseteq Level(k + 1)
    BY <1>0
  <2> HIDE DEF Level
  <2>4. ASSUME NEW b \in Level(k)
        PROVE  h[b] = f[b]
    BY <2>1, <2>3, <2>4
  <2>5. ASSUME NEW b \in Level(k + 1)
        PROVE  h[b] = IF b[1] >= b[2] THEN b[1] ELSE h[Narrowed(b, F)]
    <3>1. ~(b[1] >= b[2]) => h[Narrowed(b, F)] = f[Narrowed(b, F)]
      BY <2>2, <2>4
    <3> QED
      BY <3>1
  <2>6. Rec(h, k + 1)
    BY <2>5
  <2>7. k + 1 \in Nat
    OBVIOUS
  <2> HIDE DEF h, Rec
  <2>8. \E g : Rec(g, k + 1)
    BY <2>6, Zenon
  <2> QED
    BY <2>7, <2>8, Zenon
<1> HIDE DEF K
<1>3. w \in K
  BY <1>1, <1>2, Inductive
<1>4. PICK f : Rec(f, w)
  BY <1>3 DEF K
<1>5. Level(w) = Bounds(w)
  BY <1>0
<1> QED
  BY <1>4, <1>5 DEF Bisects

(* The search ends where the bound itself fits, or is the lower one, and    *)
(* one word more does not fit, or is more than there is.                    *)
LEMMA BisectionFinds ==
  ASSUME NEW w \in Nat, NEW F, NEW f, Bisects(f, w, F)
  PROVE  \A b \in Bounds(w) : b[1] <= b[2] =>
            /\ f[b] \in b[1] .. b[2]
            /\ f[b] = b[1] \/ f[b] \in F
            /\ f[b] = b[2] \/ f[b] + 1 \notin F
<1> DEFINE Good(b) == /\ f[b] \in b[1] .. b[2]
                      /\ f[b] = b[1] \/ f[b] \in F
                      /\ f[b] = b[2] \/ f[b] + 1 \notin F
           K == {k \in Nat : \A b \in Bounds(w) : b[1] <= b[2] /\ b[2] - b[1] <= k => Good(b)}
<1>0. \A b \in Bounds(w) : b[1] \in 0 .. w /\ b[2] \in 0 .. w
  BY DEF Bounds
<1>1. \A b \in Bounds(w) : f[b] = IF b[1] >= b[2] THEN b[1] ELSE f[Narrowed(b, F)]
  BY DEF Bisects
<1>2. ASSUME NEW b \in Bounds(w), b[1] <= b[2], b[1] >= b[2]
      PROVE  Good(b)
  BY <1>0, <1>1, <1>2
<1>3. 0 \in K
  <2>1. ASSUME NEW b \in Bounds(w), b[1] <= b[2], b[2] - b[1] <= 0
        PROVE  Good(b)
    <3>1. b[1] >= b[2]
      BY <1>0, <2>1
    <3> HIDE DEF Good
    <3> QED
      BY <1>2, <2>1, <3>1
  <2> QED
    BY <2>1
<1>4. ASSUME NEW k \in Nat, k \in K
      PROVE  k + 1 \in K
  <2>1. ASSUME NEW b \in Bounds(w), b[1] <= b[2], b[2] - b[1] <= k + 1, ~(b[1] >= b[2])
        PROVE  Good(b)
    <3> DEFINE c == Narrowed(b, F)
               m == Mid(b)
    <3>1. c \in Bounds(w) /\ c[1] <= c[2] /\ c[2] - c[1] < b[2] - b[1]
      BY <2>1, BoundsNarrow
    <3>2. m \in b[1] + 1 .. b[2]
      BY <2>1, MidIsBetween
    <3>3. f[b] = f[c]
      BY <1>1, <2>1
    <3>4. c = IF m \in F THEN <<m, b[2]>> ELSE <<b[1], m - 1>>
      BY DEF Narrowed
    <3>5. b[1] \in 0 .. w /\ b[2] \in 0 .. w
      BY <1>0
    <3> HIDE DEF c, m
    <3>6. c[1] \in 0 .. w /\ c[2] \in 0 .. w
      BY <1>0, <3>1
    <3>7. c[2] - c[1] <= k
      BY <2>1, <3>1, <3>5, <3>6
    <3>8. Good(c)
      BY <1>4, <3>1, <3>7
    <3>9. CASE m \in F
      BY <3>2, <3>3, <3>4, <3>5, <3>8, <3>9
    <3>10. CASE m \notin F
      BY <3>2, <3>3, <3>4, <3>5, <3>8, <3>10
    <3> QED
      BY <3>9, <3>10
  <2> HIDE DEF Good
  <2> QED
    BY <1>2, <2>1
<1> HIDE DEF K, Good
<1>5. Nat \subseteq K
  BY <1>3, <1>4, Inductive
<1>6. w \in K /\ \A b \in Bounds(w) : b[2] - b[1] <= w
  BY <1>0, <1>5
<1>7. \A b \in Bounds(w) : b[1] <= b[2] => Good(b)
  BY <1>6 DEF K
<1> QED
  BY <1>7 DEF Good

(* The prefix found fits, unless it is empty, and one word more does not,   *)
(* unless it is the whole text (_truncate_to_fit).                          *)
LEMMA PrefixIsLongest ==
  ASSUME NEW s, NEW budget, NEW profile, NEW kept, NEW cand, cand.words \in Nat
  PROVE  LET r == LongestPrefix(s, budget, profile, kept, cand)
             fits(m) == CutFits(s, budget, profile, kept, cand, m)
         IN /\ r \in 0 .. cand.words
            /\ r = 0 \/ fits(r)
            /\ r = cand.words \/ ~fits(r + 1)
<1> DEFINE w == cand.words
           F == {m \in 0 .. w : CutFits(s, budget, profile, kept, cand, m)}
           Rec(f) == f = [b \in (0 .. w) \X (0 .. w) |->
                            IF b[1] >= b[2] THEN b[1]
                            ELSE IF CutFits(s, budget, profile, kept, cand, (b[1] + b[2] + 1) \div 2)
                            THEN f[<<(b[1] + b[2] + 1) \div 2, b[2]>>]
                            ELSE f[<<b[1], (b[1] + b[2] + 1) \div 2 - 1>>]]
           search == CHOOSE f : Rec(f)
<1>1. LongestPrefix(s, budget, profile, kept, cand) = search[<<0, w>>]
  BY DEF LongestPrefix
<1>2. ASSUME NEW b \in Bounds(w), ~(b[1] >= b[2])
      PROVE  CutFits(s, budget, profile, kept, cand, Mid(b)) <=> Mid(b) \in F
  <2>1. Mid(b) \in 0 .. w
    <3>1. Mid(b) \in b[1] + 1 .. b[2] /\ b[1] \in 0 .. w /\ b[2] \in 0 .. w
      BY <1>2, MidIsBetween DEF Bounds
    <3> QED
      BY <3>1
  <2> QED
    BY <2>1
<1> HIDE DEF F, w
<1>3. \A f : Rec(f) <=> Bisects(f, w, F)
  BY <1>2 DEF Bisects, Narrowed, Mid, Bounds
<1>4. \E f : Bisects(f, w, F)
  BY BisectionExists DEF w
<1> HIDE DEF Rec
<1>5. Bisects(search, w, F)
  BY <1>3, <1>4
<1> HIDE DEF search
<1>6. <<0, w>> \in Bounds(w) /\ w \in Nat
  BY DEF Bounds, w
<1> DEFINE r == search[<<0, w>>]
<1>7. r \in 0 .. w /\ (r = 0 \/ r \in F) /\ (r = w \/ r + 1 \notin F)
  BY <1>5, <1>6, BisectionFinds
<1> HIDE DEF r
<1>8. r # w => r + 1 \in 0 .. w
  BY <1>6, <1>7
<1> QED
  BY <1>1, <1>7, <1>8 DEF r, F, w

(***************************************************************************)
(* Placing candidates under a budget.                                      *)
(***************************************************************************)
Candidate == [section : Sections, index : Nat, words : Nat]
Kept == [Sections -> Seq(Block)]

(* What a block costs beside its own tokens where it is put.                *)
Extra(kept, section) ==
  IF kept[section] # <<>> THEN Separator ELSE IF section = "session" THEN Header ELSE 0

(* The settings of a builder are numbers, sections and priorities.          *)
LEMMA SettingIsTyped ==
  ASSUME NEW s \in Settings
  PROVE  /\ s.max \in Nat /\ s.reserve \in Nat /\ s.profile \in Nat
         /\ SystemTokens(s) \in Nat /\ (~HasSystem(s) => SystemTokens(s) = 0)
         /\ s.sections \subseteq Sections /\ s.priorities \in Seq(Sections)
<1>1. s \in [max : Nat, reserve : Nat, system : Nat \cup {Unset}, profile : Nat,
             sections : SUBSET Sections, priorities : Seq(Sections)]
  BY SettingsAssumption
<1> QED
  BY <1>1 DEF SystemTokens, HasSystem

(* No block costs nothing.                                                  *)
LEMMA JoinedOfNothing == Joined(<<>>) = 0
<1>1. <<>> \in Seq(Block) /\ BlockCounts(<<>>) = <<>>
  BY DEF BlockCounts
<1>2. BlockSum(<<>>) = 0
  BY <1>1, BlockSumIsTotal, TotalOfNothing
<1>3. Joined(<<>>) = BlockSum(<<>>) + IF <<>> = <<>> THEN 0 ELSE Separator * (Len(<<>>) - 1)
  BY Zenon DEF Joined, BlockSum
<1> QED
  BY <1>2, <1>3

(* Joined blocks cost a number of tokens.                                   *)
LEMMA JoinedIsNat ==
  ASSUME NEW blocks \in Seq(Block)
  PROVE  Joined(blocks) \in Nat
<1>1. [words |-> 0, cut |-> FALSE] \in Block
  BY DEF Block
<1> QED
  BY <1>1, JoinedOfAppended

(* A context costs a number of tokens, its fixed parts at least.            *)
LEMMA AssembledIsNat ==
  ASSUME NEW s \in Settings, NEW profile \in Nat, NEW kept \in Kept
  PROVE  /\ AssembledTokens(s, profile, kept) \in Nat
         /\ AssembledTokens(s, profile, kept) >= SystemTokens(s) + profile
<1>1. kept["rag"] \in Seq(Block) /\ kept["session"] \in Seq(Block)
  BY DEF Kept, Sections
<1>2. Joined(kept["rag"]) \in Nat /\ Joined(kept["session"]) \in Nat
  BY <1>1, JoinedIsNat
<1>3. Header \in Nat /\ SystemTokens(s) \in Nat
  BY ContextAssumption, SettingIsTyped
<1> QED
  BY <1>2, <1>3 DEF AssembledTokens

(* One more block goes to the end of its own section only.                  *)
LEMMA WithBlockIsKept ==
  ASSUME NEW kept \in Kept, NEW cand \in Candidate, NEW block \in Block
  PROVE  /\ WithBlock(kept, cand, block) \in Kept
         /\ WithBlock(kept, cand, block)[cand.section] = Append(kept[cand.section], block)
         /\ \A section \in Sections : section # cand.section =>
               WithBlock(kept, cand, block)[section] = kept[section]
<1>1. cand.section \in Sections /\ kept[cand.section] \in Seq(Block)
  BY DEF Candidate, Kept
<1>2. Append(kept[cand.section], block) \in Seq(Block)
  BY <1>1
<1> QED
  BY <1>1, <1>2 DEF WithBlock, Kept

(* One more block adds its tokens and what separates it, or the header.     *)
LEMMA AssembledGrows ==
  ASSUME NEW s \in Settings, NEW profile \in Nat, NEW kept \in Kept,
         NEW cand \in Candidate, NEW block \in Block
  PROVE  /\ Extra(kept, cand.section) \in Nat
         /\ AssembledTokens(s, profile, WithBlock(kept, cand, block)) =
               AssembledTokens(s, profile, kept) + BlockTokens(block) + Extra(kept, cand.section)
<1> DEFINE more == WithBlock(kept, cand, block)
           S == cand.section
<1>1. S \in {"rag", "session"}
  BY DEF Candidate, Sections
<1>2. /\ more[S] = Append(kept[S], block)
      /\ \A section \in Sections : section # S => more[section] = kept[section]
  BY WithBlockIsKept
<1>3. kept["rag"] \in Seq(Block) /\ kept["session"] \in Seq(Block)
  BY DEF Kept, Sections
<1>4. \A blocks \in Seq(Block) :
         /\ Joined(blocks) \in Nat
         /\ Joined(Append(blocks, block)) =
               BlockTokens(block) + IF blocks = <<>> THEN 0 ELSE Joined(blocks) + Separator
         /\ Append(blocks, block) # <<>>
  BY JoinedOfAppended
<1>5. Header \in Nat /\ Separator \in Nat /\ SystemTokens(s) \in Nat /\ BlockTokens(block) \in Nat
  BY ContextAssumption, SettingIsTyped, BlockIsNat
<1>6. Joined(<<>>) = 0
  BY JoinedOfNothing
<1> HIDE DEF more
<1>7. CASE S = "rag"
  <2>1. more["rag"] = Append(kept["rag"], block) /\ more["session"] = kept["session"]
    BY <1>2, <1>7 DEF Sections
  <2>2. Extra(kept, S) = IF kept["rag"] # <<>> THEN Separator ELSE 0
    BY <1>7 DEF Extra
  <2>3. /\ Joined(kept["rag"]) \in Nat /\ Joined(kept["session"]) \in Nat
        /\ Joined(more["rag"]) = BlockTokens(block)
              + IF kept["rag"] = <<>> THEN 0 ELSE Joined(kept["rag"]) + Separator
        /\ Joined(more["session"]) = Joined(kept["session"])
        /\ more["rag"] # <<>>
        /\ more["session"] = kept["session"]
        /\ kept["rag"] = <<>> => Joined(kept["rag"]) = 0
    BY <1>3, <1>4, <1>6, <2>1
  <2>4. AssembledTokens(s, profile, more) =
           AssembledTokens(s, profile, kept) + BlockTokens(block) + Extra(kept, S)
    <3> DEFINE tail == IF kept["session"] = <<>> THEN 0 ELSE Header + Joined(kept["session"])
    <3>1. AssembledTokens(s, profile, kept) = SystemTokens(s) + profile + Joined(kept["rag"]) + tail
      BY DEF AssembledTokens
    <3>2. AssembledTokens(s, profile, more) = SystemTokens(s) + profile + Joined(more["rag"]) + tail
      BY <2>3, Zenon DEF AssembledTokens
    <3>3. tail \in Nat
      BY <1>5, <2>3
    <3> HIDE DEF tail
    <3> DEFINE x == Joined(kept["rag"])
               y == Joined(more["rag"])
               e == Extra(kept, S)
               b == BlockTokens(block)
               z == SystemTokens(s)
    <3>4. y = x + b + e
      BY <1>5, <2>2, <2>3
    <3>5. x \in Nat /\ b \in Nat /\ z \in Nat /\ e \in Nat
      BY <1>5, <2>2, <2>3
    <3> HIDE DEF x, y, e, b, z
    <3>6. z + profile + y + tail = z + profile + x + tail + b + e
      BY <3>3, <3>4, <3>5
    <3> QED
      BY <3>1, <3>2, <3>6 DEF x, y, e, b, z
  <2> QED
    BY <1>5, <2>2, <2>4 DEF more
<1>8. CASE S = "session"
  <2>1. more["session"] = Append(kept["session"], block) /\ more["rag"] = kept["rag"]
    BY <1>2, <1>8 DEF Sections
  <2>2. Extra(kept, S) = IF kept["session"] # <<>> THEN Separator ELSE Header
    BY <1>8 DEF Extra
  <2>3. /\ Joined(kept["session"]) \in Nat /\ Joined(kept["rag"]) \in Nat
        /\ Joined(more["session"]) = BlockTokens(block)
              + IF kept["session"] = <<>> THEN 0 ELSE Joined(kept["session"]) + Separator
        /\ Joined(more["rag"]) = Joined(kept["rag"])
        /\ more["session"] # <<>>
        /\ more["rag"] = kept["rag"]
        /\ kept["session"] = <<>> => Joined(kept["session"]) = 0
    BY <1>3, <1>4, <1>6, <2>1
  <2>4. AssembledTokens(s, profile, more) =
           AssembledTokens(s, profile, kept) + BlockTokens(block) + Extra(kept, S)
    <3> DEFINE x == Joined(kept["session"])
               y == Joined(more["session"])
               e == Extra(kept, S)
               b == BlockTokens(block)
               z == SystemTokens(s)
               d == Joined(kept["rag"])
               was == IF kept["session"] = <<>> THEN 0 ELSE Header + x
    <3>1. AssembledTokens(s, profile, kept) = z + profile + d + was
      BY DEF AssembledTokens
    <3>2. AssembledTokens(s, profile, more) = z + profile + d + (Header + y)
      BY <2>3, Zenon DEF AssembledTokens
    <3>3. x \in Nat /\ b \in Nat /\ z \in Nat /\ d \in Nat
      BY <1>5, <2>3
    <3>4. /\ y = b + IF kept["session"] = <<>> THEN 0 ELSE x + Separator
          /\ e = IF kept["session"] # <<>> THEN Separator ELSE Header
      BY <2>2, <2>3
    <3>5. Header \in Nat /\ Separator \in Nat
      BY ContextAssumption
    <3> HIDE DEF x, y, e, b, z, d
    <3>6. Header + y = was + b + e /\ was \in Nat /\ e \in Nat
      <4>1. CASE kept["session"] = <<>>
        <5>1. y = b /\ e = Header /\ was = 0
          BY <3>3, <3>4, <4>1
        <5> HIDE DEF was
        <5> QED
          BY <3>3, <3>5, <5>1
      <4>2. CASE kept["session"] # <<>>
        <5>1. y = b + (x + Separator) /\ e = Separator /\ was = Header + x
          BY <3>4, <4>2
        <5> HIDE DEF was
        <5> QED
          BY <3>3, <3>5, <5>1
      <4> QED
        BY <4>1, <4>2
    <3> HIDE DEF was
    <3>7. z + profile + d + (Header + y) = z + profile + d + was + b + e
      BY <3>3, <3>6
    <3> QED
      BY <3>1, <3>2, <3>7 DEF x, y, e, b, z
  <2> QED
    BY <1>5, <2>2, <2>4 DEF more
<1> QED
  BY <1>1, <1>7, <1>8

EndsCut(kept, section) == kept[section] # <<>> /\ kept[section][Len(kept[section])].cut

(* What the allocation has placed so far: it costs what it says, fits, and  *)
(* a text is cut only where not one word more would have fitted; it decides *)
(* nothing about the history.                                               *)
Placing(s, budget, profile) ==
  {acc \in [kept : Kept, ended : SUBSET Sections, full : BOOLEAN, used : Nat,
            decisions : Seq(Decided)] :
      /\ acc.used = AssembledTokens(s, profile, acc.kept)
      /\ acc.used <= budget
      /\ acc.used = SystemTokens(s) + profile + SumOfCosts(acc.decisions)
      /\ Silent(acc.decisions)
      /\ ~acc.full => \A section \in Sections : ~EndsCut(acc.kept, section)
      /\ \A section \in Sections : EndsCut(acc.kept, section) =>
            AssembledTokens(s, profile, Lengthened(acc.kept, section)) > budget}

(* Before the first candidate the fixed parts account for themselves.       *)
LEMMA NothingIsPlaced ==
  ASSUME NEW s \in Settings, NEW profile \in Nat, NEW budget, SystemTokens(s) + profile <= budget
  PROVE  NothingPlaced(s, profile) \in Placing(s, budget, profile)
<1> DEFINE kept == [section \in Sections |-> <<>>]
<1>1. kept \in Kept
  BY DEF Kept
<1>2. SystemTokens(s) \in Nat
  BY SettingIsTyped
<1>3. AssembledTokens(s, profile, kept) = SystemTokens(s) + profile
  <2>1. kept["rag"] = <<>> /\ kept["session"] = <<>>
    BY DEF Sections
  <2> HIDE DEF kept
  <2> QED
    BY <1>2, <2>1, JoinedOfNothing DEF AssembledTokens
<1>4. \A section \in Sections : ~EndsCut(kept, section)
  BY DEF EndsCut
<1>5. SumOfCosts(<<>>) = 0
  BY SumOfNoCosts
<1>6. SystemTokens(s) + profile \in Nat /\ <<>> \in Seq(Decided) /\ Silent(<<>>)
  BY <1>2 DEF Silent
<1> HIDE DEF kept
<1>7. NothingPlaced(s, profile) = [kept |-> kept, ended |-> {}, full |-> FALSE,
                                  used |-> SystemTokens(s) + profile, decisions |-> <<>>]
  BY DEF NothingPlaced, kept
<1> QED
  BY <1>1, <1>3, <1>4, <1>5, <1>6, <1>7 DEF Placing

(* Lengthening the last block of a section is putting a longer one.         *)
LEMMA AppendExcept ==
  ASSUME NEW old \in Seq(Block), NEW c \in Block, NEW n, n = Len(old)
  PROVE  [Append(old, c) EXCEPT ![n + 1] = Cut(@.words + 1)] = Append(old, Cut(c.words + 1))
<1> DEFINE a == Append(old, c)
           d == Cut(c.words + 1)
           left == [a EXCEPT ![n + 1] = Cut(@.words + 1)]
           right == Append(old, d)
<1>1. a \in Seq(Block) /\ Len(a) = n + 1 /\ a[n + 1] = c /\ \A i \in 1 .. n : a[i] = old[i]
  OBVIOUS
<1>2. d \in Block
  BY DEF Cut, Block
<1> HIDE DEF a
<1>3. left = [i \in 1 .. n + 1 |-> IF i = n + 1 THEN d ELSE a[i]]
  <2>1. Cut(a[n + 1].words + 1) = d
    BY <1>1
  <2> HIDE DEF d
  <2>2. left = [a EXCEPT ![n + 1] = d]
    BY <2>1
  <2>3. DOMAIN a = 1 .. n + 1 /\ n \in Nat
    BY <1>1
  <2> HIDE DEF left
  <2> QED
    BY <1>1, <2>2, <2>3
<1> HIDE DEF d
<1>4. left \in Seq(Block) /\ Len(left) = n + 1
  BY <1>1, <1>2, <1>3
<1>5. right \in Seq(Block) /\ Len(right) = n + 1 /\ right[n + 1] = d
      /\ \A i \in 1 .. n : right[i] = old[i]
  BY <1>2
<1>6. \A i \in 1 .. n + 1 : left[i] = right[i]
  BY <1>1, <1>3, <1>5
<1> HIDE DEF left, right
<1>7. left = right
  BY <1>4, <1>5, <1>6, SeqEqual
<1> QED
  BY <1>7 DEF left, right, a, d

(* Offering one candidate keeps the account, the budget, and cuts maximal.  *)
LEMMA OfferStays ==
  ASSUME NEW s \in Settings, NEW profile \in Nat, NEW budget \in Nat,
         NEW acc \in Placing(s, budget, profile), NEW cand \in Candidate
  PROVE  Offer(s, budget, profile, acc, cand) \in Placing(s, budget, profile)
<1> DEFINE S == cand.section
           total(block) == AssembledTokens(s, profile, WithBlock(acc.kept, cand, block))
           prefix == LongestPrefix(s, budget, profile, acc.kept, cand)
           D(verdict, c) == Decision(S, {cand.index}, verdict, c)
           taken(block, verdict) ==
             [kept |-> WithBlock(acc.kept, cand, block), used |-> total(block),
              ended |-> acc.ended, full |-> verdict = "truncated",
              decisions |-> Append(acc.decisions, D(verdict, total(block) - acc.used))]
           left == [kept |-> acc.kept, used |-> acc.used,
                    ended |-> acc.ended \cup {S}, full |-> acc.full,
                    decisions |-> Append(acc.decisions, D("excluded", 0))]
           next == Offer(s, budget, profile, acc, cand)
<1>1. /\ acc.kept \in Kept /\ acc.ended \in SUBSET Sections /\ acc.full \in BOOLEAN
      /\ acc.used \in Nat /\ acc.decisions \in Seq(Decided)
      /\ acc.used = AssembledTokens(s, profile, acc.kept)
      /\ acc.used <= budget
      /\ acc.used = SystemTokens(s) + profile + SumOfCosts(acc.decisions)
      /\ Silent(acc.decisions)
      /\ ~acc.full => \A section \in Sections : ~EndsCut(acc.kept, section)
      /\ \A section \in Sections : EndsCut(acc.kept, section) =>
            AssembledTokens(s, profile, Lengthened(acc.kept, section)) > budget
      /\ acc = [kept |-> acc.kept, ended |-> acc.ended, full |-> acc.full,
                used |-> acc.used, decisions |-> acc.decisions]
  BY DEF Placing
<1>2. S \in Sections /\ cand.index \in Nat /\ cand.words \in Nat
  BY DEF Candidate
<1>3. SystemTokens(s) \in Nat
  BY SettingIsTyped
<1>4. \A c \in Nat : /\ D("excluded", c) \in Decided /\ D("included", c) \in Decided
                     /\ D("truncated", c) \in Decided
  BY <1>2 DEF Decided, Decision, Sources, Verdicts
<1>5. ASSUME NEW verdict \in {"excluded", "included", "truncated"}, NEW c \in Nat
      PROVE  /\ Append(acc.decisions, D(verdict, c)) \in Seq(Decided)
             /\ SumOfCosts(Append(acc.decisions, D(verdict, c))) = SumOfCosts(acc.decisions) + c
             /\ Silent(Append(acc.decisions, D(verdict, c)))
  <2>1. D(verdict, c).cost = c /\ D(verdict, c).source # "history"
    BY <1>2 DEF Decision, Sections
  <2>2. D(verdict, c) \in Decided
    BY <1>4
  <2> HIDE DEF D
  <2>3. SumOfCosts(Append(acc.decisions, D(verdict, c))) =
           SumOfCosts(acc.decisions) + D(verdict, c).cost
    BY <1>1, <2>2, SumOfCostsAppended
  <2>4. Silent(Append(acc.decisions, D(verdict, c)))
    BY <1>1, <2>1, <2>2, SilentAppended
  <2> QED
    BY <1>1, <2>1, <2>2, <2>3, <2>4
<1>6. left \in Placing(s, budget, profile)
  <2> DEFINE ds == Append(acc.decisions, D("excluded", 0))
  <2>1. ds \in Seq(Decided) /\ SumOfCosts(ds) = SumOfCosts(acc.decisions) + 0 /\ Silent(ds)
    BY <1>5
  <2>2. SumOfCosts(acc.decisions) \in Nat
    BY <1>1, SumOfCostsIsNat
  <2>3. left = [kept |-> acc.kept, ended |-> acc.ended \cup {S}, full |-> acc.full,
                used |-> acc.used, decisions |-> ds]
    OBVIOUS
  <2>4. acc.ended \cup {S} \in SUBSET Sections
    BY <1>1, <1>2
  <2> HIDE DEF ds, left
  <2>5. SumOfCosts(ds) = SumOfCosts(acc.decisions)
    BY <2>1, <2>2
  <2> QED
    BY <1>1, <2>1, <2>3, <2>4, <2>5 DEF Placing
<1>7. ASSUME NEW block \in Block
      PROVE  /\ total(block) = acc.used + BlockTokens(block) + Extra(acc.kept, S)
             /\ Extra(acc.kept, S) \in Nat /\ BlockTokens(block) \in Nat
  <2>1. /\ Extra(acc.kept, S) \in Nat
        /\ total(block) = AssembledTokens(s, profile, acc.kept) + BlockTokens(block)
                            + Extra(acc.kept, S)
    BY <1>1, AssembledGrows
  <2> HIDE DEF total
  <2> QED
    BY <1>1, <2>1, BlockIsNat
<1>8. ASSUME NEW block \in Block, NEW verdict \in {"included", "truncated"}, ~acc.full,
             total(block) <= budget, block.cut <=> verdict = "truncated",
             block.cut => AssembledTokens(s, profile,
                             Lengthened(WithBlock(acc.kept, cand, block), S)) > budget
      PROVE  taken(block, verdict) \in Placing(s, budget, profile)
  <2> DEFINE more == WithBlock(acc.kept, cand, block)
             grown == total(block)
             full == verdict = "truncated"
             ds == Append(acc.decisions, D(verdict, grown - acc.used))
  <2>1. grown \in Nat /\ grown - acc.used \in Nat
    BY <1>1, <1>7
  <2>2. more \in Kept /\ more[S] = Append(acc.kept[S], block)
        /\ \A section \in Sections : section # S => more[section] = acc.kept[section]
    BY <1>1, WithBlockIsKept
  <2>3. /\ ds \in Seq(Decided) /\ Silent(ds)
        /\ SumOfCosts(ds) = SumOfCosts(acc.decisions) + (grown - acc.used)
    BY <1>5, <2>1
  <2>4. taken(block, verdict) =
           [kept |-> more, ended |-> acc.ended, full |-> full, used |-> grown, decisions |-> ds]
    OBVIOUS
  <2>5. SumOfCosts(acc.decisions) \in Nat
    BY <1>1, SumOfCostsIsNat
  <2>6. acc.kept[S] \in Seq(Block)
    BY <1>1, <1>2 DEF Kept
  <2>7. EndsCut(more, S) <=> block.cut
    <3> DEFINE old == acc.kept[S]
    <3>0. more[S] = Append(old, block)
      BY <2>2
    <3>2. old \in Seq(Block)
      BY <2>6
    <3> HIDE DEF more, old
    <3>1. Len(more[S]) = Len(old) + 1 /\ more[S][Len(old) + 1] = block /\ more[S] # <<>>
      BY <3>0, <3>2, AppendProperties
    <3> QED
      BY <3>1 DEF EndsCut
  <2>8. \A section \in Sections : section # S => ~EndsCut(more, section)
    <3> HIDE DEF more
    <3> QED
      BY <1>1, <1>8, <2>2 DEF EndsCut
  <2>9. grown = AssembledTokens(s, profile, more) /\ grown <= budget
    BY <1>8
  <2>10. block.cut => AssembledTokens(s, profile, Lengthened(more, S)) > budget
    BY <1>8
  <2> HIDE DEF more, grown, ds, taken
  <2>11. grown = SystemTokens(s) + profile + SumOfCosts(ds)
    <3> DEFINE a == SumOfCosts(acc.decisions)
               b == SumOfCosts(ds)
               z == SystemTokens(s)
               u == acc.used
    <3>1. u = z + profile + a /\ b = a + (grown - u) /\ u \in Nat /\ z \in Nat /\ a \in Nat
      BY <1>1, <1>3, <2>3, <2>5
    <3> HIDE DEF a, b, z, u
    <3>2. grown = z + profile + b
      BY <2>1, <3>1 DEF u
    <3> QED
      BY <3>2 DEF z, b
  <2>12. ~full => \A section \in Sections : ~EndsCut(more, section)
    BY <1>8, <2>7, <2>8
  <2>13. \A section \in Sections : EndsCut(more, section) =>
            AssembledTokens(s, profile, Lengthened(more, section)) > budget
    BY <2>7, <2>8, <2>10
  <2>14. full \in BOOLEAN
    OBVIOUS
  <2> DEFINE v == [kept |-> more, ended |-> acc.ended, full |-> full, used |-> grown,
                   decisions |-> ds]
  <2> HIDE DEF full
  <2>15. v \in [kept : Kept, ended : SUBSET Sections, full : BOOLEAN, used : Nat,
                decisions : Seq(Decided)]
    BY <1>1, <2>1, <2>2, <2>3, <2>14
  <2>16. v.kept = more /\ v.full = full /\ v.used = grown /\ v.decisions = ds
    OBVIOUS
  <2>17. v = taken(block, verdict)
    BY <2>4
  <2> HIDE DEF v
  <2>18. v \in Placing(s, budget, profile)
    BY <2>3, <2>9, <2>11, <2>12, <2>13, <2>15, <2>16 DEF Placing
  <2> QED
    BY <2>17, <2>18
<1>9. Whole(cand) \in Block /\ ~Whole(cand).cut /\ BlockTokens(Whole(cand)) = cand.words
  BY <1>2 DEF Whole, Block, BlockTokens
<1>10. \A m \in Nat : Cut(m) \in Block /\ Cut(m).cut /\ BlockTokens(Cut(m)) = m + 1
  BY DEF Cut, Block, BlockTokens
<1>11. next = IF acc.full \/ S \in acc.ended THEN left
              ELSE IF total(Whole(cand)) <= budget THEN taken(Whole(cand), "included")
              ELSE IF prefix > 0 THEN taken(Cut(prefix), "truncated")
              ELSE left
  BY DEF Offer
<1>12. /\ prefix \in 0 .. cand.words
       /\ prefix = 0 \/ total(Cut(prefix)) <= budget
       /\ prefix = cand.words \/ ~(total(Cut(prefix + 1)) <= budget)
  BY <1>2, PrefixIsLongest DEF CutFits
<1>13. ASSUME ~acc.full, ~(total(Whole(cand)) <= budget), prefix > 0
       PROVE  taken(Cut(prefix), "truncated") \in Placing(s, budget, profile)
  <2>1. prefix \in Nat /\ prefix + 1 \in Nat
    BY <1>2, <1>12
  <2>2. total(Cut(prefix)) <= budget
    BY <1>12, <1>13
  <2>3. prefix # cand.words
    <3> SUFFICES ASSUME prefix = cand.words PROVE FALSE
      OBVIOUS
    <3>1. total(Cut(prefix)) = acc.used + (cand.words + 1) + Extra(acc.kept, S)
      BY <1>7, <1>10, <2>1
    <3>2. total(Whole(cand)) = acc.used + cand.words + Extra(acc.kept, S)
      BY <1>7, <1>9
    <3>3. Extra(acc.kept, S) \in Nat
      BY <1>7, <1>9
    <3> HIDE DEF total, prefix
    <3> QED
      BY <1>1, <1>2, <1>13, <2>2, <3>1, <3>2, <3>3
  <2>4. Lengthened(WithBlock(acc.kept, cand, Cut(prefix)), S) = WithBlock(acc.kept, cand, Cut(prefix + 1))
    <3> DEFINE more == WithBlock(acc.kept, cand, Cut(prefix))
               longer == WithBlock(acc.kept, cand, Cut(prefix + 1))
               n == Len(acc.kept[S])
    <3>1. Cut(prefix) \in Block /\ Cut(prefix + 1) \in Block
      BY <1>10, <2>1
    <3> HIDE DEF prefix
    <3>2. /\ more \in Kept /\ more[S] = Append(acc.kept[S], Cut(prefix))
          /\ \A section \in Sections : section # S => more[section] = acc.kept[section]
      BY <1>1, <3>1, WithBlockIsKept
    <3>3. /\ longer \in Kept /\ longer[S] = Append(acc.kept[S], Cut(prefix + 1))
          /\ \A section \in Sections : section # S => longer[section] = acc.kept[section]
      BY <1>1, <3>1, WithBlockIsKept
    <3>4. acc.kept[S] \in Seq(Block)
      BY <1>1, <1>2 DEF Kept
    <3> HIDE DEF more, longer
    <3>5. Len(more[S]) = n + 1 /\ more[S][n + 1] = Cut(prefix) /\ DOMAIN more[S] = 1 .. n + 1
      BY <3>2, <3>4
    <3>6. [more[S] EXCEPT ![n + 1] = Cut(@.words + 1)] = longer[S]
      <4>1. Cut(prefix).words = prefix
        BY DEF Cut
      <4> DEFINE old == acc.kept[S]
                 c == Cut(prefix)
                 d == Cut(prefix + 1)
      <4>2. old \in Seq(Block) /\ c \in Block /\ d \in Block /\ n = Len(old)
        BY <3>1, <3>4
      <4>3. more[S] = Append(old, c) /\ longer[S] = Append(old, d) /\ more[S][n + 1].words = prefix
        BY <3>2, <3>3, <3>5, <4>1
      <4> HIDE DEF old, c, n
      <4>4. [Append(old, c) EXCEPT ![n + 1] = Cut(@.words + 1)] = Append(old, d)
        BY <4>1, <4>2, AppendExcept DEF c
      <4> QED
        BY <4>3, <4>4
    <3>7. Lengthened(more, S) = [more EXCEPT ![S] = [more[S] EXCEPT ![n + 1] = Cut(@.words + 1)]]
      BY <3>5 DEF Lengthened
    <3>8. Lengthened(more, S) = [more EXCEPT ![S] = longer[S]]
      BY <3>6, <3>7
    <3>9. [more EXCEPT ![S] = longer[S]] = longer
      BY <1>2, <3>2, <3>3 DEF Kept
    <3> QED
      BY <3>8, <3>9 DEF more, longer
  <2>5. ~(total(Cut(prefix + 1)) <= budget)
    BY <1>12, <2>3
  <2>6. Cut(prefix) \in Block /\ Cut(prefix + 1) \in Block /\ Cut(prefix).cut
    BY <1>10, <2>1
  <2>7. total(Cut(prefix + 1)) \in Nat
    BY <1>1, <1>7, <2>6
  <2>8. AssembledTokens(s, profile, Lengthened(WithBlock(acc.kept, cand, Cut(prefix)), S)) > budget
    <3>1. total(Cut(prefix + 1)) > budget
      <4> HIDE DEF total, prefix
      <4> QED
        BY <2>5, <2>7
    <3> HIDE DEF prefix
    <3> QED
      BY <2>4, <3>1
  <2> HIDE DEF total, taken, prefix
  <2> QED
    BY <1>8, <1>13, <2>2, <2>6, <2>8
<1>14. ASSUME ~acc.full, total(Whole(cand)) <= budget
       PROVE  taken(Whole(cand), "included") \in Placing(s, budget, profile)
  <2> HIDE DEF total, taken
  <2> QED
    BY <1>8, <1>9, <1>14
<1> HIDE DEF next, left, taken, total, prefix
<1>15. next \in Placing(s, budget, profile)
  BY <1>6, <1>11, <1>13, <1>14
<1> QED
  BY <1>15 DEF next

(* So does offering all of them.                                            *)
LEMMA PlaceStays ==
  ASSUME NEW s \in Settings, NEW profile \in Nat, NEW budget \in Nat,
         SystemTokens(s) + profile <= budget, NEW r \in Seq(Candidate)
  PROVE  Place(s, budget, profile, r) \in Placing(s, budget, profile)
<1> DEFINE n == Len(r)
           base == NothingPlaced(s, profile)
           A == Placing(s, budget, profile)
           Step == [p \in (1 .. n) \X A |-> Offer(s, budget, profile, p[2], r[p[1]])]
           Rec(g) == g = [t \in SUBSET DOMAIN r |->
                             IF t = {} THEN base
                             ELSE Offer(s, budget, profile, g[t \ {Max(t)}], r[Max(t)])]
           iter == CHOOSE g : Rec(g)
<1>1. Place(s, budget, profile, r) = iter[DOMAIN r]
  BY DEF Place, FoldLeft, MapThenFoldSet
<1>2. n \in Nat /\ DOMAIN r = 1 .. n
  OBVIOUS
<1>3. base \in A
  BY NothingIsPlaced
<1> HIDE DEF n, base, A
<1>4. ASSUME NEW k \in 1 .. n, NEW acc \in A
      PROVE  Offer(s, budget, profile, acc, r[k]) \in A
  <2>1. r[k] \in Candidate
    BY <1>2
  <2> QED
    BY <2>1, OfferStays DEF A
<1>5. Step \in [(1 .. n) \X A -> A]
  BY <1>4
<1>6. \A k \in 1 .. n, acc \in A : Step[<<k, acc>>] = Offer(s, budget, profile, acc, r[k])
  OBVIOUS
<1> HIDE DEF Step
<1>7. PICK f : Recurs(f, n, A, base, Step)
  BY <1>2, <1>3, <1>5, FoldsExist
<1>8. ASSUME NEW t \in SUBSET (1 .. n), t # {}
      PROVE  Max(t) \in 1 .. n
  <2>1. t \subseteq 0 .. n
    OBVIOUS
  <2>2. Max(t) \in t
    BY <1>2, <1>8, <2>1, MaxIsIn, Zenon
  <2> QED
    BY <2>2
<1>9. Rec(f)
  <2>1. ASSUME NEW t \in SUBSET (1 .. n), t # {}
        PROVE  f[t] = Offer(s, budget, profile, f[t \ {Max(t)}], r[Max(t)])
    <3>1. f[t] = Step[<<Max(t), f[t \ {Max(t)}]>>] /\ f[t \ {Max(t)}] \in A
      BY <1>7, <2>1 DEF Recurs
    <3> QED
      BY <1>6, <1>8, <2>1, <3>1
  <2> QED
    BY <1>2, <1>7, <2>1 DEF Recurs
<1>10. Rec(iter)
  BY <1>9
<1> HIDE DEF iter
<1>11. iter[{}] \in A
  BY <1>3, <1>10
<1>12. ASSUME NEW k \in 1 .. n, iter[1 .. k - 1] \in A
       PROVE  iter[1 .. k] \in A
  <2>1. /\ 1 .. k # {} /\ 1 .. k \in SUBSET (1 .. n)
        /\ Max(1 .. k) = k /\ (1 .. k) \ {k} = 1 .. k - 1
    BY <1>2, GoingForward
  <2>2. \A t \in SUBSET (1 .. n) :
           t # {} => iter[t] = Offer(s, budget, profile, iter[t \ {Max(t)}], r[Max(t)])
    BY <1>2, <1>10
  <2>3. iter[1 .. k] = Offer(s, budget, profile, iter[(1 .. k) \ {Max(1 .. k)}], r[Max(1 .. k)])
    BY <2>1, <2>2, Zenon
  <2>4. iter[1 .. k] = Offer(s, budget, profile, iter[1 .. k - 1], r[k])
    BY <2>1, <2>3, Zenon
  <2> QED
    BY <1>4, <1>12, <2>4
<1>13. iter[1 .. n] \in A
  BY <1>2, <1>11, <1>12, ChainStays
<1> QED
  BY <1>1, <1>2, <1>13 DEF A

Flattens(f, seqs, k) ==
  f = [i \in 1 .. k |-> IF i = 1 THEN seqs[i] ELSE f[i - 1] \o seqs[i]]

(* The recursion of FlattenSeq has a solution.                              *)
LEMMA FlatteningExists ==
  ASSUME NEW seqs, NEW n \in Nat
  PROVE  \E f : Flattens(f, seqs, n)
<1> DEFINE K == {k \in Nat : \E f : Flattens(f, seqs, k)}
<1>1. 0 \in K
  <2> DEFINE f == [i \in 1 .. 0 |-> 0]
  <2>1. Flattens(f, seqs, 0)
    BY DEF Flattens
  <2> QED
    BY <2>1
<1>2. ASSUME NEW k \in Nat, k \in K
      PROVE  k + 1 \in K
  <2>1. PICK f : Flattens(f, seqs, k)
    BY <1>2
  <2> DEFINE h == [i \in 1 .. k + 1 |-> IF i = 1 THEN seqs[i] ELSE f[i - 1] \o seqs[i]]
  <2>2. ASSUME NEW i \in 1 .. k
        PROVE  h[i] = f[i]
    <3>1. f[i] = IF i = 1 THEN seqs[i] ELSE f[i - 1] \o seqs[i]
      BY <2>1 DEF Flattens
    <3>2. i \in 1 .. k + 1
      OBVIOUS
    <3> QED
      BY <3>1, <3>2
  <2>3. ASSUME NEW i \in 1 .. k + 1
        PROVE  h[i] = IF i = 1 THEN seqs[i] ELSE h[i - 1] \o seqs[i]
    <3>1. i # 1 => h[i - 1] = f[i - 1]
      <4>1. i # 1 => i - 1 \in 1 .. k
        OBVIOUS
      <4> HIDE DEF h
      <4> QED
        BY <2>2, <4>1
    <3>2. h[i] = IF i = 1 THEN seqs[i] ELSE f[i - 1] \o seqs[i]
      OBVIOUS
    <3> HIDE DEF h
    <3> QED
      BY <3>1, <3>2
  <2>4. DOMAIN h = 1 .. k + 1 /\ h = [i \in DOMAIN h |-> h[i]]
    OBVIOUS
  <2> HIDE DEF h
  <2>5. Flattens(h, seqs, k + 1)
    BY <2>3, <2>4 DEF Flattens
  <2>6. k + 1 \in Nat
    OBVIOUS
  <2> QED
    BY <2>5, <2>6, Zenon
<1> HIDE DEF K
<1>3. Nat \subseteq K
  BY <1>1, <1>2, Inductive
<1> QED
  BY <1>3 DEF K

(* Flattening lists of candidates gives a list of candidates.               *)
LEMMA FlattenIsTyped ==
  ASSUME NEW C, NEW seqs \in Seq(Seq(C))
  PROVE  FlattenSeq(seqs) \in Seq(C)
<1> DEFINE n == Len(seqs)
           flatten == CHOOSE f : Flattens(f, seqs, n)
<1>0. n \in Nat
  OBVIOUS
<1>1. CASE n = 0
  <2>1. seqs = <<>>
    BY <1>1, EmptySeq
  <2>2. FlattenSeq(seqs) = seqs
    BY <1>1, Zenon DEF FlattenSeq
  <2>3. <<>> \in Seq(C)
    OBVIOUS
  <2> QED
    BY <2>1, <2>2, <2>3, Zenon
<1>2. CASE n # 0
  <2>1. FlattenSeq(seqs) = flatten[n]
    BY <1>2, Zenon DEF FlattenSeq, Flattens
  <2>2. \A i \in 1 .. n : seqs[i] \in Seq(C)
    OBVIOUS
  <2>3. Flattens(flatten, seqs, n)
    <3> HIDE DEF n
    <3> QED
      BY <1>0, FlatteningExists, Zenon
  <2> HIDE DEF flatten, n
  <2> DEFINE J == {k \in Nat : k + 1 <= n => flatten[k + 1] \in Seq(C)}
  <2>4. \A i \in 1 .. n : flatten[i] = IF i = 1 THEN seqs[i] ELSE flatten[i - 1] \o seqs[i]
    BY <2>3 DEF Flattens
  <2>5. 0 \in J
    <3>1. 1 <= n => flatten[1] = seqs[1]
      BY <1>0, <2>4
    <3> QED
      BY <1>0, <2>2, <3>1
  <2>6. ASSUME NEW k \in Nat, k \in J
        PROVE  k + 1 \in J
    <3> DEFINE m == k + 1
    <3>1. ASSUME m + 1 <= n
          PROVE  flatten[m + 1] \in Seq(C)
      <4>1. m \in Nat /\ m + 1 \in 1 .. n /\ m + 1 # 1 /\ m + 1 - 1 = m
        BY <1>0, <3>1
      <4>2. flatten[m] \in Seq(C) /\ seqs[m + 1] \in Seq(C)
        BY <1>0, <2>2, <2>6, <3>1
      <4> HIDE DEF m
      <4>4. flatten[m + 1] = flatten[m] \o seqs[m + 1]
        <5> DEFINE i == m + 1
        <5>1. i \in 1 .. n /\ i # 1 /\ i - 1 = m
          BY <4>1
        <5> HIDE DEF i
        <5>2. flatten[i] = flatten[i - 1] \o seqs[i]
          BY <2>4, <5>1, Zenon
        <5> QED
          BY <5>1, <5>2 DEF i
      <4>5. flatten[m] \o seqs[m + 1] \in Seq(C)
        BY <4>2, ConcatProperties, Zenon
      <4> QED
        BY <4>4, <4>5, Zenon
    <3> QED
      BY <3>1
  <2> HIDE DEF J
  <2>7. Nat \subseteq J
    BY <2>5, <2>6, Inductive
  <2>8. n - 1 \in J /\ n - 1 + 1 <= n /\ n - 1 + 1 = n
    BY <1>0, <1>2, <2>7
  <2> QED
    BY <2>1, <2>8 DEF J
<1> QED
  BY <1>1, <1>2

(* What is offered are candidates of the sections.                          *)
LEMMA OfferedAreCandidates ==
  ASSUME NEW s \in Settings, NEW pools \in [Sections -> Seq(Nat)]
  PROVE  Offered(s, pools) \in Seq(Candidate)
<1> DEFINE seqs == [i \in DOMAIN s.priorities |->
                      Candidates(s.priorities[i], pools[s.priorities[i]])]
<1>1. s.priorities \in Seq(Sections)
  BY SettingIsTyped
<1>2. ASSUME NEW section \in Sections, NEW pool \in Seq(Nat)
      PROVE  Candidates(section, pool) \in Seq(Candidate)
  <2> DEFINE n == Len(pool)
             at(i) == [section |-> section, index |-> i, words |-> pool[i]]
  <2>1. n \in Nat /\ Candidates(section, pool) = [i \in 1 .. n |-> at(i)]
    BY DEF Candidates
  <2>2. \A i \in 1 .. n : at(i) \in Candidate
    BY DEF Candidate
  <2> HIDE DEF n, at
  <2> QED
    BY <2>1, <2>2
<1>3. \A i \in 1 .. Len(s.priorities) :
         Candidates(s.priorities[i], pools[s.priorities[i]]) \in Seq(Candidate)
  <2>1. ASSUME NEW i \in 1 .. Len(s.priorities)
        PROVE  s.priorities[i] \in Sections /\ pools[s.priorities[i]] \in Seq(Nat)
    BY <1>1
  <2> QED
    BY <1>2, <2>1, Zenon
<1>4. seqs \in Seq(Seq(Candidate))
  <2>1. seqs = [i \in 1 .. Len(s.priorities) |->
                  Candidates(s.priorities[i], pools[s.priorities[i]])]
    BY <1>1
  <2>2. Len(s.priorities) \in Nat
    BY <1>1
  <2> DEFINE n == Len(s.priorities)
             at(i) == Candidates(s.priorities[i], pools[s.priorities[i]])
             Q == Seq(Candidate)
  <2> HIDE DEF seqs, Q
  <2>3. \A i \in 1 .. n : at(i) \in Q
    BY <1>3 DEF Q
  <2> HIDE DEF n, at
  <2>4. [i \in 1 .. n |-> at(i)] \in Seq(Q)
    BY <2>2, <2>3 DEF n
  <2> QED
    BY <2>1, <2>4 DEF n, at, Q
<1>5. FlattenSeq(seqs) \in Seq(Candidate)
  BY <1>4, FlattenIsTyped
<1> QED
  BY <1>5 DEF Offered

(* One decision claims its cost.                                            *)
LEMMA SumOfOne ==
  ASSUME NEW a \in Decided
  PROVE  <<a>> \in Seq(Decided) /\ SumOfCosts(<<a>>) = a.cost
<1>1. <<a>> = Append(<<>>, a) /\ <<>> \in Seq(Decided) /\ <<a>> \in Seq(Decided)
  OBVIOUS
<1>2. SumOfCosts(<<a>>) = SumOfCosts(<<>>) + a.cost
  BY <1>1, SumOfCostsAppended
<1>3. a.cost \in Nat
  BY DEF Decided
<1> QED
  BY <1>1, <1>2, <1>3, SumOfNoCosts

(* Two decisions claim their costs.                                         *)
LEMMA SumOfTwo ==
  ASSUME NEW a \in Decided, NEW b \in Decided
  PROVE  <<a, b>> \in Seq(Decided) /\ SumOfCosts(<<a, b>>) = a.cost + b.cost
<1>1. <<a, b>> = Append(<<a>>, b) /\ <<a, b>> \in Seq(Decided)
  OBVIOUS
<1>2. SumOfCosts(<<a, b>>) = SumOfCosts(<<a>>) + b.cost
  BY <1>1, SumOfOne, SumOfCostsAppended
<1> QED
  BY <1>1, <1>2, SumOfOne

(* Five decisions claim their costs.                                        *)
LEMMA SumOfFive ==
  ASSUME NEW a \in Decided, NEW b \in Decided, NEW c \in Decided, NEW d \in Decided,
         NEW e \in Decided
  PROVE  /\ <<a, b, c, d, e>> \in Seq(Decided)
         /\ SumOfCosts(<<a, b, c, d, e>>) = a.cost + b.cost + c.cost + d.cost + e.cost
<1>1. <<a, b, c>> = Append(<<a, b>>, c) /\ <<a, b, c>> \in Seq(Decided)
  OBVIOUS
<1>2. <<a, b, c, d>> = Append(<<a, b, c>>, d) /\ <<a, b, c, d>> \in Seq(Decided)
  OBVIOUS
<1>3. <<a, b, c, d, e>> = Append(<<a, b, c, d>>, e) /\ <<a, b, c, d, e>> \in Seq(Decided)
  OBVIOUS
<1>4. SumOfCosts(<<a, b, c>>) = a.cost + b.cost + c.cost
  <2>1. <<a, b>> \in Seq(Decided) /\ SumOfCosts(<<a, b>>) = a.cost + b.cost
    BY SumOfTwo
  <2> DEFINE two == <<a, b>>
  <2> HIDE DEF two
  <2>2. SumOfCosts(Append(two, c)) = SumOfCosts(two) + c.cost
    BY <2>1, SumOfCostsAppended DEF two
  <2> QED
    BY <1>1, <2>1, <2>2 DEF two
<1>5. SumOfCosts(<<a, b, c, d>>) = a.cost + b.cost + c.cost + d.cost
  BY <1>1, <1>2, <1>4, SumOfCostsAppended
<1> QED
  BY <1>2, <1>3, <1>5, SumOfCostsAppended

(* Decisions that cost nothing sum to nothing.                              *)
LEMMA FreeDecisions ==
  ASSUME NEW ds \in Seq(Decided), \A i \in 1 .. Len(ds) : ds[i].cost = 0
  PROVE  SumOfCosts(ds) = 0
<1>1. Costs(ds) \in Seq(Nat) /\ Len(Costs(ds)) = Len(ds)
  BY CostsAreNumbers
<1> DEFINE up == [k \in 0 .. Len(ds) |-> 0]
<1>2. \A k \in 1 .. Len(ds) : Costs(ds)[k] = 0
  BY DEF Costs
<1>3. Adds(up, Costs(ds))
  BY <1>1, <1>2 DEF Adds
<1> QED
  BY <1>1, <1>3, TotalAdds, SumOfCostsIsTotal

(* The decisions on sections never offered cost nothing.                    *)
LEMMA LeftOutIsFree ==
  ASSUME NEW s \in Settings, NEW pools \in [Sections -> Seq(Nat)]
  PROVE  /\ LeftOut(s, pools) \in Seq(Decided) /\ SumOfCosts(LeftOut(s, pools)) = 0
         /\ Silent(LeftOut(s, pools))
<1> DEFINE all(section) == [i \in DOMAIN pools[section] |-> Decision(section, {i}, "excluded", 0)]
           left(section) == IF \E i \in DOMAIN s.priorities : s.priorities[i] = section THEN <<>>
                            ELSE all(section)
<1>1. ASSUME NEW section \in Sections
      PROVE  /\ left(section) \in Seq(Decided) /\ SumOfCosts(left(section)) = 0
             /\ Silent(left(section))
  <2>1. DOMAIN pools[section] = 1 .. Len(pools[section]) /\ Len(pools[section]) \in Nat
    <3>1. pools[section] \in Seq(Nat)
      OBVIOUS
    <3> QED
      BY <3>1
  <2>2. ASSUME NEW i \in 1 .. Len(pools[section])
        PROVE  Decision(section, {i}, "excluded", 0) \in Decided
               /\ Decision(section, {i}, "excluded", 0).cost = 0
               /\ Decision(section, {i}, "excluded", 0).source # "history"
    BY DEF Decided, Decision, Sources, Sections, Verdicts
  <2>3. all(section) \in Seq(Decided) /\ Len(all(section)) = Len(pools[section])
        /\ \A i \in 1 .. Len(pools[section]) : all(section)[i].cost = 0
        /\ Silent(all(section))
    <3> DEFINE n == Len(pools[section])
               at(i) == Decision(section, {i}, "excluded", 0)
    <3>1. n \in Nat /\ all(section) = [i \in 1 .. n |-> at(i)]
      BY <2>1
    <3>2. \A i \in 1 .. n : at(i) \in Decided /\ at(i).cost = 0 /\ at(i).source # "history"
      BY <2>2
    <3> HIDE DEF n, at, all
    <3>3. [i \in 1 .. n |-> at(i)] \in Seq(Decided) /\ Len([i \in 1 .. n |-> at(i)]) = n
      BY <3>1, <3>2
    <3>4. \A i \in 1 .. n : all(section)[i].cost = 0 /\ all(section)[i].source # "history"
      BY <3>1, <3>2
    <3>5. Silent(all(section))
      BY <3>1, <3>3, <3>4 DEF Silent
    <3> QED
      BY <3>1, <3>3, <3>4, <3>5 DEF n
  <2> HIDE DEF all
  <2>4. SumOfCosts(all(section)) = 0
    BY <2>3, FreeDecisions
  <2>5. <<>> \in Seq(Decided) /\ SumOfCosts(<<>>) = 0 /\ Silent(<<>>)
    BY SumOfNoCosts DEF Silent
  <2> QED
    BY <2>3, <2>4, <2>5
<1>2. LeftOut(s, pools) = left("rag") \o left("session")
  BY DEF LeftOut
<1> HIDE DEF left
<1>3. "rag" \in Sections /\ "session" \in Sections
  BY DEF Sections
<1> QED
  BY <1>1, <1>2, <1>3, SumOfCostsJoined, SilentJoined, ConcatProperties

(* A kept profile fits the budget beside the system prompt.                 *)
LEMMA ProfileFits ==
  ASSUME NEW s \in Settings, NEW budget \in Nat, SystemTokens(s) <= budget
  PROVE  ProfileTokens(s, budget) \in Nat /\ SystemTokens(s) + ProfileTokens(s, budget) <= budget
  BY SettingIsTyped DEF ProfileTokens, ProfileKept

(* The decisions on the system prompt and the profile claim both.           *)
LEMMA FixedDecisionsCost ==
  ASSUME NEW s \in Settings, NEW budget \in Nat, SystemTokens(s) <= budget
  PROVE  /\ FixedDecisions(s, budget) \in Seq(Decided)
         /\ SumOfCosts(FixedDecisions(s, budget)) = SystemTokens(s) + ProfileTokens(s, budget)
         /\ Silent(FixedDecisions(s, budget))
<1> DEFINE a == Decision("system", {}, IF HasSystem(s) THEN "included" ELSE "excluded",
                         SystemTokens(s))
           b == Decision("profile", {}, IF ProfileKept(s, budget) THEN "included" ELSE "excluded",
                         ProfileTokens(s, budget))
<1>1. SystemTokens(s) \in Nat /\ ProfileTokens(s, budget) \in Nat
  BY SettingIsTyped, ProfileFits
<1>2. a \in Decided /\ a.cost = SystemTokens(s) /\ a.source # "history"
  BY <1>1 DEF Decision, Decided, Sources, Verdicts
<1>3. b \in Decided /\ b.cost = ProfileTokens(s, budget) /\ b.source # "history"
  BY <1>1 DEF Decision, Decided, Sources, Verdicts
<1>4. FixedDecisions(s, budget) = <<a, b>>
  BY DEF FixedDecisions
<1> HIDE DEF a, b
<1>5. Silent(<<a, b>>)
  BY <1>2, <1>3 DEF Silent
<1> QED
  BY <1>2, <1>3, <1>4, <1>5, SumOfTwo

(* What an allocation returns.                                              *)
LEMMA AllocationFits ==
  ASSUME NEW s \in Settings, NEW budget \in Nat, SystemTokens(s) <= budget,
         NEW pools \in [Sections -> Seq(Nat)]
  PROVE  LET context == Allocate(s, budget, pools)
             profile == ProfileTokens(s, budget)
         IN /\ context.kept \in Kept /\ context.profile = profile
            /\ context.decisions \in Seq(Decided) /\ Silent(context.decisions)
            /\ AssembledTokens(s, profile, context.kept) <= budget
            /\ SumOfCosts(context.decisions) = AssembledTokens(s, profile, context.kept)
            /\ \A section \in Sections : EndsCut(context.kept, section) =>
                  AssembledTokens(s, profile, Lengthened(context.kept, section)) > budget
<1> DEFINE context == Allocate(s, budget, pools)
           profile == ProfileTokens(s, budget)
           end == Place(s, budget, profile, Offered(s, pools))
           A == AssembledTokens(s, profile, end.kept)
<1>1. profile \in Nat /\ SystemTokens(s) + profile <= budget
  BY ProfileFits
<1>2. end \in Placing(s, budget, profile)
  BY <1>1, OfferedAreCandidates, PlaceStays
<1>3. /\ end.kept \in Kept /\ end.decisions \in Seq(Decided)
      /\ A <= budget /\ A = SystemTokens(s) + profile + SumOfCosts(end.decisions)
      /\ Silent(end.decisions)
      /\ \A section \in Sections : EndsCut(end.kept, section) =>
            AssembledTokens(s, profile, Lengthened(end.kept, section)) > budget
  <2> HIDE DEF end, profile
  <2> QED
    BY <1>2 DEF Placing
<1>4. context = [kept |-> end.kept, profile |-> profile,
                 decisions |-> FixedDecisions(s, budget) \o end.decisions \o LeftOut(s, pools)]
  BY DEF Allocate
<1>5. /\ FixedDecisions(s, budget) \in Seq(Decided) /\ Silent(FixedDecisions(s, budget))
      /\ SumOfCosts(FixedDecisions(s, budget)) = SystemTokens(s) + profile
  BY FixedDecisionsCost
<1>6. /\ LeftOut(s, pools) \in Seq(Decided) /\ SumOfCosts(LeftOut(s, pools)) = 0
      /\ Silent(LeftOut(s, pools))
  BY LeftOutIsFree
<1> DEFINE fixed == FixedDecisions(s, budget)
           out == LeftOut(s, pools)
<1> HIDE DEF context, end, profile, fixed, out
<1>7. fixed \o end.decisions \in Seq(Decided)
      /\ SumOfCosts(fixed \o end.decisions) = SumOfCosts(fixed) + SumOfCosts(end.decisions)
  BY <1>3, <1>5, SumOfCostsJoined, ConcatProperties DEF fixed
<1>8. fixed \o end.decisions \o out \in Seq(Decided)
      /\ SumOfCosts(fixed \o end.decisions \o out) = SumOfCosts(fixed \o end.decisions) + SumOfCosts(out)
  BY <1>6, <1>7, SumOfCostsJoined, ConcatProperties DEF out
<1>13. Silent(fixed \o end.decisions \o out)
  <2>1. Silent(fixed \o end.decisions)
    BY <1>3, <1>5, SilentJoined DEF fixed
  <2> QED
    BY <1>6, <1>7, <2>1, SilentJoined DEF out
<1>9. SumOfCosts(end.decisions) \in Nat /\ SystemTokens(s) \in Nat
  BY <1>3, SumOfCostsIsNat, SettingIsTyped
<1>10. SumOfCosts(fixed \o end.decisions \o out) = A
  <2>1. SumOfCosts(fixed) = SystemTokens(s) + profile /\ SumOfCosts(out) = 0
    BY <1>5, <1>6 DEF fixed, out
  <2> HIDE DEF A
  <2> QED
    BY <1>1, <1>3, <1>7, <1>8, <1>9, <2>1
<1>11. context.kept = end.kept /\ context.profile = profile
       /\ context.decisions = fixed \o end.decisions \o out
  BY <1>4 DEF fixed, out
<1>12. /\ context.kept \in Kept /\ context.profile = profile
       /\ context.decisions \in Seq(Decided) /\ Silent(context.decisions)
       /\ AssembledTokens(s, profile, context.kept) <= budget
       /\ SumOfCosts(context.decisions) = AssembledTokens(s, profile, context.kept)
       /\ \A section \in Sections : EndsCut(context.kept, section) =>
             AssembledTokens(s, profile, Lengthened(context.kept, section)) > budget
  BY <1>3, <1>8, <1>10, <1>11, <1>13
<1> QED
  BY <1>12 DEF context, profile

(* Without candidates nothing is kept.                                      *)
LEMMA NothingOffered ==
  ASSUME NEW s \in Settings, NEW budget \in Nat
  PROVE  \A section \in Sections : Allocate(s, budget, EmptyPools).kept[section] = <<>>
<1> DEFINE seqs == [i \in DOMAIN s.priorities |->
                      Candidates(s.priorities[i], EmptyPools[s.priorities[i]])]
           profile == ProfileTokens(s, budget)
           base == NothingPlaced(s, profile)
<1>1. s.priorities \in Seq(Sections)
  BY SettingIsTyped
<1>2. \A section \in Sections : Candidates(section, EmptyPools[section]) = <<>>
  BY DEF Candidates, EmptyPools
<1>3. seqs \in Seq(Seq({}))
  <2>1. \A i \in 1 .. Len(s.priorities) :
           Candidates(s.priorities[i], EmptyPools[s.priorities[i]]) \in Seq({})
    <3>1. <<>> \in Seq({})
      OBVIOUS
    <3>2. \A i \in 1 .. Len(s.priorities) : s.priorities[i] \in Sections
      BY <1>1
    <3> QED
      BY <1>2, <3>1, <3>2, Zenon
  <2> DEFINE n == Len(s.priorities)
             at(i) == Candidates(s.priorities[i], EmptyPools[s.priorities[i]])
             Q == Seq({})
  <2>2. n \in Nat /\ seqs = [i \in 1 .. n |-> at(i)]
    BY <1>1
  <2> HIDE DEF seqs, Q
  <2>3. \A i \in 1 .. n : at(i) \in Q
    BY <2>1 DEF Q
  <2> HIDE DEF n, at
  <2>4. [i \in 1 .. n |-> at(i)] \in Seq(Q)
    BY <2>2, <2>3
  <2> QED
    BY <2>2, <2>4 DEF Q
<1>4. Offered(s, EmptyPools) = <<>>
  <2>1. FlattenSeq(seqs) \in Seq({})
    BY <1>3, FlattenIsTyped
  <2>2. \A q \in Seq({}) : q = <<>>
    OBVIOUS
  <2> QED
    BY <2>1, <2>2 DEF Offered
<1>5. Place(s, budget, profile, <<>>) = base
  <2> DEFINE r == <<>>
             Rec(g) == g = [t \in SUBSET DOMAIN r |->
                               IF t = {} THEN base
                               ELSE Offer(s, budget, profile, g[t \ {Max(t)}], r[Max(t)])]
             iter == CHOOSE g : Rec(g)
  <2>1. Place(s, budget, profile, <<>>) = iter[DOMAIN r]
    BY DEF Place, FoldLeft, MapThenFoldSet
  <2>2. DOMAIN r = {}
    OBVIOUS
  <2> HIDE DEF r, base
  <2>3. Rec([t \in SUBSET {} |-> base])
    BY <2>2
  <2>4. Rec(iter)
    BY <2>3
  <2> HIDE DEF iter
  <2> QED
    BY <2>1, <2>2, <2>4
<1>6. Allocate(s, budget, EmptyPools).kept = base.kept
  BY <1>4, <1>5 DEF Allocate
<1> QED
  BY <1>6 DEF NothingPlaced

(***************************************************************************)
(* The plan of one request.                                                *)
(***************************************************************************)
JobIsTyped(j) ==
  /\ j \in [stage : {"retrieving", "done"}, history : Seq(Items), tail : Seq(Items),
            setting : Settings, lane : BOOLEAN, start : Nat]
  /\ j.start \in 1 .. Len(j.history) + 1

\* The history property, of any request and plan.
Explained(j, p) ==
  LET about(i) == {k \in DOMAIN p.decisions :
                     p.decisions[k].source = "history" /\ i \in p.decisions[k].part}
      in(i) == \E k \in about(i) : p.decisions[k].verdict \in {"included", "reserved"}
  IN /\ \A i \in DOMAIN j.history : Cardinality(about(i)) = 1
     /\ p.before = FlattenSeq([i \in DOMAIN j.history |->
                                 IF in(i) THEN <<j.history[i]>> ELSE <<>>])

\* Nothing a request cannot do without is known to be too large.
JobFits(j) ==
  /\ j.setting.reserve <= j.setting.max
  /\ RequiredTokens(j) <= j.setting.max
  /\ SystemTokens(j.setting) <= ContextBudget(j)

Accounted(j, p) ==
  LET sent == p.prompt + Lane(j) + CountAll(p.before \o p.after)
  IN /\ SumOfCosts(p.decisions) = sent + j.setting.reserve
     /\ sent = p.input
     /\ sent + j.setting.reserve + p.remaining = j.setting.max
     /\ p.remaining >= 0

CutsAreMaximal(j, p) ==
  \A section \in Sections : EndsCut(p.kept, section) =>
     AssembledTokens(j.setting, ProfileTokens(j.setting, ContextBudget(j)),
                     Lengthened(p.kept, section)) > ContextBudget(j)

\* The final input answers only calls that end the history.
DependencyIsMet(j) ==
  /\ HistoryDependency(j.history, j.tail).valid
  /\ j.start = HistoryDependency(j.history, j.tail).start

SendsWhole(p) ==
  LET vouched == p.before \o Leading(p.after)
  IN ChatPairsAreWhole(vouched) /\ CallGraphIsWhole(vouched)

PlanIsRight(j, p) ==
  /\ p.kind = "planned" => /\ Mandatory(j) <= j.setting.max
                           /\ p.lane = j.lane
                           /\ Accounted(j, p)
                           /\ Explained(j, p)
                           /\ CutsAreMaximal(j, p)
                           /\ SendsWhole(p)
  /\ p = Refusal("budget") => Mandatory(j) > j.setting.max

(* Max({0, x}) is x, or 0 below it.                                         *)
LEMMA AtLeastZero ==
  ASSUME NEW x \in Int
  PROVE  Max({0, x}) = IF x >= 0 THEN x ELSE 0
<1> DEFINE m == IF x >= 0 THEN x ELSE 0
<1>1. m \in {0, x} /\ \A y \in {0, x} : m >= y
  OBVIOUS
<1>2. \A k \in {0, x} : (\A y \in {0, x} : k >= y) => k = m
  OBVIOUS
<1> HIDE DEF m
<1>3. Max({0, x}) = m
  BY <1>1, <1>2 DEF Max
<1> QED
  BY <1>3 DEF m

(* What a request costs before anything optional.                           *)
LEMMA JobCosts ==
  ASSUME NEW j, JobIsTyped(j)
  PROVE  /\ j.setting \in Settings /\ j.setting.max \in Nat /\ j.setting.reserve \in Nat
         /\ Lane(j) \in Nat /\ CountAll(j.tail) \in Nat
         /\ Dependency(j) \in Seq(Items) /\ CountAll(Dependency(j)) \in Nat
         /\ Span(Asked(j), 1, j.start - 1) \in Seq(Items)
         /\ RequiredTokens(j) =
               Lane(j) + CountAll(j.tail) + CountAll(Dependency(j)) + j.setting.reserve
         /\ RequiredTokens(j) \in Nat
         /\ ContextBudget(j) \in Nat
         /\ LET x == j.setting.max - RequiredTokens(j) - Overhead
            IN ContextBudget(j) = IF x >= 0 THEN x ELSE 0
<1>1. j.setting \in Settings /\ j.tail \in Seq(Items) /\ j.history \in Seq(Items) /\ j.lane \in BOOLEAN
      /\ j.start \in 1 .. Len(j.history) + 1
  BY DEF JobIsTyped
<1>2. j.setting.max \in Nat /\ j.setting.reserve \in Nat
  BY <1>1, SettingIsTyped
<1>3. Lane(j) \in Nat /\ Overhead \in Nat
  BY ContextAssumption DEF Lane
<1>4. CountAll(j.tail) \in Nat
  BY <1>1, CountAllIsNat
<1>5. Dependency(j) \in Seq(Items)
  <2>1. Len(j.history) \in j.start - 1 .. Len(j.history)
    BY <1>1
  <2>2. Span(j.history, j.start, Len(j.history)) \in Seq(Items)
    BY <1>1, <2>1, SpansAreItems
  <2> QED
    BY <2>2 DEF Dependency, Asked
<1>6. CountAll(Dependency(j)) \in Nat
  BY <1>5, CountAllIsNat
<1>7. Span(Asked(j), 1, j.start - 1) \in Seq(Items)
  <2> DEFINE last == j.start - 1
  <2>1. 1 \in 1 .. Len(j.history) + 1 /\ last \in 1 - 1 .. Len(j.history)
    BY <1>1
  <2> HIDE DEF last
  <2>2. Span(j.history, 1, last) \in Seq(Items)
    BY <1>1, <2>1, SpansAreItems
  <2> QED
    BY <2>2 DEF Asked, last
<1>8. RequiredTokens(j) =
         Lane(j) + CountAll(j.tail) + CountAll(Dependency(j)) + j.setting.reserve
  BY DEF RequiredTokens
<1>9. RequiredTokens(j) \in Nat
  BY <1>2, <1>3, <1>4, <1>6, <1>8
<1> DEFINE x == j.setting.max - RequiredTokens(j) - Overhead
<1>10. x \in Int
  BY <1>2, <1>3, <1>9
<1>11. ContextBudget(j) = Max({0, x})
  BY DEF ContextBudget
<1> HIDE DEF x
<1>12. ContextBudget(j) = IF x >= 0 THEN x ELSE 0
  BY <1>10, <1>11, AtLeastZero
<1>13. ContextBudget(j) \in Nat
  BY <1>10, <1>12
<1> QED
  BY <1>1, <1>2, <1>3, <1>4, <1>5, <1>6, <1>7, <1>8, <1>9, <1>12, <1>13 DEF x

(* What a request cannot do without, from its parts.                        *)
LEMMA MandatoryIs ==
  ASSUME NEW j, JobIsTyped(j)
  PROVE  Mandatory(j) = RequiredTokens(j)
            + IF HasSystem(j.setting) THEN SystemTokens(j.setting) + Overhead ELSE 0
  BY DEF Mandatory

(* A request turned down before it waits could not have been planned.       *)
LEMMA EarlyRefusal ==
  ASSUME NEW j, JobIsTyped(j), ~JobFits(j)
  PROVE  Mandatory(j) > j.setting.max
<1> DEFINE max == j.setting.max
           r == RequiredTokens(j)
           z == SystemTokens(j.setting)
           b == ContextBudget(j)
           v == j.setting.reserve
<1>1. /\ max \in Nat /\ v \in Nat /\ r \in Nat /\ v <= r
      /\ b = IF max - r - Overhead >= 0 THEN max - r - Overhead ELSE 0
  <2> DEFINE lane == Lane(j)
             tail == CountAll(j.tail)
             last == CountAll(Dependency(j))
  <2>1. /\ max \in Nat /\ v \in Nat /\ r \in Nat
        /\ lane \in Nat /\ tail \in Nat /\ last \in Nat
        /\ r = lane + tail + last + v
        /\ b = IF max - r - Overhead >= 0 THEN max - r - Overhead ELSE 0
    BY JobCosts
  <2> HIDE DEF lane, tail, last, r, v, max, b
  <2> QED
    BY <2>1
<1>2. z \in Nat /\ (~HasSystem(j.setting) => z = 0)
  BY JobCosts, SettingIsTyped
<1>3. Mandatory(j) = r + IF HasSystem(j.setting) THEN z + Overhead ELSE 0
  BY MandatoryIs
<1>4. v > max \/ r > max \/ z > b
  <2>1. ~(v <= max) \/ ~(r <= max) \/ ~(z <= b)
    BY DEF JobFits
  <2>2. b \in Nat
    BY JobCosts
  <2> HIDE DEF max, r, z, b, v
  <2> QED
    BY <1>1, <1>2, <2>1, <2>2
<1>5. Overhead \in Nat
  BY ContextAssumption
<1> HIDE DEF max, r, z, b, v
<1>6. Mandatory(j) > max
  BY <1>1, <1>2, <1>3, <1>4, <1>5
<1> QED
  BY <1>6 DEF max

(* The decisions on the request's own parts claim them and the framing.     *)
LEMMA RequestDecisionsCost ==
  ASSUME NEW j, JobIsTyped(j), NEW framed \in Nat
  PROVE  /\ RequestDecisions(j, framed) \in Seq(Decided)
         /\ SumOfCosts(RequestDecisions(j, framed)) =
               RequiredTokens(j) + IF framed > 0 THEN Overhead ELSE 0
<1> DEFINE a == Decision("lane", {}, IF j.lane THEN "included" ELSE "excluded", Lane(j))
           b == Decision("reserve", {}, "reserved", j.setting.reserve)
           c == Decision("new_input", DOMAIN j.tail, "included", CountAll(j.tail))
           d == Decision("history", j.start .. Len(Asked(j)), "reserved", CountAll(Dependency(j)))
           e == Decision("framing", {}, "reserved", IF framed > 0 THEN Overhead ELSE 0)
<1>1. /\ j.setting.reserve \in Nat /\ Lane(j) \in Nat /\ CountAll(j.tail) \in Nat
      /\ CountAll(Dependency(j)) \in Nat
      /\ RequiredTokens(j) =
            Lane(j) + CountAll(j.tail) + CountAll(Dependency(j)) + j.setting.reserve
  BY JobCosts
<1>2. Overhead \in Nat
  BY ContextAssumption
<1>3. DOMAIN j.tail \in SUBSET Int /\ j.start .. Len(Asked(j)) \in SUBSET Int
  <2>1. j.tail \in Seq(Items) /\ j.history \in Seq(Items) /\ j.start \in Nat
    BY DEF JobIsTyped
  <2> QED
    BY <2>1 DEF Asked
<1>4. a \in Decided /\ a.cost = Lane(j)
  BY <1>1 DEF Decision, Decided, Sources, Verdicts
<1>5. b \in Decided /\ b.cost = j.setting.reserve
  BY <1>1 DEF Decision, Decided, Sources, Verdicts
<1>6. c \in Decided /\ c.cost = CountAll(j.tail)
  BY <1>1, <1>3 DEF Decision, Decided, Sources, Verdicts
<1>7. d \in Decided /\ d.cost = CountAll(Dependency(j))
  BY <1>1, <1>3 DEF Decision, Decided, Sources, Verdicts
<1>8. e \in Decided /\ e.cost = IF framed > 0 THEN Overhead ELSE 0
  BY <1>2 DEF Decision, Decided, Sources, Verdicts
<1>9. RequestDecisions(j, framed) = <<a, b, c, d, e>>
  BY DEF RequestDecisions
<1> HIDE DEF a, b, c, d, e
<1>10. /\ RequestDecisions(j, framed) \in Seq(Decided)
       /\ SumOfCosts(RequestDecisions(j, framed)) = a.cost + b.cost + c.cost + d.cost + e.cost
  BY <1>4, <1>5, <1>6, <1>7, <1>8, <1>9, SumOfFive
<1> QED
  BY <1>1, <1>2, <1>4, <1>5, <1>6, <1>7, <1>8, <1>10

(* A context without a prompt costs nothing.                                *)
LEMMA UnpromptedIsFree ==
  ASSUME NEW s \in Settings, NEW context, context.kept \in Kept, context.profile \in Nat
  PROVE  /\ HasSystem(s) => HasPrompt(s, context)
         /\ ~HasPrompt(s, context) => AssembledTokens(s, context.profile, context.kept) = 0
<1>1. HasSystem(s) => HasPrompt(s, context)
  BY DEF HasPrompt
<1>2. ASSUME ~HasPrompt(s, context)
      PROVE  AssembledTokens(s, context.profile, context.kept) = 0
  <2>1. ~HasSystem(s) /\ ~(context.profile > 0) /\ \A section \in Sections : context.kept[section] = <<>>
    BY <1>2 DEF HasPrompt
  <2>2. SystemTokens(s) = 0 /\ context.profile = 0
    BY <2>1, SettingIsTyped
  <2>3. context.kept["rag"] = <<>> /\ context.kept["session"] = <<>>
    BY <2>1 DEF Sections
  <2>4. Joined(context.kept["rag"]) = 0
    BY <2>3, JoinedOfNothing
  <2> QED
    BY <2>2, <2>3, <2>4 DEF AssembledTokens
<1> QED
  BY <1>1, <1>2

(***************************************************************************)
(* The decisions on the history.                                           *)
(***************************************************************************)
About(d, i) == d.source = "history" /\ i \in d.part
Goes(d, i) == About(d, i) /\ d.verdict \in {"included", "reserved"}

\* What a list of decisions says of one message of the history.
Never(ds, i) == \A k \in 1 .. Len(ds) : ~About(ds[k], i)
Once(ds, i) == \E k \in 1 .. Len(ds) :
                  About(ds[k], i) /\ \A l \in 1 .. Len(ds) : About(ds[l], i) => l = k
Sent(ds, i) == \E k \in 1 .. Len(ds) : Goes(ds[k], i)

(* What two lists of decisions say together.                                *)
LEMMA DecisionsJoin ==
  ASSUME NEW ds \in Seq(Decided), NEW es \in Seq(Decided), NEW i
  PROVE  /\ ds \o es \in Seq(Decided)
         /\ Never(ds, i) /\ Never(es, i) => Never(ds \o es, i)
         /\ Once(ds, i) /\ Never(es, i) => Once(ds \o es, i)
         /\ Never(ds, i) /\ Once(es, i) => Once(ds \o es, i)
         /\ Sent(ds \o es, i) <=> Sent(ds, i) \/ Sent(es, i)
<1> DEFINE m == Len(ds)
           n == Len(es)
           both == ds \o es
<1>1. both \in Seq(Decided) /\ Len(both) = m + n /\ m \in Nat /\ n \in Nat
  BY ConcatProperties, LenProperties
<1>2. \A k \in 1 .. m : k \in 1 .. m + n /\ both[k] = ds[k]
  BY ConcatProperties, LenProperties
<1>3. \A k \in 1 .. n : m + k \in 1 .. m + n /\ both[m + k] = es[k]
  <2>1. ASSUME NEW k \in 1 .. n
        PROVE  m + k \in 1 .. m + n /\ both[m + k] = es[k]
    <3> DEFINE l == m + k
    <3>1. l \in 1 .. m + n /\ ~(l <= m) /\ l - m = k
      BY <1>1
    <3>2. \A j \in 1 .. m + n : both[j] = IF j <= m THEN ds[j] ELSE es[j - m]
      BY ConcatProperties
    <3> HIDE DEF l, both, m, n
    <3>3. both[l] = es[l - m]
      BY <3>1, <3>2
    <3> QED
      BY <3>1, <3>3 DEF l
  <2> QED
    BY <2>1
<1>4. \A l \in 1 .. m + n : l \in 1 .. m \/ \E k \in 1 .. n : l = m + k
  <2>1. ASSUME NEW l \in 1 .. m + n, l \notin 1 .. m
        PROVE  \E k \in 1 .. n : l = m + k
    <3>1. l - m \in 1 .. n /\ l = m + (l - m)
      BY <1>1, <2>1
    <3> QED
      BY <3>1, Zenon
  <2> QED
    BY <2>1
<1>5. \A k \in 1 .. m, l \in 1 .. n : m + l # k
  BY <1>1
<1>6. \A k, l \in 1 .. n : m + l = m + k => l = k
  BY <1>1
<1> HIDE DEF m, n, both
<1>7. ASSUME Never(ds, i), Never(es, i)
      PROVE  Never(both, i)
  <2>1. (\A k \in 1 .. m : ~About(ds[k], i)) /\ \A k \in 1 .. n : ~About(es[k], i)
    BY <1>7 DEF Never, m, n
  <2>2. \A l \in 1 .. m + n : ~About(both[l], i)
    BY <1>2, <1>3, <1>4, <2>1
  <2> QED
    BY <1>1, <2>2 DEF Never
<1>8. ASSUME Once(ds, i), Never(es, i)
      PROVE  Once(both, i)
  <2>1. PICK k \in 1 .. m : About(ds[k], i) /\ \A l \in 1 .. m : About(ds[l], i) => l = k
    BY <1>8 DEF Once, m
  <2>2. \A l \in 1 .. m + n : About(both[l], i) => l = k
    BY <1>2, <1>3, <1>4, <1>8, <2>1 DEF Never, n
  <2> QED
    BY <1>1, <1>2, <2>1, <2>2 DEF Once
<1>9. ASSUME Never(ds, i), Once(es, i)
      PROVE  Once(both, i)
  <2>1. PICK k \in 1 .. n : About(es[k], i) /\ \A l \in 1 .. n : About(es[l], i) => l = k
    BY <1>9 DEF Once, n
  <2>2. \A l \in 1 .. m + n : About(both[l], i) => l = m + k
    BY <1>2, <1>3, <1>4, <1>9, <2>1 DEF Never, m
  <2> QED
    BY <1>1, <1>3, <2>1, <2>2 DEF Once
<1>10. Sent(both, i) <=> Sent(ds, i) \/ Sent(es, i)
  <2>1. /\ Sent(ds, i) <=> \E k \in 1 .. m : Goes(ds[k], i)
        /\ Sent(es, i) <=> \E k \in 1 .. n : Goes(es[k], i)
    BY DEF Sent, m, n
  <2>2. Sent(both, i) <=> \E l \in 1 .. m + n : Goes(both[l], i)
    BY <1>1 DEF Sent
  <2>3. (\E l \in 1 .. m + n : Goes(both[l], i)) =>
           (\E k \in 1 .. m : Goes(ds[k], i)) \/ \E k \in 1 .. n : Goes(es[k], i)
    BY <1>2, <1>3, <1>4
  <2>4. \A k \in 1 .. m : Goes(ds[k], i) => \E l \in 1 .. m + n : Goes(both[l], i)
    BY <1>2
  <2>5. \A k \in 1 .. n : Goes(es[k], i) => \E l \in 1 .. m + n : Goes(both[l], i)
    BY <1>3
  <2> QED
    BY <2>1, <2>2, <2>3, <2>4, <2>5
<1> QED
  BY <1>1, <1>7, <1>8, <1>9, <1>10 DEF both

(* What one more decision says.                                             *)
LEMMA DecisionAppended ==
  ASSUME NEW ds \in Seq(Decided), NEW d \in Decided, NEW i
  PROVE  /\ Append(ds, d) \in Seq(Decided)
         /\ Never(ds, i) /\ ~About(d, i) => Never(Append(ds, d), i)
         /\ Once(ds, i) /\ ~About(d, i) => Once(Append(ds, d), i)
         /\ Never(ds, i) /\ About(d, i) => Once(Append(ds, d), i)
         /\ Sent(Append(ds, d), i) <=> Sent(ds, i) \/ Goes(d, i)
<1> DEFINE one == <<d>>
<1>1. one \in Seq(Decided) /\ Len(one) = 1 /\ one[1] = d /\ \A k \in 1 .. 1 : k = 1
  OBVIOUS
<1>2. Append(ds, d) = ds \o one
  BY AppendIsConcat
<1> HIDE DEF one
<1>3. ~About(d, i) => Never(one, i)
  BY <1>1 DEF Never
<1>4. About(d, i) => Once(one, i)
  BY <1>1 DEF Once
<1>5. Sent(one, i) <=> Goes(d, i)
  BY <1>1 DEF Sent
<1> QED
  BY <1>1, <1>2, <1>3, <1>4, <1>5, DecisionsJoin

\* The messages of some indices, from a history, and what is taken up to each.
Pieces(items, T) == [i \in DOMAIN items |-> IF i \in T THEN <<items[i]>> ELSE <<>>]
Takes(pre, items, T, n) ==
  /\ pre[0] = <<>>
  /\ \A k \in 0 .. n : pre[k] \in Seq(Items)
  /\ \A k \in 1 .. n : pre[k] = IF k \in T THEN pre[k - 1] \o <<items[k]>> ELSE pre[k - 1]

(* Flattening the pieces of a history ends in the last of its prefixes.     *)
LEMMA PrefixesExist ==
  ASSUME NEW items \in Seq(Items), NEW T
  PROVE  \E pre : /\ Takes(pre, items, T, Len(items))
                  /\ FlattenSeq(Pieces(items, T)) = pre[Len(items)]
<1> DEFINE n == Len(items)
           seqs == Pieces(items, T)
           flatten == CHOOSE f : Flattens(f, seqs, n)
           pre == [k \in 0 .. n |-> IF k = 0 THEN <<>> ELSE flatten[k]]
<1>1. n \in Nat /\ DOMAIN items = 1 .. n
  OBVIOUS
<1>2. \A i \in 1 .. n : seqs[i] = IF i \in T THEN <<items[i]>> ELSE <<>>
  BY <1>1 DEF Pieces
<1>3. Len(seqs) = n
  BY <1>1 DEF Pieces
<1>4. \A i \in 1 .. n : seqs[i] \in Seq(Items)
  <2>1. \A i \in 1 .. n : <<items[i]>> \in Seq(Items) /\ <<>> \in Seq(Items)
    OBVIOUS
  <2> QED
    BY <1>2, <2>1
<1> HIDE DEF seqs
<1>5. Flattens(flatten, seqs, n)
  <2> HIDE DEF n
  <2> QED
    BY <1>1, FlatteningExists, Zenon
<1>6. /\ n = 0 => FlattenSeq(seqs) = seqs
      /\ n # 0 => FlattenSeq(seqs) = flatten[n]
  <2> HIDE DEF n
  <2>1. n = 0 => FlattenSeq(seqs) = seqs
    BY <1>3, Zenon DEF FlattenSeq
  <2>2. ASSUME n # 0
        PROVE  FlattenSeq(seqs) = flatten[n]
    BY <1>3, <2>2, Zenon DEF FlattenSeq, Flattens
  <2> QED
    BY <2>1, <2>2
<1> HIDE DEF flatten, n
<1>7. \A i \in 1 .. n : flatten[i] = IF i = 1 THEN seqs[i] ELSE flatten[i - 1] \o seqs[i]
  BY <1>5 DEF Flattens
<1>8. pre[0] = <<>> /\ \A k \in 1 .. n : pre[k] = flatten[k]
  BY <1>1
<1> HIDE DEF pre
<1>9. ASSUME NEW k \in 1 .. n
      PROVE  pre[k] = pre[k - 1] \o seqs[k]
  <2>1. CASE k = 1
    <3>1. <<>> \o seqs[1] = seqs[1]
      BY <1>4, <2>1, ConcatEmptySeq
    <3>2. k - 1 = 0
      BY <2>1
    <3> QED
      BY <1>7, <1>8, <2>1, <3>1, <3>2
  <2>2. CASE k # 1
    <3>1. k - 1 \in 1 .. n
      BY <1>1, <2>2
    <3> QED
      BY <1>7, <1>8, <2>2, <3>1
  <2> QED
    BY <2>1, <2>2
<1> DEFINE J == {k \in Nat : k <= n => pre[k] \in Seq(Items)}
<1>10. 0 \in J
  <2>1. <<>> \in Seq(Items)
    OBVIOUS
  <2> QED
    BY <1>8, <2>1
<1>11. ASSUME NEW k \in Nat, k \in J
       PROVE  k + 1 \in J
  <2> DEFINE m == k + 1
  <2>1. ASSUME m <= n
        PROVE  pre[m] \in Seq(Items)
    <3>1. m \in 1 .. n /\ m - 1 = k /\ k <= n
      BY <1>1, <2>1
    <3>2. pre[k] \in Seq(Items)
      BY <1>11, <3>1
    <3> HIDE DEF m
    <3>3. pre[m] = pre[m - 1] \o seqs[m] /\ seqs[m] \in Seq(Items)
      BY <1>4, <1>9, <3>1
    <3> QED
      BY <3>1, <3>2, <3>3, ConcatProperties
  <2> QED
    BY <2>1
<1> HIDE DEF J
<1>12. \A k \in 0 .. n : pre[k] \in Seq(Items)
  <2>1. Nat \subseteq J
    BY <1>10, <1>11, Inductive
  <2> QED
    BY <1>1, <2>1 DEF J
<1>13. Takes(pre, items, T, n)
  <2>1. ASSUME NEW k \in 1 .. n
        PROVE  pre[k] = IF k \in T THEN pre[k - 1] \o <<items[k]>> ELSE pre[k - 1]
    <3>1. k - 1 \in 0 .. n
      BY <1>1
    <3>2. pre[k - 1] \o <<>> = pre[k - 1]
      BY <1>12, <3>1, ConcatEmptySeq
    <3> QED
      BY <1>2, <1>9, <3>2
  <2> QED
    BY <1>8, <1>12, <2>1 DEF Takes
<1>14. FlattenSeq(seqs) = pre[n]
  <2>1. CASE n = 0
    <3>1. seqs \in Seq(Seq(Items)) /\ Len(seqs) = 0
      BY <1>1, <1>3, <2>1 DEF seqs, Pieces
    <3>2. seqs = <<>>
      BY <3>1, EmptySeq
    <3> QED
      BY <1>6, <1>8, <2>1, <3>2
  <2>2. CASE n # 0
    <3>1. n \in 1 .. n
      BY <1>1, <2>2
    <3> QED
      BY <1>6, <1>8, <2>2, <3>1
  <2> QED
    BY <2>1, <2>2
<1> QED
  BY <1>13, <1>14 DEF n, seqs

(* Over indices none of which are taken, nothing is added.                  *)
LEMMA NoneTaken ==
  ASSUME NEW pre, NEW items, NEW T, NEW n \in Nat, Takes(pre, items, T, n),
         NEW a \in 0 .. n, NEW b \in a .. n, \A i \in a + 1 .. b : i \notin T
  PROVE  pre[b] = pre[a]
<1> DEFINE K == {k \in Nat : a + k <= b => pre[a + k] = pre[a]}
<1>1. 0 \in K
  <2>1. a + 0 = a
    OBVIOUS
  <2> QED
    BY <2>1
<1>2. ASSUME NEW k \in Nat, k \in K
      PROVE  k + 1 \in K
  <2> DEFINE m == a + (k + 1)
  <2>1. ASSUME m <= b
        PROVE  pre[m] = pre[a]
    <3>1. m \in 1 .. n /\ m - 1 = a + k /\ a + k <= b /\ m \in a + 1 .. b
      BY <2>1
    <3>2. pre[a + k] = pre[a]
      BY <1>2, <3>1
    <3> HIDE DEF m
    <3>3. pre[m] = pre[m - 1]
      BY <3>1 DEF Takes
    <3> QED
      BY <3>1, <3>2, <3>3
  <2> QED
    BY <2>1
<1> HIDE DEF K
<1>3. b - a \in K
  BY <1>1, <1>2, Inductive
<1>4. b - a \in Nat /\ a + (b - a) = b
  OBVIOUS
<1>5. a + (b - a) <= b => pre[a + (b - a)] = pre[a]
  BY <1>3 DEF K
<1> QED
  BY <1>4, <1>5

(* Over indices all of which are taken, the span of them is.                *)
LEMMA AllTaken ==
  ASSUME NEW pre, NEW items \in Seq(Items), NEW T, NEW n \in 0 .. Len(items),
         Takes(pre, items, T, n),
         NEW a \in 0 .. n, NEW b \in a .. n, \A i \in a + 1 .. b : i \in T
  PROVE  pre[b] = pre[a] \o Span(items, a + 1, b)
<1> DEFINE sub(k) == SubSeq(items, a + 1, a + k)
           Good(k) == a + k <= b => pre[a + k] = pre[a] \o sub(k)
           K == {k \in Nat : Good(k)}
<1>0. pre[a] \in Seq(Items) /\ Len(items) \in Nat /\ a \in Nat /\ b \in Nat /\ n \in Nat
  BY DEF Takes
<1>1. 0 \in K
  <2>1. a + 0 = a /\ a + 0 < a + 1
    OBVIOUS
  <2>2. sub(0) = <<>>
    BY <2>1, SubSeqEmpty
  <2>3. pre[a] \o <<>> = pre[a]
    BY <1>0, ConcatEmptySeq
  <2> HIDE DEF sub
  <2> QED
    BY <2>1, <2>2, <2>3
<1>2. ASSUME NEW k \in Nat, k \in K
      PROVE  k + 1 \in K
  <2> DEFINE m == a + (k + 1)
  <2>1. ASSUME m <= b
        PROVE  pre[m] = pre[a] \o sub(k + 1)
    <3>1. /\ m \in 1 .. n /\ m - 1 = a + k /\ a + k <= b /\ m \in a + 1 .. b
          /\ a + 1 \in 1 .. Len(items) /\ m \in a + 1 .. Len(items)
          /\ a + 1 \in Int /\ a + k \in Int /\ a + k <= Len(items)
      BY <1>0, <2>1
    <3>2. pre[a + k] = pre[a] \o sub(k)
      BY <1>2, <3>1
    <3>3. SubSeq(items, a + 1, m) = sub(k) \o <<items[m]>>
      <4> HIDE DEF m
      <4>1. SubSeq(items, a + 1, m) = SubSeq(items, a + 1, m - 1) \o <<items[m]>>
        BY <3>1, SubSeqRecursiveSecond
      <4> QED
        BY <3>1, <4>1
    <3>4. sub(k) \in Seq(Items)
      <4>1. \A i \in a + 1 .. a + k : items[i] \in Items
        BY <1>0, <3>1
      <4> QED
        BY <3>1, <4>1, SubSeqProperties
    <3>5. <<items[m]>> \in Seq(Items)
      BY <3>1
    <3>6. sub(k + 1) = sub(k) \o <<items[m]>>
      BY <3>3
    <3> HIDE DEF m, sub
    <3>7. pre[m] = pre[m - 1] \o <<items[m]>>
      BY <3>1 DEF Takes
    <3>8. pre[m] = (pre[a] \o sub(k)) \o <<items[m]>>
      BY <3>1, <3>2, <3>7
    <3>9. pre[m] = pre[a] \o (sub(k) \o <<items[m]>>)
      <4> DEFINE x == pre[a]
                 y == sub(k)
                 z == <<items[m]>>
      <4>1. x \in Seq(Items) /\ y \in Seq(Items) /\ z \in Seq(Items) /\ pre[m] = (x \o y) \o z
        BY <1>0, <3>4, <3>5, <3>8
      <4> HIDE DEF x, y, z
      <4>2. (x \o y) \o z = x \o (y \o z)
        BY <4>1, ConcatAssociative, SMTT(40)
      <4> QED
        BY <4>1, <4>2 DEF x, y, z
    <3> QED
      BY <3>6, <3>9
  <2>2. Good(k + 1)
    <3> HIDE DEF sub
    <3> QED
      BY <2>1
  <2>3. k + 1 \in Nat
    OBVIOUS
  <2> HIDE DEF Good
  <2> QED
    BY <2>2, <2>3, ZenonT(40)
<1> HIDE DEF K
<1>3. b - a \in K
  BY <1>0, <1>1, <1>2, Inductive
<1> DEFINE c == b - a
<1>4. c \in K /\ a + c = b /\ a + c <= b
  BY <1>0, <1>3
<1> HIDE DEF c
<1>5. pre[a + c] = pre[a] \o SubSeq(items, a + 1, a + c)
  BY <1>4 DEF K
<1> QED
  BY <1>4, <1>5, Zenon DEF Span

\* What is taken up to b is what is taken up to a, and then a list.
Ends(pre, a, b, kept) == pre[b] = pre[a] \o kept

\* All of the indices from a on to b are taken, and then a list.
Follows(pre, items, T, n, a, b, rest) ==
  /\ Takes(pre, items, T, n) /\ n \in 0 .. Len(items) /\ a \in 0 .. n /\ b \in a .. n
  /\ \A i \in a + 1 .. b : i \in T
  /\ rest \in Seq(Items) /\ Ends(pre, b, n, rest)

(* So what follows them comes after that span.                              *)
LEMMA TakenBefore ==
  ASSUME NEW items \in Seq(Items), NEW pre, NEW T, NEW n, NEW a, NEW b, NEW rest,
         Follows(pre, items, T, n, a, b, rest)
  PROVE  Ends(pre, a, n, Span(items, a + 1, b) \o rest)
<1>0. /\ Takes(pre, items, T, n) /\ n \in 0 .. Len(items) /\ a \in 0 .. n /\ b \in a .. n
      /\ \A i \in a + 1 .. b : i \in T
      /\ rest \in Seq(Items) /\ pre[n] = pre[b] \o rest
  BY DEF Follows, Ends
<1>1. pre[b] = pre[a] \o Span(items, a + 1, b)
  BY <1>0, AllTaken, Zenon
<1>2. pre[a] \in Seq(Items)
  BY <1>0 DEF Takes
<1>3. Span(items, a + 1, b) \in Seq(Items)
  <2> DEFINE c == a + 1
  <2>1. c \in 1 .. Len(items) + 1 /\ b \in c - 1 .. Len(items)
    BY <1>0
  <2> HIDE DEF c
  <2> QED
    BY <2>1, SpansAreItems DEF c
<1> DEFINE x == pre[a]
           y == Span(items, a + 1, b)
<1> HIDE DEF x, y
<1>4. (x \o y) \o rest = x \o (y \o rest)
  <2>1. x \in Seq(Items) /\ y \in Seq(Items) /\ rest \in Seq(Items)
    BY <1>0, <1>2, <1>3 DEF x, y
  <2> QED
    BY <2>1, ConcatAssociative
<1> QED
  BY <1>0, <1>1, <1>4 DEF x, y, Ends

\* From a message on, the selection has decided on every message once, on no
\* message before it, and has kept the messages it decided in, in their order.
Chosen(items, acc, lo) ==
  /\ \A i \in lo .. Len(items) : Once(acc.decisions, i)
  /\ \A i \in Int \ (lo .. Len(items)) : Never(acc.decisions, i)
  /\ \A T, pre : /\ Takes(pre, items, T, Len(items))
                 /\ \A i \in lo .. Len(items) : i \in T <=> Sent(acc.decisions, i)
                 => Ends(pre, lo - 1, Len(items), acc.kept)

(* The group before it is decided on, and taken as a whole or not at all.   *)
LEMMA GroupIsChosen ==
  ASSUME NEW items \in Seq(Items), NEW room \in Int, NEW acc \in Keeping(room),
         NEW group \in GroupsOf(items), NEW lo \in 1 .. Len(items) + 1, group.last = lo - 1,
         Chosen(items, acc, lo)
  PROVE  Chosen(items, KeepGroup(items, room, acc, group), group.first)
<1> DEFINE n == Len(items)
           first == group.first
           last == group.last
           span == Span(items, first, last)
           cost == CountAll(span)
           out == ~group.sendable \/ acc.spent + cost > room
           d == IF out THEN Decision("history", first .. last, "excluded", 0)
                ELSE Decision("history", first .. last, "included", cost)
           old == acc.decisions
           new == Append(old, d)
           next == KeepGroup(items, room, acc, group)
<1>1. n \in Nat /\ first \in 1 .. n /\ last \in first .. n /\ lo = last + 1
  <2>1. PICK i \in 1 .. n : group = GroupAt(items, i)
    BY DEF GroupsOf
  <2>2. GroupEnd(items, i) \in i .. n
    BY GroupsEnd
  <2>3. n \in Nat
    OBVIOUS
  <2> QED
    BY <2>1, <2>2, <2>3 DEF GroupAt
<1>2. span \in Seq(Items)
  <2>1. first \in 1 .. n + 1 /\ last \in first - 1 .. n
    BY <1>1
  <2> HIDE DEF first, last
  <2> QED
    BY <2>1, SpansAreItems
<1>3. cost \in Nat
  BY <1>2, CountAllIsNat
<1>4. /\ d \in Decided
      /\ \A i : About(d, i) <=> i \in first .. last
      /\ \A i : Goes(d, i) <=> i \in first .. last /\ ~out
  <2>1. first .. last \in SUBSET Int
    BY <1>1
  <2>2. CASE out
    <3>1. d = Decision("history", first .. last, "excluded", 0)
      BY <2>2
    <3> HIDE DEF d, out
    <3> QED
      BY <2>1, <2>2, <3>1 DEF Decision, Decided, Sources, Verdicts, About, Goes
  <2>3. CASE ~out
    <3>1. d = Decision("history", first .. last, "included", cost)
      BY <2>3
    <3> HIDE DEF d, out, cost
    <3> QED
      BY <1>3, <2>1, <2>3, <3>1 DEF Decision, Decided, Sources, Verdicts, About, Goes
  <2> QED
    BY <2>2, <2>3
<1>5. old \in Seq(Decided) /\ acc.kept \in Seq(Items)
  BY DEF Keeping
<1>6. next.decisions = new /\ next.kept = IF out THEN acc.kept ELSE span \o acc.kept
  <2>1. acc = [spent |-> acc.spent, kept |-> acc.kept, decisions |-> acc.decisions]
    BY DEF Keeping
  <2>2. next = IF out THEN [acc EXCEPT !.decisions = new]
               ELSE [spent |-> acc.spent + cost, kept |-> span \o acc.kept, decisions |-> new]
    BY DEF KeepGroup
  <2> HIDE DEF next, new, out, cost, span
  <2>3. CASE out
    <3>1. next = [spent |-> acc.spent, kept |-> acc.kept, decisions |-> new]
      BY <2>1, <2>2, <2>3
    <3> QED
      BY <2>3, <3>1
  <2>4. CASE ~out
    BY <2>2, <2>4
  <2> QED
    BY <2>3, <2>4
<1>7. /\ \A i \in lo .. n : Once(old, i)
      /\ \A i \in Int \ (lo .. n) : Never(old, i)
  BY DEF Chosen
<1>8. ASSUME NEW T, NEW pre, Takes(pre, items, T, n),
             \A i \in lo .. n : i \in T <=> Sent(old, i)
      PROVE  Ends(pre, lo - 1, n, acc.kept)
  BY <1>8 DEF Chosen
<1> HIDE DEF n, first, last, span, cost, out, d, old, new, next
<1>9. ASSUME NEW i
      PROVE  /\ Never(old, i) /\ ~About(d, i) => Never(new, i)
             /\ Once(old, i) /\ ~About(d, i) => Once(new, i)
             /\ Never(old, i) /\ About(d, i) => Once(new, i)
             /\ Sent(new, i) <=> Sent(old, i) \/ Goes(d, i)
  BY <1>4, <1>5, DecisionAppended DEF new
<1>10. ASSUME NEW i \in first .. n
       PROVE  Once(new, i)
  <2>1. CASE i \in first .. last
    <3>1. i \in Int \ (lo .. n)
      BY <1>1, <2>1
    <3> QED
      BY <1>4, <1>7, <1>9, <2>1, <3>1
  <2>2. CASE i \notin first .. last
    <3>1. i \in lo .. n
      BY <1>1, <2>2
    <3> QED
      BY <1>4, <1>7, <1>9, <2>2, <3>1
  <2> QED
    BY <2>1, <2>2
<1>11. ASSUME NEW i \in Int \ (first .. n)
       PROVE  Never(new, i)
  <2>1. i \in Int \ (lo .. n) /\ i \notin first .. last
    BY <1>1
  <2> QED
    BY <1>4, <1>7, <1>9, <2>1
<1>12. ASSUME NEW T, NEW pre, Takes(pre, items, T, n),
              \A i \in first .. n : i \in T <=> Sent(new, i)
       PROVE  Ends(pre, first - 1, n, next.kept)
  <2>1. \A i \in lo .. n : i \in T <=> Sent(old, i)
    <3>1. \A i \in lo .. n : i \in first .. n /\ i \notin first .. last
      BY <1>1
    <3> QED
      BY <1>4, <1>9, <1>12, <3>1
  <2>2. Ends(pre, last, n, acc.kept)
    <3>1. Ends(pre, lo - 1, n, acc.kept)
      BY <1>8, <1>12, <2>1
    <3>2. lo - 1 = last
      BY <1>1
    <3> QED
      BY <3>1, <3>2
  <2>3. \A i \in first .. last : i \in T <=> ~out
    <3>1. \A i \in first .. last : i \in first .. n /\ i \in Int \ (lo .. n)
      BY <1>1
    <3>2. \A i \in first .. last : ~Sent(old, i)
      BY <1>7, <3>1 DEF Never, Sent, Goes
    <3> QED
      BY <1>4, <1>9, <1>12, <3>1, <3>2
  <2> DEFINE a == first - 1
  <2>4. a \in 0 .. n /\ last \in a .. n /\ a + 1 = first /\ n \in 0 .. Len(items)
    BY <1>1 DEF n
  <2> HIDE DEF a
  <2>5. CASE out
    <3>1. pre[last] = pre[a]
      BY <1>1, <1>12, <2>3, <2>4, <2>5, NoneTaken
    <3> QED
      BY <1>6, <2>2, <2>5, <3>1 DEF a, Ends
  <2>6. CASE ~out
    <3>1. \A i \in a + 1 .. last : i \in T
      BY <2>3, <2>4, <2>6
    <3>2. Ends(pre, a, n, Span(items, a + 1, last) \o acc.kept)
      <4>1. Follows(pre, items, T, n, a, last, acc.kept)
        BY <1>5, <1>12, <2>2, <2>4, <3>1 DEF Follows
      <4> QED
        BY <4>1, TakenBefore
    <3> QED
      BY <1>6, <2>4, <2>6, <3>2 DEF a, span
  <2> QED
    BY <2>5, <2>6
<1>13. Chosen(items, next, first)
  BY <1>6, <1>10, <1>11, <1>12 DEF Chosen, n
<1> QED
  BY <1>13 DEF next, first

\* The first message of the groups decided on, when there are some.
From(items, r, k) == IF k = 0 THEN Len(items) + 1 ELSE r[k].first

(* From the newest group back, each ends where the ones before it began.    *)
LEMMA GroupsGoBack ==
  ASSUME NEW items \in Seq(Items)
  PROVE  LET r == Reverse(HistoryGroups(items))
         IN /\ Len(r) \in Nat
            /\ From(items, r, Len(r)) = 1
            /\ \A k \in 0 .. Len(r) : From(items, r, k) \in 1 .. Len(items) + 1
            /\ \A k \in 1 .. Len(r) : /\ r[k] \in GroupsOf(items)
                                      /\ r[k].last = From(items, r, k - 1) - 1
<1> DEFINE gs == HistoryGroups(items)
           n == Len(items)
           m == Len(gs)
           r == Reverse(gs)
<1>1. gs \in Seq(GroupsOf(items)) /\ Tiles(gs, 1, n)
  BY HistoryIsGrouped
<1>2. n \in Nat /\ \A group \in GroupsOf(items) : group.first \in 1 .. n
  BY DEF GroupsOf, GroupAt
<1> HIDE DEF gs, n
<1>3. m \in Nat /\ Len(r) = m /\ \A k \in 1 .. m : r[k] = gs[m - k + 1] /\ m - k + 1 \in 1 .. m
  BY <1>1 DEF Reverse
<1>4. \A k \in 1 .. m : gs[k] \in GroupsOf(items)
  BY <1>1
<1>5. /\ gs = <<>> => 1 = n + 1
      /\ gs # <<>> => gs[1].first = 1 /\ gs[m].last = n
      /\ \A k \in 1 .. m : k + 1 \in 1 .. m => gs[k + 1].first = gs[k].last + 1
  BY <1>1 DEF Tiles
<1>6. gs # <<>> <=> m > 0
  BY <1>1, EmptySeq
<1> HIDE DEF m, r
<1>7. From(items, r, m) = 1
  <2>1. CASE m = 0
    BY <1>2, <1>3, <1>5, <1>6, <2>1 DEF From, n
  <2>2. CASE m # 0
    <3>1. m \in 1 .. m /\ m - m + 1 = 1 /\ m > 0
      BY <1>3, <2>2
    <3> QED
      BY <1>3, <1>5, <1>6, <2>2, <3>1 DEF From
  <2> QED
    BY <2>1, <2>2
<1>8. ASSUME NEW k \in 0 .. m
      PROVE  From(items, r, k) \in 1 .. n + 1
  <2>1. CASE k = 0
    BY <1>2, <2>1 DEF From, n
  <2>2. CASE k # 0
    <3>1. k \in 1 .. m
      BY <1>3, <2>2
    <3>2. r[k].first \in 1 .. n
      BY <1>2, <1>3, <1>4, <3>1
    <3> QED
      BY <1>2, <2>2, <3>2 DEF From
  <2> QED
    BY <2>1, <2>2
<1>9. ASSUME NEW k \in 1 .. m
      PROVE  r[k] \in GroupsOf(items) /\ r[k].last = From(items, r, k - 1) - 1
  <2>1. r[k] \in GroupsOf(items)
    BY <1>3, <1>4
  <2>2. CASE k = 1
    <3>1. m - k + 1 = m /\ k - 1 = 0 /\ m > 0
      BY <1>3, <2>2
    <3>2. r[k].last = n
      BY <1>3, <1>5, <1>6, <3>1
    <3> QED
      BY <1>2, <2>1, <3>1, <3>2 DEF From, n
  <2>3. CASE k # 1
    <3> DEFINE i == m - k + 1
               l == k - 1
    <3>1. /\ i \in 1 .. m /\ i + 1 \in 1 .. m /\ l \in 1 .. m /\ l # 0 /\ m - l + 1 = i + 1
          /\ m - k + 1 = i
      BY <1>3, <2>3
    <3>2. r[k] = gs[m - k + 1] /\ r[l] = gs[m - l + 1]
      BY <1>3, <3>1
    <3> HIDE DEF i, l
    <3>3. r[k] = gs[i] /\ r[l] = gs[i + 1]
      BY <3>1, <3>2
    <3>4. gs[i + 1].first = gs[i].last + 1
      BY <1>5, <3>1
    <3>5. gs[i].last \in Int
      <4>1. gs[i] \in GroupsOf(items)
        BY <1>4, <3>1
      <4>2. PICK j \in 1 .. n : gs[i] = GroupAt(items, j)
        BY <4>1 DEF GroupsOf, n
      <4>3. GroupEnd(items, j) \in j .. n
        BY GroupsEnd DEF n
      <4> QED
        BY <1>2, <4>2, <4>3 DEF GroupAt
    <3>6. From(items, r, l) = gs[i].last + 1
      BY <3>1, <3>3, <3>4 DEF From
    <3> QED
      BY <2>1, <3>3, <3>5, <3>6 DEF l
  <2> QED
    BY <2>2, <2>3
<1> QED
  BY <1>3, <1>7, <1>8, <1>9 DEF r, gs, n

(* Before the first group, nothing is decided and nothing is kept.          *)
LEMMA NothingIsChosen ==
  ASSUME NEW items \in Seq(Items)
  PROVE  Chosen(items, [spent |-> 0, kept |-> <<>>, decisions |-> <<>>], Len(items) + 1)
<1> DEFINE n == Len(items)
           acc == [spent |-> 0, kept |-> <<>>, decisions |-> <<>>]
<1>1. n \in Nat
  OBVIOUS
<1>2. acc.kept = <<>> /\ acc.decisions = <<>>
  OBVIOUS
<1>3. \A i : Never(<<>>, i)
  BY DEF Never
<1> HIDE DEF n, acc
<1>4. ASSUME NEW T, NEW pre, Takes(pre, items, T, n)
      PROVE  Ends(pre, n + 1 - 1, n, <<>>)
  <2>1. pre[n] \in Seq(Items)
    BY <1>1, <1>4 DEF Takes
  <2>2. pre[n] \o <<>> = pre[n]
    BY <2>1, ConcatEmptySeq
  <2>3. n + 1 - 1 = n
    BY <1>1
  <2> QED
    BY <2>2, <2>3 DEF Ends
<1>5. n + 1 .. n = {}
  BY <1>1
<1>6. Chosen(items, acc, n + 1)
  BY <1>2, <1>3, <1>4, <1>5 DEF Chosen, n
<1> QED
  BY <1>6 DEF acc, n

(* The selection decides on every message of the history, once.             *)
LEMMA SelectionChooses ==
  ASSUME NEW items \in Seq(Items), NEW room \in Int
  PROVE  Chosen(items, SelectHistory(items, room), 1)
<1> DEFINE r == Reverse(HistoryGroups(items))
           m == Len(r)
<1>1. PICK iter : Selects(iter, items, room, r) /\ SelectHistory(items, room) = iter[1 .. m]
  BY SelectionFolds
<1>2. /\ m \in Nat
      /\ From(items, r, m) = 1
      /\ \A k \in 0 .. m : From(items, r, k) \in 1 .. Len(items) + 1
      /\ \A k \in 1 .. m : /\ r[k] \in GroupsOf(items)
                           /\ r[k].last = From(items, r, k - 1) - 1
  BY GroupsGoBack
<1> HIDE DEF r
<1>3. /\ iter[{}] = [spent |-> 0, kept |-> <<>>, decisions |-> <<>>]
      /\ \A k \in 1 .. m : iter[1 .. k] = KeepGroup(items, room, iter[1 .. k - 1], r[k])
      /\ \A k \in 0 .. m : iter[1 .. k] \in Keeping(room)
  BY <1>1 DEF Selects
<1> HIDE DEF m
<1> DEFINE J == {k \in Nat : k <= m => Chosen(items, iter[1 .. k], From(items, r, k))}
<1>4. 0 \in J
  <2>1. 1 .. 0 = {} /\ From(items, r, 0) = Len(items) + 1
    BY DEF From
  <2>2. Chosen(items, iter[1 .. 0], From(items, r, 0))
    BY <1>3, <2>1, NothingIsChosen
  <2> QED
    BY <2>2
<1>5. ASSUME NEW k \in Nat, k \in J
      PROVE  k + 1 \in J
  <2> DEFINE l == k + 1
             acc == iter[1 .. k]
             lo == From(items, r, k)
  <2>1. ASSUME l <= m
        PROVE  Chosen(items, iter[1 .. l], From(items, r, l))
    <3>1. l \in 1 .. m /\ l - 1 = k /\ k \in 0 .. m /\ k <= m /\ l # 0
      BY <1>2, <2>1
    <3>2. Chosen(items, acc, lo)
      BY <1>5, <3>1
    <3> HIDE DEF l
    <3>3. iter[1 .. l] = KeepGroup(items, room, iter[1 .. l - 1], r[l])
      BY <1>3, <3>1
    <3>4. iter[1 .. l] = KeepGroup(items, room, acc, r[l])
      BY <3>1, <3>3
    <3>5. acc \in Keeping(room) /\ lo \in 1 .. Len(items) + 1
      BY <1>2, <1>3, <3>1
    <3>6. r[l] \in GroupsOf(items) /\ r[l].last = lo - 1
      BY <1>2, <3>1
    <3>7. From(items, r, l) = r[l].first
      BY <3>1 DEF From
    <3> HIDE DEF acc, lo
    <3>8. Chosen(items, KeepGroup(items, room, acc, r[l]), r[l].first)
      BY <3>2, <3>5, <3>6, GroupIsChosen
    <3> QED
      BY <3>4, <3>7, <3>8
  <2> QED
    BY <2>1
<1> HIDE DEF J
<1>6. m \in J
  BY <1>2, <1>4, <1>5, Inductive
<1>7. Chosen(items, iter[1 .. m], From(items, r, m))
  BY <1>2, <1>6 DEF J
<1> QED
  BY <1>1, <1>2, <1>7

(* The request's own decisions reserve the messages its tail depends on.    *)
LEMMA RequestDecidesOnTail ==
  ASSUME NEW j, JobIsTyped(j), NEW framed \in Nat, NEW i \in Int
  PROVE  LET ds == RequestDecisions(j, framed)
         IN IF i \in j.start .. Len(j.history) THEN Once(ds, i) /\ Sent(ds, i)
            ELSE Never(ds, i) /\ ~Sent(ds, i)
<1> DEFINE a == Decision("lane", {}, IF j.lane THEN "included" ELSE "excluded", Lane(j))
           b == Decision("reserve", {}, "reserved", j.setting.reserve)
           c == Decision("new_input", DOMAIN j.tail, "included", CountAll(j.tail))
           d == Decision("history", j.start .. Len(Asked(j)), "reserved", CountAll(Dependency(j)))
           e == Decision("framing", {}, "reserved", IF framed > 0 THEN Overhead ELSE 0)
           ds == RequestDecisions(j, framed)
<1>1. ds = <<a, b, c, d, e>>
  BY DEF RequestDecisions
<1>2. /\ ~About(a, i) /\ ~About(b, i) /\ ~About(c, i) /\ ~About(e, i)
      /\ ~Goes(a, i) /\ ~Goes(b, i) /\ ~Goes(c, i) /\ ~Goes(e, i)
      /\ About(d, i) <=> i \in j.start .. Len(j.history)
      /\ Goes(d, i) <=> About(d, i)
  BY DEF Decision, About, Goes, Asked
<1> HIDE DEF a, b, c, d, e, ds
<1>3. /\ Len(ds) = 5
      /\ ds[1] = a /\ ds[2] = b /\ ds[3] = c /\ ds[4] = d /\ ds[5] = e
  BY <1>1
<1>4. \A k \in 1 .. 5 : k = 1 \/ k = 2 \/ k = 3 \/ k = 4 \/ k = 5
  OBVIOUS
<1>5. \A k \in 1 .. 5 : (About(ds[k], i) <=> k = 4 /\ About(d, i)) /\ (Goes(ds[k], i) => k = 4)
  BY <1>2, <1>3, <1>4
<1>6. 4 \in 1 .. 5
  OBVIOUS
<1>7. CASE i \in j.start .. Len(j.history)
  <2>1. About(ds[4], i) /\ Goes(ds[4], i)
    BY <1>2, <1>3, <1>7
  <2>2. Once(ds, i)
    BY <1>3, <1>5, <1>6, <2>1 DEF Once
  <2>3. Sent(ds, i)
    BY <1>3, <1>6, <2>1 DEF Sent
  <2> QED
    BY <1>7, <2>2, <2>3 DEF ds
<1>8. CASE i \notin j.start .. Len(j.history)
  <2>1. ~About(d, i) /\ ~Goes(d, i)
    BY <1>2, <1>8
  <2>2. Never(ds, i)
    BY <1>3, <1>5, <2>1 DEF Never
  <2>3. ~Sent(ds, i)
    BY <1>3, <1>5, <2>1 DEF Sent
  <2> QED
    BY <1>8, <2>2, <2>3 DEF ds
<1> QED
  BY <1>7, <1>8

\* Every message of the history is named once, and what is sent of it are the
\* messages that are taken, in their order.
DecidesOnAll(j, framed, room, context) ==
  LET chosen == SelectHistory(Span(Asked(j), 1, j.start - 1), room)
      ds == context \o RequestDecisions(j, framed) \o chosen.decisions
      taken == {i \in DOMAIN j.history : Sent(ds, i)}
  IN /\ \A i \in DOMAIN j.history : Once(ds, i)
     /\ chosen.kept \o Dependency(j) = FlattenSeq(Pieces(j.history, taken))

(* So it is by the decisions of a plan, whatever room it has.               *)
LEMMA HistoryIsExplained ==
  ASSUME NEW j, JobIsTyped(j), NEW framed \in Nat, NEW room \in Int,
         NEW context \in Seq(Decided), Silent(context)
  PROVE  DecidesOnAll(j, framed, room, context)
<1> DEFINE h == j.history
           N == Len(h)
           n == j.start - 1
           short == Span(Asked(j), 1, n)
           chosen == SelectHistory(short, room)
           own == RequestDecisions(j, framed)
           ds == context \o own \o chosen.decisions
           taken == {i \in DOMAIN h : Sent(ds, i)}
<1>1. h \in Seq(Items) /\ N \in Nat /\ n \in 0 .. N /\ n + 1 = j.start /\ DOMAIN h = 1 .. N
  <2>1. h \in Seq(Items) /\ j.start \in 1 .. N + 1
    BY DEF JobIsTyped
  <2> QED
    BY <2>1
<1>2. Asked(j) = h
  BY DEF Asked
<1> HIDE DEF h, N, n
<1>3. short \in Seq(Items) /\ Len(short) = n /\ \A i \in 1 .. n : short[i] = h[i]
  <2>1. 1 \in 1 .. Len(h) + 1 /\ n \in 1 - 1 .. Len(h)
    BY <1>1 DEF N
  <2>2. Span(h, 1, n) \in Seq(Items)
    BY <1>1, <2>1, SpansAreItems
  <2>3. /\ Len(SubSeq(h, 1, n)) = IF 1 <= n THEN n - 1 + 1 ELSE 0
        /\ \A i \in 1 .. n - 1 + 1 : SubSeq(h, 1, n)[i] = h[1 + i - 1]
    <3>1. \A i \in 1 .. n : h[i] \in Items
      BY <1>1 DEF N
    <3> QED
      BY <1>1, <3>1, SubSeqProperties
  <2>4. n - 1 + 1 = n /\ (IF 1 <= n THEN n - 1 + 1 ELSE 0) = n /\ \A i \in 1 .. n : 1 + i - 1 = i
    BY <1>1
  <2> QED
    BY <1>2, <2>2, <2>3, <2>4 DEF Span
<1> HIDE DEF short
<1>4. Chosen(short, chosen, 1) /\ chosen \in Keeping(room)
  BY <1>3, SelectionChooses, SelectionFits
<1> HIDE DEF chosen
<1>5. /\ \A i \in 1 .. n : Once(chosen.decisions, i)
      /\ \A i \in Int \ (1 .. n) : Never(chosen.decisions, i)
      /\ chosen.decisions \in Seq(Decided) /\ chosen.kept \in Seq(Items)
  BY <1>3, <1>4 DEF Chosen, Keeping
<1>6. own \in Seq(Decided)
  BY RequestDecisionsCost
<1>7. ASSUME NEW i \in 1 .. N
      PROVE  IF i \in n + 1 .. N THEN Once(own, i) /\ Sent(own, i)
             ELSE Never(own, i) /\ ~Sent(own, i)
  <2>1. i \in Int
    BY <1>1
  <2> QED
    BY <1>1, <2>1, RequestDecidesOnTail DEF h, N
<1>8. \A i : Never(context, i) /\ ~Sent(context, i)
  BY DEF Silent, Never, Sent, About, Goes
<1> HIDE DEF own
<1> DEFINE both == context \o own
<1>9. ASSUME NEW i
      PROVE  /\ both \in Seq(Decided)
             /\ Never(own, i) => Never(both, i)
             /\ Once(own, i) => Once(both, i)
             /\ Sent(both, i) <=> Sent(own, i)
  BY <1>6, <1>8, DecisionsJoin
<1> HIDE DEF both
<1>10. ASSUME NEW i
       PROVE  /\ Never(both, i) /\ Once(chosen.decisions, i) => Once(ds, i)
              /\ Once(both, i) /\ Never(chosen.decisions, i) => Once(ds, i)
              /\ Sent(ds, i) <=> Sent(both, i) \/ Sent(chosen.decisions, i)
  BY <1>5, <1>9, DecisionsJoin DEF both
<1> HIDE DEF ds
<1>11. ASSUME NEW i \in 1 .. N
       PROVE  /\ Once(ds, i)
              /\ i \in 1 .. n => (Sent(ds, i) <=> Sent(chosen.decisions, i))
              /\ i \in n + 1 .. N => Sent(ds, i)
  <2>1. CASE i \in n + 1 .. N
    <3>1. i \in Int \ (1 .. n)
      BY <1>1, <2>1
    <3> QED
      BY <1>5, <1>7, <1>9, <1>10, <2>1, <3>1
  <2>2. CASE i \notin n + 1 .. N
    <3>1. i \in 1 .. n
      BY <1>1, <2>2
    <3> QED
      BY <1>5, <1>7, <1>9, <1>10, <2>2, <3>1
  <2> QED
    BY <2>1, <2>2
<1>12. \A i \in 1 .. N : i \in taken <=> Sent(ds, i)
  BY <1>1
<1> HIDE DEF taken
<1>13. PICK pre : Takes(pre, h, taken, N) /\ FlattenSeq(Pieces(h, taken)) = pre[N]
  BY <1>1, PrefixesExist DEF N
<1>14. Takes(pre, short, taken, n)
  <2>1. 0 .. n \subseteq 0 .. N /\ 1 .. n \subseteq 1 .. N
    BY <1>1
  <2> QED
    BY <1>3, <1>13, <2>1 DEF Takes
<1>15. pre[n] = chosen.kept
  <2>1. \A i \in 1 .. n : i \in taken <=> Sent(chosen.decisions, i)
    <3>1. 1 .. n \subseteq 1 .. N
      BY <1>1
    <3> QED
      BY <1>11, <1>12, <3>1
  <2>2. Ends(pre, 1 - 1, n, chosen.kept)
    BY <1>3, <1>4, <1>14, <2>1 DEF Chosen
  <2>3. pre[1 - 1] = <<>>
    BY <1>14 DEF Takes
  <2>4. <<>> \o chosen.kept = chosen.kept
    BY <1>5, ConcatEmptySeq
  <2> QED
    BY <2>2, <2>3, <2>4 DEF Ends
<1>16. pre[N] = pre[n] \o Span(h, n + 1, N)
  <2>1. \A i \in n + 1 .. N : i \in taken
    <3>1. \A i \in n + 1 .. N : i \in 1 .. N
      BY <1>1
    <3> QED
      BY <1>11, <1>12, <3>1
  <2>2. N \in 0 .. Len(h) /\ n \in 0 .. N /\ N \in n .. N
    BY <1>1 DEF N
  <2> QED
    BY <1>1, <1>13, <2>1, <2>2, AllTaken, Zenon
<1>17. Dependency(j) = Span(h, n + 1, N)
  BY <1>1, <1>2 DEF Dependency, N
<1>18. /\ \A i \in DOMAIN h : Once(ds, i)
       /\ chosen.kept \o Dependency(j) = FlattenSeq(Pieces(h, taken))
  BY <1>1, <1>11, <1>13, <1>15, <1>16, <1>17
<1> QED
  BY <1>18 DEF DecidesOnAll, h, ds, own, chosen, short, taken, n

(* So the plan explains what it sends of the history.                       *)
LEMMA PlanIsExplained ==
  ASSUME NEW j, NEW p, p.decisions \in Seq(Decided),
         \A i \in DOMAIN j.history : Once(p.decisions, i),
         p.before = FlattenSeq(Pieces(j.history,
                                      {i \in DOMAIN j.history : Sent(p.decisions, i)}))
  PROVE  Explained(j, p)
<1> DEFINE ds == p.decisions
           about(i) == {k \in DOMAIN ds : ds[k].source = "history" /\ i \in ds[k].part}
           in(i) == \E k \in about(i) : ds[k].verdict \in {"included", "reserved"}
<1>1. DOMAIN ds = 1 .. Len(ds)
  OBVIOUS
<1>2. ASSUME NEW i \in DOMAIN j.history
      PROVE  Cardinality(about(i)) = 1
  <2>1. PICK k \in 1 .. Len(ds) :
           About(ds[k], i) /\ \A l \in 1 .. Len(ds) : About(ds[l], i) => l = k
    BY <1>2 DEF Once
  <2>2. about(i) = {k}
    BY <1>1, <2>1 DEF About
  <2> QED
    BY <2>2, FS_Singleton
<1>3. \A i : in(i) <=> Sent(ds, i)
  BY <1>1 DEF Sent, Goes, About
<1>4. Pieces(j.history, {i \in DOMAIN j.history : Sent(ds, i)})
         = [i \in DOMAIN j.history |-> IF in(i) THEN <<j.history[i]>> ELSE <<>>]
  <2> HIDE DEF in, ds
  <2> QED
    BY <1>3 DEF Pieces
<1> QED
  BY <1>2, <1>4 DEF Explained

(***************************************************************************)
(* The plan that is made.                                                  *)
(***************************************************************************)
(* What is made of a retrieval: a plan that accounts for itself, or a       *)
(* refusal of what could not have fitted.                                   *)
LEMMA PlannedIsRight ==
  ASSUME NEW j, JobIsTyped(j), JobFits(j), DependencyIsMet(j),
         NEW pools \in [Sections -> Seq(Nat)], ContextBudget(j) > 0 \/ pools = EmptyPools
  PROVE  PlanIsRight(j, Planned(j, pools))
<1> DEFINE s == j.setting
           max == s.max
           v == s.reserve
           r == RequiredTokens(j)
           z == SystemTokens(s)
           b == ContextBudget(j)
           c == Allocate(s, b, pools)
           profile == ProfileTokens(s, b)
           A == AssembledTokens(s, profile, c.kept)
           framed == PromptTokens(s, c)
           room == max - r - framed
           chosen == SelectHistory(Span(Asked(j), 1, j.start - 1), room)
           dep == Dependency(j)
           spent == chosen.spent
           input == r - v + framed + spent
           plan == [kind |-> "planned", lane |-> j.lane, prompt |-> framed, kept |-> c.kept,
                    before |-> chosen.kept \o dep, after |-> j.tail,
                    input |-> input, remaining |-> max - input - v,
                    decisions |-> c.decisions \o RequestDecisions(j, framed)
                                  \o chosen.decisions]
           p == Planned(j, pools)
<1>1. /\ s \in Settings /\ max \in Nat /\ v \in Nat
      /\ Lane(j) \in Nat /\ CountAll(j.tail) \in Nat
      /\ dep \in Seq(Items) /\ CountAll(dep) \in Nat
      /\ Span(Asked(j), 1, j.start - 1) \in Seq(Items)
      /\ r = Lane(j) + CountAll(j.tail) + CountAll(dep) + v
      /\ r \in Nat /\ b \in Nat
      /\ b = IF max - r - Overhead >= 0 THEN max - r - Overhead ELSE 0
  BY JobCosts
<1>2. v <= max /\ r <= max /\ z <= b
  BY DEF JobFits
<1>3. z \in Nat /\ profile \in Nat
  BY <1>1, <1>2, SettingIsTyped, ProfileFits
<1>4. /\ c.kept \in Kept /\ c.profile = profile
      /\ c.decisions \in Seq(Decided) /\ Silent(c.decisions)
      /\ A <= b /\ SumOfCosts(c.decisions) = A
      /\ \A section \in Sections : EndsCut(c.kept, section) =>
            AssembledTokens(s, profile, Lengthened(c.kept, section)) > b
  BY <1>1, <1>2, AllocationFits
<1>5. A \in Nat /\ A >= z + profile
  <2> HIDE DEF c, profile
  <2> QED
    BY <1>1, <1>3, <1>4, AssembledIsNat
<1>6. /\ HasSystem(s) => HasPrompt(s, c)
      /\ ~HasPrompt(s, c) => A = 0
  BY <1>1, <1>3, <1>4, UnpromptedIsFree
<1>7. Overhead \in Nat /\ Overhead > 0
  BY ContextAssumption
<1>8. framed = IF HasPrompt(s, c) THEN A + Overhead ELSE 0
  BY <1>4 DEF PromptTokens
<1>9. p = IF room < 0 \/ input + v > max THEN Refusal("budget") ELSE plan
  BY DEF Planned, WithContext, Framed, WithRoom, WithHistory
<1>10. Mandatory(j) = r + IF HasSystem(s) THEN z + Overhead ELSE 0
  BY MandatoryIs
<1>11. ASSUME b = 0, HasPrompt(s, c), ~(b > 0)
       PROVE  HasSystem(s)
  <2>1. pools = EmptyPools
    BY <1>11
  <2>2. \A section \in Sections : c.kept[section] = <<>>
    BY <1>1, <2>1, NothingOffered
  <2>3. c.profile = 0
    <3> HIDE DEF A, b, z, profile, c
    <3> QED
      BY <1>3, <1>4, <1>5, <1>11
  <2> QED
    BY <1>11, <2>2, <2>3 DEF HasPrompt
<1> HIDE DEF s, max, v, r, z, b, c, profile, A, framed, dep, p
<1>12. framed \in Nat /\ (framed > 0 <=> HasPrompt(s, c))
  BY <1>5, <1>7, <1>8
<1>13. room \in Int
  BY <1>1, <1>12
<1>14. chosen \in Keeping(room)
  <2> HIDE DEF room
  <2> QED
    BY <1>1, <1>13, SelectionFits
<1> DEFINE made == c.decisions \o RequestDecisions(j, framed) \o chosen.decisions
<1>29. /\ \A i \in DOMAIN j.history : Once(made, i)
       /\ chosen.kept \o dep =
             FlattenSeq(Pieces(j.history, {i \in DOMAIN j.history : Sent(made, i)}))
  <2>1. room \in Int /\ c.decisions \in Seq(Decided) /\ Silent(c.decisions) /\ framed \in Nat
    BY <1>4, <1>12, <1>13
  <2> DEFINE context == c.decisions
  <2> HIDE DEF room, context
  <2>2. context \in Seq(Decided) /\ Silent(context)
    BY <2>1 DEF context
  <2>3. DecidesOnAll(j, framed, room, context)
    BY <2>1, <2>2, HistoryIsExplained
  <2> QED
    BY <2>3, Zenon DEF DecidesOnAll, context, dep
<1>30. SendsWhole([before |-> chosen.kept \o dep, after |-> j.tail])
  <2>1. Unbroken(chosen.kept) /\ chosen.kept \in Seq(Items)
    BY <1>14 DEF Keeping
  <2>2. Unbroken(dep \o Leading(j.tail))
    <3>1. j.history \in Seq(Items) /\ j.tail \in Seq(Items)
      BY DEF JobIsTyped
    <3>2. dep = Span(j.history, HistoryDependency(j.history, j.tail).start, Len(j.history))
      BY DEF dep, Dependency, Asked, DependencyIsMet
    <3> QED
      BY <3>1, <3>2, DependencyIsWhole DEF DependencyIsMet
  <2>3. Leading(j.tail) \in Seq(Items)
    <3>1. j.tail \in Seq(Items)
      BY DEF JobIsTyped
    <3> QED
      BY <3>1, LeadingAre DEF Leading
  <2> DEFINE kept == chosen.kept
             lead == Leading(j.tail)
  <2>4. kept \in Seq(Items) /\ dep \in Seq(Items) /\ lead \in Seq(Items) /\ Unbroken(kept)
        /\ Unbroken(dep \o lead)
    BY <1>1, <2>1, <2>2, <2>3
  <2> HIDE DEF kept, lead
  <2>5. dep \o lead \in Seq(Items) /\ kept \o (dep \o lead) = (kept \o dep) \o lead
    BY <2>4, ConcatProperties, ConcatAssociative
  <2>6. Unbroken((kept \o dep) \o lead)
    BY <2>4, <2>5, UnbrokenJoined
  <2> QED
    BY <2>6 DEF SendsWhole, Unbroken, kept, lead
<1> HIDE DEF room, chosen, made
<1> DEFINE tail == CountAll(j.tail)
           last == CountAll(dep)
           lane == Lane(j)
<1>27. /\ max \in Nat /\ v \in Nat /\ lane \in Nat /\ tail \in Nat /\ last \in Nat
       /\ r = lane + tail + last + v /\ r \in Nat /\ b \in Nat
       /\ b = IF max - r - Overhead >= 0 THEN max - r - Overhead ELSE 0
  BY <1>1
<1>28. room = max - r - framed
  BY DEF room
<1> HIDE DEF tail, last, lane
<1>15. /\ spent \in Nat /\ chosen.kept \in Seq(Items) /\ chosen.decisions \in Seq(Decided)
       /\ spent = 0 \/ spent <= room
       /\ spent = CountAll(chosen.kept) /\ SumOfCosts(chosen.decisions) = spent
  BY <1>14 DEF Keeping
<1> HIDE DEF spent
<1>16. ASSUME room < 0
       PROVE  Mandatory(j) > max
  <2>1. HasPrompt(s, c) /\ b = 0 /\ max - r - Overhead < 0
    BY <1>27, <1>2, <1>4, <1>5, <1>7, <1>8, <1>16, <1>28
  <2>2. HasSystem(s)
    BY <1>11, <2>1
  <2> QED
    BY <1>27, <1>3, <1>7, <1>10, <2>1, <2>2
<1>17. ASSUME ~(room < 0)
       PROVE  /\ input + v <= max
              /\ Mandatory(j) <= max
              /\ max - input - v >= 0
  <2>1. input + v = r + framed + spent /\ input \in Int
    BY <1>27, <1>12, <1>15
  <2>2. r + framed <= max /\ spent <= max - r - framed
    BY <1>27, <1>12, <1>13, <1>15, <1>17, <1>28
  <2>3. HasSystem(s) => framed >= z + Overhead
    BY <1>3, <1>5, <1>6, <1>7, <1>8
  <2> HIDE DEF input
  <2>7. r \in Nat /\ v \in Nat /\ max \in Nat /\ framed \in Nat /\ spent \in Nat
        /\ z \in Nat /\ r <= max
    BY <1>2, <1>3, <1>12, <1>15, <1>27
  <2>4. input + v <= max /\ max - input - v >= 0
    BY <2>1, <2>2, <2>7
  <2>5. HasSystem(s) => r + (z + Overhead) <= max
    BY <1>7, <2>2, <2>3, <2>7
  <2>6. Mandatory(j) <= max
    <3> DEFINE owed == r + (z + Overhead)
    <3>1. HasSystem(s) => owed <= max
      BY <2>5
    <3>2. Mandatory(j) = IF HasSystem(s) THEN owed ELSE r
      BY <1>10, <2>7
    <3> HIDE DEF owed
    <3> QED
      BY <2>7, <3>1, <3>2
  <2> QED
    BY <2>4, <2>6
<1>18. CountAll((chosen.kept \o dep) \o j.tail) = spent + CountAll(dep) + CountAll(j.tail)
  <2>1. j.tail \in Seq(Items)
    BY DEF JobIsTyped
  <2>5. chosen.kept \in Seq(Items) /\ dep \in Seq(Items)
    BY <1>1, <1>15
  <2>2. chosen.kept \o dep \in Seq(Items)
        /\ CountAll(chosen.kept \o dep) = CountAll(chosen.kept) + CountAll(dep)
    BY <2>5, ConcatProperties, CountAllOfJoined, Zenon
  <2>3. CountAll((chosen.kept \o dep) \o j.tail) = CountAll(chosen.kept \o dep) + CountAll(j.tail)
    BY <2>1, <2>2, CountAllOfJoined
  <2>4. CountAll(chosen.kept) = spent
    BY <1>15
  <2> QED
    BY <2>2, <2>3, <2>4, Zenon
<1> DEFINE asked == RequestDecisions(j, framed)
           over == IF framed > 0 THEN Overhead ELSE 0
<1>19. asked \in Seq(Decided) /\ SumOfCosts(asked) = r + over
  BY <1>12, RequestDecisionsCost DEF r
<1> HIDE DEF asked
<1>20. SumOfCosts(c.decisions \o asked \o chosen.decisions) = A + (r + over) + spent
  <2>1. c.decisions \o asked \in Seq(Decided)
        /\ SumOfCosts(c.decisions \o asked) = SumOfCosts(c.decisions) + SumOfCosts(asked)
    BY <1>4, <1>19, SumOfCostsJoined, ConcatProperties
  <2>2. SumOfCosts(c.decisions \o asked \o chosen.decisions)
           = SumOfCosts(c.decisions \o asked) + SumOfCosts(chosen.decisions)
    BY <1>15, <2>1, SumOfCostsJoined
  <2>3. /\ SumOfCosts(c.decisions) = A /\ SumOfCosts(asked) = r + over
        /\ SumOfCosts(chosen.decisions) = spent
    BY <1>4, <1>15, <1>19
  <2> HIDE DEF over
  <2> QED
    BY <2>1, <2>2, <2>3, Zenon
<1>21. A + (r + over) + spent = framed + r + spent
  BY <1>1, <1>5, <1>6, <1>7, <1>8, <1>12, <1>15
<1>22. p.kind = "planned" => ~(room < 0) /\ p = plan
  BY <1>9 DEF Refusal
<1>23. p = Refusal("budget") => room < 0 \/ input + v > max
  BY <1>9 DEF Refusal
<1>24. ASSUME p.kind = "planned"
       PROVE  /\ Mandatory(j) <= max /\ p.lane = j.lane
              /\ Accounted(j, p) /\ Explained(j, p) /\ CutsAreMaximal(j, p)
              /\ SendsWhole(p)
  <2>1. ~(room < 0) /\ p = plan
    BY <1>22, <1>24
  <2>2. /\ p.lane = j.lane /\ p.prompt = framed /\ p.kept = c.kept
        /\ p.before = chosen.kept \o dep /\ p.after = j.tail
        /\ p.input = input /\ p.remaining = max - input - v
        /\ p.decisions = c.decisions \o asked \o chosen.decisions
    <3> HIDE DEF input
    <3> QED
      BY <2>1 DEF asked
  <2>3. Mandatory(j) <= max /\ max - input - v >= 0
    BY <1>17, <2>1
  <2>4. CutsAreMaximal(j, p)
    BY <1>4, <2>2 DEF CutsAreMaximal, s, b, profile
  <2> DEFINE sent == p.prompt + Lane(j) + CountAll(p.before \o p.after)
  <2>5. sent = framed + lane + (spent + last + tail)
    BY <1>18, <2>2 DEF lane, last, tail
  <2>6. input = framed + lane + (spent + last + tail)
    BY <1>27, <1>12, <1>15
  <2>7. SumOfCosts(p.decisions) = framed + r + spent
    BY <1>20, <1>21, <2>2
  <2> HIDE DEF sent
  <2>8. /\ SumOfCosts(p.decisions) = sent + v
        /\ sent = p.input
        /\ sent + v + p.remaining = max
        /\ p.remaining >= 0
    <3>1. input \in Int
      BY <1>27, <1>12, <1>15
    <3>2. sent = input /\ framed + r + spent = input + v
      BY <1>27, <1>12, <1>15, <2>5, <2>6
    <3> HIDE DEF input
    <3> QED
      BY <1>27, <2>2, <2>3, <2>7, <3>1, <3>2
  <2>9. Accounted(j, p)
    BY <2>8 DEF Accounted, sent, s, v, max
  <2>10. Explained(j, p)
    <3>1. p.decisions \in Seq(Decided)
      BY <1>4, <1>15, <1>19, <2>2, ConcatProperties
    <3>2. p.decisions = made
      BY <2>2 DEF asked, made
    <3>3. p.before = chosen.kept \o dep
      BY <2>2
    <3> QED
      BY <1>29, <3>1, <3>2, <3>3, PlanIsExplained
  <2>11. SendsWhole(p)
    BY <1>30, <2>2 DEF SendsWhole
  <2> QED
    BY <2>2, <2>3, <2>4, <2>9, <2>10, <2>11
<1>25. ASSUME p = Refusal("budget")
       PROVE  Mandatory(j) > max
  <2>1. room < 0
    <3>1. input \in Int
      BY <1>1, <1>12, <1>15
    <3>2. room < 0 \/ input + v > max
      BY <1>23, <1>25
    <3>3. ~(room < 0) => input + v <= max
      BY <1>17
    <3> HIDE DEF input
    <3> QED
      BY <1>1, <3>1, <3>2, <3>3
  <2> QED
    BY <1>16, <2>1
<1>26. PlanIsRight(j, p)
  BY <1>24, <1>25 DEF PlanIsRight, s, max
<1> QED
  BY <1>26 DEF p

(***************************************************************************)
(* The request along its steps.                                            *)
(***************************************************************************)
(* What a plan owes depends on the request, not on the stage it is in.      *)
LEMMA SameRequest ==
  ASSUME NEW j, NEW k, NEW p, j.history = k.history, j.tail = k.tail, j.setting = k.setting,
         j.lane = k.lane, j.start = k.start, PlanIsRight(j, p)
  PROVE  PlanIsRight(k, p)
<1>1. Lane(j) = Lane(k) /\ Dependency(j) = Dependency(k)
  BY DEF Lane, Dependency, Asked
<1>2. RequiredTokens(j) = RequiredTokens(k)
  BY <1>1 DEF RequiredTokens
<1>3. ContextBudget(j) = ContextBudget(k) /\ Mandatory(j) = Mandatory(k)
  BY <1>2 DEF ContextBudget, Mandatory
<1>4. Accounted(j, p) => Accounted(k, p)
  BY <1>1 DEF Accounted
<1>5. CutsAreMaximal(j, p) => CutsAreMaximal(k, p)
  BY <1>3 DEF CutsAreMaximal
<1>6. Explained(j, p) => Explained(k, p)
  BY DEF Explained
<1> QED
  BY <1>3, <1>4, <1>5, <1>6 DEF PlanIsRight

(* Results that plan nothing and claim no size are right.                   *)
LEMMA OtherResultsAreRight ==
  ASSUME NEW j
  PROVE  /\ PlanIsRight(j, NoResult)
         /\ PlanIsRight(j, Refusal("dependency"))
         /\ PlanIsRight(j, Refusal("retrieval"))
  BY DEF PlanIsRight, Refusal, NoResult

(* The invariant: a request that waits has passed the early checks, and the *)
(* result is right for the request it answers.                              *)
BInv ==
  /\ history \in Seq(Items)
  /\ job.stage = "idle" => result = NoResult
  /\ job.stage = "retrieving" => /\ JobIsTyped(job) /\ JobFits(job) /\ DependencyIsMet(job)
                                 /\ ContextBudget(job) > 0
                                 /\ result = NoResult
  /\ PlanIsRight(job, result)

(* A request that is asked for gets a right result, or waits with none.     *)
LEMMA AskIsRight ==
  ASSUME BInv, NEW tail \in Tails, NEW setting \in Settings, NEW lane \in BOOLEAN,
         Ask(tail, setting, lane)
  PROVE  /\ job'.stage = "retrieving" =>
               /\ JobIsTyped(job') /\ JobFits(job') /\ DependencyIsMet(job')
               /\ ContextBudget(job') > 0 /\ result' = NoResult
         /\ job'.stage # "idle"
         /\ PlanIsRight(job', result')
<1> DEFINE j == Job(tail, setting, lane)
           refused == \/ setting.reserve > setting.max
                      \/ RequiredTokens(j) > setting.max
                      \/ SystemTokens(setting) > ContextBudget(j)
           waits == RetrievalCanHelp(setting, ContextBudget(j))
           made == Planned(j, EmptyPools)
<1>1. tail \in Seq(Items) /\ history \in Seq(Items)
  BY ContextAssumption DEF BInv
<1>2. /\ HistoryDependency(history, tail).start \in Nat
      /\ HistoryDependency(history, tail).valid =>
            HistoryDependency(history, tail).start \in 1 .. Len(history) + 1
  BY <1>1, DependencyStarts
<1>3. /\ j.stage = "retrieving" /\ j.history = history /\ j.tail = tail
      /\ j.setting = setting /\ j.lane = lane
      /\ j.start = HistoryDependency(history, tail).start
      /\ j = [stage |-> "retrieving", history |-> history, tail |-> tail, setting |-> setting,
              lane |-> lane, start |-> HistoryDependency(history, tail).start]
  BY DEF Job
<1> HIDE DEF j
<1>4. CASE ~HistoryDependency(history, tail).valid
  <2>1. /\ job' = [j EXCEPT !.stage = "done", !.start = Len(history) + 1]
        /\ result' = Refusal(IF setting.reserve > setting.max THEN "budget" ELSE "dependency")
    BY <1>4 DEF Ask, j
  <2>2. /\ job'.stage = "done" /\ job'.history = history /\ job'.setting = setting
        /\ JobIsTyped(job')
    <3> DEFINE start == Len(history) + 1
               k == [stage |-> "done", history |-> history, tail |-> tail, setting |-> setting,
                     lane |-> lane, start |-> start]
    <3>1. start \in Nat /\ start \in 1 .. Len(history) + 1
      BY <1>1
    <3>2. job' = [j EXCEPT !.stage = "done", !.start = start]
      BY <2>1
    <3> HIDE DEF start
    <3>3. job' = k
      BY <1>3, <3>2
    <3>4. /\ k.stage = "done" /\ k.history = history /\ k.setting = setting /\ k.start = start
          /\ k \in [stage : {"retrieving", "done"}, history : Seq(Items), tail : Seq(Items),
                    setting : Settings, lane : BOOLEAN, start : Nat]
      BY <1>1, <3>1
    <3> HIDE DEF k
    <3>5. JobIsTyped(k)
      BY <3>1, <3>4 DEF JobIsTyped
    <3> QED
      BY <3>3, <3>4, <3>5
  <2>3. CASE setting.reserve > setting.max
    <3>1. ~JobFits(job')
      <4>1. setting.reserve \in Nat /\ setting.max \in Nat
        BY SettingIsTyped
      <4>2. ~(setting.reserve <= setting.max)
        BY <2>3, <4>1
      <4> QED
        BY <2>2, <4>2 DEF JobFits
    <3>2. Mandatory(job') > job'.setting.max
      BY <2>2, <3>1, EarlyRefusal
    <3>3. result' = Refusal("budget")
      BY <2>1, <2>3
    <3> QED
      BY <2>2, <3>2, <3>3 DEF PlanIsRight, Refusal
  <2>4. CASE ~(setting.reserve > setting.max)
    BY <2>1, <2>2, <2>4, OtherResultsAreRight
  <2> QED
    BY <2>3, <2>4
<1>5. CASE HistoryDependency(history, tail).valid
  <2>1. /\ job' = [j EXCEPT !.stage = IF ~refused /\ waits THEN @ ELSE "done"]
        /\ result' = IF refused THEN Refusal("budget")
                     ELSE IF waits THEN NoResult ELSE made
    BY <1>5 DEF Ask, j
  <2>2. JobIsTyped(j)
    <3>1. j.start \in Nat /\ j.start \in 1 .. Len(history) + 1
      BY <1>2, <1>3, <1>5
    <3> QED
      BY <1>1, <1>3, <3>1 DEF JobIsTyped
  <2>8. DependencyIsMet(j)
    BY <1>3, <1>5 DEF DependencyIsMet
  <2>3. /\ job'.history = j.history /\ job'.tail = j.tail /\ job'.setting = j.setting
        /\ job'.lane = j.lane /\ job'.start = j.start
        /\ job'.stage = IF ~refused /\ waits THEN "retrieving" ELSE "done"
    <3> HIDE DEF refused, waits
    <3> QED
      BY <1>3, <2>1
  <2>4. refused <=> ~JobFits(j)
    <3>1. /\ setting.max \in Nat /\ setting.reserve \in Nat /\ RequiredTokens(j) \in Nat
          /\ ContextBudget(j) \in Nat
      BY <1>3, <2>2, JobCosts
    <3>2. SystemTokens(setting) \in Nat
      BY SettingIsTyped
    <3>3. JobFits(j) <=> /\ setting.reserve <= setting.max
                         /\ RequiredTokens(j) <= setting.max
                         /\ SystemTokens(setting) <= ContextBudget(j)
      BY <1>3 DEF JobFits
    <3> DEFINE a == setting.reserve
               b == setting.max
               c == RequiredTokens(j)
               d == SystemTokens(setting)
               e == ContextBudget(j)
    <3>4. (a > b \/ c > b \/ d > e) <=> ~(a <= b /\ c <= b /\ d <= e)
      <4>1. a \in Nat /\ b \in Nat /\ c \in Nat /\ d \in Nat /\ e \in Nat
        BY <3>1, <3>2
      <4> HIDE DEF a, b, c, d, e
      <4> QED
        BY <4>1
    <3> QED
      BY <3>3, <3>4
  <2>5. CASE refused
    <3>1. PlanIsRight(j, Refusal("budget"))
      <4>1. Mandatory(j) > j.setting.max
        BY <2>2, <2>4, <2>5, EarlyRefusal
      <4> QED
        BY <4>1 DEF PlanIsRight, Refusal
    <3>2. result' = Refusal("budget") /\ job'.stage = "done"
      <4> HIDE DEF refused
      <4> QED
        BY <2>1, <2>3, <2>5
    <3>3. PlanIsRight(job', result')
      BY <2>3, <3>1, <3>2, SameRequest
    <3> QED
      BY <3>2, <3>3 DEF Refusal
  <2>6. CASE ~refused /\ waits
    <3>1. result' = NoResult /\ job' = j
      <4>1. [j EXCEPT !.stage = @] = j
        BY <1>3
      <4> HIDE DEF refused, waits
      <4> QED
        BY <2>1, <2>6, <4>1
    <3>2. JobFits(j)
      BY <2>4, <2>6
    <3>3. ContextBudget(j) > 0
      <4>1. ContextBudget(j) \in Nat
        BY <2>2, JobCosts
      <4>2. SystemTokens(setting) \in Nat /\ setting.profile \in Nat
        BY SettingIsTyped
      <4>3. SystemTokens(setting) + ProfileTokens(setting, ContextBudget(j)) < ContextBudget(j)
        BY <2>6 DEF RetrievalCanHelp
      <4>4. ProfileTokens(setting, ContextBudget(j)) \in Nat
        BY <4>2 DEF ProfileTokens
      <4> QED
        BY <4>1, <4>2, <4>3, <4>4
    <3>4. job'.stage = "retrieving" /\ PlanIsRight(job', result') /\ result'.kind # "planned"
      BY <1>3, <3>1, OtherResultsAreRight DEF NoResult
    <3>5. /\ JobIsTyped(job') /\ JobFits(job') /\ DependencyIsMet(job')
          /\ ContextBudget(job') > 0
      BY <2>2, <2>8, <3>1, <3>2, <3>3
    <3> QED
      BY <3>1, <3>4, <3>5
  <2>7. CASE ~refused /\ ~waits
    <3>1. result' = made /\ job'.stage = "done"
      <4> HIDE DEF refused, waits
      <4> QED
        BY <2>1, <2>3, <2>7
    <3>2. EmptyPools \in [Sections -> Seq(Nat)]
      BY DEF EmptyPools
    <3>3. PlanIsRight(j, made)
      BY <2>2, <2>4, <2>7, <2>8, <3>2, PlannedIsRight
    <3>4. PlanIsRight(job', result')
      <4> HIDE DEF made
      <4> QED
        BY <2>3, <3>1, <3>3, SameRequest
    <3> QED
      BY <3>1, <3>4
  <2> QED
    BY <2>5, <2>6, <2>7
<1> QED
  BY <1>4, <1>5

(* A retrieval answers with texts of some numbers of words.                 *)
LEMMA AnswersAreTexts ==
  ASSUME NEW s, NEW pools \in AnswersFor(s)
  PROVE  pools \in [Sections -> Seq(Nat)]
<1>1. PICK f \in [Sections -> Pools] :
         pools = [section \in Sections |-> IF section \in s.sections THEN f[section] ELSE <<>>]
  BY DEF AnswersFor
<1>2. Pools \subseteq Seq(Nat) /\ <<>> \in Seq(Nat)
  BY ContextAssumption
<1> QED
  BY <1>1, <1>2

(* A retrieval that answers makes a right result.                           *)
LEMMA RetrieveIsRight ==
  ASSUME BInv, NEW pools \in AnswersFor(job.setting), Retrieve(pools)
  PROVE  /\ job'.stage = "done"
         /\ PlanIsRight(job', result')
<1> DEFINE made == Planned(job, pools)
<1>1. /\ JobIsTyped(job) /\ JobFits(job) /\ DependencyIsMet(job)
      /\ ContextBudget(job) > 0
  BY DEF BInv, Retrieve
<1>2. job' = [job EXCEPT !.stage = "done"] /\ result' = made
  BY DEF Retrieve, Finish
<1>3. PlanIsRight(job, made)
  BY <1>1, AnswersAreTexts, PlannedIsRight
<1> HIDE DEF made
<1>4. /\ job'.stage = "done" /\ job'.history = job.history /\ job'.tail = job.tail
      /\ job'.setting = job.setting /\ job'.lane = job.lane /\ job'.start = job.start
  BY <1>1, <1>2 DEF JobIsTyped
<1>5. PlanIsRight(job', result')
  BY <1>2, <1>3, <1>4, SameRequest
<1> QED
  BY <1>4, <1>5

(* Every step keeps the invariant.                                          *)
LEMMA StepIsRight ==
  ASSUME BInv, [Next]_vars
  PROVE  BInv'
<1>1. ASSUME NEW item \in Items, Say(item)
      PROVE  BInv'
  <2>1. history' = Append(history, item) /\ job' = job /\ result' = result
    BY <1>1 DEF Say
  <2>2. history' \in Seq(Items)
    BY <1>1, <2>1 DEF BInv
  <2> QED
    BY <2>1, <2>2 DEF BInv
<1>2. ASSUME NEW setting \in SettingsFor(history), NEW tail \in Tails,
             NEW lane \in BOOLEAN, Ask(tail, setting, lane)
      PROVE  BInv'
  <2>1. setting \in Settings
    BY ContextAssumption DEF SettingsFor
  <2>2. history' = history
    BY <1>2 DEF Ask
  <2>3. /\ job'.stage = "retrieving" =>
              /\ JobIsTyped(job') /\ JobFits(job') /\ DependencyIsMet(job')
              /\ ContextBudget(job') > 0 /\ result' = NoResult
        /\ job'.stage # "idle"
        /\ PlanIsRight(job', result')
    BY <1>2, <2>1, AskIsRight
  <2> QED
    BY <2>2, <2>3 DEF BInv
<1>3. ASSUME NEW pools \in AnswersFor(job.setting), Retrieve(pools)
      PROVE  BInv'
  <2>1. history' = history
    BY <1>3 DEF Retrieve
  <2>2. /\ job'.stage = "done" /\ PlanIsRight(job', result')
    BY <1>3, RetrieveIsRight
  <2> QED
    BY <2>1, <2>2 DEF BInv
<1>4. ASSUME RetrievalFails
      PROVE  BInv'
  <2>1. history' = history /\ job' = [job EXCEPT !.stage = "done"] /\ result' = Refusal("retrieval")
    BY <1>4 DEF RetrievalFails, Finish
  <2>2. JobIsTyped(job)
    BY <1>4 DEF RetrievalFails, BInv
  <2>3. job'.stage = "done"
    BY <2>1, <2>2 DEF JobIsTyped
  <2>4. PlanIsRight(job', result')
    BY <2>1, OtherResultsAreRight
  <2> QED
    BY <2>1, <2>3, <2>4 DEF BInv
<1>5. ASSUME NEW item \in Rewrites, EditsHistory(item)
      PROVE  BInv'
  <2>1. /\ history' = [history EXCEPT ![Len(history)] = item]
        /\ job' = job /\ result' = result
    BY <1>5 DEF EditsHistory
  <2>2. item \in Items /\ history \in Seq(Items)
    BY ContextAssumption DEF BInv
  <2>3. history' \in Seq(Items)
    <3>1. history # <<>>
      BY <1>5 DEF EditsHistory
    <3>2. Len(history) \in 1 .. Len(history)
      BY <2>2, <3>1
    <3>3. [history EXCEPT ![Len(history)] = item] \in Seq(Items)
      BY <2>2, <3>2, ExceptSeq
    <3> QED
      BY <2>1, <3>3
  <2> QED
    BY <2>1, <2>3 DEF BInv
<1>6. ASSUME Discard
      PROVE  BInv'
  <2>1. history' = <<>> /\ job' = NoJob /\ result' = NoResult
    BY <1>6 DEF Discard
  <2>2. job'.stage = "idle"
    BY <2>1 DEF NoJob
  <2>3. PlanIsRight(job', result')
    BY <2>1, OtherResultsAreRight
  <2> QED
    BY <2>1, <2>2, <2>3 DEF BInv, NoResult
<1>7. ASSUME UNCHANGED vars
      PROVE  BInv'
  BY <1>7 DEF vars, BInv
<1> QED
  BY <1>1, <1>2, <1>3, <1>4, <1>5, <1>6, <1>7 DEF Next

(* Every reachable state satisfies the invariant of the planner.            *)
THEOREM BudgetInvariance == Spec => []BInv
<1>1. Init => BInv
  BY OtherResultsAreRight DEF Init, BInv, NoJob
<1>2. BInv /\ [Next]_vars => BInv'
  BY StepIsRight
<1> QED
  BY <1>1, <1>2, PTL DEF Spec

(* A request is refused for its size exactly when its mandatory parts do    *)
(* not fit, whatever its history, its settings and the answers of retrieval *)
(* (plan_messages).                                                         *)
THEOREM RefusalsAreDue == Spec => []RefusedExactlyWhenTooLarge
<1>1. BInv => RefusedExactlyWhenTooLarge
  BY DEF BInv, PlanIsRight, RefusedExactlyWhenTooLarge, IsPlanned
<1> QED
  BY <1>1, BudgetInvariance, PTL

(* The decisions of a plan account for every token of it and name every     *)
(* message of the history once; what is sent of it are the messages taken,  *)
(* in their order, for any history, final input, settings, retrieved texts  *)
(* and edits (_build and plan_messages).                                    *)
THEOREM PlansExplainThemselves == Spec => []PlanExplainsItself
<1>1. BInv => DecisionsAccountForTheRequest
  BY DEF BInv, PlanIsRight, DecisionsAccountForTheRequest, Accounted, IsPlanned
<1>2. BInv => HistoryIsDecidedOnce
  BY DEF BInv, PlanIsRight, HistoryIsDecidedOnce, DecisionsOn, Explained, IsPlanned
<1>3. BInv => PlanExplainsItself
  BY <1>1, <1>2 DEF PlanExplainsItself
<1> QED
  BY <1>3, BudgetInvariance, PTL

(* A text is cut only where one word more would not have fitted, for texts  *)
(* of any length (_truncate_to_fit).                                        *)
THEOREM CutsAreLongest == Spec => []TruncationIsMaximal
<1>1. BInv => TruncationIsMaximal
  BY DEF BInv, PlanIsRight, TruncationIsMaximal, CutsAreMaximal, EndsCut, IsPlanned
<1> QED
  BY <1>1, BudgetInvariance, PTL

(* Whatever was left out of a conversation, no tool output goes without its *)
(* call, no call without its output, no owned item outside its open program *)
(* and no reasoning without what it led to, for conversations and final     *)
(* inputs of any length (_history_groups, _tail_history_dependency).  A     *)
(* request for tools whose ids are malformed is exempt: it is sent, alone   *)
(* and without a reply.                                                     *)
THEOREM PlansOrphanNothing == Spec => []NothingIsOrphaned
<1>1. BInv => NothingIsOrphaned
  BY DEF BInv, PlanIsRight, NothingIsOrphaned, SendsWhole, Vouched, Leading, IsPlanned
<1> QED
  BY <1>1, BudgetInvariance, PTL
=============================================================================
