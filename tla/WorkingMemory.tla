---------------------------- MODULE WorkingMemory ----------------------------
(***************************************************************************)
(* protoprompt/agent/working.py: the scored, reversible memory of an agent *)
(* - a hot set in RAM under a token budget, a cold zone in a store, and a  *)
(* manifest of what was demoted.                                           *)
(*                                                                         *)
(* The agent is one asyncio task, so operations never overlap; but each    *)
(* one is a chain of awaits (embedding, store.delete, store.add), and the  *)
(* process can die in any of them.  work is the rest of that chain: its    *)
(* first element is the next piece of code to run.                         *)
(*                                                                         *)
(* Abstracted: the score.  Which unpinned item is demoted, which note is a *)
(* near-duplicate, which cold documents a query or a symbol hits and which *)
(* are still under cooldown are choices.  Texts are values with a size in  *)
(* tokens.                                                                 *)
(***************************************************************************)
EXTENDS Naturals, Sequences, FiniteSets, TLC, FiniteSetsExt, SequencesExt

CONSTANTS
    Texts,          \* texts an agent can be told
    Size,           \* Size[t]: what the token counter counts for t
    Digest,         \* the text made of a manifest summary
    MaxTokens,      \* the memory budget
    PinCap,         \* max_pinned_tokens
    TopK,           \* how many items one recall brings back
    MaxId           \* bound: ids issued by new_item_id

Ids == 1..MaxId
ASSUME MemoryAssumption ==
    /\ Size \in [Texts -> Nat \ {0}] /\ Digest \in Texts
    /\ MaxTokens \in Nat /\ PinCap \in Nat /\ TopK \in Nat /\ MaxId \in Nat

VARIABLES
    hot,        \* id -> item of the hot set
    cold,       \* lineage -> document of the cold store
    manifest,   \* sequence of entries: what was demoted
    seq,        \* the module-level id counter of this process
    work,       \* what the running operation still has to do
    demoted,    \* history: lineage -> text that last left the hot set
    torn        \* history: lineages whose demotion the process died in

memory == <<hot, cold, manifest, seq, work, demoted, torn>>

Item == [text: Texts, note: BOOLEAN, pinned: BOOLEAN, lineage: Ids]
Document == [text: Texts, orig: Ids]
Entry == [id: Ids, lineage: Ids]

MemoryTypeOK ==
    /\ DOMAIN hot \subseteq Ids /\ \A i \in DOMAIN hot : hot[i] \in Item
    /\ DOMAIN cold \subseteq Ids /\ \A l \in DOMAIN cold : cold[l] \in Document
    /\ manifest \in Seq(Entry) /\ seq \in 0..MaxId
    /\ torn \subseteq Ids

MemoryInit ==
    /\ hot = <<>> /\ cold = <<>> /\ manifest = <<>> /\ seq = 0 /\ work = <<>>
    /\ demoted = <<>> /\ torn = {}

(***************************************************************************)
(* Introspection                                                           *)
(***************************************************************************)
Spent(h, ids) == MapThenSumSet(LAMBDA i : Size[h[i].text], ids)
PinnedIn(h) == {i \in DOMAIN h : h[i].pinned}
Used == Spent(hot, DOMAIN hot)
Unpinned == DOMAIN hot \ PinnedIn(hot)
HotLineages == {hot[i].lineage : i \in DOMAIN hot}
Without(f, x) == [y \in DOMAIN f \ {x} |-> f[y]]
With(f, x, v) == [y \in DOMAIN f \union {x} |-> IF y = x THEN v ELSE f[y]]

Idle == work = <<>>
Doing(op) == work # <<>> /\ work[1].op = op
Rest == Tail(work)

\* _next_id: the counter, skipping the ids of the hot set and no others.
FreshIds == {i \in Ids : i > seq /\ i \notin DOMAIN hot}
IsNextId(id) == id \in FreshIds /\ \A i \in FreshIds : id <= i

(***************************************************************************)
(* The pieces an operation is made of                                      *)
(***************************************************************************)
AddOp(t, note, pin) == [op |-> "add", text |-> t, note |-> note, pin |-> pin]
EnforceOp == [op |-> "enforce"]
DeleteOp(i) == [op |-> "delete", id |-> i, item |-> hot[i]]
StoreOp(i, item) == [op |-> "store", id |-> i, item |-> item]

\* _enforce_pin_cap: pins go, in an order left open, until the rest fits.
PinCapped(h, unpin) ==
    /\ unpin \subseteq PinnedIn(h)
    /\ Spent(h, PinnedIn(h) \ unpin) <= PinCap
    /\ \/ unpin = {}
       \/ \E last \in unpin : Spent(h, (PinnedIn(h) \ unpin) \union {last}) > PinCap

Unpin(h, ids) ==
    [i \in DOMAIN h |-> IF i \in ids THEN [h[i] EXCEPT !.pinned = FALSE] ELSE h[i]]

\* add: once its text is embedded the item enters the hot set, pins over the
\* cap are lifted, and the budget is enforced; then comes what is left to do.
Insert(id, t, note, pin, after) ==
    /\ IsNextId(id)
    /\ LET item == [text |-> t, note |-> note, pinned |-> pin, lineage |-> id]
           h == With(hot, id, item)
       IN \E unpin \in SUBSET DOMAIN h :
              /\ IF pin THEN PinCapped(h, unpin) ELSE unpin = {}
              /\ hot' = Unpin(h, unpin)
    /\ seq' = id
    /\ work' = <<EnforceOp>> \o after
    /\ UNCHANGED <<cold, manifest, demoted, torn>>

Add ==
    /\ Doing("add")
    /\ \E id \in Ids : Insert(id, work[1].text, work[1].note, work[1].pin, Rest)

\* note: a near-duplicate of a live note is merged into it, keeping the
\* longer text; no budget and no pin cap is enforced on this path.
MergeNote ==
    /\ Doing("add") /\ work[1].note
    /\ \E i \in {j \in DOMAIN hot : hot[j].note} :
          hot' = [hot EXCEPT ![i].text =
                     IF Size[work[1].text] > Size[@] THEN work[1].text ELSE @]
    /\ work' = Rest
    /\ UNCHANGED <<cold, manifest, seq, demoted, torn>>

\* _evict_item up to its first await: the item has left the hot set.
Pop(v, todo) ==
    /\ hot' = Without(hot, v)
    /\ demoted' = With(demoted, hot[v].lineage, hot[v].text)
    /\ work' = <<DeleteOp(v)>> \o todo

\* _enforce_budget: one victim at a time, while there is one.
EnforceBudget ==
    /\ Doing("enforce")
    /\ IF Used > MaxTokens /\ Unpinned # {}
         THEN \E v \in Unpinned : Pop(v, work)
         ELSE work' = Rest /\ UNCHANGED <<hot, demoted>>
    /\ UNCHANGED <<cold, manifest, seq, torn>>

\* First await: the earlier copy of this lineage is deleted.
DeleteCold ==
    /\ Doing("delete")
    /\ cold' = Without(cold, work[1].item.lineage)
    /\ work' = <<StoreOp(work[1].id, work[1].item)>> \o Rest
    /\ UNCHANGED <<hot, manifest, seq, demoted, torn>>

\* Mutant: the cold copy is filed under the item instead of its lineage.
StoreColdByItem ==
    /\ Doing("store")
    /\ cold' = With(cold, work[1].id, [text |-> work[1].item.text, orig |-> work[1].id])
    /\ manifest' = Append(manifest, [id |-> work[1].id, lineage |-> work[1].item.lineage])
    /\ torn' = torn \ {work[1].item.lineage}
    /\ work' = Rest
    /\ UNCHANGED <<hot, seq, demoted>>

\* Second await: the new copy is stored, and then listed.
StoreCold ==
    /\ Doing("store")
    /\ LET lineage == work[1].item.lineage
           doc == [text |-> work[1].item.text, orig |-> work[1].id]
       IN /\ cold' = With(cold, lineage, doc)
          /\ manifest' = Append(manifest, [id |-> work[1].id, lineage |-> lineage])
          /\ torn' = torn \ {lineage}
    /\ work' = Rest
    /\ UNCHANGED <<hot, seq, demoted>>

(***************************************************************************)
(* recall: select, make room for the whole batch, commit it                *)
(***************************************************************************)
\* heir is the lineage the restored item will carry.
Candidate(l, heir, t, orig) ==
    [lineage |-> l, heir |-> heir, text |-> t, orig |-> orig]

\* Channel 1, the symbols of the manifest, and channel 2, the vector query:
\* a cold document whose lineage is not hot and which fits the budget.  A
\* listed item whose lineage has no document is looked up under its own id.
ColdHits ==
    LET Fit == {l \in DOMAIN cold : Size[cold[l].text] <= MaxTokens} IN
       {Candidate(l, l, cold[l].text, cold[l].orig) : l \in Fit \ HotLineages}
       \union {Candidate(e.lineage, e.id, cold[e.id].text, cold[e.id].orig) :
                 e \in {x \in Range(manifest) : /\ x.id \in Fit
                            /\ x.lineage \notin HotLineages \union DOMAIN cold}}

\* Channel 1 when the store has neither the lineage nor the id: the summary
\* comes back, under the id it was listed with.
DigestHits ==
    {Candidate(e.lineage, e.id, Digest, e.id) :
        e \in {x \in Range(manifest) : /\ x.lineage \notin HotLineages
                                       /\ {x.lineage, x.id} \cap DOMAIN cold = {}}}

BatchTokens(batch) == Spent(batch, DOMAIN batch)

\* The lowest priorities are dropped from the tail until the batch fits.
Fits(batch) == Len(batch) = 1 \/ BatchTokens(batch) <= MaxTokens
Fitting(order) ==
    {SubSeq(order, 1, n) : n \in {m \in DOMAIN order :
        /\ Fits(SubSeq(order, 1, m))
        /\ \A k \in DOMAIN order : k > m => ~Fits(SubSeq(order, 1, k))}}

Selections ==
    UNION {Fitting(order) : order \in UNION {SetToSeqs(s) :
        s \in {x \in SUBSET (ColdHits \union DigestHits) :
                  /\ Cardinality(x) \in 1..TopK
                  /\ Cardinality({c.lineage : c \in x}) = Cardinality(x)}}}

SelectBatch ==
    /\ Doing("recall")
    /\ \/ \E batch \in Selections :
             work' = <<[op |-> "room", need |-> BatchTokens(batch),
                        staged |-> {batch[k].lineage : k \in DOMAIN batch}]>>
                     \o [k \in DOMAIN batch |->
                            [op |-> "commit", cand |-> batch[k],
                             need |-> BatchTokens(batch)]]
                     \o Rest
       \/ work' = Rest
    /\ UNCHANGED <<hot, cold, manifest, seq, demoted, torn>>

\* Mutant: one tenant leaves, whatever the batch needs.
MakeRoomOnce ==
    /\ Doing("room")
    /\ IF Used + work[1].need > MaxTokens /\ Unpinned # {}
         THEN \E v \in Unpinned : Pop(v, Rest)
         ELSE work' = Rest /\ UNCHANGED <<hot, demoted>>
    /\ UNCHANGED <<cold, manifest, seq, torn>>

\* Old tenants leave before the batch is committed.
MakeRoom ==
    /\ Doing("room")
    /\ LET victims == {i \in Unpinned : hot[i].lineage \notin work[1].staged} IN
          IF Used + work[1].need > MaxTokens /\ victims # {}
            THEN \E v \in victims : Pop(v, work)
            ELSE work' = Rest /\ UNCHANGED <<hot, demoted>>
    /\ UNCHANGED <<cold, manifest, seq, torn>>

\* Each candidate enters the hot set through add, and then inherits.
CommitRecalled ==
    /\ Doing("commit")
    /\ \E id \in Ids :
          Insert(id, work[1].cand.text, FALSE, FALSE,
                 <<[op |-> "mark", id |-> id, cand |-> work[1].cand,
                    need |-> work[1].need]>> \o Rest)

\* self._items[new_id] raises when add itself has demoted the item again.
MarkRecalled ==
    /\ Doing("mark") /\ work[1].id \in DOMAIN hot
    /\ hot' = [hot EXCEPT ![work[1].id].lineage = work[1].cand.heir]
    /\ LET listed == {k \in DOMAIN manifest : manifest[k].id = work[1].cand.orig}
       IN manifest' = IF listed = {} THEN manifest
                      ELSE RemoveAt(manifest, Min(listed))
    /\ work' = Rest
    /\ UNCHANGED <<cold, seq, demoted, torn>>

(***************************************************************************)
(* What a caller starts between two operations                             *)
(***************************************************************************)
\* forget: manual demotion, of an id the hot set has.
Evict ==
    /\ Doing("evict")
    /\ IF work[1].id \in DOMAIN hot
         THEN Pop(work[1].id, Rest)
         ELSE work' = Rest /\ UNCHANGED <<hot, demoted>>
    /\ UNCHANGED <<cold, manifest, seq, torn>>

\* pin and unpin: a flag; the cap is enforced by the next pinned add only.
SetPin(i, pin) ==
    /\ Idle /\ i \in DOMAIN hot
    /\ hot' = [hot EXCEPT ![i].pinned = pin]
    /\ UNCHANGED <<cold, manifest, seq, work, demoted, torn>>

MemoryStep ==
    \/ Add \/ MergeNote \/ EnforceBudget \/ DeleteCold \/ StoreCold
    \/ SelectBatch \/ MakeRoom \/ CommitRecalled \/ MarkRecalled \/ Evict

(***************************************************************************)
(* export_state and import_state: the hot set and the manifest             *)
(***************************************************************************)
\* An exception or a death anywhere in the chain: RAM is gone; the lineage
\* being demoted has left the hot set and may not be in the cold zone.
MemoryLost ==
    /\ hot' = <<>> /\ manifest' = <<>> /\ seq' = 0 /\ work' = <<>>
    /\ torn' = IF work # <<>> /\ work[1].op \in {"delete", "store"}
                 THEN torn \union {work[1].item.lineage} ELSE torn
    /\ UNCHANGED <<cold, demoted>>
=============================================================================
