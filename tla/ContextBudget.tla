---------------------------- MODULE ContextBudget ----------------------------
(***************************************************************************)
(* Planning one provider request under a token ceiling: the budgeted       *)
(* context builder (src/protoprompt/injector_budgeted.py).  A host keeps a  *)
(* message list, asks for a plan, and may edit its own lists while the     *)
(* builder awaits retrieval.  The records that the composer recalls from   *)
(* the ledger are a lane the request must hold, like its final input; how  *)
(* they are resolved before and after is RequestComposer's.  Texts are     *)
(* numbers of words, one token each; a message costs its tokens and an     *)
(* overhead.                                                               *)
(***************************************************************************)
EXTENDS ResponseRuns

CONSTANTS
    Items,          \* items a session's history is built from
    Rewrites,       \* what a caller overwrites its last message with
    Tails,          \* final inputs a caller passes
    Settings,       \* builder settings and context inputs, see Setting
    Pools,          \* candidate texts a retrieval answers with, as word counts
    Overhead,       \* tokens a message costs beside its text
    Separator,      \* tokens between two blocks of a section
    Header,         \* tokens of the header over the session blocks
    Long,           \* tokens of a long text
    LaneTokens,     \* what the lane of recalled records costs, guard included
    PlainSettings,  \* the settings tried on long conversations too
    ShortHistory,   \* the length up to which every setting is tried
    MaxHistory,     \* bound on the history
    MaxEdits        \* bound on the caller's edits during one request

ASSUME ContextAssumption ==
    /\ {Overhead, Separator, Header, Long, LaneTokens} \subseteq Nat \ {0}
    /\ {ShortHistory, MaxHistory, MaxEdits} \subseteq Nat
    /\ PlainSettings \subseteq Settings /\ Rewrites \subseteq Items
    /\ Tails \subseteq Seq(Items) /\ Pools \subseteq Seq(Nat)

\* Chat messages name no caller, and a program's call has one id if any.
ASSUME ItemsAssumption ==
    \A item \in Items :
        /\ item.kind \in {"calls", "tool"} => item.owner = Nobody
        /\ item.kind = "program" /\ item.ids # {} => \E id \in item.ids : item.ids = {id}

VARIABLES
    history,        \* the caller's live message list
    edits,          \* edits the caller made since it asked
    job,            \* the request being planned, with its snapshot of the input
    result          \* what the last request came to

vars == <<history, edits, job, result>>

Unset == -1
Sections == {"rag", "session"}

ASSUME SettingsAssumption ==
    Settings \subseteq [max : Nat, reserve : Nat, system : Nat \cup {Unset}, profile : Nat,
                       sections : SUBSET Sections, priorities : Seq(Sections)]

Sources == Sections \cup {"system", "profile", "lane", "reserve", "new_input", "framing", "history"}

Weight(item) == IF item.kind = "essay" THEN Long ELSE 1
Count(item) == Weight(item) + Overhead
CountAll(items) == FoldLeft(LAMBDA sum, item : sum + Count(item), 0, items)

NoJob == [stage |-> "idle"]
NoResult == [kind |-> "none"]
Refusal(why) == [kind |-> "refused", why |-> why]

Init ==
    /\ history = <<>>
    /\ edits = 0
    /\ job = NoJob
    /\ result = NoResult

(***************************************************************************)
(* The system context.                                                     *)
(***************************************************************************)
Decision(source, part, verdict, cost) ==
    [source |-> source, part |-> part, verdict |-> verdict, cost |-> cost]

\* A block of retrieved text: some of its words, and the mark of a cut.
BlockTokens(block) == block.words + IF block.cut THEN 1 ELSE 0
Joined(blocks) ==
    FoldLeft(LAMBDA sum, block : sum + BlockTokens(block), 0, blocks)
    + IF blocks = <<>> THEN 0 ELSE Separator * (Len(blocks) - 1)

HasSystem(s) == s.system # Unset
SystemTokens(s) == IF HasSystem(s) THEN s.system ELSE 0

AssembledTokens(s, profile, kept) ==
    SystemTokens(s) + profile + Joined(kept["rag"])
    + IF kept["session"] = <<>> THEN 0 ELSE Header + Joined(kept["session"])

\* The profile is a hint: in full or not at all.
ProfileKept(s, budget) == s.profile > 0 /\ SystemTokens(s) + s.profile <= budget
ProfileTokens(s, budget) == IF ProfileKept(s, budget) THEN s.profile ELSE 0
FixedDecisionsAsked(s, budget) ==
    <<Decision("system", {}, IF HasSystem(s) THEN "included" ELSE "excluded", SystemTokens(s)),
      Decision("profile", {}, IF ProfileKept(s, budget) THEN "included" ELSE "excluded",
               s.profile)>>
FixedDecisions(s, budget) ==
    <<Decision("system", {}, IF HasSystem(s) THEN "included" ELSE "excluded", SystemTokens(s)),
      Decision("profile", {}, IF ProfileKept(s, budget) THEN "included" ELSE "excluded",
               ProfileTokens(s, budget))>>

NeedsRetrieval(s) == s.sections # {}
RetrievalCanHelp(s, budget) ==
    NeedsRetrieval(s) /\ SystemTokens(s) + ProfileTokens(s, budget) < budget

WithBlock(kept, cand, block) == [kept EXCEPT ![cand.section] = Append(@, block)]
Whole(cand) == [words |-> cand.words, cut |-> FALSE]
Cut(words) == [words |-> words, cut |-> TRUE]

CutFits(s, budget, profile, kept, cand, words) ==
    AssembledTokens(s, profile, WithBlock(kept, cand, Cut(words))) <= budget

LongestPrefixHalving(s, budget, profile, kept, cand) ==
    LET halve[n \in 0 .. cand.words] ==
            IF n = 0 \/ CutFits(s, budget, profile, kept, cand, n) THEN n ELSE halve[n \div 2]
    IN halve[cand.words]

\* Binary search, between two bounds, for the longest prefix that fits with the
\* mark of a cut.
LongestPrefix(s, budget, profile, kept, cand) ==
    LET search[bounds \in (0 .. cand.words) \X (0 .. cand.words)] ==
            LET low == bounds[1]
                high == bounds[2]
                mid == (low + high + 1) \div 2
            IN IF low >= high THEN low
               ELSE IF CutFits(s, budget, profile, kept, cand, mid)
               THEN search[<<mid, high>>] ELSE search[<<low, mid - 1>>]
    IN search[<<0, cand.words>>]

\* One candidate, in priority order.  `full' once a text was cut: the rest is
\* dropped; `ended' holds the sections where not even a cut text fitted.
Offer(s, budget, profile, acc, cand) ==
    LET total(block) == AssembledTokens(s, profile, WithBlock(acc.kept, cand, block))
        prefix == LongestPrefix(s, budget, profile, acc.kept, cand)
        decide(verdict, cost) ==
            Append(acc.decisions, Decision(cand.section, {cand.index}, verdict, cost))
        take(block, verdict) ==
            [kept |-> WithBlock(acc.kept, cand, block), used |-> total(block),
             ended |-> acc.ended, full |-> verdict = "truncated",
             decisions |-> decide(verdict, total(block) - acc.used)]
        leave == [kept |-> acc.kept, used |-> acc.used,
                  ended |-> acc.ended \cup {cand.section}, full |-> acc.full,
                  decisions |-> decide("excluded", 0)]
    IN IF acc.full \/ cand.section \in acc.ended THEN leave
       ELSE IF total(Whole(cand)) <= budget THEN take(Whole(cand), "included")
       ELSE IF prefix > 0 THEN take(Cut(prefix), "truncated")
       ELSE leave

Candidates(section, pool) ==
    [i \in DOMAIN pool |-> [section |-> section, index |-> i, words |-> pool[i]]]

\* Sections the priorities leave out are recorded, never offered.
LeftOut(s, pools) ==
    LET left(section) ==
            IF \E i \in DOMAIN s.priorities : s.priorities[i] = section THEN <<>>
            ELSE [i \in DOMAIN pools[section] |-> Decision(section, {i}, "excluded", 0)]
    IN left("rag") \o left("session")

Offered(s, pools) ==
    FlattenSeq([i \in DOMAIN s.priorities |->
                   Candidates(s.priorities[i], pools[s.priorities[i]])])

NothingPlaced(s, profile) ==
    [kept |-> [section \in Sections |-> <<>>], ended |-> {}, full |-> FALSE,
     used |-> SystemTokens(s) + profile, decisions |-> <<>>]

Place(s, budget, profile, candidates) ==
    FoldLeft(LAMBDA acc, cand : Offer(s, budget, profile, acc, cand),
             NothingPlaced(s, profile), candidates)

Allocate(s, budget, pools) ==
    LET profile == ProfileTokens(s, budget)
        end == Place(s, budget, profile, Offered(s, pools))
    IN [kept |-> end.kept, profile |-> profile,
        decisions |-> FixedDecisions(s, budget) \o end.decisions \o LeftOut(s, pools)]

HasPrompt(s, context) ==
    HasSystem(s) \/ context.profile > 0 \/ \E section \in Sections : context.kept[section] # <<>>

(***************************************************************************)
(* The conversation.                                                       *)
(***************************************************************************)
\* From the newest group back: a group that does not fit is passed over, and
\* older ones may still be taken.
KeepGroup(items, room, acc, group) ==
    LET span == Span(items, group.first, group.last)
        cost == CountAll(span)
        decide(verdict, c) == Append(acc.decisions,
                                     Decision("history", group.first .. group.last, verdict, c))
    IN IF ~group.sendable \/ acc.spent + cost > room
       THEN [acc EXCEPT !.decisions = decide("excluded", 0)]
       ELSE [spent |-> acc.spent + cost, kept |-> span \o acc.kept,
             decisions |-> decide("included", cost)]

SelectHistory(items, room) ==
    FoldLeft(LAMBDA acc, group : KeepGroup(items, room, acc, group),
             [spent |-> 0, kept |-> <<>>, decisions |-> <<>>], Reverse(HistoryGroups(items)))

AskedLive(j) == history
\* The caller's list as the request was made.
Asked(j) == j.history
Dependency(j) == Span(Asked(j), j.start, Len(Asked(j)))
Lane(j) == IF j.lane THEN LaneTokens ELSE 0
RequiredTokens(j) == Lane(j) + CountAll(j.tail) + CountAll(Dependency(j)) + j.setting.reserve
ContextBudgetUnframed(j) == Max({0, j.setting.max - RequiredTokens(j)})
ContextBudget(j) == Max({0, j.setting.max - RequiredTokens(j) - Overhead})

RequestDecisions(j, framed) ==
    <<Decision("lane", {}, IF j.lane THEN "included" ELSE "excluded", Lane(j)),
      Decision("reserve", {}, "reserved", j.setting.reserve),
      Decision("new_input", DOMAIN j.tail, "included", CountAll(j.tail)),
      Decision("history", j.start .. Len(Asked(j)), "reserved", CountAll(Dependency(j))),
      Decision("framing", {}, "reserved", IF framed > 0 THEN Overhead ELSE 0)>>

PromptTokens(s, context) ==
    IF HasPrompt(s, context)
    THEN AssembledTokens(s, context.profile, context.kept) + Overhead ELSE 0

\* The plan, one figure bound by each operator for the next: the context, its
\* framing, the room it leaves, the history chosen for that room.  The late
\* refusals keep the ceiling hard for any counter.
WithHistory(j, context, framed, room, chosen) ==
    LET input == RequiredTokens(j) - j.setting.reserve + framed + chosen.spent
    IN IF room < 0 \/ input + j.setting.reserve > j.setting.max THEN Refusal("budget")
       ELSE [kind |-> "planned", lane |-> j.lane, prompt |-> framed, kept |-> context.kept,
             before |-> chosen.kept \o Dependency(j), after |-> j.tail,
             input |-> input, remaining |-> j.setting.max - input - j.setting.reserve,
             decisions |-> context.decisions \o RequestDecisions(j, framed)
                           \o chosen.decisions]

WithRoom(j, context, framed, room) ==
    WithHistory(j, context, framed, room,
                SelectHistory(Span(Asked(j), 1, j.start - 1), room))

Framed(j, context, framed) ==
    WithRoom(j, context, framed, j.setting.max - RequiredTokens(j) - framed)

WithContext(j, context) == Framed(j, context, PromptTokens(j.setting, context))

\* What the rest of the planning makes of a retrieval.
Planned(j, pools) == WithContext(j, Allocate(j.setting, ContextBudget(j), pools))

(***************************************************************************)
(* The request.  Everything up to the first await runs on one snapshot.    *)
(***************************************************************************)
EmptyPools == [section \in Sections |-> <<>>]

Finish(outcome) ==
    /\ job' = [job EXCEPT !.stage = "done"]
    /\ result' = outcome

Job(tail, setting, lane) ==
    [stage |-> "retrieving", history |-> history, tail |-> tail, setting |-> setting,
     lane |-> lane, start |-> HistoryDependency(history, tail).start]

\* Bound: on a long history only the plain settings are tried, and no lane.
SettingsFor(items) == IF Len(items) <= ShortHistory THEN Settings ELSE PlainSettings

\* A plain request has no lane, nor has a composed one that recalls nothing.
Ask(tail, setting, lane) ==
    /\ job.stage = "idle"
    /\ Len(history) <= ShortHistory \/ ~lane
    /\ LET j == Job(tail, setting, lane)
           refused == \/ setting.reserve > setting.max
                      \/ RequiredTokens(j) > setting.max
                      \/ SystemTokens(setting) > ContextBudget(j)
           waits == RetrievalCanHelp(setting, ContextBudget(j))
       IN \/ /\ ~HistoryDependency(history, tail).valid
             /\ job' = [j EXCEPT !.stage = "done", !.start = Len(history) + 1]
             /\ result' = Refusal(IF setting.reserve > setting.max THEN "budget"
                                  ELSE "dependency")
          \/ /\ HistoryDependency(history, tail).valid
             /\ job' = [j EXCEPT !.stage = IF ~refused /\ waits THEN @ ELSE "done"]
             /\ result' = IF refused THEN Refusal("budget")
                          ELSE IF waits THEN NoResult
                          ELSE Planned(j, EmptyPools)
    /\ UNCHANGED <<history, edits>>

\* The embedding and the stores answer, or one of them raises.
Retrieve(pools) ==
    /\ job.stage = "retrieving"
    /\ UNCHANGED <<history, edits>>
    /\ Finish(Planned(job, pools))

RetrievalFails ==
    /\ job.stage = "retrieving"
    /\ Finish(Refusal("retrieval"))
    /\ UNCHANGED <<history, edits>>

AnswersFor(s) ==
    {[section \in Sections |-> IF section \in s.sections THEN f[section] ELSE <<>>] :
        f \in [Sections -> Pools]}

(***************************************************************************)
(* The host goes on.                                                       *)
(***************************************************************************)
Say(item) ==
    /\ job.stage = "idle"
    /\ Len(history) < MaxHistory
    /\ history' = Append(history, item)
    /\ UNCHANGED <<edits, job, result>>

EditsHistory(item) ==
    /\ job.stage = "retrieving"
    /\ edits < MaxEdits
    /\ history # <<>>
    /\ edits' = edits + 1
    /\ history' = [history EXCEPT ![Len(history)] = item]
    /\ UNCHANGED <<job, result>>

\* A host drops a finished request and its lists with it.
Discard ==
    /\ job.stage = "done"
    /\ job' = NoJob
    /\ result' = NoResult
    /\ history' = <<>>
    /\ edits' = 0

Next ==
    \/ \E item \in Items : Say(item)
    \/ /\ job.stage = "idle"
       /\ \E setting \in SettingsFor(history), tail \in Tails, lane \in BOOLEAN :
              Ask(tail, setting, lane)
    \/ job.stage = "retrieving" /\ \E pools \in AnswersFor(job.setting) : Retrieve(pools)
    \/ RetrievalFails
    \/ \E item \in Rewrites : EditsHistory(item)
    \/ Discard

Spec == Init /\ [][Next]_vars

(***************************************************************************)
(* Properties.                                                             *)
(***************************************************************************)
IsPlanned == result.kind = "planned"

TypeOK ==
    /\ history \in Seq(Items) /\ Len(history) <= MaxHistory
    /\ edits \in 0 .. MaxEdits
    /\ job.stage \in {"idle", "retrieving", "done"}
    /\ result.kind \in {"none", "planned", "refused"}
    /\ IsPlanned => \A i \in DOMAIN result.decisions : result.decisions[i].source \in Sources

\* What a request cannot do without, stated from its inputs alone.
Mandatory(j) ==
    RequiredTokens(j) + IF HasSystem(j.setting) THEN SystemTokens(j.setting) + Overhead ELSE 0

\* A request is refused for its size exactly when its mandatory parts do not
\* fit: no optional block, profile or old message ever makes a plan fail, and
\* no plan leaves over the ceiling (plan_messages, injector_budgeted.py:1366).
RefusedExactlyWhenTooLarge ==
    /\ IsPlanned => Mandatory(job) <= job.setting.max
    /\ result = Refusal("budget") => Mandatory(job) > job.setting.max

SumOfCosts(decisions) == FoldLeft(LAMBDA sum, d : sum + d.cost, 0, decisions)

\* The decisions a plan explains itself with account for every token of the
\* request and its reserve: what is sent, re-counted from the messages, is the
\* sum of what each decision claims, and never more than the ceiling
\* (_build and plan_messages, injector_budgeted.py:949-1652).
DecisionsAccountForTheRequest ==
    IsPlanned =>
        LET sent == result.prompt + Lane(job) + CountAll(result.before \o result.after)
        IN /\ SumOfCosts(result.decisions) = sent + job.setting.reserve
           /\ sent = result.input
           /\ sent + job.setting.reserve + result.remaining = job.setting.max
           /\ result.remaining >= 0

DecisionsOn(source, index) ==
    {k \in DOMAIN result.decisions :
        result.decisions[k].source = source /\ index \in result.decisions[k].part}

\* Every message of the history gets one decision, and the messages sent are
\* the ones decided in, in their order (injector_budgeted.py:1577-1625).
HistoryIsDecidedOnce ==
    IsPlanned =>
        /\ \A i \in DOMAIN job.history : Cardinality(DecisionsOn("history", i)) = 1
        /\ result.before =
              LET in(i) == \E k \in DecisionsOn("history", i) :
                               result.decisions[k].verdict \in {"included", "reserved"}
              IN FlattenSeq([i \in DOMAIN job.history |->
                                IF in(i) THEN <<job.history[i]>> ELSE <<>>])

\* The decisions returned with a plan are a complete and exact account of it
\* (ContextDecision and ContextPlan, context_plan.py).
PlanExplainsItself == DecisionsAccountForTheRequest /\ HistoryIsDecidedOnce

\* What a cut leaves out could not have been sent: with one word more of the
\* text the context would be over its budget (_truncate_to_fit, :1322).
Lengthened(kept, section) ==
    [kept EXCEPT ![section][Len(kept[section])] = Cut(@.words + 1)]
TruncationIsMaximal ==
    IsPlanned => \A section \in Sections :
        LET blocks == result.kept[section]
            profile == ProfileTokens(job.setting, ContextBudget(job))
        IN blocks # <<>> /\ blocks[Len(blocks)].cut =>
              AssembledTokens(job.setting, profile, Lengthened(result.kept, section))
                  > ContextBudget(job)

\* The part of a request the builder vouches for: the history it kept and the
\* tool outputs the final input starts with.
Vouched ==
    result.before \o
        IF result.after # <<>> /\ IsTool(result.after[1])
        THEN Span(result.after, 1, LeadingTools(result.after))
        ELSE Span(result.after, 1, LeadingOutputs(result.after))

RepliesTo(items, i) == {k \in i + 1 .. Stretch(ToolReplies(items), i + 1) : TRUE}
IdsOf(items, indices) == UNION {items[k].ids : k \in indices}

\* A request for tools without usable ids, or with two alike.
Malformed(item) == item.kind = "calls" /\ item.ids = {}

ChatPairsAreWhole(items) ==
    /\ \A i \in DOMAIN items : items[i].kind = "calls" /\ ~Malformed(items[i]) =>
          IdsOf(items, RepliesTo(items, i)) = items[i].ids
    /\ \A i \in DOMAIN items : Malformed(items[i]) => IdsOf(items, RepliesTo(items, i)) = {}
    /\ \A j \in DOMAIN items : IsTool(items[j]) =>
          \E i \in 1 .. j - 1 : items[i].kind = "calls" /\ j \in RepliesTo(items, i)

\* An owned item is sent only under a program that is open when it comes.
UnderAnOpenProgram(items, j) ==
    \E i \in 1 .. j - 1 :
        /\ items[i].kind = "program" /\ items[i].ids = {items[j].owner}
        /\ \A k \in i + 1 .. j - 1 :
              ~(items[k].kind = "program_output" /\ items[k].ids = items[i].ids
                /\ items[k].status = "completed")

CallGraphIsWhole(items) ==
    /\ \A j \in DOMAIN items : IsOutput(items[j]) =>
          \E i \in 1 .. j - 1 : IsCall(items[i]) /\ CallPair(items[i]) = OutputPair(items[j])
    /\ \A i \in DOMAIN items : IsCall(items[i]) /\ ~MayStayOpen(items[i]) =>
          \E j \in i + 1 .. Len(items) : CallPair(items[i]) = OutputPair(items[j])
    /\ \A j \in DOMAIN items : items[j].owner # Nobody => UnderAnOpenProgram(items, j)
    /\ \A i \in DOMAIN items : items[i].kind = "reasoning" =>
          i < Len(items) /\ (IsEmitted(items[i + 1]) \/ items[i + 1].kind = "reasoning")

\* Whatever was dropped for room or as incomplete, and whatever the caller did
\* to its list while retrieval was awaited, no tool output is sent without the
\* call before it, no call without its output, no owned item outside its open
\* program and no reasoning without what it led to
\* (_history_groups, _tail_history_dependency, injector_budgeted.py:704-842).
\* Except that a request for tools whose ids are malformed is sent, alone and
\* without a reply: MalformedCallsAreDropped says otherwise, and fails.
NothingIsOrphaned ==
    IsPlanned => ChatPairsAreWhole(Vouched) /\ CallGraphIsWhole(Vouched)

\* "history selection drops that request rather than emitting an orphaned
\* assistant tool-call message" (injector_budgeted.py:684-686): a request for
\* tools whose ids are malformed is never sent.
MalformedCallsAreDropped ==
    IsPlanned => \A i \in DOMAIN result.before :
        ~Malformed(result.before[i])
=============================================================================
