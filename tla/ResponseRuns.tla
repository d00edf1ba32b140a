---------------------------- MODULE ResponseRuns ----------------------------
(***************************************************************************)
(* The tool-call graph of a replayed conversation, and which parts of it   *)
(* may be sent again: src/protoprompt/injector_budgeted.py:155-842.         *)
(* An item is one message or Responses item.  `ids' is what correlates it  *)
(* (a chat request may declare several calls, an anonymous search none),   *)
(* `owner' the program that issued it, `status' its own status.  Provider  *)
(* wrappers and the several fields an id may live in are abstracted.       *)
(***************************************************************************)
EXTENDS Integers, SequencesExt

\* What a call of each kind is completed by; function stands for every pair
\* with one output that carries an id (custom, patch, computer, local shell).
CallOutput == [program |-> "program_output", function |-> "function_output",
               shell |-> "shell_output", search |-> "search_output",
               approval |-> "approval_response"]

CallKinds == DOMAIN CallOutput
OutputKinds == {CallOutput[k] : k \in CallKinds}
StreamedOutputs == {"shell_output", "search_output"}
HostedKinds == {"hosted", "approval", "approval_response"}
OpaqueKinds == {"hosted", "reply"}
InputOnlyKinds == {"trigger"}

Nobody == "nobody"
NoStatus == "none"
Open == {NoStatus, "in_progress"}
Terminal == {"completed", "incomplete"}

Item(kind, ids, owner, status) ==
    [kind |-> kind, ids |-> ids, owner |-> owner, status |-> status]

IsCall(item) == item.kind \in CallKinds
IsOutput(item) == item.kind \in OutputKinds
IsEmitted(item) == IsCall(item) \/ item.kind \in OpaqueKinds
IsProtocol(item) ==
    item.kind = "reasoning" \/ IsEmitted(item) \/ IsOutput(item) \/ item.owner # Nobody

IsAnonymousSearch(item) == item.kind = "search" /\ item.ids = {}
IsAnonymousFound(item) == item.kind = "search_output" /\ item.ids = {}
\* The edge of an identified call or output: what closes it, and under which id.
CallPair(item) == <<CallOutput[item.kind], item.ids>>
OutputPair(item) == <<item.kind, item.ids>>

Calls(run) == {i \in DOMAIN run : IsCall(run[i]) /\ ~IsAnonymousSearch(run[i])}
OutputsOf(run) == {j \in DOMAIN run : IsOutput(run[j]) /\ ~IsAnonymousFound(run[j])}
Programs(run) == {i \in Calls(run) : run[i].kind = "program"}
ClosedBy(run, i) == {j \in OutputsOf(run) : OutputPair(run[j]) = CallPair(run[i])}
CallOf(run, j) == {i \in Calls(run) : CallPair(run[i]) = OutputPair(run[j])}

OwnerAgrees(call, output) == output.owner \in {Nobody, call.owner}

\* Ordered chunks of one streamed output: a terminal one ends the stream, and
\* one without a status stands alone.
StreamIsOrdered(run, events) ==
    \A j \in events :
        /\ run[j].status = NoStatus => events = {j}
        /\ run[j].status \in Terminal => \A k \in events : k <= j

ReasoningIsFollowed(run) ==
    \A i \in DOMAIN run : run[i].kind = "reasoning" =>
        \E j \in i + 1 .. Len(run) :
            IsEmitted(run[j]) /\ \A k \in i + 1 .. j - 1 : run[k].kind = "reasoning"

\* One pass over the run: every identified call is new, no program is nested,
\* only streamed and program outputs repeat, and nothing else is let in.
ItemsAreIdentified(run) ==
    /\ \A i \in Calls(run) :
          /\ run[i].ids # {}
          /\ run[i].kind = "program" => run[i].owner = Nobody
          /\ \A k \in Calls(run) : CallPair(run[k]) = CallPair(run[i]) => k = i
    /\ \A j \in OutputsOf(run) :
          /\ run[j].ids # {}
          /\ run[j].kind \notin StreamedOutputs \cup {"program_output"} =>
                \A k \in OutputsOf(run) : OutputPair(run[k]) = OutputPair(run[j]) => k = j
    /\ \A i \in DOMAIN run : IsEmitted(run[i]) \/ IsOutput(run[i]) \/ run[i].kind = "reasoning"

OutputsCloseCalls(run) ==
    \A j \in OutputsOf(run) : run[j].kind # "program_output" =>
        /\ \E i \in CallOf(run, j) : i < j /\ OwnerAgrees(run[i], run[j])
        /\ run[j].kind \in StreamedOutputs =>
              StreamIsOrdered(run, {k \in OutputsOf(run) : OutputPair(run[k]) = OutputPair(run[j])})

(***************************************************************************)
(* Searches of the server carry no id.  One of them owns its whole ordered *)
(* stream; several are matched one to one, from the right, each call with  *)
(* the nearest output after it that no later call has taken.               *)
(***************************************************************************)
Searches(run) == {i \in DOMAIN run : IsAnonymousSearch(run[i])}
Found(run) == {j \in DOMAIN run : IsAnonymousFound(run[j])}

\* State of the scan from the right: outputs still free, and the pairs made;
\* a call that finds none ends it.
MatchStep(run, acc, i) ==
    IF i \in Found(run) THEN [acc EXCEPT !.free = <<i>> \o @]
    ELSE IF i \notin Searches(run) \/ ~acc.ok THEN acc
    ELSE IF acc.free = <<>> THEN [acc EXCEPT !.ok = FALSE]
    ELSE [acc EXCEPT !.free = Tail(@), !.pairs = @ \cup {<<i, Head(acc.free)>>}]

Matched(run) ==
    FoldLeft(LAMBDA acc, i : MatchStep(run, acc, i), [ok |-> TRUE, free |-> <<>>, pairs |-> {}],
             Reverse([i \in DOMAIN run |-> i]))

AnonymousEdges(run) ==
    IF Cardinality(Searches(run)) = 1 THEN Searches(run) \X Found(run) ELSE Matched(run).pairs

AnonymousSearchesMatch(run) ==
    \/ Searches(run) = {} /\ Found(run) = {}
    \/ /\ IF Cardinality(Searches(run)) = 1
             THEN Found(run) # {} /\ StreamIsOrdered(run, Found(run))
             ELSE Cardinality(Searches(run)) = Cardinality(Found(run)) /\ Matched(run).ok
       /\ \A e \in AnonymousEdges(run) : e[1] < e[2] /\ OwnerAgrees(run[e[1]], run[e[2]])

\* The program an output belongs to through the call it closes, which holds
\* even when the output itself does not name it.
InferredOwner(run, j) ==
    LET calls == (IF IsOutput(run[j]) /\ run[j].kind # "program_output" /\ j \in OutputsOf(run)
                     THEN CallOf(run, j) ELSE {})
                 \cup {e[1] : e \in {edge \in AnonymousEdges(run) : edge[2] = j}}
    IN IF calls = {} THEN Nobody ELSE run[CHOOSE i \in calls : TRUE].owner

ProgramId(item) == CHOOSE id \in item.ids : TRUE

ProgramOutputsFollow(run) ==
    \A j \in OutputsOf(run) : run[j].kind = "program_output" =>
        /\ \E i \in CallOf(run, j) : i < j
        /\ run[j].status \in Terminal
        /\ run[j].status = "completed" =>
              \A k \in OutputsOf(run) : OutputPair(run[k]) = OutputPair(run[j]) => k <= j

OwnersComeFirst(run) ==
    \A j \in DOMAIN run : run[j].owner # Nobody =>
        \E i \in Programs(run) : i < j /\ ProgramId(run[i]) = run[j].owner

NothingAfterCompletion(run) ==
    \A i \in Programs(run) : \A j \in ClosedBy(run, i) : run[j].status = "completed" =>
        \A k \in j + 1 .. Len(run) :
            ProgramId(run[i]) \notin {run[k].owner, InferredOwner(run, k)}

\* An owned item that leaves its program resumable.
IsActiveChild(item) ==
    \/ item.kind \in HostedKinds
    \/ item.kind \in OutputKinds \ {"program_output"}
    \/ item.kind = "shell" /\ item.status \in Open

ProgramsAreAlive(run) ==
    \A i \in Programs(run) :
        LET id == ProgramId(run[i])
        IN \/ ClosedBy(run, i) # {}
           \/ \E k \in i + 1 .. Len(run) : run[k].owner = id /\ IsActiveChild(run[k])
           \/ \E k \in Calls(run) : run[k].owner = id /\ ClosedBy(run, k) # {}
           \/ \E e \in AnonymousEdges(run) : run[e[1]].owner = id

\* A call that may be replayed without its output.
MayStayOpen(item) ==
    \/ item.kind = "program"
    \/ item.owner # Nobody /\ item.kind = "approval"
    \/ item.owner # Nobody /\ item.kind = "shell" /\ item.status \in Open

CallsAreAnswered(run) ==
    \A i \in Calls(run) : ClosedBy(run, i) # {} \/ MayStayOpen(run[i])

RunIsValid(run) ==
    /\ ReasoningIsFollowed(run)
    /\ ItemsAreIdentified(run)
    /\ OutputsCloseCalls(run)
    /\ AnonymousSearchesMatch(run)
    /\ ProgramOutputsFollow(run)
    /\ OwnersComeFirst(run)
    /\ NothingAfterCompletion(run)
    /\ ProgramsAreAlive(run)
    /\ CallsAreAnswered(run)

(***************************************************************************)
(* Groups of a history that are kept or left out together.                 *)
(***************************************************************************)
Span(items, first, last) == SubSeq(items, first, last)

\* The end of the longest stretch from `first' within a set of indices.
Stretch(indices, first) ==
    Max({first - 1} \cup {e \in indices : first .. e \subseteq indices})

IsTool(item) == item.kind = "tool"
ProtocolItems(items) == {k \in DOMAIN items : IsProtocol(items[k])}
ToolReplies(items) == {k \in DOMAIN items : IsTool(items[k])}

GroupEnd(items, first) ==
    IF IsProtocol(items[first]) THEN Stretch(ProtocolItems(items), first)
    ELSE IF items[first].kind = "calls" THEN Stretch(ToolReplies(items), first + 1)
    ELSE first

\* The tool replies answer exactly the calls declared; a request whose ids are
\* malformed declares none, so with no reply behind it the two sides agree.
RepliesMatch(items, first, last) ==
    /\ last - first = Cardinality(items[first].ids)
    /\ UNION {items[k].ids : k \in first + 1 .. last} = items[first].ids

GroupIsSendable(items, first, last) ==
    IF IsProtocol(items[first]) THEN RunIsValid(Span(items, first, last))
    ELSE IF items[first].kind = "calls" THEN RepliesMatch(items, first, last)
    ELSE items[first].kind \notin InputOnlyKinds /\ ~IsTool(items[first])

HistoryGroups(items) ==
    LET from[i \in 1 .. Len(items) + 1] ==
            IF i > Len(items) THEN <<>>
            ELSE LET last == GroupEnd(items, i)
                 IN <<[first |-> i, last |-> last, sendable |-> GroupIsSendable(items, i, last)]>>
                    \o from[last + 1]
    IN from[1]

(***************************************************************************)
(* A final input that starts with tool outputs needs the calls they close, *)
(* which are still the last items of the history.                          *)
(***************************************************************************)
LeadingTools(tail) == Stretch(ToolReplies(tail), 1)
LeadingOutputs(tail) == Stretch({k \in DOMAIN tail : IsOutput(tail[k])}, 1)

TailStart(items) == 1 + Max({0} \cup {i \in DOMAIN items : ~IsProtocol(items[i])})

\* [start, valid]: history from `start' on is mandatory.
HistoryDependency(items, tail) ==
    LET n == Len(items)
        tools == LeadingTools(tail)
        start == TailStart(items)
    IN IF tail = <<>> THEN [start |-> n + 1, valid |-> TRUE]
       ELSE IF IsTool(tail[1])
       THEN [start |-> n,
             valid |-> /\ n > 0 /\ items[n].kind = "calls" /\ items[n].ids # {}
                       /\ \A j \in 1 .. tools : tail[j].ids # {}
                       /\ tools = Cardinality(items[n].ids)
                       /\ UNION {tail[j].ids : j \in 1 .. tools} = items[n].ids]
       ELSE IF IsOutput(tail[1])
       THEN [start |-> start,
             valid |-> /\ start <= n
                       /\ RunIsValid(Span(items, start, n) \o Span(tail, 1, LeadingOutputs(tail)))]
       ELSE [start |-> n + 1, valid |-> TRUE]
=============================================================================
