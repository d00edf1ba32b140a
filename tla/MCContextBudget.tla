--------------------------- MODULE MCContextBudget ---------------------------
(* Small conversations and settings for the request planner. *)
EXTENDS ContextBudget

Plain(kind) == Item(kind, {}, Nobody, NoStatus)
Named(kind, id) == Item(kind, {id}, Nobody, NoStatus)

ProgramP == Named("program", "p")
ProgramEnd == Item("program_output", {"p"}, Nobody, "completed")
Child == Item("function", {"a"}, "p", NoStatus)
ChildEnd == Named("function_output", "a")

MCItems == {Plain("text"), Plain("essay"), Named("calls", "a"), Plain("calls"), Named("tool", "a"),
            Plain("reasoning"), Named("function", "a"), ChildEnd, ProgramP, ProgramEnd, Child,
            Plain("search"), Plain("search_output")}

MCRewrites == {Plain("text")}
MCTails == {<<>>, <<Plain("text")>>, <<Named("tool", "a")>>, <<ChildEnd>>,
            <<ProgramEnd, Plain("text")>>}

Setting(max, reserve, system, profile, sections, priorities) ==
    [max |-> max, reserve |-> reserve, system |-> system, profile |-> profile,
     sections |-> sections, priorities |-> priorities]

Default == <<"rag", "session">>
Both == {"rag", "session"}

\* One setting that leaves room for one or two groups and waits for a
\* retrieval; and a spread of prompts, profiles, reserves and priorities: no
\* prompt, a prompt without tokens, one that cannot fit, a section the
\* priorities leave out, and a reserve above the ceiling.
MCPlainSettings == {Setting(9, 1, Unset, 0, {"rag"}, Default)}
MCSettings == MCPlainSettings \cup
    {Setting(max, 0, system, profile, Both, priorities) :
        max \in {4, 14}, system \in {Unset, 0, 2}, profile \in {0, 3},
        priorities \in {Default, <<"session", "rag">>, <<"session">>}} \cup
    {Setting(16, 2, 1, 2, {}, Default), Setting(5, 6, 1, 0, {}, Default),
     Setting(12, 1, 12, 0, {"session"}, Default)}
MCPools == {<<2>>, <<5, 1>>, <<9, 1>>}
=============================================================================
