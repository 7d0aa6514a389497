------------------------------ MODULE MCAnswers ------------------------------
(***************************************************************************)
(* One behaviour per question to the pure parts of the system: those of    *)
(* MCDecisions to the indexer and the resolver, those of MCReports to the  *)
(* tools that read a graph.                                                *)
(***************************************************************************)
EXTENDS Naturals

VARIABLES question, settled
CONSTANTS QUERY_GRAPH_ROW_LIMIT, MAX_RESPONSE_CHARS, U64_MAX, MaxDepth, MaxLine, LogLimit,
          OVERFETCH_FACTOR, MIXED_CORPUS_HEADROOM, MAX_FETCH_LIMIT, K, Unit, MostAsked

Decisions == INSTANCE MCDecisions
Reports == INSTANCE MCReports

Init == Decisions!Init \/ Reports!Init
Settle == ~settled /\ settled' = TRUE /\ UNCHANGED question
Next == Settle
vars == <<question, settled>>
Spec == Init /\ [][Next]_vars

\* The twin of a cfg-split item that a call is pinned to agrees with every
\* build that compiles the caller (resolver/cfg_verdict.rs).
TwinIsCompiled == Decisions!TwinIsCompiled

\* What a build compiles is neither `outside` nor `feature gated`, and is owned
\* by the target that compiles it (indexer/cargo_targets.rs).
FlagsAreSound == Decisions!FlagsAreSound

\* A C or C++ call that gets an edge names a definition the language could
\* give it (calls/declarations.rs, calls/member_calls.rs), save for an edge to a
\* file the resolver takes for the caller's, a.cpp for a.c (ambiguity_policy.rs).
CallsLink == Decisions!CallsLink

\* A Rust call settled by a written path names an item that path may mean in
\* the caller (calls/candidate_scope.rs, receiver/*).
PathsNameTargets == Decisions!PathsNameTargets

\* A macro site gets the function its expansion calls or a reason, and a run
\* over an older one's rows leaves what a first run would (resolver_layers.rs).
MacroTargetsAreCalled == Decisions!MacroTargetsAreCalled

\* The cycles the semantic diff compares are the strongly connected components
\* and self loops of the graph (semantic_diff.rs).
CyclesAreComponents == Reports!CyclesAreComponents

\* cluster_graph leaves connected communities no worse than one level of
\* Louvain, and processes at their call distances (clustering/*).
ClusteringHolds == Reports!ClusteringHolds

\* detect_changes names no untouched symbol and every touched one that hangs on
\* its file directly; index_history chains the versions of a symbol, wherever in
\* the work tree the indexed directory lies (git_diff.rs, history/mod.rs).
ChangedSymbolsAreNamed == Reports!ChangedSymbolsAreNamed

\* Following next_offset comes to an end, and gives every row of the answer once
\* when the pages say that their order is stable and no two rows sort alike
\* (query_handlers.rs, response_budget.rs).
PagesAreTheAnswer == Reports!PagesAreTheAnswer

\* An impact called exact leaves out no call of the target
\* (clustering/impact_other_owner.rs, coverage_evidence.rs).
ExactIsComplete == Reports!ExactIsComplete

\* The pages of a search are those of one ranked list, and a search that comes
\* back short has served all that the filter lets through (search/hybrid.rs).
SearchServes == Reports!SearchServes
=============================================================================
