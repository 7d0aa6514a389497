------------------------------ MODULE MCReports ------------------------------
(***************************************************************************)
(* Asks the tools that read a graph about small graphs: the cycles a       *)
(* semantic diff reports (GraphDiff), communities and processes            *)
(* (Clustering), the symbols a diff touches and their versions             *)
(* (LineHistory), the pages of a query (QueryPages), whether an impact is  *)
(* exact (ImpactReport), and what a search finds (SearchRanking).          *)
(***************************************************************************)
EXTENDS Naturals, FiniteSets, Sequences, SequencesExt, TLC

VARIABLES question, settled

CONSTANTS QUERY_GRAPH_ROW_LIMIT, MAX_RESPONSE_CHARS, U64_MAX, MaxDepth, MaxLine, LogLimit,
          OVERFETCH_FACTOR, MIXED_CORPUS_HEADROOM, MAX_FETCH_LIMIT, K, Unit, MostAsked

Diff == INSTANCE GraphDiff
Clusters == INSTANCE Clustering
Lines == INSTANCE LineHistory
Query == INSTANCE QueryPages
Impact == INSTANCE ImpactReport
Search == INSTANCE SearchRanking

(***************************************************************************)
(* Graphs of three nodes with loops, in both orders, and of four nodes.    *)
(***************************************************************************)
Triple(p) == [from |-> p[1], kind |-> "Calls", to |-> p[2]]
DiffGraph(n, all, pairs, order) ==
    LET some == SelectSeq(all, LAMBDA p : p \in pairs)
        es == [i \in DOMAIN some |-> Triple(some[i])]
    IN [nodes |-> [Function |-> 1 .. n], unresolved |-> 0,
        edges |-> IF order = "as is" THEN es ELSE Reverse(es) \o es]
Pairs3 == <<<<1, 1>>, <<1, 2>>, <<1, 3>>, <<2, 1>>, <<2, 2>>, <<2, 3>>, <<3, 1>>, <<3, 2>>, <<3, 3>>>>
Pairs4 == <<<<1, 2>>, <<2, 3>>, <<3, 4>>, <<4, 1>>, <<3, 1>>, <<2, 1>>, <<4, 2>>, <<1, 4>>, <<4, 3>>, <<3, 5>>>>
DiffGraphs == {DiffGraph(3, Pairs3, ps, o) : ps \in SUBSET Range(Pairs3), o \in {"as is", "twice"}}
              \cup {DiffGraph(4, Pairs4, ps, o) : ps \in SUBSET Range(Pairs4), o \in {"as is", "twice"}}

(***************************************************************************)
(* Symbol graphs of four nodes, every partition of them; call graphs.      *)
(***************************************************************************)
Pairs == <<<<1, 2>>, <<1, 3>>, <<1, 4>>, <<2, 3>>, <<2, 4>>, <<3, 4>>>>
Rel(k, p) == [kind |-> k, from |-> p[1], to |-> p[2]]
Kinds == {"none", "Calls", "Imports"}
SymbolGraphs ==
    {[n |-> 4, rels |-> SelectSeq([i \in DOMAIN Pairs |-> Rel(k[i], Pairs[i])], LAMBDA r : r.kind # "none")]
        : k \in [DOMAIN Pairs -> Kinds]}
Partitions == {c \in [1 .. 4 -> 1 .. 4] : Clusters!renumber_communities(c) = c}
Called == {[x \in DOMAIN c \ {y \in DOMAIN c : c[y] = {}} |-> c[x]] : c \in [{"main", "f", "g"} -> SUBSET {"f", "g", "h", "main"}]}
Fn(id, lang, shapes, vis) ==
    [id |-> id, language |-> lang, entry_kind |-> "", visibility |-> vis, name |-> shapes, top |-> vis = "pub"]
Functions == {Fn("main", "rust", {"main"}, ""), Fn("f", "go", {"test*", "on[A-Z]*"}, ""), Fn("g", "rust", {"test*"}, "pub"),
              Fn("h", "rust", {}, "")}

(***************************************************************************)
(* Diffs of two files: sections with one or two hunks of a few lines.  For *)
(* the history the indexed directory is the top of the work tree or one    *)
(* below it, and a commit may touch a file of the same name elsewhere.     *)
(***************************************************************************)
Line(k, f, at) == [k |-> k, f |-> f, at |-> at, like |-> "plain"]
Body(ks) == [i \in DOMAIN ks |-> Line(ks[i], Lines!NoFile, 0)]
Hunk(at, ks) == <<Line("hunk", Lines!NoFile, at)>> \o Body(ks)
Head1 == Body(<<"git", "note">>)
Modified(f, hunks) == Head1 \o <<Line("old", f, 0), Line("new", f, 0)>> \o hunks
New(f) == Head1 \o <<Line("oldnull", Lines!NoFile, 0), Line("new", f, 0)>> \o Hunk(1, <<"add", "add">>)
Deleted(f) == Head1 \o <<Line("old", f, 0), Line("newnull", Lines!NoFile, 0)>> \o Hunk(0, <<"del", "del">>)
Binary == Head1 \o Body(<<"note">>)
Bodies == {ks \in SeqOf({"add", "del", "ctx"}, 3) : \E i \in DOMAIN ks : ks[i] # "ctx"}
Sections(f) == {Modified(f, Hunk(at, ks)) : at \in 1 .. 4, ks \in Bodies}
               \cup {Modified(f, Hunk(1, ks) \o Hunk(at, <<"ctx", "del", "add">>)) : at \in 4 .. 5, ks \in {<<"add">>, <<"del">>, <<"ctx", "del">>}}
               \cup {New(f), Deleted(f)}
Sym(id, l, s, e, v) == [id |-> id, label |-> l, start |-> s, end |-> e, via |-> v]
A == <<"a">>
B == <<"b">>
F == A \o <<"f">>
S == A \o <<"S">>
M == S \o <<"m">>
G == B \o <<"g">>
CodeGraph ==
    [of |-> (A :> {Sym(F, "Function", 1, 2, "Defines_File"), Sym(S, "Struct", 3, 6, "Defines_File"),
                   Sym(M, "Method", 4, 5, "HasMethod")})
            @@ (B :> {Sym(G, "Function", 2, 3, "Defines_File")}),
     processes |-> (F :> {"p"}) @@ (S :> {}) @@ (G :> {"p", "q"}) @@ (M :> {}),
     community |-> (F :> {1}) @@ (S :> {1}) @@ (G :> {2}) @@ (M :> {}), communities |-> 2]
Few == {Modified(B, Hunk(2, <<"add">>)), Modified(B, Hunk(1, <<"del">>)), New(B), Deleted(B), Binary}
Diffs == {s : s \in Sections(A)} \cup {s \o t : s \in Sections(A), t \in Few} \cup {t \o s : s \in Sections(A), t \in Few}

Commit(i, merge, d) ==
    [sha |-> i, first |-> i - 1, parents |-> IF merge THEN {i - 1, i - 2} ELSE {i - 1}, diff |-> d]
Touching(in, out) ==
    {Modified(in \o A, Hunk(1, <<"add">>)), Modified(in \o A, Hunk(4, <<"del">>)),
     New(in \o B) \o Modified(out \o A, Hunk(1, <<"add">>)),
     Modified(in \o A, Hunk(2, <<"ctx", "add">>)) \o Modified(in \o B, Hunk(9, <<"add">>)) \o Deleted(out \o B)}
Log(ds, merge) == [i \in 1 .. Len(ds) |-> Commit(10 - i, i = merge, ds[i])]
LogsAt(in, out) ==
    {[at |-> [root |-> <<"home">>, codebase |-> <<"home">> \o in], log |-> Log(ds, merge)]
        : ds \in {x \in SeqOf(Touching(in, out), 4) : Len(x) >= 3}, merge \in 0 .. 2}
Logs == LogsAt(<<>>, <<"sub">>) \cup LogsAt(<<"sub">>, <<>>)

(***************************************************************************)
(* Queries: MATCH (n:label) WHERE n.property = 'literal' RETURN n.name AS  *)
(* alias ORDER BY n LIMIT k, with the parts there or not.                  *)
(***************************************************************************)
W(ws) == FlattenSeq([i \in DOMAIN ws |-> IF ws[i] \in {"(", ")", "="} THEN <<Query!Of("other")>>
                                         ELSE IF ws[i] \in {".", ":"} THEN <<Query!Of("sigil")>>
                                         ELSE IF ws[i] = "'" THEN <<Query!Of("literal")>>
                                         ELSE IF ws[i] = " " THEN <<Query!Gap>>
                                         ELSE IF ws[i] = ";" THEN <<Query!Of("semi")>>
                                         ELSE <<Query!Word(ws[i])>>])
Aliases == {<<>>, <<" ", "as", " ", "limit">>, <<" ", "as", " ", " ", "order">>, <<" ", "as", " ", "'">>}
Texts(limit, sorts) ==
    {W(<<"match", "(", "n", ":">> \o <<l>> \o <<")", " ">> \o p \o <<"return", " ", "n", ".", "name">> \o a
       \o (IF sorts THEN <<" ", "order", " ", "by", " ", "n">> ELSE <<>>)
       \o (IF limit THEN <<" ", "limit", " ", "3">> ELSE <<>>) \o e)
        : l \in {"limit", "import"}, p \in {<<>>, <<"where", " ", "n", ".", "limit", "=", "'", " ">>}, a \in Aliases,
          e \in {<<>>, <<" ">>, <<" ", ";", " ">>, <<";">>}}
\* Rows in the order of their keys, in the reverse one, and with every pair
\* swapped: of the keys that come in pairs, that is in order too.
RowsOf(sizes, keys) == [i \in DOMAIN sizes |-> [id |-> i, key |-> keys[i], size |-> sizes[i]]]
Swapped(rows) == [i \in DOMAIN rows |-> rows[IF i % 2 = 0 THEN i - 1 ELSE IF i < Len(rows) THEN i + 1 ELSE i]]
Ones(n) == [i \in 1 .. n |-> 1]
Own(n) == [i \in 1 .. n |-> i]
Keys(n) == {Own(n), [i \in 1 .. n |-> (i + 1) \div 2]}
SizeLists == SeqOf({1, 3, 9}, 4) \cup {Ones(n) : n \in 5 .. 9}
Statement(text, own, sizes, keys, sorts) ==
    LET rows == RowsOf(sizes, keys)
    IN [text |-> text, own |-> own, orders |-> {rows, Reverse(rows), Swapped(rows)}, sorts |-> sorts]
Queries ==
    UNION {{Statement(t, {}, Ones(n), Own(n), sorts) : t \in Texts(FALSE, sorts), n \in {0, 3, 4, 7}}
           \cup {Statement(t, {3}, Own(4), k, sorts) : t \in Texts(TRUE, sorts), k \in Keys(4)}
           : sorts \in BOOLEAN}
    \cup UNION {{Statement(W(<<"match", " ", "return", " ", "n">>), {}, s, k, FALSE) : k \in Keys(Len(s))}
                \cup {Statement(W(<<"match", " ", "return", " ", "n", " ", "order", " ", "by", " ", "n">>), {}, s, k, TRUE)
                        : k \in Keys(Len(s))}
                : s \in SizeLists}

(***************************************************************************)
(* Impacts: the target is method m of struct O; B and C are structs, A is  *)
(* an alias, Vec and Ext are outside, Tr is a trait, Box wraps any type.   *)
(***************************************************************************)
Types == {"O", "B", "C", "Vec", "Ext", "Box"}
At(p, shape, r, l) == [id |-> p, resolved |-> FALSE, name |-> "m", language |-> l, shape |-> shape,
                       type |-> [plain |-> p # <<"dyn">>, path |-> p], reason |-> r]
Inside == {<<"O">>, <<"k", "B">>, <<"C">>, <<"A">>, <<"Self">>, <<"dyn">>, <<>>}
Outside == {<<"Vec">>, <<"Ext">>, <<"Tr">>, <<"Box">>}
Sites == {At(p, s, r, l) : p \in Inside, s \in {"member", "path"}, r \in {"not_found", "cfg_twins"}, l \in {"rust", "go"}}
         \cup {At(p, s, r, "rust") : p \in Outside, s \in {"member", "path"}, r \in {"external_callee", "not_found"}}
         \cup {At(<<>>, "bare", "not_found", "rust")}
NameMap(trait, alias, twoB) ==
    [n \in Types \cup {"A", "Tr"} |->
        CASE n = "A" -> {alias} [] n = "B" /\ twoB -> {"B", "O"}
          [] n = "Tr" -> IF trait THEN {"O", "Ext"} ELSE {} [] OTHER -> {n}]
Clean == [recorded |-> TRUE, buckets |-> {}, cargo |-> TRUE]
Target(l, t, gated) ==
    [label |-> l, language |-> "rust", gated |-> gated, owner |-> "O", concrete |-> TRUE, trait |-> t, name |-> "m"]
ImpactGraph(t, sites, aliases, derefs) ==
    [target |-> t, edges |-> {}, sites |-> sites, columns |-> [reason |-> TRUE, hint |-> TRUE, context |-> TRUE],
     structs |-> {"O", "B", "C"}, aliases |-> aliases, derefs |-> derefs, docs |-> 0, references |-> FALSE,
     twins |-> 0, contexts |-> ("e" :> [own |-> "", file |-> ""]), coverage |-> Clean, foreign |-> 0, fails |-> {}]
World(names, derefs) ==
    [names |-> names, derefs |-> derefs \cup ({"Box"} \X Types), types |-> Types, impls |-> Types, target |-> "O", elsewhere |-> {}, calls |-> {}]
Spelled ==
    {<<[ImpactGraph(Target(l, t, FALSE), {s}, {"A"} \cup (IF b THEN {"B"} ELSE {}), {p[1] : p \in d})
            EXCEPT !.fails = f, !.columns.hint = h],
       World(NameMap(t, a, b), d)>>
        : l \in {"Method", "Function"}, t \in BOOLEAN, s \in Sites, a \in {"O", "B"}, b \in BOOLEAN, h \in BOOLEAN,
          d \in SUBSET {<<"B", "C">>, <<"C", "O">>}, f \in {{}, {"types"}, {"aliases", "derefs"}}}
Edge(k, c) == [kind |-> k, from |-> "e", label |-> "Function", conf |-> c]
Hidden(g) == g.target.label = "Trait" \/ (g.target.gated /\ g.twins >= 2) \/ g.foreign > 0
             \/ (g.target.label = "File" /\ g.docs > 0)
Uncovered(g) == ~g.coverage.recorded \/ g.coverage.buckets # {} \/ ~g.coverage.cargo
Reasoned ==
    {<<g, [World(NameMap(FALSE, "B", FALSE), {}) EXCEPT
            !.calls = {e.from : e \in g.edges} \cup (IF Hidden(g) THEN {"hidden"} ELSE {}),
            !.elsewhere = IF Uncovered(g) THEN {"file"} ELSE {}]>>
        : g \in {[ImpactGraph(Target(l, FALSE, w > 0), {}, {}, {}) EXCEPT
                    !.edges = e, !.twins = w, !.foreign = x, !.docs = n, !.coverage = c]
                 : l \in {"Method", "Trait", "File"}, e \in {{}, {Edge("Calls", 100)}, {Edge("Calls", Impact!NoConf)}}, w \in 0 .. 2,
                   x \in 0 .. 1, n \in 0 .. 1,
                   c \in {Clean, [Clean EXCEPT !.recorded = FALSE], [Clean EXCEPT !.cargo = FALSE],
                          [Clean EXCEPT !.buckets = {"quarantined"}]}}}

(***************************************************************************)
(* Searches over six documents: the two retrievers, with the index of this *)
(* graph or of an older one; and scans without an index.                   *)
(***************************************************************************)
Docs == 1 .. 6
Labels == {l \in [Docs -> {"Function", "Struct", "File"}] :
              /\ l[1] = "Function" /\ l[2] \in {"File", "Struct"} /\ l[6] # "Function"
              /\ \A k \in 3 .. 5 : l[k] # "File"}
Found(l, ks) == [i \in DOMAIN ks |-> [key |-> ks[i], label |-> l[ks[i]]]]
SemanticLists(l) == {Found(l, ks) : ks \in {x \in {<<>>, <<6>>, <<5, 2>>, <<4, 3, 5>>} : \A i \in DOMAIN x : l[x[i]] # "File"}}
Boosts == {[k \in Docs |-> {}], [k \in Docs |-> IF k % 2 = 0 THEN {"p"} ELSE {"p", "q"}]}
Match(k) == <<[where |-> IF k % 2 = 0 THEN "in name" ELSE "in path", ratio |-> 50],
              [where |-> IF k % 3 = 0 THEN "name" ELSE "no", ratio |-> 50]>>
SearchGraph(l, processes, gone) ==
    [k \in Docs \ gone |-> [label |-> l[k], small |-> k = 4 /\ processes[4] # {},
                            processes |-> IF l[k] = "File" THEN {} ELSE processes[k], match |-> Match(k)]]
Both == [bm25 |-> TRUE, vector |-> TRUE, bodies |-> TRUE]
Searches ==
    UNION {{<<SearchGraph(l, p, gone),
              [limit |-> n, filter |-> f, terms |-> 1, min_score |-> Unit \div (K + 2 * MostAsked), index |-> Both,
               lexical |-> Found(l, <<1, 2, 3, 4, 5, 6>>), semantic |-> s, budget |-> 1]>>
            : p \in Boosts, gone \in {{}, {2}}, n \in 1 .. 2, f \in {Search!NoFilter, "Struct", "File"}, s \in SemanticLists(l)}
           : l \in Labels}
    \cup {<<SearchGraph(l, p, {}),
           [limit |-> n, filter |-> f, terms |-> t, min_score |-> 1, index |-> x, lexical |-> <<>>, semantic |-> <<>>, budget |-> 2]>>
         : l \in Labels, p \in Boosts, n \in {1, 4}, f \in {Search!NoFilter, "Struct", "File"}, t \in {0, 2},
           x \in {[bm25 |-> FALSE, vector |-> FALSE, bodies |-> FALSE], [bm25 |-> FALSE, vector |-> TRUE, bodies |-> TRUE]}}
Orders == <<<<1, 2, 3, 4, 5, 6>>, <<6, 5, 4, 3, 2, 1>>>>

(***************************************************************************)
(* A behaviour puts one question and settles it.                           *)
(***************************************************************************)
Ask(kind, inputs) == [kind |-> kind, of |-> inputs]

Init ==
    /\ settled = FALSE
    /\ \/ \E g \in DiffGraphs : question = Ask("graph", g)
       \/ \E g \in SymbolGraphs : question = Ask("clusters", g)
       \/ \E c \in Called : question = Ask("processes", c)
       \/ \E d \in Diffs : question = Ask("diff", d)
       \/ \E l \in Logs : question = Ask("log", l)
       \/ \E q \in Queries : question = Ask("query", q)
       \/ \E s \in Searches : question = Ask("search", s)
       \/ \E i \in Spelled \cup Reasoned : question = Ask("impact", i)

Settle == ~settled /\ settled' = TRUE /\ UNCHANGED question
Next == Settle
vars == <<question, settled>>
Spec == Init /\ [][Next]_vars

\* The cycles of a graph that the semantic diff compares are its strongly
\* connected components and self loops, whatever the order of the edges
\* (semantic_diff.rs).
CyclesAreComponents == [][question.kind = "graph" => Diff!CyclesAreComponentsOf(question.of)]_vars

\* cluster_graph leaves connected communities: the repair splits those and only
\* those that are not, Louvain ends no worse than it starts, and a process
\* holds what its entry reaches at its call distance (clustering/*).
ClusteringHolds ==
    [][/\ question.kind = "clusters" =>
            LET adj == Clusters!collect_weighted_edges(question.of)
            IN /\ \A c \in Partitions : Clusters!RepairHolds(adj.neighbors, c)
               /\ Clusters!LouvainHolds(adj, [num |-> 1, den |-> 1])
       /\ question.kind = "processes" =>
            Clusters!ProcessesHold(Functions, question.of, {"main", "f", "g", "h"}, MaxDepth)]_vars

\* detect_changes names no symbol that a diff leaves alone and every touched one
\* that hangs on its file directly; index_history gives a symbol a version for
\* each commit that touches its file, not one of the same name outside the
\* indexed directory, and links it to the one before (git_diff.rs:319,
\* history/mod.rs:249).
ChangedSymbolsAreNamed ==
    [][/\ question.kind = "diff" => Lines!NamesTouched(CodeGraph, question.of, MaxLine)
       /\ question.kind = "log" => Lines!VersionsChain(CodeGraph, question.of.at, question.of.log, LogLimit, MaxLine)]_vars

\* The symbols a diff touches are named, methods too (git_diff.rs:7).
TouchedSymbolsAreNamed == [][question.kind = "diff" => Lines!NamesAllTouched(CodeGraph, question.of, MaxLine)]_vars

\* A client that follows next_offset comes to an end with as many rows as the
\* answer has, whatever order the engine takes in each call; told that the order
\* is stable, with no two rows sorting alike, it has read every row once and in
\* order; a query of its own LIMIT gets no second one (query_handlers.rs:198,
\* response_budget.rs:100).
PagesAreTheAnswer == [][question.kind = "query" => Query!PagesAreTheAnswerOf(question.of)]_vars

\* An impact called exact leaves out no open call site that may call the
\* target, and is never claimed over files the index did not cover
\* (clustering/impact_other_owner.rs, impact_reasons.rs, coverage_evidence.rs).
ExactIsComplete == [][question.kind = "impact" => Impact!ExactIsCompleteIn(question.of[1], question.of[2])]_vars

\* The pages of a search are those of one ranked list although every call
\* searches again, and a search that comes back short has served all that the
\* filter lets through (search/hybrid.rs, search/rrf.rs).
SearchServes == [][question.kind = "search" => Search!SearchServesIn(question.of[1], question.of[2], Orders, MostAsked)]_vars
=============================================================================
