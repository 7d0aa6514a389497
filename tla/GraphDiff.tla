------------------------------ MODULE GraphDiff ------------------------------
(***************************************************************************)
(* The comparison of a graph before and after a change (semantic_diff).    *)
(*                                                                         *)
(* A graph is [nodes, edges, unresolved]: label -> qualified names, the    *)
(* (from, kind, to) triples in the order in which the hash set yields them *)
(* and the number of imports without a target.  Names are numbers, so that *)
(* their order is that of the sorted sets; scores are in tenths.           *)
(***************************************************************************)
EXTENDS Naturals, Integers, Sequences, FiniteSets, SequencesExt, FiniteSetsExt

WEIGHT_DANGLING == 10
WEIGHT_NEW_CYCLE == 5
WEIGHT_UNRESOLVED_DELTA == 1
UNRESOLVED_DELTA_MAX == 50
REGRESSION_SCORE_CAP == 100
VERDICT_CLEAN_MAX == 10
VERDICT_CONCERNING_MAX == 50

Names(nodes) == UNION {nodes[l] : l \in DOMAIN nodes}
Triples(g) == Range(g.edges)

(***************************************************************************)
(* Nodes and edges.                                                        *)
(***************************************************************************)
OfLabel(nodes, l) == IF l \in DOMAIN nodes THEN nodes[l] ELSE {}

\* (label, name) pairs: a symbol that changes its label is removed and added.
diff_nodes(before, after) ==
    LET new(b, a) == UNION {{<<l, q>> : q \in OfLabel(a, l) \ OfLabel(b, l)} : l \in DOMAIN a \cup DOMAIN b}
    IN [added |-> new(before, after), removed |-> new(after, before)]

diff_edges(before, after) == [added |-> after \ before, removed |-> before \ after]

\* An edge whose target is no node of a label the diff reads.
compute_dangling(after) == {e \in Triples(after) : e.to \notin Names(after.nodes)}

(***************************************************************************)
(* Cycles: the iterative form of Tarjan's algorithm.                       *)
(***************************************************************************)
\* Indices into the sorted list of names; self loops are kept apart.
build_adjacency(g) ==
    LET list == SetToSortSeq(Names(g.nodes), <)
        idx(q) == CHOOSE i \in DOMAIN list : list[i] = q
        inner == SelectSeq(g.edges, LAMBDA e : {e.from, e.to} \subseteq Names(g.nodes))
        out(i) == SelectSeq(inner, LAMBDA e : e.from = list[i] /\ e.to # list[i])
    IN [list |-> list,
        adj |-> [i \in DOMAIN list |-> [k \in DOMAIN out(i) |-> idx(out(i)[k].to)]],
        self_loops |-> {i \in DOMAIN list : \E k \in DOMAIN inner : inner[k].from = list[i] /\ inner[k].to = list[i]}]

visit(v, s) ==
    [s EXCEPT !.index[v] = s.counter, !.lowlink[v] = s.counter, !.counter = @ + 1,
              !.stack = Append(@, v), !.on_stack = @ \cup {v}, !.work = Append(@, [v |-> v, i |-> 1])]

\* Pops the stack down to v.
pop_scc(v, s) ==
    LET at == CHOOSE k \in DOMAIN s.stack : s.stack[k] = v
        component == {s.stack[k] : k \in at .. Len(s.stack)}
    IN [s EXCEPT !.stack = SubSeq(@, 1, at - 1), !.on_stack = @ \ component, !.result = Append(@, component)]

\* The next edge of the node on top of the work list.
follow(adj, s) ==
    LET top == Last(s.work)
        w == adj[top.v][top.i]
        moved == [s EXCEPT !.work[Len(s.work)].i = @ + 1]
    IN CASE s.index[w] = -1 -> visit(w, moved)
         [] s.index[w] # -1 /\ w \in s.on_stack ->
                [moved EXCEPT !.lowlink[top.v] = Min({@, s.index[w]})]
         [] OTHER -> moved

leave_overwrites(adj, s) ==
    LET v == Last(s.work).v
        closed == IF s.lowlink[v] = s.index[v] THEN pop_scc(v, s) ELSE s
        work == Front(s.work)
    IN IF work = <<>> THEN [closed EXCEPT !.work = work]
       ELSE [closed EXCEPT !.work = work, !.lowlink[Last(work).v] = s.lowlink[v]]

\* All its edges followed: close its component, hand the low link to its parent.
leave(adj, s) ==
    LET v == Last(s.work).v
        closed == IF s.lowlink[v] = s.index[v] THEN pop_scc(v, s) ELSE s
        work == Front(s.work)
    IN IF work = <<>> THEN [closed EXCEPT !.work = work]
       ELSE [closed EXCEPT !.work = work, !.lowlink[Last(work).v] = Min({@, s.lowlink[v]})]

RECURSIVE dfs_iterative(_, _)
dfs_iterative(adj, s) ==
    IF s.work = <<>> THEN s
    ELSE LET top == Last(s.work) IN
         dfs_iterative(adj, IF top.i <= Len(adj[top.v]) THEN follow(adj, s) ELSE leave(adj, s))

tarjan_scc(adj) ==
    LET none == [v \in DOMAIN adj |-> -1]
        start == [index |-> none, lowlink |-> none, on_stack |-> {}, stack |-> <<>>,
                  result |-> <<>>, counter |-> 0, work |-> <<>>]
        from(s, v) == IF s.index[v] # -1 THEN s ELSE dfs_iterative(adj, visit(v, s))
    IN FoldLeft(from, start, [v \in DOMAIN adj |-> v]).result

\* The sets of names joined into a sorted list.
strongly_connected_cycles(g) ==
    LET a == build_adjacency(g)
    IN {{a.list[i] : i \in scc} : scc \in {c \in Range(tarjan_scc(a.adj)) : Cardinality(c) >= 2}}
       \cup {{a.list[i]} : i \in a.self_loops}

diff_cycle_sets(before, after) == after \ before

(***************************************************************************)
(* Score and verdict.                                                      *)
(***************************************************************************)
regression_score(s) ==
    LET unresolved == Min({WEIGHT_UNRESOLVED_DELTA * Max({s.new_unresolved_delta, 0}), UNRESOLVED_DELTA_MAX})
    IN Min({WEIGHT_DANGLING * s.dangling_references + WEIGHT_NEW_CYCLE * s.new_cycles + unresolved,
            REGRESSION_SCORE_CAP})

classify_verdict(score) ==
    CASE score < VERDICT_CLEAN_MAX -> "clean"
      [] score >= VERDICT_CLEAN_MAX /\ score < VERDICT_CONCERNING_MAX -> "concerning"
      [] OTHER -> "regression"

verdict_for_summary(s, score) ==
    IF s.new_unresolved_delta > 0 /\ score < VERDICT_CLEAN_MAX THEN "concerning" ELSE classify_verdict(score)

diff(before, after) ==
    LET nodes == diff_nodes(before.nodes, after.nodes)
        edges == diff_edges(Triples(before), Triples(after))
        dangling == compute_dangling(after)
        new_cycles == diff_cycle_sets(strongly_connected_cycles(before), strongly_connected_cycles(after))
        summary == [nodes_added |-> Cardinality(nodes.added), nodes_removed |-> Cardinality(nodes.removed),
                    edges_added |-> Cardinality(edges.added), edges_removed |-> Cardinality(edges.removed),
                    dangling_references |-> Cardinality(dangling),
                    new_unresolved_delta |-> after.unresolved - before.unresolved,
                    new_cycles |-> Cardinality(new_cycles)]
        score == regression_score(summary)
    IN [summary |-> summary, score |-> score, verdict |-> verdict_for_summary(summary, score),
        nodes |-> nodes, edges |-> edges, dangling |-> dangling, new_cycles |-> new_cycles]

(***************************************************************************)
(* Cycles by their meaning.                                                *)
(***************************************************************************)
RECURSIVE Reached(_, _)
Reached(g, seen) ==
    LET next == {e.to : e \in {f \in Triples(g) : f.from \in seen /\ f.to \in Names(g.nodes)}}
    IN IF next \subseteq seen THEN seen ELSE Reached(g, seen \cup next)

After(g, q) == Reached(g, {e.to : e \in {f \in Triples(g) : f.from = q /\ f.to \in Names(g.nodes)}})

\* The cycles reported are the groups of nodes that reach one another, and the
\* nodes with an edge to themselves.
CyclesAreComponentsOf(g) ==
    LET on == {q \in Names(g.nodes) : q \in After(g, q)}
        group(q) == {r \in on : r \in After(g, q) /\ q \in After(g, r)}
        selfs == {{e.from} : e \in {f \in Triples(g) : f.from = f.to /\ f.from \in Names(g.nodes)}}
    IN strongly_connected_cycles(g) = {group(q) : q \in {r \in on : Cardinality(group(r)) >= 2}} \cup selfs
=============================================================================
