----------------------------- MODULE Clustering -----------------------------
(***************************************************************************)
(* cluster_graph: the communities Louvain finds, the repair that splits    *)
(* the disconnected ones, and the processes traced from entry points.      *)
(*                                                                         *)
(* A symbol graph is [n, rels]: nodes 1..n in the order in which the label *)
(* tables list them, and the relations [kind, from, to] in query order.    *)
(* Weights are integers and the resolution gamma is a fraction, so a gain  *)
(* is compared exactly, where the code compares doubles.                   *)
(***************************************************************************)
EXTENDS Naturals, Integers, Sequences, FiniteSets, SequencesExt, FiniteSetsExt, Functions

(***************************************************************************)
(* The weighted adjacency.                                                 *)
(***************************************************************************)
edge_weight(kind) ==
    CASE kind = "Calls" -> 3
      [] kind \in {"Implements", "Extends"} -> 2
      [] kind \in {"Imports", "Uses"} -> 1
      [] kind \in {"HasMethod", "HasField", "HasVariant", "Defines", "Contains"} -> 5
      [] OTHER -> 0

\* Each relation is an entry of both its ends; a field or a variant is no node.
collect_weighted_edges(g) ==
    LET used == SelectSeq(g.rels, LAMBDA r : edge_weight(r.kind) > 0 /\ {r.from, r.to} \subseteq 1 .. g.n)
        entry(i, r) == (IF r.from = i THEN <<[to |-> r.to, w |-> edge_weight(r.kind)]>> ELSE <<>>)
                       \o (IF r.to = i THEN <<[to |-> r.from, w |-> edge_weight(r.kind)]>> ELSE <<>>)
    IN [neighbors |-> [i \in 1 .. g.n |-> FoldLeft(LAMBDA acc, r : acc \o entry(i, r), <<>>, used)],
        total_weight |-> FoldLeft(LAMBDA acc, r : acc + edge_weight(r.kind), 0, used)]

\* The weight of the entries of a list that lead to nodes of S.
WeightTo(entries, S) == FoldLeft(LAMBDA acc, e : acc + (IF e.to \in S THEN e.w ELSE 0), 0, entries)
Degrees(neighbors) == [i \in DOMAIN neighbors |-> WeightTo(neighbors[i], DOMAIN neighbors)]

(***************************************************************************)
(* Louvain.                                                                *)
(***************************************************************************)
\* Communities numbered from 1 in the order of their first member.
renumber_communities(comm) ==
    LET first(c) == Min({i \in DOMAIN comm : comm[i] = c})
        firsts == {first(comm[i]) : i \in DOMAIN comm}
    IN [i \in DOMAIN comm |-> Cardinality({f \in firsts : f <= first(comm[i])})]

Gain_unpenalised(neighbors, k, m, gamma, s, i, c) ==
    WeightTo(neighbors[i], {j \in DOMAIN neighbors : j # i /\ s.comm[j] = c})

\* The gain of community c for node i, times 2m and the denominator of gamma.
Gain(neighbors, k, m, gamma, s, i, c) ==
    LET others == {j \in DOMAIN neighbors : j # i /\ s.comm[j] = c}
    IN WeightTo(neighbors[i], others) * 2 * m * gamma.den - gamma.num * s.sigma_tot[c] * k[i]

\* One node: taken out of its community, put in the best neighbouring one; of
\* equal gains the old community wins, then the lowest number.
move(neighbors, k, m, gamma, s, i) ==
    LET old == s.comm[i]
        out == [s EXCEPT !.sigma_tot[old] = @ - k[i]]
        gain(c) == Gain(neighbors, k, m, gamma, out, i, c)
        near == {s.comm[e.to] : e \in {f \in Range(neighbors[i]) : f.to # i}}
        better == {c \in near : gain(c) > gain(old)}
        best == IF better = {} THEN old
                ELSE Min({c \in better : \A d \in better : gain(d) <= gain(c)})
    IN [comm |-> [s.comm EXCEPT ![i] = best],
        sigma_tot |-> [out.sigma_tot EXCEPT ![best] = @ + k[i]],
        improved |-> s.improved \/ best # old]

MaxPasses == 100

RECURSIVE Passes(_, _, _, _, _, _)
Passes(neighbors, k, m, gamma, s, left) ==
    LET over(t, i) == move(neighbors, k, m, gamma, t, i)
        after == FoldLeft(over, [s EXCEPT !.improved = FALSE], [i \in DOMAIN neighbors |-> i])
    IN IF left = 0 THEN s
       ELSE IF ~after.improved THEN after ELSE Passes(neighbors, k, m, gamma, after, left - 1)

one_level(neighbors, m, gamma) ==
    LET k == Degrees(neighbors)
        start == [comm |-> [i \in DOMAIN neighbors |-> i], sigma_tot |-> k, improved |-> FALSE]
    IN renumber_communities(Passes(neighbors, k, m, gamma, start, MaxPasses).comm)

\* One super-node per community; what is inside it becomes a self loop.
aggregate_graph(neighbors, comm) ==
    LET comms == Range(comm)
        weight(c, d) == FoldSet(LAMBDA i, acc : acc + WeightTo(neighbors[i], {j \in DOMAIN comm : comm[j] = d}),
                                0, {i \in DOMAIN comm : comm[i] = c})
        next(c) == {d \in comms : \E i \in DOMAIN comm : comm[i] = c /\ \E e \in Range(neighbors[i]) : comm[e.to] = d}
    IN [c \in 1 .. Cardinality(comms) |->
            LET ds == SetToSortSeq(next(c), <) IN [x \in DOMAIN ds |-> [to |-> ds[x], w |-> weight(c, ds[x])]]]

RECURSIVE Levels(_, _, _, _)
Levels(neighbors, m, gamma, node_to_comm) ==
    LET comm == one_level(neighbors, m, gamma)
        mapped == [i \in DOMAIN node_to_comm |-> comm[node_to_comm[i]]]
    IN IF Cardinality(Range(comm)) = Len(neighbors) THEN mapped
       ELSE Levels(aggregate_graph(neighbors, comm), m, gamma, mapped)

louvain(adj, gamma) ==
    LET each == [i \in DOMAIN adj.neighbors |-> i]
    IN IF adj.total_weight = 0 THEN each ELSE Levels(adj.neighbors, adj.total_weight, gamma, each)

(***************************************************************************)
(* The repair of disconnected communities.                                 *)
(***************************************************************************)
\* The members a breadth-first search reaches from `seen` in one community.
RECURSIVE Component(_, _, _)
Component(neighbors, members, seen) ==
    LET next == {e.to : e \in UNION {Range(neighbors[i]) : i \in seen}} \cap members
    IN IF next \subseteq seen THEN seen ELSE Component(neighbors, members, seen \cup next)

\* In the order of their first members.
connected_components_within(neighbors, members) ==
    LET components == {Component(neighbors, members, {i}) : i \in members}
    IN SetToSortSeq(components, LAMBDA a, b : Min(a) < Min(b))

\* Every component but the first gets a number of its own.
split(neighbors, s, c) ==
    LET members == {i \in DOMAIN s.comm : s.comm[i] = c}
        parts == connected_components_within(neighbors, members)
        part(i) == CHOOSE x \in DOMAIN parts : i \in parts[x]
    IN IF Cardinality(members) <= 1 THEN s
       ELSE [comm |-> [i \in DOMAIN s.comm |->
                        IF i \in members /\ part(i) > 1 THEN s.next_comm + part(i) - 2 ELSE s.comm[i]],
             next_comm |-> s.next_comm + Len(parts) - 1]

repair_c2(neighbors, comm) ==
    LET num_comms == IF comm = <<>> THEN 0 ELSE Max(Range(comm))
        done == FoldLeft(LAMBDA s, c : split(neighbors, s, c),
                         [comm |-> comm, next_comm |-> num_comms + 1], [c \in 1 .. num_comms |-> c])
    IN renumber_communities(done.comm)

(***************************************************************************)
(* Processes.  A function is [id, language, entry_kind, visibility, name,  *)
(* top]: `name` is the set of the name shapes it has, `top` whether its    *)
(* qualified name is file::name with a known extension.                    *)
(***************************************************************************)
ENTRY_RULES == <<
    [kind |-> "proof", holds |-> "rust proof"], [kind |-> "test", holds |-> "rust test"],
    [kind |-> "main", holds |-> "main"], [kind |-> "main", holds |-> "go Main"],
    [kind |-> "test", holds |-> "test_*"], [kind |-> "handler", holds |-> "do_*"],
    [kind |-> "android_lifecycle", holds |-> "on[A-Z]*"], [kind |-> "android_provider", holds |-> "provider"],
    [kind |-> "android_worker", holds |-> "worker"], [kind |-> "composable_candidate", holds |-> "public CamelCase"],
    [kind |-> "test", holds |-> "test*"], [kind |-> "test", holds |-> "*Test"],
    [kind |-> "handler", holds |-> "*Handler"]>>

Matches(f, holds) ==
    CASE holds = "rust proof" -> f.language = "rust" /\ f.entry_kind = "proof"
      [] holds = "rust test" -> f.language = "rust" /\ f.entry_kind = "test"
      [] holds = "go Main" -> f.language = "go" /\ "Main" \in f.name
      [] holds \in {"test_*", "test*", "*Test"} -> f.language # "rust" /\ holds \in f.name
      [] holds = "public CamelCase" -> f.visibility \in {"public", "pub"} /\ "CamelCase" \in f.name
      [] OTHER -> holds \in f.name

\* A public top-level function of a file no rule named.
detect_lib_entries(f) == f.visibility \in {"pub", "export", "public", "open"} /\ f.top

\* One entry per function: the first rule that matches it names its kind.
detect_entry_points(functions) ==
    LET rules(f) == {i \in DOMAIN ENTRY_RULES : Matches(f, ENTRY_RULES[i].holds)}
        ruled == {f \in functions : rules(f) # {}}
        lib == {f \in functions \ ruled : detect_lib_entries(f)}
    IN {[id |-> f.id, kind |-> ENTRY_RULES[Min(rules(f))].kind] : f \in ruled}
       \cup {[id |-> f.id, kind |-> "lib_entry"] : f \in lib}

expands(at, calls, max) == at.depth < max /\ at.id \in DOMAIN calls

\* The queue of the search: depths found, nodes still to expand.
RECURSIVE Search(_, _, _, _)
Search(calls, max, depths, queue) ==
    IF queue = <<>> THEN depths
    ELSE LET at == Head(queue)
             new == IF expands(at, calls, max) THEN SetToSeq(calls[at.id] \ DOMAIN depths) ELSE <<>>
         IN Search(calls, max,
                   [x \in DOMAIN depths \cup Range(new) |-> IF x \in DOMAIN depths THEN depths[x] ELSE at.depth + 1],
                   Tail(queue) \o [i \in DOMAIN new |-> [id |-> new[i], depth |-> at.depth + 1]])

bfs_from_entry(start, calls, max) == Search(calls, max, [x \in {start} |-> 0], <<[id |-> start, depth |-> 0]>>)

\* calls: caller -> the functions it calls.
\* A Process node and its ParticipatesIn rows, for functions and methods.
trace_one_process(entry, calls, callables, max) ==
    LET depths == bfs_from_entry(entry.id, calls, max)
    IN [entry |-> entry.id, kind |-> entry.kind, depth |-> Max(Range(depths)), node_count |-> Cardinality(DOMAIN depths),
        participates_in |-> [x \in DOMAIN depths \cap callables |-> depths[x]]]

trace_processes(functions, calls, callables, max) ==
    {trace_one_process(e, calls, callables, max) : e \in detect_entry_points(functions)}

(***************************************************************************)
(* What a clustering should satisfy.                                       *)
(***************************************************************************)
\* (2m)^2 times Newman's modularity: a term for every pair of nodes.
Newman(adj, comm) ==
    LET k == Degrees(adj.neighbors)
        two_m == 2 * adj.total_weight
        row(i) == FoldSet(LAMBDA j, acc : acc + WeightTo(adj.neighbors[i], {j}) * two_m - k[i] * k[j],
                          0, {j \in DOMAIN comm : comm[j] = comm[i]})
    IN FoldSet(LAMBDA i, acc : acc + row(i), 0, DOMAIN comm)

\* The members of a community reach one another inside it, and the repair only
\* splits what was not connected.
RepairHolds(neighbors, comm) ==
    LET repaired == repair_c2(neighbors, comm)
        linked(i, j) == j \in Component(neighbors, {k \in DOMAIN comm : comm[k] = comm[i]}, {i})
    IN /\ \A i, j \in DOMAIN comm : repaired[i] = repaired[j] <=> (comm[i] = comm[j] /\ linked(i, j))
       /\ Range(repaired) = 1 .. Cardinality(Range(repaired))

\* Moving one node does not improve the first level, and the further levels end
\* no worse than it.
LouvainHolds(adj, gamma) ==
    LET level == one_level(adj.neighbors, adj.total_weight, gamma)
    IN adj.total_weight > 0 =>
        /\ Newman(adj, louvain(adj, gamma)) >= Newman(adj, level)
        /\ \A i \in DOMAIN level, c \in Range(level) : Newman(adj, [level EXCEPT ![i] = c]) <= Newman(adj, level)

\* The nodes within n calls of a function.
RECURSIVE Within(_, _, _)
Within(calls, from, n) ==
    IF n = 0 THEN {from}
    ELSE Within(calls, from, n - 1) \cup UNION {calls[x] : x \in Within(calls, from, n - 1) \cap DOMAIN calls}

\* A process holds what its entry reaches within the limit, at its distance.
ProcessesHold(functions, calls, callables, max) ==
    \A p \in trace_processes(functions, calls, callables, max) :
        /\ DOMAIN p.participates_in = Within(calls, p.entry, max) \cap callables
        /\ \A x \in DOMAIN p.participates_in : p.participates_in[x] = Min({n \in 0 .. max : x \in Within(calls, p.entry, n)})
=============================================================================
