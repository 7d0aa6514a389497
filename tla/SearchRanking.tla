---------------------------- MODULE SearchRanking ----------------------------
(***************************************************************************)
(* search_codebase: two retrievers, the label filter, the fusion of their  *)
(* ranks, the graph's say about every hit, and the pages a client reads    *)
(* call by call (search/hybrid, search/rrf, search/substring, the          *)
(* handler).                                                               *)
(*                                                                         *)
(* A search q is [limit, filter, terms, min_score, index, lexical,         *)
(* semantic, budget]: terms the number of words, index the parts built     *)
(* beside the graph, lexical and semantic the whole answers of the two     *)
(* retrievers, documents [key, label] from the best to the worst.  A graph *)
(* maps a key to [label, small, processes, match]: whether its community   *)
(* is small, the processes it takes part in, and how each word matches it. *)
(* Keys are numbers in the order of the names.  `order` is the order in    *)
(* which a hash map, or a scan of the graph, yields the keys in one call.  *)
(***************************************************************************)
EXTENDS QueryPages

CONSTANTS OVERFETCH_FACTOR,       \* 3
          MIXED_CORPUS_HEADROOM,  \* 2
          MAX_FETCH_LIMIT,        \* 4000
          K,                      \* 60
          Unit                    \* of the fused scores: divisible by every K + rank

NoFilter == "no filter"
SEARCHABLE_LABELS == {"Function", "Method", "Struct", "Enum", "Trait", "Module", "Constant", "TypeAlias"}

\* Descending score, then ascending key.
ahead(a, b) == a.score > b.score \/ (a.score = b.score /\ a.key < b.key)

\* The sort is stable; only the first `limit` rows stay.
sort_and_truncate(rows, limit) ==
    LET insert(s, r) ==
            LET before == Cardinality({i \in DOMAIN s : ~ahead(r, s[i])})
            IN SubSeq(s, 1, before) \o <<r>> \o SubSeq(s, before + 1, Len(s))
        sorted == FoldLeft(insert, <<>>, rows)
    IN SubSeq(sorted, 1, Min({limit, Len(sorted)}))

(***************************************************************************)
(* Retrieval.                                                              *)
(***************************************************************************)
base_fetch_limit(q) == q.limit * OVERFETCH_FACTOR * MIXED_CORPUS_HEADROOM

passes_label_filter_late(c, q) == TRUE
passes_label_filter(c, q) == q.filter \in {NoFilter, c.label}

\* Doubles the depth until enough documents pass the filter, the retriever has
\* no more, or the ceiling is reached.
RECURSIVE retrieve(_, _, _)
retrieve(list, q, fetch_limit) ==
    LET hits == SubSeq(list, 1, Min({fetch_limit, Len(list)}))
        kept == SelectSeq(hits, LAMBDA c : passes_label_filter(c, q))
        exhausted == Len(hits) < fetch_limit
    IN IF Len(kept) >= q.limit * OVERFETCH_FACTOR \/ exhausted \/ fetch_limit >= MAX_FETCH_LIMIT
       THEN [i \in DOMAIN kept |-> kept[i].key]
       ELSE retrieve(list, q, Min({fetch_limit * 2, MAX_FETCH_LIMIT}))

retrieve_ranked(list, q) == retrieve(list, q, base_fetch_limit(q))

\* What a ranking gives a key: 1 / (K + rank).
Contribution(ranking, key) ==
    LET ranks == {i \in DOMAIN ranking : ranking[i] = key}
    IN IF ranks = {} THEN 0 ELSE Unit \div (K + Min(ranks))

fuse(a, b, limit, order) ==
    LET keys == SelectSeq(order, LAMBDA key : key \in Range(a) \cup Range(b))
    IN sort_and_truncate([i \in DOMAIN keys |->
            [key |-> keys[i], score |-> Contribution(a, keys[i]) + Contribution(b, keys[i])]], limit)

(***************************************************************************)
(* The graph's say about a hit.                                            *)
(***************************************************************************)
MAX_BOOSTED_PROCESSES == 3
HYBRID_WEIGHTS == [small_community |-> 2, per_process |-> 1]
SUBSTRING_WEIGHTS == [small_community |-> 10, per_process |-> 5]

boost_for(node, weights) ==
    (IF node.small THEN weights.small_community ELSE 0)
    + weights.per_process * Min({Cardinality(node.processes), MAX_BOOSTED_PROCESSES})

Row(graph, key, score) ==
    [key |-> key, label |-> graph[key].label, score |-> score, processes |-> graph[key].processes, size |-> 1]

enrich_symbol_hit(graph, hit, q) ==
    {Row(graph, hit.key, hit.score + boost_for(graph[hit.key], HYBRID_WEIGHTS)) :
        k \in {hit.key} \cap {x \in DOMAIN graph : graph[x].label \in SEARCHABLE_LABELS /\ q.filter \in {NoFilter, graph[x].label}}}

\* A file has no community and no process.
enrich_file_hit(graph, hit, q) ==
    {Row(graph, hit.key, hit.score) :
        k \in {hit.key} \cap {x \in DOMAIN graph : graph[x].label = "File" /\ q.filter \in {NoFilter, "File"}}}

\* A hit the graph does not have is dropped, and one below the threshold.
enrich_from_graph(graph, hit, q) ==
    LET found == enrich_symbol_hit(graph, hit, q) \cup enrich_file_hit(graph, hit, q)
        kept == {r \in found : r.score >= q.min_score}
    IN IF kept = {} THEN <<>> ELSE <<CHOOSE r \in kept : TRUE>>

search_hybrid(graph, q, order) ==
    LET bm25 == IF q.index.bm25 THEN retrieve_ranked(q.lexical, q) ELSE <<>>
        vector == IF q.index.vector THEN retrieve_ranked(q.semantic, q) ELSE <<>>
        fused == fuse(bm25, vector, q.limit * 2, order)
        results == FoldLeft(LAMBDA rs, hit : rs \o enrich_from_graph(graph, hit, q), <<>>, fused)
    IN sort_and_truncate(results, q.limit)

(***************************************************************************)
(* The fallback without an index; scores in percent.  A word matches as a  *)
(* whole name, in the name, in the path, or not; `ratio` is its share.     *)
(***************************************************************************)
term_score(m) ==
    CASE m.where = "name" -> 100
      [] m.where = "in name" -> 70 + (30 * m.ratio) \div 100
      [] m.where = "in path" -> 50 + (50 * m.ratio) \div 100
      [] OTHER -> 0

score_candidate(node, terms) ==
    LET best == Max({term_score(node.match[t]) : t \in 1 .. terms})
        all_match == \A t \in 1 .. terms : node.match[t].where # "no"
        bonus == IF all_match /\ terms > 1 THEN 10 ELSE 0
    IN IF best = 0 THEN 0 ELSE Min({best + bonus + boost_for(node, SUBSTRING_WEIGHTS), 100})

search_substring(graph, q, order) ==
    LET keys == SelectSeq(order, LAMBDA k :
                    /\ k \in DOMAIN graph /\ graph[k].label \in SEARCHABLE_LABELS
                    /\ q.filter \in {NoFilter, graph[k].label}
                    /\ score_candidate(graph[k], q.terms) >= q.min_score)
    IN sort_and_truncate([i \in DOMAIN keys |-> Row(graph, keys[i], score_candidate(graph[keys[i]], q.terms))], q.limit)

(***************************************************************************)
(* search_codebase.                                                        *)
(***************************************************************************)
\* Documents are searched in the bodies of the lexical index only.
reject_unservable_file_filter(q) == q.filter = "File" /\ ~(q.index.bm25 /\ q.index.bodies)

search_graph(graph, q, order) ==
    CASE reject_unservable_file_filter(q) -> [ok |-> FALSE]
      [] ~reject_unservable_file_filter(q) /\ q.terms = 0 -> [ok |-> TRUE, rows |-> <<>>]
      [] OTHER -> [ok |-> TRUE, rows |-> IF q.index.bm25 \/ q.index.vector THEN search_hybrid(graph, q, order)
                                         ELSE search_substring(graph, q, order)]

NO_PROCESS_GROUP == "(no process)"

\* Each process of a page with its hits, in the order of the page.
group_hits_by_process(rows) ==
    LET names(r) == IF r.processes = {} THEN {NO_PROCESS_GROUP} ELSE r.processes
        all == UNION {names(rows[i]) : i \in DOMAIN rows}
        hits(p) == SelectSeq(rows, LAMBDA r : p \in names(r))
    IN [p \in all |-> [i \in DOMAIN hits(p) |-> hits(p)[i].key]]

\* Every call searches again and cuts its page out of the ranked list.
do_search_codebase(graph, q, order, offset) ==
    LET found == search_graph(graph, q, order)
        page == bound_values_paged(found.rows, offset, q.budget)
    IN IF ~found.ok THEN [ok |-> FALSE]
       ELSE [ok |-> TRUE, rows |-> page.items, total_count |-> page.total_count,
             next_offset |-> page.next_offset, by_process |-> group_hits_by_process(page.items)]

(***************************************************************************)
(* What a search should give.                                              *)
(***************************************************************************)
\* The pages a client reads, each from a call with an order of its own.
RECURSIVE ReadPages(_, _, _, _)
ReadPages(graph, q, orders, offset) ==
    LET page == do_search_codebase(graph, q, Head(orders), offset)
    IN IF page.next_offset = {} THEN page.rows
       ELSE page.rows \o ReadPages(graph, q, Tail(orders) \o <<Head(orders)>>, CHOOSE n \in page.next_offset : TRUE)

\* Documents of the index that the filter lets through, by their rank.
Served(list, q) == LET kept == SelectSeq(list, LAMBDA c : q.filter \in {NoFilter, c.label}) IN [i \in DOMAIN kept |-> kept[i].key]
Servable(q) ==
    LET a == IF q.index.bm25 THEN Served(q.lexical, q) ELSE <<>>
        b == IF q.index.vector THEN Served(q.semantic, q) ELSE <<>>
    IN {k \in Range(a) \cup Range(b) : Contribution(a, k) + Contribution(b, k) >= q.min_score}

\* The index was built from this graph.
IndexIsCurrent(graph, q) ==
    \A c \in Range(q.lexical) \cup Range(q.semantic) : c.key \in DOMAIN graph /\ graph[c.key].label = c.label

\* The pages of separate calls give every hit once and in the order of one
\* call; a hit is a node of the graph that passes the filter; and a search
\* that finds fewer than it may has found every document of a current index
\* that the filter lets through, for the limits the threshold is made for.
SearchServesIn(graph, q, orders, most) ==
    LET found == search_graph(graph, q, Head(orders))
        keys == {r.key : r \in Range(found.rows)}
    IN IF ~found.ok THEN q.filter = "File"
       ELSE /\ ReadPages(graph, q, orders, 0) = found.rows
            /\ Cardinality(keys) = Len(found.rows) /\ Len(found.rows) <= q.limit
            /\ \A k \in keys : k \in DOMAIN graph /\ q.filter \in {NoFilter, graph[k].label}
            /\ (/\ q.terms > 0 /\ (q.index.bm25 \/ q.index.vector) /\ IndexIsCurrent(graph, q) /\ q.limit <= most
                /\ Len(q.lexical) < MAX_FETCH_LIMIT /\ Len(q.semantic) < MAX_FETCH_LIMIT
                /\ Len(found.rows) < q.limit)
               => Servable(q) \subseteq keys
=============================================================================
