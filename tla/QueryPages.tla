----------------------------- MODULE QueryPages -----------------------------
(***************************************************************************)
(* query_graph: the lexical gate, the injected LIMIT, and the pages a      *)
(* client reads by following next_offset (query_handlers, read_only_gate,  *)
(* response_budget).                                                       *)
(*                                                                         *)
(* The text of a query is a sequence of tokens: words in lower case, gaps  *)
(* (white space or a comment, which the mask blanks), literals (strings    *)
(* and backticked names, masked as one token), the sigils . and :, a       *)
(* semicolon, other punctuation, and an open literal or comment.           *)
(***************************************************************************)
EXTENDS Naturals, Sequences, FiniteSets, SequencesExt, FiniteSetsExt

CONSTANTS QUERY_GRAPH_ROW_LIMIT,  \* 500
          MAX_RESPONSE_CHARS,     \* 100 000
          U64_MAX                 \* where saturating_add stops

Word(w) == [t |-> "word", w |-> w]
Of(t) == [t |-> t, w |-> t]
Gap == Of("gap")

(***************************************************************************)
(* The lexical gate.                                                       *)
(***************************************************************************)
FORBIDDEN_CYPHER_KEYWORDS ==
    {"create", "delete", "merge", "set", "remove", "drop", "alter", "load", "copy", "export",
     "import", "attach", "detach", "use"}
READ_ONLY_PROCEDURES == {"table_info", "show_tables"}

mask_non_executable(text) == \A i \in DOMAIN text : text[i].t # "open"

\* The token before position i, gaps skipped; literals are not.
Before(text, i) ==
    LET js == {j \in 1 .. i - 1 : text[j].t # "gap"} IN IF js = {} THEN Gap ELSE text[Max(js)]

\* After a sigil a word names something; after AS too, for the clause detectors.
in_identifier_position(text, i, exemption) ==
    \/ Before(text, i).t = "sigil"
    \/ exemption = "SigilOrAlias" /\ Before(text, i) = Word("as")

keyword_token_positions(text, needle, exemption) ==
    {i \in DOMAIN text : text[i] = Word(needle) /\ ~in_identifier_position(text, i, exemption)}

procedure_name_at(text, i) ==
    LET js == {j \in i + 1 .. Len(text) : text[j].t # "gap"} IN IF js = {} THEN Gap ELSE text[Min(js)]

carries_unlisted_procedure(text) ==
    \E i \in keyword_token_positions(text, "call", "SigilOnly") :
        procedure_name_at(text, i) \notin {Word(p) : p \in READ_ONLY_PROCEDURES}

forbidden_cypher_keyword(text) ==
    \/ ~mask_non_executable(text)
    \/ \E w \in FORBIDDEN_CYPHER_KEYWORDS : keyword_token_positions(text, w, "SigilOnly") # {}
    \/ carries_unlisted_procedure(text)

\* Executable text after the first semicolon.
is_multi_statement(text) ==
    \/ ~mask_non_executable(text)
    \/ \E i \in DOMAIN text : text[i].t = "semi" /\ \E j \in i + 1 .. Len(text) : text[j].t # "gap"

has_limit_clause(text) == keyword_token_positions(text, "limit", "SigilOrAlias") # {}

has_order_by_clause(text) ==
    \E i \in keyword_token_positions(text, "order", "SigilOrAlias") :
        \E j \in i + 2 .. Len(text) : text[j] = Word("by") /\ \A k \in i + 1 .. j - 1 : text[k].t = "gap"

\* The text without trailing gaps and one trailing semicolon.
executable_prefix(text) ==
    LET solid == {j \in DOMAIN text : text[j].t # "gap"}
        end == IF solid = {} THEN 0 ELSE Max(solid)
    IN SubSeq(text, 1, IF end > 0 /\ text[end].t = "semi" THEN end - 1 ELSE end)

inject_limit_if_absent(text) ==
    IF has_limit_clause(text) THEN [text |-> text, injected |-> FALSE]
    ELSE [text |-> executable_prefix(text) \o <<Gap, Word("limit"), Gap, Of("number")>>, injected |-> TRUE]

(***************************************************************************)
(* Pages.  A row is [id, key, size]: what it is sorted by and its length.  *)
(***************************************************************************)
saturating_add(a, b) == Min({a + b, U64_MAX})
injected_fetch_limit(offset) == saturating_add(offset, QUERY_GRAPH_ROW_LIMIT + 1)

Size(rows, from, to) == FoldLeft(LAMBDA acc, r : acc + r.size, 0, SubSeq(rows, from, to))

\* As many rows as fit the budget, and always one.
Consumed(rows, start, budget) ==
    Max({0} \cup {n \in 1 .. Len(rows) - start : n = 1 \/ Size(rows, start + 1, start + n) <= budget})

bound_values_paged(rows, offset, budget) ==
    LET start == Min({offset, Len(rows)})
        next == start + Consumed(rows, start, budget)
    IN [items |-> SubSeq(rows, start + 1, next), total_count |-> Len(rows),
        next_offset |-> IF next < Len(rows) THEN {next} ELSE {}]

clip_probe_row_early(rows, offset) ==
    LET window_end == saturating_add(offset, QUERY_GRAPH_ROW_LIMIT)
    IN [rows |-> SubSeq(rows, 1, Min({window_end, Len(rows)})), reached |-> Len(rows) > window_end + 1]

\* The row after the window only tells that there are more.
clip_probe_row(rows, offset) ==
    LET window_end == saturating_add(offset, QUERY_GRAPH_ROW_LIMIT)
    IN [rows |-> SubSeq(rows, 1, Min({window_end, Len(rows)})), reached |-> Len(rows) > window_end]

paged_query_response(rows, offset, order_stable, injected, reached) ==
    LET page == bound_values_paged(rows, offset, MAX_RESPONSE_CHARS)
        next == IF page.next_offset # {} THEN page.next_offset ELSE IF reached THEN {Len(rows)} ELSE {}
    IN [ok |-> TRUE, rows |-> page.items, total_count |-> page.total_count, offset |-> offset,
        truncated |-> page.next_offset # {} \/ reached, order_stable |-> order_stable,
        limit_injected |-> injected, next_offset |-> next]

\* The engine: it refuses a statement with two LIMITs at its end, and answers
\* with the rows of the statement up to its own or the injected limit, in the
\* order in which it comes upon them in this call.  The statement is
\* [text, own, orders, sorts]: own is empty or the limit the author wrote,
\* orders are arrangements of its rows, sorts tells that it orders them.
execute_read_only_query(q, order, injected, limit) ==
    IF injected THEN [ok |-> q.own = {}, rows |-> SubSeq(order, 1, Min({limit, Len(order)}))]
    ELSE [ok |-> TRUE, rows |-> SubSeq(order, 1, Min(q.own \cup {Len(order)}))]

run_gated_cypher(q, order, offset) ==
    LET effective == inject_limit_if_absent(q.text)
        answer == execute_read_only_query(q, order, effective.injected, injected_fetch_limit(offset))
        clipped == IF effective.injected THEN clip_probe_row(answer.rows, offset)
                   ELSE [rows |-> answer.rows, reached |-> FALSE]
    IN IF ~answer.ok THEN [ok |-> FALSE, reason |-> "query_failed"]
       ELSE paged_query_response(clipped.rows, offset, has_order_by_clause(q.text),
                                 effective.injected, clipped.reached)

do_query_graph(q, order, offset) ==
    CASE forbidden_cypher_keyword(q.text) -> [ok |-> FALSE, reason |-> "read_only_query_required"]
      [] ~forbidden_cypher_keyword(q.text) /\ is_multi_statement(q.text) ->
            [ok |-> FALSE, reason |-> "multi_statement_not_supported"]
      [] OTHER -> run_gated_cypher(q, order, offset)

(***************************************************************************)
(* A client that follows next_offset, for at most `left` pages.  Each call *)
(* asks the engine again, and only a sort binds the order it answers in.   *)
(***************************************************************************)
InKeyOrder(order) == \A i, j \in DOMAIN order : i < j => order[i].key <= order[j].key
OrdersOf(q) == {o \in q.orders : q.sorts => InKeyOrder(o)}

\* Every way the pages can come out: the rows read, and whether each page said
\* that its order is stable.
RECURSIVE Follow(_, _, _)
Follow(q, offset, left) ==
    LET failed == [ok |-> FALSE, rows |-> <<>>, stable |-> FALSE]
        then(page) ==
            IF ~page.ok \/ left = 0 \/ page.truncated # (page.next_offset # {}) THEN {failed}
            ELSE IF page.next_offset = {} THEN {[ok |-> TRUE, rows |-> page.rows, stable |-> page.order_stable]}
            ELSE {[ok |-> rest.ok, rows |-> page.rows \o rest.rows, stable |-> page.order_stable /\ rest.stable]
                    : rest \in Follow(q, CHOOSE n \in page.next_offset : TRUE, left - 1)}
    IN UNION {then(do_query_graph(q, o, offset)) : o \in OrdersOf(q)}

Answer(q, order) == SubSeq(order, 1, Min(q.own \cup {Len(order)}))

\* No two rows sort alike, so that a sort leaves one order.
NoTies(q) == \A o \in q.orders : \A i, j \in DOMAIN o : i # j => o[i].key # o[j].key

\* However the engine orders the rows of each call: the pages come to an end
\* with as many rows as the answer has; they are the answer, every row once and
\* in order, when they say that their order is stable and no two rows sort
\* alike, and they say so if the statement sorts; without a limit of the
\* author's, no page fetches more than its window.
PagesAreTheAnswerOf(q) ==
    \A o \in OrdersOf(q) :
        /\ \A got \in Follow(q, 0, Len(Answer(q, o)) + 1) :
            /\ got.ok
            /\ Len(got.rows) = Len(Answer(q, o))
            /\ q.sorts => got.stable
            /\ got.stable /\ NoTies(q) => got.rows = Answer(q, o)
        /\ q.own = {} => do_query_graph(q, o, 0).total_count <= QUERY_GRAPH_ROW_LIMIT
=============================================================================
