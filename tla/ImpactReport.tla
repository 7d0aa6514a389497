---------------------------- MODULE ImpactReport ----------------------------
(***************************************************************************)
(* get_impact: the dependents of a symbol, the open call sites that name   *)
(* it, and whether the answer is exact or a lower bound (clustering/impact *)
(* and the handler).                                                       *)
(*                                                                         *)
(* A graph is [target, edges, sites, columns, structs, aliases, derefs,    *)
(* docs, references, twins, contexts, coverage, foreign, fails]:           *)
(*   target   [label, language, gated, owner, concrete, trait]: owner is   *)
(*            the last segment of the receiver type, concrete whether it   *)
(*            is a struct or an enum of the graph;                         *)
(*   edges    [kind, from, label, conf] into the target, conf in percent   *)
(*            or NoConf;                                                   *)
(*   sites    [id, resolved, name, language, shape, type, reason]: the     *)
(*            callee as bare name, x.name with the type the receiver hint  *)
(*            names, or Q::name with the type Q;                           *)
(*   fails    the kinds of query the store does not answer.                *)
(***************************************************************************)
EXTENDS Naturals, Sequences, FiniteSets, FiniteSetsExt

NoConf == 1000
NoType == "no type"
Exact == "exact"
LowerBound == "lower-bound"

(***************************************************************************)
(* Dependents.                                                             *)
(***************************************************************************)
\* The confidence, in percent, of a relation whose row carries none.
relation_confidence_floor(kind) ==
    CASE kind \in {"Calls", "Imports"} -> 90
      [] kind \in {"Implements", "Extends"} -> 85
      [] kind = "Uses" -> 80
      [] OTHER -> 100

is_heuristic_edge(conf) == conf < 100

dependent_node(e) ==
    [from |-> e.from, label |-> e.label, kind |-> e.kind,
     confidence |-> IF e.conf = NoConf THEN relation_confidence_floor(e.kind) ELSE e.conf]

\* Rows from a call site are its own bookkeeping, not a dependent.
reverse_dependents(g, kind) ==
    {dependent_node(e) : e \in {f \in g.edges : f.kind = kind /\ f.label # "CallSite" /\ f.kind \notin g.fails}}

collect_dependents(g) ==
    UNION {reverse_dependents(g, k) : k \in {"Calls", "Imports", "Uses", "Implements", "References"}}

(***************************************************************************)
(* The contexts of the callers.                                            *)
(***************************************************************************)
\* The marker of the function wins over the target its file belongs to.
combine(own, file) == CASE own # "" -> own [] own = "" /\ file # "" -> file [] OTHER -> "unknown"

caller_context(g, from) ==
    IF ~g.columns.context \/ from \notin DOMAIN g.contexts THEN "unknown"
    ELSE combine(g.contexts[from].own, g.contexts[from].file)

\* What is not proved to be outside production counts as production.
production_total(g, callers) ==
    Cardinality({c \in callers : caller_context(g, c.from) \in {"production", "unknown"}})

(***************************************************************************)
(* Open call sites, without those of another owner.                        *)
(***************************************************************************)
CLOSED_STD_TYPES ==
    {"bool", "char", "str", "u8", "u16", "u32", "u64", "u128", "usize", "i8", "i16", "i32", "i64", "i128",
     "isize", "f32", "f64", "String", "Vec", "VecDeque", "HashMap", "HashSet", "BTreeMap", "BTreeSet",
     "BinaryHeap", "Option", "Result"}

\* The filter exists for a Rust method of a struct or an enum of the graph.
for_target(g) ==
    g.target.label = "Method" /\ g.target.language = "rust" /\ g.target.concrete /\ "target" \notin g.fails

is_self_or_owner(g, name) == name \in {"Self", "self", g.target.owner}
is_repo_type(g, name) == name \in g.structs /\ "types" \notin g.fails
\* A query that is not answered keeps the site.
is_aliased(g, name) == name \in g.aliases \/ "aliases" \in g.fails
type_derefs(g, name) == name \in g.derefs \/ "derefs" \in g.fails

path_is_another_owner(g, name, reason) ==
    /\ ~is_self_or_owner(g, name) /\ ~is_aliased(g, name)
    /\ \/ is_repo_type(g, name)
       \/ reason = "external_callee" /\ (g.target.trait => name \in CLOSED_STD_TYPES)

receiver_is_another_type_underefd(g, name) ==
    /\ name # NoType /\ ~is_self_or_owner(g, name) /\ ~is_aliased(g, name)
    /\ is_repo_type(g, name) \/ name \in CLOSED_STD_TYPES

receiver_is_another_type(g, name) ==
    /\ name # NoType /\ ~is_self_or_owner(g, name) /\ ~is_aliased(g, name)
    /\ IF is_repo_type(g, name) THEN ~type_derefs(g, name) ELSE name \in CLOSED_STD_TYPES

\* The name of a hint: references, mut and generics dropped, the last segment
\* of a plain path, nothing for any other type.  h is [plain, path].
hint_type_name(h) == IF h.plain /\ h.path # <<>> THEN h.path[Len(h.path)] ELSE NoType

excludes(g, s) ==
    /\ s.language = "rust"
    /\ \/ s.shape = "member" /\ g.columns.hint /\ receiver_is_another_type(g, hint_type_name(s.type))
       \/ s.shape = "path" /\ path_is_another_owner(g, hint_type_name(s.type), s.reason)

drop_other_owner_sites(g, rows) ==
    LET kept == IF for_target(g) THEN {s \in rows : ~excludes(g, s)} ELSE rows
    IN [kept |-> kept, excluded |-> Cardinality(rows \ kept)]

\* Unresolved sites that spell the bare name of the target.
unresolved_name_filter(g) == {s \in g.sites : ~s.resolved /\ s.name = g.target.name}

\* A query that is not answered counts as no row.
unresolved_callsite_attribution(g) ==
    LET all == IF "sites" \in g.fails THEN {} ELSE unresolved_name_filter(g)
        rows == IF g.columns.reason THEN drop_other_owner_sites(g, all) ELSE [kept |-> all, excluded |-> 0]
        of(r) == Cardinality({s \in rows.kept : s.reason = r})
    IN [total |-> Cardinality(rows.kept), excluded_other_owner |-> rows.excluded,
        outside_targets |-> IF g.columns.reason THEN of("outside_targets") ELSE 0,
        cfg_twins |-> IF g.columns.reason THEN of("cfg_twins") ELSE 0,
        by_reason |-> IF g.columns.reason THEN [r \in {s.reason : s \in rows.kept} |-> of(r)]
                      ELSE [r \in {x \in {"not_recorded"} : rows.kept # {}} |-> Cardinality(rows.kept)]]

(***************************************************************************)
(* Exact or lower bound.                                                   *)
(***************************************************************************)
is_dynamic_dispatch_surface(label) == label = "Trait"

missing_reference_indexing(g) == g.docs > 0 /\ ~g.references

build_epistemic_reasons(g, attribution, deps) ==
    {r \in {"dispatch", "heuristic", "unresolved", "references"} :
        CASE r = "dispatch" -> is_dynamic_dispatch_surface(g.target.label)
          [] r = "heuristic" -> \E d \in deps : is_heuristic_edge(d.confidence)
          [] r = "unresolved" -> attribution.total > 0
          [] OTHER -> /\ \A d \in deps : d.kind # "References"
                      /\ g.target.label = "File" /\ missing_reference_indexing(g)}

\* A target under a gate that is one of several twins.
cfg_twin_reason(g) == IF g.target.gated /\ g.twins >= 2 THEN {"twins"} ELSE {}

\* get_impact, resolve_epistemic and resolve_epistemics.
get_impact(g) ==
    LET deps == collect_dependents(g)
        callers == {d \in deps : d.kind = "Calls"}
        attribution == unresolved_callsite_attribution(g)
        reasons == build_epistemic_reasons(g, attribution, deps) \cup cfg_twin_reason(g)
    IN [dependents |-> deps, attribution |-> attribution, reasons |-> reasons,
        production |-> production_total(g, callers),
        epistemic |-> IF reasons = {} THEN Exact ELSE LowerBound]

\* Callers found by name in sibling graphs are no evidence of completeness.
attach_foreign_callers(out, g) ==
    IF g.foreign = 0 THEN out
    ELSE [out EXCEPT !.epistemic = LowerBound, !.reasons = @ \cup {"foreign"}]

GAP_BUCKETS ==
    {"parse_incomplete", "skipped", "quarantined", "outside_build_targets", "unlinked_file", "feature_gated"}

\* The coverage record: none, or the buckets that are not empty and whether
\* cargo told which files are compiled.
missing_evidence_reason(coverage) ==
    \/ ~coverage.recorded
    \/ coverage.buckets \cap GAP_BUCKETS # {}
    \/ ~coverage.cargo

require_coverage_evidence(out, coverage) ==
    IF out.epistemic = Exact /\ missing_evidence_reason(coverage)
    THEN [out EXCEPT !.epistemic = LowerBound, !.reasons = @ \cup {"coverage"}]
    ELSE out

impact_response(g) == require_coverage_evidence(attach_foreign_callers(get_impact(g), g), g.coverage)

(***************************************************************************)
(* The program behind a graph.  w is [names, derefs, calls]: the type a    *)
(* written name means (a name without one may mean any type), the types    *)
(* that dereference to another, and what calls the target: an edge, an     *)
(* open site, or a file the index does not cover.                          *)
(***************************************************************************)
RECURSIVE DerefClosure(_, _)
DerefClosure(derefs, types) ==
    LET more == types \cup {p[2] : p \in {q \in derefs : q[1] \in types}}
    IN IF more = types THEN types ELSE DerefClosure(derefs, more)

\* The types whose method a site may call, by the rules of Rust: a path names
\* one type, a receiver is dereferenced until a type has the method.
MayCall(w, s) ==
    LET name == hint_type_name(s.type)
        meant == IF name \in {"Self", "self"} THEN w.impls
                 ELSE IF name \in DOMAIN w.names THEN w.names[name] ELSE w.types
    IN CASE s.shape = "bare" \/ name = NoType -> w.types
         [] s.shape = "path" /\ name # NoType -> meant
         [] OTHER -> DerefClosure(w.derefs, meant)

\* An answer called exact leaves out no call of the target.
ExactIsCompleteIn(g, w) ==
    (impact_response(g).epistemic = Exact /\ "sites" \notin g.fails /\ "Calls" \notin g.fails)
        => /\ \A s \in unresolved_name_filter(g) : w.target \notin MayCall(w, s)
           /\ w.elsewhere = {}
           /\ \A c \in w.calls : c \in {d.from : d \in impact_response(g).dependents}
=============================================================================
