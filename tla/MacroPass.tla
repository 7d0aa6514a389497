------------------------------ MODULE MacroPass ------------------------------
(***************************************************************************)
(* The macro layer of the resolver: which library function a Rust macro    *)
(* site calls, the rows and flags the pass writes, and the reset that lets *)
(* a later run decide every site again (resolver_layers,                   *)
(* macro_expansion/dispatch and scope, graph_store/macro_reset).           *)
(*                                                                         *)
(* A site is [id, name, hint, shape, label]: the macro, the declared type  *)
(* of a `write!` destination as a path (empty: not recorded), the shape of *)
(* the arguments of `vec!`, and the label of the caller.  A file is        *)
(* [imports, defined, outside]: its `use` items, the types it defines, and *)
(* whether no Cargo target compiles it.  A graph is [rows, resolved,       *)
(* reasons, symbols]; a row is [from, to, method].                         *)
(***************************************************************************)
EXTENDS Naturals, Sequences, FiniteSets, SequencesExt

(***************************************************************************)
(* Where a type name comes from, in one file (macro_expansion/scope).      *)
(***************************************************************************)
STD_ROOTS == {"std", "core", "alloc"}
PRELUDE_TYPES == {"String", "Vec"}
is_std_path(path) == Head(path) \in STD_ROOTS

\* A `use` item binds a name to a path; a glob binds none.
Import(path, alias, is_glob) ==
    [name |-> IF is_glob THEN "" ELSE IF alias = "" THEN Last(path) ELSE alias, path |-> path]

\* The bindings of a name: all std, none, or the site's own is not known.
bound_origin_first(name, imports) ==
    LET bound == SelectSeq(imports, LAMBDA i : i.name = name)
    IN IF bound = <<>> THEN "none" ELSE IF is_std_path(bound[1].path) THEN "Std" ELSE "Other"
bound_origin(name, imports) ==
    LET origins == {is_std_path(imports[i].path) : i \in {j \in DOMAIN imports : imports[j].name = name}}
    IN CASE origins = {} -> "none"
         [] origins = {TRUE} -> "Std"
         [] origins = {FALSE} -> "Other"
         [] OTHER -> "Ambiguous"

type_origin(declared, imports, defined_in_file) ==
    LET bound == bound_origin(Head(declared), imports)
    IN CASE declared = <<>> -> "Unknown"
         [] Len(declared) > 1 -> IF Head(declared) \in STD_ROOTS THEN "Std" ELSE IF bound = "none" THEN "Other" ELSE bound
         [] Len(declared) = 1 /\ defined_in_file -> "Other"
         [] OTHER -> IF bound # "none" THEN bound ELSE IF declared[1] \in PRELUDE_TYPES THEN "Std" ELSE "Unknown"

\* The type's own name: an alias is undone.
original_name(declared, imports) ==
    LET bound == SelectSeq(imports, LAMBDA i : Len(declared) = 1 /\ i.name = declared[1])
    IN IF bound # <<>> THEN Last(bound[1].path) ELSE Last(declared)

(***************************************************************************)
(* The rule of each macro (macro_expansion/dispatch and rust).             *)
(***************************************************************************)
DEST_MACROS == {"write", "writeln"}
VEC_MACROS == {"vec"}
FORM_DEPENDENT_MACROS == {"panic", "assert", "debug_assert", "todo", "unimplemented", "unreachable"}
NO_CALL_MACROS == {"matches", "include_str", "include_bytes", "concat", "stringify", "env", "option_env",
                   "cfg", "line", "file", "column", "module_path"}
\* The fixed expansions; a derive marker calls nothing.
lookup(name) ==
    CASE name \in {"print", "println"} -> {{"std::io::_print"}}
      [] name \in {"eprint", "eprintln", "dbg"} -> {{"std::io::_eprint"}}
      [] name = "format" -> {{"std::fmt::format"}}
      [] name \in {"assert_eq", "assert_ne", "debug_assert_eq", "debug_assert_ne"} -> {{"core::panicking::assert_failed"}}
      [] name \in {"derive_Debug", "derive_Clone", "derive_Copy", "derive_PartialEq", "derive_Eq", "derive_Hash",
                   "derive_Default", "derive_PartialOrd", "derive_Ord"} -> {{}}
      [] OTHER -> {}

WRITE_FMT_ALTERNATIVES ==
    {[canonical |-> "core::fmt::Formatter::write_fmt", types |-> {"Formatter"}],
     [canonical |-> "std::fmt::Write::write_fmt", types |-> {"String"}],
     [canonical |-> "std::io::Write::write_fmt",
      types |-> {"File", "BufWriter", "LineWriter", "Stdout", "StdoutLock", "Stderr", "StderrLock", "Vec", "Cursor",
                 "TcpStream", "ChildStdin", "Sink"}]}
VEC_BY_SHAPE == {<<"empty", "std::vec::Vec::new">>, <<"repeat", "std::vec::from_elem">>}

Target(canonical, method) == [target |-> {canonical}, method |-> method, reason |-> ""]
Open(reason) == [target |-> {}, method |-> "", reason |-> reason]

decide_by_receiver(declared, imports, defined_in_file) ==
    LET std == type_origin(declared, imports, defined_in_file) = "Std"
        by_type == {a \in WRITE_FMT_ALTERNATIVES : std /\ original_name(declared, imports) \in a.types}
    IN IF Cardinality(by_type) = 1
       THEN Target((CHOOSE a \in by_type : TRUE).canonical, "macro-expansion-receiver-type")
       ELSE Open("type_not_determined")

decide_by_shape(shape) ==
    LET rules == {r \in VEC_BY_SHAPE : r[1] = shape}
    IN IF rules = {} THEN Open("internal_callees") ELSE Target((CHOOSE r \in rules : TRUE)[2], "macro-expansion")

(***************************************************************************)
(* The pass (resolver_layers).                                             *)
(***************************************************************************)
\* What one site gives: the targets it calls, the units it counts for, and
\* why it stays open.
Outcome(targets, method, total, reason) == [targets |-> targets, method |-> method, total |-> total, reason |-> reason]
resolve_decided(file, site) ==
    LET defined_in_file == site.hint # <<>> /\ Last(site.hint) \in file.defined
        decision == CASE site.name \in DEST_MACROS -> decide_by_receiver(site.hint, file.imports, defined_in_file)
                      [] site.name \in VEC_MACROS -> decide_by_shape(site.shape)
                      [] OTHER -> Open("callee_by_arguments")
    IN Outcome(decision.target, decision.method, 1, decision.reason)

resolve_one(file, site) ==
    LET expansion == lookup(site.name)
        calls == UNION expansion
    IN CASE site.name \in NO_CALL_MACROS -> Outcome({}, "", 0, "")
         [] site.name \notin NO_CALL_MACROS /\ site.label \notin {"Function", "Method"} -> Outcome({}, "", 1, "not_callable")
         [] OTHER ->
              IF site.name \in DEST_MACROS \cup VEC_MACROS \cup FORM_DEPENDENT_MACROS THEN resolve_decided(file, site)
              ELSE IF expansion = {} THEN Outcome({}, "", 1, "no_table_entry")
              ELSE IF calls = {} THEN Outcome({}, "", 1, "no_emit_calls")
              ELSE Outcome(calls, "macro-expansion", Cardinality(calls), "")

\* The file outside every target comes first, then a macro that calls nothing.
macro_reason(file, outcome) ==
    IF file.outside THEN "outside_targets" ELSE IF outcome.reason = "" THEN "not_a_call" ELSE outcome.reason

\* Each target gets a row of the caller and one of the site.
stage_macro_emission(site, outcome) ==
    {[from |-> f, to |-> t, method |-> outcome.method] : f \in {<<site.id, "site">>, <<site.id, "caller">>}, t \in outcome.targets}

\* Sites are marked and explained before the rows are flushed; the symbols of
\* the targets are created on the way.
run(file, sites, graph) ==
    LET of(s) == resolve_one(file, s)
        found == {s \in sites : of(s).targets # {}}
        open == {s \in sites \ found : s.id \notin graph.resolved}
        ids(ss) == {s.id : s \in ss}
        kept == {r \in graph.reasons : r[1] \notin ids(found) \cup ids(open)}
        count(f(_)) == FoldSet(LAMBDA s, n : n + f(s), 0, sites)
    IN [graph |-> [rows |-> graph.rows \cup UNION {stage_macro_emission(s, of(s)) : s \in found},
                   resolved |-> graph.resolved \cup ids(found),
                   reasons |-> kept \cup {<<s.id, macro_reason(file, of(s))>> : s \in open},
                   symbols |-> graph.symbols \cup UNION {of(s).targets : s \in found}],
        resolved |-> count(LAMBDA s : Cardinality(of(s).targets)),
        total |-> count(LAMBDA s : of(s).total),
        unresolved |-> Cardinality({s \in sites : of(s).reason # ""}),
        no_call |-> Cardinality({s \in sites : s.name \in NO_CALL_MACROS})]

delete_orphan_stdlib_symbols(graph) ==
    [graph EXCEPT !.symbols = @ \cap {r.to : r \in graph.rows}]

\* The rows of every macro method go, and every macro site is open again.
reset_macro_expansion(graph, sites) ==
    delete_orphan_stdlib_symbols(
        [graph EXCEPT !.rows = {r \in @ : r.method \notin {"macro-expansion", "macro-expansion-receiver-type"}},
                      !.resolved = @ \ {s.id : s \in sites}])

resolve_graph_macros(file, sites, graph) == run(file, sites, reset_macro_expansion(graph, sites))

(***************************************************************************)
(* What the pass should give.                                              *)
(***************************************************************************)
\* The type a name means where the site stands: its scope binds a name once
\* and sees no other scope of the file but through the bindings themselves.
TypeMeant(file, site, own) ==
    LET bound == SelectSeq(own, LAMBDA i : i.name = Head(site.hint))
        path == IF bound = <<>> THEN site.hint ELSE bound[1].path \o Tail(site.hint)
    IN CASE Len(site.hint) = 1 /\ site.hint[1] \in file.defined -> <<"crate", site.hint[1]>>
         [] bound = <<>> /\ Len(site.hint) = 1 -> IF path[1] \in PRELUDE_TYPES THEN <<"std", path[1]>> ELSE <<"glob", path[1]>>
         [] OTHER -> path

\* Two scopes of a file may bind one name, but not to two types of std.
ScopesAgree(file) ==
    \A i, j \in DOMAIN file.imports :
        LET a == file.imports[i] b == file.imports[j]
        IN a.name = b.name /\ a.name # "" /\ is_std_path(a.path) /\ is_std_path(b.path) => Last(a.path) = Last(b.path)

\* `own`: the imports of the scope of the `write!` sites.  A target is the one
\* the type that is meant calls; every reference is counted once, resolved or
\* not; a site is resolved or says why not; and a run after other runs, of an
\* older source too, leaves what a first run would, and the rows of others.
TargetsAreCalledIn(file, older, sites, own, others) ==
    LET first == resolve_graph_macros(file, sites, others)
        before == resolve_graph_macros(older, sites, others)
        again == resolve_graph_macros(file, sites, before.graph)
    IN /\ \A s \in sites : \A r \in first.graph.rows :
            r.from = <<s.id, "site">> /\ s.name \in DEST_MACROS /\ r \notin others.rows =>
                LET meant == TypeMeant(file, s, own)
                IN is_std_path(meant) /\ \E a \in WRITE_FMT_ALTERNATIVES : a.canonical = r.to /\ Last(meant) \in a.types
       /\ first.resolved + first.unresolved = first.total
       /\ \A s \in sites :
            /\ (s.id \in first.graph.resolved) # (\E r \in first.graph.reasons : r[1] = s.id)
            /\ s.id \in first.graph.resolved <=> \E r \in first.graph.rows : r.from = <<s.id, "site">> /\ r.to \in first.graph.symbols
       /\ again = first
=============================================================================
