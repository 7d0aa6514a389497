------------------------------ MODULE CfgScope ------------------------------
(***************************************************************************)
(* What the indexer reads off a Cargo workspace about the files it indexes *)
(* (parser/cfg_expr, indexer/cargo_targets, feature_gated, file_scope,     *)
(* target_context, cfg_active), and how the resolver uses it to choose one *)
(* of the #[cfg] twins of an item (resolver/cfg_verdict, cfg_select).      *)
(* A path is a sequence of components without extension; the text of a     *)
(* gate is a sequence of tokens. A workspace is a record                   *)
(*   packages : set of [features, targets]                                 *)
(*   decls    : its files, each with the sequence of its `mod` items.      *)
(* All operators are functions of the workspace; CfgScope has no state.    *)
(***************************************************************************)
EXTENDS Naturals, FiniteSets, Sequences, SequencesExt

-----------------------------------------------------------------------------
\* CfgPredicate. The items of all and any are a set: nothing depends on their order.
Feature(f) == [op |-> "feature", name |-> f, items |-> {}]
Option(o) == [op |-> "option", name |-> o, items |-> {}]
AllOf(ps) == [op |-> "all", name |-> "", items |-> ps]
AnyOf(ps) == [op |-> "any", name |-> "", items |-> ps]
Not(p) == [op |-> "not", name |-> "", items |-> {p}]
Only(s) == CHOOSE e \in s : TRUE

Unparsed == [op |-> "unparsed", name |-> "", items |-> {}]

NEVER_SET_BY_A_PLAIN_BUILD == {"kani", "miri", "doc", "doctest"}
with_features(fs) ==
    [features |-> fs, options |-> [o \in NEVER_SET_BY_A_PLAIN_BUILD |-> FALSE]]

\* Mutant: two-valued folding, an unknown member is ignored.
fold_two_valued(results, absorbing, empty) ==
    IF absorbing \in results THEN absorbing ELSE empty

fold(results, absorbing, empty) ==
    IF absorbing \in results THEN absorbing
    ELSE IF "Unknown" \in results THEN "Unknown" ELSE empty
TruthOf(b) == IF b THEN "True" ELSE "False"

RECURSIVE eval_in(_, _)
eval_in(p, profile) ==
    LET below == {eval_in(q, profile) : q \in p.items} IN
    CASE p.op = "feature" -> TruthOf(p.name \in profile.features)
      [] p.op = "option" -> IF p.name \in DOMAIN profile.options
                            THEN TruthOf(profile.options[p.name]) ELSE "Unknown"
      [] p.op = "all" -> fold(below, "False", "True")
      [] p.op = "any" -> fold(below, "True", "False")
      [] p.op = "not" -> CASE Only(below) = "True" -> "False"
                           [] Only(below) = "False" -> "True"
                           [] OTHER -> "Unknown"
\* Under the features alone every option is unknown.
eval(p, enabled) == eval_in(p, [features |-> enabled, options |-> [o \in {} |-> FALSE]])

\* Only a conjunct is required; any(test, x) and not(..) require nothing.
RECURSIVE requires_option(_, _)
requires_option(p, key) ==
    \/ p = Option(key)
    \/ p.op = "all" /\ \E q \in p.items : requires_option(q, key)

RECURSIVE canonical(_)
join(ps, op) ==
    LET own == {canonical(p) : p \in ps}
        flat == UNION {IF c.op = op THEN c.items ELSE {c} : c \in own}
    IN  IF Cardinality(flat) = 1 THEN Only(flat)
        ELSE [op |-> op, name |-> "", items |-> flat]
canonical(p) ==
    CASE p.op \in {"all", "any"} -> join(p.items, p.op)
      [] p.op = "not" -> LET inner == canonical(Only(p.items)) IN
                         IF inner.op = "not" THEN Only(inner.items) ELSE Not(inner)
      [] OTHER -> p

-----------------------------------------------------------------------------
\* The text of a gate, and back. A word is one token: encode escapes whatever
\* would be punctuation.
RECURSIVE compact(_)
compact_list(op, ps) ==
    LET parts == SetToSeq({compact(p) : p \in ps}) IN
    <<op, "(">> \o FlattenSeq([i \in 1 .. Len(parts) |->
        IF i < Len(parts) THEN Append(parts[i], ",") ELSE parts[i]]) \o <<")">>
compact(p) ==
    CASE p.op = "feature" -> <<"feature", "=", p.name>>
      [] p.op = "option" -> <<p.name>>
      [] OTHER -> compact_list(p.op, p.items)

Punctuation == {"(", ")", ",", "=", "::", "#cfg("}
Fail == [ok |-> FALSE, value |-> Unparsed, items |-> {}, rest |-> <<>>]
Read(p, rest) == [ok |-> TRUE, value |-> p, items |-> {}, rest |-> rest]
NextIs(t, token) == t # <<>> /\ Head(t) = token

\* The two readers of a predicate: that of gate texts (Reader) and that of source attributes
\* (Parser), which also takes a comma after the last item.
RECURSIVE read_predicate(_, _), read_list(_, _, _)
read_predicate(t, source) ==
    IF t = <<>> \/ (t # <<>> /\ Head(t) \in Punctuation) THEN Fail
    ELSE LET name == Head(t)
             after == Tail(t)
             l == read_list(Tail(after), {}, source)
         IN  CASE NextIs(after, "(") /\ l.ok /\ name \in {"all", "any"} ->
                    Read([op |-> name, name |-> "", items |-> l.items], l.rest)
               [] NextIs(after, "(") /\ l.ok /\ name = "not" /\ Cardinality(l.items) = 1 ->
                    Read(Not(Only(l.items)), l.rest)
               [] NextIs(after, "=") /\ Len(after) > 1 /\ name = "feature" ->
                    Read(Feature(after[2]), Tail(Tail(after)))
               [] ~NextIs(after, "(") /\ ~NextIs(after, "=") -> Read(Option(name), after)
               [] OTHER -> Fail
read_list(t, items, source) ==
    LET end(rest, found) == [Fail EXCEPT !.ok = TRUE, !.items = found, !.rest = rest]
        p == read_predicate(t, source)
        found == items \cup {p.value}
    IN  CASE NextIs(t, ")") /\ (items = {} \/ source) -> end(Tail(t), items)
          [] p.ok /\ NextIs(p.rest, ",") -> read_list(Tail(p.rest), found, source)
          [] p.ok /\ NextIs(p.rest, ")") -> end(Tail(p.rest), found)
          [] OTHER -> Fail
parse_compact(t) ==
    LET p == read_predicate(t, FALSE) IN IF p.ok /\ p.rest = <<>> THEN p.value ELSE Unparsed
parse_cfg_arguments(t) ==
    LET p == read_predicate(Tail(t), TRUE) IN
    IF NextIs(t, "(") /\ p.ok /\ p.rest \in {<<")">>, <<",", ")">>} THEN p.value ELSE Unparsed

\* The gates an id carries: `helper#cfg(all(unix,feature=f))::inner`.
effective_gate(ps) == IF ps = {} THEN <<>> ELSE compact(canonical(AllOf(ps)))
twin_suffix(gate) == <<"#cfg(">> \o gate \o <<")">>

RECURSIVE closing_paren_from(_, _, _)
closing_paren_from(t, i, depth) ==
    CASE i > Len(t) -> 0
      [] t[i] = ")" /\ depth = 1 -> i
      [] t[i] = ")" -> closing_paren_from(t, i + 1, depth - 1)
      [] t[i] = "(" -> closing_paren_from(t, i + 1, depth + 1)
      [] OTHER -> closing_paren_from(t, i + 1, depth)

closing_paren(t) == closing_paren_from(t, 1, 1)

MarkIn(id) == SelectInSeq(id, LAMBDA x : x = "#cfg(")
RECURSIVE cfg_gates_in(_), strip_cfg_gates(_)
cfg_gates_in(id) ==
    LET m == MarkIn(id)
        after == SubSeq(id, m + 1, Len(id))
        close == closing_paren(after)
    IN  IF m = 0 \/ close = 0 THEN <<>>
        ELSE <<SubSeq(after, 1, close - 1)>>
             \o cfg_gates_in(SubSeq(after, close + 1, Len(after)))
strip_cfg_gates(id) ==
    LET m == MarkIn(id)
        after == SubSeq(id, m + 1, Len(id))
        close == closing_paren(after)
    IN  IF m = 0 \/ close = 0 THEN id
        ELSE SubSeq(id, 1, m - 1) \o strip_cfg_gates(SubSeq(after, close + 1, Len(after)))
has_cfg_gate(id) == MarkIn(id) # 0

-----------------------------------------------------------------------------
\* Cargo: the features of a default build, and the target map.
\* An entry of a feature table is [kind, name]: `dep:x`, `x?/y` (weak), `x/y` or `x`.
enabled_feature(entry) ==
    IF entry.kind = "dep" \/ entry.kind = "weak" THEN {} ELSE {entry.name}

RECURSIVE closure_from(_, _, _)
closure_from(table, enabled, pending) ==
    IF pending = {} THEN enabled
    ELSE LET e == Only(pending)
             new == (enabled_feature(e) \cap DOMAIN table) \ enabled
         IN  closure_from(table, enabled \cup new,
                 (pending \ {e}) \cup UNION {table[f] : f \in new})
default_closure(table) ==
    IF "default" \in DOMAIN table THEN closure_from(table, {"default"}, table["default"])
    ELSE {}

from_cargo(kinds) ==
    CASE "test" \in kinds -> "test" [] "bench" \in kinds -> "bench"
      [] "example" \in kinds -> "example" [] OTHER -> "production"

ParentOf(path) == SubSeq(path, 1, Len(path) - 1)
StartsWith(path, dir) == Len(path) >= Len(dir) /\ SubSeq(path, 1, Len(dir)) = dir
IsModRs(path) == path[Len(path)] = "mod"

\* A target outside the analyzed root is not a crate root here.
crate_roots(ws) ==
    UNION {{[entry |-> t.src_path, kind |-> from_cargo(t.kinds),
             features |-> default_closure(p.features)] : t \in {u \in p.targets : u.inside}}
           : p \in ws.packages}
target_files(ws) == {c.entry : c \in crate_roots(ws)}
target_dirs(ws) == {ParentOf(e) : e \in target_files(ws)} \ {<<>>}

-----------------------------------------------------------------------------
\* The module tree. A mod item is [name, attributes], an attribute [kind, text, path, nested].
\* ModDecl reads it as [name, path, cfg, alts]: its #[path] or <<>>, the set of its cfg
\* predicates or {Unparsed}, and the [pred, path] of its cfg_attr.
NoPath == <<>>
IsKnown(cfg) == Unparsed \notin cfg

\* A cfg_attr within a cfg_attr applies under more than its own predicate.
cfg_attr_path(a) == [pred |-> IF a.nested THEN Unparsed ELSE parse_cfg_arguments(a.text),
                     path |-> a.path]
record_attribute(decl, a) ==
    LET parsed == parse_cfg_arguments(a.text) IN
    CASE a.kind = "cfg" -> [decl EXCEPT !.cfg = IF IsKnown(@) /\ parsed # Unparsed
                                                THEN @ \cup {parsed} ELSE {Unparsed}]
      [] a.kind = "path" -> [decl EXCEPT !.path = a.path]
      [] a.kind = "cfg_attr" -> [decl EXCEPT !.alts = Append(@, cfg_attr_path(a))]
      [] OTHER -> decl
mod_decl(item) ==
    FoldLeft(record_attribute, [name |-> item.name, path |-> NoPath, cfg |-> {}, alts |-> <<>>],
             item.attributes)

\* A component that leaves the root has no file.
lexical(path) ==
    FoldLeft(LAMBDA out, c : CASE out = <<"outside">> -> out
                               [] c = ".." /\ out = <<>> -> <<"outside">>
                               [] c = ".." -> ParentOf(out)
                               [] c = "." -> out
                               [] OTHER -> Append(out, c), <<>>, path)

module_file(ws, file, owns_directory, decl) ==
    LET parent == ParentOf(file)
        dir == IF owns_directory THEN parent ELSE file
        tried == IF decl.path # NoPath THEN <<lexical(parent \o decl.path)>>
                 ELSE <<Append(dir, decl.name), dir \o <<decl.name, "mod">>>>
        found == SelectSeq(tried, LAMBDA p : p \in DOMAIN ws.decls)
    IN  IF found = <<>> THEN {} ELSE {Head(found)}

\* One item per file the declaration can name: each cfg_attr path under its predicate,
\* and the file of the bare item when none of them holds.
alternatives(decl) ==
    LET parsed == IsKnown(decl.cfg) /\ \A a \in Range(decl.alts) : a.pred # Unparsed
        alt(a) == [name |-> decl.name, path |-> a.path, alts |-> <<>>,
                   cfg |-> IF IsKnown(decl.cfg) /\ a.pred # Unparsed
                           THEN decl.cfg \cup {a.pred} ELSE {Unparsed}]
    IN  [i \in 1 .. Len(decl.alts) |-> alt(decl.alts[i])] \o
        <<[decl EXCEPT !.alts = <<>>,
                       !.cfg = IF parsed THEN decl.cfg \cup {Not(a.pred) : a \in Range(decl.alts)}
                               ELSE {Unparsed}]>>

\* The (item, file) pairs a file declares, in the order of the source.
children(ws, file) ==
    LET owns == file \in target_files(ws) \/ IsModRs(file)
        items == FlattenSeq([i \in 1 .. Len(ws.decls[file]) |->
                                alternatives(mod_decl(ws.decls[file][i]))])
        pairs == [i \in 1 .. Len(items) |->
                    [decl |-> items[i], target |-> module_file(ws, file, owns, items[i])]]
        some == SelectSeq(pairs, LAMBDA c : c.target # {})
    IN  [i \in 1 .. Len(some) |-> [decl |-> some[i].decl, target |-> Only(some[i].target)]]
ChildFiles(ws, file) == {c.target : c \in Range(children(ws, file))}

RECURSIVE reach_files(_, _, _)
reach_files(ws, reached, pending) ==
    IF pending = {} THEN reached
    ELSE LET f == Only(pending) IN
         reach_files(ws, reached \cup {f}, (pending \cup ChildFiles(ws, f)) \ (reached \cup {f}))
reached_on_disk(ws) == reach_files(ws, {}, target_files(ws) \cap DOMAIN ws.decls)
module_files(ws) ==
    {f \in reached_on_disk(ws) : \A d \in target_dirs(ws) : ~StartsWith(f, d)}

is_outside_targets(ws, rel) ==
    rel \notin target_files(ws) \cup module_files(ws)
    /\ \A d \in target_dirs(ws) : ~StartsWith(rel, d)

-----------------------------------------------------------------------------
\* feature_gated: the files a default build cannot compile.
gate(decl, enabled) == IF IsKnown(decl.cfg) THEN eval(AllOf(decl.cfg), enabled) ELSE "Unknown"

\* live: the feature sets under which a file is reached; seeds: the files whose item is off.
RECURSIVE walk_live(_, _, _, _)
walk_live(ws, features, w, pending) ==
    IF pending = <<>> THEN w
    ELSE LET file == Head(pending)
             below == Range(children(ws, file))
             off == {c.target : c \in {d \in below : gate(d.decl, features) = "False"}}
             on == {c.target : c \in {d \in below : gate(d.decl, features) # "False"}}
             new == {f \in on : features \notin w.live[f]}
         IN  walk_live(ws, features,
                 [live |-> [f \in DOMAIN w.live |-> IF f \in new THEN w.live[f] \cup {features}
                                                    ELSE w.live[f]],
                  seeds |-> w.seeds \cup off],
                 Tail(pending) \o SetToSeq(new))
walk_root(ws, w, c) ==
    IF c.entry \notin DOMAIN ws.decls \/ c.features \in w.live[c.entry] THEN w
    ELSE walk_live(ws, c.features, [w EXCEPT !.live[c.entry] = @ \cup {c.features}], <<c.entry>>)

RECURSIVE propagate_gated(_, _, _, _)
propagate_gated(ws, live, gated, pending) ==
    LET next == {f \in pending : live[f] = {} /\ f \notin gated} IN
    IF next = {} THEN gated
    ELSE propagate_gated(ws, live, gated \cup next, UNION {ChildFiles(ws, f) : f \in next})

\* FeatureAnalysis: the gated files, and what is known of the features of every file.
feature_analysis(ws) ==
    LET w == FoldLeft(LAMBDA acc, c : walk_root(ws, acc, c),
                 [live |-> [f \in DOMAIN ws.decls |-> {}], seeds |-> {}],
                 SetToSeq(crate_roots(ws)))
        gated == propagate_gated(ws, w.live, {}, w.seeds)
    IN  [gated |-> gated,
         features |-> [f \in {g \in DOMAIN ws.decls : w.live[g] # {}} \cup gated |->
            CASE f \in gated -> [kind |-> "CompiledOut", enabled |-> {}]
              [] Cardinality(w.live[f]) = 1 -> [kind |-> "Enabled", enabled |-> Only(w.live[f])]
              [] OTHER -> [kind |-> "Disagree", enabled |-> {}]]]

-----------------------------------------------------------------------------
\* target_context: what kind of target a file belongs to.
class_below(decl, class) ==
    CASE IsKnown(decl.cfg) /\ requires_option(AllOf(decl.cfg), "test") -> "test"
      [] IsKnown(decl.cfg) /\ requires_option(AllOf(decl.cfg), "kani") -> "proof"
      [] OTHER -> class

RECURSIVE reach_classes(_, _, _)
reach_classes(ws, reached, pending) ==
    IF pending = {} THEN reached
    ELSE LET way == Only(pending)
             below == {<<c.target, class_below(c.decl, way[2])>> : c \in Range(children(ws, way[1]))}
         IN  reach_classes(ws, reached \cup {way}, (pending \cup below) \ (reached \cup {way}))

decide_class(classes) ==
    CASE "production" \in classes -> "production"
      [] Cardinality(classes) = 1 -> Only(classes)
      [] OTHER -> ""
target_contexts(ws) ==
    LET reached == UNION {reach_classes(ws, {}, {<<c.entry, c.kind>>})
                          : c \in {r \in crate_roots(ws) : r.entry \in DOMAIN ws.decls}}
    IN  [f \in DOMAIN ws.decls |-> decide_class({w[2] : w \in {r \in reached : r[1] = f}})]
\* The crate entries a file belongs to.
owners(ws) ==
    [f \in DOMAIN ws.decls |->
        {e \in target_files(ws) \cap DOMAIN ws.decls : f \in reach_files(ws, {}, {e})}]

-----------------------------------------------------------------------------
\* file_scope: gate, module path and verdict of a file, from the ways that lead to it.
CFG_ACTIVE == "active"
CFG_INACTIVE == "inactive"
CFG_UNKNOWN == "unknown"
UNPARSED_GATE == <<"?">>

child(way, c) ==
    [file |-> c.target, module_path |-> way.module_path \o <<"::", c.decl.name>>,
     gates |-> IF IsKnown(way.gates) /\ IsKnown(c.decl.cfg) THEN way.gates \cup c.decl.cfg
               ELSE {Unparsed},
     placed |-> way.placed \/ c.decl.path # NoPath \/ c.decl.alts # <<>>]

reach(way, enabled) ==
    LET all == AllOf(way.gates) IN
    [module_path |-> way.module_path, placed |-> way.placed,
     gate |-> CASE ~IsKnown(way.gates) -> UNPARSED_GATE
                [] way.gates = {} -> <<>>
                [] OTHER -> compact(canonical(all)),
     truth |-> IF IsKnown(way.gates) THEN eval_in(all, with_features(enabled)) ELSE "Unknown"]

\* The ways of one crate: the last one found is followed first, and a module that was
\* seen is not entered again.
RECURSIVE follow_ways(_, _, _, _)
follow_ways(ws, enabled, found, pending) ==
    IF pending = <<>> THEN found
    ELSE LET way == Last(pending)
             rest == Front(pending)
             below == children(ws, way.file)
         IN  IF \E k \in found : k.file = way.file /\ k.reach.module_path = way.module_path
             THEN follow_ways(ws, enabled, found, rest)
             ELSE follow_ways(ws, enabled,
                      found \cup {[file |-> way.file, reach |-> reach(way, enabled)]},
                      rest \o [i \in 1 .. Len(below) |-> child(way, below[i])])
ways_of(ws, c) ==
    IF c.entry \notin DOMAIN ws.decls THEN {}
    ELSE follow_ways(ws, c.features, {},
             <<[file |-> c.entry, module_path |-> c.entry, gates |-> {}, placed |-> FALSE]>>)

scope(reaches, compiled_out) ==
    LET truths == {r.truth : r \in reaches}
        alone == Cardinality(reaches) = 1
    IN  [module_path |-> IF alone THEN Only(reaches).module_path ELSE <<>>,
         gate |-> IF alone THEN Only(reaches).gate ELSE <<>>,
         active |-> CASE compiled_out \/ truths = {"False"} -> CFG_INACTIVE
                      [] "True" \in truths -> CFG_ACTIVE
                      [] OTHER -> CFG_UNKNOWN]

file_cfg(ws, features) ==
    LET found == UNION {ways_of(ws, c) : c \in crate_roots(ws)}
        reaches(f) == {k.reach : k \in {w \in found : w.file = f}}
        out(f) == f \in DOMAIN features /\ features[f].kind = "CompiledOut"
        facts == [f \in {k.file : k \in found} |-> scope(reaches(f), out(f))]
        kept == {f \in DOMAIN facts :
                    \/ Cardinality(reaches(f)) = 1 /\ Only(reaches(f)).placed
                    \/ facts[f].gate # <<>> \/ facts[f].active = CFG_INACTIVE}
    IN  [f \in kept |-> facts[f]]

\* cargo_attribution::attribute. Without a Cargo.toml, without Rust files or when cargo
\* fails nothing is known, and nothing is what the readers get.
NoFacts == [known |-> FALSE, outside |-> {}, gated |-> {}, features |-> [f \in {} |-> {}],
            contexts |-> [f \in {} |-> ""], owners |-> [f \in {} |-> {}],
            file_cfg |-> [f \in {} |-> {}]]
attribute(ws, metadata) ==
    IF metadata # "ok" \/ DOMAIN ws.decls = {} THEN NoFacts
    ELSE LET analysis == feature_analysis(ws) IN
         [known |-> TRUE, outside |-> {f \in DOMAIN ws.decls : is_outside_targets(ws, f)},
          gated |-> analysis.gated, features |-> analysis.features,
          contexts |-> target_contexts(ws), owners |-> owners(ws),
          file_cfg |-> file_cfg(ws, analysis.features)]

-----------------------------------------------------------------------------
\* Items: [file, gates, spelled]. A twin spells its gate in its id, any other gated item
\* keeps a plain id and has the gate as a column.
id_of(item) ==
    item.file \o <<"::", "helper">> \o
    (IF item.spelled THEN twin_suffix(effective_gate(item.gates)) ELSE <<>>)

\* indexer/cfg_active: the verdict of the default profile on a twin.
evaluate(id, profile) ==
    LET gates == {parse_compact(g) : g \in Range(cfg_gates_in(id))}
        truth == eval_in(AllOf(gates), profile)
    IN  CASE ~IsKnown(gates) -> CFG_UNKNOWN
          [] truth = "True" -> CFG_ACTIVE
          [] truth = "False" -> CFG_INACTIVE
          [] OTHER -> CFG_UNKNOWN
decide_active(facts, item) ==
    IF item.file \notin DOMAIN facts.features THEN CFG_UNKNOWN
    ELSE LET known == facts.features[item.file] IN
         CASE known.kind = "Disagree" -> CFG_UNKNOWN
           [] known.kind = "CompiledOut" -> CFG_INACTIVE
           [] OTHER -> evaluate(id_of(item), with_features(known.enabled))
write_cfg_active(facts, item) ==
    IF item.file \in DOMAIN facts.file_cfg /\ facts.file_cfg[item.file].active = CFG_INACTIVE
    THEN CFG_INACTIVE ELSE decide_active(facts, item)

\* resolver/cfg_verdict. The view keeps the files that are gated or compiled out.
file_cfg_by_id(facts) ==
    [f \in {g \in DOMAIN facts.file_cfg : \/ facts.file_cfg[g].gate # <<>>
                                         \/ facts.file_cfg[g].active = CFG_INACTIVE}
        |-> facts.file_cfg[f]]

Conjuncts(p) == IF p.op = "all" THEN p.items ELSE {p}
conjuncts(id) == UNION {Conjuncts(parse_compact(g)) : g \in Range(cfg_gates_in(id))}
negation(p) == IF p.op = "not" THEN Only(p.items) ELSE Not(p)
conjuncts_in_file(view, item) ==
    LET file_gate == IF item.file \in DOMAIN view THEN view[item.file].gate ELSE <<>> IN
    conjuncts(id_of(item)) \cup
    (IF file_gate = <<>> THEN {} ELSE Conjuncts(parse_compact(file_gate)))

\* Mutant: the caller's gates are taken as fully spelled.
caller_gates_spelled(view, caller) ==
    [held |-> {c \in conjuncts_in_file(view, caller) : c # Unparsed}, unspelled |-> FALSE]

caller_gates(view, caller) ==
    LET held == conjuncts_in_file(view, caller) IN
    [held |-> IF IsKnown(held) THEN held ELSE {},
     unspelled |-> caller.gates # {} /\ ~caller.spelled]

\* `active` is the cfg_active column; an item that is no twin has none.
verdict(facts, caller, item) ==
    LET view == file_cfg_by_id(facts)
        gates == conjuncts_in_file(view, item)
        file_active == IF item.file \in DOMAIN view THEN view[item.file].active ELSE ""
        active == IF item.spelled THEN write_cfg_active(facts, item) ELSE ""
    IN  CASE IsKnown(gates) /\ gates # {} /\ gates \subseteq caller.held -> "Compiled"
          [] IsKnown(gates) /\ \E g \in gates : negation(g) \in caller.held -> "NotCompiled"
          [] caller.unspelled -> "Undecided"
          [] file_active = CFG_INACTIVE -> "NotCompiled"
          [] active = CFG_ACTIVE -> "Compiled"
          [] active = CFG_INACTIVE -> "NotCompiled"
          [] file_active = CFG_ACTIVE /\ ~item.spelled -> "Compiled"
          [] OTHER -> "Undecided"

logical_id(view, item) ==
    IF item.file \in DOMAIN view /\ view[item.file].module_path # <<>>
    THEN view[item.file].module_path \o SubSeq(id_of(item), Len(item.file) + 1, Len(id_of(item)))
    ELSE id_of(item)
are_twins_of_one_item(facts, candidates) ==
    LET view == file_cfg_by_id(facts) IN
    /\ Cardinality(candidates) >= 2
    /\ \A c \in candidates : \/ has_cfg_gate(id_of(c))
                             \/ c.file \in DOMAIN view /\ view[c.file].gate # <<>>
    /\ \A c, d \in candidates :
          strip_cfg_gates(logical_id(view, c)) = strip_cfg_gates(logical_id(view, d))

\* The twin a call reaches: a single one is not ruled out, and it is shown compiled.
select(facts, caller, twins) ==
    LET gates == caller_gates(file_cfg_by_id(facts), caller)
        open == {t \in twins : verdict(facts, gates, t) # "NotCompiled"}
    IN  IF Cardinality(open) = 1 THEN {t \in open : verdict(facts, gates, t) = "Compiled"} ELSE {}
choose(facts, caller, candidates) ==
    IF are_twins_of_one_item(facts, candidates) THEN select(facts, caller, candidates) ELSE {}

is_compiled_out(facts, caller, item) ==
    verdict(facts, caller_gates(file_cfg_by_id(facts), caller), item) = "NotCompiled"

\* Before a resolver run: rows [caller, target, method] of an earlier choice go, and those of
\* the language server into a twin that is compiled out for their caller.
reset_cfg_selected(rows) == {r \in rows : r.method # "cfg-selected"}
lsp_twin_candidates(facts, rows) ==
    {r \in rows : /\ r.method = "lsp-definition"
                  /\ \/ has_cfg_gate(id_of(r.target))
                     \/ r.target.file \in DOMAIN file_cfg_by_id(facts)}
reset_compiled_out_lsp_rows(facts, rows) ==
    {r \in rows : r \in lsp_twin_candidates(facts, rows) => ~is_compiled_out(facts, r.caller, r.target)}

-----------------------------------------------------------------------------
\* The reference: what a build of one crate compiles. A build fixes the features and every
\* option, and decides what the parser could not read.
Options == {"unix", "test", "kani"}
Builds == [Options \cup {"?"} -> BOOLEAN]
Plain(b) == ~b["kani"]

RECURSIVE holds(_, _, _)
holds(p, features, b) ==
    CASE p.op = "feature" -> p.name \in features
      [] p.op = "option" -> b[p.name]
      [] p.op = "all" -> \A q \in p.items : holds(q, features, b)
      [] p.op = "any" -> \E q \in p.items : holds(q, features, b)
      [] p.op = "not" -> ~holds(Only(p.items), features, b)
      [] p.op = "unparsed" -> b["?"]

\* The compiler takes the path of the cfg_attr that holds, and that of the item if none does.
NamedFile(ws, file, decl, features, b) ==
    LET on == SelectSeq(decl.alts, LAMBDA a : holds(a.pred, features, b))
        owns == file \in target_files(ws) \/ IsModRs(file)
    IN  IF \E p \in decl.cfg : ~holds(p, features, b) THEN {}
        ELSE module_file(ws, file, owns, IF on = <<>> THEN decl ELSE [decl EXCEPT !.path = on[1].path])
RECURSIVE compiled_from(_, _, _, _)
compiled_from(ws, features, b, files) ==
    LET next == files \cup UNION {UNION {NamedFile(ws, f, mod_decl(d), features, b) : d \in Range(ws.decls[f])}
                                  : f \in files}
    IN  IF next = files THEN files ELSE compiled_from(ws, features, b, next)
Compiled(ws, c, features, b) == compiled_from(ws, features, b, {c.entry} \cap DOMAIN ws.decls)
\* No crate may declare a module twice in one build.
Valid(ws, c, features, b) ==
    \A f \in Compiled(ws, c, features, b) : \A i, j \in DOMAIN ws.decls[f] :
        LET d == mod_decl(ws.decls[f][i])  e == mod_decl(ws.decls[f][j]) IN
        i < j /\ d.name = e.name => \E p \in d.cfg \cup e.cfg : ~holds(p, features, b)

\* What the attribution says is off, is off: no crate compiles a file that is outside the
\* targets; no default build compiles one that is feature gated; and what a production target
\* ships is never called a test, a bench, an example or a proof.
FlagsAreSoundIn(ws, facts) ==
    \A c \in crate_roots(ws), b \in Builds : \A f \in Compiled(ws, c, c.features, b) :
        /\ f \notin facts.outside \cup facts.gated
        /\ c.kind = "production" /\ ~b["test"] /\ ~b["kani"] => facts.contexts[f] = "production"
        /\ c.entry \in facts.owners[f]

\* A file that is called inactive is compiled by no default build.
InactiveIsOffIn(ws, facts) ==
    \A c \in crate_roots(ws), b \in {d \in Builds : Plain(d)} :
        Valid(ws, c, c.features, b) => \A f \in Compiled(ws, c, c.features, b) :
            f \in DOMAIN facts.file_cfg => facts.file_cfg[f].active # CFG_INACTIVE

\* Per crate, features and build: whether the compiler takes it, and the files it compiles.
Features(ws) == UNION {DOMAIN p.features : p \in ws.packages} \ {"default"}
BuildsOf(ws) ==
    {[crate |-> c, features |-> fs, options |-> b, default |-> fs = c.features /\ Plain(b),
      files |-> Compiled(ws, c, fs, b)]
        : <<c, fs, b>> \in {<<c, fs, b>> \in crate_roots(ws) \X (SUBSET Features(ws)
                                \cup {d.features : d \in crate_roots(ws)}) \X Builds :
                              Valid(ws, c, fs, b)}}
HasItem(build, i) ==
    i.file \in build.files /\ \A p \in i.gates : holds(p, build.features, build.options)
\* It rejects a call to a twin set of which a build has none, or more than one.
Calls(build, caller, twins) ==
    HasItem(build, caller) /\ Cardinality({t \in twins : HasItem(build, t)}) = 1

\* Two items of one file for the same module, in the same place, are finding InactiveIsOff.
DeclaredOnce(ws) ==
    \A f \in DOMAIN ws.decls : \A i, j \in DOMAIN children(ws, f) :
        LET a == children(ws, f)[i]  b == children(ws, f)[j] IN
        a.target = b.target /\ a.decl.name = b.decl.name => i = j

\* The twin a call is pinned to is the one that is compiled with the caller: in every default
\* build that has the caller, and in some build if only its own gate keeps it out of those.
\* A row of the language server that is dropped is one no default build has.
TwinIsCompiledIn(facts, builds, caller, twins) ==
    LET pinned == choose(facts, caller, twins)
        row(u) == [caller |-> caller, target |-> u, method |-> "lsp-definition"]
        dropped == {u \in twins : row(u) \notin
                       reset_compiled_out_lsp_rows(facts, reset_cfg_selected({row(v) : v \in twins}))}
        with == {b \in builds : Calls(b, caller, twins)}
        default == {b \in with : b.default}
        live == \E b \in builds : b.default /\ caller.file \in b.files
        never == ~\E b \in builds : b.default /\ HasItem(b, caller)
    IN  (pinned \cup dropped # {}) =>
            /\ \A b \in default : \A t \in pinned : HasItem(b, t)
            /\ \A b \in default : \A u \in dropped : ~HasItem(b, u)
            /\ never /\ live /\ with # {} => \A t \in pinned : \E b \in with : HasItem(b, t)

\* A gate survives the id that carries it: the gates read back from an id are those that
\* were written, and without them the id is the plain one.
GatesSurvive(outer, own) ==
    LET plain == <<"f", "::", "m", "::", "helper">>
        id == <<"f", "::", "m">> \o twin_suffix(effective_gate(outer)) \o <<"::", "helper">>
              \o twin_suffix(effective_gate(own))
    IN  /\ strip_cfg_gates(id) = plain
        /\ cfg_gates_in(id) = <<effective_gate(outer), effective_gate(own)>>
        /\ \A ps \in {outer, own} : ps # {} =>
              LET read == parse_compact(effective_gate(ps)) IN
              /\ read = canonical(AllOf(ps))
              /\ \A fs \in SUBSET {"f"} : eval_in(read, with_features(fs)) =
                                          eval_in(AllOf(ps), with_features(fs))
=============================================================================
