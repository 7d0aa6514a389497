---------------------------- MODULE CallResolution ----------------------------
(***************************************************************************)
(* The static call phase: which symbol a call site calls, or why it has    *)
(* none (resolver::calls, call_evidence, ambiguity_policy, nested_scope).  *)
(*                                                                         *)
(* The world of RustPaths, with what this phase also loads:                *)
(*   imports, includes    file -> the paths it imports, in order; the files *)
(*             it includes                                                 *)
(*   internal, prototypes    ids of callables with internal linkage, and   *)
(*             of declarations without a body                              *)
(*   files     the files of the graph                                      *)
(*   classes   C++ classes: [path, bases];  aliases: [path, file, target]  *)
(*   returns   [of, type] of associated functions;  variants: enum         *)
(*             variants' qualified names                                   *)
(*   upper     the names that start with a capital                         *)
(*   selected  ids of the cfg twins their caller's build compiles          *)
(*   tails, heads    pairs of names of which the first ends, or starts,    *)
(*             with the text of the second                                 *)
(*                                                                         *)
(* A site is [language, caller, callee, hint, via, arg, shape]; its callee *)
(* is [kind, segs]: "bare" f, "path" a::f, "self_value" self.m,            *)
(* "self_type" Self::m, "local" x.m, "call" f().m, "chain" x.y.m.          *)
(***************************************************************************)
EXTENDS RustPaths

NoEntry == [id |-> "none"]

Resolved(e, evidence) == [kind |-> "resolved", target |-> e, evidence |-> evidence]

Ambiguous(es) == [kind |-> "ambiguous", candidates |-> es]

NotFound == [kind |-> "not_found"]

Gated(res, decline) == [res |-> res, decline |-> decline]

\* A gate that leaves the site to the next one.
Pass == Gated([kind |-> "pass"], "")

\* The declines that name the rule which refused every candidate.
ScopeRules == {"unknown_cargo_facts", "type_alias_return", "crate_scope", "written_path", "variant_guard",
    "file_local", "cpp_receiver_class", "cpp_unqualified_call", "cpp_qualifier"}

Only(es) == CHOOSE e \in es : TRUE

\* One candidate resolves, several are ambiguous.
OneOf(es, evidence) ==
    CASE es = {} -> NotFound
      [] Cardinality(es) = 1 -> Resolved(Only(es), evidence)
      [] OTHER -> Ambiguous(es)

(***************************************************************************)
(* The evidence policy.  Candidates are entries with the key the policy    *)
(* compares; a key is a sequence of name parts.                            *)
(***************************************************************************)
Text(qn) == qn.file.dir \o qn.file.name \o qn.path

\* Without the sequence number of a repeated definition.
strip_seq_suffix(e) ==
    IF e.seq THEN [e.qn EXCEPT !.path = Append(Front(@), e.name)] ELSE e.qn

unique_match(found) == IF Cardinality(found) = 1 THEN found ELSE {}

\* The keys are compared as text: the part at which the shorter one begins, or
\* ends, need only end, or start, with it.
ends_with(w, key, tail) ==
    LET n == Len(key) - Len(tail)
    IN \/ IsSuffix(tail, key)
       \/ n >= 0 /\ IsSuffix(Tail(tail), key) /\ <<key[n + 1], tail[1]>> \in w.tails

starts_with(w, key, head) ==
    LET n == Len(head)
    IN \/ IsPrefix(head, key)
       \/ n <= Len(key) /\ IsPrefix(Front(head), key) /\ <<key[n], head[n]>> \in w.heads

import_matches(w, k, imports) ==
    \E imp \in imports : ends_with(w, k.key, imp) \/ ends_with(w, imp, k.key)

resolve(w, keyed, imports, file, package) ==
    LET imported_one == unique_match({k \in keyed : import_matches(w, k, imports)})
        in_file == unique_match({k \in keyed : starts_with(w, k.key, file)})
        in_package == unique_match({k \in keyed : package # <<>> /\ starts_with(w, k.key, package)})
    IN CASE keyed = {} -> NotFound
         [] Cardinality(keyed) = 1 -> Resolved(Only(keyed).entry, "UniqueGlobal")
         [] imported_one # {} -> Resolved(Only(imported_one).entry, "ImportMatch")
         [] in_file # {} -> Resolved(Only(in_file).entry, "SameFileUnique")
         [] in_package # {} -> Resolved(Only(in_package).entry, "PackageProximity")
         [] OTHER -> Ambiguous({k.entry : k \in keyed})

\* Only Kotlin groups files by directory.
package_of(language, file) == IF language = "kotlin" THEN file.dir ELSE <<>>

try_package_pass(w, es, site, imports) ==
    LET key(e) == Append(package_of(site.language, e.qn.file), e.name)
    IN resolve(w, {[entry |-> e, key |-> key(e)] : e \in es}, imports, <<>>, <<>>)

file_pass(w, es, site, imports) ==
    resolve(w, {[entry |-> e, key |-> Text(strip_seq_suffix(e))] : e \in es}, imports,
            site.caller.file.dir \o site.caller.file.name,
            package_of(site.language, site.caller.file))

resolve_two_pass(w, es, site, imports) ==
    LET first == try_package_pass(w, es, site, imports)
    IN IF first.kind = "resolved" THEN first ELSE file_pass(w, es, site, imports)

(***************************************************************************)
(* C and C++: includes, linkage, classes.                                  *)
(***************************************************************************)
Includers == {<<".c">>, <<".c", "pp">>, <<".h">>}

is_c_family(file) == Tail(file.name) \in Includers

\* "x.h" and "../lib/x.h" are file names with the directories before them.
RECURSIVE normalize(_, _)
normalize(dir, path) ==
    CASE path = <<>> -> [ok |-> TRUE, dir |-> dir]
      [] path # <<>> /\ path[1] = ".." ->
            IF dir = <<>> THEN [ok |-> FALSE, dir |-> dir] ELSE normalize(Front(dir), Tail(path))
      [] OTHER -> normalize(Append(dir, path[1]), Tail(path))

\* The named directory relative to the includer, else every file whose path
\* ends with the written one.
resolve_include(w, includer, path) ==
    LET base == normalize(includer.dir, path.dir)
        relative == [dir |-> base.dir, name |-> path.name]
        tail == SelectSeq(path.dir, LAMBDA s : s # "..")
    IN IF base.ok /\ relative \in w.files THEN {relative}
       ELSE {f \in w.files : f.name = path.name /\ IsSuffix(tail, f.dir)}

Direct(w, file) ==
    IF ~is_c_family(file) \/ file \notin DOMAIN w.includes THEN {}
    ELSE UNION {resolve_include(w, file, p) : p \in w.includes[file]} \ {file}

RECURSIVE closure(_, _)
closure(w, seen) ==
    LET next == seen \cup UNION {Direct(w, f) : f \in seen}
    IN IF next = seen THEN seen ELSE closure(w, next)

reaches(w, from, to) == from = to \/ to \in closure(w, Direct(w, from))

\* Mutant: linkage ignored.
keep_definitions_any(w, es, file) ==
    LET kept == {e \in es : e.id \notin w.prototypes}
    IN [kept |-> kept, decline |-> IF kept = {} THEN "declaration_only" ELSE ""]

\* Drops what the caller's file cannot name (internal linkage), then the
\* declarations that have no body.
keep_definitions(w, es, file) ==
    LET internal(e) == e.id \in w.internal
        own_internal == \E e \in es : internal(e) /\ e.qn.file = file
        reachable == {e \in es :
            IF own_internal THEN e.qn.file = file \/ (internal(e) /\ reaches(w, file, e.qn.file))
            ELSE internal(e) => reaches(w, file, e.qn.file)}
        kept == {e \in reachable : e.id \notin w.prototypes}
    IN CASE ~\E e \in es : e.id \in w.internal \cup w.prototypes -> [kept |-> es, decline |-> ""]
         [] reachable = {} -> [kept |-> {}, decline |-> "file_local"]
         [] OTHER -> [kept |-> kept, decline |-> IF kept = {} THEN "declaration_only" ELSE ""]

names_class(path, name) == IsSuffix(name, path)

alias_targets(w, name, from) ==
    LET named == {a \in w.aliases : names_class(a.path, name)}
        local == {a \in named : a.file = from}
    IN {a.target : a \in IF local = {} THEN named ELSE local}

\* The class names a receiver may have: itself, its bases, what its aliases
\* stand for.
RECURSIVE family(_, _, _)
family(w, seen, from) ==
    LET bases(n) == UNION {c.bases : c \in {d \in w.classes : names_class(d.path, n)}}
        next == seen \cup UNION {bases(n) \cup alias_targets(w, n, from) : n \in seen}
    IN IF next = seen THEN seen ELSE family(w, next, from)

Family(w, name, from) == IF name = <<>> THEN {} ELSE family(w, {name}, from) \ {<<>>}

\* The owner of a symbol: its path below the file without the last segment.
owner_of(e) == Front(e.qn.path)

HasOwner(e) == Len(e.qn.path) > 1

methods_of(classes, es) ==
    {e \in es : /\ e.label = "Method"
                /\ HasOwner(e)
                /\ \E n \in classes : names_class(owner_of(e), n)}

is_constructor(e, callee) ==
    e.label = "Method" /\ HasOwner(e) /\ Last(owner_of(e)) = Last(callee.segs)

caller_label(w, site) ==
    LET at == At(w, site.caller) IN IF at = {} THEN "Function" ELSE Only(at).label

caller_family(w, site) ==
    IF caller_label(w, site) = "Method" /\ Len(site.caller.path) > 1
    THEN Family(w, Front(site.caller.path), site.caller.file) ELSE {}

unqualified(w, site, es) ==
    LET own == methods_of(caller_family(w, site), es)
    IN IF own # {} THEN own
       ELSE {e \in es : e.label # "Method" \/ is_constructor(e, site.callee)}

qualified(w, site, es) ==
    LET classes == Family(w, site.hint, site.caller.file)
    IN {e \in es :
        CASE e.label = "Method" -> e \in methods_of(classes, {e})
          [] e.label # "Method" /\ HasOwner(e) -> site.hint # <<>> /\ names_class(owner_of(e), site.hint)
          [] OTHER -> site.hint = <<>>}

Typed == {"cpp_this", "cpp_declared"}

\* Calls no static rule can name.
open_call(site) ==
    CASE site.shape = "indirect" \/ (site.language = "c" /\ site.shape = "member") ->
            Gated(NotFound, "pointer_call")
      [] site.language = "cpp" /\ site.shape = "member" /\ site.via \notin Typed ->
            Gated(NotFound, "no_receiver_type")
      [] OTHER -> Pass

IsScoped(site) ==
    /\ site.language = "cpp"
    /\ site.shape # ""
    /\ site.via \in Typed \cup {"cpp_qualifier"} \/ site.shape = "direct"

member_scope(w, site, es) ==
    CASE site.via = "cpp_this" ->
            [kept |-> methods_of(caller_family(w, site), es), rule |-> "cpp_receiver_class"]
      [] site.via = "cpp_declared" ->
            [kept |-> methods_of(Family(w, site.hint, site.caller.file), es), rule |-> "cpp_receiver_class"]
      [] site.via = "cpp_qualifier" -> [kept |-> qualified(w, site, es), rule |-> "cpp_qualifier"]
      [] OTHER -> [kept |-> unqualified(w, site, es), rule |-> "cpp_unqualified_call"]

(***************************************************************************)
(* Rust: nested functions, receivers, written paths.                       *)
(***************************************************************************)
is_callable(w, qn) == \E e \in At(w, qn) : e.label \in {"Function", "Method"}

is_nested(w, e) == HasParent(e.qn) /\ is_callable(w, Parent(e.qn))

\* The functions the innermost enclosing callable that declares any declares.
RECURSIVE DeclaredIn(_, _, _)
DeclaredIn(w, es, scope) ==
    LET declared == {e \in es : e.label = "Function" /\ HasParent(e.qn) /\ Parent(e.qn) = scope}
    IN CASE ~is_callable(w, scope) -> {}
         [] is_callable(w, scope) /\ (declared # {} \/ ~HasParent(scope)) -> declared
         [] OTHER -> DeclaredIn(w, es, Parent(scope))

Qualified(callee) == callee.kind \in {"path", "self_type"}

Dotted(callee) == callee.kind \in {"self_value", "local", "call", "chain"}

visible_candidates(w, site, es) ==
    LET declared == DeclaredIn(w, es, site.caller)
    IN CASE site.language = "rust" ->
              IF ~Qualified(site.callee) /\ declared # {} THEN declared
              ELSE {e \in es : ~is_nested(w, e)}
         [] site.language # "rust" /\ (Qualified(site.callee) \/ site.language # "python") -> es
         [] OTHER -> {e \in es : e.label # "Method"}

\* The candidates whose owner's last segment is `type`.
local_candidates(w, type, m) ==
    {e \in Named(w, m) : HasParent(e.qn) /\ LastSegment(Parent(e.qn)) = type}

same_class_receiver_gate(w, site) ==
    LET own == At(w, [Parent(site.caller) EXCEPT !.path = Append(@, Last(site.callee.segs))])
    IN IF \/ site.language \notin {"rust", "python", "typescript"}
          \/ caller_label(w, site) # "Method"
          \/ site.callee.kind \notin {"self_value", "self_type"}
          \/ ~HasParent(site.caller)
       THEN Pass
       ELSE IF own # {} THEN Gated(Resolved(Only(own), "ReceiverBound"), "")
       ELSE Gated(OneOf(local_candidates(w, LastSegment(Parent(site.caller)), Last(site.callee.segs)),
                        "ReceiverBound"), "")

builds_owner(w, e, assoc) ==
    LET key == [Parent(e.qn) EXCEPT !.path = Append(@, assoc)]
        types == {r.type : r \in {s \in w.returns : s.of = key}}
    IN /\ HasParent(e.qn)
       /\ IF types # {} THEN types \subseteq {"Self", LastSegment(Parent(e.qn))} ELSE key \in w.variants

ViaConstructed == {"constructed", "constructed_return_type"}

HasMethod(site) ==
    \/ site.callee.kind = "local"
    \/ site.callee.kind = "call"
    \/ site.callee.kind = "chain" /\ site.via \in ViaConstructed

resolve_local_receiver_strict(es) == OneOf(es, "ReceiverLocalBinding")

resolve_local_receiver_where(es, file) ==
    LET here == {e \in es : e.qn.file = file}
    IN IF Cardinality(es) > 1 /\ Cardinality(here) = 1 THEN Resolved(Only(here), "ReceiverLocalBinding")
       ELSE OneOf(es, "ReceiverLocalBinding")

is_method_of_type_in_file(w, e, file) ==
    /\ e.label = "Method"
    /\ HasParent(e.qn)
    /\ \E o \in At(w, Parent(e.qn)) : o.label \in {"Struct", "Enum"} /\ o.qn.file = file

names_a_type_alias(w, hint) == \E e \in Named(w, Last(hint)) : e.label = "TypeAlias"

relabel_as_return_type(res) == IF res.kind = "resolved" THEN Resolved(res.target, "ReceiverReturnType") ELSE res

\* The targets whose files may hold what `crate::name` means in the caller:
\* per owner that is no library, itself and the libraries it imports the name
\* from.
libraries_importing(w, root, name) ==
    LET crates == {p[1] : p \in {q \in ToSet(w.imports[root]) : Len(q) > 1 /\ Last(q) = name}}
    IN {t \in DOMAIN w.targets : w.targets[t] \in crates \ {NoLib}}

crate_scope(w, file, path) ==
    IF ~w.known \/ file \notin DOMAIN w.owners THEN {}
    ELSE {{o} \cup (IF Len(path) = 2 /\ path[1] = "crate" THEN libraries_importing(w, o, path[2]) ELSE {})
            : o \in {p \in w.owners[file] : p \notin DOMAIN w.targets \/ w.targets[p] = NoLib}}

scope_admits(w, scope, file) ==
    \A accepted \in scope : file \in DOMAIN w.owners /\ w.owners[file] \cap accepted # {}

AssocBuilds(w, site, e) == site.via = "assoc" => builds_owner(w, e, site.arg[1])

\* What the written path of the hint says: a rule with the path to read, no
\* rule, or a rule without a path (declined).
NoRule == [ok |-> FALSE]

PathRule(hint, path, fallback, return_type) ==
    [ok |-> TRUE, hint |-> hint, path |-> path, fallback |-> fallback, return_type |-> return_type]

path_rule(w, site) ==
    LET m == Last(site.callee.segs)
        off_binding == site.via \in {"", "assoc"}
        methods == {e \in local_candidates(w, Last(site.hint), m) : AssocBuilds(w, site, e)}
        bound == bind(w, site.caller, Last(site.hint), Wanted("member", m, methods), FALSE)
    IN CASE Len(site.hint) > 1 ->
              IF off_binding THEN PathRule(site.hint, written_of(w, site.caller, site.hint), FALSE, FALSE)
              ELSE NoRule
         [] Len(site.hint) = 1 /\ site.via = "local_import" ->
              IF site.arg[1] # "crate" \/ crate_scope(w, site.caller.file, site.arg) # {} THEN NoRule
              ELSE PathRule(site.arg, written_of(w, site.caller, site.arg), FALSE, TRUE)
         [] Len(site.hint) = 1 /\ (off_binding \/ site.via \in ViaConstructed) ->
              CASE bound.kind = "by_name" -> NoRule
                [] bound.kind = "decline" -> PathRule(site.hint, NoWritten, FALSE, FALSE)
                [] OTHER -> PathRule(bound.hint, bound.path, bound.fallback,
                                     site.via = "constructed_return_type")
         [] OTHER -> NoRule

written_path_gate(w, site) ==
    LET rule == path_rule(w, site)
        res == IF rule.path = NoWritten THEN NotFound
               ELSE resolve_local_receiver_strict(
                        {e \in local_candidates(w, Last(rule.hint), Last(site.callee.segs)) :
                            admits(w, rule.path, e) /\ AssocBuilds(w, site, e)})
    IN IF ~rule.ok \/ (rule.fallback /\ res = NotFound) THEN Pass
       ELSE Gated(IF rule.return_type THEN relabel_as_return_type(res) ELSE res,
                  IF rule.path = NoWritten THEN "written_path" ELSE "")

ViaReturnType == {"import", "local_import", "return_type", "constructed_return_type"}

scoped_lookup(w, site) ==
    LET es == local_candidates(w, Last(site.hint), Last(site.callee.segs))
        file == site.caller.file
        scope == IF site.via = "local_import" THEN crate_scope(w, file, site.arg) ELSE {}
    IN IF site.via \in ViaConstructed
       THEN resolve_local_receiver_strict({e \in es : is_method_of_type_in_file(w, e, file)})
       ELSE resolve_local_receiver_where({e \in es : scope_admits(w, scope, e.qn.file)}, file)

resolve_by_hint(w, site) ==
    LET res == scoped_lookup(w, site)
        restricted == site.via = "local_import" /\ crate_scope(w, site.caller.file, site.arg) # {}
    IN IF site.via \in ViaReturnType /\ names_a_type_alias(w, site.hint)
       THEN Gated(NotFound, "type_alias_return")
       ELSE Gated(IF site.via \in ViaReturnType THEN relabel_as_return_type(res) ELSE res,
                  IF restricted /\ res = NotFound THEN "crate_scope" ELSE "")

foreign_import_decline(w, site) ==
    IF site.via # "import" \/ site.arg[1] \in w.crates THEN Pass
    ELSE Gated(NotFound, IF w.known THEN "foreign_return_type" ELSE "unknown_cargo_facts")

rust_local_receiver_gate(w, site) ==
    LET written == written_path_gate(w, site)
        foreign == foreign_import_decline(w, site)
    IN CASE site.language # "rust" \/ site.hint = <<>> \/ ~HasMethod(site) -> Pass
         [] OTHER ->
              IF written # Pass THEN written
              ELSE IF site.via = "assoc"
              THEN Gated(resolve_local_receiver_where(
                            {e \in local_candidates(w, Last(site.hint), Last(site.callee.segs)) :
                                builds_owner(w, e, site.arg[1])}, site.caller.file), "")
              ELSE IF foreign # Pass THEN foreign
              ELSE resolve_by_hint(w, site)

(***************************************************************************)
(* Candidates by name, and the gate of a qualified path.                   *)
(***************************************************************************)
qualifier_names_only_enums(w, callee) ==
    \/ callee.kind = "self_type"
    \/ /\ callee.kind = "path"
       /\ LET es == Named(w, callee.segs[Len(callee.segs) - 1])
          IN es # {} /\ \A e \in es : e.label \in {"Enum", "TypeAlias"}

drop_struct_targets(w, callee, es) ==
    IF qualifier_names_only_enums(w, callee) THEN {e \in es : e.label # "Struct"} ELSE es

named_candidates(w, site, name) ==
    LET all == Named(w, name)
        scoped == member_scope(w, site, all)
        seen == IF IsScoped(site) THEN scoped.kept ELSE visible_candidates(w, site, all)
        defined == keep_definitions(w, seen, site.caller.file)
        kept == drop_struct_targets(w, site.callee, defined.kept)
    IN [kept |-> kept,
        decline |-> CASE IsScoped(site) /\ seen = {} /\ all # {} -> scoped.rule
                      [] defined.decline # "" -> defined.decline
                      [] OTHER -> IF defined.kept # {} /\ kept = {} THEN "variant_guard" ELSE ""]

OwnerLabels == TypeLabels \cup {"Trait"}

reached(w, e) == w.known => e.qn.file \in DOMAIN w.owners \ w.outside

named(es) == Gated(OneOf(es, "ImportMatch"), "")

declined == Gated(NotFound, "written_path")

\* Whether the type an impl block is written for is one of `types`: "open"
\* when the impl's owner cannot be read.
impl_owner_is_named(w, e, name, types) ==
    LET parent == Parent(e.qn)
        scope == caller_scope(w, e.qn)
        spelled == SubSeq(parent.path, Len(scope.path) + 1, Len(parent.path))
        NamesOne(path) == \E t \in types : names(w, path, t)
        bound == bind(w, e.qn, name, Wanted("self", name, types), FALSE)
        local == [scope EXCEPT !.path = Append(@, name)]
        yes(b) == IF b THEN "yes" ELSE "no"
    IN CASE LastSegment(parent) # name -> "no"
         [] LastSegment(parent) = name /\ spelled = <<>> -> "open"
         [] Len(spelled) > 1 ->
              yes(LET path == written_of(w, e.qn, spelled) IN path # NoWritten /\ NamesOne(path))
         [] OTHER -> CASE bound.kind = "path" -> yes(NamesOne(bound.path))
                       [] bound.kind = "decline" -> "no"
                       [] OTHER -> yes(\E t \in types : t.qn = local)

\* No candidate lies on the path itself: look for one in an impl of a type
\* the path names.
through_impls(w, owners, es, name) ==
    LET types == {t \in Named(w, name) : t.label \in OwnerLabels /\ names(w, owners, t)}
        verdict(e) == impl_owner_is_named(w, e, name, types)
        matched == {e \in es : verdict(e) = "yes" /\ reached(w, e)}
    IN CASE types = {} -> [found |-> FALSE, gated |-> Pass]
         [] types # {} /\ \E e \in es : verdict(e) = "open" -> [found |-> TRUE, gated |-> Pass]
         [] OTHER -> [found |-> TRUE, gated |-> IF matched = {} THEN declined ELSE named(matched)]

lacks_the_item(w, es, name) ==
    /\ \E e \in Named(w, name) : e.label \in OwnerLabels
    /\ ~\E e \in es : LastSegment(Parent(e.qn)) = name

qualified_path_gate(w, site, es) ==
    LET qualifier == Front(site.callee.segs)
        name == Last(site.callee.segs)
        rule == qualifier_rule(w, site.caller, qualifier, Wanted("item", name, es))
        admitted == {e \in es : admits(w, item_of(w, rule.path, name), e)}
        kept == {e \in admitted : reached(w, e)}
        owner == Last(qualifier)
        impls == through_impls(w, rule.path, es, owner)
    IN CASE site.language # "rust" \/ es = {} \/ ~Qualified(site.callee) -> Pass
         [] OTHER ->
              CASE rule.kind = "by_name" -> Pass
                [] rule.kind = "decline" -> declined
                [] OTHER -> IF kept # {} THEN named(kept)
                            ELSE IF admitted # {} THEN Pass
                            ELSE IF impls.found THEN impls.gated
                            ELSE IF \/ lacks_the_item(w, es, owner)
                                    \/ ~rule.fallback /\ leaves_repository(w, rule.path)
                            THEN declined ELSE Pass

(***************************************************************************)
(* Names from outside the repository.  Prelude and StdTypes stand for the  *)
(* lists of the code.                                                      *)
(***************************************************************************)
Prelude == {"drop", "Vec"}

StdTypes == Prelude \cup {"u8", "HashMap"}

StdRoots == {"std", "core", "alloc"}

std_type(w, name) == name \in StdTypes /\ Named(w, name) = {}

\* The crate the first import that binds `name` comes from; "" for none.
imported_origin(w, file, name) ==
    LET binding == SelectSeq(w.imports[file], LAMBDA p : Len(p) > 1 /\ Last(p) = name)
    IN IF binding = <<>> THEN "" ELSE binding[1][1]

path_origin(w, site) ==
    LET segs == site.callee.segs
        from == imported_origin(w, site.caller.file, segs[1])
        origin == IF from = "" THEN segs[1] ELSE from
    IN CASE site.callee.kind # "path" \/ segs[1] \in Anchored -> ""
         [] OTHER ->
              CASE origin \in StdRoots -> origin
                [] origin \in Anchored \cup w.crates -> ""
                [] from = "" /\ Len(segs) = 2 /\ std_type(w, segs[1]) -> "std"
                [] OTHER -> IF /\ w.known
                               /\ Named(w, origin) = {}
                               /\ from # "" \/ origin \notin w.upper
                            THEN origin ELSE ""

names_external_path(w, site) == site.language = "rust" /\ path_origin(w, site) # ""

hinted_origin(w, site) ==
    CASE site.hint = <<>> -> ""
      [] site.hint # <<>> /\ site.hint[1] \in StdRoots -> site.hint[1]
      [] OTHER -> IF std_type(w, Last(site.hint)) THEN "std" ELSE ""

external_origin(w, site, decline) ==
    CASE site.language # "rust" -> ""
      [] site.language = "rust" /\ decline = "foreign_return_type" -> site.arg[1]
      [] OTHER -> CASE Dotted(site.callee) -> hinted_origin(w, site)
                    [] Qualified(site.callee) -> path_origin(w, site)
                    [] OTHER -> IF site.callee.segs[1] \in Prelude /\ Named(w, site.callee.segs[1]) = {}
                                THEN "std" ELSE ""

(***************************************************************************)
(* One call site.                                                          *)
(***************************************************************************)
resolve_single_call(w, site) ==
    LET own == same_class_receiver_gate(w, site)
        local == rust_local_receiver_gate(w, site)
        name == Last(site.callee.segs)
        hint == IF Qualified(site.callee) THEN {site.callee.segs} ELSE ToSet(w.imports[site.caller.file])
        cands == named_candidates(w, site, name)
        path == qualified_path_gate(w, site, cands.kept)
    IN IF own # Pass THEN own
       ELSE IF local # Pass THEN local
       ELSE IF names_external_path(w, site) \/ Dotted(site.callee) \/ Named(w, name) = {}
       THEN Gated(NotFound, "")
       ELSE IF path # Pass THEN path
       ELSE Gated(resolve_two_pass(w, cands.kept, site, hint), cands.decline)

CallerLabels == {"Function", "Method"}

HasRelTable(w, site, e) ==
    /\ caller_label(w, site) \in CallerLabels
    /\ e.label \in CallerLabels \cup {"Struct", "Enum", "Trait", "TypeAlias"}

names_repo_variant(w, site) ==
    LET segs == site.callee.segs
        variant == Last(segs)
        owners == IF site.callee.kind = "self_type" THEN {Parent(site.caller)}
                  ELSE {e.qn : e \in {f \in Named(w, segs[Len(segs) - 1]) : f.label = "Enum"}}
    IN /\ site.language = "rust"
       /\ Qualified(site.callee)
       /\ \E o \in owners : [o EXCEPT !.path = Append(@, variant)] \in w.variants

self_value(site) == site.language = "rust" /\ site.callee.kind \in {"self_value", "self_type"}

name_is_known(w, site) ==
    \/ self_value(site)
    \/ Named(w, Last(site.callee.segs)) # {}
    \/ site.hint # <<>> /\ \E e \in Named(w, Last(site.hint)) : e.label \in OwnerLabels \ {"Union"}

\* The reason recorded for a site without an edge; failure is
\* [kind, decline, twins, label].
classify(w, site, failure) ==
    CASE site.caller.file \in w.outside -> "outside_targets"
      [] site.caller.file \notin w.outside ->
           CASE failure.decline = "pointer_call" -> "indirect_call"
             [] failure.decline = "no_receiver_type" -> "no_receiver_type"
             [] failure.kind = "no_rel_table" ->
                  IF failure.label \in CallerLabels \cup {"Struct"} THEN "not_found" ELSE "not_a_call"
             [] OTHER ->
                  CASE names_repo_variant(w, site) -> "not_a_call"
                    [] ~names_repo_variant(w, site) ->
                         IF failure.twins THEN "cfg_twins"
                         ELSE IF external_origin(w, site, failure.decline) # "" THEN "external_callee"
                         ELSE IF failure.decline \in ScopeRules THEN "declined_by_scope"
                         ELSE IF failure.decline = "declaration_only" THEN "not_found"
                         ELSE IF failure.kind = "ambiguous" THEN "ambiguous_candidates"
                         ELSE IF /\ site.language = "rust" /\ Dotted(site.callee)
                                 /\ site.hint = <<>> /\ ~self_value(site)
                         THEN "no_receiver_type"
                         ELSE IF name_is_known(w, site) THEN "not_found" ELSE "unknown_callee"

Failure(kind, decline, twins, label) == [kind |-> kind, decline |-> decline, twins |-> twins, label |-> label]

Edge(e, evidence) == [target |-> e, evidence |-> evidence, reason |-> ""]

NoEdge(w, site, failure) == [target |-> NoEntry, evidence |-> "", reason |-> classify(w, site, failure)]

stage_call_edge(w, site, e, evidence) ==
    IF HasRelTable(w, site, e) THEN Edge(e, evidence)
    ELSE NoEdge(w, site, Failure("no_rel_table", "", FALSE, e.label))

resolve_one_call_site(w, site) ==
    LET open == open_call(site)
        gated == IF open # Pass THEN open ELSE resolve_single_call(w, site)
        res == gated.res
        chosen == {e \in res.candidates : e.id \in w.selected}
    IN CASE res.kind = "resolved" -> stage_call_edge(w, site, res.target, res.evidence)
         [] res.kind = "ambiguous" ->
              IF Cardinality(chosen) = 1 THEN stage_call_edge(w, site, Only(chosen), "CfgSelected")
              ELSE NoEdge(w, site, Failure("ambiguous", "", {e.id : e \in res.candidates} \subseteq w.twins, ""))
         [] OTHER -> NoEdge(w, site, Failure("not_found", gated.decline, FALSE, ""))

(***************************************************************************)
(* Reference: what the languages say, stated without the resolver's steps. *)
(***************************************************************************)
\* The files a C translation unit is made of: the least set that holds the
\* file and every include of its members.
TranslationUnit(w, file) ==
    {f \in w.files : \A S \in SUBSET w.files :
        (file \in S /\ \A g \in S : Direct(w, g) \subseteq S) => f \in S}

Definitions(w, name) == {e \in Named(w, name) : e.id \notin w.prototypes}

Internal(w, file, name) ==
    {e \in Definitions(w, name) : e.id \in w.internal /\ e.qn.file \in TranslationUnit(w, file)}

\* C gives one definition of a name per translation unit.
LegalC(w, name) ==
    \A f \in w.files : Internal(w, f, name) # {} =>
        {e \in Definitions(w, name) : e.qn.file \in TranslationUnit(w, f)} = Internal(w, f, name)

LinkTargets(w, file, name) ==
    IF Internal(w, file, name) # {} THEN Internal(w, file, name)
    ELSE {e \in Definitions(w, name) : e.id \notin w.internal}

\* The resolver takes a candidate for one of the caller's file when its name
\* starts with the path of that file as text, which a file whose path goes on
\* from there also does: a.cpp for a caller in a.c (ambiguity_policy.rs:194).
TakenForOwn(site, out) ==
    /\ out.evidence = "SameFileUnique"
    /\ out.target.qn.file # site.caller.file
    /\ out.target.qn.file.dir = site.caller.file.dir
    /\ IsPrefix(site.caller.file.name, out.target.qn.file.name)

\* A call in C that gets an edge names a definition the linker could give it:
\* an internal one of its own translation unit when there is one, else an
\* external one (calls/declarations.rs, ambiguity_policy.rs).  The one other edge
\* the resolver writes is recorded as `same-file-unique` and goes to a file it
\* took for the caller's.
CCallsLinkIn(w, site) ==
    LET out == resolve_one_call_site(w, site)
    IN \/ out.target = NoEntry
       \/ out.target \in LinkTargets(w, site.caller.file, Last(site.callee.segs))
       \/ TakenForOwn(site, out)

\* The classes a receiver of class `name` inherits from, itself included: the
\* least set closed under bases and under what an alias stands for.
Ancestors(w, name) ==
    LET universe == {c.path : c \in w.classes} \cup {name}
        Meant(n) == {n} \cup {a.target : a \in {b \in w.aliases : names_class(b.path, n)}}
        Above(p) == UNION {Meant(b) : b \in UNION {c.bases : c \in {d \in w.classes :
                        \E n \in Meant(p) : names_class(d.path, n)}}} \cup Meant(p)
        Closed(S) == \A p \in S : \A q \in universe :
                        (\E n \in Above(p) : names_class(q, n)) => q \in S
    IN {p \in universe : \A S \in SUBSET universe : name \in S /\ Closed(S) => p \in S}

\* A C++ call on a typed receiver that gets an edge names a method of the
\* receiver's class or of one it inherits from (calls/member_calls.rs).
CppReceiverIn(w, site) ==
    LET t == resolve_one_call_site(w, site).target
        class == IF site.via = "cpp_this" THEN Front(site.caller.path) ELSE site.hint
    IN t # NoEntry /\ site.via \in Typed =>
        t.label = "Method" /\ \E p \in Ancestors(w, class) : names_class(owner_of(t), p)

\* An edge recorded as `same-file-unique` joins two symbols of one file
\* (ambiguity_policy.rs: "defined in the caller's own file").
SameFileIn(w, site) ==
    LET out == resolve_one_call_site(w, site)
    IN out.evidence = "SameFileUnique" => out.target.qn.file = site.caller.file

\* What a name may mean in a module of a crate, by Rust's rules: its
\* definition, the `use` that binds it, else the globs (the index does not tell
\* which names a definition hides from a glob).  A thing is [crate, path]; `n`
\* bounds the chain of re-exports.
Things(w, crate) ==
    {scope_module_path(w, e.qn) : e \in {x \in w.entries : crate \in w.owners[x.qn.file]}}
    \cup {scope_module_path(w, m) : m \in {x \in w.modules : crate \in w.owners[x.file]}}

RowsAt(w, at) == {r \in w.rows : at.crate \in w.owners[r.scope.file] /\ scope_module_path(w, r.scope) = at.path}

Thing(crate, path) == [crate |-> crate, path |-> path]

LibraryOf(w, name) == {Thing(t, <<>>) : t \in {u \in DOMAIN w.targets : w.targets[u] = name}}

RECURSIVE Meaning(_, _, _, _)
RECURSIVE Reads(_, _, _, _)
Meaning(w, n, at, name) ==
    LET own == {Thing(at.crate, p) : p \in {Append(at.path, name)} \cap Things(w, at.crate)}
        explicit == {r \in RowsAt(w, at) : ~r.is_glob /\ binds(r) = name}
        through == UNION {Reads(w, n - 1, at, r.path) : r \in explicit}
        globbed == UNION {UNION {Meaning(w, n - 1, t, name) : t \in Reads(w, n - 1, at, r.path)}
                            : r \in {s \in RowsAt(w, at) : s.is_glob}}
    IN CASE n = 0 -> {}
         [] n # 0 /\ explicit # {} -> own \cup through
         [] OTHER -> own \cup globbed

Reads(w, n, at, path) ==
    LET ups == Ups(path)
        start == CASE path[1] = "crate" -> {Thing(at.crate, <<>>)}
                   [] path[1] = "self" -> {at}
                   [] path[1] = "super" -> {Thing(at.crate, SubSeq(at.path, 1, Len(at.path) - ups))
                                                : i \in {1} \cap (IF ups > Len(at.path) THEN {} ELSE {1})}
                   [] path[1] \in w.crates -> LibraryOf(w, path[1])
                   [] OTHER -> Meaning(w, n, at, path[1])
        from == IF path[1] = "super" THEN ups + 1 ELSE 2
        rest == SubSeq(path, from, Len(path))
        Into(things, name) == UNION {Meaning(w, n, t, name) : t \in things}
    IN IF n = 0 THEN {} ELSE FoldLeft(Into, start, rest)

Depth == 4

ThingOf(w, e) == {Thing(c, scope_module_path(w, e.qn)) : c \in w.owners[e.qn.file]}

\* The module an item is written in, in each crate that compiles it.
ScopesOf(w, qn) == {Thing(c, scope_module_path(w, caller_scope(w, qn))) : c \in w.owners[qn.file]}

\* The types the impl block of a method is written for.
ImplTypes(w, e) ==
    LET impl == SubSeq(e.qn.path, Len(caller_scope(w, e.qn).path) + 1, Len(e.qn.path) - 1)
    IN UNION {Reads(w, Depth, s, impl) : s \in ScopesOf(w, e.qn)}

\* Every impl block is for a type its module can name.
LegalRust(w) == \A e \in w.entries : e.label = "Method" => ImplTypes(w, e) # {}

\* A method is an item of the types its impl block is written for.
IsItem(w, e, at, path) ==
    IF e.label = "Method" THEN Reads(w, Depth, at, Front(path)) \cap ImplTypes(w, e) # {}
       ELSE ThingOf(w, e) \cap Reads(w, Depth, at, path) # {}

\* A qualified Rust call the written path settles names an item Rust's own
\* rules give that path in a crate that compiles the caller
\* (candidate_scope.rs, receiver/*).
PathNamesTargetIn(w, site) ==
    LET es == named_candidates(w, site, Last(site.callee.segs)).kept
        res == qualified_path_gate(w, site, es).res
    IN res.kind = "resolved" =>
        \E at \in ScopesOf(w, site.caller) : IsItem(w, res.target, at, site.callee.segs)

\* A method call the written type of its receiver settles names a method of an
\* impl for a type that spelling may mean in the caller (calls/gates.rs).
HintNamesTargetIn(w, site) ==
    LET res == written_path_gate(w, site).res
    IN res.kind = "resolved" =>
        \E at \in ScopesOf(w, site.caller) : Reads(w, Depth, at, site.hint) \cap ImplTypes(w, res.target) # {}
=============================================================================
