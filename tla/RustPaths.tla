------------------------------ MODULE RustPaths ------------------------------
(***************************************************************************)
(* How the resolver reads a Rust path: the module a scope is, the          *)
(* re-exports a path goes through, the `use` rows that bind a name, and    *)
(* the symbols the read path admits (resolver::receiver).                  *)
(*                                                                         *)
(* A file is [dir, name]: its directory components and the parts of its    *)
(* base name.  A qualified name is [file, path]: the segments below the    *)
(* file.  Names are the ones left once generic arguments are stripped.  A  *)
(* world `w` is what one pass loads from the graph:                        *)
(*   entries   the symbol index: [id, qn, label, name, seq]                *)
(*   known     whether cargo metadata was read                             *)
(*   crates    the names of the repository's libraries                     *)
(*   targets   target entry file -> library name, or NoLib                 *)
(*   owners    file -> the target entries whose module tree reaches it     *)
(*   outside   the files no target compiles                                *)
(*   logical   file -> module path, for the files the module tree reached  *)
(*   rows      the `use` rows: [scope, path, alias, is_glob]               *)
(*   modules   the modules: files, inline modules and enums                *)
(***************************************************************************)
EXTENDS Naturals, FiniteSets, Sequences, SequencesExt

NoLib == "no library"

(***************************************************************************)
(* Names and scopes.                                                       *)
(***************************************************************************)
Named(w, name) == {e \in w.entries : e.name = name}

At(w, qn) == {e \in w.entries : e.qn = qn}

HasParent(qn) == qn.path # <<>>

Parent(qn) == [qn EXCEPT !.path = Front(@)]

\* The last segment of a qualified name; of a file, its path, which is no name.
LastSegment(qn) == IF qn.path = <<>> THEN "/" ELSE Last(qn.path)

\* The module path of a file: what the module tree says, else its place below
\* the last src/ or a target directory.
file_module_path(w, file) ==
    LET parts == file.dir \o <<Head(file.name)>>
        srcs == {i \in DOMAIN file.dir : file.dir[i] = "src"}
        last == CHOOSE i \in srcs : \A j \in srcs : j <= i
        below == CASE srcs # {} -> SubSeq(parts, last + 1, Len(parts))
                   [] srcs = {} /\ Head(parts) \in {"tests", "benches", "examples"} -> Tail(parts)
                   [] OTHER -> parts
    IN CASE file \in DOMAIN w.logical -> w.logical[file]
         [] file \notin DOMAIN w.logical
            /\ (file \in DOMAIN w.targets \/ Head(file.name) \in {"lib", "main"}) -> <<>>
         [] OTHER -> IF Last(below) = "mod" THEN Front(below) ELSE below

scope_module_path(w, scope) == file_module_path(w, scope.file) \o scope.path

\* The longest run of inline modules below the file that encloses the caller.
inline_modules(w, qn) ==
    LET depth == Len(qn.path) - 1
        nested(n) == \A k \in 1 .. n : \E e \in At(w, [qn EXCEPT !.path = SubSeq(@, 1, k)]) :
                        e.label = "Module"
        runs == {n \in 0 .. depth : nested(n)}
    IN IF qn.path = <<>> THEN 0 ELSE CHOOSE n \in runs : \A k \in runs : k <= n

caller_scope(w, qn) == [qn EXCEPT !.path = SubSeq(@, 1, inline_modules(w, qn))]

\* Mutant: two files that belong to some crate are of the same one.
same_crate_any(w, file, other) == ~w.known \/ {file, other} \subseteq DOMAIN w.owners

same_crate(w, file, other) ==
    \/ ~w.known
    \/ {file, other} \subseteq DOMAIN w.owners => w.owners[file] \cap w.owners[other] # {}

library_owns(w, lib, file) ==
    /\ file \in DOMAIN w.owners
    /\ \E o \in w.owners[file] : o \in DOMAIN w.targets /\ w.targets[o] = lib

(***************************************************************************)
(* The `use` rows and the modules.                                         *)
(***************************************************************************)
binds(row) == IF row.alias = "" THEN Last(row.path) ELSE row.alias

of_scope(w, scope) == {r \in w.rows : r.scope = scope}

scopes_at(w, module) == {s \in {r.scope : r \in w.rows} : scope_module_path(w, s) = module}

module_files(w, module) == {m.file : m \in {n \in w.modules : scope_module_path(w, n) = module}}

(***************************************************************************)
(* Anchors: where a path starts, and the re-exports it goes through.       *)
(***************************************************************************)
Anchored == {"crate", "self", "super"}

Anchor(lib, segments) == [lib |-> lib, segments |-> segments]

CrateRoot(segments) == Anchor("", segments)

Suffix(segments) == Anchor("::", segments)

NoAnchor == Anchor("none", <<>>)

Exact(anchor) == anchor.lib # "::" /\ anchor.segments # <<>>

\* The number of leading `super` segments.
Ups(segments) ==
    LET runs == {n \in 0 .. Len(segments) : \A k \in 1 .. n : segments[k] = "super"}
    IN CHOOSE n \in runs : \A k \in runs : k <= n

\* The anchor of `segments` written in `module` of the library `lib` ("" for
\* the caller's own crate); NoAnchor when `super` leaves the crate.
anchor_in(w, lib, module, segments) ==
    CASE segments = <<>> -> NoAnchor
      [] segments # <<>> /\ segments[1] = "crate" -> Anchor(lib, Tail(segments))
      [] segments # <<>> /\ segments[1] = "self" -> Anchor(lib, module \o Tail(segments))
      [] segments # <<>> /\ segments[1] = "super" ->
            IF Ups(segments) > Len(module) THEN NoAnchor
            ELSE Anchor(lib, SubSeq(module, 1, Len(module) - Ups(segments))
                               \o SubSeq(segments, Ups(segments) + 1, Len(segments)))
      [] segments # <<>> /\ segments[1] \in w.crates -> Anchor(segments[1], Tail(segments))
      [] OTHER -> Anchor(lib, module \o segments)

rows_of_module(w, file, anchor) ==
    UNION {of_scope(w, s) : s \in {t \in scopes_at(w, Front(anchor.segments)) :
        IF anchor.lib = "" THEN same_crate(w, file, t.file) ELSE library_owns(w, anchor.lib, t.file)}}

\* The anchors one step of the walk adds: the explicit rows that bind the
\* name, else the glob rows.
Onward(w, file, anchor) ==
    LET module == Front(anchor.segments)
        name == Last(anchor.segments)
        rows == rows_of_module(w, file, anchor)
        explicit == {r \in rows : ~r.is_glob /\ binds(r) = name}
        paths == IF explicit # {} THEN {r.path : r \in explicit}
                 ELSE {Append(r.path, name) : r \in {s \in rows : s.is_glob}}
    IN [explicit |-> explicit # {},
        next |-> {anchor_in(w, anchor.lib, module, p) : p \in paths} \ {NoAnchor}]

\* An anchor is an end of the walk unless explicit rows rename it to others.
Ends(w, file, anchor) ==
    \/ ~Exact(anchor)
    \/ LET on == Onward(w, file, anchor) IN ~on.explicit \/ on.next = {anchor}

RECURSIVE Walk(_, _, _)
Walk(w, file, seen) ==
    LET next == seen \cup UNION {Onward(w, file, a).next : a \in {b \in seen : Exact(b)}}
    IN IF next = seen THEN seen ELSE Walk(w, file, next)

\* Every anchor the path may stand for, re-exports followed.
follow(w, file, anchor) == {a \in Walk(w, file, {anchor}) : Ends(w, file, a)}

(***************************************************************************)
(* Written paths: the anchors a path stands for, read from a file; `item`  *)
(* when the anchors name the symbol itself and not its owner.              *)
(***************************************************************************)
NoWritten == [file |-> [dir |-> <<>>, name |-> <<"">>], anchors |-> {}, item |-> FALSE]

exact(file, anchor) == [file |-> file, anchors |-> {anchor}, item |-> FALSE]

following(w, file, anchor) ==
    IF anchor.segments = <<>> THEN NoWritten
    ELSE [file |-> file, anchors |-> follow(w, file, anchor), item |-> FALSE]

imported(w, file, module, path) == following(w, file, anchor_in(w, "", module, path))

\* A path written in the caller: anchored at a crate or a module, else any
\* path of the crate that ends with it.
written_of(w, caller, hint) ==
    CASE hint = <<>> -> NoWritten
      [] hint # <<>> /\ hint[1] \in Anchored \cup w.crates ->
            imported(w, caller.file, scope_module_path(w, caller_scope(w, caller)), hint)
      [] OTHER -> following(w, caller.file, Suffix(hint))

item_of(w, path, name) ==
    [path EXCEPT !.item = TRUE,
        !.anchors = UNION {follow(w, path.file, Anchor(a.lib, Append(a.segments, name))) : a \in @}]

admits(w, path, e) ==
    LET owner == IF path.item THEN e.qn ELSE Parent(e.qn)
        at == scope_module_path(w, owner)
    IN /\ path.item \/ HasParent(e.qn)
       /\ \E a \in path.anchors :
            CASE a.lib = "" -> same_crate(w, path.file, owner.file) /\ at = a.segments
              [] a.lib = "::" -> same_crate(w, path.file, owner.file) /\ IsSuffix(a.segments, at)
              [] OTHER -> library_owns(w, a.lib, owner.file) /\ at = a.segments

names(w, path, e) == admits(w, [path EXCEPT !.item = TRUE], e)

leaves_repository(w, path) ==
    \A a \in path.anchors :
        /\ Exact(a)
        /\ Len(a.segments) > 1
        /\ module_files(w, Front(a.segments)) = {}

(***************************************************************************)
(* Binding a name: the definition in scope, the `use` that binds it, the   *)
(* globs, and the enclosing modules `use super::*` leads to.               *)
(***************************************************************************)
TypeLabels == {"Struct", "Enum", "Union", "TypeAlias"}

defined_in_scope(w, scope, name) ==
    \E e \in Named(w, name) : e.label \in TypeLabels /\ HasParent(e.qn) /\ Parent(e.qn) = scope

defined_at(w, file, module, name) ==
    \E e \in Named(w, name) :
        /\ e.label \in TypeLabels
        /\ scope_module_path(w, e.qn) # <<>>
        /\ Front(scope_module_path(w, e.qn)) = module
        /\ same_crate(w, file, e.qn.file)

defines_module(w, file, module, name) ==
    \E f \in module_files(w, Append(module, name)) : same_crate(w, file, f)

ByName == [kind |-> "by_name"]

Declined == [kind |-> "decline"]

ByPath(hint, path, fallback) == [kind |-> "path", hint |-> hint, path |-> path, fallback |-> fallback]

may_be_this_crate(w, path) == ~w.known /\ path[1] \notin Anchored

read(w, file, module, hint) ==
    LET path == imported(w, file, module, hint)
    IN IF path = NoWritten THEN Declined ELSE ByPath(hint, path, may_be_this_crate(w, hint))

defined_here(file, module, name) ==
    ByPath(<<name>>, exact(file, CrateRoot(Append(module, name))), FALSE)

CanGoUp(level) == level.module # <<>>

up(w, file, level) ==
    LET parent == Front(level.module)
        inline == {s \in level.scopes : Cardinality(level.scopes) = 1 /\ HasParent(s)}
    IN [module |-> parent,
        scopes |-> IF inline # {} THEN {Parent(s) : s \in inline}
                   ELSE {s \in scopes_at(w, parent) : same_crate(w, file, s.file)}]

\* One level of `bind`: the answer, or the level above when every glob of this
\* one is `super`.  `AtGlobs` leaves the glob paths to through_globs.
AtGlobs(module, globs) == [kind |-> "globs", module |-> module, globs |-> globs]

RECURSIVE climb(_, _, _, _, _, _)
climb(w, file, level, name, modules, top) ==
    LET rows == UNION {of_scope(w, s) : s \in level.scopes}
        explicit == {r.path : r \in {s \in rows : ~s.is_glob /\ binds(s) = name}}
        globs == {r.path : r \in {s \in rows : s.is_glob}}
    IN CASE /\ ~top
            /\ \/ defined_at(w, file, level.module, name)
               \/ modules /\ defines_module(w, file, level.module, name) ->
               defined_here(file, level.module, name)
         [] Cardinality(explicit) = 1 ->
               read(w, file, level.module, CHOOSE p \in explicit : TRUE)
         [] Cardinality(explicit) > 1 -> Declined
         [] globs = {} -> ByName
         [] globs = {<<"super">>} ->
               IF CanGoUp(level) THEN climb(w, file, up(w, file, level), name, modules, FALSE)
               ELSE Declined
         [] OTHER -> AtGlobs(level.module, globs)

in_repository(w, file, module, glob) ==
    LET anchor == anchor_in(w, "", module, glob)
    IN /\ anchor # NoAnchor
       /\ \E f \in module_files(w, anchor.segments) :
            IF anchor.lib = "" THEN same_crate(w, file, f) ELSE library_owns(w, anchor.lib, f)

\* What the caller of `bind` looks for behind a path: `of` as its members
\* ("member"), the path itself ("self"), or as its item `name` ("item").
Wanted(how, name, of) == [how |-> how, name |-> name, of |-> of]

leads_to(w, path, wanted) ==
    \E e \in wanted.of :
        CASE wanted.how = "member" -> admits(w, path, e)
          [] wanted.how = "self" -> names(w, path, e)
          [] OTHER -> admits(w, item_of(w, path, wanted.name), e)

\* One glob that leads to a candidate binds the name; two of them decline.
through_globs(w, file, at, name, wanted) ==
    LET hit(g) == LET hint == Append(g, name)
                      path == imported(w, file, at.module, hint)
                  IN path # NoWritten /\ leads_to(w, path, wanted)
        hits == {g \in at.globs : hit(g)}
        glob == CHOOSE g \in hits : TRUE
        hint == Append(glob, name)
    IN CASE hits = {} -> IF ~w.known \/ \A g \in at.globs : in_repository(w, file, at.module, g)
                         THEN ByName ELSE Declined
         [] Cardinality(hits) = 1 ->
               ByPath(hint, imported(w, file, at.module, hint), may_be_this_crate(w, hint))
         [] OTHER -> Declined

bind(w, caller, name, wanted, modules) ==
    LET scope == caller_scope(w, caller)
        level == [module |-> scope_module_path(w, scope), scopes |-> {scope}]
        found == climb(w, caller.file, level, name, modules, TRUE)
    IN CASE \/ defined_in_scope(w, scope, name)
            \/ modules /\ defines_module(w, caller.file, level.module, name) -> ByName
         [] OTHER -> IF found.kind = "globs"
                     THEN through_globs(w, caller.file, found, name, wanted)
                     ELSE found

owner_path(w, file, anchor) ==
    IF anchor.segments = <<>> THEN exact(file, anchor) ELSE following(w, file, anchor)

\* What the qualifier of a path call may be: bound by a `use`, anchored, or a
\* path relative to the caller's module.
qualifier_rule(w, caller, qualifier, wanted) ==
    LET module == scope_module_path(w, caller_scope(w, caller))
        anchor == anchor_in(w, "", module, qualifier)
        bound == IF Len(qualifier) = 1 THEN bind(w, caller, qualifier[1], wanted, TRUE) ELSE ByName
        relative == CrateRoot(module \o qualifier)
    IN CASE qualifier = <<>> -> ByName
         [] qualifier # <<>> /\ qualifier[1] \in Anchored \cup w.crates ->
               IF anchor = NoAnchor THEN Declined
               ELSE ByPath(qualifier, owner_path(w, caller.file, anchor), FALSE)
         [] OTHER -> IF bound # ByName THEN bound
                     ELSE ByPath(qualifier, owner_path(w, caller.file, relative), TRUE)
=============================================================================
