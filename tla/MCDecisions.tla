---------------------------- MODULE MCDecisions ----------------------------
(***************************************************************************)
(* Asks the pure decisions of the indexer and the resolver about small     *)
(* workspaces and graphs: which files a build compiles and which cfg twin  *)
(* a call is pinned to (CfgScope), which symbol a call names               *)
(* (CallResolution), and what a macro calls (MacroPass).                   *)
(***************************************************************************)
EXTENDS Naturals, FiniteSets, Sequences, SequencesExt, TLC

VARIABLES question, settled

Cfg == INSTANCE CfgScope
Calls == INSTANCE CallResolution
Macros == INSTANCE MacroPass

(***************************************************************************)
(* Workspaces: a library and a binary or an example, module x in a file of *)
(* its own, placed by #[path], declared twice, or behind a gate.           *)
(***************************************************************************)
F == Cfg!Feature("f")
Unix == Cfg!Option("unix")
Kani == Cfg!Option("kani")
GateSets == {{}, {F}, {Cfg!Not(F)}, {Unix}, {Kani}, {Cfg!Option("test")}, {Cfg!AnyOf({F, Unix})}, {Cfg!Unparsed}}
lib == <<"src", "lib">>
main == <<"src", "main">>
X == <<"src", "x">>
Z == <<"gen", "z">>
XC == <<"src", "x", "c">>
toZ == <<"..", "gen", "z">>

Text(p) == IF p = Cfg!Unparsed THEN <<"(", "version", "(", "x", "=", ")", ")">>
           ELSE <<"(">> \o Cfg!compact(p) \o <<")">>
Attr(k, t, p) == [kind |-> k, text |-> t, path |-> p, nested |-> FALSE]
Decl(n, p, g, alts) ==
    [name |-> n,
     attributes |-> SetToSeq({Attr("cfg", Text(q), <<>>) : q \in g})
                    \o (IF p = Cfg!NoPath THEN <<>> ELSE <<Attr("path", <<>>, p)>>)
                    \o [i \in 1 .. Len(alts) |-> Attr("cfg_attr", Text(alts[i].pred), alts[i].path)]]
Plain == {Decl("x", Cfg!NoPath, g, <<>>) : g \in GateSets}
Alternative == {Decl("x", Cfg!NoPath, {}, <<[pred |-> p, path |-> toZ]>>) : p \in {F, Unix}}
Few == {Decl("x", Cfg!NoPath, g, <<>>) : g \in {{F}, {Unix}, {Kani}, {}}}
Placed == {Decl("x", toZ, g, <<>>) : g \in {{Cfg!Not(F)}, {Cfg!Not(Unix)}, {F, Unix}}}
Other == {Decl("y", toZ, g, <<>>) : g \in {{}, {F}, {Cfg!Option("test")}}}
InLib == {<<d>> : d \in Plain \cup Alternative}
         \cup {<<d, e>> : d \in Few, e \in Placed \cup Other \cup {Decl("x", Cfg!NoPath, {Cfg!Not(F)}, <<>>)}}
InMain == {<<>>} \cup {<<d>> : d \in Few \cup Other}
Tables == {[default |-> {[kind |-> k, name |-> "f"]}, f |-> {}] : k \in {"name", "weak"}}
Target(p, k) == [src_path |-> p, kinds |-> k, inside |-> TRUE]
Pkgs == {{[features |-> t, targets |-> {Target(lib, {"lib"}), Target(main, {k})}]}
            : t \in Tables, k \in {"bin", "example"}}
        \cup {{[features |-> t, targets |-> {Target(lib, {"lib"})}],
               [features |-> u, targets |-> {Target(main, {"bin"})}]} : t \in Tables, u \in Tables}
Workspaces ==
    {[packages |-> p,
      decls |-> [f \in {lib, main, X, Z, XC} |->
                    CASE f = lib -> l
                      [] f = main -> m
                      [] f = X -> <<Decl("c", Cfg!NoPath, {}, <<>>)>>
                      [] OTHER -> <<>>]]
        : p \in Pkgs, l \in InLib, m \in InMain}
Item(f, g, s) == [file |-> f, gates |-> g, spelled |-> s]
Callers == {Item(f, g, s) : f \in {lib, X, Z}, g \in {{}, {F}, {Cfg!Not(F)}}, s \in BOOLEAN}
           \ {Item(f, {}, TRUE) : f \in {lib, X, Z}}
Pairs == {{Item(f, {F}, TRUE), Item(f, {Cfg!Not(F)}, TRUE)} : f \in {X, Z}}
         \cup {{Item(lib, {F}, TRUE), Item(lib, {Unix}, TRUE)}}
         \cup {{Item(X, {}, FALSE), Item(Z, {}, FALSE)}}

Carried == (GateSets \ {{Cfg!Unparsed}})
           \cup {{F, Unix}, {Cfg!AllOf({F, Cfg!Not(Unix)}), Cfg!AnyOf({F})}}

(***************************************************************************)
(* Graphs: C files with one function each, C++ classes, Rust modules.      *)
(***************************************************************************)
File(d, n) == [dir |-> d, name |-> n]
Qn(f, p) == [file |-> f, path |-> p]
Entry(id, f, p, l) == [id |-> id, qn |-> Qn(f, p), label |-> l, name |-> Last(p), seq |-> FALSE]
Empty == [f \in {} |-> {}]
Graph == [entries |-> {}, known |-> FALSE, crates |-> {}, targets |-> Empty, owners |-> Empty,
          outside |-> {}, logical |-> Empty, rows |-> {}, modules |-> {}, imports |-> Empty,
          includes |-> Empty, internal |-> {}, prototypes |-> {}, files |-> {}, classes |-> {},
          aliases |-> {}, returns |-> {}, variants |-> {}, upper |-> {}, selected |-> {}, twins |-> {},
          tails |-> {<<".c", "c">>, <<".h", "h">>, <<"inc", "c">>, <<"src", "c">>, <<"lib", "b">>, <<"self", "f">>},
          heads |-> {<<"crate", "c">>}]
Site(l, c, k, segs) ==
    [language |-> l, caller |-> c, callee |-> [kind |-> k, segs |-> segs], hint |-> <<>>,
     via |-> "", arg |-> <<>>, shape |-> "direct"]

A == File(<<"src">>, <<"a", ".c">>)
ACPP == File(<<"src">>, <<"a", ".c", "pp">>)
B == File(<<"src">>, <<"b", ".c">>)
H == File(<<"inc">>, <<"h", ".h">>)
CFiles == {A, B, H, ACPP}
Id(f) == Calls!Text(Qn(f, <<"f">>))
toH == {File(<<"..", "inc">>, H.name), File(<<>>, H.name)}
toB == {File(<<"..", "src">>, B.name)}
OfKind(k, v) == {f \in CFiles : k[f] = v}
CGraphs ==
    {[Graph EXCEPT !.files = CFiles,
        !.entries = {Entry(Id(f), f, <<"f">>, "Function") : f \in CFiles \ OfKind(k, "none")},
        !.internal = {Id(f) : f \in OfKind(k, "internal")},
        !.prototypes = {Id(f) : f \in OfKind(k, "prototype")},
        !.imports = [f \in CFiles |-> <<>>],
        !.includes = [f \in CFiles |-> CASE f = A -> a [] f = H -> h [] OTHER -> {}]]
        : k \in [CFiles -> {"none", "internal", "external", "prototype"}],
          a \in {{}} \cup {{x} : x \in toH} \cup {toB, toB \cup toH},
          h \in {{}, toB}}
CSite == Site("c", Qn(A, <<"main">>), "bare", <<"f">>)

Class(p, b) == [path |-> p, bases |-> b]
Alias(p, f, t) == [path |-> p, file |-> f, target |-> t]
CppGraphs ==
    {[Graph EXCEPT !.files = {ACPP, H}, !.imports = [f \in {ACPP, H} |-> <<>>],
        !.classes = cs, !.aliases = as,
        !.entries = {Entry(e.id, e.qn.file, e.qn.path, e.label) : e \in es}
                    \cup {Entry("main", ACPP, <<"P", "main">>, "Method")}]
        : cs \in {{Class(<<"P">>, p), Class(<<"Q">>, q), Class(<<"n", "R">>, r)}
                    : p \in {{}, {<<"Q">>}, {<<"T">>}, {<<"R">>}}, q \in {{}, {<<"n", "R">>}, {<<"P">>}}, r \in {{}, {<<"Q">>}}},
          as \in SUBSET {Alias(<<"T">>, H, <<"Q">>), Alias(<<"T">>, ACPP, <<"R">>)},
          es \in {x \in SUBSET {Entry("pf", H, <<"P", "f">>, "Method"), Entry("qf", H, <<"Q", "f">>, "Method"),
                                Entry("rf", H, <<"n", "R", "f">>, "Method"), Entry("f", H, <<"f">>, "Function")}
                    : Cardinality(x) \in 1 .. 2}}
CppSites == {[Site("cpp", Qn(ACPP, <<"P", "main">>), "bare", <<"f">>) EXCEPT !.shape = "member", !.via = v, !.hint = h]
                : v \in {"cpp_this", "cpp_declared"}, h \in {<<"P">>, <<"Q">>, <<"T">>}}

Lib == File(<<"src">>, <<"lib">>)
Main == File(<<"src">>, <<"main">>)
Ra == File(<<"src">>, <<"a">>)
Rb == File(<<"src">>, <<"b">>)
RFiles == {Lib, Main, Ra, Rb}
Row(s, p, al, g) == [scope |-> Qn(s, <<>>), path |-> p, alias |-> al, is_glob |-> g]
Rows == {Row(Lib, <<"a">>, "", TRUE), Row(Lib, <<"b", "f">>, "", FALSE), Row(Rb, <<"super">>, "", TRUE),
         Row(Rb, <<"crate", "a">>, "c", FALSE), Row(Rb, <<"crate", "a", "T">>, "", FALSE),
         Row(Ra, <<"super", "b">>, "", TRUE), Row(Main, <<"k", "a">>, "", FALSE), Row(Main, <<"k">>, "", TRUE)}
Items == {Entry("af", Ra, <<"f">>, "Function"), Entry("bf", Rb, <<"f">>, "Function"),
          Entry("lf", Lib, <<"f">>, "Function"), Entry("aT", Ra, <<"T">>, "Struct"),
          Entry("bT", Rb, <<"T">>, "Struct"), Entry("aTf", Ra, <<"T", "f">>, "Method"),
          Entry("bTf", Rb, <<"T", "f">>, "Method")}
RGraphs ==
    {[Graph EXCEPT !.files = RFiles, !.known = TRUE, !.crates = {"k"},
        !.entries = es \cup {Entry("lg", Lib, <<"g">>, "Function"), Entry("bg", Rb, <<"g">>, "Function"),
                            Entry("mg", Main, <<"g">>, "Function")},
        !.targets = (Lib :> "k") @@ (Main :> Calls!NoLib),
        !.owners = (Lib :> {Lib}) @@ (Main :> {Main}) @@ (Ra :> {Lib}) @@ (Rb :> {Lib}),
        !.rows = rs, !.modules = {Qn(f, <<>>) : f \in RFiles},
        !.imports = [f \in RFiles |-> <<>>], !.upper = {"T"}]
        : es \in {x \in SUBSET Items : Cardinality(x) \in 1 .. 3},
          rs \in {x \in SUBSET Rows : Cardinality(x) <= 2}}
Paths == {<<"crate", "a", "f">>, <<"a", "f">>, <<"super", "f">>, <<"k", "a", "f">>, <<"T", "f">>,
          <<"c", "f">>, <<"crate", "f">>, <<"self", "f">>, <<"a", "T", "f">>}
RSites == {Site("rust", Qn(f, <<"g">>), "path", p) : f \in {Lib, Rb, Main}, p \in Paths}
HSites == {[Site("rust", Qn(f, <<"g">>), "local", <<"v", "f">>) EXCEPT !.hint = h]
            : f \in {Lib, Rb, Main}, h \in {<<"T">>, <<"crate", "a", "T">>, <<"k", "a", "T">>}}

(***************************************************************************)
(* Macro sites of one file: a `write!` in a scope with its own imports and *)
(* another scope with some, and one site of every other kind.              *)
(***************************************************************************)
Uses == {Macros!Import(<<"std", "fs", "File">>, "", FALSE), Macros!Import(<<"tokio", "fs", "File">>, "", FALSE),
         Macros!Import(<<"std", "fs", "File">>, "W", FALSE), Macros!Import(<<"core", "fmt", "Formatter">>, "W", FALSE),
         Macros!Import(<<"std", "fmt">>, "", FALSE), Macros!Import(<<"other", "fmt">>, "", FALSE),
         Macros!Import(<<"mylib", "Vec">>, "", FALSE), Macros!Import(<<"some", "io">>, "", TRUE)}
Scopes == {<<>>} \cup {<<u>> : u \in Uses} \cup {p \in {<<u, v>> : u, v \in Uses} : p[1].name # p[2].name}
Bound(scope, name) == \E i \in DOMAIN scope : scope[i].name = name
Hints == {<<>>, <<"File">>, <<"W">>, <<"Vec">>, <<"String">>, <<"Foo">>, <<"fmt", "Formatter">>, <<"std", "fs", "File">>,
          <<"tokio", "fs", "File">>}
\* The scope of the site can name the type.
Nameable(hint, own, other) == hint = <<>> \/ (Bound(other, Head(hint)) => Bound(own, Head(hint)) \/ Head(hint) = "Vec")
MSite(id, name, hint, shape, label) == [id |-> id, name |-> name, hint |-> hint, shape |-> shape, label |-> label]
MSites(hint) ==
    {MSite(1, "write", hint, "", "Function"), MSite(2, "println", <<>>, "", "Method"), MSite(3, "vec", <<>>, "empty", "Function"),
     MSite(4, "vec", <<>>, "list", "Function"), MSite(5, "panic", <<>>, "", "Method"), MSite(6, "matches", <<>>, "", "Struct"),
     MSite(7, "thread_local", <<>>, "", "Function"), MSite(8, "derive_Debug", <<>>, "", "Function"),
     MSite(9, "format", <<>>, "", "Struct"), MSite(10, "writeln", <<"std", "string", "String">>, "", "Function")}
MFile(imports, defined, outside) == [imports |-> imports, defined |-> defined, outside |-> outside]
MFiles ==
    UNION {{<<MFile(IF o THEN own \o other ELSE other \o own, d, own = <<>>), own>>
            : other \in {<<>>} \cup {<<u>> : u \in Uses}, o \in BOOLEAN, d \in {{}, {"File"}, {"Vec", "W"}}} : own \in Scopes}
Written == [rows |-> {[from |-> <<0, "site">>, to |-> "std::fs::File::open", method |-> "lsp-definition"]}, resolved |-> {0},
            reasons |-> {<<3, "macro_site">>, <<11, "not_found">>}, symbols |-> {"std::fs::File::open", "core::panicking::panic"}]
Older == MFile(<<Macros!Import(<<"std", "fs", "File">>, "", FALSE)>>, {}, FALSE)

(***************************************************************************)
(* A behaviour puts one question and settles it. The decisions are pure, so *)
(* a property says of the settling step what the code decides there.       *)
(***************************************************************************)
Ask(kind, inputs) == [kind |-> kind, of |-> inputs]

Init ==
    /\ settled = FALSE
    /\ \/ \E g \in CGraphs : question = Ask("c", g)
       \/ \E g \in CppGraphs : question = Ask("cpp", g)
       \/ \E g \in RGraphs : question = Ask("rust", g)
       \/ \E g \in Carried \X Carried : question = Ask("gates", g)
       \/ \E m \in MFiles : question = Ask("macros", m)
       \/ \E w \in Workspaces : question = Ask("workspace", w)

vars == <<question, settled>>

\* The twin of a cfg-split item that a call is pinned to, or a language-server
\* row is dropped for, agrees with every build that compiles the caller
\* (resolver/cfg_verdict.rs, resolver/cfg_select.rs, graph_store/cfg_active.rs);
\* the gates of a twin survive the id that carries them (parser/cfg_expr.rs).
TwinIsCompiled ==
    [][/\ question.kind = "workspace" /\ Cfg!DeclaredOnce(question.of) =>
            LET builds == Cfg!BuildsOf(question.of)
                facts == Cfg!attribute(question.of, "ok")
            IN \A c \in Callers, t \in Pairs : Cfg!TwinIsCompiledIn(facts, builds, c, t)
       /\ question.kind = "gates" => Cfg!GatesSurvive(question.of[1], question.of[2])]_vars

\* What a build compiles is neither `outside` nor `feature gated`, and is owned
\* by the target that compiles it (indexer/cargo_targets.rs,
\* indexer/feature_gated.rs, indexer/cargo_attribution.rs).
FlagsAreSound ==
    [][question.kind = "workspace" =>
        Cfg!FlagsAreSoundIn(question.of, Cfg!attribute(question.of, "ok"))]_vars

\* A file called inactive is compiled by no default build (indexer/file_scope.rs).
InactiveIsOff ==
    [][question.kind = "workspace" =>
        Cfg!InactiveIsOffIn(question.of, Cfg!attribute(question.of, "ok"))]_vars

\* A C or C++ call that gets an edge names a definition the language could
\* give it: one its translation unit links to, a method of the receiver's
\* class or of one it inherits from (calls/declarations.rs, calls/includes.rs,
\* calls/member_calls.rs).  Premise: the files give a name one definition per
\* translation unit, as C asks.  Excepted: an edge recorded as same-file-unique
\* to a file whose path starts with the caller's, a.cpp for a.c
\* (ambiguity_policy.rs:194), which may miss what the call links to.
CallsLink ==
    [][/\ question.kind = "c" /\ Calls!LegalC(question.of, "f")
            => Calls!CCallsLinkIn(question.of, CSite)
       /\ question.kind = "cpp" => \A s \in CppSites : Calls!CppReceiverIn(question.of, s)]_vars

\* An edge recorded as same-file-unique joins two symbols of one file
\* (ambiguity_policy.rs).
SameFileEdges == [][question.kind = "c" => Calls!SameFileIn(question.of, CSite)]_vars

\* A Rust call settled by a written path names an item that path may mean in
\* the caller (calls/candidate_scope.rs, calls/gates.rs, receiver/*).
PathsNameTargets ==
    [][question.kind = "rust" /\ Calls!LegalRust(question.of) =>
        /\ \A s \in RSites : Calls!PathNamesTargetIn(question.of, s)
        /\ \A s \in HSites : Calls!HintNamesTargetIn(question.of, s)]_vars

\* A macro site gets the function its expansion calls or a reason, every
\* reference is counted once, and a run over an older one's rows leaves what a
\* first run would (resolver_layers.rs, macro_expansion/dispatch.rs,
\* graph_store/macro_reset.rs).
MacroTargetsAreCalled ==
    [][question.kind = "macros" =>
        LET file == question.of[1] own == question.of[2]
            other == SelectSeq(file.imports, LAMBDA u : ~\E i \in DOMAIN own : own[i] = u)
        IN \A hint \in Hints : Macros!ScopesAgree(file) /\ Nameable(hint, own, other) =>
               Macros!TargetsAreCalledIn(file, Older, MSites(hint), own, Written)]_vars
=============================================================================
