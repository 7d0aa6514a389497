----------------------------- MODULE LineHistory -----------------------------
(***************************************************************************)
(* From diffs to symbols: detect_changes (git_diff) and the versions that  *)
(* index_history attaches to commits (history).                            *)
(*                                                                         *)
(* A line of a diff is [k, f, at, like]: its kind as git means it (git,    *)
(* old, oldnull, new, newnull, hunk, add, del, ctx, note), the file a      *)
(* header names, the first new line a hunk header names, and what the      *)
(* text of an added or deleted line looks like: plain, or a header because *)
(* it starts with ++ or -- (marks), or with `++ b/`, `-- a/` (path).  A    *)
(* note is any other line: index, mode, similarity, \ No newline.          *)
(*                                                                         *)
(* A path is the sequence of its names.  Git names files from the top of   *)
(* the work tree, the graph from the directory that was indexed.           *)
(*                                                                         *)
(* The graph maps a file to its symbols [id, label, start, end, via]:      *)
(* `via` tells how it hangs on the file, by a Defines_File relation, by a  *)
(* HasMethod relation of its type, or inside a module.                     *)
(***************************************************************************)
EXTENDS Naturals, Sequences, FiniteSets, SequencesExt, FiniteSetsExt

NoFile == <<>>

(***************************************************************************)
(* parse_unified_diff.                                                     *)
(***************************************************************************)
\* What the parser takes a line for: it looks at the first characters only.
Taken(l) ==
    CASE l.k \in {"add", "del"} /\ l.like = "marks" -> "other"
      [] l.k = "add" /\ l.like = "path" -> "new"
      [] l.k = "del" /\ l.like = "path" -> "old"
      [] l.k \in {"ctx", "note"} -> "other"
      [] OTHER -> l.k

FileHunk(s) == [file_path |-> s.file, changed_lines |-> s.lines, is_new |-> s.is_new, is_deleted |-> s.is_deleted]
Flushed(s) == IF s.file = NoFile THEN s.hunks ELSE Append(s.hunks, FileHunk(s))

\* A deleted line stands at the line that follows it in the new file.
parse_line(s, l, max) ==
    LET t == Taken(l)
        counted(u) == IF s.line >= max THEN [u EXCEPT !.failed = TRUE] ELSE [u EXCEPT !.line = @ + 1]
    IN CASE s.failed -> s
         [] ~s.failed /\ t = "git" ->
               [s EXCEPT !.hunks = Flushed(s), !.file = NoFile, !.is_new = FALSE, !.is_deleted = FALSE,
                         !.lines = IF s.file = NoFile THEN @ ELSE <<>>]
         [] ~s.failed /\ t = "old" -> [s EXCEPT !.file = IF @ = NoFile THEN l.f ELSE @]
         [] ~s.failed /\ t = "oldnull" -> [s EXCEPT !.is_new = TRUE]
         [] ~s.failed /\ t = "new" -> [s EXCEPT !.file = l.f]
         [] ~s.failed /\ t = "newnull" -> [s EXCEPT !.is_deleted = TRUE]
         [] ~s.failed /\ t = "hunk" -> [s EXCEPT !.line = l.at]
         [] ~s.failed /\ t = "add" -> counted([s EXCEPT !.lines = Append(@, s.line)])
         [] ~s.failed /\ t = "del" -> [s EXCEPT !.lines = Append(@, s.line)]
         [] OTHER -> counted(s)

\* max is DIFF_LINE_MAX: beyond it the whole diff is refused.
parse_unified_diff(diff, max) ==
    LET start == [hunks |-> <<>>, file |-> NoFile, lines |-> <<>>, line |-> 0,
                  is_new |-> FALSE, is_deleted |-> FALSE, failed |-> FALSE]
        end == FoldLeft(LAMBDA s, l : parse_line(s, l, max), start, diff)
    IN [ok |-> ~end.failed, hunks |-> Flushed(end)]

(***************************************************************************)
(* Lines to symbols.                                                       *)
(***************************************************************************)
Overlap_half_open(lines, sym) == Cardinality({i \in DOMAIN lines : lines[i] \in sym.start + 1 .. sym.end})

Overlap(lines, sym) == Cardinality({i \in DOMAIN lines : lines[i] \in sym.start .. sym.end})
Span(sym) == (IF sym.end >= sym.start THEN sym.end - sym.start ELSE 0) + 1

change_type(h) == CASE h.is_new -> "added" [] ~h.is_new /\ h.is_deleted -> "deleted" [] OTHER -> "modified"

Touched(h, syms) == {s \in syms : Overlap(h.changed_lines, s) > 0 \/ h.is_new \/ h.is_deleted}
LinesChanged(h, s) == IF h.is_new \/ h.is_deleted THEN Span(s) ELSE Overlap(h.changed_lines, s)

\* The labels are Function, Method, Struct, Enum and Trait; the relation asked
\* for is Defines_File, and a relation the schema does not have finds nothing.
SYMBOL_LABELS_WITH_LINES == {"Function", "Method", "Struct", "Enum", "Trait"}
map_lines_to_symbols(graph, h) ==
    LET syms == {s \in graph.of[h.file_path] : s.label \in SYMBOL_LABELS_WITH_LINES /\ s.via = "Defines_File"}
    IN IF h.file_path \notin DOMAIN graph.of THEN {}
       ELSE {[id |-> s.id, change_type |-> change_type(h), lines_changed |-> LinesChanged(h, s)] : s \in Touched(h, syms)}

\* The shares are in percent of the largest process list and of all communities.
compute_risk_score(graph, symbols) ==
    LET ids == {s.id : s \in symbols}
        procs(i) == Cardinality(graph.processes[i])
        most == Max({procs(i) : i \in ids} \cup {1})
        average == (100 * FoldSet(LAMBDA i, acc : acc + procs(i), 0, ids)) \div (most * Cardinality(ids))
        communities == UNION {graph.community[i] : i \in ids}
        spread == (100 * Cardinality(communities)) \div Max({graph.communities, 1})
    IN IF ids = {} THEN 0 ELSE Min({(6 * average + 4 * spread) \div 10, 100})

\* analyze_diff and build_analysis: the files in the order of the diff, looked
\* up by the path git gives them.
analyze_diff(graph, diff, max) ==
    LET parsed == parse_unified_diff(diff, max)
        symbols == UNION {map_lines_to_symbols(graph, parsed.hunks[i]) : i \in DOMAIN parsed.hunks}
    IN IF ~parsed.ok THEN [ok |-> FALSE]
       ELSE [ok |-> TRUE, files_changed |-> Len(parsed.hunks), symbols_affected |-> symbols,
             communities_affected |-> UNION {graph.community[s.id] : s \in symbols},
             processes_affected |-> UNION {graph.processes[s.id] : s \in symbols},
             risk_score |-> compute_risk_score(graph, symbols)]

(***************************************************************************)
(* Versions.  A commit is [sha, parents, diff].                            *)
(***************************************************************************)
\* Symbols the file defines and the methods of its types, in query order.
file_symbol_ranges(graph, file) ==
    {s \in graph.of[file] : \/ s.via = "Defines_File" /\ s.label \in SYMBOL_LABELS_WITH_LINES \ {"Method"}
                            \/ s.via = "HasMethod" /\ s.label = "Method"}

overlapping(graph, h) ==
    {[entity |-> s.id, label |-> s.label, change_type |-> change_type(h), lines_changed |-> LinesChanged(h, s)]
        : s \in Touched(h, file_symbol_ranges(graph, h.file_path))}

\* Where the indexed directory lies below the top of the work tree; the top
\* itself, and a directory that is not below it, give the empty path.
repo_root_prefix(at) ==
    IF IsPrefix(at.root, at.codebase) THEN SubSeq(at.codebase, Len(at.root) + 1, Len(at.codebase)) ELSE <<>>

\* The path in the graph of a path of git; none when it lies elsewhere.
strip_prefix(git_path, prefix) ==
    IF prefix = <<>> \/ IsStrictPrefix(prefix, git_path) THEN {SubSeq(git_path, Len(prefix) + 1, Len(git_path))} ELSE {}

\* The file itself, then its symbols; only files of the graph.
changed_entities(graph, prefix, hunks_of_commit) ==
    LET inside == SelectSeq(hunks_of_commit, LAMBDA h : strip_prefix(h.file_path, prefix) \cap DOMAIN graph.of # {})
        hunks == [i \in DOMAIN inside |->
                    [inside[i] EXCEPT !.file_path = CHOOSE f \in strip_prefix(@, prefix) : TRUE]]
        file(h) == [entity |-> h.file_path, label |-> "File", change_type |-> change_type(h),
                    lines_changed |-> Len(h.changed_lines)]
    IN UNION {{file(hunks[i])} \cup overlapping(graph, hunks[i]) : i \in DOMAIN hunks}

Version(e, sha) == [entity |-> e, sha |-> sha]

\* One commit: each changed entity gets a version, linked to its last one.  A
\* diff that is refused fails the whole call; a merge is not looked at.
Attach(graph, prefix, s, commit, max) ==
    LET parsed == parse_unified_diff(commit.diff, max)
        es == changed_entities(graph, prefix, parsed.hunks)
        ids == {e.entity : e \in es}
    IN IF ~s.ok \/ Cardinality(commit.parents) > 1 THEN s
       ELSE IF ~parsed.ok THEN [s EXCEPT !.ok = FALSE]
       ELSE [ok |-> TRUE,
             versions |-> s.versions \cup {[id |-> Version(e.entity, commit.sha), entity |-> e] : e \in es},
             changed_in |-> s.changed_in \cup {<<Version(i, commit.sha), commit.sha>> : i \in ids},
             version_of |-> s.version_of \cup {<<Version(i, commit.sha), i>> : i \in ids},
             prev_version |-> s.prev_version
                \cup {<<Version(i, commit.sha), s.last_version[i]>> : i \in ids \cap DOMAIN s.last_version},
             last_version |-> [i \in DOMAIN s.last_version \cup ids |->
                                IF i \in ids THEN Version(i, commit.sha) ELSE s.last_version[i]]]

NoVersions == [ok |-> TRUE, versions |-> {}, changed_in |-> {}, version_of |-> {}, prev_version |-> {}, last_version |-> [i \in {} |-> {}]]

\* git log lists the newest first; the versions are collected oldest first.
collect_versions(graph, prefix, commits, max) ==
    FoldLeft(LAMBDA s, c : Attach(graph, prefix, s, c, max), NoVersions, Reverse(commits))

\* The first parent, when the log reaches it.
persist_commit_lineage(commits) ==
    LET shas == {commits[i].sha : i \in DOMAIN commits}
    IN {<<commits[i].sha, commits[i].first>> : i \in {j \in DOMAIN commits : commits[j].first \in shas}}

\* The newest `limit` commits; they are written before a diff can be refused.
\* `at` tells the top of the work tree and the indexed directory.
index_history(graph, at, log, limit, max) ==
    LET commits == SubSeq(log, 1, Min({limit, Len(log)}))
        collected == collect_versions(graph, repo_root_prefix(at), commits, max)
    IN [ok |-> collected.ok, commits |-> {commits[i].sha : i \in DOMAIN commits},
        lineage |-> persist_commit_lineage(commits),
        collected |-> IF collected.ok THEN collected ELSE NoVersions]

(***************************************************************************)
(* What a diff says, by the meaning git gives its lines.                   *)
(***************************************************************************)
\* New-file line at which line i of the diff stands, counted from its header.
NewLineOf(diff, i) ==
    LET header == Max({j \in 1 .. i : diff[j].k = "hunk"})
    IN diff[header].at + Cardinality({j \in header .. i - 1 : diff[j].k \in {"add", "ctx"}})

FileOf(diff, i) ==
    LET from == Max({j \in 1 .. i : diff[j].k = "git"})
        names == {j \in from .. i : diff[j].k = "new"}
        olds == {j \in from .. i : diff[j].k = "old"}
    IN IF names # {} THEN diff[Max(names)].f ELSE diff[Max(olds)].f

Changes(diff, f) ==
    {NewLineOf(diff, i) : i \in {j \in DOMAIN diff : diff[j].k \in {"add", "del"} /\ FileOf(diff, j) = f}}

\* What happened to a file: changed in lines, new as a whole, or gone.
Whole(diff, f) ==
    \E i \in DOMAIN diff : diff[i].k \in {"oldnull", "newnull"} /\ \E j \in DOMAIN diff :
        /\ diff[j].k \in {"old", "new"} /\ diff[j].f = f
        /\ \A k \in DOMAIN diff : diff[k].k = "git" => (k <= i <=> k <= j)

TouchedBy(diff, f, sym) == Whole(diff, f) \/ \E l \in Changes(diff, f) : l \in sym.start .. sym.end

\* No text of the diff looks like a header, and no note stands within a hunk.
Unambiguous(diff) ==
    \A i \in DOMAIN diff : /\ diff[i].k \in {"add", "del"} => diff[i].like = "plain"
                           /\ diff[i].k = "note" => \A j \in i .. Len(diff) :
                                diff[j].k \in {"add", "del", "ctx"} => \E h \in i .. j : diff[h].k = "hunk"

\* detect_changes names only symbols of the graph that the diff touches, and it
\* names every one of those that hang on a file by Defines_File, as long as the
\* lines of the diff are what they look like and git's paths are the graph's.
NamesTouched(graph, diff, max) ==
    LET ids == {s.id : s \in analyze_diff(graph, diff, max).symbols_affected}
        touched(f) == {s \in graph.of[f] : s.label \in SYMBOL_LABELS_WITH_LINES /\ TouchedBy(diff, f, s)}
        named(ss) == {s.id : s \in ss}
    IN Unambiguous(diff) =>
        /\ ids \subseteq UNION {named(touched(f)) : f \in DOMAIN graph.of}
        /\ UNION {named({s \in touched(f) : s.via = "Defines_File"}) : f \in DOMAIN graph.of} \subseteq ids

\* Every touched symbol the labels list is named, however it hangs on the file.
NamesAllTouched(graph, diff, max) ==
    \A f \in DOMAIN graph.of : \A s \in graph.of[f] :
        s.label \in SYMBOL_LABELS_WITH_LINES /\ TouchedBy(diff, f, s)
            => s.id \in {t.id : t \in analyze_diff(graph, diff, max).symbols_affected}

\* What git calls a file of the graph: the rest of its full path below the top.
GitPath(at, f) == LET full == at.codebase \o f IN SubSeq(full, Len(at.root) + 1, Len(full))

\* A symbol has a version in each commit but merges that touches it, and its
\* versions are linked from the newest to the oldest; a file of the same name
\* outside the indexed directory gives it none.
VersionsChain(graph, at, log, limit, max) ==
    LET history == index_history(graph, at, log, limit, max)
        of(f, s) == SelectSeq(SubSeq(log, 1, Min({limit, Len(log)})),
                              LAMBDA c : Cardinality(c.parents) <= 1 /\ TouchedBy(c.diff, GitPath(at, f), s))
        links(f, s) == {<<Version(s.id, of(f, s)[i].sha), Version(s.id, of(f, s)[i + 1].sha)>> : i \in 1 .. Len(of(f, s)) - 1}
        listed(f) == file_symbol_ranges(graph, f)
        symbols == UNION {listed(f) : f \in DOMAIN graph.of}
    IN history.ok =>
        /\ {p \in history.collected.prev_version : p[1].entity \in {s.id : s \in symbols}}
            = UNION {UNION {links(f, s) : s \in listed(f)} : f \in DOMAIN graph.of}
        /\ \A f \in DOMAIN graph.of, s \in symbols : s \in listed(f) =>
            {p[2] : p \in {q \in history.collected.changed_in : q[1].entity = s.id}} = {c.sha : c \in Range(of(f, s))}
=============================================================================
