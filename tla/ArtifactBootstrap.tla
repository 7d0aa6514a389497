-------------------------- MODULE ArtifactBootstrap --------------------------
(***************************************************************************)
(* The graph a team shares.  index_codebase can export the graph it built  *)
(* into the repository (an archive and a sidecar that names a commit), and *)
(* a teammate without a graph can bootstrap from it: import the archive    *)
(* and, when the sidecar's commit is not HEAD, fill the graph up to the    *)
(* working tree along what git says has changed since.                     *)
(*                                                                         *)
(* What happens inside a refresh or a full index is in IndexPipeline and   *)
(* IncrementalEdges; here each is one step.  The user edits between calls. *)
(***************************************************************************)
EXTENDS Naturals, Sequences, FiniteSets

CONSTANTS Inside,        \* paths of the indexed directory
          Outside,       \* paths of the repository outside it
          Contents, Gone,
          MaxEdits, MaxCommits, MaxCalls, MaxFaults    \* bounds

ASSUME BootstrapAssumption ==
    /\ Gone \notin Contents
    /\ Inside \cap Outside = {}
    /\ {MaxEdits, MaxCalls, MaxFaults} \subseteq Nat /\ MaxCommits \in Nat \ {0}

VARIABLES tree,       \* path -> content, the working tree
          tracked,    \* the paths in git's index
          commits,    \* what each commit has: files and artifact
          git,        \* "full" or "shallow" clone, "none": no git at all
          artifact,   \* the artifact directory of the working tree
          graph, manifest,
          call,
          edits, calls, faults,
          trusted     \* history: see CaughtUp

local == <<graph, manifest>>
repository == <<tree, tracked, commits, git, artifact>>
counters == <<edits, calls, faults>>
vars == <<repository, local, call, counters, trusted>>

Paths == Inside \cup Outside
MaybeContent == Contents \cup {Gone}
Nothing == [p \in Inside |-> Gone]
HEAD == Len(commits)
Indexed == [p \in Inside |-> tree[p]]          \* what a full index has

NoGraph == [exists |-> FALSE, marker |-> FALSE, node |-> Nothing]
NoManifest == [saved |-> FALSE, hash |-> Nothing]
\* The archive and the sidecar are two files; commit 0 is no sidecar.  trusted is the
\* history of the graph that was exported.
NoArtifact == [archive |-> FALSE, graph |-> NoGraph, manifest |-> NoManifest, commit |-> 0, schema |-> 1,
               trusted |-> TRUE]
SCHEMA_VERSION == 1

NoChanges == [changed |-> {}, added |-> {}, deleted |-> {}, renamed |-> {}]
NoCall == [step |-> "idle", full |-> FALSE, export |-> FALSE, fill |-> FALSE,
           method |-> "", changes |-> NoChanges, sound |-> FALSE, whole |-> TRUE]
Idle == call.step = "idle"
Goto(step) == call' = [call EXCEPT !.step = step]
Reindex == call' = [NoCall EXCEPT !.step = "incremental", !.full = call.full, !.export = call.export,
                                  !.method = call.method]

-----------------------------------------------------------------------------
(* The user, and the team.                                                 *)

edit(p, c) ==
    /\ Idle /\ edits < MaxEdits
    /\ tree[p] # c
    /\ tree' = [tree EXCEPT ![p] = c]
    /\ edits' = edits + 1
    /\ UNCHANGED <<tracked, commits, git, artifact, local, call, calls, faults, trusted>>

\* A move keeps the content: git reports it as a rename.
move(p, q) ==
    /\ Idle /\ edits < MaxEdits
    /\ tree[p] # Gone /\ tree[q] = Gone
    /\ tree' = [tree EXCEPT ![p] = Gone, ![q] = tree[p]]
    /\ edits' = edits + 1
    /\ UNCHANGED <<tracked, commits, git, artifact, local, call, calls, faults, trusted>>

\* git add of `ps` and git commit -a.
commit(ps) ==
    LET files == [p \in Paths |-> IF p \in tracked \cup ps THEN tree[p] ELSE Gone]
    IN /\ Idle /\ git # "none" /\ HEAD < MaxCommits
       /\ commits' = Append(commits, [files |-> files, artifact |-> artifact])
       /\ tracked' = {p \in Paths : files[p] # Gone}
       /\ UNCHANGED <<tree, git, artifact, local, call, counters, trusted>>

\* Another machine: a checkout of HEAD, here one with an artifact, and an empty
\* output directory.
clone(kind) ==
    /\ Idle /\ commits[HEAD].artifact.archive
    /\ git' = kind
    /\ tree' = commits[HEAD].files
    /\ tracked' = {p \in Paths : commits[HEAD].files[p] # Gone}
    /\ artifact' = commits[HEAD].artifact
    /\ graph' = NoGraph /\ manifest' = NoManifest
    /\ trusted' = TRUE
    /\ UNCHANGED <<commits, call, counters>>

remove_graph ==
    /\ Idle /\ graph.exists /\ edits < MaxEdits
    /\ graph' = NoGraph
    /\ edits' = edits + 1
    /\ UNCHANGED <<repository, manifest, call, calls, faults, trusted>>

\* An artifact another version of the tool wrote: a newer sidecar, a graph without the
\* columns this one needs, or an archive without a manifest.
other_version(kind) ==
    /\ Idle /\ faults < MaxFaults
    /\ artifact.archive
    /\ artifact' = CASE kind = "newer" -> [artifact EXCEPT !.schema = SCHEMA_VERSION + 1]
                     [] kind = "older" -> [artifact EXCEPT !.graph.marker = FALSE]
                     [] kind = "bare" -> [artifact EXCEPT !.manifest = NoManifest]
    /\ faults' = faults + 1
    /\ UNCHANGED <<tree, tracked, commits, git, local, call, edits, calls, trusted>>

-----------------------------------------------------------------------------
(* attempt_bootstrap.                                                      *)

artifact_exists == artifact.archive /\ artifact.commit # 0 /\ artifact.schema <= SCHEMA_VERSION

\* Outside a git working tree nothing is stale.
artifact_staleness == git # "none" /\ artifact.commit # HEAD

\* The archive is the graph of the commit the sidecar names, with the manifest
\* of that graph: the precondition of fill_after_bootstrap.
AsOfCommit ==
    /\ artifact.graph.node = [p \in Inside |-> commits[artifact.commit].files[p]]
    /\ artifact.manifest = [saved |-> TRUE, hash |-> artifact.graph.node]

do_index_codebase(want_bootstrap, accept_stale, want_full, want_export) ==
    LET boot == want_bootstrap /\ ~graph.exists /\ artifact_exists
    IN /\ Idle /\ calls < MaxCalls
       /\ calls' = calls + 1
       /\ call' = [NoCall EXCEPT
            !.step = IF boot THEN "unpack" ELSE "incremental",
            !.full = want_full, !.export = want_export,
            !.fill = boot /\ artifact_staleness /\ ~accept_stale, !.sound = boot /\ AsOfCommit]
       /\ UNCHANGED <<repository, local, edits, faults, trusted>>

\* The archive has the graph first; the sidecar files it bundles are unpacked
\* over the ones of the output directory.
unpack_graph ==
    /\ call.step = "unpack"
    /\ graph' = artifact.graph
    /\ trusted' = ~manifest.saved
    /\ Goto("unpack_sidecars")
    /\ UNCHANGED <<repository, manifest, counters>>

unpack_sidecars ==
    /\ call.step = "unpack_sidecars"
    /\ IF artifact.manifest.saved
       THEN manifest' = artifact.manifest /\ trusted' = artifact.trusted
       ELSE UNCHANGED <<manifest, trusted>>
    /\ Goto("open")
    /\ UNCHANGED <<repository, graph, counters>>

\* The unpack fails: the graph is removed, unless it is a plain file, which
\* remove_dir_all leaves.
import_failed(removed) ==
    /\ call.step \in {"unpack", "unpack_sidecars"}
    /\ faults < MaxFaults
    /\ faults' = faults + 1
    /\ graph' = IF removed THEN NoGraph ELSE graph
    /\ Reindex
    /\ UNCHANGED <<repository, manifest, edits, calls, trusted>>

\* An archive can be readable while its graph lacks what this version needs.
import_compatible_artifact ==
    /\ call.step = "open"
    /\ IF graph.marker THEN Goto(IF call.fill THEN "fill" ELSE "meta") ELSE Reindex
    /\ UNCHANGED <<repository, local, counters, trusted>>

-----------------------------------------------------------------------------
(* fill_after_bootstrap.                                                   *)

current == {p \in Inside : tree[p] # Gone}
Under(p) == p \in Inside                       \* strip_prefix_path finds the prefix

\* git diff --name-status -M <commit>: what the commit has against the tracked
\* files of the working tree; `ren` pairs the renames git detects.
Old(p) == commits[artifact.commit].files[p]
New(p) == IF p \in tracked THEN tree[p] ELSE Gone
Lost == {p \in Paths : Old(p) # Gone /\ New(p) = Gone}
Fresh == {p \in Paths : Old(p) = Gone /\ New(p) # Gone}
Renames ==
    LET pairs == {x \in Lost \X Fresh : Old(x[1]) = New(x[2])}
        matching(m) == \A x, y \in m : x # y => x[1] # y[1] /\ x[2] # y[2]
    IN {m \in SUBSET pairs : matching(m) /\ ~\E x \in pairs \ m : matching(m \cup {x})}
Line(code, old, new) == [code |-> code, old |-> old, new |-> new]
diff_lines(ren) ==
    {Line("R", x[1], x[2]) : x \in ren}
    \cup {Line("D", p, p) : p \in Lost \ {x[1] : x \in ren}}
    \cup {Line("A", p, p) : p \in Fresh \ {x[2] : x \in ren}}
    \cup {Line("M", p, p) : p \in {q \in Paths : Old(q) # Gone /\ New(q) # Gone /\ Old(q) # New(q)}}

\* Mutant: a rename is only an addition.
parse_diff_lines_kept(lines) ==
    [NoChanges EXCEPT !.deleted = {l.old : l \in {k \in lines : k.code = "D" /\ Under(k.old)}},
                      !.changed = {l.new : l \in {k \in lines : k.code = "M" /\ k.new \in current}},
                      !.added = {l.new : l \in {k \in lines : k.code \in {"A", "R"} /\ k.new \in current}}]

parse_diff_lines(lines) ==
    LET renames == {l \in lines : l.code = "R" /\ Under(l.new)}
        moved == {l \in renames : l.new \in current}
    IN [renamed |-> {<<l.old, l.new>> : l \in {k \in moved : Under(k.old)}},
        deleted |-> {l.old : l \in {k \in lines : k.code = "D" /\ Under(k.old)}}
                    \cup {l.old : l \in {k \in renames \ moved : Under(k.old)}},
        changed |-> {l.new : l \in {k \in lines : k.code = "M" /\ k.new \in current}},
        added |-> {l.new : l \in {k \in lines : k.code = "A" /\ k.new \in current}}
                  \cup {l.new : l \in {k \in moved : ~Under(k.old)}}]

\* git ls-files --others prints paths relative to the indexed directory, and
\* the prefix of that directory is then looked for in them: without a prefix
\* they are the untracked files, with one they are none.
untracked == IF Outside = {} THEN current \ tracked ELSE {}
collect_untracked_adds(cs) ==
    [cs EXCEPT !.added = @ \cup (untracked \ (cs.added \cup cs.changed))]

\* None without git, without a commit in the sidecar, or when the clone does
\* not have that commit.
git_knows == git = "full" \/ (git = "shallow" /\ artifact.commit = HEAD)
git_changes(lines) == collect_untracked_adds(parse_diff_lines(lines))
\* What the postcondition has to do without: a file renamed out of the indexed
\* directory, and an untracked file that is not seen.
Whole(lines) ==
    /\ \A l \in lines : l.code = "R" /\ Under(l.old) => Under(l.new)
    /\ current \ tracked \subseteq untracked

\* A deleted and an added file of the same content are paired as a rename in the code:
\* what is purged and what is parsed is the same.
classify ==
    [renamed |-> {},
     changed |-> {p \in current : manifest.hash[p] \notin {Gone, tree[p]}},
     added |-> {p \in current : manifest.hash[p] = Gone},
     deleted |-> {p \in Inside \ current : manifest.hash[p] # Gone}]

\* Mutant: the manifest of the working tree is saved before the changes are applied.
fill_after_bootstrap_saved ==
    /\ call.step = "fill" /\ git_knows
    /\ \E ren \in Renames :
          call' = [call EXCEPT !.step = "purge", !.method = "git_diff",
                               !.changes = git_changes(diff_lines(ren)), !.whole = Whole(diff_lines(ren))]
    /\ manifest' = [saved |-> TRUE, hash |-> Indexed]
    /\ UNCHANGED <<repository, graph, counters, trusted>>

fill_after_bootstrap ==
    /\ call.step = "fill"
    /\ IF git_knows
       THEN \E ren \in Renames :
              call' = [call EXCEPT !.step = "purge", !.method = "git_diff",
                                   !.changes = git_changes(diff_lines(ren)), !.whole = Whole(diff_lines(ren))]
       ELSE IF manifest.saved
       THEN call' = [call EXCEPT !.step = "purge", !.method = "content_hash", !.changes = classify]
       ELSE Reindex
    /\ UNCHANGED <<repository, local, counters, trusted>>

\* collect_tracked_changes: a diff that fails is an empty one.
diff_failed ==
    /\ call.step = "fill" /\ git_knows
    /\ faults < MaxFaults
    /\ faults' = faults + 1
    /\ call' = [call EXCEPT !.step = "purge", !.method = "git_diff",
                            !.changes = git_changes({}), !.whole = FALSE]
    /\ UNCHANGED <<repository, local, edits, calls, trusted>>

\* apply_changes: purge, then parse.  A new file that already has a node
\* violates the primary key.
Purged(node, cs) ==
    [p \in Inside |-> IF p \in cs.changed \cup cs.deleted \cup {x[1] : x \in cs.renamed}
                      THEN Gone ELSE node[p]]
NewFiles(cs) == cs.added \cup {x[2] : x \in cs.renamed}
Parsed(node, cs) ==
    [p \in Inside |-> IF p \in cs.changed \cup NewFiles(cs) THEN tree[p] ELSE node[p]]
Collides(node, cs) == \E p \in NewFiles(cs) : node[p] # Gone

\* A refresh takes up what a fill that fails has purged: each of these files differs
\* from the archive's manifest.  (A file of the commit that git no longer tracks and that is
\* back with its content does not.)
Redone == call.sound /\ call.whole /\ current \subseteq tracked

purge ==
    /\ call.step = "purge"
    /\ graph' = [graph EXCEPT !.node = Purged(@, call.changes)]
    /\ Goto("reparse")
    /\ UNCHANGED <<repository, manifest, counters, trusted>>

reparse ==
    /\ call.step = "reparse"
    /\ IF Collides(graph.node, call.changes)
       THEN Reindex /\ trusted' = (trusted /\ Redone) /\ UNCHANGED graph
       ELSE /\ graph' = [graph EXCEPT !.node = Parsed(@, call.changes)]
            /\ Goto("save") /\ UNCHANGED trusted
    /\ UNCHANGED <<repository, manifest, counters>>

\* The manifest of the working tree, whatever the diff said.
save_manifest ==
    /\ call.step = "save"
    /\ manifest' = [saved |-> TRUE, hash |-> Indexed]
    /\ trusted' = (call.sound /\ call.whole)
    /\ Goto("meta")
    /\ UNCHANGED <<repository, graph, counters>>

fill_failed ==
    /\ call.step \in {"fill", "purge", "reparse", "save"}
    /\ faults < MaxFaults
    /\ faults' = faults + 1
    /\ trusted' = (trusted /\ (Redone \/ call.step \in {"fill", "purge"}))
    /\ Reindex
    /\ UNCHANGED <<repository, local, edits, calls>>

\* An imported graph is not exported again.
write_graph_meta ==
    /\ call.step = "meta"
    /\ call' = NoCall
    /\ UNCHANGED <<repository, graph, manifest, counters, trusted>>

-----------------------------------------------------------------------------
(* The other ways to a graph, and the export.                              *)

finish(node) ==
    /\ graph' = [exists |-> TRUE, marker |-> TRUE, node |-> node]
    /\ manifest' = [saved |-> TRUE, hash |-> Indexed]
    /\ call' = IF call.export THEN [call EXCEPT !.step = "archive"] ELSE NoCall

Refreshable == ~call.full /\ graph.exists /\ manifest.saved /\ graph.marker /\ ~Collides(graph.node, classify)

try_incremental_index ==
    /\ call.step = "incremental"
    /\ Refreshable
    /\ finish(Parsed(Purged(graph.node, classify), classify))
    /\ UNCHANGED <<repository, counters, trusted>>

full_index ==
    /\ call.step = "incremental"
    /\ ~Refreshable
    /\ finish(Indexed)
    /\ trusted' = TRUE
    /\ UNCHANGED <<repository, counters>>

export_archive ==
    /\ call.step = "archive"
    /\ artifact' = [artifact EXCEPT !.archive = TRUE, !.graph = graph, !.manifest = manifest,
                                  !.trusted = trusted]
    /\ Goto("sidecar")
    /\ UNCHANGED <<tree, tracked, commits, git, local, counters, trusted>>

export_sidecar ==
    /\ call.step = "sidecar"
    /\ artifact' = [artifact EXCEPT !.commit = HEAD, !.schema = SCHEMA_VERSION]
    /\ call' = NoCall
    /\ UNCHANGED <<tree, tracked, commits, git, local, counters, trusted>>

\* The process dies, or the export reports its error.
cut_short ==
    /\ ~Idle
    /\ faults < MaxFaults
    /\ faults' = faults + 1
    /\ call' = NoCall
    /\ trusted' = (trusted /\ call.step \notin {"reparse", "save"}
                           /\ (call.step = "incremental" => call.method = ""))
    /\ UNCHANGED <<repository, local, edits, calls>>

Init ==
    /\ tree \in [Paths -> MaybeContent]
    /\ tracked = {p \in Paths : tree[p] # Gone}
    /\ commits = <<[files |-> tree, artifact |-> NoArtifact]>>
    /\ git = "full"
    /\ artifact = NoArtifact
    /\ graph = NoGraph /\ manifest = NoManifest
    /\ call = NoCall
    /\ edits = 0 /\ calls = 0 /\ faults = 0
    /\ trusted = TRUE

CallStep ==
    \/ unpack_graph \/ unpack_sidecars \/ import_compatible_artifact
    \/ fill_after_bootstrap \/ purge \/ reparse \/ save_manifest \/ write_graph_meta
    \/ try_incremental_index \/ full_index \/ export_archive \/ export_sidecar

Next ==
    \/ \E p \in Paths, c \in MaybeContent : edit(p, c)
    \/ \E p, q \in Paths : move(p, q)
    \/ \E ps \in SUBSET Paths : commit(ps)
    \/ \E kind \in {"full", "shallow", "none"} : clone(kind)
    \/ remove_graph
    \/ \E kind \in {"newer", "older", "bare"} : other_version(kind)
    \/ \E b, a, f, x \in BOOLEAN : do_index_codebase(b, a, f, x)
    \/ CallStep
    \/ \E removed \in BOOLEAN : import_failed(removed)
    \/ fill_failed
    \/ diff_failed
    \/ cut_short

Spec == Init /\ [][Next]_vars

-----------------------------------------------------------------------------
Graph == [exists : BOOLEAN, marker : BOOLEAN, node : [Inside -> MaybeContent]]
Manifest == [saved : BOOLEAN, hash : [Inside -> MaybeContent]]
Artifact == [archive : BOOLEAN, graph : Graph, manifest : Manifest, commit : 0 .. HEAD,
             schema : {SCHEMA_VERSION, SCHEMA_VERSION + 1}, trusted : BOOLEAN]
Changes == [changed : SUBSET Inside, added : SUBSET Inside, deleted : SUBSET Inside,
            renamed : SUBSET (Inside \X Inside)]
Call == [step : {"idle", "unpack", "unpack_sidecars", "open", "fill", "purge", "reparse", "save",
                 "meta", "incremental", "archive", "sidecar"},
         full : BOOLEAN, export : BOOLEAN, fill : BOOLEAN,
         method : {"", "git_diff", "content_hash"}, changes : Changes,
         sound : BOOLEAN, whole : BOOLEAN]

TypeOK ==
    /\ tree \in [Paths -> MaybeContent] /\ tracked \subseteq Paths
    /\ git \in {"full", "shallow", "none"} /\ HEAD \in 1 .. MaxCommits
    /\ commits \in Seq([files : [Paths -> MaybeContent], artifact : Artifact])
    /\ artifact \in Artifact /\ graph \in Graph /\ manifest \in Manifest
    /\ call \in Call /\ trusted \in BOOLEAN
    /\ edits \in 0 .. MaxEdits /\ calls \in 0 .. MaxCalls /\ faults \in 0 .. MaxFaults

\* A fill ends with the graph a full index of the working tree would build, if
\* the archive is the graph of the commit its sidecar names and git named every
\* change (fill_after_bootstrap, incremental/bootstrap.rs).
BootstrapFills ==
    call.step = "meta" /\ call.method # "" /\ call.sound /\ call.whole => graph.node = Indexed

\* What fill_after_bootstrap promises for every artifact of its commit.
FillEqualsFullIndex == call.step = "meta" /\ call.method # "" /\ call.sound => graph.node = Indexed

\* A refresh brings a bootstrapped graph to the working tree, after an import, an
\* accepted stale one, a failed import or a failed fill: the manifest it compares
\* with is the one of that graph.  trusted leaves out a graph unpacked beside an
\* older graph's manifest, a fill that was not as BootstrapFills has it, a fill that
\* fails after the purge and is not Redone, any fill cut short between purge and save
\* or in the refresh after it failed, and archives of such graphs
\* (try_incremental_index, indexing_handlers.rs; import_artifact, artifact.rs).
CaughtUp == [][call.step = "incremental" /\ call'.step # "incremental" /\ trusted /\ faults' = faults
                 => graph'.node = Indexed]_vars

-----------------------------------------------------------------------------
(* The inductive invariant.                                                *)

\* The parts a call has unpacked, and what it was told about them.
UnpackInv ==
    /\ call.sound => /\ call.step \in {"unpack", "unpack_sidecars", "open", "fill", "purge", "reparse",
                                      "save", "meta"}
                     /\ artifact.commit # 0 /\ AsOfCommit
    /\ call.step \in {"unpack", "unpack_sidecars", "open"} => call.method = ""
    /\ call.step \in {"purge", "reparse", "save"} => call.method # ""
    /\ call.step \in {"unpack_sidecars", "open", "fill", "purge"} => graph = artifact.graph
    /\ call.sound /\ call.step \in {"open", "fill", "purge", "reparse", "save"} =>
         manifest = artifact.manifest

\* What is left of a fill leads to the graph of the tree.
FillInv ==
    call.sound /\ call.whole =>
        /\ call.step = "purge" => Parsed(Purged(graph.node, call.changes), call.changes) = Indexed
        /\ call.step = "reparse" => Parsed(graph.node, call.changes) = Indexed
        /\ call.step = "save" => graph.node = Indexed

\* A graph whose manifest names every file in which it differs from the tree.
Matching(g, m) == m.hash = g.node
Catches(node) == \A p \in Inside : manifest.hash[p] = tree[p] => node[p] = tree[p]

\* A fill that stops half way leaves such a graph.
RedoInv ==
    Redone =>
        /\ call.step = "purge" => Catches(Purged(graph.node, call.changes))
        /\ call.step \in {"reparse", "save"} => Catches(graph.node)

\* What trusted says of the local graph, and of every archive.
TrustInv ==
    trusted /\ manifest.saved /\ graph.exists =>
        /\ call.step \notin {"reparse", "save", "incremental"} => Matching(graph, manifest)
        /\ call.step = "incremental" => Catches(graph.node)
        /\ call.step = "incremental" /\ call.method = "" => Matching(graph, manifest)

ArchiveInv ==
    \A x \in {artifact} \cup {commits[i].artifact : i \in 1 .. HEAD} :
        x.trusted /\ x.manifest.saved /\ x.graph.exists => Matching(x.graph, x.manifest)

IInv ==
    /\ TypeOK /\ UnpackInv
    /\ FillInv /\ BootstrapFills
    /\ RedoInv /\ TrustInv /\ ArchiveInv
=============================================================================
