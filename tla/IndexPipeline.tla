---------------------------- MODULE IndexPipeline ----------------------------
(***************************************************************************)
(* index_codebase: how the graph, file_manifest.json and meta.json follow   *)
(* the source tree.  A call refreshes the graph incrementally when it can   *)
(* (only the files that differ from the manifest) and rebuilds it           *)
(* otherwise, then saves the manifest, then meta.json, which names the      *)
(* manifest it belongs to.  Read tools answer with a freshness receipt      *)
(* computed from the two sidecars and the tree.                             *)
(*                                                                         *)
(* The tree belongs to the user: any file can change between any two steps *)
(* of a call, and a call can end at any step (the process dies, or an error *)
(* is returned).                                                            *)
(***************************************************************************)
EXTENDS Naturals, FiniteSets

CONSTANTS Files, Contents,
          Gone,             \* no content: the file, entry or symbols do not exist
          MaxEdits,         \* bound: changes to the tree
          MaxCalls,         \* bound: index calls
          MaxFaults         \* bound: calls and writes that fail

ASSUME PipelineAssumption ==
    /\ Gone \notin Contents /\ IsFiniteSet(Files)
    /\ MaxEdits \in Nat \ {0} /\ MaxCalls \in Nat /\ MaxFaults \in Nat

VARIABLES tree,         \* file -> content and stamp (mtime and size)
          graph,        \* the graph: its marker rows and what it has of each file
          manifest,     \* file_manifest.json
          meta,         \* meta.json: the identity of the manifest it names, or 0
          call,         \* the index call in progress
          edits, calls, faults,
          behind,       \* history: the manifest may not be of this graph
          quiet         \* history: nothing was edited while it mattered

vars == <<tree, graph, manifest, meta, call, edits, calls, faults, behind, quiet>>

-----------------------------------------------------------------------------
(* The files of the output directory.                                      *)

MaybeContent == Contents \cup {Gone}
Stamped == [content : MaybeContent, stamp : Nat]

\* A file in the graph: its File node, and the symbols parsed from a content.
Node == [file : BOOLEAN, syms : MaybeContent]
NoNode == [file |-> FALSE, syms |-> Gone]
\* marker: the rows a completed full index writes last.
Graph == [exists : BOOLEAN, marker : BOOLEAN, node : [Files -> Node]]
NoGraph == [exists |-> FALSE, marker |-> FALSE, node |-> [f \in Files |-> NoNode]]

\* FileState: stamp 0 is no entry; the hash is modelled by what it tells apart,
\* and Gone is the empty hash of a file that could not be read.
FileState == [stamp : Nat, hash : MaybeContent]
NoState == [stamp |-> 0, hash |-> Gone]
\* id: which save this is (the size and mtime that meta.json records).
Manifest == [id : Nat, files : [Files -> FileState]]
NoManifest == [id |-> 0, files |-> [f \in Files |-> NoState]]

\* The call: its step, the stamps it discovered, the files it has left to
\* purge, to parse as modified and to parse as new, and the next manifest.
Steps == {"idle", "open", "remove", "begin", "parse", "walk", "save_full",
          "discover", "classify", "purge", "reparse", "save", "meta"}
Call == [step : Steps, current : [Files -> Nat], purge : SUBSET Files,
         deleted : SUBSET Files, changed : SUBSET Files, added : SUBSET Files,
         next : [Files -> FileState]]
NoCall == [step |-> "idle", current |-> [f \in Files |-> 0], purge |-> {},
           deleted |-> {}, changed |-> {}, added |-> {},
           next |-> [f \in Files |-> NoState]]
Idle == call.step = "idle"
Goto(step) == call' = [call EXCEPT !.step = step]

-----------------------------------------------------------------------------
(* graph_freshness::check, outside a git working tree.                     *)

describes_manifest == meta # 0 /\ meta = manifest.id
Entries == {f \in Files : manifest.files[f].stamp # 0}
count_dirty ==
    Cardinality({f \in Entries : \/ tree[f].content = Gone
                                 \/ tree[f].stamp # manifest.files[f].stamp})
check ==
    IF ~(graph.exists /\ manifest.id # 0 /\ describes_manifest) \/ Entries = {} THEN "unknown"
    ELSE IF count_dirty = 0 THEN "fresh" ELSE "stale"

-----------------------------------------------------------------------------
(* The user.                                                               *)

\* c = Gone deletes the file; writing the same content again touches it.
edit(f, c) ==
    /\ edits < MaxEdits
    /\ c = Gone => tree[f].content # Gone
    /\ tree' = [tree EXCEPT ![f] = [content |-> c, stamp |-> edits + 1]]
    /\ edits' = edits + 1
    /\ quiet' = (quiet /\ Idle /\ ~behind)
    /\ UNCHANGED <<graph, manifest, meta, call, calls, faults, behind>>

-----------------------------------------------------------------------------
(* do_index_codebase.                                                      *)

do_index_codebase(want_full) ==
    /\ Idle
    /\ calls < MaxCalls
    /\ calls' = calls + 1
    /\ IF ~want_full /\ graph.exists /\ manifest.id # 0 THEN Goto("open") ELSE Goto("remove")
    /\ UNCHANGED <<tree, graph, manifest, meta, edits, faults, behind, quiet>>

\* index_incremental refuses a graph without its markers; the caller then
\* rebuilds.
require_markers_skipped ==
    /\ call.step = "open"
    /\ Goto("discover")
    /\ UNCHANGED <<tree, graph, manifest, meta, edits, calls, faults, behind, quiet>>
require_markers ==
    /\ call.step = "open"
    /\ IF graph.marker THEN Goto("discover") ELSE Goto("remove")
    /\ UNCHANGED <<tree, graph, manifest, meta, edits, calls, faults, behind, quiet>>

-----------------------------------------------------------------------------
(* The full index.                                                         *)

remove_stale_graph_artifact ==
    /\ call.step = "remove"
    /\ graph' = NoGraph
    /\ Goto("begin")
    /\ UNCHANGED <<tree, manifest, meta, edits, calls, faults, behind, quiet>>

\* Schema, no marker, and the walk that lists the files.
index_codebase_begin ==
    /\ call.step = "begin"
    /\ graph' = [NoGraph EXCEPT !.exists = TRUE]
    /\ call' = [call EXCEPT !.step = "parse",
                            !.added = {f \in Files : tree[f].content # Gone}]
    /\ behind' = TRUE
    /\ quiet' = TRUE
    /\ UNCHANGED <<tree, manifest, meta, edits, calls, faults>>

\* insert_file_node and index_single_file; a file gone since the walk is
\* skipped and keeps its bare File node.
parsed(f) == [file |-> TRUE, syms |-> tree[f].content]
index_single_file(f) ==
    /\ call.step = "parse"
    /\ f \in call.added
    /\ graph' = [graph EXCEPT !.node[f] = parsed(f)]
    /\ call' = [call EXCEPT !.added = @ \ {f}]
    /\ UNCHANGED <<tree, manifest, meta, edits, calls, faults, behind, quiet>>

write_markers_early ==
    /\ call.step = "parse"
    /\ graph' = [graph EXCEPT !.marker = TRUE]
    /\ IF call.added = {} THEN Goto("walk") ELSE UNCHANGED call
    /\ UNCHANGED <<tree, manifest, meta, edits, calls, faults, behind, quiet>>
write_markers ==
    /\ call.step = "parse"
    /\ call.added = {}
    /\ graph' = [graph EXCEPT !.marker = TRUE]
    /\ Goto("walk")
    /\ UNCHANGED <<tree, manifest, meta, edits, calls, faults, behind, quiet>>

-----------------------------------------------------------------------------
(* The manifest of a full index: the tree is walked and stat-ed again, and *)
(* every file is hashed.                                                   *)

stamps == [f \in Files |-> IF tree[f].content = Gone THEN 0 ELSE tree[f].stamp]
discover(step, next) ==
    /\ call.step = step
    /\ call' = [call EXCEPT !.step = next, !.current = stamps]
    /\ UNCHANGED <<tree, graph, manifest, meta, edits, calls, faults, behind, quiet>>

hashed(f) ==
    IF call.current[f] = 0 THEN NoState
    ELSE [stamp |-> call.current[f], hash |-> tree[f].content]

save(files) ==
    /\ manifest' = [id |-> manifest.id + 1, files |-> files]
    /\ behind' = FALSE
    /\ Goto("meta")
    /\ UNCHANGED <<tree, graph, meta, edits, calls, faults, quiet>>

write_full_manifest ==
    /\ call.step = "save_full"
    /\ save([f \in Files |-> hashed(f)])

\* The write is best-effort: the call goes on without it.
write_full_manifest_failed ==
    /\ call.step = "save_full"
    /\ faults < MaxFaults
    /\ faults' = faults + 1
    /\ Goto("meta")
    /\ UNCHANGED <<tree, graph, manifest, meta, edits, calls, behind, quiet>>

\* meta.json names the manifest that is on disk now.
write_graph_meta ==
    /\ call.step = "meta"
    /\ meta' = manifest.id
    /\ call' = NoCall
    /\ UNCHANGED <<tree, graph, manifest, edits, calls, faults, behind, quiet>>

-----------------------------------------------------------------------------
(* The incremental refresh.                                                *)

\* Unchanged: the stamp is the recorded one, or the bytes are.
same_stamp(f) == manifest.files[f].stamp = call.current[f]
same_content(f) ==
    tree[f].content # Gone /\ tree[f].content = manifest.files[f].hash
present(f) == call.current[f] # 0
next_state(f) ==
    IF present(f) /\ f \in Entries /\ same_stamp(f) THEN manifest.files[f] ELSE hashed(f)

\* A rename is a deletion and an addition with one hash; it purges the old
\* file and parses the new one like them.
changed_files_by_stamp ==
    {f \in Entries : present(f) /\ ~same_stamp(f) /\ tree[f].content = Gone}
changed_files ==
    {f \in Entries : present(f) /\ ~same_stamp(f) /\ ~same_content(f)}
added_files == {f \in Files \ Entries : present(f)}
deleted_files == {f \in Entries : ~present(f)}

classify ==
    /\ call.step = "classify"
    /\ call' = [call EXCEPT !.step = "purge",
                            !.purge = changed_files \cup deleted_files,
                            !.deleted = deleted_files,
                            !.changed = changed_files,
                            !.added = added_files,
                            !.next = [f \in Files |-> next_state(f)]]
    /\ UNCHANGED <<tree, graph, manifest, meta, edits, calls, faults, behind, quiet>>

\* A modified file loses its symbols, a deleted one its File node too.
purge_file(f) ==
    /\ call.step = "purge"
    /\ f \in call.purge
    /\ graph' = [graph EXCEPT !.node[f] =
          IF f \in call.deleted THEN NoNode ELSE [@ EXCEPT !.syms = Gone]]
    /\ call' = [call EXCEPT !.purge = @ \ {f}]
    /\ behind' = TRUE
    /\ UNCHANGED <<tree, manifest, meta, edits, calls, faults, quiet>>

purge_done ==
    /\ call.step = "purge"
    /\ call.purge = {}
    /\ Goto("reparse")
    /\ UNCHANGED <<tree, graph, manifest, meta, edits, calls, faults, behind, quiet>>

\* The File node of a modified file is expected to be there.
reparse_modified_file(f) ==
    /\ call.step = "reparse"
    /\ f \in call.changed
    /\ graph' = [graph EXCEPT !.node[f].syms = tree[f].content]
    /\ call' = [call EXCEPT !.changed = @ \ {f}]
    /\ behind' = TRUE
    /\ UNCHANGED <<tree, manifest, meta, edits, calls, faults, quiet>>

\* A second File node with the same id violates the primary key: the error
\* ends the refresh, and the caller rebuilds.
reparse_new_retried(f) ==
    /\ call.step = "reparse"
    /\ call.changed = {}
    /\ f \in call.added
    /\ IF graph.node[f].file
       THEN Goto("open") /\ UNCHANGED <<graph, behind>>
       ELSE /\ graph' = [graph EXCEPT !.node[f] = parsed(f)]
            /\ call' = [call EXCEPT !.added = @ \ {f}]
            /\ behind' = TRUE
    /\ UNCHANGED <<tree, manifest, meta, edits, calls, faults, quiet>>
reparse_new_file(f) ==
    /\ call.step = "reparse"
    /\ call.changed = {}
    /\ f \in call.added
    /\ IF graph.node[f].file
       THEN Goto("remove") /\ UNCHANGED <<graph, behind>>
       ELSE /\ graph' = [graph EXCEPT !.node[f] = parsed(f)]
            /\ call' = [call EXCEPT !.added = @ \ {f}]
            /\ behind' = TRUE
    /\ UNCHANGED <<tree, manifest, meta, edits, calls, faults, quiet>>

reparse_done ==
    /\ call.step = "reparse"
    /\ call.changed = {} /\ call.added = {}
    /\ Goto("save")
    /\ UNCHANGED <<tree, graph, manifest, meta, edits, calls, faults, behind, quiet>>

save_next_manifest ==
    /\ call.step = "save"
    /\ save(call.next)

\* Any error of the refresh makes the caller rebuild.
incremental_failed ==
    /\ call.step \in {"discover", "classify", "purge", "reparse", "save"}
    /\ faults < MaxFaults
    /\ faults' = faults + 1
    /\ Goto("remove")
    /\ UNCHANGED <<tree, graph, manifest, meta, edits, calls, behind, quiet>>

-----------------------------------------------------------------------------
\* The process dies, or the full index or write_graph_meta returns an error.
cut_short ==
    /\ ~Idle
    /\ faults < MaxFaults
    /\ faults' = faults + 1
    /\ call' = NoCall
    /\ UNCHANGED <<tree, graph, manifest, meta, edits, calls, behind, quiet>>

Init ==
    /\ tree \in [Files -> {[content |-> c, stamp |-> 1] : c \in MaybeContent}]
    /\ graph = NoGraph
    /\ manifest = NoManifest
    /\ meta = 0
    /\ call = NoCall
    /\ edits = 1 /\ calls = 0 /\ faults = 0
    /\ behind = FALSE /\ quiet = TRUE

CallStep ==
    \/ require_markers
    \/ remove_stale_graph_artifact
    \/ index_codebase_begin
    \/ \E f \in Files : index_single_file(f)
    \/ write_markers
    \/ discover("walk", "save_full")
    \/ write_full_manifest
    \/ write_full_manifest_failed
    \/ write_graph_meta
    \/ discover("discover", "classify")
    \/ classify
    \/ \E f \in Files : purge_file(f)
    \/ purge_done
    \/ \E f \in Files : reparse_modified_file(f)
    \/ \E f \in Files : reparse_new_file(f)
    \/ reparse_done
    \/ save_next_manifest
    \/ incremental_failed

Next ==
    \/ \E f \in Files, c \in MaybeContent : edit(f, c)
    \/ \E want_full \in BOOLEAN : do_index_codebase(want_full)
    \/ CallStep
    \/ cut_short

\* A call that was started goes on running.
Fairness == WF_vars(CallStep)
Spec == Init /\ [][Next]_vars /\ Fairness
-----------------------------------------------------------------------------
(* Properties.                                                             *)

\* Every variable keeps its type.
TypeOK ==
    /\ tree \in [Files -> Stamped]
    /\ graph \in Graph
    /\ manifest \in Manifest
    /\ meta \in 0 .. manifest.id
    /\ call \in Call
    /\ edits \in 1 .. MaxEdits /\ calls \in 0 .. MaxCalls /\ faults \in 0 .. MaxFaults
    /\ behind \in BOOLEAN /\ quiet \in BOOLEAN

\* The node that the state of a file asks for.
node_of(state) == [file |-> state.stamp # 0, syms |-> state.hash]

\* The manifest records what the graph was built from: once a call has saved
\* it, every entry has its File node and the symbols of the hashed content,
\* and nothing else is in the graph.  Calls cut short anywhere are repaired by
\* the next call, as long as no file changed in between or while a call ran.
ManifestIsOfGraph ==
    quiet /\ ~behind /\ graph.exists =>
        \A f \in Files : graph.node[f] = node_of(manifest.files[f])

\* A receipt that says "fresh" over a completed graph is right about every
\* file it checked, in the middle of a call and after a crash too.
FreshIsCurrent ==
    quiet /\ graph.marker /\ check = "fresh" =>
        \A f \in Entries : graph.node[f] = parsed(f)

\* The postcondition of index_incremental: when a call saves its manifest, the
\* graph is what a full index of the tree would produce, whichever way the
\* call came (refresh, refresh that fell back, rebuild) and whatever an
\* earlier call left behind.
full_index(f) == IF tree[f].content = Gone THEN NoNode ELSE parsed(f)
SavedGraphIsFullIndex ==
    [][quiet /\ manifest'.id # manifest.id =>
          \A f \in Files : graph.node[f] = full_index(f)]_vars

\* A refresh that cannot go on ends in a rebuild and never in a loop between
\* the two: every call returns.
IndexCallReturns == ~Idle ~> Idle

\* meta.json is the commit point of an index: a receipt computed from it is
\* never "fresh" over a graph whose index did not complete.
FreshIsComplete == Idle /\ check = "fresh" => graph.marker

\* An answer from a graph older than the working tree is marked as such.
FreshIsIndexed ==
    Idle /\ check = "fresh" => \A f \in Entries : graph.node[f].syms = tree[f].content

-----------------------------------------------------------------------------
(* The inductive invariant.                                                *)

\* What a table of file states says of the tree: no entry has no hash, and a
\* stamp that is still the file's stands for the bytes the file has now.
Records(files) ==
    \A f \in Files :
        /\ files[f].stamp <= edits
        /\ files[f].stamp = 0 => files[f].hash = Gone
        /\ files[f].stamp # 0 /\ files[f].stamp = tree[f].stamp => files[f].hash = tree[f].content

\* The clock of the user is ahead of every stamp seen, so that a stamp never
\* comes back with other bytes.
StampsAreFresh ==
    /\ \A f \in Files : tree[f].stamp \in 1 .. edits /\ call.current[f] <= edits
    /\ Records(manifest.files) /\ Records(call.next)

\* A graph with its markers can be refreshed from the manifest there is,
\* whichever call saved it: what the manifest does not show to have changed is
\* as in the tree, and the File node of every entry still in the tree is there.
matches(f) == manifest.files[f].stamp = tree[f].stamp \/ manifest.files[f].hash = tree[f].content
Repairable ==
    quiet /\ graph.marker =>
        \A f \in Files :
            /\ f \notin Entries /\ tree[f].content = Gone => graph.node[f] = NoNode
            /\ f \in Entries /\ tree[f].content # Gone =>
                 /\ graph.node[f].file
                 /\ matches(f) => graph.node[f].syms = tree[f].content

\* A full index on its way: what is not left to parse is as in the tree.
FullIndexInv ==
    /\ call.step \in {"parse", "walk", "save_full"} => graph.exists /\ behind
    /\ call.step = "parse" => ~graph.marker
    /\ quiet /\ call.step \in {"parse", "walk", "save_full"} =>
         \A f \in Files :
            /\ f \notin call.added => graph.node[f] = full_index(f)
            /\ f \in call.added => tree[f].content # Gone
    /\ call.step \in {"walk", "save_full"} => call.added = {}

\* A refresh on its way: what is left neither to purge nor to parse is as in
\* the tree, and the next manifest asks for the graph of the tree.
RefreshInv ==
    /\ call.step \in {"discover", "classify", "purge", "reparse", "save"} => graph.marker
    /\ call.step \in {"reparse", "save"} => call.purge = {}
    /\ call.step = "save" => call.changed = {} /\ call.added = {}
    /\ quiet /\ call.step \in {"purge", "reparse", "save"} =>
         /\ call.purge \subseteq call.deleted \cup call.changed
         /\ \A f \in Files :
            /\ f \in call.deleted <=> f \in Entries /\ tree[f].content = Gone
            /\ f \in call.changed => f \in Entries /\ tree[f].content # Gone /\ ~matches(f)
            /\ f \in call.added => f \notin Entries /\ tree[f].content # Gone
            /\ f \notin call.purge \cup call.changed \cup call.added =>
                 graph.node[f] = full_index(f)
            /\ node_of(call.next[f]) = full_index(f)

\* Between the walk of a call and its use nothing changed.
DiscoveredInv ==
    quiet /\ call.step \in {"save_full", "classify"} => call.current = stamps

IInv ==
    /\ TypeOK
    /\ graph.marker => graph.exists
    /\ StampsAreFresh /\ ManifestIsOfGraph /\ Repairable
    /\ FullIndexInv /\ RefreshInv /\ DiscoveredInv
=============================================================================
