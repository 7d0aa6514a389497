------------------------ MODULE IndexPipelineProofs ------------------------
(* Whatever the tree, the calls, the edits and the faults: the manifest of  *)
(* index_codebase is that of its graph, a refresh gives what a full index   *)
(* would, and a receipt is right about the files it checked.                *)
EXTENDS IndexPipeline, FiniteSetTheorems, TLAPS

LEMMA BoundsAreNumbers ==
    /\ MaxEdits \in Nat /\ MaxEdits >= 1 /\ MaxCalls \in Nat /\ MaxFaults \in Nat
    /\ Gone \in MaybeContent
BY PipelineAssumption DEF PipelineAssumption, MaybeContent

\* The constants of the model have their types.
LEMMA EmptyRecords ==
    /\ NoNode \in Node /\ NoNode.file = FALSE /\ NoNode.syms = Gone
    /\ NoGraph \in Graph /\ ~NoGraph.exists /\ ~NoGraph.marker
    /\ \A f \in Files : NoGraph.node[f] = NoNode
    /\ NoState \in FileState /\ NoState.stamp = 0 /\ NoState.hash = Gone
    /\ NoManifest \in Manifest /\ NoManifest.id = 0
    /\ \A f \in Files : NoManifest.files[f] = NoState
    /\ NoCall \in Call /\ NoCall.step = "idle"
    /\ \A f \in Files : NoCall.current[f] = 0 /\ NoCall.next[f] = NoState
<1>1. NoNode \in Node /\ NoNode.file = FALSE /\ NoNode.syms = Gone
  BY BoundsAreNumbers DEF NoNode, Node
<1>2. /\ NoGraph \in Graph /\ ~NoGraph.exists /\ ~NoGraph.marker
      /\ \A f \in Files : NoGraph.node[f] = NoNode
  BY <1>1 DEF NoGraph, Graph
<1>3. NoState \in FileState /\ NoState.stamp = 0 /\ NoState.hash = Gone
  BY BoundsAreNumbers DEF NoState, FileState
<1>4. /\ NoManifest \in Manifest /\ NoManifest.id = 0
      /\ \A f \in Files : NoManifest.files[f] = NoState
  BY <1>3 DEF NoManifest, Manifest
<1>5. /\ NoCall \in Call /\ NoCall.step = "idle"
      /\ \A f \in Files : NoCall.current[f] = 0 /\ NoCall.next[f] = NoState
  BY <1>3 DEF NoCall, Call, Steps
<1> QED BY <1>1, <1>2, <1>3, <1>4, <1>5

\* The parts of the state that the proofs look at.
LEMMA Types ==
    ASSUME TypeOK
    PROVE  /\ tree \in [Files -> Stamped]
           /\ \A f \in Files : tree[f].content \in MaybeContent /\ tree[f].stamp \in Nat
           /\ graph \in Graph /\ graph.node \in [Files -> Node]
           /\ graph.exists \in BOOLEAN /\ graph.marker \in BOOLEAN
           /\ \A f \in Files : /\ graph.node[f].file \in BOOLEAN
                               /\ graph.node[f].syms \in MaybeContent
                               /\ graph.node[f] = [file |-> graph.node[f].file,
                                                   syms |-> graph.node[f].syms]
           /\ manifest \in Manifest /\ manifest.id \in Nat
           /\ manifest.files \in [Files -> FileState]
           /\ \A f \in Files : manifest.files[f].stamp \in Nat
                               /\ manifest.files[f].hash \in MaybeContent
           /\ call \in Call /\ call.step \in Steps /\ call.current \in [Files -> Nat]
           /\ call.purge \subseteq Files /\ call.deleted \subseteq Files
           /\ call.changed \subseteq Files /\ call.added \subseteq Files
           /\ call.next \in [Files -> FileState]
           /\ \A f \in Files : call.next[f].stamp \in Nat /\ call.next[f].hash \in MaybeContent
           /\ edits \in Nat /\ edits >= 1 /\ edits <= MaxEdits
           /\ behind \in BOOLEAN /\ quiet \in BOOLEAN
<1>1. tree \in [Files -> Stamped] /\ graph \in Graph /\ manifest \in Manifest /\ call \in Call
      /\ behind \in BOOLEAN /\ quiet \in BOOLEAN
  BY DEF TypeOK
<1>2. edits \in 1 .. MaxEdits BY DEF TypeOK
<1>3. edits \in Nat /\ edits >= 1 /\ edits <= MaxEdits BY <1>2, BoundsAreNumbers
<1>4. \A f \in Files : tree[f].content \in MaybeContent /\ tree[f].stamp \in Nat
  BY <1>1 DEF Stamped
<1>5. /\ graph.node \in [Files -> Node] /\ graph.exists \in BOOLEAN /\ graph.marker \in BOOLEAN
  BY <1>1 DEF Graph
<1>6. \A f \in Files : /\ graph.node[f].file \in BOOLEAN
                       /\ graph.node[f].syms \in MaybeContent
                       /\ graph.node[f] = [file |-> graph.node[f].file,
                                           syms |-> graph.node[f].syms]
  BY <1>5 DEF Node
<1>7. manifest.id \in Nat /\ manifest.files \in [Files -> FileState] BY <1>1 DEF Manifest
<1>8. \A f \in Files : manifest.files[f].stamp \in Nat /\ manifest.files[f].hash \in MaybeContent
  BY <1>7 DEF FileState
<1>9. /\ call.step \in Steps /\ call.current \in [Files -> Nat]
      /\ call.purge \subseteq Files /\ call.deleted \subseteq Files
      /\ call.changed \subseteq Files /\ call.added \subseteq Files
      /\ call.next \in [Files -> FileState]
  BY <1>1 DEF Call
<1>10. \A f \in Files : call.next[f].stamp \in Nat /\ call.next[f].hash \in MaybeContent
  BY <1>9 DEF FileState
<1> QED BY <1>1, <1>3, <1>4, <1>5, <1>6, <1>7, <1>8, <1>9, <1>10

\* Moving to another step leaves the rest of the call alone.
LEMMA GotoStep ==
    ASSUME call \in Call, NEW st \in Steps, Goto(st)
    PROVE  /\ call' \in Call /\ call'.step = st /\ call'.current = call.current
           /\ call'.purge = call.purge /\ call'.deleted = call.deleted
           /\ call'.changed = call.changed /\ call'.added = call.added
           /\ call'.next = call.next
BY DEF Goto, Call

LEMMA InitIInv == Init => IInv
<1> SUFFICES ASSUME Init PROVE IInv OBVIOUS
<1>1. /\ graph = NoGraph /\ manifest = NoManifest /\ meta = 0 /\ call = NoCall
      /\ edits = 1 /\ calls = 0 /\ faults = 0 /\ behind = FALSE /\ quiet = TRUE
  BY DEF Init
<1>2. tree \in [Files -> Stamped] /\ \A f \in Files : tree[f].stamp = 1
  BY DEF Init, Stamped
<1>3. edits \in 1 .. MaxEdits /\ calls \in 0 .. MaxCalls /\ faults \in 0 .. MaxFaults
  BY <1>1, BoundsAreNumbers
<1>4. meta \in 0 .. manifest.id BY <1>1, EmptyRecords
<1>5. TypeOK BY <1>1, <1>2, <1>3, <1>4, EmptyRecords DEF TypeOK
<1>6. StampsAreFresh BY <1>1, <1>2, EmptyRecords DEF StampsAreFresh, Records
<1> QED BY <1>1, <1>5, <1>6, EmptyRecords
        DEF IInv, ManifestIsOfGraph, Repairable, FullIndexInv, RefreshInv, DiscoveredInv

\* A step after which the call is at a place where nothing is claimed of it.
LEMMA NeutralKeepsIInv ==
    ASSUME IInv, UNCHANGED <<tree, graph, manifest, edits, behind, quiet>>,
           meta' \in 0 .. manifest.id, calls' \in 0 .. MaxCalls, faults' \in 0 .. MaxFaults,
           call' \in Call, call'.step \in {"idle", "open", "remove", "meta"},
           \/ call'.current = call.current /\ call'.next = call.next
           \/ call' = NoCall
    PROVE  IInv'
<1>1. TypeOK' BY DEF IInv, TypeOK
<1>2. StampsAreFresh'
  <2>1. \A f \in Files : call'.current[f] <= edits
    BY EmptyRecords, Types DEF IInv, StampsAreFresh
  <2>2. Records(call'.next)
    BY EmptyRecords, Types DEF IInv, StampsAreFresh, Records
  <2> QED BY <2>1, <2>2 DEF IInv, StampsAreFresh, Records
<1>3. ManifestIsOfGraph' /\ Repairable'
  BY DEF IInv, ManifestIsOfGraph, Repairable, Entries, matches
<1>4. FullIndexInv' /\ RefreshInv' /\ DiscoveredInv'
  BY DEF FullIndexInv, RefreshInv, DiscoveredInv
<1> QED BY <1>1, <1>2, <1>3, <1>4 DEF IInv

\* A tick of a bounded counter.
LEMMA Tick ==
    ASSUME NEW n \in Nat, NEW k \in 0 .. n, k < n
    PROVE  k + 1 \in 0 .. n
OBVIOUS

LEMMA NeutralSteps ==
    ASSUME IInv,
           \/ \E want_full \in BOOLEAN : do_index_codebase(want_full)
           \/ write_full_manifest_failed \/ write_graph_meta
           \/ incremental_failed \/ cut_short
           \/ require_markers /\ ~graph.marker
           \/ \E f \in Files : reparse_new_file(f) /\ graph.node[f].file
    PROVE  IInv'
<1>1. /\ call \in Call /\ manifest.id \in Nat /\ meta \in 0 .. manifest.id
      /\ calls \in 0 .. MaxCalls /\ faults \in 0 .. MaxFaults
      /\ {"open", "remove", "meta"} \subseteq Steps
  BY Types DEF IInv, TypeOK, Steps
<1>2. manifest.id \in 0 .. manifest.id BY <1>1
<1>3. calls < MaxCalls => calls + 1 \in 0 .. MaxCalls BY <1>1, BoundsAreNumbers
<1>4. faults < MaxFaults => faults + 1 \in 0 .. MaxFaults BY <1>1, BoundsAreNumbers
<1>5. CASE \E want_full \in BOOLEAN : do_index_codebase(want_full)
  <2>1. Goto("open") \/ Goto("remove") BY <1>5 DEF do_index_codebase
  <2>2. /\ UNCHANGED <<tree, graph, manifest, meta, edits, faults, behind, quiet>>
        /\ calls < MaxCalls /\ calls' = calls + 1
    BY <1>5 DEF do_index_codebase
  <2> QED BY <1>1, <1>3, <2>1, <2>2, GotoStep, NeutralKeepsIInv
<1>6. CASE write_full_manifest_failed
  <2>1. /\ Goto("meta") /\ faults < MaxFaults /\ faults' = faults + 1
        /\ UNCHANGED <<tree, graph, manifest, meta, edits, calls, behind, quiet>>
    BY <1>6 DEF write_full_manifest_failed
  <2> QED BY <1>1, <1>4, <2>1, GotoStep, NeutralKeepsIInv
<1>7. CASE write_graph_meta
  <2>1. /\ call' = NoCall /\ meta' = manifest.id
        /\ UNCHANGED <<tree, graph, manifest, edits, calls, faults, behind, quiet>>
    BY <1>7 DEF write_graph_meta
  <2> QED BY <1>1, <1>2, <2>1, EmptyRecords, NeutralKeepsIInv
<1>8. CASE incremental_failed
  <2>1. /\ Goto("remove") /\ faults < MaxFaults /\ faults' = faults + 1
        /\ UNCHANGED <<tree, graph, manifest, meta, edits, calls, behind, quiet>>
    BY <1>8 DEF incremental_failed
  <2> QED BY <1>1, <1>4, <2>1, GotoStep, NeutralKeepsIInv
<1>9. CASE cut_short
  <2>1. /\ call' = NoCall /\ faults < MaxFaults /\ faults' = faults + 1
        /\ UNCHANGED <<tree, graph, manifest, meta, edits, calls, behind, quiet>>
    BY <1>9 DEF cut_short
  <2> QED BY <1>1, <1>4, <2>1, EmptyRecords, NeutralKeepsIInv
<1>10. CASE require_markers /\ ~graph.marker
  <2>1. /\ Goto("remove")
        /\ UNCHANGED <<tree, graph, manifest, meta, edits, calls, faults, behind, quiet>>
    BY <1>10 DEF require_markers
  <2> QED BY <1>1, <2>1, GotoStep, NeutralKeepsIInv
<1>11. CASE \E f \in Files : reparse_new_file(f) /\ graph.node[f].file
  <2>1. /\ Goto("remove")
        /\ UNCHANGED <<tree, graph, manifest, meta, edits, calls, faults, behind, quiet>>
    BY <1>11 DEF reparse_new_file
  <2> QED BY <1>1, <2>1, GotoStep, NeutralKeepsIInv
<1> QED BY <1>5, <1>6, <1>7, <1>8, <1>9, <1>10, <1>11
\* An entry asks for a File node with the symbols of its hash, no entry for
\* nothing.
LEMMA NodeOf ==
    ASSUME NEW state \in FileState
    PROVE  /\ state.stamp # 0 => node_of(state) = [file |-> TRUE, syms |-> state.hash]
           /\ state.stamp = 0 => node_of(state) = [file |-> FALSE, syms |-> state.hash]
<1>1. CASE state.stamp = 0
  <2>1. (state.stamp # 0) = FALSE BY <1>1
  <2> QED BY <1>1, <2>1 DEF node_of
<1>2. CASE state.stamp # 0
  <2>1. (state.stamp # 0) = TRUE BY <1>2
  <2> QED BY <1>2, <2>1 DEF node_of
<1> QED BY <1>1, <1>2

\* An edit gives its file a stamp nobody has seen.  While a call runs, or a
\* manifest is behind its graph, it makes no promise any more; otherwise the
\* graph is that of the manifest, which is all a later refresh needs.
LEMMA EditKeepsIInv ==
    \A f \in Files, c \in MaybeContent : IInv /\ edit(f, c) => IInv'
<1> SUFFICES ASSUME NEW f \in Files, NEW c \in MaybeContent, IInv, edit(f, c) PROVE IInv'
  OBVIOUS
<1>1. TypeOK BY DEF IInv
<1>2. /\ UNCHANGED <<graph, manifest, meta, call, calls, faults, behind>>
      /\ tree' = [tree EXCEPT ![f] = [content |-> c, stamp |-> edits + 1]]
      /\ edits' = edits + 1 /\ edits < MaxEdits
      /\ quiet' = (quiet /\ Idle /\ ~behind)
  BY DEF edit
<1>3. edits' \in 1 .. MaxEdits /\ edits' \in Nat BY <1>1, <1>2, Types, BoundsAreNumbers
<1>4. /\ tree' \in [Files -> Stamped]
      /\ tree'[f].stamp = edits + 1 /\ \A g \in Files \ {f} : tree'[g] = tree[g]
  BY <1>1, <1>2, Types DEF Stamped
<1>5. TypeOK' BY <1>1, <1>2, <1>3, <1>4 DEF TypeOK
<1>6. StampsAreFresh'
  <2>1. \A g \in Files : tree'[g].stamp \in 1 .. edits' /\ call.current[g] <= edits'
    <3>1. \A g \in Files : tree[g].stamp \in 1 .. edits /\ call.current[g] <= edits
      BY DEF IInv, StampsAreFresh
    <3>2. call.current \in [Files -> Nat] /\ edits \in Nat BY <1>1, Types
    <3> QED BY <1>2, <1>4, <3>1, <3>2
  <2>2. ASSUME NEW files \in [Files -> FileState], Records(files)
        PROVE  \A g \in Files :
                  /\ files[g].stamp <= edits'
                  /\ files[g].stamp = 0 => files[g].hash = Gone
                  /\ files[g].stamp # 0 /\ files[g].stamp = tree'[g].stamp
                       => files[g].hash = tree'[g].content
    <3>1. \A g \in Files : files[g].stamp \in Nat BY <2>2 DEF FileState
    <3>2. edits \in Nat BY <1>1, Types
    <3> QED BY <1>2, <1>4, <2>2, <3>1, <3>2 DEF Records
  <2>3. /\ manifest.files \in [Files -> FileState] /\ call.next \in [Files -> FileState]
        /\ Records(manifest.files) /\ Records(call.next)
    BY <1>1, Types DEF IInv, StampsAreFresh
  <2> QED BY <1>2, <2>1, <2>2, <2>3 DEF StampsAreFresh, Records
<1>7. ManifestIsOfGraph' BY <1>2 DEF IInv, ManifestIsOfGraph, Entries
<1>8. Repairable'
  <2> SUFFICES ASSUME quiet', graph.marker, NEW g \in Files
               PROVE  /\ g \notin Entries /\ tree'[g].content = Gone => graph.node[g] = NoNode
                      /\ g \in Entries /\ tree'[g].content # Gone =>
                           /\ graph.node[g].file
                           /\ matches(g)' => graph.node[g].syms = tree'[g].content
    BY <1>2 DEF Repairable, Entries
  <2>1. /\ graph.node[g] = node_of(manifest.files[g]) /\ manifest.files[g] \in FileState
    BY <1>1, <1>2, Types DEF IInv, ManifestIsOfGraph
  <2>2. g \notin Entries => manifest.files[g].hash = Gone
    BY DEF IInv, StampsAreFresh, Records, Entries
  <2>3. g \in Entries /\ matches(g)' => manifest.files[g].hash = tree'[g].content
    BY <1>2, <1>6 DEF StampsAreFresh, Records, Entries, matches
  <2>4. CASE g \in Entries
    <3>1. graph.node[g] = [file |-> TRUE, syms |-> manifest.files[g].hash]
      BY <2>1, <2>4, NodeOf DEF Entries
    <3>2. graph.node[g].file /\ graph.node[g].syms = manifest.files[g].hash BY <3>1
    <3> QED BY <2>3, <2>4, <3>2
  <2>5. CASE g \notin Entries
    <3>1. graph.node[g] = [file |-> FALSE, syms |-> Gone]
      BY <2>1, <2>2, <2>5, NodeOf DEF Entries
    <3> QED BY <2>5, <3>1 DEF NoNode
  <2> QED BY <2>4, <2>5
<1>9. FullIndexInv' /\ RefreshInv' /\ DiscoveredInv'
  BY <1>2 DEF IInv, FullIndexInv, RefreshInv, DiscoveredInv, Idle
<1> QED BY <1>2, <1>5, <1>6, <1>7, <1>8, <1>9 DEF IInv

\* Steps that change neither the tree nor the sidecars keep what is known of
\* the stamps, as long as they leave those of the call alone.
LEMMA StampsKept ==
    ASSUME StampsAreFresh, UNCHANGED <<tree, manifest, edits>>,
           call'.current = call.current, call'.next = call.next
    PROVE  StampsAreFresh'
BY DEF StampsAreFresh, Records

LEMMA RemoveKeepsIInv == IInv /\ remove_stale_graph_artifact => IInv'
<1> SUFFICES ASSUME IInv, remove_stale_graph_artifact PROVE IInv' OBVIOUS
<1>1. TypeOK /\ call \in Call /\ "begin" \in Steps BY Types DEF IInv, Steps
<1>2. /\ graph' = NoGraph /\ Goto("begin")
      /\ UNCHANGED <<tree, manifest, meta, edits, calls, faults, behind, quiet>>
  BY DEF remove_stale_graph_artifact
<1>3. /\ call' \in Call /\ call'.step = "begin"
      /\ call'.current = call.current /\ call'.next = call.next
  BY <1>1, <1>2, GotoStep
<1>4. TypeOK' BY <1>1, <1>2, <1>3, EmptyRecords DEF TypeOK
<1>5. StampsAreFresh' BY <1>2, <1>3, StampsKept DEF IInv
<1> QED BY <1>2, <1>3, <1>4, <1>5, EmptyRecords
        DEF IInv, ManifestIsOfGraph, Repairable, FullIndexInv, RefreshInv, DiscoveredInv

LEMMA BeginKeepsIInv == IInv /\ index_codebase_begin => IInv'
<1> SUFFICES ASSUME IInv, index_codebase_begin PROVE IInv' OBVIOUS
<1> DEFINE todo == {f \in Files : tree[f].content # Gone}
<1>1. TypeOK /\ call \in Call BY Types DEF IInv
<1>2. /\ graph' = [NoGraph EXCEPT !.exists = TRUE]
      /\ call' = [call EXCEPT !.step = "parse", !.added = todo]
      /\ behind' = TRUE /\ quiet' = TRUE
      /\ UNCHANGED <<tree, manifest, meta, edits, calls, faults>>
  BY DEF index_codebase_begin
<1> HIDE DEF todo
<1>3. /\ graph' \in Graph /\ graph'.exists /\ ~graph'.marker
      /\ graph'.node = NoGraph.node
  BY <1>2, EmptyRecords DEF Graph
<1>4. /\ call' \in Call /\ call'.step = "parse" /\ call'.added = todo
      /\ call'.current = call.current /\ call'.next = call.next
  <2>1. todo \subseteq Files BY DEF todo
  <2> QED BY <1>1, <1>2, <2>1 DEF Call, Steps
<1>5. TypeOK' BY <1>1, <1>2, <1>3, <1>4 DEF TypeOK
<1>6. StampsAreFresh' BY <1>2, <1>4, StampsKept DEF IInv
<1>7. FullIndexInv'
  BY <1>2, <1>3, <1>4, EmptyRecords DEF FullIndexInv, full_index, todo
<1> QED BY <1>2, <1>3, <1>4, <1>5, <1>6, <1>7
        DEF IInv, ManifestIsOfGraph, Repairable, RefreshInv, DiscoveredInv

\* What parsing a file puts into the graph is a node of the graph of the tree.
LEMMA ParsedNode ==
    ASSUME TypeOK, NEW f \in Files
    PROVE  /\ parsed(f) \in Node /\ parsed(f).file /\ parsed(f).syms = tree[f].content
           /\ tree[f].content # Gone => full_index(f) = parsed(f)
           /\ tree[f].content = Gone => full_index(f) = NoNode
BY Types DEF parsed, Node, full_index

LEMMA ParseKeepsIInv == \A f \in Files : IInv /\ index_single_file(f) => IInv'
<1> SUFFICES ASSUME NEW f \in Files, IInv, index_single_file(f) PROVE IInv' OBVIOUS
<1>1. TypeOK /\ call \in Call /\ graph \in Graph /\ call.added \subseteq Files
  BY Types DEF IInv
<1>2. /\ graph' = [graph EXCEPT !.node[f] = parsed(f)]
      /\ call' = [call EXCEPT !.added = @ \ {f}]
      /\ call.step = "parse" /\ f \in call.added
      /\ UNCHANGED <<tree, manifest, meta, edits, calls, faults, behind, quiet>>
  BY DEF index_single_file
<1>3. /\ graph' \in Graph /\ graph'.exists = graph.exists /\ graph'.marker = graph.marker
      /\ graph'.node = [graph.node EXCEPT ![f] = parsed(f)]
  <2> HIDE DEF parsed
  <2> QED BY <1>1, <1>2, ParsedNode DEF Graph
<1>4. /\ call' \in Call /\ call'.step = "parse" /\ call'.added = call.added \ {f}
      /\ call'.current = call.current /\ call'.next = call.next
  BY <1>1, <1>2 DEF Call
<1>5. TypeOK' BY <1>1, <1>2, <1>3, <1>4 DEF TypeOK
<1>6. StampsAreFresh' BY <1>2, <1>4, StampsKept DEF IInv
<1>7. graph.exists /\ behind /\ ~graph.marker BY <1>2 DEF IInv, FullIndexInv
<1>8. FullIndexInv'
  <2>1. \A g \in Files : full_index(g)' = full_index(g)
    BY <1>2 DEF full_index, parsed
  <2>2. graph.node \in [Files -> Node] BY <1>1, Types
  <2>3. quiet => \A g \in Files :
            /\ g \notin call.added => graph.node[g] = full_index(g)
            /\ g \in call.added => tree[g].content # Gone
    BY <1>2 DEF IInv, FullIndexInv
  <2>4. quiet => \A g \in Files :
            /\ g \notin call'.added => graph'.node[g] = full_index(g)
            /\ g \in call'.added => tree[g].content # Gone
    BY <1>1, <1>2, <1>3, <1>4, <2>2, <2>3, ParsedNode
  <2> QED BY <1>2, <1>3, <1>4, <1>7, <2>1, <2>4 DEF FullIndexInv
<1> QED BY <1>2, <1>3, <1>4, <1>5, <1>6, <1>7, <1>8
        DEF IInv, ManifestIsOfGraph, Repairable, RefreshInv, DiscoveredInv

\* The markers are written when all files are parsed: from here on a refresh
\* is possible, with whatever manifest an earlier call left.
LEMMA MarkersKeepIInv == IInv /\ write_markers => IInv'
<1> SUFFICES ASSUME IInv, write_markers PROVE IInv' OBVIOUS
<1>1. TypeOK /\ call \in Call /\ graph \in Graph /\ "walk" \in Steps BY Types DEF IInv, Steps
<1>2. /\ graph' = [graph EXCEPT !.marker = TRUE] /\ Goto("walk")
      /\ call.step = "parse" /\ call.added = {}
      /\ UNCHANGED <<tree, manifest, meta, edits, calls, faults, behind, quiet>>
  BY DEF write_markers
<1>3. /\ graph' \in Graph /\ graph'.exists = graph.exists /\ graph'.marker
      /\ graph'.node = graph.node
  BY <1>1, <1>2 DEF Graph
<1>4. /\ call' \in Call /\ call'.step = "walk" /\ call'.added = {}
      /\ call'.current = call.current /\ call'.next = call.next
  BY <1>1, <1>2, GotoStep
<1>5. TypeOK' BY <1>1, <1>2, <1>3, <1>4 DEF TypeOK
<1>6. StampsAreFresh' BY <1>2, <1>4, StampsKept DEF IInv
<1>7. graph.exists /\ behind BY <1>2 DEF IInv, FullIndexInv
<1>8. quiet => \A f \in Files : graph.node[f] = full_index(f)
  BY <1>2 DEF IInv, FullIndexInv
<1>9. Repairable'
  BY <1>1, <1>2, <1>3, <1>8, ParsedNode DEF Repairable, Entries
<1>10. FullIndexInv' BY <1>2, <1>3, <1>4, <1>7, <1>8 DEF FullIndexInv, full_index, parsed
<1> QED BY <1>2, <1>3, <1>4, <1>5, <1>6, <1>7, <1>9, <1>10
        DEF IInv, ManifestIsOfGraph, RefreshInv, DiscoveredInv

LEMMA DiscoverKeepsIInv ==
    ASSUME IInv, discover("walk", "save_full") \/ discover("discover", "classify")
    PROVE  IInv'
<1>1. TypeOK /\ call \in Call /\ {"save_full", "classify"} \subseteq Steps BY Types DEF IInv, Steps
<1>2. PICK next \in {"save_full", "classify"} :
         /\ call' = [call EXCEPT !.step = next, !.current = stamps]
         /\ next = "save_full" => call.step = "walk"
         /\ next = "classify" => call.step = "discover"
  BY DEF discover
<1>3. UNCHANGED <<tree, graph, manifest, meta, edits, calls, faults, behind, quiet>>
  BY DEF discover
<1>4. stamps \in [Files -> Nat] /\ \A f \in Files : stamps[f] <= edits
  <2>1. \A f \in Files : tree[f].stamp \in 1 .. edits BY DEF IInv, StampsAreFresh
  <2> QED BY <1>1, <2>1, Types DEF stamps
<1>5. stamps' = stamps BY <1>3 DEF stamps
<1> HIDE DEF stamps
<1>6. /\ call' \in Call /\ call'.step = next /\ call'.current = stamps
      /\ call'.next = call.next /\ call'.added = call.added
  BY <1>1, <1>2, <1>4 DEF Call
<1>7. TypeOK' BY <1>1, <1>3, <1>6 DEF TypeOK
<1>8. StampsAreFresh' BY <1>3, <1>4, <1>6 DEF IInv, StampsAreFresh, Records
<1>9. ManifestIsOfGraph' /\ Repairable'
  BY <1>3 DEF IInv, ManifestIsOfGraph, Repairable, Entries, matches
<1>10. FullIndexInv'
  BY <1>2, <1>3, <1>6 DEF IInv, FullIndexInv, full_index, parsed
<1>11. RefreshInv' BY <1>2, <1>3, <1>6 DEF IInv, RefreshInv
<1>12. DiscoveredInv' BY <1>5, <1>6 DEF DiscoveredInv
<1> QED BY <1>3, <1>7, <1>8, <1>9, <1>10, <1>11, <1>12 DEF IInv
\* Saving a manifest that asks for the graph of the tree over such a graph.
LEMMA SaveKeepsIInv ==
    ASSUME IInv, NEW files \in [Files -> FileState], save(files), Records(files),
           quiet => \A f \in Files : /\ graph.node[f] = full_index(f)
                                     /\ node_of(files[f]) = full_index(f)
    PROVE  IInv'
<1>1. TypeOK /\ call \in Call /\ manifest.id \in Nat /\ "meta" \in Steps
  BY Types DEF IInv, Steps
<1>2. /\ manifest' = [id |-> manifest.id + 1, files |-> files]
      /\ behind' = FALSE /\ Goto("meta")
      /\ UNCHANGED <<tree, graph, meta, edits, calls, faults, quiet>>
  BY DEF save
<1>3. manifest' \in Manifest /\ manifest'.id = manifest.id + 1 /\ manifest'.files = files
  BY <1>1, <1>2 DEF Manifest
<1>4. /\ call' \in Call /\ call'.step = "meta"
      /\ call'.current = call.current /\ call'.next = call.next
  BY <1>1, <1>2, GotoStep
<1>5. meta' \in 0 .. manifest'.id
  <2>1. meta \in 0 .. manifest.id BY <1>1 DEF TypeOK
  <2> QED BY <1>1, <1>2, <1>3, <2>1
<1>6. TypeOK' BY <1>1, <1>2, <1>3, <1>4, <1>5 DEF TypeOK
<1>7. StampsAreFresh' BY <1>2, <1>3, <1>4 DEF IInv, StampsAreFresh, Records
<1>8. ManifestIsOfGraph'
  <2>1. quiet => \A f \in Files : graph.node[f] = node_of(files[f]) OBVIOUS
  <2>2. \A f \in Files : node_of(manifest.files[f])' = node_of(files[f]) BY <1>3 DEF node_of
  <2> QED BY <1>2, <2>1, <2>2 DEF ManifestIsOfGraph
<1>9. Repairable' BY <1>1, <1>2, ParsedNode DEF Repairable
<1>10. FullIndexInv' /\ RefreshInv' /\ DiscoveredInv'
  BY <1>4 DEF FullIndexInv, RefreshInv, DiscoveredInv
<1> QED BY <1>2, <1>6, <1>7, <1>8, <1>9, <1>10 DEF IInv

\* The manifest of a full index asks for what the index parsed.
LEMMA FullManifest ==
    ASSUME IInv, write_full_manifest
    PROVE  /\ [f \in Files |-> hashed(f)] \in [Files -> FileState]
           /\ Records([f \in Files |-> hashed(f)])
           /\ quiet => \A f \in Files : /\ graph.node[f] = full_index(f)
                                        /\ node_of(hashed(f)) = full_index(f)
<1> DEFINE files == [f \in Files |-> hashed(f)]
<1>1. TypeOK /\ call.current \in [Files -> Nat]
      /\ \A f \in Files : tree[f].content \in MaybeContent
  BY Types DEF IInv
<1>2. \A f \in Files :
        /\ hashed(f) \in FileState /\ hashed(f).stamp = call.current[f]
        /\ hashed(f).stamp = 0 => hashed(f).hash = Gone
        /\ hashed(f).stamp # 0 => hashed(f).hash = tree[f].content
  BY <1>1, EmptyRecords DEF hashed, FileState
<1>3. files \in [Files -> FileState] BY <1>2
<1>4. Records(files)
  BY <1>2 DEF IInv, StampsAreFresh, Records
<1>5. ASSUME quiet, NEW f \in Files
      PROVE  graph.node[f] = full_index(f) /\ node_of(hashed(f)) = full_index(f)
  <2>1. graph.node[f] = full_index(f)
    BY <1>5 DEF IInv, FullIndexInv, write_full_manifest
  <2>2. call.current[f] = stamps[f]
    BY <1>5 DEF IInv, DiscoveredInv, write_full_manifest
  <2>3. tree[f].stamp # 0 BY DEF IInv, StampsAreFresh
  <2>4. CASE tree[f].content = Gone
    <3>1. hashed(f).stamp = 0 /\ hashed(f).hash = Gone BY <1>2, <2>2, <2>4 DEF stamps
    <3>2. node_of(hashed(f)) = [file |-> FALSE, syms |-> Gone] BY <1>2, <3>1, NodeOf
    <3> QED BY <1>1, <2>1, <2>4, <3>2, ParsedNode DEF NoNode
  <2>5. CASE tree[f].content # Gone
    <3>1. hashed(f).stamp # 0 /\ hashed(f).hash = tree[f].content
      BY <1>2, <2>2, <2>3, <2>5 DEF stamps
    <3>2. node_of(hashed(f)) = [file |-> TRUE, syms |-> tree[f].content]
      BY <1>2, <3>1, NodeOf
    <3> QED BY <1>1, <2>1, <2>5, <3>2, ParsedNode DEF parsed
  <2> QED BY <2>4, <2>5
<1> QED BY <1>3, <1>4, <1>5

LEMMA FullSaveKeepsIInv == IInv /\ write_full_manifest => IInv'
<1> SUFFICES ASSUME IInv, write_full_manifest PROVE IInv' OBVIOUS
<1> DEFINE files == [f \in Files |-> hashed(f)]
<1>1. save(files) BY DEF write_full_manifest
<1>2. /\ files \in [Files -> FileState] /\ Records(files)
      /\ quiet => \A f \in Files : /\ graph.node[f] = full_index(f)
                                   /\ node_of(files[f]) = full_index(f)
  BY FullManifest
<1> HIDE DEF files
<1> QED BY <1>1, <1>2, SaveKeepsIInv
\* A refresh starts only over a graph with its markers.
LEMMA OpenKeepsIInv == IInv /\ require_markers /\ graph.marker => IInv'
<1> SUFFICES ASSUME IInv, require_markers, graph.marker PROVE IInv' OBVIOUS
<1>1. TypeOK /\ call \in Call /\ "discover" \in Steps BY Types DEF IInv, Steps
<1>2. /\ Goto("discover")
      /\ UNCHANGED <<tree, graph, manifest, meta, edits, calls, faults, behind, quiet>>
  BY DEF require_markers
<1>3. /\ call' \in Call /\ call'.step = "discover"
      /\ call'.current = call.current /\ call'.next = call.next
  BY <1>1, <1>2, GotoStep
<1>4. TypeOK' BY <1>1, <1>2, <1>3 DEF TypeOK
<1>5. StampsAreFresh' BY <1>2, <1>3, StampsKept DEF IInv
<1>6. ManifestIsOfGraph' /\ Repairable'
  BY <1>2 DEF IInv, ManifestIsOfGraph, Repairable, Entries, matches
<1> QED BY <1>2, <1>3, <1>4, <1>5, <1>6
        DEF IInv, FullIndexInv, RefreshInv, DiscoveredInv

\* The next manifest records what is known of every file, and asks for the
\* graph of the tree.
LEMMA NextManifest ==
    ASSUME IInv, call.step = "classify"
    PROVE  LET next == [f \in Files |-> next_state(f)]
           IN  /\ next \in [Files -> FileState] /\ Records(next)
               /\ quiet => \A f \in Files : node_of(next[f]) = full_index(f)
<1> DEFINE next == [f \in Files |-> next_state(f)]
<1>1. /\ TypeOK /\ call.current \in [Files -> Nat]
      /\ manifest.files \in [Files -> FileState]
      /\ \A f \in Files : tree[f].content \in MaybeContent
  BY Types DEF IInv
<1>2. \A f \in Files :
        /\ hashed(f) \in FileState /\ hashed(f).stamp = call.current[f]
        /\ hashed(f).stamp = 0 => hashed(f).hash = Gone
        /\ hashed(f).stamp # 0 => hashed(f).hash = tree[f].content
  BY <1>1, EmptyRecords DEF hashed, FileState
<1>3. \A f \in Files :
        /\ next_state(f) \in FileState /\ next_state(f).stamp = call.current[f]
        /\ next_state(f).stamp = 0 => next_state(f).hash = Gone
        /\ next_state(f).stamp # 0 /\ next_state(f).stamp = tree[f].stamp
             => next_state(f).hash = tree[f].content
  <2> SUFFICES ASSUME NEW f \in Files
               PROVE  /\ next_state(f) \in FileState /\ next_state(f).stamp = call.current[f]
                      /\ next_state(f).stamp = 0 => next_state(f).hash = Gone
                      /\ next_state(f).stamp # 0 /\ next_state(f).stamp = tree[f].stamp
                           => next_state(f).hash = tree[f].content
    OBVIOUS
  <2>1. CASE present(f) /\ f \in Entries /\ same_stamp(f)
    <3>1. next_state(f) = manifest.files[f] BY <2>1 DEF next_state
    <3>2. Records(manifest.files) BY DEF IInv, StampsAreFresh
    <3> QED BY <1>1, <2>1, <3>1, <3>2 DEF Records, same_stamp
  <2>2. CASE ~(present(f) /\ f \in Entries /\ same_stamp(f))
    <3>1. next_state(f) = hashed(f) BY <2>2 DEF next_state
    <3> QED BY <1>2, <3>1
  <2> QED BY <2>1, <2>2
<1>4. next \in [Files -> FileState] BY <1>3
<1>5. Records(next) BY <1>3 DEF IInv, StampsAreFresh, Records
<1>6. ASSUME quiet, NEW f \in Files PROVE node_of(next[f]) = full_index(f)
  <2>1. call.current[f] = stamps[f] BY <1>6 DEF IInv, DiscoveredInv
  <2>2. tree[f].stamp # 0 BY DEF IInv, StampsAreFresh
  <2>3. CASE tree[f].content = Gone
    <3>1. next_state(f).stamp = 0 /\ next_state(f).hash = Gone BY <1>3, <2>1, <2>3 DEF stamps
    <3>2. node_of(next_state(f)) = [file |-> FALSE, syms |-> Gone] BY <1>3, <3>1, NodeOf
    <3> QED BY <1>1, <2>3, <3>2, ParsedNode DEF NoNode
  <2>4. CASE tree[f].content # Gone
    <3>1. next_state(f).stamp # 0 /\ next_state(f).hash = tree[f].content
      BY <1>3, <2>1, <2>2, <2>4 DEF stamps
    <3>2. node_of(next_state(f)) = [file |-> TRUE, syms |-> tree[f].content]
      BY <1>3, <3>1, NodeOf
    <3> QED BY <1>1, <2>4, <3>2, ParsedNode DEF parsed
  <2> QED BY <2>3, <2>4
<1> QED BY <1>4, <1>5, <1>6

\* What the classification leaves alone is as in the tree already.
LEMMA ClassifyKeepsIInv == IInv /\ classify => IInv'
<1> SUFFICES ASSUME IInv, classify PROVE IInv' OBVIOUS
<1> DEFINE next == [f \in Files |-> next_state(f)]
<1>1. TypeOK /\ call \in Call /\ "purge" \in Steps /\ graph.node \in [Files -> Node]
  BY Types DEF IInv, Steps
<1>2. /\ call.step = "classify"
      /\ call' = [call EXCEPT !.step = "purge", !.purge = changed_files \cup deleted_files,
                              !.deleted = deleted_files, !.changed = changed_files,
                              !.added = added_files, !.next = next]
      /\ UNCHANGED <<tree, graph, manifest, meta, edits, calls, faults, behind, quiet>>
  BY DEF classify
<1>3. /\ next \in [Files -> FileState] /\ Records(next)
      /\ quiet => \A f \in Files : node_of(next[f]) = full_index(f)
  BY <1>2, NextManifest
<1>4. /\ changed_files \subseteq Files /\ deleted_files \subseteq Files
      /\ added_files \subseteq Files
  BY DEF changed_files, deleted_files, added_files, Entries
<1> HIDE DEF next
<1>5. /\ call' \in Call /\ call'.step = "purge" /\ call'.next = next
      /\ call'.current = call.current
  BY <1>1, <1>2, <1>3, <1>4 DEF Call
<1>6. /\ call'.purge = changed_files \cup deleted_files /\ call'.deleted = deleted_files
      /\ call'.changed = changed_files /\ call'.added = added_files
  BY <1>1, <1>2 DEF Call
<1>7. TypeOK' BY <1>1, <1>2, <1>5 DEF TypeOK
<1>8. StampsAreFresh' BY <1>2, <1>3, <1>5 DEF IInv, StampsAreFresh, Records
<1>9. ManifestIsOfGraph' /\ Repairable'
  BY <1>2 DEF IInv, ManifestIsOfGraph, Repairable, Entries, matches
<1>10. FullIndexInv' /\ DiscoveredInv' BY <1>5 DEF FullIndexInv, DiscoveredInv
<1>11. graph.marker BY <1>2 DEF IInv, RefreshInv
<1>12. ASSUME quiet, NEW f \in Files
       PROVE  /\ f \in deleted_files <=> f \in Entries /\ tree[f].content = Gone
              /\ f \in changed_files => f \in Entries /\ tree[f].content # Gone /\ ~matches(f)
              /\ f \in added_files => f \notin Entries /\ tree[f].content # Gone
              /\ f \notin deleted_files \cup changed_files \cup added_files =>
                   graph.node[f] = full_index(f)
  <2>1. call.current[f] = stamps[f] /\ tree[f].stamp # 0
    BY <1>2, <1>12 DEF IInv, DiscoveredInv, StampsAreFresh
  <2>2. present(f) <=> tree[f].content # Gone BY <2>1 DEF stamps, present
  <2>3. present(f) => (same_stamp(f) <=> manifest.files[f].stamp = tree[f].stamp)
    BY <2>1, <2>2 DEF stamps, same_stamp
  <2>4. f \in deleted_files <=> f \in Entries /\ tree[f].content = Gone
    BY <2>2 DEF deleted_files
  <2>5. f \in added_files <=> f \notin Entries /\ tree[f].content # Gone
    BY <2>2 DEF added_files
  <2>6. f \in changed_files <=> f \in Entries /\ tree[f].content # Gone /\ ~matches(f)
    BY <2>2, <2>3 DEF changed_files, same_content, matches
  <2>7. ASSUME f \notin deleted_files \cup changed_files \cup added_files
        PROVE  graph.node[f] = full_index(f)
    <3>1. CASE tree[f].content = Gone
      BY <1>1, <1>11, <1>12, <2>4, <2>7, <3>1, ParsedNode DEF IInv, Repairable
    <3>2. CASE tree[f].content # Gone
      <4>1. f \in Entries /\ matches(f) BY <2>5, <2>6, <2>7, <3>2
      <4>2. graph.node[f].file /\ graph.node[f].syms = tree[f].content
        BY <1>11, <1>12, <3>2, <4>1 DEF IInv, Repairable
      <4>3. graph.node[f].file = TRUE BY <1>1, <4>2, Types
      <4> QED BY <1>1, <3>2, <4>2, <4>3, Types, ParsedNode DEF parsed
    <3> QED BY <3>1, <3>2
  <2> QED BY <2>4, <2>5, <2>6, <2>7
<1>13. RefreshInv'
  <2>1. \A f \in Files : full_index(f)' = full_index(f) /\ (matches(f)' <=> matches(f))
    BY <1>2 DEF full_index, parsed, matches
  <2>2. Entries' = Entries BY <1>2 DEF Entries
  <2>3. \A f \in Files : node_of(call.next[f])' = node_of(next[f]) BY <1>5 DEF node_of
  <2> QED BY <1>2, <1>3, <1>5, <1>6, <1>11, <1>12, <2>1, <2>2, <2>3 DEF RefreshInv
<1> QED BY <1>2, <1>7, <1>8, <1>9, <1>10, <1>13 DEF IInv
\* A refresh at work on one file: it stays repairable, and a file that is done
\* with is as in the tree.
LEMMA RefreshStep ==
    ASSUME IInv, NEW f \in Files, NEW n \in Node, call.step \in {"purge", "reparse"},
           graph' = [graph EXCEPT !.node[f] = n], behind' = TRUE,
           UNCHANGED <<tree, manifest, meta, edits, calls, faults, quiet>>,
           call' \in Call, call'.step = call.step, call'.current = call.current,
           call'.next = call.next, call'.deleted = call.deleted,
           call'.purge \in {call.purge, call.purge \ {f}},
           call'.changed \in {call.changed, call.changed \ {f}},
           call'.added \in {call.added, call.added \ {f}},
           quiet => /\ call'.purge \subseteq call'.deleted \cup call'.changed
                    /\ f \notin call'.purge \cup call'.changed \cup call'.added =>
                         n = full_index(f)
                    /\ f \notin Entries /\ tree[f].content = Gone => n = NoNode
                    /\ f \in Entries /\ tree[f].content # Gone =>
                         n.file /\ (matches(f) => n.syms = tree[f].content)
    PROVE  IInv'
<1>1. TypeOK /\ graph \in Graph /\ graph.node \in [Files -> Node] BY Types DEF IInv
<1>2. /\ graph' \in Graph /\ graph'.exists = graph.exists /\ graph'.marker = graph.marker
      /\ graph'.node = [graph.node EXCEPT ![f] = n]
  BY <1>1 DEF Graph
<1>3. graph'.node[f] = n /\ \A g \in Files \ {f} : graph'.node[g] = graph.node[g]
  BY <1>1, <1>2
<1>4. TypeOK' BY <1>1, <1>2 DEF TypeOK
<1>5. StampsAreFresh' BY StampsKept DEF IInv
<1>6. /\ Entries' = Entries
      /\ \A g \in Files : full_index(g)' = full_index(g) /\ (matches(g)' <=> matches(g))
  BY DEF Entries, full_index, parsed, matches
<1>7. Repairable'
  BY <1>2, <1>3, <1>6 DEF IInv, Repairable
<1>8. FullIndexInv' /\ DiscoveredInv' /\ ManifestIsOfGraph'
  BY DEF FullIndexInv, DiscoveredInv, ManifestIsOfGraph
<1>9. graph.marker /\ (call.step = "reparse" => call.purge = {})
  BY DEF IInv, RefreshInv
<1>10. ASSUME quiet, NEW g \in Files
       PROVE  /\ g \in call'.deleted <=> g \in Entries /\ tree[g].content = Gone
              /\ g \in call'.changed => g \in Entries /\ tree[g].content # Gone /\ ~matches(g)
              /\ g \in call'.added => g \notin Entries /\ tree[g].content # Gone
              /\ g \notin call'.purge \cup call'.changed \cup call'.added =>
                   graph'.node[g] = full_index(g)
              /\ node_of(call.next[g]) = full_index(g)
  BY <1>3, <1>10 DEF IInv, RefreshInv
<1>11. RefreshInv'
  <2>1. \A g \in Files : node_of(call.next[g])' = node_of(call.next[g]) BY DEF node_of
  <2> QED BY <1>2, <1>6, <1>9, <1>10, <2>1 DEF RefreshInv
<1> QED BY <1>2, <1>4, <1>5, <1>7, <1>8, <1>11 DEF IInv

LEMMA PurgeKeepsIInv == \A f \in Files : IInv /\ purge_file(f) => IInv'
<1> SUFFICES ASSUME NEW f \in Files, IInv, purge_file(f) PROVE IInv' OBVIOUS
<1> DEFINE n == IF f \in call.deleted THEN NoNode
                ELSE [file |-> graph.node[f].file, syms |-> Gone]
<1>1. /\ TypeOK /\ call \in Call /\ call.purge \subseteq Files
      /\ graph \in Graph /\ graph.node \in [Files -> Node] /\ graph.node[f].file \in BOOLEAN
  BY Types DEF IInv
<1>2. n \in Node BY <1>1, EmptyRecords, BoundsAreNumbers DEF Node
<1>3. /\ call.step = "purge" /\ f \in call.purge
      /\ call' = [call EXCEPT !.purge = @ \ {f}] /\ behind' = TRUE
      /\ UNCHANGED <<tree, manifest, meta, edits, calls, faults, quiet>>
  BY DEF purge_file
<1>4. graph' = [graph EXCEPT !.node[f] = n]
  <2>1. [graph.node[f] EXCEPT !.syms = Gone] = [file |-> graph.node[f].file, syms |-> Gone]
    BY <1>1 DEF Node
  <2> QED BY <2>1 DEF purge_file
<1>5. /\ call' \in Call /\ call'.step = call.step /\ call'.current = call.current
      /\ call'.next = call.next /\ call'.deleted = call.deleted
      /\ call'.purge = call.purge \ {f} /\ call'.changed = call.changed
      /\ call'.added = call.added
  BY <1>1, <1>3 DEF Call
<1>6. ASSUME quiet
      PROVE  /\ call'.purge \subseteq call'.deleted \cup call'.changed
             /\ f \notin call'.purge \cup call'.changed \cup call'.added => n = full_index(f)
             /\ f \notin Entries /\ tree[f].content = Gone => n = NoNode
             /\ f \in Entries /\ tree[f].content # Gone =>
                  n.file /\ (matches(f) => n.syms = tree[f].content)
  <2>1. /\ call.purge \subseteq call.deleted \cup call.changed
        /\ f \in call.deleted <=> f \in Entries /\ tree[f].content = Gone
        /\ f \in call.changed => f \in Entries /\ tree[f].content # Gone /\ ~matches(f)
    BY <1>3, <1>6 DEF IInv, RefreshInv
  <2>2. f \in Entries /\ tree[f].content # Gone => graph.node[f].file
    BY <1>3, <1>6 DEF IInv, RefreshInv, Repairable
  <2>3. CASE f \in call.deleted
    BY <1>1, <1>5, <2>1, <2>3, ParsedNode
  <2>4. CASE f \notin call.deleted
    BY <1>3, <1>5, <2>1, <2>2, <2>4
  <2> QED BY <2>3, <2>4
<1> HIDE DEF n
<1> QED BY <1>2, <1>3, <1>4, <1>5, <1>6, RefreshStep

LEMMA ReparseKeepsIInv == \A f \in Files : IInv /\ reparse_modified_file(f) => IInv'
<1> SUFFICES ASSUME NEW f \in Files, IInv, reparse_modified_file(f) PROVE IInv' OBVIOUS
<1> DEFINE n == [file |-> graph.node[f].file, syms |-> tree[f].content]
<1>1. /\ TypeOK /\ call \in Call /\ call.changed \subseteq Files /\ tree[f].content \in MaybeContent
      /\ graph \in Graph /\ graph.node \in [Files -> Node] /\ graph.node[f].file \in BOOLEAN
  BY Types DEF IInv
<1>2. n \in Node BY <1>1 DEF Node
<1>3. /\ call.step = "reparse" /\ f \in call.changed
      /\ call' = [call EXCEPT !.changed = @ \ {f}] /\ behind' = TRUE
      /\ UNCHANGED <<tree, manifest, meta, edits, calls, faults, quiet>>
  BY DEF reparse_modified_file
<1>4. graph' = [graph EXCEPT !.node[f] = n]
  <2>1. [graph.node[f] EXCEPT !.syms = tree[f].content] = n BY <1>1 DEF Node
  <2> QED BY <2>1 DEF reparse_modified_file
<1>5. /\ call' \in Call /\ call'.step = call.step /\ call'.current = call.current
      /\ call'.next = call.next /\ call'.deleted = call.deleted
      /\ call'.purge = call.purge /\ call'.changed = call.changed \ {f}
      /\ call'.added = call.added
  BY <1>1, <1>3 DEF Call
<1>6. ASSUME quiet
      PROVE  /\ call'.purge \subseteq call'.deleted \cup call'.changed
             /\ f \notin call'.purge \cup call'.changed \cup call'.added => n = full_index(f)
             /\ f \notin Entries /\ tree[f].content = Gone => n = NoNode
             /\ f \in Entries /\ tree[f].content # Gone =>
                  n.file /\ (matches(f) => n.syms = tree[f].content)
  <2>1. call.purge = {} /\ f \in Entries /\ tree[f].content # Gone /\ graph.marker
    BY <1>3, <1>6 DEF IInv, RefreshInv
  <2>2. graph.node[f].file BY <1>6, <2>1 DEF IInv, Repairable
  <2>3. graph.node[f].file = TRUE BY <1>1, <2>2
  <2>4. n = parsed(f) BY <2>3 DEF parsed
  <2> QED BY <1>1, <1>5, <2>1, <2>2, <2>4, ParsedNode
<1> HIDE DEF n
<1> QED BY <1>2, <1>3, <1>4, <1>5, <1>6, RefreshStep

LEMMA AddKeepsIInv ==
    \A f \in Files : IInv /\ reparse_new_file(f) /\ ~graph.node[f].file => IInv'
<1> SUFFICES ASSUME NEW f \in Files, IInv, reparse_new_file(f), ~graph.node[f].file PROVE IInv'
  OBVIOUS
<1>1. /\ TypeOK /\ call \in Call /\ call.added \subseteq Files
  BY Types DEF IInv
<1>2. parsed(f) \in Node BY <1>1, ParsedNode
<1>3. /\ call.step = "reparse" /\ f \in call.added /\ call.changed = {}
      /\ call' = [call EXCEPT !.added = @ \ {f}] /\ behind' = TRUE
      /\ graph' = [graph EXCEPT !.node[f] = parsed(f)]
      /\ UNCHANGED <<tree, manifest, meta, edits, calls, faults, quiet>>
  BY DEF reparse_new_file
<1>4. /\ call' \in Call /\ call'.step = call.step /\ call'.current = call.current
      /\ call'.next = call.next /\ call'.deleted = call.deleted
      /\ call'.purge = call.purge /\ call'.changed = call.changed
      /\ call'.added = call.added \ {f}
  BY <1>1, <1>3 DEF Call
<1>5. quiet => call.purge = {} /\ f \notin Entries /\ tree[f].content # Gone
  BY <1>3 DEF IInv, RefreshInv
<1>6. quiet => full_index(f) = parsed(f) BY <1>1, <1>5, ParsedNode
<1> QED BY <1>2, <1>3, <1>4, <1>5, <1>6, RefreshStep

\* The lists are worked off in their order.
LEMMA DoneKeepsIInv == IInv /\ (purge_done \/ reparse_done) => IInv'
<1> SUFFICES ASSUME IInv, purge_done \/ reparse_done PROVE IInv' OBVIOUS
<1>1. TypeOK /\ call \in Call /\ {"reparse", "save"} \subseteq Steps BY Types DEF IInv, Steps
<1>2. PICK st \in {"reparse", "save"} :
         /\ Goto(st)
         /\ st = "reparse" => call.step = "purge" /\ call.purge = {}
         /\ st = "save" => call.step = "reparse" /\ call.changed = {} /\ call.added = {}
  BY DEF purge_done, reparse_done
<1>3. UNCHANGED <<tree, graph, manifest, meta, edits, calls, faults, behind, quiet>>
  BY DEF purge_done, reparse_done
<1>4. /\ call' \in Call /\ call'.step = st /\ call'.current = call.current
      /\ call'.purge = call.purge /\ call'.deleted = call.deleted
      /\ call'.changed = call.changed /\ call'.added = call.added
      /\ call'.next = call.next
  BY <1>1, <1>2, GotoStep
<1>5. TypeOK' BY <1>1, <1>3, <1>4 DEF TypeOK
<1>6. StampsAreFresh' BY <1>3, <1>4, StampsKept DEF IInv
<1>7. ManifestIsOfGraph' /\ Repairable'
  BY <1>3 DEF IInv, ManifestIsOfGraph, Repairable, Entries, matches
<1>8. FullIndexInv' /\ DiscoveredInv' BY <1>2, <1>4 DEF FullIndexInv, DiscoveredInv
<1>9. RefreshInv'
  <2>1. /\ Entries' = Entries
        /\ \A f \in Files : /\ full_index(f)' = full_index(f) /\ (matches(f)' <=> matches(f))
                            /\ node_of(call.next[f])' = node_of(call.next[f])
    BY <1>3, <1>4 DEF Entries, full_index, parsed, matches, node_of
  <2>2. /\ call.step \in {"purge", "reparse"} /\ graph.marker
        /\ call.step = "reparse" => call.purge = {}
        /\ quiet =>
             /\ call.purge \subseteq call.deleted \cup call.changed
             /\ \A f \in Files :
                /\ f \in call.deleted <=> f \in Entries /\ tree[f].content = Gone
                /\ f \in call.changed => f \in Entries /\ tree[f].content # Gone /\ ~matches(f)
                /\ f \in call.added => f \notin Entries /\ tree[f].content # Gone
                /\ f \notin call.purge \cup call.changed \cup call.added =>
                     graph.node[f] = full_index(f)
                /\ node_of(call.next[f]) = full_index(f)
    BY <1>2 DEF IInv, RefreshInv
  <2> QED BY <1>2, <1>3, <1>4, <2>1, <2>2 DEF RefreshInv
<1> QED BY <1>3, <1>5, <1>6, <1>7, <1>8, <1>9 DEF IInv

LEMMA NextSave ==
    ASSUME IInv, save_next_manifest
    PROVE  /\ call.next \in [Files -> FileState] /\ Records(call.next)
           /\ quiet => \A f \in Files : /\ graph.node[f] = full_index(f)
                                        /\ node_of(call.next[f]) = full_index(f)
<1>1. call.next \in [Files -> FileState] BY Types DEF IInv
<1>2. Records(call.next) BY DEF IInv, StampsAreFresh
<1>3. call.step = "save" BY DEF save_next_manifest
<1> QED BY <1>1, <1>2, <1>3 DEF IInv, RefreshInv

LEMMA NextSaveKeepsIInv == IInv /\ save_next_manifest => IInv'
<1> SUFFICES ASSUME IInv, save_next_manifest PROVE IInv' OBVIOUS
<1>1. save(call.next) BY DEF save_next_manifest
<1> QED BY <1>1, NextSave, SaveKeepsIInv

LEMMA StutterKeepsIInv == IInv /\ UNCHANGED vars => IInv'
<1> SUFFICES ASSUME IInv, UNCHANGED vars PROVE IInv' OBVIOUS
<1>1. UNCHANGED <<tree, graph, manifest, meta, call, edits, calls, faults, behind, quiet>>
  BY DEF vars
<1>2. TypeOK' BY <1>1 DEF IInv, TypeOK
<1>3. StampsAreFresh' BY <1>1, StampsKept DEF IInv
<1>4. ManifestIsOfGraph' /\ Repairable'
  BY <1>1 DEF IInv, ManifestIsOfGraph, Repairable, Entries, matches
<1>5. FullIndexInv' /\ DiscoveredInv'
  BY <1>1 DEF IInv, FullIndexInv, DiscoveredInv, full_index, parsed, stamps
<1>6. RefreshInv'
  BY <1>1 DEF IInv, RefreshInv, Entries, full_index, parsed, matches, node_of
<1> QED BY <1>1, <1>2, <1>3, <1>4, <1>5, <1>6 DEF IInv

\* The invariant holds whenever files are edited, calls are made and faults
\* happen, at any step of a call.
THEOREM PipelineInvariant == Spec => []IInv
<1>1. IInv /\ [Next]_vars => IInv'
  <2> SUFFICES ASSUME IInv, [Next]_vars PROVE IInv' OBVIOUS
  <2>1. CASE CallStep
    BY <2>1, NeutralSteps, OpenKeepsIInv, RemoveKeepsIInv, BeginKeepsIInv, ParseKeepsIInv,
       MarkersKeepIInv, DiscoverKeepsIInv, FullSaveKeepsIInv, ClassifyKeepsIInv,
       PurgeKeepsIInv, DoneKeepsIInv, ReparseKeepsIInv, AddKeepsIInv, NextSaveKeepsIInv
    DEF CallStep
  <2>2. CASE \E f \in Files, c \in MaybeContent : edit(f, c) BY <2>2, EditKeepsIInv
  <2>3. CASE (\E want_full \in BOOLEAN : do_index_codebase(want_full)) \/ cut_short
    BY <2>3, NeutralSteps
  <2>4. CASE UNCHANGED vars BY <2>4, StutterKeepsIInv
  <2> QED BY <2>1, <2>2, <2>3, <2>4 DEF Next
<1> QED BY <1>1, InitIInv, PTL DEF Spec

\* Every variable keeps its type; in particular meta.json never names a
\* manifest that was not saved (write_graph_meta).
THEOREM PipelineTypes == Spec => []TypeOK
<1>1. IInv => TypeOK BY DEF IInv
<1> QED BY <1>1, PipelineInvariant, PTL

\* Once a call has saved it, file_manifest.json describes the graph beside it,
\* entry by entry, also after calls that were cut short (save, purge_file,
\* reparse_modified_file, reparse_new_file).
THEOREM ManifestDescribesGraph == Spec => []ManifestIsOfGraph
<1>1. IInv => ManifestIsOfGraph BY DEF IInv
<1> QED BY <1>1, PipelineInvariant, PTL

\* What is counted as dirty is nothing only if no entry is dirty.
LEMMA NothingDirty ==
    ASSUME count_dirty = 0
    PROVE  \A f \in Entries : /\ tree[f].content # Gone
                              /\ tree[f].stamp = manifest.files[f].stamp
<1> DEFINE dirty == {f \in Entries : \/ tree[f].content = Gone
                                     \/ tree[f].stamp # manifest.files[f].stamp}
<1>1. IsFiniteSet(dirty)
  <2>1. dirty \subseteq Files BY DEF Entries
  <2>2. IsFiniteSet(Files) BY PipelineAssumption DEF PipelineAssumption
  <2> HIDE DEF dirty
  <2> QED BY <2>1, <2>2, FS_Subset
<1>2. Cardinality(dirty) = 0 BY DEF count_dirty
<1>3. dirty = {}
  <2> HIDE DEF dirty
  <2> QED BY <1>1, <1>2, FS_EmptySet
<1> QED BY <1>3

\* A receipt that says fresh over a graph with its markers is right about every
\* file it checked, in the middle of a call and after a crash too
\* (graph_freshness::check).
THEOREM FreshReceiptsAreRight == Spec => []FreshIsCurrent
<1>1. IInv => FreshIsCurrent
  <2> SUFFICES ASSUME IInv, quiet, graph.marker, check = "fresh", NEW f \in Entries
               PROVE  graph.node[f] = parsed(f)
    BY DEF FreshIsCurrent
  <2>1. f \in Files /\ TypeOK BY DEF Entries, IInv
  <2>2. count_dirty = 0 BY DEF check
  <2>3. tree[f].content # Gone /\ tree[f].stamp = manifest.files[f].stamp
    BY <2>2, NothingDirty
  <2>4. graph.node[f].file /\ graph.node[f].syms = tree[f].content
    BY <2>1, <2>3 DEF IInv, Repairable, matches
  <2>5. graph.node[f].file = TRUE BY <2>1, <2>4, Types
  <2> QED BY <2>1, <2>4, <2>5, Types DEF parsed
<1> QED BY <1>1, PipelineInvariant, PTL

\* When a call saves its manifest, the graph is what a full index of the tree
\* would produce, whichever way the call came and whatever earlier calls left
\* (index_incremental, index_codebase).
THEOREM SavedGraphs == Spec => SavedGraphIsFullIndex
<1> DEFINE Full == quiet /\ manifest'.id # manifest.id =>
                     \A f \in Files : graph.node[f] = full_index(f)
<1>1. IInv /\ [Next]_vars => [Full]_vars
  <2> SUFFICES ASSUME IInv, Next, quiet, manifest'.id # manifest.id
               PROVE  \A f \in Files : graph.node[f] = full_index(f)
    BY DEF vars
  <2>1. CASE write_full_manifest BY <2>1, FullManifest
  <2>2. CASE save_next_manifest BY <2>2, NextSave
  <2>3. CASE ~write_full_manifest /\ ~save_next_manifest
    <3>1. UNCHANGED manifest
      BY <2>3 DEF Next, CallStep, edit, do_index_codebase, require_markers,
                  remove_stale_graph_artifact, index_codebase_begin, index_single_file,
                  write_markers, discover, write_full_manifest_failed, write_graph_meta,
                  classify, purge_file, purge_done, reparse_modified_file,
                  reparse_new_file, reparse_done, incremental_failed, cut_short
    <3> QED BY <3>1
  <2> QED BY <2>1, <2>2, <2>3
<1> HIDE DEF Full
<1>2. Spec => [][Full]_vars BY <1>1, PipelineInvariant, PTL DEF Spec
<1> QED BY <1>2 DEF Full, SavedGraphIsFullIndex
=============================================================================
