--------------------------- MODULE IncrementalEdges ---------------------------
(***************************************************************************)
(* What an incremental refresh does to the rows of the graph: the calls and *)
(* links into, out of and across the files it purges and parses again, the  *)
(* claims of the call sites, and the coverage sidecar.  IndexPipeline has   *)
(* the manifest and its stamps; here the manifest is the content each file  *)
(* had.  The tree stands still while a refresh runs.                        *)
(***************************************************************************)
EXTENDS Naturals, FiniteSets

CONSTANTS Files, Absent,
          Contents,          \* the contents a file can have, by file
          DirOf,             \* the directory of a file
          DefsOf, CallsOf,   \* of a content: the names it defines, and calls
          TypeNames,         \* names of enums, traits and type aliases
          LinksOf,           \* the files it links to
          BasesOf,           \* the kustomizations it builds on
          GapOf,             \* how its parse falls short: "none" or a kind
          MaxEdits, MaxCalls, MaxResolves, MaxFaults   \* bounds

ASSUME IncrementalEdgesAssumption ==
    /\ MaxEdits \in Nat /\ MaxCalls \in Nat /\ MaxResolves \in Nat /\ MaxFaults \in Nat
    /\ \A f \in Files : Absent \notin Contents[f]
    /\ \A f \in Files : \A c \in Contents[f] :
          /\ "main" \in DefsOf[c] \/ CallsOf[c] = {}
          /\ GapOf[c] # "outside"

VARIABLES
    tree,         \* the content of every file, or Absent
    outside,      \* files no Cargo target compiles, as cargo answers now
    manifest,     \* the content of every file at the last refresh
    coverage,     \* the sidecar: a kind of gap, or "none", for every file
    files, dirs, symbols,   \* nodes; a call site is <<file, callee, "site">>
    sites, rows,            \* rows are <<table, from, to>>
    is_resolved,
    call,         \* the call in progress: step and work lists
    edits, calls, resolves, faults,
    \* history
    settled,      \* the last refresh came to its end, and nothing was edited since
    torn,         \* files of a change set that was begun and not saved
    crossed,      \* files edited while they were torn
    unflushed,    \* sites claimed by a resolve_graph that wrote no rows (yet)
    unreported,   \* files a refresh left without their entry in the sidecar
    doubled,      \* some row was created twice
    before        \* rows and claims when the refresh began, and the rows it lost

nodes == <<files, dirs, symbols, sites>>
disk == <<tree, outside>>
graph == <<nodes, rows, is_resolved>>
bounds == <<edits, calls, resolves, faults>>
history == <<settled, torn, crossed, unflushed, unreported, doubled, before>>
vars == <<disk, manifest, coverage, graph, call, bounds, history>>

NoCall == [step |-> "idle", changed |-> {}, added |-> {}, deleted |-> {}, todo |-> {},
           saved |-> {}, reopened |-> {}, next |-> [f \in Files |-> Absent],
           gaps |-> [f \in Files |-> "none"]]
NoBefore == [rows |-> {}, claims |-> {}, lost |-> {}]
Idle == call.step = "idle"
Goto(s) == call' = [call EXCEPT !.step = s]

-----------------------------------------------------------------------------
(* The rows an index of a tree t consists of.                              *)

Present(t) == {f \in Files : t[f] # Absent}
owning_file(id) == id[1]
Sym(f, n) == <<f, n, "symbol">>
Site(f, n) == <<f, n, "site">>
FileId(f) == <<f, "", "file">>
CallerOf(site) == Sym(site[1], "main")

SymbolsOf(f, c) == {Sym(f, n) : n \in DefsOf[c]}
SitesOf(f, c) == {Site(f, n) : n \in CallsOf[c]}

\* link_file_imports_for: out of the given sources, into files there are.
link_file_imports_for(t, sources) ==
    UNION {{<<"References_File_File", FileId(f), FileId(g)>> :
                g \in (LinksOf[t[f]] \ {f}) \cap Present(t)} :
        f \in sources \cap Present(t)}

\* run_iac_pass_for: a base that is a kustomization is linked as a module, any
\* other file as a file.  The modules are those in the graph.
Module(f) == Sym(f, "kustomize")
run_iac_pass_for(t, sources, syms) ==
    UNION {{IF Module(g) \in syms
            THEN <<"Imports_IacModule_IacModule", Module(f), Module(g)>>
            ELSE <<"Imports_IacModule_File", Module(f), FileId(g)>> :
                g \in (BasesOf[t[f]] \ {f}) \cap Present(t)} :
        f \in sources \cap Present(t)}

IndexedSymbols(t) == UNION {SymbolsOf(f, t[f]) : f \in Present(t)}
IndexedSites(t) == UNION {SitesOf(f, t[f]) : f \in Present(t)}
IndexedLinks(t) ==
    link_file_imports_for(t, Present(t)) \cup
    run_iac_pass_for(t, Present(t), IndexedSymbols(t))

-----------------------------------------------------------------------------
(* Rows: created one by one, deleted with either end.                      *)

Ends(r) == {r[2], r[3]}
Nodes(fs, ss, cs) == {FileId(f) : f \in fs} \cup ss \cup cs
Detached(rs, present) == {r \in rs : Ends(r) \subseteq present}
create_rows(new) ==
    /\ rows' = rows \cup new
    /\ doubled' = (doubled \/ new \cap rows # {})

-----------------------------------------------------------------------------
(* The user.                                                               *)

edit(f, c) ==
    /\ Idle /\ edits < MaxEdits
    /\ c # tree[f]
    /\ tree' = [tree EXCEPT ![f] = c]
    /\ edits' = edits + 1
    /\ settled' = FALSE
    /\ crossed' = crossed \cup ({f} \cap torn)
    /\ UNCHANGED <<outside, manifest, coverage, graph, call, calls, resolves, faults,
                   torn, unflushed, unreported, doubled, before>>

edit_cargo(f) ==
    /\ Idle /\ edits < MaxEdits
    /\ outside' = (outside \ {f}) \cup ({f} \ outside)
    /\ edits' = edits + 1
    /\ settled' = FALSE
    /\ UNCHANGED <<tree, manifest, coverage, graph, call, calls, resolves, faults, torn, crossed,
                   unflushed, unreported, doubled, before>>

-----------------------------------------------------------------------------
(* index_incremental.                                                      *)

\* A rename is a deletion and an addition.
classify ==
    /\ Idle /\ calls < MaxCalls
    /\ calls' = calls + 1
    /\ call' = [NoCall EXCEPT
          !.step = "snapshot",
          !.changed = {f \in Present(tree) : manifest[f] \notin {Absent, tree[f]}},
          !.added = {f \in Present(tree) : manifest[f] = Absent},
          !.deleted = {f \in Present(manifest) : tree[f] = Absent},
          !.next = tree]
    /\ before' = [rows |-> rows, claims |-> is_resolved, lost |-> {}]
    /\ UNCHANGED <<disk, manifest, coverage, graph, edits, resolves, faults, settled, torn, crossed,
                   unflushed, unreported, doubled>>

Reparsed == call.changed \cup call.added
Purged == call.changed \cup call.deleted

\* Inbound rows of the symbols of changed files, from files that stay; read,
\* and kept in memory.
SymbolTables == {"Calls_Function_Function", "Calls_CallSite_Function", "Uses_Function_Enum",
                 "Imports_IacModule_IacModule"}
snapshot_call_sites ==
    /\ call.step = "snapshot"
    /\ call' = [call EXCEPT !.step = "reopen",
          !.saved = {r \in rows : /\ r[1] = "Calls_CallSite_Function"
                                  /\ owning_file(r[3]) \in call.changed
                                  /\ owning_file(r[2]) \notin Reparsed}]
    /\ UNCHANGED <<disk, manifest, coverage, graph, bounds, history>>
snapshot_inbound_edges ==
    /\ call.step = "snapshot"
    /\ call' = [call EXCEPT !.step = "reopen",
          !.saved = {r \in rows : /\ r[1] \in SymbolTables
                                  /\ owning_file(r[3]) \in call.changed
                                  /\ owning_file(r[2]) \notin Reparsed}]
    /\ UNCHANGED <<disk, manifest, coverage, graph, bounds, history>>

\* Claims that the purge may take away are withdrawn first.
collect_sites ==
    {r[2] : r \in {x \in rows : /\ x[1] = "Calls_CallSite_Function"
                                /\ owning_file(x[3]) \in Purged
                                /\ owning_file(x[2]) \notin Reparsed \cup Purged}}
reopen_changed_only ==
    /\ call.step = "reopen"
    /\ LET mine == {s \in collect_sites : \E r \in call.saved : r[2] = s}
       IN  /\ is_resolved' = is_resolved \ mine
           /\ call' = [call EXCEPT !.step = "purge", !.reopened = mine, !.todo = Purged]
    /\ UNCHANGED <<disk, manifest, coverage, nodes, rows, bounds, history>>
reopen_sites_resolved_into ==
    /\ call.step = "reopen"
    /\ is_resolved' = is_resolved \ collect_sites
    /\ call' = [call EXCEPT !.step = "purge", !.reopened = collect_sites, !.todo = Purged]
    /\ UNCHANGED <<disk, manifest, coverage, nodes, rows, bounds, history>>

\* Symbols, sites and outbound links of a modified file; a deleted one loses
\* its File node and with it every row.
purge_file(f) ==
    /\ call.step = "purge" /\ f \in call.todo
    /\ symbols' = {s \in symbols : owning_file(s) # f}
    /\ sites' = {s \in sites : owning_file(s) # f}
    /\ is_resolved' = is_resolved \cap sites'
    /\ files' = IF f \in call.deleted THEN files \ {f} ELSE files
    /\ rows' = Detached({r \in rows : ~(r[1] = "References_File_File" /\ r[2] = FileId(f))},
                        Nodes(files', symbols', sites'))
    /\ call' = [call EXCEPT !.todo = @ \ {f}]
    /\ settled' = FALSE
    /\ torn' = torn \cup Reparsed \cup Purged
    /\ unflushed' = unflushed \cap sites'
    /\ UNCHANGED <<disk, manifest, coverage, dirs, bounds, crossed, unreported, doubled, before>>

purge_done ==
    /\ call.step = "purge" /\ call.todo = {}
    /\ call' = [call EXCEPT !.step = "reparse", !.todo = call.changed]
    /\ UNCHANGED <<disk, manifest, coverage, graph, bounds, history>>

Parse(f) ==
    /\ symbols' = symbols \cup SymbolsOf(f, tree[f])
    /\ sites' = sites \cup SitesOf(f, tree[f])
    /\ settled' = FALSE
    /\ torn' = torn \cup Reparsed \cup Purged
    /\ UNCHANGED <<disk, manifest, coverage, rows, is_resolved, bounds, crossed, unflushed,
                   unreported, doubled, before>>
\* record_reparse_outcome.
Record(f) == [call.gaps EXCEPT ![f] = GapOf[tree[f]]]

reparse_modified_file(f) ==
    /\ call.step = "reparse" /\ f \in call.todo
    /\ Parse(f)
    /\ call' = [call EXCEPT !.todo = @ \ {f}, !.gaps = Record(f)]
    /\ UNCHANGED <<files, dirs>>
reparse_modified_done ==
    /\ call.step = "reparse" /\ call.todo = {}
    /\ call' = [call EXCEPT !.step = "new", !.todo = call.added]
    /\ UNCHANGED <<disk, manifest, coverage, graph, bounds, history>>

reparse_new_file(f) ==
    /\ call.step = "new" /\ f \in call.todo
    /\ f \notin files
    /\ Parse(f)
    /\ files' = files \cup {f} /\ dirs' = dirs \cup {DirOf[f]}
    /\ call' = [call EXCEPT !.todo = @ \ {f}, !.gaps = Record(f)]
reparse_new_done ==
    /\ call.step = "new" /\ call.todo = {}
    /\ Goto("prune")
    /\ UNCHANGED <<disk, manifest, coverage, graph, bounds, history>>

prune_of_added ==
    /\ call.step = "prune"
    /\ dirs' = IF call.added = {} THEN dirs ELSE {DirOf[f] : f \in files}
    /\ Goto("links")
    /\ UNCHANGED <<disk, manifest, coverage, files, symbols, sites, rows, is_resolved, bounds,
                   history>>
prune_orphan_directories ==
    /\ call.step = "prune"
    /\ dirs' = IF call.deleted = {} THEN dirs ELSE {DirOf[f] : f \in files}
    /\ Goto("links")
    /\ UNCHANGED <<disk, manifest, coverage, files, symbols, sites, rows, is_resolved, bounds,
                   history>>

\* Both passes are skipped when no file was parsed.
light_link ==
    /\ call.step = "links"
    /\ create_rows(link_file_imports_for(tree, Reparsed))
    /\ Goto("iac")
    /\ UNCHANGED <<disk, manifest, coverage, nodes, is_resolved, bounds, settled, torn, crossed,
                   unflushed, unreported, before>>
iac ==
    /\ call.step = "iac"
    /\ create_rows(run_iac_pass_for(tree, Reparsed, symbols))
    /\ Goto("relink")
    /\ UNCHANGED <<disk, manifest, coverage, nodes, is_resolved, bounds, settled, torn, crossed,
                   unflushed, unreported, before>>

\* A row whose end did not come back is created nowhere.  An insert that fails
\* is logged and passed over: the refresh goes on without the row.
relink_inbound_edges ==
    /\ call.step = "relink"
    /\ \E failed \in SUBSET Detached(call.saved, Nodes(files, symbols, sites)) :
         /\ create_rows(Detached(call.saved, Nodes(files, symbols, sites)) \ failed)
         /\ before' = [before EXCEPT !.lost = failed]
         /\ faults' = faults + (IF failed = {} THEN 0 ELSE 1)
    /\ faults' <= MaxFaults
    /\ Goto("restore")
    /\ UNCHANGED <<disk, manifest, coverage, nodes, is_resolved, edits, calls, resolves, settled,
                   torn, crossed, unflushed, unreported>>

SiteRow(r) == r[1] = "Calls_CallSite_Function"
HasSiteRow(s) == \E r \in rows : SiteRow(r) /\ r[2] = s
restore_sites_with_edge ==
    /\ call.step = "restore"
    /\ is_resolved' = is_resolved \cup {s \in call.reopened : HasSiteRow(s)}
    /\ Goto("save")
    /\ UNCHANGED <<disk, manifest, coverage, nodes, rows, bounds, history>>

save_manifest ==
    /\ call.step = "save"
    /\ manifest' = call.next
    /\ Goto("coverage")
    /\ torn' = torn \ (Reparsed \cup Purged)
    /\ unreported' = unreported \cup Reparsed
    /\ UNCHANGED <<disk, coverage, graph, bounds, settled, crossed, unflushed, doubled,
                   before>>

-----------------------------------------------------------------------------
(* The sidecar of gaps.                                                    *)

CargoKinds == {"outside"}
\* Entries of unchanged files are carried over, except what cargo answers
\* anew; what was parsed has its fresh entry; cargo's come last and do not
\* replace a gap of the parse.
merge_coverage_all(prior) ==
    [f \in Files |-> IF f \in Reparsed THEN call.gaps[f]
                     ELSE IF tree[f] # Absent THEN prior[f] ELSE "none"]
merge_coverage(prior) ==
    [f \in Files |-> IF f \in Reparsed THEN call.gaps[f]
                     ELSE IF tree[f] # Absent /\ prior[f] \notin CargoKinds THEN prior[f]
                     ELSE "none"]
overlay_cargo_attributions(report) ==
    [f \in Files |-> IF f \in outside /\ tree[f] # Absent /\ report[f] = "none"
                     THEN "outside" ELSE report[f]]

save_incremental_coverage ==
    /\ call.step = "coverage"
    /\ coverage' = overlay_cargo_attributions(merge_coverage(coverage))
    /\ unreported' = unreported \ Reparsed
    /\ call' = NoCall
    /\ settled' = TRUE
    /\ before' = NoBefore
    /\ UNCHANGED <<disk, manifest, graph, bounds, torn, crossed, unflushed, doubled>>

\* Best effort: the call succeeds without it.
save_coverage_failed ==
    /\ call.step = "coverage" /\ faults < MaxFaults
    /\ faults' = faults + 1
    /\ call' = NoCall
    /\ settled' = FALSE
    /\ before' = NoBefore
    /\ UNCHANGED <<disk, manifest, coverage, graph, edits, calls, resolves, torn, crossed, unflushed,
                   unreported, doubled>>

-----------------------------------------------------------------------------
(* A full index: asked for, or because the id of a new file exists already *)
(* and the refresh failed.  Its steps are in IndexPipeline.                *)

IndexAll ==
    /\ files' = Present(tree) /\ dirs' = {DirOf[f] : f \in Present(tree)}
    /\ symbols' = IndexedSymbols(tree) /\ sites' = IndexedSites(tree)
    /\ rows' = IndexedLinks(tree) /\ is_resolved' = {}
    /\ manifest' = tree
    /\ coverage' = overlay_cargo_attributions(
          [f \in Files |-> IF tree[f] = Absent THEN "none" ELSE GapOf[tree[f]]])
    /\ call' = NoCall
    /\ settled' = TRUE /\ torn' = {} /\ crossed' = {}
    /\ unflushed' = {} /\ unreported' = {} /\ before' = NoBefore
    /\ UNCHANGED <<disk, edits, resolves, faults, doubled>>

index_codebase_with_language == Idle /\ calls < MaxCalls /\ calls' = calls + 1 /\ IndexAll
fall_back_to_full ==
    /\ call.step = "new"
    /\ \E f \in call.todo : f \in files
    /\ IndexAll
    /\ UNCHANGED calls

-----------------------------------------------------------------------------
(* resolve_graph over every site; a claim once made is not withdrawn.      *)

\* A definition in the file itself, or else the only one.
Candidates(n) == {s \in symbols : s[2] = n}
Target(site) ==
    LET all == Candidates(site[2])
        here == {s \in all : s[1] = site[1]}
    IN  IF Cardinality(here) = 1 THEN here ELSE IF Cardinality(all) = 1 THEN all ELSE {}
Resolvable == {s \in sites : Target(s) # {}}
\* A function has a row from the caller and one from the site; a type is used by
\* the caller, and the schema has no table for a row from the site.
call_rel_table(n) == IF n \in TypeNames THEN "Uses_Function_Enum" ELSE "Calls_Function_Function"
call_site_rel_table(n) == IF n \in TypeNames THEN {} ELSE {"Calls_CallSite_Function"}
stage_call_edge(s, t) ==
    {<<call_rel_table(s[2]), CallerOf(s), t>>}
    \cup {<<site_rel, s, t>> : site_rel \in call_site_rel_table(s[2])}
ResolvedRows == UNION {UNION {stage_call_edge(s, t) : t \in Target(s)} : s \in Resolvable}

\* The claims are written first, and the rows at the end of all phases.
resolve_calls ==
    /\ Idle /\ resolves < MaxResolves
    /\ resolves' = resolves + 1
    /\ is_resolved' = is_resolved \cup Resolvable
    /\ unflushed' = unflushed \cup {s \in Resolvable : ~HasSiteRow(s)}
    /\ call' = [NoCall EXCEPT !.step = "flush", !.todo = {r[1] : r \in ResolvedRows}]
    /\ UNCHANGED <<disk, manifest, coverage, nodes, rows, edits, calls, faults, settled, torn, crossed,
                   unreported, doubled, before>>

\* EdgeBuffer: what was persisted when the pass began is not staged again.
flush(table) ==
    /\ call.step = "flush" /\ table \in call.todo
    /\ create_rows({r \in ResolvedRows : r[1] = table} \ rows)
    /\ call' = [call EXCEPT !.todo = @ \ {table}]
    /\ UNCHANGED <<disk, manifest, coverage, nodes, is_resolved, bounds, settled, torn, crossed,
                   unflushed, unreported, before>>
resolve_graph_done ==
    /\ call.step = "flush" /\ call.todo = {}
    /\ call' = NoCall
    /\ unflushed' = unflushed \ Resolvable
    /\ UNCHANGED <<disk, manifest, coverage, graph, bounds, settled, torn, crossed, unreported, doubled,
                   before>>

\* The process ends, or a statement fails: the work lists are gone.
cut_short ==
    /\ ~Idle /\ faults < MaxFaults
    /\ faults' = faults + 1
    /\ call' = NoCall
    /\ before' = NoBefore
    /\ UNCHANGED <<disk, manifest, coverage, graph, edits, calls, resolves, settled, torn, crossed,
                   unflushed, unreported, doubled>>

-----------------------------------------------------------------------------
\* Some tree, indexed.
Init ==
    /\ tree \in {t \in [Files -> {Absent} \cup UNION {Contents[f] : f \in Files}] :
                   \A f \in Files : t[f] \in Contents[f] \cup {Absent}}
    /\ outside = {}
    /\ manifest = tree
    /\ files = Present(tree) /\ dirs = {DirOf[f] : f \in Present(tree)}
    /\ symbols = IndexedSymbols(tree) /\ sites = IndexedSites(tree)
    /\ rows = IndexedLinks(tree) /\ is_resolved = {}
    /\ coverage = [f \in Files |-> IF tree[f] = Absent THEN "none" ELSE GapOf[tree[f]]]
    /\ call = NoCall
    /\ edits = 0 /\ calls = 0 /\ resolves = 0 /\ faults = 0
    /\ settled = TRUE /\ torn = {} /\ crossed = {} /\ unflushed = {} /\ unreported = {} /\ doubled = FALSE
    /\ before = NoBefore

Next ==
    \/ \E f \in Files : \/ \E c \in Contents[f] \cup {Absent} : edit(f, c)
                       \/ edit_cargo(f)
                       \/ purge_file(f) \/ reparse_modified_file(f) \/ reparse_new_file(f)
    \/ classify \/ snapshot_inbound_edges \/ reopen_sites_resolved_into \/ purge_done
    \/ reparse_modified_done \/ reparse_new_done \/ prune_orphan_directories
    \/ light_link \/ iac \/ relink_inbound_edges \/ restore_sites_with_edge
    \/ save_manifest \/ save_incremental_coverage \/ save_coverage_failed
    \/ index_codebase_with_language \/ fall_back_to_full
    \/ resolve_calls \/ resolve_graph_done
    \/ \E table \in SymbolTables : flush(table)
    \/ cut_short

Spec == Init /\ [][Next]_vars

-----------------------------------------------------------------------------
(* Properties.                                                             *)

\* A call site that claims a resolution has its row, in every state of a
\* refresh and wherever it is cut short (stale_sites.rs).  Left out: sites of
\* files that are themselves about to be parsed again, claims of a resolve_graph
\* that was cut short between the claims and the rows, and the gap the code
\* accepts: a site resolved to a type has no row of its own, so that nothing
\* withdraws its claim.  A row that failed to be linked again takes its claim
\* along.
ClaimsHaveRows ==
    \A s \in is_resolved :
        \/ HasSiteRow(s)
        \/ s \in unflushed \/ owning_file(s) \in torn
        \/ call_site_rel_table(s[2]) = {}

\* At its end a refresh has kept every row from a file it did not touch to a
\* node that is there, but for those whose insert failed (edges.rs), and the site
\* of such a row has its claim exactly if a row of it is there: none is left
\* open that could have been restored, and none claims what was lost.
RefreshKeepsRows ==
    call.step = "coverage" =>
        \A r \in before.rows :
            (owning_file(r[2]) \notin Reparsed \cup Purged
             /\ Ends(r) \subseteq Nodes(files, symbols, sites)) =>
                /\ r \in rows \cup before.lost
                /\ SiteRow(r) /\ r[2] \in before.claims =>
                     (r[2] \in is_resolved <=> HasSiteRow(r[2]))

\* No row is created a second time, also when a pass or a refresh is repeated
\* after it was cut short (EdgeBuffer, relink_inbound_edges, light links).
NoRowTwice == ~doubled

\* After a refresh the nodes are those of a full index, whatever was cut short
\* before it, unless a file of the change set that was cut short was edited
\* in between.
NodesOfTree ==
    (settled /\ crossed = {}) =>
        /\ files = Present(tree) /\ dirs = {DirOf[f] : f \in Present(tree)}
        /\ symbols = IndexedSymbols(tree) /\ sites = IndexedSites(tree)

\* After a refresh the sidecar has exactly the gaps of the current contents and
\* of the current Cargo targets, for every file a refresh could report on.
GapsAreCurrent ==
    (settled /\ unreported = {}) =>
        coverage = overlay_cargo_attributions(
            [f \in Files |-> IF tree[f] = Absent THEN "none" ELSE GapOf[tree[f]]])

\* The postcondition of apply_changes at the index stage, for links.
LinksOfTree ==
    (settled /\ crossed = {}) => {r \in rows : r[1] \notin {"Calls_Function_Function",
                                 "Calls_CallSite_Function", "Uses_Function_Enum"}} = IndexedLinks(tree)

-----------------------------------------------------------------------------
(* The inductive invariant, in layers.                                     *)

Content == UNION {Contents[f] : f \in Files}
Name == (UNION {DefsOf[c] \cup CallsOf[c] : c \in Content}) \cup {"", "main", "kustomize"}
Id == Files \X Name \X {"symbol", "site", "file"}
Tables == SymbolTables \cup {"References_File_File", "Imports_IacModule_File"}
Row == Tables \X Id \X Id
Tree == {t \in [Files -> {Absent} \cup Content] : \A f \in Files : t[f] \in Contents[f] \cup {Absent}}
Gap == {GapOf[c] : c \in Content} \cup {"none", "outside"}
Steps == {"idle", "snapshot", "reopen", "purge", "reparse", "new", "prune", "links", "iac",
          "relink", "restore", "save", "coverage", "flush"}
Call == [step : Steps, changed : SUBSET Files, added : SUBSET Files, deleted : SUBSET Files,
         todo : SUBSET (Files \cup SymbolTables), saved : SUBSET Row, reopened : SUBSET Id,
         next : Tree, gaps : [Files -> Gap]]

\* The types of tree, graph, call and history.
TypeOK ==
    /\ tree \in Tree /\ outside \subseteq Files /\ manifest \in Tree /\ coverage \in [Files -> Gap]
    /\ files \subseteq Files
    /\ symbols \subseteq Id /\ \A s \in symbols : s[3] = "symbol"
    /\ sites \subseteq Id /\ \A s \in sites : s[3] = "site"
    /\ rows \subseteq Row /\ is_resolved \subseteq sites
    /\ call \in Call
    /\ torn \subseteq Files /\ crossed \subseteq Files /\ unreported \subseteq Files
    /\ unflushed \subseteq Id /\ settled \in BOOLEAN /\ doubled \in BOOLEAN
    /\ before \in [rows : SUBSET Row, claims : SUBSET Id, lost : SUBSET Row]

\* The steps of a refresh: all, those after the purge, those after the parse.
AfterParse == {"prune", "links", "iac", "relink", "restore", "save", "coverage"}
AfterPurge == {"reparse", "new"} \cup AfterParse
Refreshing == call.step \in {"snapshot", "reopen", "purge"} \cup AfterPurge

\* The work lists of a refresh are the differences of manifest and tree.
WorkInv ==
    /\ Refreshing => call.next = tree
    /\ Refreshing /\ call.step # "coverage" =>
         /\ call.changed = {f \in Present(tree) : manifest[f] \notin {Absent, tree[f]}}
         /\ call.added = {f \in Present(tree) : manifest[f] = Absent}
         /\ call.deleted = {f \in Present(manifest) : tree[f] = Absent}
    /\ call.step = "coverage" =>
         manifest = tree /\ Reparsed \subseteq Present(tree) /\ call.deleted \cap Present(tree) = {}
    /\ call.step = "purge" => call.todo \subseteq Purged
    /\ call.step = "reparse" => call.todo \subseteq call.changed
    /\ call.step = "new" => call.todo \subseteq call.added /\ call.added \ call.todo \subseteq files
    /\ call.step \in AfterParse => call.added \subseteq files

\* Nothing in the graph belongs to file f.
Gone(f) ==
    /\ f \notin files
    /\ \A s \in symbols \cup sites : owning_file(s) # f
    /\ \A r \in rows : owning_file(r[2]) # f /\ owning_file(r[3]) # f

\* A file without a File node that the manifest does not know either has left
\* nothing behind; so has a deleted file once it is purged.
GoneInv ==
    /\ \A f \in Files : manifest[f] = Absent /\ f \notin files => Gone(f)
    /\ call.step = "purge" => \A f \in call.deleted \ call.todo : Gone(f)
    /\ call.step \in AfterPurge => \A f \in call.deleted : Gone(f)

StructInv == TypeOK /\ WorkInv /\ GoneInv

Touched == Reparsed \cup Purged

\* What the claims rest on while a refresh withdraws and restores them.
ClaimsInv ==
    /\ \A r \in rows : SiteRow(r) => r[2] \in sites /\ r[3] \in Nodes(files, symbols, sites)
    /\ Refreshing => \A r \in call.saved :
         SiteRow(r) => owning_file(r[2]) \notin Reparsed /\ (r[2] \in sites \/ owning_file(r[2]) \in call.deleted)
    /\ Refreshing => \A s \in call.reopened : s \in sites /\ owning_file(s) \notin Touched
    /\ call.step = "purge" =>
         /\ \A s \in is_resolved, r \in rows :
              owning_file(s) \notin Touched /\ SiteRow(r) /\ r[2] = s => owning_file(r[3]) \notin Purged
         /\ \A s \in is_resolved : owning_file(s) \notin Purged \ call.todo
    /\ call.step \in AfterPurge => \A s \in is_resolved : owning_file(s) \notin Purged
    /\ call.step = "new" => \A s \in is_resolved : owning_file(s) \notin call.added \ call.todo
    /\ call.step \in AfterParse => \A s \in is_resolved : owning_file(s) \notin call.added
    /\ call.step = "flush" => \A r \in ResolvedRows : r[1] \in call.todo \/ r \in rows

\* The ends of a row are what its table says.
Shaped(r) ==
    /\ r[2][3] = "site" <=> SiteRow(r)
    /\ r[1] \notin SymbolTables => r[3] = FileId(owning_file(r[3]))
    /\ r[1] = "References_File_File" => r[2] = FileId(owning_file(r[2]))

\* Rows the refresh leaves alone.
Stays(r) == owning_file(r[2]) \notin Touched /\ owning_file(r[3]) \notin call.deleted \cup call.added

\* What is in the graph, in the list of saved rows or in that of withdrawn
\* claims, of what was there when the refresh began.  A row into a file that is
\* new and yet in the graph makes the refresh fall back, so that it never gets
\* past the new files.
KeepInv ==
    /\ \A r \in rows \cup before.rows : Shaped(r)
    /\ \A s \in before.claims : s[3] = "site"
    /\ call.step \in {"snapshot", "reopen"} =>
         before = [rows |-> rows, claims |-> is_resolved, lost |-> {}]
    /\ Refreshing /\ call.step # "snapshot" =>
         call.saved = {r \in before.rows : /\ r[1] \in SymbolTables
                                           /\ owning_file(r[3]) \in call.changed
                                           /\ owning_file(r[2]) \notin Reparsed}
    /\ call.step \in {"snapshot", "reopen", "purge", "reparse", "new"} =>
         \A r \in before.rows : owning_file(r[3]) \in call.added =>
             owning_file(r[3]) \in files /\ (call.step = "new" => owning_file(r[3]) \in call.todo)
    /\ call.step \in AfterParse => \A r \in before.rows : owning_file(r[3]) \notin call.added
    /\ call.step \in {"purge"} \cup AfterPurge => \A r \in before.rows :
         (/\ Stays(r) /\ r[2] \in Nodes(files, symbols, sites)
          /\ r \in call.saved \/ r[3] \in Nodes(files, symbols, sites)) =>
             r \in rows \cup call.saved
    /\ call.step \in {"restore", "save", "coverage"} =>
         /\ before.lost \subseteq call.saved
         /\ \A r \in before.rows :
              Stays(r) /\ Ends(r) \subseteq Nodes(files, symbols, sites) => r \in rows \cup before.lost
    /\ call.step \in ({"purge"} \cup AfterPurge) \ {"save", "coverage"} =>
         /\ \A s \in before.claims :
              owning_file(s) \notin Touched => s \in is_resolved \cup call.reopened
         /\ \A r \in call.saved :
              SiteRow(r) /\ owning_file(r[2]) \notin Touched => r[2] \notin is_resolved
    /\ call.step \in {"save", "coverage"} =>
         /\ \A s \in before.claims :
              owning_file(s) \notin Touched /\ HasSiteRow(s) => s \in is_resolved
         /\ \A r \in call.saved :
              SiteRow(r) /\ owning_file(r[2]) \notin Touched /\ r[2] \in is_resolved =>
                  HasSiteRow(r[2])

\* The graph has for f no symbol or site, or exactly the nodes of content c.
Bare(f) == \A s \in symbols \cup sites : owning_file(s) # f
NodesOf(f, c) ==
    /\ f \in files <=> c # Absent
    /\ {s \in symbols : owning_file(s) = f} = IF c = Absent THEN {} ELSE SymbolsOf(f, c)
    /\ {s \in sites : owning_file(s) = f} = IF c = Absent THEN {} ELSE SitesOf(f, c)

\* Unless a torn file was edited: every file has the nodes of its manifest entry
\* or is torn, and then the next refresh has it in its change set again.
NodesInv ==
    crossed = {} =>
        /\ \A f \in Files \ torn : NodesOf(f, manifest[f])
        /\ \A f \in torn : /\ manifest[f] # tree[f]
                           /\ manifest[f] # Absent /\ tree[f] # Absent => f \in files
        /\ call.step = "purge" => \A f \in Purged \ call.todo : Bare(f)
        /\ call.step = "reparse" => \A f \in call.changed :
             IF f \in call.todo THEN Bare(f) ELSE NodesOf(f, tree[f])
        /\ call.step = "new" => \A f \in Reparsed \ call.todo : NodesOf(f, tree[f])
        /\ call.step \in AfterParse => \A f \in Reparsed : NodesOf(f, tree[f])
        /\ \/ dirs = {DirOf[f] : f \in files}
           \/ /\ call.step \notin AfterParse \ {"prune"}
              /\ {DirOf[f] : f \in files} \subseteq dirs
              /\ \E f \in torn : manifest[f] # Absent /\ tree[f] = Absent

\* The sidecar has the gap of the content in the manifest, or cargo's word on a
\* file without one; the gaps of what is parsed are in the call.
GapsInv ==
    /\ \A f \in Files \ unreported : manifest[f] # Absent =>
         \/ coverage[f] = GapOf[manifest[f]]
         \/ coverage[f] = "outside" /\ GapOf[manifest[f]] = "none"
    /\ call.step = "reparse" => \A f \in call.changed \ call.todo : call.gaps[f] = GapOf[tree[f]]
    /\ call.step = "new" => \A f \in Reparsed \ call.todo : call.gaps[f] = GapOf[tree[f]]
    /\ call.step \in AfterParse => \A f \in Reparsed : call.gaps[f] = GapOf[tree[f]]

\* What kind of node the ends of a row are, by its table.
Kinds(r) ==
    /\ r[2][3] = "file" => r[1] = "References_File_File"
    /\ r[1] \in SymbolTables => r[3][3] = "symbol"

\* Why no row is created twice.  A changed file has no outgoing row from its
\* purge, and a new one from its parse, to the light links, which have a table of
\* their own; a saved row is gone from its purge until it is linked again.
NoneFrom(f) == \A r \in rows : owning_file(r[2]) # f
TwiceInv ==
    /\ NoRowTwice
    /\ \A r \in rows : Kinds(r)
    /\ Refreshing => \A r \in call.saved :
         /\ Kinds(r) /\ r[1] \in SymbolTables
         /\ owning_file(r[3]) \in call.changed /\ owning_file(r[2]) \notin Reparsed
    /\ call.step = "purge" =>
         /\ \A f \in call.changed \ call.todo : NoneFrom(f)
         /\ \A r \in call.saved \cap rows : owning_file(r[3]) \in call.todo
    /\ call.step = "reparse" => \A f \in call.changed : NoneFrom(f)
    /\ call.step = "new" => \A f \in Reparsed \ call.todo : NoneFrom(f)
    /\ call.step \in {"prune", "links"} => \A f \in Reparsed : NoneFrom(f)
    /\ call.step = "iac" => \A r \in rows :
         owning_file(r[2]) \in Reparsed => r[1] = "References_File_File"
    /\ call.step \in {"reparse", "new", "prune", "links", "iac", "relink"} => call.saved \cap rows = {}

IInv ==
    /\ StructInv /\ ClaimsInv /\ ClaimsHaveRows
    /\ KeepInv
    /\ NodesInv /\ NodesOfTree
    /\ GapsInv /\ GapsAreCurrent
    /\ TwiceInv
=============================================================================
