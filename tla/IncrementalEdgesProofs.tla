----------------------- MODULE IncrementalEdgesProofs -----------------------
(* What an incremental refresh does to the rows, the claims and the nodes of *)
(* the graph and to the sidecar, for any files, contents and links, and any  *)
(* number of edits, calls and faults.                                        *)
EXTENDS IncrementalEdges, TLAPS

-----------------------------------------------------------------------------
(* The constants and the operators of the model.                           *)

LEMMA ContentTypes ==
    ASSUME NEW t \in Tree, NEW f \in Present(t)
    PROVE  /\ f \in Files /\ t[f] \in Contents[f] /\ t[f] \in Content
           /\ DefsOf[t[f]] \subseteq Name /\ CallsOf[t[f]] \subseteq Name
           /\ GapOf[t[f]] # "outside" /\ GapOf[t[f]] \in Gap
<1>1. f \in Files /\ t[f] \in Contents[f] BY DEF Tree, Present
<1>2. t[f] \in Content BY <1>1 DEF Content
<1>3. GapOf[t[f]] # "outside"
  BY <1>1, IncrementalEdgesAssumption DEF IncrementalEdgesAssumption
<1>4. GapOf[t[f]] \in Gap BY <1>2 DEF Gap
<1>5. \A c \in Content : \A n \in DefsOf[c] \cup CallsOf[c] : n \in Name BY DEF Name
<1>6. DefsOf[t[f]] \subseteq Name /\ CallsOf[t[f]] \subseteq Name BY <1>2, <1>5
<1> QED BY <1>1, <1>2, <1>3, <1>4, <1>6

LEMMA Ids ==
    /\ \A f \in Files, n \in Name : /\ Sym(f, n) \in Id /\ Sym(f, n)[3] = "symbol"
                                      /\ Site(f, n) \in Id /\ Site(f, n)[3] = "site"
                                      /\ owning_file(Sym(f, n)) = f /\ owning_file(Site(f, n)) = f
    /\ \A f \in Files : /\ FileId(f) \in Id /\ FileId(f)[3] = "file" /\ owning_file(FileId(f)) = f
                        /\ Module(f) \in Id /\ Module(f)[3] = "symbol" /\ owning_file(Module(f)) = f
<1>1. "" \in Name /\ "kustomize" \in Name BY DEF Name
<1> HIDE DEF Name
<1> QED BY <1>1 DEF Id, Sym, Site, FileId, Module, owning_file

\* What a file contributes to the nodes.
LEMMA FileNodes ==
    ASSUME NEW t \in Tree, NEW f \in Present(t)
    PROVE  /\ \A s \in SymbolsOf(f, t[f]) : s \in Id /\ s[3] = "symbol" /\ owning_file(s) = f
           /\ \A s \in SitesOf(f, t[f]) : s \in Id /\ s[3] = "site" /\ owning_file(s) = f
BY ContentTypes, Ids DEF SymbolsOf, SitesOf

LEMMA IndexedNodes ==
    ASSUME NEW t \in Tree
    PROVE  /\ \A s \in IndexedSymbols(t) : s \in Id /\ s[3] = "symbol" /\ owning_file(s) \in Present(t)
           /\ \A s \in IndexedSites(t) : s \in Id /\ s[3] = "site" /\ owning_file(s) \in Present(t)
BY FileNodes DEF IndexedSymbols, IndexedSites

\* Links lead out of the sources, into files that are there.
LEMMA LightLinks ==
    ASSUME NEW t \in Tree, NEW sources \in SUBSET Files,
           NEW r \in link_file_imports_for(t, sources)
    PROVE  /\ r \in Row /\ r[1] = "References_File_File"
           /\ r[2] = FileId(owning_file(r[2])) /\ r[3] = FileId(owning_file(r[3]))
           /\ owning_file(r[2]) \in sources \cap Present(t) /\ owning_file(r[3]) \in Present(t)
<1>1. PICK f \in sources \cap Present(t), g \in Present(t) :
         r = <<"References_File_File", FileId(f), FileId(g)>>
  BY DEF link_file_imports_for
<1>2. f \in Files /\ g \in Files BY DEF Present
<1>3. "References_File_File" \in Tables BY DEF Tables
<1>4. /\ r[1] = "References_File_File" /\ r[2] = FileId(f) /\ r[3] = FileId(g)
  BY <1>1
<1>5. /\ FileId(f) \in Id /\ FileId(g) \in Id
      /\ owning_file(FileId(f)) = f /\ owning_file(FileId(g)) = g
  BY <1>2, Ids
<1>6. r \in Row BY <1>1, <1>3, <1>5 DEF Row
<1> QED BY <1>4, <1>5, <1>6

LEMMA InfrastructureLinks ==
    ASSUME NEW t \in Tree, NEW sources \in SUBSET Files, NEW syms,
           NEW r \in run_iac_pass_for(t, sources, syms)
    PROVE  /\ r \in Row /\ r[1] \in {"Imports_IacModule_IacModule", "Imports_IacModule_File"}
           /\ r[1] = "Imports_IacModule_File" => r[3] = FileId(owning_file(r[3]))
           /\ r[2][3] = "symbol"
           /\ owning_file(r[2]) \in sources \cap Present(t) /\ owning_file(r[3]) \in Present(t)
<1>1. PICK f \in sources \cap Present(t), g \in Present(t) :
         \/ r = <<"Imports_IacModule_IacModule", Module(f), Module(g)>>
         \/ r = <<"Imports_IacModule_File", Module(f), FileId(g)>>
  BY DEF run_iac_pass_for
<1>2. f \in Files /\ g \in Files BY DEF Present
<1>3. {"Imports_IacModule_IacModule", "Imports_IacModule_File"} \subseteq Tables
  BY DEF Tables, SymbolTables
<1>4. /\ Module(f) \in Id /\ Module(g) \in Id /\ FileId(g) \in Id /\ Module(f)[3] = "symbol"
      /\ owning_file(Module(f)) = f /\ owning_file(Module(g)) = g /\ owning_file(FileId(g)) = g
  BY <1>2, Ids
<1>5. CASE r = <<"Imports_IacModule_IacModule", Module(f), Module(g)>>
  <2>1. r[1] = "Imports_IacModule_IacModule" /\ r[2] = Module(f) /\ r[3] = Module(g) BY <1>5
  <2>2. r \in Row BY <1>3, <1>4, <1>5 DEF Row
  <2> QED BY <1>4, <2>1, <2>2
<1>6. CASE r = <<"Imports_IacModule_File", Module(f), FileId(g)>>
  <2>1. r[1] = "Imports_IacModule_File" /\ r[2] = Module(f) /\ r[3] = FileId(g) BY <1>6
  <2>2. r \in Row BY <1>3, <1>4, <1>6 DEF Row
  <2> QED BY <1>4, <2>1, <2>2
<1> QED BY <1>1, <1>5, <1>6

LEMMA IndexedRows ==
    ASSUME NEW t \in Tree, NEW r \in IndexedLinks(t)
    PROVE  /\ r \in Row /\ ~SiteRow(r) /\ r[2][3] # "site"
           /\ r[1] \notin SymbolTables => r[3] = FileId(owning_file(r[3]))
           /\ r[1] = "References_File_File" => r[2] = FileId(owning_file(r[2]))
           /\ owning_file(r[2]) \in Present(t) /\ owning_file(r[3]) \in Present(t)
<1> DEFINE here == Present(t)
           syms == IndexedSymbols(t)
<1>1. here \in SUBSET Files BY DEF Present
<1>2. r \in link_file_imports_for(t, here) \/ r \in run_iac_pass_for(t, here, syms)
  BY DEF IndexedLinks
<1> HIDE DEF here, syms
<1>3. CASE r \in link_file_imports_for(t, here)
  <2>1. /\ r \in Row /\ r[1] = "References_File_File"
        /\ r[2] = FileId(owning_file(r[2])) /\ r[3] = FileId(owning_file(r[3]))
        /\ owning_file(r[2]) \in Present(t) /\ owning_file(r[3]) \in Present(t)
    BY <1>1, <1>3, LightLinks
  <2>2. owning_file(r[2]) \in Files BY <2>1 DEF Present
  <2>3. r[2][3] = "file" BY <2>1, <2>2, Ids
  <2> QED BY <2>1, <2>3 DEF SiteRow
<1>4. CASE r \in run_iac_pass_for(t, here, syms)
  <2>1. /\ r \in Row /\ r[1] \in {"Imports_IacModule_IacModule", "Imports_IacModule_File"}
        /\ r[1] = "Imports_IacModule_File" => r[3] = FileId(owning_file(r[3]))
        /\ r[2][3] = "symbol"
        /\ owning_file(r[2]) \in Present(t) /\ owning_file(r[3]) \in Present(t)
    BY <1>1, <1>4, InfrastructureLinks
  <2> QED BY <2>1 DEF SiteRow, SymbolTables
<1> QED BY <1>2, <1>3, <1>4

\* A row is resolved for a site, to a symbol.
LEMMA RowsOfSites ==
    ASSUME TypeOK, NEW r \in ResolvedRows
    PROVE  /\ r \in Row
           /\ r[1] \in {"Calls_Function_Function", "Uses_Function_Enum", "Calls_CallSite_Function"}
           /\ r[3] \in symbols
           /\ SiteRow(r) => r[2] \in sites
           /\ ~SiteRow(r) => r[2][3] = "symbol"
           /\ \E s \in sites : owning_file(r[2]) = owning_file(s)
<1>1. PICK s \in Resolvable : \E t \in Target(s) : r \in stage_call_edge(s, t)
  BY DEF ResolvedRows
<1>2. PICK t \in Target(s) : r \in stage_call_edge(s, t) BY <1>1
<1>3. \/ r = <<call_rel_table(s[2]), CallerOf(s), t>>
      \/ r = <<"Calls_CallSite_Function", s, t>>
  <2>1. call_site_rel_table(s[2]) \subseteq {"Calls_CallSite_Function"} BY DEF call_site_rel_table
  <2> QED BY <1>2, <2>1 DEF stage_call_edge
<1>4. s \in sites /\ s \in Id BY DEF Resolvable, TypeOK
<1>5. t \in symbols /\ t \in Id BY DEF Target, Candidates, TypeOK
<1>6. s[1] \in Files BY <1>4 DEF Id
<1>7. CallerOf(s) \in Id /\ CallerOf(s)[3] = "symbol" /\ owning_file(CallerOf(s)) = owning_file(s)
  <2>1. "main" \in Name BY DEF Name
  <2> QED BY <1>6, <2>1, Ids DEF CallerOf, owning_file
<1>8. {"Calls_Function_Function", "Uses_Function_Enum", "Calls_CallSite_Function"} \subseteq Tables
  BY DEF Tables, SymbolTables
<1>9. call_rel_table(s[2]) \in {"Calls_Function_Function", "Uses_Function_Enum"}
  BY DEF call_rel_table
<1>10. CASE r = <<call_rel_table(s[2]), CallerOf(s), t>>
  <2>1. r[1] = call_rel_table(s[2]) /\ r[2] = CallerOf(s) /\ r[3] = t BY <1>10
  <2>2. r \in Row BY <1>5, <1>7, <1>8, <1>10, <1>9 DEF Row
  <2>3. ~SiteRow(r) BY <1>9, <2>1 DEF SiteRow
  <2> QED BY <1>4, <1>5, <1>7, <1>9, <2>1, <2>2, <2>3
<1>11. CASE r = <<"Calls_CallSite_Function", s, t>>
  <2>1. r[1] = "Calls_CallSite_Function" /\ r[2] = s /\ r[3] = t BY <1>11
  <2>2. r \in Row BY <1>4, <1>5, <1>8, <1>11 DEF Row
  <2> QED BY <1>4, <1>5, <2>1, <2>2 DEF SiteRow
<1> QED BY <1>10, <1>11, <1>3

-----------------------------------------------------------------------------
(* Types, work lists and what deleted files leave behind.                  *)

LEMMA EmptyCall ==
    /\ NoCall \in Call /\ NoCall.step = "idle" /\ NoBefore \in [rows : SUBSET Row, claims : SUBSET Id, lost : SUBSET Row]
    /\ NoCall.saved = {} /\ NoCall.reopened = {} /\ NoCall.todo = {}
<1>1. [f \in Files |-> Absent] \in Tree BY DEF Tree
<1>2. [f \in Files |-> "none"] \in [Files -> Gap] BY DEF Gap
<1>3. "idle" \in Steps BY DEF Steps
<1> HIDE DEF Tree, Gap, Steps
<1> QED BY <1>1, <1>2, <1>3 DEF NoCall, NoBefore, Call

LEMMA CallTypes ==
    ASSUME TypeOK
    PROVE  /\ call \in Call /\ call.step \in Steps
           /\ call.changed \in SUBSET Files /\ call.added \in SUBSET Files
           /\ call.deleted \in SUBSET Files /\ call.todo \in SUBSET (Files \cup SymbolTables)
           /\ call.saved \in SUBSET Row /\ call.reopened \in SUBSET Id
           /\ call.next \in Tree /\ call.gaps \in [Files -> Gap]
           /\ Reparsed \in SUBSET Files /\ Purged \in SUBSET Files
<1>1. call \in Call BY DEF TypeOK
<1> HIDE DEF TypeOK
<1> QED BY <1>1 DEF Call, Reparsed, Purged

\* Every id is owned by a file.
LEMMA Owned ==
    ASSUME NEW i \in Id
    PROVE  owning_file(i) \in Files
BY DEF Id, owning_file

LEMMA InitStruct == Init => StructInv
<1> SUFFICES ASSUME Init PROVE StructInv OBVIOUS
<1>1. tree \in Tree /\ manifest = tree
  BY DEF Init, Tree, Content
<1>2. /\ files = Present(tree) /\ symbols = IndexedSymbols(tree) /\ sites = IndexedSites(tree)
      /\ rows = IndexedLinks(tree) /\ is_resolved = {} /\ call = NoCall
  BY DEF Init
<1>3. coverage \in [Files -> Gap]
  <2>1. \A f \in Files : tree[f] # Absent => GapOf[tree[f]] \in Gap
    BY <1>1, ContentTypes DEF Present
  <2>2. "none" \in Gap BY DEF Gap
  <2> QED BY <2>1, <2>2 DEF Init
<1>4. TypeOK
  <2>1. files \subseteq Files BY <1>2 DEF Present
  <2>2. /\ symbols \subseteq Id /\ \A s \in symbols : s[3] = "symbol"
        /\ sites \subseteq Id /\ \A s \in sites : s[3] = "site"
    BY <1>1, <1>2, IndexedNodes
  <2>3. rows \subseteq Row BY <1>1, <1>2, IndexedRows
  <2>4. /\ outside = {} /\ torn = {} /\ crossed = {} /\ unflushed = {} /\ unreported = {}
        /\ settled = TRUE /\ doubled = FALSE /\ before = NoBefore
    BY DEF Init
  <2> QED BY <1>1, <1>2, <1>3, <2>1, <2>2, <2>3, <2>4, EmptyCall DEF TypeOK
<1>5. WorkInv BY <1>2, EmptyCall DEF WorkInv, Refreshing, AfterPurge, AfterParse
<1>6. GoneInv
  <2>1. \A f \in Files : manifest[f] = Absent => Gone(f)
    BY <1>1, <1>2, IndexedNodes, IndexedRows DEF Gone, Present
  <2> QED BY <1>2, <2>1, EmptyCall DEF GoneInv, AfterPurge, AfterParse
<1> QED BY <1>4, <1>5, <1>6 DEF StructInv

\* A step after which no refresh is in progress, over the same graph.
LEMMA RestKeepsStruct ==
    ASSUME StructInv, UNCHANGED <<manifest, files, symbols, sites, rows>>,
           tree' \in Tree, outside' \subseteq Files, coverage' \in [Files -> Gap],
           is_resolved' \subseteq sites, call' \in Call, call'.step \in {"idle", "flush"},
           torn' \subseteq Files, crossed' \subseteq Files, unreported' \subseteq Files,
           unflushed' \subseteq Id, settled' \in BOOLEAN, doubled' = doubled,
           before' \in [rows : SUBSET Row, claims : SUBSET Id, lost : SUBSET Row]
    PROVE  StructInv'
<1>1. TypeOK' BY DEF StructInv, TypeOK
<1>2. WorkInv' BY DEF WorkInv, Refreshing, AfterPurge, AfterParse
<1>3. GoneInv' BY DEF StructInv, GoneInv, Gone, AfterPurge, AfterParse
<1> QED BY <1>1, <1>2, <1>3 DEF StructInv

LEMMA EditKeepsStruct ==
    ASSUME StructInv, NEW f \in Files,
           (\E c \in Contents[f] \cup {Absent} : edit(f, c)) \/ edit_cargo(f)
    PROVE  StructInv'
<1>1. TypeOK /\ call \in Call BY DEF StructInv, TypeOK
<1>2. CASE edit_cargo(f)
  <2>1. /\ call.step = "idle" /\ outside' = (outside \ {f}) \cup ({f} \ outside) /\ settled' = FALSE
        /\ UNCHANGED <<tree, manifest, coverage, files, dirs, symbols, sites, rows, is_resolved,
                       call, torn, crossed, unflushed, unreported, doubled, before>>
    BY <1>2 DEF edit_cargo, Idle, graph, nodes
  <2> QED BY <1>1, <2>1, RestKeepsStruct DEF TypeOK
<1>3. ASSUME NEW c \in Contents[f] \cup {Absent}, edit(f, c) PROVE StructInv'
  <2>1. /\ call.step = "idle" /\ tree' = [tree EXCEPT ![f] = c] /\ settled' = FALSE
        /\ crossed' = crossed \cup ({f} \cap torn)
        /\ UNCHANGED <<outside, manifest, coverage, files, dirs, symbols, sites, rows, is_resolved,
                       call, torn, unflushed, unreported, doubled, before>>
    BY <1>3 DEF edit, Idle, graph, nodes
  <2>2. tree' \in Tree
    <3>1. tree \in Tree BY <1>1 DEF TypeOK
    <3>2. c \in Content \cup {Absent} BY DEF Content
    <3> QED BY <2>1, <3>1, <3>2 DEF Tree
  <2> QED BY <1>1, <2>1, <2>2, RestKeepsStruct DEF TypeOK
<1> QED BY <1>2, <1>3

LEMMA EndKeepsStruct ==
    ASSUME StructInv,
           \/ save_incremental_coverage \/ save_coverage_failed \/ resolve_graph_done
           \/ cut_short \/ resolve_calls
    PROVE  StructInv'
<1>1. TypeOK /\ Reparsed \subseteq Files BY CallTypes DEF StructInv
<1>2. CASE save_incremental_coverage
  <2>1. /\ coverage' = overlay_cargo_attributions(merge_coverage(coverage)) /\ call' = NoCall
        /\ unreported' = unreported \ Reparsed /\ settled' = TRUE /\ before' = NoBefore
        /\ UNCHANGED <<tree, outside, manifest, files, dirs, symbols, sites, rows, is_resolved,
                       torn, crossed, unflushed, doubled>>
    BY <1>2 DEF save_incremental_coverage, disk, graph, nodes
  <2>2. coverage' \in [Files -> Gap]
    <3>1. coverage \in [Files -> Gap] /\ call.gaps \in [Files -> Gap] BY <1>1, CallTypes DEF TypeOK
    <3>2. "none" \in Gap /\ "outside" \in Gap BY DEF Gap
    <3>3. merge_coverage(coverage) \in [Files -> Gap] BY <3>1, <3>2 DEF merge_coverage
    <3> QED BY <2>1, <3>2, <3>3 DEF overlay_cargo_attributions
  <2> QED BY <1>1, <2>1, <2>2, EmptyCall, RestKeepsStruct DEF TypeOK
<1>3. CASE save_coverage_failed
  <2>1. /\ call' = NoCall /\ settled' = FALSE /\ before' = NoBefore
        /\ UNCHANGED <<tree, outside, manifest, coverage, files, dirs, symbols, sites, rows,
                       is_resolved, torn, crossed, unflushed, unreported, doubled>>
    BY <1>3 DEF save_coverage_failed, disk, graph, nodes
  <2> QED BY <1>1, <2>1, EmptyCall, RestKeepsStruct DEF TypeOK
<1>4. CASE resolve_graph_done
  <2>1. /\ call' = NoCall /\ unflushed' = unflushed \ Resolvable
        /\ UNCHANGED <<tree, outside, manifest, coverage, files, dirs, symbols, sites, rows,
                       is_resolved, settled, torn, crossed, unreported, doubled, before>>
    BY <1>4 DEF resolve_graph_done, disk, graph, nodes
  <2> QED BY <1>1, <2>1, EmptyCall, RestKeepsStruct DEF TypeOK
<1>5. CASE cut_short
  <2>1. /\ call' = NoCall /\ before' = NoBefore
        /\ UNCHANGED <<tree, outside, manifest, coverage, files, dirs, symbols, sites, rows,
                       is_resolved, settled, torn, crossed, unflushed, unreported, doubled>>
    BY <1>5 DEF cut_short, disk, graph, nodes
  <2> QED BY <1>1, <2>1, EmptyCall, RestKeepsStruct DEF TypeOK
<1>6. CASE resolve_calls
  <2>1. /\ is_resolved' = is_resolved \cup Resolvable
        /\ unflushed' = unflushed \cup {s \in Resolvable : ~HasSiteRow(s)}
        /\ call' = [NoCall EXCEPT !.step = "flush", !.todo = {r[1] : r \in ResolvedRows}]
        /\ UNCHANGED <<tree, outside, manifest, coverage, files, dirs, symbols, sites, rows,
                       settled, torn, crossed, unreported, doubled, before>>
    BY <1>6 DEF resolve_calls, disk, nodes
  <2>2. Resolvable \subseteq sites /\ sites \subseteq Id BY <1>1 DEF Resolvable, TypeOK
  <2>3. {r[1] : r \in ResolvedRows} \subseteq SymbolTables
    BY <1>1, RowsOfSites DEF SymbolTables
  <2>4. call' \in Call /\ call'.step = "flush"
    BY <2>1, <2>3, EmptyCall DEF Call, Steps
  <2> QED BY <1>1, <2>1, <2>2, <2>4, RestKeepsStruct DEF TypeOK
<1> QED BY <1>2, <1>3, <1>4, <1>5, <1>6

LEMMA ClassifyKeepsStruct == StructInv /\ classify => StructInv'
<1> SUFFICES ASSUME StructInv, classify PROVE StructInv' OBVIOUS
<1> DEFINE ch == {f \in Present(tree) : manifest[f] \notin {Absent, tree[f]}}
           ad == {f \in Present(tree) : manifest[f] = Absent}
           de == {f \in Present(manifest) : tree[f] = Absent}
<1>1. /\ call' = [NoCall EXCEPT !.step = "snapshot", !.changed = ch, !.added = ad,
                                !.deleted = de, !.next = tree]
      /\ before' = [rows |-> rows, claims |-> is_resolved, lost |-> {}]
      /\ UNCHANGED <<tree, outside, manifest, coverage, files, dirs, symbols, sites, rows,
                     is_resolved, settled, torn, crossed, unflushed, unreported, doubled>>
  BY DEF classify, disk, graph, nodes
<1>2. ch \subseteq Files /\ ad \subseteq Files /\ de \subseteq Files BY DEF Present
<1>3. tree \in Tree BY DEF StructInv, TypeOK
<1>4. Present(tree)' = Present(tree) /\ Present(manifest)' = Present(manifest)
  BY <1>1 DEF Present
<1>5. ch' = ch /\ ad' = ad /\ de' = de BY <1>1 DEF Present
<1> HIDE DEF ch, ad, de
<1>6. /\ call' \in Call /\ call'.step = "snapshot" /\ call'.changed = ch /\ call'.added = ad
      /\ call'.deleted = de /\ call'.next = tree
  <2>1. "snapshot" \in Steps BY DEF Steps
  <2> HIDE DEF Steps, Tree
  <2> QED BY <1>1, <1>2, <1>3, <2>1, EmptyCall DEF Call
<1>7. before' \in [rows : SUBSET Row, claims : SUBSET Id, lost : SUBSET Row]
  BY <1>1 DEF StructInv, TypeOK
<1>8. TypeOK' BY <1>1, <1>6, <1>7 DEF StructInv, TypeOK
<1>9. WorkInv'
  <2>1. /\ call'.changed = ch' /\ call'.added = ad' /\ call'.deleted = de' /\ call'.next = tree'
    BY <1>1, <1>5, <1>6
  <2> QED BY <1>6, <2>1 DEF WorkInv, AfterParse, ch, ad, de
<1>10. GoneInv' BY <1>1, <1>6 DEF StructInv, GoneInv, Gone, AfterPurge, AfterParse
<1> QED BY <1>8, <1>9, <1>10 DEF StructInv

\* A step of a refresh that moves on in its lists, over the same nodes and rows.
LEMMA MoveKeepsStruct ==
    ASSUME StructInv,
           UNCHANGED <<tree, outside, manifest, coverage, files, symbols, sites, rows, settled,
                       torn, crossed, unflushed, unreported, doubled, before>>,
           is_resolved' \subseteq sites, Refreshing, call.step # "coverage",
           call' \in Call, call'.changed = call.changed, call'.added = call.added,
           call'.deleted = call.deleted, call'.next = call.next,
           \/ call.step = "snapshot" /\ call'.step = "reopen"
           \/ call.step = "reopen" /\ call'.step = "purge" /\ call'.todo = Purged
           \/ call.step = "purge" /\ call.todo = {} /\ call'.step = "reparse" /\ call'.todo = call.changed
           \/ call.step = "reparse" /\ call'.step = "new" /\ call'.todo = call.added
           \/ call.step = "new" /\ call.todo = {} /\ call'.step = "prune"
           \/ call.step \in AfterParse /\ call'.step \in AfterParse \ {"coverage"}
    PROVE  StructInv'
<1>1. TypeOK' BY DEF StructInv, TypeOK
<1>2. Present(tree)' = Present(tree) /\ Present(manifest)' = Present(manifest)
      /\ Purged' = Purged /\ Reparsed' = Reparsed
  BY DEF Present, Purged, Reparsed
<1>3. WorkInv'
  <2>1. /\ call.next = tree
        /\ call.changed = {f \in Present(tree) : manifest[f] \notin {Absent, tree[f]}}
        /\ call.added = {f \in Present(tree) : manifest[f] = Absent}
        /\ call.deleted = {f \in Present(manifest) : tree[f] = Absent}
    BY DEF StructInv, WorkInv
  <2>2. /\ call.step = "new" => call.added \ call.todo \subseteq files
        /\ call.step \in AfterParse => call.added \subseteq files
    BY DEF StructInv, WorkInv
  <2> QED BY <1>2, <2>1, <2>2 DEF WorkInv, AfterParse
<1>4. GoneInv'
  <2>1. \A f \in Files : Gone(f)' <=> Gone(f) BY DEF Gone
  <2>2. call.deleted \subseteq Files BY CallTypes DEF StructInv
  <2>3. \A f \in Files : manifest[f] = Absent /\ f \notin files => Gone(f)
    BY DEF StructInv, GoneInv
  <2>4. /\ call.step = "purge" => \A f \in call.deleted \ call.todo : Gone(f)
        /\ call.step \in AfterPurge => \A f \in call.deleted : Gone(f)
    BY DEF StructInv, GoneInv
  <2>5. call'.step = "purge" => call'.deleted \ call'.todo = {}
    BY DEF Purged, AfterParse
  <2>6. call'.step \in AfterPurge => call.step \in AfterPurge \/ (call.step = "purge" /\ call.todo = {})
    BY DEF AfterPurge, AfterParse
  <2> QED BY <2>1, <2>2, <2>3, <2>4, <2>5, <2>6 DEF GoneInv
<1> QED BY <1>1, <1>3, <1>4 DEF StructInv

\* The fields of the call that a change of step, of the list or of both leaves.
LEMMA StepFields ==
    ASSUME call \in Call, NEW st \in Steps, Goto(st)
    PROVE  /\ call' \in Call /\ call'.step = st /\ call'.todo = call.todo
           /\ call'.changed = call.changed /\ call'.added = call.added
           /\ call'.deleted = call.deleted /\ call'.next = call.next
           /\ call'.saved = call.saved /\ call'.reopened = call.reopened
           /\ call'.gaps = call.gaps
<1> HIDE DEF Steps, Row, Id, Tree, Gap
<1> QED BY DEF Goto, Call

LEMMA ListFields ==
    ASSUME call \in Call, NEW st \in Steps, NEW todo \in SUBSET (Files \cup SymbolTables),
           call' = [call EXCEPT !.step = st, !.todo = todo]
    PROVE  /\ call' \in Call /\ call'.step = st /\ call'.todo = todo
           /\ call'.changed = call.changed /\ call'.added = call.added
           /\ call'.deleted = call.deleted /\ call'.next = call.next
           /\ call'.saved = call.saved /\ call'.reopened = call.reopened
           /\ call'.gaps = call.gaps
<1> HIDE DEF Steps, Row, Id, Tree, Gap
<1> QED BY DEF Call

LEMMA SnapshotFields ==
    ASSUME TypeOK, snapshot_inbound_edges
    PROVE  /\ call' \in Call /\ call.step = "snapshot" /\ call'.step = "reopen"
           /\ call'.changed = call.changed /\ call'.added = call.added
           /\ call'.deleted = call.deleted /\ call'.next = call.next
           /\ call'.saved = {r \in rows : /\ r[1] \in SymbolTables
                                          /\ owning_file(r[3]) \in call.changed
                                          /\ owning_file(r[2]) \notin Reparsed}
           /\ call'.reopened = call.reopened
           /\ UNCHANGED <<tree, outside, manifest, coverage, files, dirs, symbols, sites, rows,
                          is_resolved, settled, torn, crossed, unflushed, unreported, doubled, before>>
<1> DEFINE kept == {r \in rows : /\ r[1] \in SymbolTables
                                 /\ owning_file(r[3]) \in call.changed
                                 /\ owning_file(r[2]) \notin Reparsed}
<1>1. kept \subseteq Row BY DEF TypeOK
<1>2. call \in Call /\ "reopen" \in Steps BY DEF TypeOK, Steps
<1>3. call' = [call EXCEPT !.step = "reopen", !.saved = kept] /\ call.step = "snapshot"
  BY DEF snapshot_inbound_edges
<1> HIDE DEF kept, Steps, Row, Id, Tree, Gap, TypeOK
<1>4. /\ call' \in Call /\ call'.step = "reopen" /\ call'.saved = kept
      /\ call'.changed = call.changed /\ call'.added = call.added
      /\ call'.deleted = call.deleted /\ call'.next = call.next /\ call'.reopened = call.reopened
  BY <1>1, <1>2, <1>3 DEF Call
<1>5. UNCHANGED <<tree, outside, manifest, coverage, files, dirs, symbols, sites, rows,
                  is_resolved, settled, torn, crossed, unflushed, unreported, doubled, before>>
  BY DEF snapshot_inbound_edges, disk, graph, nodes, history
<1> QED BY <1>3, <1>4, <1>5 DEF kept

LEMMA ReopenFields ==
    ASSUME TypeOK, reopen_sites_resolved_into
    PROVE  /\ call' \in Call /\ call.step = "reopen" /\ call'.step = "purge" /\ call'.todo = Purged
           /\ call'.changed = call.changed /\ call'.added = call.added
           /\ call'.deleted = call.deleted /\ call'.next = call.next
           /\ call'.saved = call.saved /\ call'.reopened = collect_sites
           /\ is_resolved' = is_resolved \ collect_sites
           /\ UNCHANGED <<tree, outside, manifest, coverage, files, dirs, symbols, sites, rows,
                          settled, torn, crossed, unflushed, unreported, doubled, before>>
<1>1. collect_sites \subseteq Id
  <2>1. \A r \in rows : r[2] \in Id BY DEF TypeOK, Row
  <2> QED BY <2>1 DEF collect_sites
<1>2. call \in Call /\ "purge" \in Steps /\ Purged \subseteq Files BY CallTypes DEF TypeOK, Steps
<1>3. /\ call' = [call EXCEPT !.step = "purge", !.reopened = collect_sites, !.todo = Purged]
      /\ call.step = "reopen" /\ is_resolved' = is_resolved \ collect_sites
  BY DEF reopen_sites_resolved_into
<1> HIDE DEF collect_sites, Purged, Steps, Row, Id, Tree, Gap, TypeOK
<1>4. /\ call' \in Call /\ call'.step = "purge" /\ call'.todo = Purged
      /\ call'.changed = call.changed /\ call'.added = call.added
      /\ call'.deleted = call.deleted /\ call'.next = call.next
      /\ call'.saved = call.saved /\ call'.reopened = collect_sites
  BY <1>1, <1>2, <1>3 DEF Call
<1>5. UNCHANGED <<tree, outside, manifest, coverage, files, dirs, symbols, sites, rows,
                  settled, torn, crossed, unflushed, unreported, doubled, before>>
  BY DEF reopen_sites_resolved_into, disk, nodes, history
<1> QED BY <1>3, <1>4, <1>5

\* The steps between the work on files.
LEMMA DoneFields ==
    ASSUME TypeOK, purge_done \/ reparse_modified_done \/ reparse_new_done
    PROVE  /\ call' \in Call
           /\ call'.changed = call.changed /\ call'.added = call.added
           /\ call'.deleted = call.deleted /\ call'.next = call.next
           /\ call'.saved = call.saved /\ call'.reopened = call.reopened
           /\ call'.gaps = call.gaps /\ call.todo = {}
           /\ \/ call.step = "purge" /\ call'.step = "reparse" /\ call'.todo = call.changed
              \/ call.step = "reparse" /\ call'.step = "new" /\ call'.todo = call.added
              \/ call.step = "new" /\ call'.step = "prune"
           /\ UNCHANGED <<tree, outside, manifest, coverage, files, dirs, symbols, sites, rows,
                          is_resolved, settled, torn, crossed, unflushed, unreported, doubled, before>>
<1>1. /\ call \in Call /\ {"reparse", "new", "prune"} \subseteq Steps
      /\ call.changed \in SUBSET (Files \cup SymbolTables)
      /\ call.added \in SUBSET (Files \cup SymbolTables)
  BY CallTypes DEF Steps
<1>2. UNCHANGED <<tree, outside, manifest, coverage, files, dirs, symbols, sites, rows,
                  is_resolved, settled, torn, crossed, unflushed, unreported, doubled, before>>
  BY DEF purge_done, reparse_modified_done, reparse_new_done, disk, graph, nodes, history
<1>3. CASE purge_done
  <2>1. /\ call' = [call EXCEPT !.step = "reparse", !.todo = call.changed]
        /\ call.step = "purge" /\ call.todo = {}
    BY <1>3 DEF purge_done
  <2> QED BY <1>1, <1>2, <2>1, ListFields
<1>4. CASE reparse_modified_done
  <2>1. /\ call' = [call EXCEPT !.step = "new", !.todo = call.added]
        /\ call.step = "reparse" /\ call.todo = {}
    BY <1>4 DEF reparse_modified_done
  <2> QED BY <1>1, <1>2, <2>1, ListFields
<1>5. CASE reparse_new_done
  <2>1. Goto("prune") /\ call.step = "new" /\ call.todo = {} BY <1>5 DEF reparse_new_done
  <2> QED BY <1>1, <1>2, <2>1, StepFields
<1> QED BY <1>3, <1>4, <1>5

LEMMA PruneFields ==
    ASSUME TypeOK, prune_orphan_directories
    PROVE  /\ call' \in Call /\ call.step = "prune" /\ call'.step = "links"
           /\ call'.changed = call.changed /\ call'.added = call.added
           /\ call'.deleted = call.deleted /\ call'.next = call.next
           /\ call'.saved = call.saved /\ call'.reopened = call.reopened
           /\ call'.gaps = call.gaps
           /\ dirs' = IF call.deleted = {} THEN dirs ELSE {DirOf[f] : f \in files}
           /\ UNCHANGED <<tree, outside, manifest, coverage, files, symbols, sites, rows,
                          is_resolved, settled, torn, crossed, unflushed, unreported, doubled, before>>
<1>1. call \in Call /\ "links" \in Steps BY DEF TypeOK, Steps
<1>2. /\ Goto("links") /\ call.step = "prune"
      /\ dirs' = IF call.deleted = {} THEN dirs ELSE {DirOf[f] : f \in files}
      /\ UNCHANGED <<tree, outside, manifest, coverage, files, symbols, sites, rows,
                     is_resolved, settled, torn, crossed, unflushed, unreported, doubled, before>>
  BY DEF prune_orphan_directories, disk, history
<1> QED BY <1>1, <1>2, StepFields

LEMMA RestoreFields ==
    ASSUME TypeOK, restore_sites_with_edge
    PROVE  /\ call' \in Call /\ call.step = "restore" /\ call'.step = "save"
           /\ call'.changed = call.changed /\ call'.added = call.added
           /\ call'.deleted = call.deleted /\ call'.next = call.next
           /\ call'.saved = call.saved /\ call'.reopened = call.reopened
           /\ call'.gaps = call.gaps
           /\ is_resolved' = is_resolved \cup {s \in call.reopened : HasSiteRow(s)}
           /\ UNCHANGED <<tree, outside, manifest, coverage, files, dirs, symbols, sites, rows,
                          settled, torn, crossed, unflushed, unreported, doubled, before>>
<1>1. call \in Call /\ "save" \in Steps BY DEF TypeOK, Steps
<1>2. /\ Goto("save") /\ call.step = "restore"
      /\ is_resolved' = is_resolved \cup {s \in call.reopened : HasSiteRow(s)}
      /\ UNCHANGED <<tree, outside, manifest, coverage, files, dirs, symbols, sites, rows,
                     settled, torn, crossed, unflushed, unreported, doubled, before>>
  BY DEF restore_sites_with_edge, disk, nodes, history
<1> QED BY <1>1, <1>2, StepFields

\* Only sites that are still there are restored: see ClaimsInv.
LEMMA MovesKeepStruct ==
    ASSUME StructInv,
           \/ snapshot_inbound_edges \/ reopen_sites_resolved_into
           \/ purge_done \/ reparse_modified_done \/ reparse_new_done
           \/ prune_orphan_directories
           \/ restore_sites_with_edge /\ call.reopened \subseteq sites
    PROVE  StructInv'
<1>1. TypeOK /\ is_resolved \subseteq sites BY DEF StructInv, TypeOK
<1>2. CASE snapshot_inbound_edges
  BY <1>1, <1>2, SnapshotFields, MoveKeepsStruct DEF Refreshing
<1>3. CASE reopen_sites_resolved_into
  BY <1>1, <1>3, ReopenFields, MoveKeepsStruct DEF Refreshing
<1>4. CASE purge_done \/ reparse_modified_done \/ reparse_new_done
  BY <1>1, <1>4, DoneFields, MoveKeepsStruct DEF Refreshing, AfterPurge
<1>5. CASE prune_orphan_directories
  BY <1>1, <1>5, PruneFields, MoveKeepsStruct DEF Refreshing, AfterPurge, AfterParse
<1>6. CASE restore_sites_with_edge /\ call.reopened \subseteq sites
  BY <1>1, <1>6, RestoreFields, MoveKeepsStruct DEF Refreshing, AfterPurge, AfterParse
<1> QED BY <1>2, <1>3, <1>4, <1>5, <1>6

LEMMA PurgeFields ==
    ASSUME TypeOK, NEW f \in Files, purge_file(f)
    PROVE  /\ call' \in Call /\ call.step = "purge" /\ call'.step = "purge"
           /\ f \in call.todo /\ call'.todo = call.todo \ {f}
           /\ call'.changed = call.changed /\ call'.added = call.added
           /\ call'.deleted = call.deleted /\ call'.next = call.next
           /\ call'.saved = call.saved /\ call'.reopened = call.reopened
           /\ call'.gaps = call.gaps
           /\ symbols' = {s \in symbols : owning_file(s) # f}
           /\ sites' = {s \in sites : owning_file(s) # f}
           /\ is_resolved' = is_resolved \cap sites'
           /\ files' = (IF f \in call.deleted THEN files \ {f} ELSE files)
           /\ rows' = Detached({r \in rows : ~(r[1] = "References_File_File" /\ r[2] = FileId(f))},
                               Nodes(files', symbols', sites'))
           /\ settled' = FALSE /\ torn' = torn \cup Touched /\ unflushed' = unflushed \cap sites'
           /\ UNCHANGED <<tree, outside, manifest, coverage, dirs, crossed, unreported, doubled,
                          before>>
<1>1. call \in Call /\ call.todo \ {f} \in SUBSET (Files \cup SymbolTables) BY CallTypes
<1>2. call.step = "purge" /\ "purge" \in Steps BY DEF purge_file, Steps
<1>3. call' = [call EXCEPT !.todo = call.todo \ {f}] BY DEF purge_file
<1>4. call' = [call EXCEPT !.step = "purge", !.todo = call.todo \ {f}]
  BY <1>1, <1>2, <1>3 DEF Call
<1>5. torn' = torn \cup Touched BY DEF purge_file, Touched
<1>6. /\ call' \in Call /\ call'.step = "purge" /\ call'.todo = call.todo \ {f}
      /\ call'.changed = call.changed /\ call'.added = call.added
      /\ call'.deleted = call.deleted /\ call'.next = call.next
      /\ call'.saved = call.saved /\ call'.reopened = call.reopened
      /\ call'.gaps = call.gaps
  BY <1>1, <1>2, <1>4, ListFields
<1> QED BY <1>2, <1>5, <1>6 DEF purge_file, disk

\* Parsing a file, modified or new.
LEMMA ParseFields ==
    ASSUME TypeOK, WorkInv, NEW f \in Files, reparse_modified_file(f) \/ reparse_new_file(f)
    PROVE  /\ call' \in Call /\ call'.step = call.step /\ f \in Reparsed /\ f \in Present(tree)
           /\ f \in call.todo /\ call'.todo = call.todo \ {f}
           /\ call'.changed = call.changed /\ call'.added = call.added
           /\ call'.deleted = call.deleted /\ call'.next = call.next
           /\ call'.saved = call.saved /\ call'.reopened = call.reopened
           /\ call'.gaps = [call.gaps EXCEPT ![f] = GapOf[tree[f]]]
           /\ symbols' = symbols \cup SymbolsOf(f, tree[f])
           /\ sites' = sites \cup SitesOf(f, tree[f])
           /\ \/ call.step = "reparse" /\ f \in call.changed /\ files' = files /\ dirs' = dirs
              \/ /\ call.step = "new" /\ f \in call.added /\ f \notin files
                 /\ files' = files \cup {f} /\ dirs' = dirs \cup {DirOf[f]}
           /\ settled' = FALSE /\ torn' = torn \cup Touched
           /\ UNCHANGED <<tree, outside, manifest, coverage, rows, is_resolved, crossed, unflushed,
                          unreported, doubled, before>>
<1>1. /\ call \in Call /\ call.todo \ {f} \in SUBSET (Files \cup SymbolTables)
      /\ call.gaps \in [Files -> Gap] /\ tree \in Tree
  BY CallTypes DEF TypeOK
<1>2. /\ f \in call.todo /\ call' = [call EXCEPT !.todo = call.todo \ {f}, !.gaps = Record(f)]
      /\ \/ call.step = "reparse" /\ files' = files /\ dirs' = dirs
         \/ /\ call.step = "new" /\ f \notin files
            /\ files' = files \cup {f} /\ dirs' = dirs \cup {DirOf[f]}
      /\ Parse(f)
  BY DEF reparse_modified_file, reparse_new_file
<1>3. /\ call.step = "reparse" => f \in call.changed
      /\ call.step = "new" => f \in call.added
  BY <1>2 DEF WorkInv
<1>4. f \in Reparsed /\ f \in Present(tree)
  BY <1>2, <1>3 DEF WorkInv, Reparsed, Refreshing, AfterPurge
<1>5. Record(f) \in [Files -> Gap] /\ Record(f) = [call.gaps EXCEPT ![f] = GapOf[tree[f]]]
  BY <1>1, <1>4, ContentTypes DEF Record
<1>6. /\ call' \in Call /\ call'.step = call.step /\ call'.todo = call.todo \ {f}
      /\ call'.changed = call.changed /\ call'.added = call.added
      /\ call'.deleted = call.deleted /\ call'.next = call.next
      /\ call'.saved = call.saved /\ call'.reopened = call.reopened
      /\ call'.gaps = Record(f)
  <2> HIDE DEF Record, Steps, Row, Id, Tree, Gap
  <2> QED BY <1>1, <1>2, <1>5 DEF Call
<1>7. /\ symbols' = symbols \cup SymbolsOf(f, tree[f]) /\ sites' = sites \cup SitesOf(f, tree[f])
      /\ settled' = FALSE /\ torn' = torn \cup Touched
      /\ UNCHANGED <<tree, outside, manifest, coverage, rows, is_resolved, crossed, unflushed,
                     unreported, doubled, before>>
  BY <1>2 DEF Parse, disk, Touched
<1> QED BY <1>2, <1>3, <1>4, <1>5, <1>6, <1>7

\* The steps that create rows.
LEMMA CreateFields ==
    ASSUME TypeOK,
           \/ light_link \/ iac \/ relink_inbound_edges
           \/ \E table \in SymbolTables : flush(table)
    PROVE  /\ call' \in Call
           /\ call'.changed = call.changed /\ call'.added = call.added
           /\ call'.deleted = call.deleted /\ call'.next = call.next
           /\ call'.saved = call.saved /\ call'.reopened = call.reopened
           /\ call'.gaps = call.gaps
           /\ \/ /\ call.step = "links" /\ call'.step = "iac"
                 /\ rows' = rows \cup link_file_imports_for(tree, Reparsed)
              \/ /\ call.step = "iac" /\ call'.step = "relink"
                 /\ rows' = rows \cup run_iac_pass_for(tree, Reparsed, symbols)
              \/ /\ call.step = "relink" /\ call'.step = "restore"
                 /\ before'.lost \subseteq Detached(call.saved, Nodes(files, symbols, sites))
                 /\ rows' = rows \cup
                       (Detached(call.saved, Nodes(files, symbols, sites)) \ before'.lost)
              \/ /\ call.step = "flush" /\ call'.step = "flush"
                 /\ \E table \in SymbolTables :
                       /\ rows' = rows \cup {r \in ResolvedRows : r[1] = table}
                       /\ call'.todo = call.todo \ {table}
           /\ doubled' \in BOOLEAN
           /\ before' \in [rows : SUBSET Row, claims : SUBSET Id, lost : SUBSET Row]
           /\ before'.rows = before.rows /\ before'.claims = before.claims
           /\ call.step # "relink" => before' = before
           /\ UNCHANGED <<tree, outside, manifest, coverage, files, dirs, symbols, sites,
                          is_resolved, settled, torn, crossed, unflushed, unreported>>
<1>1. /\ call \in Call /\ {"iac", "relink", "restore", "flush"} \subseteq Steps
      /\ \A table : call.todo \ {table} \in SUBSET (Files \cup SymbolTables)
      /\ doubled \in BOOLEAN
  BY CallTypes DEF Steps, TypeOK
<1>2. ASSUME NEW new, create_rows(new) PROVE rows' = rows \cup new /\ doubled' \in BOOLEAN
  BY <1>1, <1>2 DEF create_rows
<1>3. UNCHANGED <<tree, outside, manifest, coverage, files, dirs, symbols, sites,
                  is_resolved, settled, torn, crossed, unflushed, unreported>>
  BY DEF light_link, iac, relink_inbound_edges, flush, disk, nodes
<1>4. before \in [rows : SUBSET Row, claims : SUBSET Id, lost : SUBSET Row] BY DEF TypeOK
<1>5. light_link \/ iac \/ (\E table \in SymbolTables : flush(table)) => before' = before
  BY DEF light_link, iac, flush
<1>6. CASE light_link
  <2>1. /\ Goto("iac") /\ call.step = "links"
        /\ create_rows(link_file_imports_for(tree, Reparsed))
    BY <1>6 DEF light_link
  <2>2. rows' = rows \cup link_file_imports_for(tree, Reparsed) /\ doubled' \in BOOLEAN
    BY <1>2, <2>1
  <2>3. before' = before BY <1>6, <1>5
  <2> QED BY <1>1, <1>3, <1>4, <2>1, <2>2, <2>3, StepFields
<1>7. CASE iac
  <2>1. /\ Goto("relink") /\ call.step = "iac"
        /\ create_rows(run_iac_pass_for(tree, Reparsed, symbols))
    BY <1>7 DEF iac
  <2>2. rows' = rows \cup run_iac_pass_for(tree, Reparsed, symbols) /\ doubled' \in BOOLEAN
    BY <1>2, <2>1
  <2>3. before' = before BY <1>7, <1>5
  <2> QED BY <1>1, <1>3, <1>4, <2>1, <2>2, <2>3, StepFields
<1>8. CASE relink_inbound_edges
  <2> DEFINE there == Detached(call.saved, Nodes(files, symbols, sites))
  <2>1. /\ Goto("restore") /\ call.step = "relink"
        /\ \E failed \in SUBSET there :
              create_rows(there \ failed) /\ before' = [before EXCEPT !.lost = failed]
    BY <1>8 DEF relink_inbound_edges
  <2>2. PICK failed \in SUBSET there :
              create_rows(there \ failed) /\ before' = [before EXCEPT !.lost = failed]
    BY <2>1
  <2>3. there \subseteq Row BY CallTypes DEF Detached
  <2> HIDE DEF there
  <2>4. rows' = rows \cup (there \ failed) /\ doubled' \in BOOLEAN BY <1>2, <2>2
  <2>5. /\ before' \in [rows : SUBSET Row, claims : SUBSET Id, lost : SUBSET Row]
        /\ before'.rows = before.rows /\ before'.claims = before.claims /\ before'.lost = failed
    BY <1>4, <2>2, <2>3
  <2>6. /\ before'.lost \subseteq there /\ rows' = rows \cup (there \ before'.lost)
    BY <2>4, <2>5
  <2> QED BY <1>1, <1>3, <2>1, <2>4, <2>5, <2>6, StepFields DEF there
<1>9. ASSUME NEW table \in SymbolTables, flush(table)
      PROVE  /\ call' = [call EXCEPT !.step = "flush", !.todo = call.todo \ {table}]
             /\ call.step = "flush" /\ doubled' \in BOOLEAN
             /\ rows' = rows \cup {r \in ResolvedRows : r[1] = table}
  <2>1. /\ call.step = "flush" /\ call' = [call EXCEPT !.todo = call.todo \ {table}]
        /\ create_rows({r \in ResolvedRows : r[1] = table} \ rows)
    BY <1>9 DEF flush
  <2>2. rows' = rows \cup ({r \in ResolvedRows : r[1] = table} \ rows) /\ doubled' \in BOOLEAN
    BY <1>2, <2>1
  <2>3. call' = [call EXCEPT !.step = "flush", !.todo = call.todo \ {table}]
    BY <1>1, <2>1 DEF Call
  <2> QED BY <2>1, <2>2, <2>3
<1>10. CASE \E table \in SymbolTables : flush(table)
  <2>1. PICK table \in SymbolTables : flush(table) BY <1>10
  <2>2. /\ call' \in Call /\ call'.step = "flush" /\ call'.todo = call.todo \ {table}
        /\ call'.changed = call.changed /\ call'.added = call.added
        /\ call'.deleted = call.deleted /\ call'.next = call.next
        /\ call'.saved = call.saved /\ call'.reopened = call.reopened
        /\ call'.gaps = call.gaps
    <3>1. call' = [call EXCEPT !.step = "flush", !.todo = call.todo \ {table}] BY <1>9, <2>1
    <3>2. call \in Call /\ "flush" \in Steps /\ call.todo \ {table} \in SUBSET (Files \cup SymbolTables)
      BY <1>1
    <3> QED BY <3>1, <3>2, ListFields
  <2> QED BY <1>3, <1>9, <1>10, <1>4, <1>5, <2>1, <2>2
<1> QED BY <1>6, <1>7, <1>8, <1>10

LEMMA SaveFields ==
    ASSUME TypeOK, save_manifest
    PROVE  /\ call' \in Call /\ call.step = "save" /\ call'.step = "coverage"
           /\ call'.changed = call.changed /\ call'.added = call.added
           /\ call'.deleted = call.deleted /\ call'.next = call.next
           /\ call'.saved = call.saved /\ call'.reopened = call.reopened
           /\ call'.gaps = call.gaps
           /\ manifest' = call.next /\ torn' = torn \ Touched
           /\ unreported' = unreported \cup Reparsed
           /\ UNCHANGED <<tree, outside, coverage, files, dirs, symbols, sites, rows, is_resolved,
                          settled, crossed, unflushed, doubled, before>>
<1>1. call \in Call /\ "coverage" \in Steps BY DEF TypeOK, Steps
<1>2. /\ Goto("coverage") /\ call.step = "save"
      /\ manifest' = call.next /\ torn' = torn \ Touched
      /\ unreported' = unreported \cup Reparsed
      /\ UNCHANGED <<tree, outside, coverage, files, dirs, symbols, sites, rows, is_resolved,
                     settled, crossed, unflushed, doubled, before>>
  BY DEF save_manifest, disk, graph, nodes, Touched
<1> QED BY <1>1, <1>2, StepFields

LEMMA IndexFields ==
    ASSUME index_codebase_with_language \/ fall_back_to_full
    PROVE  /\ files' = Present(tree) /\ dirs' = {DirOf[f] : f \in Present(tree)}
           /\ symbols' = IndexedSymbols(tree) /\ sites' = IndexedSites(tree)
           /\ rows' = IndexedLinks(tree) /\ is_resolved' = {}
           /\ manifest' = tree
           /\ coverage' = overlay_cargo_attributions(
                 [f \in Files |-> IF tree[f] = Absent THEN "none" ELSE GapOf[tree[f]]])
           /\ call' = NoCall /\ settled' = TRUE /\ torn' = {} /\ crossed' = {}
           /\ unflushed' = {} /\ unreported' = {} /\ before' = NoBefore
           /\ UNCHANGED <<tree, outside, doubled>>
BY DEF index_codebase_with_language, fall_back_to_full, IndexAll, disk

LEMMA IndexKeepsStruct ==
    ASSUME StructInv, index_codebase_with_language \/ fall_back_to_full
    PROVE  StructInv'
<1>1. tree \in Tree /\ outside \subseteq Files /\ doubled \in BOOLEAN BY DEF StructInv, TypeOK
<1>2. /\ files' = Present(tree)
      /\ symbols' = IndexedSymbols(tree) /\ sites' = IndexedSites(tree)
      /\ rows' = IndexedLinks(tree) /\ is_resolved' = {} /\ manifest' = tree
      /\ coverage' = overlay_cargo_attributions(
            [f \in Files |-> IF tree[f] = Absent THEN "none" ELSE GapOf[tree[f]]])
      /\ call' = NoCall /\ settled' = TRUE /\ torn' = {} /\ crossed' = {}
      /\ unflushed' = {} /\ unreported' = {} /\ before' = NoBefore
      /\ UNCHANGED <<tree, outside, doubled>>
  BY IndexFields
<1>3. coverage' \in [Files -> Gap]
  <2>1. \A f \in Files : tree[f] # Absent => GapOf[tree[f]] \in Gap
    BY <1>1, ContentTypes DEF Present
  <2>2. "none" \in Gap /\ "outside" \in Gap BY DEF Gap
  <2> QED BY <1>2, <2>1, <2>2 DEF overlay_cargo_attributions
<1>4. TypeOK'
  <2>1. files' \subseteq Files BY <1>2 DEF Present
  <2>2. /\ symbols' \subseteq Id /\ \A s \in symbols' : s[3] = "symbol"
        /\ sites' \subseteq Id /\ \A s \in sites' : s[3] = "site"
    BY <1>1, <1>2, IndexedNodes
  <2>3. rows' \subseteq Row BY <1>1, <1>2, IndexedRows
  <2> QED BY <1>1, <1>2, <1>3, <2>1, <2>2, <2>3, EmptyCall DEF TypeOK
<1>5. WorkInv' BY <1>2, EmptyCall DEF WorkInv, Refreshing, AfterPurge, AfterParse
<1>6. GoneInv'
  <2>1. \A f \in Files : manifest'[f] = Absent => Gone(f)'
    <3> SUFFICES ASSUME NEW f \in Files, tree[f] = Absent PROVE Gone(f)' BY <1>2
    <3>1. f \notin Present(tree) BY DEF Present
    <3>2. f \notin files' BY <1>2, <3>1
    <3>3. \A s \in symbols' \cup sites' : owning_file(s) # f BY <1>1, <1>2, <3>1, IndexedNodes
    <3>4. \A r \in rows' : owning_file(r[2]) # f /\ owning_file(r[3]) # f
      BY <1>1, <1>2, <3>1, IndexedRows
    <3> QED BY <3>2, <3>3, <3>4 DEF Gone
  <2> QED BY <1>2, <2>1, EmptyCall DEF GoneInv, AfterPurge, AfterParse
<1> QED BY <1>4, <1>5, <1>6 DEF StructInv

\* What is in the graph after the purge of a file was in it before.
LEMMA PurgeKeepsStruct ==
    ASSUME StructInv, NEW f \in Files, purge_file(f)
    PROVE  StructInv'
<1>1. TypeOK /\ Touched \subseteq Files BY CallTypes DEF StructInv, Touched
<1>2. /\ call' \in Call /\ call.step = "purge" /\ call'.step = "purge"
      /\ f \in call.todo /\ call'.todo = call.todo \ {f}
      /\ call'.changed = call.changed /\ call'.added = call.added
      /\ call'.deleted = call.deleted /\ call'.next = call.next
      /\ UNCHANGED <<tree, outside, manifest, coverage, dirs, crossed, unreported, doubled, before>>
  BY <1>1, PurgeFields
<1>3. /\ symbols' = {s \in symbols : owning_file(s) # f}
      /\ sites' = {s \in sites : owning_file(s) # f}
      /\ is_resolved' = is_resolved \cap sites'
      /\ files' = (IF f \in call.deleted THEN files \ {f} ELSE files)
      /\ rows' = Detached({r \in rows : ~(r[1] = "References_File_File" /\ r[2] = FileId(f))},
                          Nodes(files', symbols', sites'))
      /\ settled' = FALSE /\ torn' = torn \cup Touched /\ unflushed' = unflushed \cap sites'
  BY <1>1, PurgeFields
<1>4. rows' \subseteq rows BY <1>3 DEF Detached
<1>5. TypeOK' BY <1>1, <1>2, <1>3, <1>4 DEF TypeOK
<1>6. Present(tree)' = Present(tree) /\ Present(manifest)' = Present(manifest)
      /\ Purged' = Purged /\ Reparsed' = Reparsed
  BY <1>2 DEF Present, Purged, Reparsed
<1>7. WorkInv'
  <2>1. /\ call.next = tree
        /\ call.changed = {g \in Present(tree) : manifest[g] \notin {Absent, tree[g]}}
        /\ call.added = {g \in Present(tree) : manifest[g] = Absent}
        /\ call.deleted = {g \in Present(manifest) : tree[g] = Absent}
        /\ call.todo \subseteq Purged
    BY <1>2 DEF StructInv, WorkInv, Refreshing
  <2> QED BY <1>2, <1>6, <2>1 DEF WorkInv, AfterParse
<1>8. GoneInv'
  <2>1. \A g \in Files : Gone(g) => Gone(g)' BY <1>3, <1>4 DEF Gone
  <2>2. call.todo \subseteq Purged BY <1>2 DEF StructInv, WorkInv
  <2>3. manifest[f] # Absent
    BY <1>2, <2>2 DEF StructInv, WorkInv, Refreshing, Purged, Present
  <2>4. f \in call.deleted => Gone(f)'
    <3> SUFFICES ASSUME f \in call.deleted PROVE Gone(f)' OBVIOUS
    <3>1. f \notin files' BY <1>3
    <3>2. \A s \in symbols' \cup sites' : owning_file(s) # f BY <1>3
    <3>3. \A i \in Nodes(files', symbols', sites') : owning_file(i) # f
      <4>1. files' \subseteq Files BY <1>5 DEF TypeOK
      <4> QED BY <3>1, <3>2, <4>1, Ids DEF Nodes
    <3>4. \A r \in rows' : owning_file(r[2]) # f /\ owning_file(r[3]) # f
      BY <1>3, <3>3 DEF Detached, Ends
    <3> QED BY <3>1, <3>2, <3>4 DEF Gone
  <2>5. \A g \in Files : manifest[g] = Absent /\ g \notin files' => g \notin files
    BY <1>3, <2>3
  <2>6. call.deleted \subseteq Files BY <1>1, CallTypes
  <2>7. /\ \A g \in Files : manifest[g] = Absent /\ g \notin files => Gone(g)
        /\ \A g \in call.deleted \ call.todo : Gone(g)
    BY <1>2 DEF StructInv, GoneInv
  <2> QED BY <1>2, <2>1, <2>4, <2>5, <2>6, <2>7 DEF GoneInv, AfterPurge, AfterParse
<1> QED BY <1>5, <1>7, <1>8 DEF StructInv

LEMMA ParseKeepsStruct ==
    ASSUME StructInv, NEW f \in Files, reparse_modified_file(f) \/ reparse_new_file(f)
    PROVE  StructInv'
<1>1. TypeOK /\ WorkInv /\ Touched \subseteq Files /\ tree \in Tree
  BY CallTypes DEF StructInv, Touched, TypeOK
<1>2. /\ call' \in Call /\ call'.step = call.step /\ f \in Present(tree)
      /\ f \in call.todo /\ call'.todo = call.todo \ {f}
      /\ call'.changed = call.changed /\ call'.added = call.added
      /\ call'.deleted = call.deleted /\ call'.next = call.next
      /\ symbols' = symbols \cup SymbolsOf(f, tree[f])
      /\ sites' = sites \cup SitesOf(f, tree[f])
      /\ \/ call.step = "reparse" /\ f \in call.changed /\ files' = files
         \/ call.step = "new" /\ f \in call.added /\ f \notin files /\ files' = files \cup {f}
      /\ settled' = FALSE /\ torn' = torn \cup Touched
      /\ UNCHANGED <<tree, outside, manifest, coverage, rows, is_resolved, crossed, unflushed,
                     unreported, doubled, before>>
  BY <1>1, ParseFields
<1>3. /\ \A s \in SymbolsOf(f, tree[f]) : s \in Id /\ s[3] = "symbol" /\ owning_file(s) = f
      /\ \A s \in SitesOf(f, tree[f]) : s \in Id /\ s[3] = "site" /\ owning_file(s) = f
  BY <1>1, <1>2, FileNodes
<1>4. TypeOK' BY <1>1, <1>2, <1>3 DEF TypeOK
<1>5. Present(tree)' = Present(tree) /\ Present(manifest)' = Present(manifest)
      /\ Purged' = Purged /\ Reparsed' = Reparsed
  BY <1>2 DEF Present, Purged, Reparsed
<1>6. /\ call.next = tree
      /\ call.changed = {g \in Present(tree) : manifest[g] \notin {Absent, tree[g]}}
      /\ call.added = {g \in Present(tree) : manifest[g] = Absent}
      /\ call.deleted = {g \in Present(manifest) : tree[g] = Absent}
  BY <1>1, <1>2 DEF WorkInv, Refreshing, AfterPurge
<1>7. WorkInv'
  <2>1. /\ call.step = "reparse" => call.todo \subseteq call.changed
        /\ call.step = "new" => call.todo \subseteq call.added /\ call.added \ call.todo \subseteq files
    BY <1>1 DEF WorkInv
  <2>2. call.step = "new" => files' = files \cup {f} BY <1>2
  <2>3. call.step = "new" => call'.added \ call'.todo \subseteq files' BY <1>2, <2>1, <2>2
  <2> QED BY <1>2, <1>5, <1>6, <2>1, <2>3 DEF WorkInv, AfterParse
<1>8. GoneInv'
  <2>1. \A g \in Files : Gone(g) /\ g # f => Gone(g)' BY <1>2, <1>3 DEF Gone
  <2>2. manifest[f] # Absent \/ f \in files' BY <1>2, <1>6
  <2>3. f \notin call.deleted BY <1>2, <1>6 DEF Present
  <2>4. files \subseteq files' BY <1>2
  <2>5. /\ \A g \in Files : manifest[g] = Absent /\ g \notin files => Gone(g)
        /\ \A g \in call.deleted : Gone(g)
    BY <1>2 DEF StructInv, GoneInv, AfterPurge
  <2>6. call.deleted \subseteq Files BY <1>1, CallTypes
  <2> QED BY <1>2, <2>1, <2>2, <2>3, <2>4, <2>5, <2>6 DEF GoneInv
<1> QED BY <1>4, <1>7, <1>8 DEF StructInv

\* The ends of a row that is created are of files that are there.
LEMMA CreatedRows ==
    ASSUME StructInv,
           \/ light_link \/ iac \/ relink_inbound_edges
           \/ \E table \in SymbolTables : flush(table),
           NEW r \in rows', r \notin rows
    PROVE  /\ r \in Row
           /\ \A f \in Files : Gone(f) /\ (manifest[f] = Absent \/ f \in call.deleted) =>
                 owning_file(r[2]) # f /\ owning_file(r[3]) # f
<1>1. TypeOK /\ tree \in Tree /\ Reparsed \in SUBSET Files /\ call.saved \subseteq Row
  BY CallTypes DEF StructInv, TypeOK
<1>2. \/ call.step = "links" /\ r \in link_file_imports_for(tree, Reparsed)
      \/ call.step = "iac" /\ r \in run_iac_pass_for(tree, Reparsed, symbols)
      \/ call.step = "relink" /\ r \in Detached(call.saved, Nodes(files, symbols, sites))
      \/ r \in ResolvedRows
  BY <1>1, CreateFields
<1>3. ASSUME call.step \in {"links", "iac"}, NEW f \in Files,
             Gone(f) /\ (manifest[f] = Absent \/ f \in call.deleted)
      PROVE  f \notin Present(tree)
  <2>1. /\ call.added = {g \in Present(tree) : manifest[g] = Absent}
        /\ call.deleted = {g \in Present(manifest) : tree[g] = Absent}
        /\ call.added \subseteq files
    BY <1>3 DEF StructInv, WorkInv, Refreshing, AfterPurge, AfterParse
  <2> QED BY <1>3, <2>1 DEF Gone, Present
<1>4. CASE call.step = "links" /\ r \in link_file_imports_for(tree, Reparsed)
  <2>1. r \in Row /\ owning_file(r[2]) \in Present(tree) /\ owning_file(r[3]) \in Present(tree)
    BY <1>1, <1>4, LightLinks
  <2> QED BY <1>3, <1>4, <2>1
<1>5. CASE call.step = "iac" /\ r \in run_iac_pass_for(tree, Reparsed, symbols)
  <2>1. r \in Row /\ owning_file(r[2]) \in Present(tree) /\ owning_file(r[3]) \in Present(tree)
    BY <1>1, <1>5, InfrastructureLinks
  <2> QED BY <1>3, <1>5, <2>1
<1>6. CASE r \in Detached(call.saved, Nodes(files, symbols, sites))
  <2>1. r \in Row /\ r[2] \in Nodes(files, symbols, sites) /\ r[3] \in Nodes(files, symbols, sites)
    BY <1>1, <1>6 DEF Detached, Ends
  <2>2. files \subseteq Files BY <1>1 DEF TypeOK
  <2>3. \A f \in Files : Gone(f) => \A i \in Nodes(files, symbols, sites) : owning_file(i) # f
    BY <2>2, Ids DEF Gone, Nodes
  <2> QED BY <2>1, <2>3
<1>7. CASE r \in ResolvedRows
  <2>1. r \in Row /\ r[3] \in symbols /\ \E s \in sites : owning_file(r[2]) = owning_file(s)
    BY <1>1, <1>7, RowsOfSites
  <2> QED BY <2>1 DEF Gone
<1> QED BY <1>2, <1>4, <1>5, <1>6, <1>7

LEMMA CreateKeepsStruct ==
    ASSUME StructInv,
           \/ light_link \/ iac \/ relink_inbound_edges
           \/ \E table \in SymbolTables : flush(table)
    PROVE  StructInv'
<1>1. TypeOK /\ WorkInv BY DEF StructInv
<1>2. /\ call' \in Call /\ doubled' \in BOOLEAN
      /\ call'.changed = call.changed /\ call'.added = call.added
      /\ call'.deleted = call.deleted /\ call'.next = call.next
      /\ \/ call.step = "links" /\ call'.step = "iac"
         \/ call.step = "iac" /\ call'.step = "relink"
         \/ call.step = "relink" /\ call'.step = "restore"
         \/ call.step = "flush" /\ call'.step = "flush"
      /\ before' \in [rows : SUBSET Row, claims : SUBSET Id, lost : SUBSET Row]
      /\ UNCHANGED <<tree, outside, manifest, coverage, files, dirs, symbols, sites,
                     is_resolved, settled, torn, crossed, unflushed, unreported>>
  BY <1>1, CreateFields
<1>3. \A r \in rows' : r \in Row BY <1>1, CreatedRows DEF TypeOK
<1>4. TypeOK' BY <1>1, <1>2, <1>3 DEF TypeOK
<1>5. WorkInv'
  <2>1. Present(tree)' = Present(tree) /\ Present(manifest)' = Present(manifest)
    BY <1>2 DEF Present
  <2>2. call.step # "flush" =>
          /\ call.next = tree /\ call.added \subseteq files
          /\ call.changed = {g \in Present(tree) : manifest[g] \notin {Absent, tree[g]}}
          /\ call.added = {g \in Present(tree) : manifest[g] = Absent}
          /\ call.deleted = {g \in Present(manifest) : tree[g] = Absent}
    BY <1>1, <1>2 DEF WorkInv, Refreshing, AfterPurge, AfterParse
  <2> QED BY <1>2, <2>1, <2>2 DEF WorkInv, Refreshing, AfterPurge, AfterParse
<1>6. GoneInv'
  <2>1. \A f \in Files : Gone(f) /\ (manifest[f] = Absent \/ f \in call.deleted) => Gone(f)'
    BY <1>2, CreatedRows DEF Gone
  <2>2. /\ \A f \in Files : manifest[f] = Absent /\ f \notin files => Gone(f)
        /\ call.step # "flush" => \A f \in call.deleted : Gone(f)
    BY <1>2 DEF StructInv, GoneInv, AfterPurge, AfterParse
  <2>3. call.deleted \subseteq Files BY <1>1, CallTypes
  <2> QED BY <1>2, <2>1, <2>2, <2>3 DEF GoneInv, AfterPurge, AfterParse
<1> QED BY <1>4, <1>5, <1>6 DEF StructInv

LEMMA SaveKeepsStruct ==
    ASSUME StructInv, save_manifest
    PROVE  StructInv'
<1>1. TypeOK /\ WorkInv /\ Reparsed \in SUBSET Files BY CallTypes DEF StructInv
<1>2. /\ call' \in Call /\ call.step = "save" /\ call'.step = "coverage"
      /\ call'.changed = call.changed /\ call'.added = call.added
      /\ call'.deleted = call.deleted /\ call'.next = call.next
      /\ manifest' = call.next /\ torn' = torn \ Touched
      /\ unreported' = unreported \cup Reparsed
      /\ UNCHANGED <<tree, outside, coverage, files, dirs, symbols, sites, rows, is_resolved,
                     settled, crossed, unflushed, doubled, before>>
  BY <1>1, SaveFields
<1>3. /\ call.next = tree /\ call.added \subseteq files
      /\ call.changed = {g \in Present(tree) : manifest[g] \notin {Absent, tree[g]}}
      /\ call.added = {g \in Present(tree) : manifest[g] = Absent}
      /\ call.deleted = {g \in Present(manifest) : tree[g] = Absent}
  BY <1>1, <1>2 DEF WorkInv, Refreshing, AfterPurge, AfterParse
<1>4. TypeOK' BY <1>1, <1>2, <1>3 DEF TypeOK
<1>5. Present(tree)' = Present(tree) /\ Reparsed' = Reparsed BY <1>2 DEF Present, Reparsed
<1>6. WorkInv'
  <2>1. Reparsed \subseteq Present(tree) /\ call.deleted \cap Present(tree) = {}
    BY <1>3 DEF Reparsed, Present
  <2> QED BY <1>2, <1>3, <1>5, <2>1 DEF WorkInv, AfterParse
<1>7. GoneInv'
  <2>1. \A f \in Files : Gone(f)' <=> Gone(f) BY <1>2 DEF Gone
  <2>2. /\ \A f \in Files : manifest[f] = Absent /\ f \notin files => Gone(f)
        /\ \A f \in call.deleted : Gone(f)
    BY <1>2 DEF StructInv, GoneInv, AfterPurge, AfterParse
  <2>3. \A f \in Files : tree[f] = Absent => manifest[f] = Absent \/ f \in call.deleted
    BY <1>3 DEF Present
  <2>4. call.deleted \subseteq Files BY <1>1, CallTypes
  <2>5. \A f \in Files : manifest'[f] = Absent /\ f \notin files' => Gone(f)'
    BY <1>2, <1>3, <2>1, <2>2, <2>3
  <2> QED BY <1>2, <2>1, <2>2, <2>4, <2>5 DEF GoneInv
<1> QED BY <1>4, <1>6, <1>7 DEF StructInv

-----------------------------------------------------------------------------
(* Claims and the rows they rest on.                                       *)

\* A step after which no call is in progress, over the same rows.
LEMMA RestKeepsClaims ==
    ASSUME ClaimsInv, ClaimsHaveRows, UNCHANGED <<files, symbols, sites, rows, is_resolved, torn>>,
           call'.step = "idle",
           \A s \in is_resolved : s \in unflushed =>
               s \in unflushed' \/ HasSiteRow(s) \/ call_site_rel_table(s[2]) = {}
    PROVE  ClaimsInv' /\ ClaimsHaveRows'
<1>1. Nodes(files, symbols, sites)' = Nodes(files, symbols, sites) BY DEF Nodes
<1>2. ClaimsInv'
  BY <1>1 DEF ClaimsInv, Refreshing, AfterPurge, AfterParse, SiteRow
<1>3. \A s : HasSiteRow(s)' <=> HasSiteRow(s) BY DEF HasSiteRow
<1>4. ClaimsHaveRows' BY <1>3 DEF ClaimsHaveRows
<1> QED BY <1>2, <1>4

LEMMA RestsKeepClaims ==
    ASSUME TypeOK, ClaimsInv, ClaimsHaveRows,
           \/ \E f \in Files : (\E c \in Contents[f] \cup {Absent} : edit(f, c)) \/ edit_cargo(f)
           \/ save_incremental_coverage \/ save_coverage_failed \/ cut_short \/ resolve_graph_done
    PROVE  ClaimsInv' /\ ClaimsHaveRows'
<1>1. CASE ~resolve_graph_done
  <2>1. /\ UNCHANGED <<files, symbols, sites, rows, is_resolved, torn, unflushed>>
        /\ call'.step = "idle"
    BY <1>1, EmptyCall DEF edit, edit_cargo, save_incremental_coverage, save_coverage_failed, cut_short,
       Idle, graph, nodes
  <2> QED BY <2>1, RestKeepsClaims
<1>2. CASE resolve_graph_done
  <2>1. /\ call.step = "flush" /\ call.todo = {} /\ call'.step = "idle"
        /\ UNCHANGED <<files, symbols, sites, rows, is_resolved, torn>>
        /\ unflushed' = unflushed \ Resolvable
    BY <1>2, EmptyCall DEF resolve_graph_done, graph, nodes
  <2>2. ResolvedRows \subseteq rows BY <2>1 DEF ClaimsInv
  <2>3. \A s \in Resolvable : HasSiteRow(s) \/ call_site_rel_table(s[2]) = {}
    <3> SUFFICES ASSUME NEW s \in Resolvable, call_site_rel_table(s[2]) # {} PROVE HasSiteRow(s)
      OBVIOUS
    <3>1. PICK t : t \in Target(s) BY DEF Resolvable
    <3>2. "Calls_CallSite_Function" \in call_site_rel_table(s[2]) BY DEF call_site_rel_table
    <3>3. <<"Calls_CallSite_Function", s, t>> \in stage_call_edge(s, t)
      BY <3>2 DEF stage_call_edge
    <3>4. <<"Calls_CallSite_Function", s, t>> \in ResolvedRows BY <3>1, <3>3 DEF ResolvedRows
    <3> QED BY <2>2, <3>4 DEF HasSiteRow, SiteRow
  <2> QED BY <2>1, <2>3, RestKeepsClaims
<1> QED BY <1>1, <1>2

LEMMA InitClaims == Init => ClaimsInv /\ ClaimsHaveRows
<1> SUFFICES ASSUME Init PROVE ClaimsInv /\ ClaimsHaveRows OBVIOUS
<1>1. /\ rows = IndexedLinks(tree) /\ is_resolved = {} /\ call.step = "idle" /\ tree \in Tree
  BY EmptyCall DEF Init, Tree, Content
<1>2. \A r \in rows : ~SiteRow(r) BY <1>1, IndexedRows
<1> QED BY <1>1, <1>2 DEF ClaimsInv, ClaimsHaveRows, Refreshing, AfterPurge, AfterParse

LEMMA IndexKeepsClaims ==
    ASSUME TypeOK, index_codebase_with_language \/ fall_back_to_full
    PROVE  ClaimsInv' /\ ClaimsHaveRows'
<1>1. /\ rows' = IndexedLinks(tree) /\ is_resolved' = {} /\ call'.step = "idle" /\ tree \in Tree
  BY IndexFields, EmptyCall DEF TypeOK
<1>2. \A r \in rows' : ~SiteRow(r) BY <1>1, IndexedRows
<1>3. \A r \in rows' : r[1] # "Calls_CallSite_Function" BY <1>2 DEF SiteRow
<1> QED BY <1>1, <1>3 DEF ClaimsInv, ClaimsHaveRows, Refreshing, AfterPurge, AfterParse, SiteRow

LEMMA BeginKeepsClaims ==
    ASSUME TypeOK, ClaimsInv, ClaimsHaveRows, classify \/ resolve_calls
    PROVE  ClaimsInv' /\ ClaimsHaveRows'
<1>1. CASE classify
  <2>1. /\ UNCHANGED <<files, symbols, sites, rows, is_resolved, torn, unflushed>>
        /\ call'.step = "snapshot" /\ call'.saved = {} /\ call'.reopened = {}
    <3> DEFINE ch == {f \in Present(tree) : manifest[f] \notin {Absent, tree[f]}}
               ad == {f \in Present(tree) : manifest[f] = Absent}
               de == {f \in Present(manifest) : tree[f] = Absent}
    <3>1. /\ call' = [NoCall EXCEPT !.step = "snapshot", !.changed = ch, !.added = ad,
                                    !.deleted = de, !.next = tree]
          /\ UNCHANGED <<files, symbols, sites, rows, is_resolved, torn, unflushed>>
      BY <1>1 DEF classify, graph, nodes
    <3> HIDE DEF ch, ad, de
    <3> QED BY <3>1 DEF NoCall
  <2>2. Nodes(files, symbols, sites)' = Nodes(files, symbols, sites) BY <2>1 DEF Nodes
  <2>3. ClaimsInv' BY <2>1, <2>2 DEF ClaimsInv, AfterPurge, AfterParse, SiteRow
  <2>4. ClaimsHaveRows' BY <2>1 DEF ClaimsHaveRows, HasSiteRow, SiteRow
  <2> QED BY <2>3, <2>4
<1>2. CASE resolve_calls
  <2>1. /\ UNCHANGED <<files, symbols, sites, rows, torn>>
        /\ is_resolved' = is_resolved \cup Resolvable
        /\ unflushed' = unflushed \cup {s \in Resolvable : ~HasSiteRow(s)}
        /\ call'.step = "flush" /\ call'.todo = {r[1] : r \in ResolvedRows}
    <3> DEFINE tables == {r[1] : r \in ResolvedRows}
    <3>1. /\ call' = [NoCall EXCEPT !.step = "flush", !.todo = tables]
          /\ UNCHANGED <<files, symbols, sites, rows, torn>>
          /\ is_resolved' = is_resolved \cup Resolvable
          /\ unflushed' = unflushed \cup {s \in Resolvable : ~HasSiteRow(s)}
      BY <1>2 DEF resolve_calls, nodes
    <3> HIDE DEF tables
    <3>2. call'.step = "flush" /\ call'.todo = tables BY <3>1 DEF NoCall
    <3> QED BY <3>1, <3>2 DEF tables
  <2>2. Nodes(files, symbols, sites)' = Nodes(files, symbols, sites) BY <2>1 DEF Nodes
  <2>3. ResolvedRows' = ResolvedRows
    BY <2>1 DEF ResolvedRows, Resolvable, Target, Candidates
  <2>4. ClaimsInv'
    BY <2>1, <2>2, <2>3 DEF ClaimsInv, Refreshing, AfterPurge, AfterParse, SiteRow
  <2>5. \A s : HasSiteRow(s)' <=> HasSiteRow(s) BY <2>1 DEF HasSiteRow
  <2>6. ClaimsHaveRows' BY <2>1, <2>5 DEF ClaimsHaveRows
  <2> QED BY <2>4, <2>6
<1> QED BY <1>1, <1>2

LEMMA WithdrawKeepsClaims ==
    ASSUME TypeOK, ClaimsInv, ClaimsHaveRows,
           snapshot_inbound_edges \/ reopen_sites_resolved_into
    PROVE  ClaimsInv' /\ ClaimsHaveRows'
<1>1. CASE snapshot_inbound_edges
  <2>1. /\ call.step = "snapshot" /\ call'.step = "reopen"
        /\ call'.changed = call.changed /\ call'.added = call.added /\ call'.deleted = call.deleted
        /\ call'.saved = {r \in rows : /\ r[1] \in SymbolTables
                                       /\ owning_file(r[3]) \in call.changed
                                       /\ owning_file(r[2]) \notin Reparsed}
        /\ call'.reopened = call.reopened
        /\ UNCHANGED <<files, symbols, sites, rows, is_resolved, torn, unflushed>>
    BY <1>1, SnapshotFields
  <2>2. Nodes(files, symbols, sites)' = Nodes(files, symbols, sites)
        /\ Reparsed' = Reparsed /\ Touched' = Touched
    BY <2>1 DEF Nodes, Reparsed, Touched, Purged
  <2>3. /\ \A r \in rows : SiteRow(r) => r[2] \in sites /\ r[3] \in Nodes(files, symbols, sites)
        /\ \A s \in call.reopened : s \in sites /\ owning_file(s) \notin Touched
    BY <2>1 DEF ClaimsInv, Refreshing
  <2>4. ClaimsInv'
    BY <2>1, <2>2, <2>3 DEF ClaimsInv, AfterPurge, AfterParse, SiteRow
  <2>5. ClaimsHaveRows' BY <2>1 DEF ClaimsHaveRows, HasSiteRow, SiteRow
  <2> QED BY <2>4, <2>5
<1>2. CASE reopen_sites_resolved_into
  <2>1. /\ call.step = "reopen" /\ call'.step = "purge" /\ call'.todo = Purged
        /\ call'.changed = call.changed /\ call'.added = call.added /\ call'.deleted = call.deleted
        /\ call'.saved = call.saved /\ call'.reopened = collect_sites
        /\ is_resolved' = is_resolved \ collect_sites
        /\ UNCHANGED <<files, symbols, sites, rows, torn, unflushed>>
    BY <1>2, ReopenFields
  <2>2. Nodes(files, symbols, sites)' = Nodes(files, symbols, sites)
        /\ Reparsed' = Reparsed /\ Touched' = Touched /\ Purged' = Purged
    BY <2>1 DEF Nodes, Reparsed, Touched, Purged
  <2>3. /\ \A r \in rows : SiteRow(r) => r[2] \in sites /\ r[3] \in Nodes(files, symbols, sites)
        /\ \A r \in call.saved : SiteRow(r) =>
              /\ owning_file(r[2]) \notin Reparsed
              /\ r[2] \in sites \/ owning_file(r[2]) \in call.deleted
    BY <2>1 DEF ClaimsInv, Refreshing
  <2>4. \A s \in collect_sites : s \in sites /\ owning_file(s) \notin Touched
    BY <2>3 DEF collect_sites, SiteRow, Touched
  <2>5. \A s \in is_resolved', r \in rows :
           owning_file(s) \notin Touched /\ SiteRow(r) /\ r[2] = s => owning_file(r[3]) \notin Purged
    BY <2>1 DEF collect_sites, SiteRow, Touched
  <2> HIDE DEF collect_sites
  <2>6. ClaimsInv'
    BY <2>1, <2>2, <2>3, <2>4, <2>5 DEF ClaimsInv, AfterPurge, AfterParse, SiteRow
  <2>7. ClaimsHaveRows' BY <2>1 DEF ClaimsHaveRows, HasSiteRow, SiteRow
  <2> QED BY <2>6, <2>7
<1> QED BY <1>1, <1>2

\* The nodes of other files stay.
LEMMA PurgeKeepsNodes ==
    ASSUME TypeOK, NEW f \in Files, purge_file(f), NEW i \in Nodes(files, symbols, sites),
           owning_file(i) # f
    PROVE  i \in Nodes(files', symbols', sites')
<1>1. /\ symbols' = {s \in symbols : owning_file(s) # f}
      /\ sites' = {s \in sites : owning_file(s) # f}
      /\ files' = (IF f \in call.deleted THEN files \ {f} ELSE files)
  BY PurgeFields
<1>2. CASE i \in symbols \cup sites BY <1>1, <1>2 DEF Nodes
<1>3. CASE \E g \in files : i = FileId(g)
  <2>1. PICK g \in files : i = FileId(g) BY <1>3
  <2>2. g \in Files BY DEF TypeOK
  <2>3. g # f BY <2>1, <2>2, Ids
  <2>4. g \in files' BY <1>1, <2>3
  <2> QED BY <2>1, <2>4 DEF Nodes
<1> QED BY <1>2, <1>3 DEF Nodes

\* A node with the kind of a site is one.
LEMMA SiteNodes ==
    ASSUME TypeOK, NEW i \in Nodes(files, symbols, sites), i[3] = "site"
    PROVE  i \in sites
<1>1. \A g \in files : FileId(g)[3] = "file" BY Ids DEF TypeOK
<1>2. \A s \in symbols : s[3] = "symbol" BY DEF TypeOK
<1> QED BY <1>1, <1>2 DEF Nodes

LEMMA PurgeKeepsClaims ==
    ASSUME TypeOK, TypeOK', WorkInv, ClaimsInv, ClaimsHaveRows, NEW f \in Files, purge_file(f)
    PROVE  ClaimsInv' /\ ClaimsHaveRows'
<1>1. /\ call.step = "purge" /\ call'.step = "purge"
      /\ f \in call.todo /\ call'.todo = call.todo \ {f}
      /\ call'.changed = call.changed /\ call'.added = call.added
      /\ call'.deleted = call.deleted
      /\ call'.saved = call.saved /\ call'.reopened = call.reopened
  BY PurgeFields
<1>2. /\ sites' = {s \in sites : owning_file(s) # f}
      /\ is_resolved' = is_resolved \cap sites'
      /\ rows' = Detached({r \in rows : ~(r[1] = "References_File_File" /\ r[2] = FileId(f))},
                          Nodes(files', symbols', sites'))
      /\ torn' = torn \cup Touched /\ unflushed' = unflushed \cap sites'
  BY PurgeFields
<1>3. Reparsed' = Reparsed /\ Touched' = Touched /\ Purged' = Purged
  BY <1>1 DEF Reparsed, Touched, Purged
<1>4. f \in Purged /\ f \in Touched BY <1>1 DEF WorkInv, Touched
<1>5. /\ \A r \in rows : SiteRow(r) => r[2] \in sites /\ r[3] \in Nodes(files, symbols, sites)
      /\ \A r \in call.saved : SiteRow(r) =>
            /\ owning_file(r[2]) \notin Reparsed
            /\ r[2] \in sites \/ owning_file(r[2]) \in call.deleted
      /\ \A s \in call.reopened : s \in sites /\ owning_file(s) \notin Touched
      /\ \A s \in is_resolved, r \in rows :
            owning_file(s) \notin Touched /\ SiteRow(r) /\ r[2] = s => owning_file(r[3]) \notin Purged
      /\ \A s \in is_resolved : owning_file(s) \notin Purged \ call.todo
  BY <1>1 DEF ClaimsInv, Refreshing
<1>6. rows' \subseteq rows /\ \A r \in rows' : /\ r[2] \in Nodes(files', symbols', sites')
                                              /\ r[3] \in Nodes(files', symbols', sites')
  BY <1>2 DEF Detached, Ends
<1>7. \A r \in rows' : SiteRow(r) => r[2] \in sites'
  <2> SUFFICES ASSUME NEW r \in rows', SiteRow(r) PROVE r[2] \in sites' OBVIOUS
  <2>1. r[2] \in sites /\ r[2] \in Nodes(files', symbols', sites') BY <1>5, <1>6
  <2>2. r[2][3] = "site" BY <2>1 DEF TypeOK
  <2>3. \A g \in files' : FileId(g)[3] = "file" BY Ids DEF TypeOK
  <2>4. \A s \in symbols' : s[3] = "symbol" BY DEF TypeOK
  <2> QED BY <2>1, <2>2, <2>3, <2>4 DEF Nodes
<1>8. \A r \in call.saved : SiteRow(r) =>
         owning_file(r[2]) \notin Reparsed /\ (r[2] \in sites' \/ owning_file(r[2]) \in call.deleted)
  BY <1>2, <1>4, <1>5 DEF Reparsed, Purged
<1>9. \A s \in call.reopened : s \in sites' /\ owning_file(s) \notin Touched
  BY <1>2, <1>4, <1>5
<1>10. \A s \in is_resolved' : s \in is_resolved /\ owning_file(s) # f BY <1>2
<1>11. ClaimsInv'
  <2>1. Nodes(files, symbols, sites)' = Nodes(files', symbols', sites') BY DEF Nodes
  <2>2. \A s \in is_resolved' : owning_file(s) \notin Purged \ call'.todo BY <1>1, <1>5, <1>10
  <2>3. \A s \in is_resolved', r \in rows' :
            owning_file(s) \notin Touched /\ SiteRow(r) /\ r[2] = s => owning_file(r[3]) \notin Purged
    BY <1>5, <1>6, <1>10
  <2> QED BY <1>1, <1>3, <1>6, <1>7, <1>8, <1>9, <2>1, <2>2, <2>3
          DEF ClaimsInv, AfterPurge, AfterParse, SiteRow
<1>12. ASSUME NEW s \in is_resolved'
       PROVE  \/ HasSiteRow(s)' \/ s \in unflushed' \/ owning_file(s) \in torn'
              \/ call_site_rel_table(s[2]) = {}
  <2>1. s \in is_resolved /\ s \in sites' /\ owning_file(s) # f BY <1>2, <1>10, <1>12
  <2>2. CASE owning_file(s) \in Touched \/ owning_file(s) \in torn BY <1>2, <2>2
  <2>3. CASE s \in unflushed BY <1>2, <2>1, <2>3
  <2>4. CASE HasSiteRow(s) /\ owning_file(s) \notin Touched
    <3>1. PICK r \in rows : SiteRow(r) /\ r[2] = s BY <2>4 DEF HasSiteRow, SiteRow
    <3>2. owning_file(r[3]) # f BY <1>4, <1>5, <2>1, <2>4, <3>1
    <3>3. r[3] \in Nodes(files', symbols', sites') BY <1>5, <3>1, <3>2, PurgeKeepsNodes
    <3>4. r[2] \in Nodes(files', symbols', sites') BY <2>1, <3>1 DEF Nodes
    <3>5. r \in rows' BY <1>2, <3>1, <3>3, <3>4 DEF Detached, Ends, SiteRow
    <3> QED BY <3>1, <3>5 DEF HasSiteRow, SiteRow
  <2> QED BY <2>1, <2>2, <2>3, <2>4 DEF ClaimsHaveRows
<1>13. ClaimsHaveRows' BY <1>12 DEF ClaimsHaveRows
<1> QED BY <1>11, <1>13

LEMMA DoneKeepsClaims ==
    ASSUME TypeOK, ClaimsInv, ClaimsHaveRows,
           \/ purge_done \/ reparse_modified_done \/ reparse_new_done \/ prune_orphan_directories
    PROVE  ClaimsInv' /\ ClaimsHaveRows'
<1>1. /\ call'.changed = call.changed /\ call'.added = call.added /\ call'.deleted = call.deleted
      /\ call'.saved = call.saved /\ call'.reopened = call.reopened
      /\ UNCHANGED <<files, symbols, sites, rows, is_resolved, torn, unflushed>>
      /\ \/ call.step = "purge" /\ call.todo = {} /\ call'.step = "reparse"
         \/ call.step = "reparse" /\ call'.step = "new" /\ call'.todo = call.added
         \/ call.step = "new" /\ call.todo = {} /\ call'.step = "prune"
         \/ call.step = "prune" /\ call'.step = "links"
  BY DoneFields, PruneFields
<1>2. Nodes(files, symbols, sites)' = Nodes(files, symbols, sites)
      /\ Reparsed' = Reparsed /\ Touched' = Touched /\ Purged' = Purged
  BY <1>1 DEF Nodes, Reparsed, Touched, Purged
<1>3. /\ \A r \in rows : SiteRow(r) => r[2] \in sites /\ r[3] \in Nodes(files, symbols, sites)
      /\ \A r \in call.saved : SiteRow(r) =>
            /\ owning_file(r[2]) \notin Reparsed
            /\ r[2] \in sites \/ owning_file(r[2]) \in call.deleted
      /\ \A s \in call.reopened : s \in sites /\ owning_file(s) \notin Touched
  BY <1>1 DEF ClaimsInv, Refreshing, AfterPurge, AfterParse
<1>4. \A s \in is_resolved : owning_file(s) \notin Purged
  BY <1>1 DEF ClaimsInv, AfterPurge, AfterParse
<1>5. call'.step \in {"prune", "links"} => \A s \in is_resolved : owning_file(s) \notin call.added
  BY <1>1 DEF ClaimsInv, AfterParse
<1>6. ClaimsInv'
  BY <1>1, <1>2, <1>3, <1>4, <1>5 DEF ClaimsInv, AfterPurge, AfterParse, SiteRow
<1>7. ClaimsHaveRows' BY <1>1 DEF ClaimsHaveRows, HasSiteRow, SiteRow
<1> QED BY <1>6, <1>7

LEMMA ParseKeepsClaims ==
    ASSUME StructInv, ClaimsInv, ClaimsHaveRows, NEW f \in Files,
           reparse_modified_file(f) \/ reparse_new_file(f)
    PROVE  ClaimsInv' /\ ClaimsHaveRows'
<1>0. TypeOK /\ WorkInv BY DEF StructInv
<1>1. /\ call'.step = call.step /\ f \in call.todo /\ call'.todo = call.todo \ {f}
      /\ call'.changed = call.changed /\ call'.added = call.added
      /\ call'.deleted = call.deleted
      /\ call'.saved = call.saved /\ call'.reopened = call.reopened
      /\ symbols \subseteq symbols' /\ sites \subseteq sites' /\ files \subseteq files'
      /\ \/ call.step = "reparse"
         \/ call.step = "new" /\ f \in call.added /\ f \notin files
      /\ torn' = torn \cup Touched
      /\ UNCHANGED <<manifest, rows, is_resolved, unflushed>>
  BY <1>0, ParseFields
<1>2. Reparsed' = Reparsed /\ Touched' = Touched /\ Purged' = Purged
  BY <1>1 DEF Reparsed, Touched, Purged
<1>3. \A i \in Nodes(files, symbols, sites) : i \in Nodes(files, symbols, sites)'
  BY <1>1 DEF Nodes
<1>4. /\ \A r \in rows : SiteRow(r) => r[2] \in sites /\ r[3] \in Nodes(files, symbols, sites)
      /\ \A r \in call.saved : SiteRow(r) =>
            /\ owning_file(r[2]) \notin Reparsed
            /\ r[2] \in sites \/ owning_file(r[2]) \in call.deleted
      /\ \A s \in call.reopened : s \in sites /\ owning_file(s) \notin Touched
      /\ \A s \in is_resolved : owning_file(s) \notin Purged
      /\ call.step = "new" => \A s \in is_resolved : owning_file(s) \notin call.added \ call.todo
  BY <1>1 DEF ClaimsInv, Refreshing, AfterPurge
<1>5. call.step = "new" => \A s \in is_resolved : owning_file(s) # f
  <2> SUFFICES ASSUME call.step = "new" PROVE \A s \in is_resolved : owning_file(s) # f OBVIOUS
  <2>1. manifest[f] = Absent /\ f \notin files
    BY <1>1 DEF StructInv, WorkInv, Refreshing, AfterPurge
  <2>2. Gone(f) BY <2>1 DEF StructInv, GoneInv
  <2> QED BY <1>0, <2>2 DEF Gone, TypeOK
<1>6. call.step = "new" => \A s \in is_resolved : owning_file(s) \notin call'.added \ call'.todo
  BY <1>1, <1>4, <1>5
<1>7. ClaimsInv'
  BY <1>1, <1>2, <1>3, <1>4, <1>6 DEF ClaimsInv, AfterPurge, AfterParse, SiteRow
<1>8. ClaimsHaveRows' BY <1>1 DEF ClaimsHaveRows, HasSiteRow, SiteRow
<1> QED BY <1>7, <1>8

LEMMA CreateKeepsClaims ==
    ASSUME StructInv, ClaimsInv, ClaimsHaveRows,
           \/ light_link \/ iac \/ relink_inbound_edges
           \/ \E table \in SymbolTables : flush(table)
    PROVE  ClaimsInv' /\ ClaimsHaveRows'
<1>0. TypeOK /\ tree \in Tree /\ Reparsed \in SUBSET Files BY CallTypes DEF StructInv, TypeOK
<1>1. /\ call'.changed = call.changed /\ call'.added = call.added
      /\ call'.deleted = call.deleted
      /\ call'.saved = call.saved /\ call'.reopened = call.reopened
      /\ \/ /\ call.step = "links" /\ call'.step = "iac"
            /\ rows' = rows \cup link_file_imports_for(tree, Reparsed)
         \/ /\ call.step = "iac" /\ call'.step = "relink"
            /\ rows' = rows \cup run_iac_pass_for(tree, Reparsed, symbols)
         \/ /\ call.step = "relink" /\ call'.step = "restore"
            /\ rows \subseteq rows'
            /\ rows' \subseteq rows \cup Detached(call.saved, Nodes(files, symbols, sites))
         \/ /\ call.step = "flush" /\ call'.step = "flush"
            /\ \E table \in SymbolTables :
                  /\ rows' = rows \cup {r \in ResolvedRows : r[1] = table}
                  /\ call'.todo = call.todo \ {table}
      /\ UNCHANGED <<files, symbols, sites, is_resolved, torn, unflushed>>
  BY <1>0, CreateFields
<1>2. /\ Reparsed' = Reparsed /\ Touched' = Touched /\ Purged' = Purged
      /\ Nodes(files, symbols, sites)' = Nodes(files, symbols, sites)
  BY <1>1 DEF Reparsed, Touched, Purged, Nodes
<1>3. rows \subseteq rows' BY <1>1
<1>4. ASSUME NEW r \in rows', SiteRow(r)
      PROVE  r[2] \in sites /\ r[3] \in Nodes(files, symbols, sites)
  <2>1. CASE r \in rows BY <1>4, <2>1 DEF ClaimsInv
  <2>2. CASE r \in link_file_imports_for(tree, Reparsed)
    BY <1>0, <1>4, <2>2, LightLinks DEF SiteRow
  <2>3. CASE r \in run_iac_pass_for(tree, Reparsed, symbols)
    BY <1>0, <1>4, <2>3, InfrastructureLinks DEF SiteRow
  <2>4. CASE call.step = "relink" /\ r \in Detached(call.saved, Nodes(files, symbols, sites))
    <3>1. r \in call.saved /\ r[2] \in Nodes(files, symbols, sites) /\ r[3] \in Nodes(files, symbols, sites)
      BY <2>4 DEF Detached, Ends
    <3>2. r[2] \in sites \/ owning_file(r[2]) \in call.deleted
      BY <1>4, <2>4, <3>1 DEF ClaimsInv, Refreshing, AfterPurge, AfterParse
    <3>3. \A f \in call.deleted : Gone(f)
      BY <2>4 DEF StructInv, GoneInv, AfterPurge, AfterParse
    <3>4. files \subseteq Files /\ call.deleted \subseteq Files BY <1>0, CallTypes DEF TypeOK
    <3>5. \A f \in Files : Gone(f) => \A i \in Nodes(files, symbols, sites) : owning_file(i) # f
      BY <3>4, Ids DEF Gone, Nodes
    <3> QED BY <3>1, <3>2, <3>3, <3>4, <3>5
  <2>5. CASE r \in ResolvedRows
    BY <1>0, <1>4, <2>5, RowsOfSites DEF Nodes
  <2> QED BY <1>1, <2>1, <2>2, <2>3, <2>4, <2>5
<1>5. call.step = "flush" => \A r \in ResolvedRows' : r[1] \in call'.todo \/ r \in rows'
  <2>1. ResolvedRows' = ResolvedRows BY <1>1 DEF ResolvedRows, Resolvable, Target, Candidates
  <2>2. call.step = "flush" => \A r \in ResolvedRows : r[1] \in call.todo \/ r \in rows
    BY DEF ClaimsInv
  <2> HIDE DEF ResolvedRows
  <2> QED BY <1>1, <2>1, <2>2
<1>6. call.step # "flush" =>
         /\ \A r \in call.saved : SiteRow(r) =>
               /\ owning_file(r[2]) \notin Reparsed
               /\ r[2] \in sites \/ owning_file(r[2]) \in call.deleted
         /\ \A s \in call.reopened : s \in sites /\ owning_file(s) \notin Touched
         /\ \A s \in is_resolved : owning_file(s) \notin Purged
         /\ \A s \in is_resolved : owning_file(s) \notin call.added
  BY <1>1 DEF ClaimsInv, Refreshing, AfterPurge, AfterParse
<1>7. ClaimsInv'
  <2> HIDE DEF ResolvedRows
  <2>1. call'.step = "flush" <=> call.step = "flush" BY <1>1
  <2>2. call'.step \notin {"snapshot", "reopen", "purge", "new"} BY <1>1
  <2>3. \A r \in rows' : SiteRow(r) => r[2] \in sites' /\ r[3] \in Nodes(files, symbols, sites)'
    BY <1>1, <1>2, <1>4
  <2>4. \A r : SiteRow(r)' <=> SiteRow(r) BY DEF SiteRow
  <2> QED BY <1>1, <1>2, <1>5, <1>6, <2>1, <2>2, <2>3, <2>4
          DEF ClaimsInv, Refreshing, AfterPurge, AfterParse, SiteRow
<1>8. ClaimsHaveRows' BY <1>1, <1>3 DEF ClaimsHaveRows, HasSiteRow, SiteRow
<1> QED BY <1>7, <1>8

LEMMA RestoreKeepsClaims ==
    ASSUME TypeOK, ClaimsInv, ClaimsHaveRows, restore_sites_with_edge
    PROVE  ClaimsInv' /\ ClaimsHaveRows'
<1>1. /\ call.step = "restore" /\ call'.step = "save"
      /\ call'.changed = call.changed /\ call'.added = call.added /\ call'.deleted = call.deleted
      /\ call'.saved = call.saved /\ call'.reopened = call.reopened
      /\ is_resolved' = is_resolved \cup {s \in call.reopened : HasSiteRow(s)}
      /\ UNCHANGED <<files, symbols, sites, rows, torn, unflushed>>
  BY RestoreFields
<1>2. Nodes(files, symbols, sites)' = Nodes(files, symbols, sites)
      /\ Reparsed' = Reparsed /\ Touched' = Touched /\ Purged' = Purged
  BY <1>1 DEF Nodes, Reparsed, Touched, Purged
<1>3. /\ \A r \in rows : SiteRow(r) => r[2] \in sites /\ r[3] \in Nodes(files, symbols, sites)
      /\ \A r \in call.saved : SiteRow(r) =>
            /\ owning_file(r[2]) \notin Reparsed
            /\ r[2] \in sites \/ owning_file(r[2]) \in call.deleted
      /\ \A s \in call.reopened : s \in sites /\ owning_file(s) \notin Touched
      /\ \A s \in is_resolved : owning_file(s) \notin Purged /\ owning_file(s) \notin call.added
  BY <1>1 DEF ClaimsInv, Refreshing, AfterPurge, AfterParse
<1>4. \A s \in is_resolved' : owning_file(s) \notin Purged /\ owning_file(s) \notin call.added
  BY <1>1, <1>3 DEF Touched, Reparsed
<1>5. ClaimsInv'
  BY <1>1, <1>2, <1>3, <1>4 DEF ClaimsInv, AfterPurge, AfterParse, SiteRow
<1>6. \A s : HasSiteRow(s)' <=> HasSiteRow(s) BY <1>1 DEF HasSiteRow, SiteRow
<1>7. ClaimsHaveRows' BY <1>1, <1>6 DEF ClaimsHaveRows
<1> QED BY <1>5, <1>7

\* No claim is of a file of the change set when the manifest is saved.
LEMMA SaveKeepsClaims ==
    ASSUME TypeOK, ClaimsInv, ClaimsHaveRows, save_manifest
    PROVE  ClaimsInv' /\ ClaimsHaveRows'
<1>1. /\ call.step = "save" /\ call'.step = "coverage"
      /\ call'.changed = call.changed /\ call'.added = call.added /\ call'.deleted = call.deleted
      /\ call'.saved = call.saved /\ call'.reopened = call.reopened /\ torn' = torn \ Touched
      /\ UNCHANGED <<files, symbols, sites, rows, is_resolved, unflushed>>
  BY SaveFields
<1>2. Nodes(files, symbols, sites)' = Nodes(files, symbols, sites)
      /\ Reparsed' = Reparsed /\ Touched' = Touched /\ Purged' = Purged
  BY <1>1 DEF Nodes, Reparsed, Touched, Purged
<1>3. /\ \A r \in rows : SiteRow(r) => r[2] \in sites /\ r[3] \in Nodes(files, symbols, sites)
      /\ \A r \in call.saved : SiteRow(r) =>
            /\ owning_file(r[2]) \notin Reparsed
            /\ r[2] \in sites \/ owning_file(r[2]) \in call.deleted
      /\ \A s \in call.reopened : s \in sites /\ owning_file(s) \notin Touched
      /\ \A s \in is_resolved : owning_file(s) \notin Purged /\ owning_file(s) \notin call.added
  BY <1>1 DEF ClaimsInv, Refreshing, AfterPurge, AfterParse
<1>4. ClaimsInv'
  BY <1>1, <1>2, <1>3 DEF ClaimsInv, AfterPurge, AfterParse, SiteRow
<1>5. \A s \in is_resolved : owning_file(s) \notin Touched
  BY <1>3 DEF Touched, Reparsed, Purged
<1>6. \A s : HasSiteRow(s)' <=> HasSiteRow(s) BY <1>1 DEF HasSiteRow, SiteRow
<1>7. ClaimsHaveRows' BY <1>1, <1>5, <1>6 DEF ClaimsHaveRows
<1> QED BY <1>4, <1>7

LEMMA StepKeepsClaims ==
    ASSUME StructInv, ClaimsInv, ClaimsHaveRows, [Next]_vars
    PROVE  StructInv' /\ ClaimsInv' /\ ClaimsHaveRows'
<1>1. TypeOK /\ WorkInv BY DEF StructInv
<1>2. ASSUME NEW f \in Files, (\E c \in Contents[f] \cup {Absent} : edit(f, c)) \/ edit_cargo(f)
      PROVE  StructInv' /\ ClaimsInv' /\ ClaimsHaveRows'
  BY <1>1, <1>2, EditKeepsStruct, RestsKeepClaims
<1>3. ASSUME NEW f \in Files, purge_file(f)
      PROVE  StructInv' /\ ClaimsInv' /\ ClaimsHaveRows'
  <2>1. StructInv' BY <1>3, PurgeKeepsStruct
  <2>2. TypeOK' BY <2>1 DEF StructInv
  <2> QED BY <1>1, <1>3, <2>1, <2>2, PurgeKeepsClaims
<1>4. ASSUME NEW f \in Files, reparse_modified_file(f) \/ reparse_new_file(f)
      PROVE  StructInv' /\ ClaimsInv' /\ ClaimsHaveRows'
  BY <1>4, ParseKeepsStruct, ParseKeepsClaims
<1>5. CASE classify
  BY <1>1, <1>5, ClassifyKeepsStruct, BeginKeepsClaims
<1>6. CASE snapshot_inbound_edges \/ reopen_sites_resolved_into
  BY <1>1, <1>6, MovesKeepStruct, WithdrawKeepsClaims
<1>7. CASE purge_done \/ reparse_modified_done \/ reparse_new_done \/ prune_orphan_directories
  BY <1>1, <1>7, MovesKeepStruct, DoneKeepsClaims
<1>8. CASE light_link \/ iac \/ relink_inbound_edges \/ \E table \in SymbolTables : flush(table)
  BY <1>8, CreateKeepsStruct, CreateKeepsClaims
<1>9. CASE restore_sites_with_edge
  <2>1. call.step = "restore" BY <1>9 DEF restore_sites_with_edge
  <2>2. call.reopened \subseteq sites
    BY <2>1 DEF ClaimsInv, Refreshing, AfterPurge, AfterParse
  <2> QED BY <1>1, <1>9, <2>2, MovesKeepStruct, RestoreKeepsClaims
<1>10. CASE save_manifest BY <1>1, <1>10, SaveKeepsStruct, SaveKeepsClaims
<1>11. CASE save_incremental_coverage \/ save_coverage_failed \/ resolve_graph_done \/ cut_short
  BY <1>1, <1>11, EndKeepsStruct, RestsKeepClaims
<1>12. CASE resolve_calls BY <1>1, <1>12, EndKeepsStruct, BeginKeepsClaims
<1>13. CASE index_codebase_with_language \/ fall_back_to_full
  BY <1>1, <1>13, IndexKeepsStruct, IndexKeepsClaims
<1>14. CASE UNCHANGED vars
  <2>1. UNCHANGED <<tree, outside, manifest, coverage, files, dirs, symbols, sites, rows, is_resolved,
                    call, settled, torn, crossed, unflushed, unreported, doubled, before>>
    BY <1>14 DEF vars, disk, graph, nodes, history
  <2>2. StructInv'
    <3>1. TypeOK' BY <1>1, <2>1 DEF TypeOK
    <3>2. Reparsed' = Reparsed /\ Purged' = Purged /\ Present(tree)' = Present(tree)
          /\ Present(manifest)' = Present(manifest) /\ (Refreshing' <=> Refreshing)
      BY <2>1 DEF Reparsed, Purged, Present, Refreshing
    <3>3. WorkInv' BY <1>1, <2>1, <3>2 DEF WorkInv
    <3>4. \A f \in Files : Gone(f)' <=> Gone(f) BY <2>1 DEF Gone
    <3>5. call.deleted \subseteq Files BY <1>1, CallTypes
    <3>6. GoneInv' BY <2>1, <3>4, <3>5 DEF StructInv, GoneInv
    <3> QED BY <3>1, <3>3, <3>6 DEF StructInv
  <2>3. ClaimsInv'
    <3>1. /\ Reparsed' = Reparsed /\ Purged' = Purged /\ Touched' = Touched
          /\ (Refreshing' <=> Refreshing) /\ ResolvedRows' = ResolvedRows
          /\ Nodes(files, symbols, sites)' = Nodes(files, symbols, sites)
      BY <2>1 DEF Reparsed, Purged, Touched, Refreshing, ResolvedRows, Resolvable, Target, Candidates,
         Nodes
    <3> QED BY <2>1, <3>1 DEF ClaimsInv, SiteRow
  <2>4. ClaimsHaveRows' BY <2>1 DEF ClaimsHaveRows, HasSiteRow, SiteRow
  <2> QED BY <2>2, <2>3, <2>4
<1> QED BY <1>2, <1>3, <1>4, <1>5, <1>6, <1>7, <1>8, <1>9, <1>10, <1>11, <1>12, <1>13, <1>14 DEF Next

-----------------------------------------------------------------------------
(* The sidecar.                                                            *)

LEMMA InitGaps == Init => GapsInv /\ GapsAreCurrent
<1> SUFFICES ASSUME Init PROVE GapsInv /\ GapsAreCurrent OBVIOUS
<1>1. /\ manifest = tree /\ call.step = "idle" /\ outside = {}
      /\ coverage = [f \in Files |-> IF tree[f] = Absent THEN "none" ELSE GapOf[tree[f]]]
  BY EmptyCall DEF Init
<1>2. GapsInv BY <1>1 DEF GapsInv, AfterParse
<1>3. GapsAreCurrent BY <1>1 DEF GapsAreCurrent, overlay_cargo_attributions
<1> QED BY <1>2, <1>3

\* A step that leaves tree, manifest and sidecar, and no gap behind.
LEMMA OtherKeepsGaps ==
    ASSUME GapsInv, GapsAreCurrent, UNCHANGED <<manifest, coverage, unreported>>,
           \/ settled' = FALSE
           \/ settled' = settled /\ UNCHANGED <<tree, outside>>,
           \/ call'.step \notin {"reparse", "new"} \cup AfterParse
           \/ /\ call'.gaps = call.gaps /\ call'.changed = call.changed /\ call'.added = call.added
              /\ tree' = tree
              /\ \/ call'.step = "reparse" /\ call'.todo = call.changed
                 \/ call'.step = call.step /\ call'.todo = call.todo
                 \/ call.step = "reparse" /\ call.todo = {} /\ call'.step = "new" /\ call'.todo = call.added
                 \/ call.step = "new" /\ call.todo = {} /\ call'.step = "prune"
                 \/ call.step \in AfterParse /\ call'.step \in AfterParse
    PROVE  GapsInv' /\ GapsAreCurrent'
<1>1. GapsAreCurrent' BY DEF GapsAreCurrent, overlay_cargo_attributions
<1>2. CASE call'.step \notin {"reparse", "new"} \cup AfterParse BY <1>1, <1>2 DEF GapsInv
<1>3. CASE call'.step \in {"reparse", "new"} \cup AfterParse
  <2>1. Reparsed' = Reparsed BY <1>3 DEF Reparsed
  <2>2. \A f \in Files \ unreported : manifest[f] # Absent =>
          \/ coverage[f] = GapOf[manifest[f]]
          \/ coverage[f] = "outside" /\ GapOf[manifest[f]] = "none"
    BY DEF GapsInv
  <2>3. /\ call.step = "reparse" => \A f \in call.changed \ call.todo : call.gaps[f] = GapOf[tree[f]]
        /\ call.step = "new" => \A f \in Reparsed \ call.todo : call.gaps[f] = GapOf[tree[f]]
        /\ call.step \in AfterParse => \A f \in Reparsed : call.gaps[f] = GapOf[tree[f]]
    BY DEF GapsInv
  <2> QED BY <1>1, <1>3, <2>1, <2>2, <2>3 DEF GapsInv, AfterParse, Reparsed
<1> QED BY <1>1, <1>2, <1>3

LEMMA OthersKeepGaps ==
    ASSUME TypeOK, GapsInv, GapsAreCurrent,
           \/ \E f \in Files : \/ (\E c \in Contents[f] \cup {Absent} : edit(f, c)) \/ edit_cargo(f)
                              \/ purge_file(f)
           \/ classify \/ snapshot_inbound_edges \/ reopen_sites_resolved_into
           \/ purge_done \/ reparse_modified_done \/ reparse_new_done \/ prune_orphan_directories
           \/ light_link \/ iac \/ relink_inbound_edges \/ \E table \in SymbolTables : flush(table)
           \/ restore_sites_with_edge \/ save_coverage_failed \/ resolve_calls
           \/ resolve_graph_done \/ cut_short \/ UNCHANGED vars
    PROVE  GapsInv' /\ GapsAreCurrent'
<1>1. ASSUME NEW f \in Files, (\E c \in Contents[f] \cup {Absent} : edit(f, c)) \/ edit_cargo(f)
      PROVE  GapsInv' /\ GapsAreCurrent'
  <2>1. /\ UNCHANGED <<manifest, coverage, unreported>> /\ settled' = FALSE /\ call'.step = "idle"
    BY <1>1 DEF edit, edit_cargo, Idle
  <2> QED BY <2>1, OtherKeepsGaps DEF AfterParse
<1>2. ASSUME NEW f \in Files, purge_file(f) PROVE GapsInv' /\ GapsAreCurrent'
  <2>1. /\ UNCHANGED <<manifest, coverage, unreported>> /\ settled' = FALSE /\ call'.step = "purge"
    BY <1>2, PurgeFields
  <2> QED BY <2>1, OtherKeepsGaps DEF AfterParse
<1>3. CASE classify
  <2>1. /\ UNCHANGED <<tree, outside, manifest, coverage, unreported, settled>>
        /\ call'.step = "snapshot"
    <3> DEFINE ch == {f \in Present(tree) : manifest[f] \notin {Absent, tree[f]}}
               ad == {f \in Present(tree) : manifest[f] = Absent}
               de == {f \in Present(manifest) : tree[f] = Absent}
    <3>1. /\ call' = [NoCall EXCEPT !.step = "snapshot", !.changed = ch, !.added = ad,
                                    !.deleted = de, !.next = tree]
          /\ UNCHANGED <<tree, outside, manifest, coverage, unreported, settled>>
      BY <1>3 DEF classify, disk
    <3> HIDE DEF ch, ad, de
    <3> QED BY <3>1 DEF NoCall
  <2> QED BY <2>1, OtherKeepsGaps DEF AfterParse
<1>4. CASE snapshot_inbound_edges \/ reopen_sites_resolved_into
  <2>1. /\ UNCHANGED <<tree, outside, manifest, coverage, unreported, settled>>
        /\ call'.step \in {"reopen", "purge"}
    BY <1>4, SnapshotFields, ReopenFields
  <2> QED BY <2>1, OtherKeepsGaps DEF AfterParse
<1>5. CASE purge_done \/ reparse_modified_done \/ reparse_new_done
  <2>1. /\ UNCHANGED <<tree, outside, manifest, coverage, unreported, settled>>
        /\ call'.changed = call.changed /\ call'.added = call.added
        /\ call'.gaps = call.gaps /\ call.todo = {}
        /\ \/ call.step = "purge" /\ call'.step = "reparse" /\ call'.todo = call.changed
           \/ call.step = "reparse" /\ call'.step = "new" /\ call'.todo = call.added
           \/ call.step = "new" /\ call'.step = "prune"
    BY <1>5, DoneFields
  <2> QED BY <2>1, OtherKeepsGaps DEF AfterParse
<1>6. CASE prune_orphan_directories \/ restore_sites_with_edge
  <2>1. /\ UNCHANGED <<tree, outside, manifest, coverage, unreported, settled>>
        /\ call'.changed = call.changed /\ call'.added = call.added
        /\ call'.gaps = call.gaps
        /\ call.step \in AfterParse /\ call'.step \in AfterParse
    BY <1>6, PruneFields, RestoreFields DEF AfterParse
  <2> QED BY <2>1, OtherKeepsGaps
<1>7. CASE light_link \/ iac \/ relink_inbound_edges \/ \E table \in SymbolTables : flush(table)
  <2>1. /\ UNCHANGED <<tree, outside, manifest, coverage, unreported, settled>>
        /\ call'.changed = call.changed /\ call'.added = call.added
        /\ call'.gaps = call.gaps
        /\ \/ call.step \in AfterParse /\ call'.step \in AfterParse
           \/ call'.step = "flush"
    BY <1>7, CreateFields DEF AfterParse
  <2> QED BY <2>1, OtherKeepsGaps DEF AfterParse
<1>8. CASE save_coverage_failed \/ resolve_graph_done \/ cut_short
  <2>1. /\ UNCHANGED <<tree, outside, manifest, coverage, unreported>>
        /\ settled' = FALSE \/ settled' = settled
        /\ call'.step = "idle"
    BY <1>8, EmptyCall DEF save_coverage_failed, resolve_graph_done, cut_short, disk
  <2> QED BY <2>1, OtherKeepsGaps DEF AfterParse
<1>9. CASE resolve_calls
  <2>1. /\ UNCHANGED <<tree, outside, manifest, coverage, unreported, settled>>
        /\ call'.step = "flush"
    <3> DEFINE tables == {r[1] : r \in ResolvedRows}
    <3>1. /\ call' = [NoCall EXCEPT !.step = "flush", !.todo = tables]
          /\ UNCHANGED <<tree, outside, manifest, coverage, unreported, settled>>
      BY <1>9 DEF resolve_calls, disk
    <3> HIDE DEF tables
    <3> QED BY <3>1 DEF NoCall
  <2> QED BY <2>1, OtherKeepsGaps DEF AfterParse
<1>10. CASE UNCHANGED vars
  <2>1. UNCHANGED <<tree, outside, manifest, coverage, unreported, settled, call>>
    BY <1>10 DEF vars, disk, history
  <2> QED BY <2>1, OtherKeepsGaps
<1> QED BY <1>1, <1>2, <1>3, <1>4, <1>5, <1>6, <1>7, <1>8, <1>9, <1>10

LEMMA ParseKeepsGaps ==
    ASSUME TypeOK, WorkInv, GapsInv, GapsAreCurrent, NEW f \in Files,
           reparse_modified_file(f) \/ reparse_new_file(f)
    PROVE  GapsInv' /\ GapsAreCurrent'
<1>1. /\ call'.step = call.step /\ call.step \in {"reparse", "new"}
      /\ call'.todo = call.todo \ {f}
      /\ call'.changed = call.changed /\ call'.added = call.added
      /\ call'.gaps = [call.gaps EXCEPT ![f] = GapOf[tree[f]]]
      /\ settled' = FALSE
      /\ UNCHANGED <<tree, manifest, coverage, unreported>>
  BY ParseFields
<1>2. call.gaps \in [Files -> Gap] /\ Reparsed \subseteq Files /\ call.changed \subseteq Files
  BY CallTypes
<1>3. Reparsed' = Reparsed BY <1>1 DEF Reparsed
<1>4. \A g \in Files : call'.gaps[g] = IF g = f THEN GapOf[tree[f]] ELSE call.gaps[g] BY <1>1, <1>2
<1>5. /\ \A g \in Files \ unreported : manifest[g] # Absent =>
            \/ coverage[g] = GapOf[manifest[g]]
            \/ coverage[g] = "outside" /\ GapOf[manifest[g]] = "none"
      /\ call.step = "reparse" => \A g \in call.changed \ call.todo : call.gaps[g] = GapOf[tree[g]]
      /\ call.step = "new" => \A g \in Reparsed \ call.todo : call.gaps[g] = GapOf[tree[g]]
  BY DEF GapsInv
<1>6. GapsInv' BY <1>1, <1>2, <1>3, <1>4, <1>5 DEF GapsInv, AfterParse
<1>7. GapsAreCurrent' BY <1>1 DEF GapsAreCurrent
<1> QED BY <1>6, <1>7

LEMMA SaveKeepsGaps ==
    ASSUME TypeOK, WorkInv, GapsInv, GapsAreCurrent, save_manifest
    PROVE  GapsInv' /\ GapsAreCurrent'
<1>1. /\ call.step = "save" /\ call'.step = "coverage"
      /\ call'.changed = call.changed /\ call'.added = call.added /\ call'.gaps = call.gaps
      /\ manifest' = call.next /\ unreported' = unreported \cup Reparsed
      /\ UNCHANGED <<tree, outside, coverage, settled>>
  BY SaveFields
<1>2. /\ call.next = tree
      /\ call.changed = {f \in Present(tree) : manifest[f] \notin {Absent, tree[f]}}
      /\ call.added = {f \in Present(tree) : manifest[f] = Absent}
  BY <1>1 DEF WorkInv, Refreshing, AfterPurge, AfterParse
<1>3. \A f \in Files \ unreported' : manifest'[f] # Absent => manifest'[f] = manifest[f]
  BY <1>1, <1>2 DEF Reparsed, Present
<1>4. /\ \A g \in Files \ unreported : manifest[g] # Absent =>
            \/ coverage[g] = GapOf[manifest[g]]
            \/ coverage[g] = "outside" /\ GapOf[manifest[g]] = "none"
      /\ \A g \in Reparsed : call.gaps[g] = GapOf[tree[g]]
  BY <1>1 DEF GapsInv, AfterParse
<1>5. Reparsed' = Reparsed BY <1>1 DEF Reparsed
<1>6. GapsInv' BY <1>1, <1>3, <1>4, <1>5 DEF GapsInv
<1>7. GapsAreCurrent' BY <1>1 DEF GapsAreCurrent, overlay_cargo_attributions
<1> QED BY <1>6, <1>7

\* Where there is a gap of the parse, cargo's word does not replace it.
LEMMA MergeIsCurrent ==
    ASSUME TypeOK, WorkInv, GapsInv, save_incremental_coverage, NEW f \in Files,
           f \notin unreported'
    PROVE  coverage'[f] = IF f \in outside /\ tree[f] # Absent /\ GapOf[tree[f]] = "none" THEN "outside"
                          ELSE IF tree[f] = Absent THEN "none" ELSE GapOf[tree[f]]
<1>1. /\ call.step = "coverage" /\ unreported' = unreported \ Reparsed
      /\ coverage' = overlay_cargo_attributions(merge_coverage(coverage))
  BY DEF save_incremental_coverage
<1>2. manifest = tree /\ Reparsed \subseteq Present(tree) BY <1>1 DEF WorkInv
<1>3. f \in Reparsed => call.gaps[f] = GapOf[tree[f]] /\ tree[f] # Absent
  BY <1>1, <1>2 DEF GapsInv, AfterParse, Present
<1>4. f \notin Reparsed /\ tree[f] # Absent =>
         \/ coverage[f] = GapOf[tree[f]] /\ GapOf[tree[f]] # "outside"
         \/ coverage[f] = "outside" /\ GapOf[tree[f]] = "none"
  <2> SUFFICES ASSUME f \notin Reparsed, tree[f] # Absent
               PROVE  \/ coverage[f] = GapOf[tree[f]] /\ GapOf[tree[f]] # "outside"
                      \/ coverage[f] = "outside" /\ GapOf[tree[f]] = "none"
    OBVIOUS
  <2>1. GapOf[tree[f]] # "outside" BY ContentTypes DEF TypeOK, Present
  <2> QED BY <1>1, <1>2, <2>1 DEF GapsInv
<1>5. merge_coverage(coverage)[f] = IF tree[f] = Absent THEN "none" ELSE GapOf[tree[f]]
  BY <1>3, <1>4 DEF merge_coverage, CargoKinds
<1> QED BY <1>1, <1>5 DEF overlay_cargo_attributions

LEMMA ReportKeepsGaps ==
    ASSUME TypeOK, WorkInv, GapsInv, save_incremental_coverage
    PROVE  GapsInv' /\ GapsAreCurrent'
<1>1. /\ call.step = "coverage" /\ call'.step = "idle" /\ UNCHANGED <<tree, outside, manifest>>
      /\ coverage' = overlay_cargo_attributions(merge_coverage(coverage))
  BY EmptyCall DEF save_incremental_coverage, disk
<1>2. manifest = tree BY <1>1 DEF WorkInv
<1>3. GapsInv' BY <1>1, <1>2, MergeIsCurrent DEF GapsInv, AfterParse
<1>4. GapsAreCurrent'
  <2> SUFFICES ASSUME unreported' = {}
               PROVE  coverage' = overlay_cargo_attributions(
                         [f \in Files |-> IF tree[f] = Absent THEN "none" ELSE GapOf[tree[f]]])
    BY <1>1 DEF GapsAreCurrent, overlay_cargo_attributions
  <2>1. \A f \in Files :
           coverage'[f] = IF f \in outside /\ tree[f] # Absent /\ GapOf[tree[f]] = "none" THEN "outside"
                          ELSE IF tree[f] = Absent THEN "none" ELSE GapOf[tree[f]]
    BY MergeIsCurrent
  <2>2. coverage' = [f \in Files |-> coverage'[f]] BY <1>1 DEF overlay_cargo_attributions
  <2> QED BY <2>1, <2>2 DEF overlay_cargo_attributions
<1> QED BY <1>3, <1>4

LEMMA IndexKeepsGaps ==
    ASSUME TypeOK, index_codebase_with_language \/ fall_back_to_full
    PROVE  GapsInv' /\ GapsAreCurrent'
<1>1. /\ manifest' = tree /\ call'.step = "idle" /\ UNCHANGED <<tree, outside>>
      /\ coverage' = overlay_cargo_attributions(
            [f \in Files |-> IF tree[f] = Absent THEN "none" ELSE GapOf[tree[f]]])
  BY IndexFields, EmptyCall
<1>2. GapsInv' BY <1>1 DEF GapsInv, AfterParse, overlay_cargo_attributions
<1>3. GapsAreCurrent' BY <1>1 DEF GapsAreCurrent, overlay_cargo_attributions
<1> QED BY <1>2, <1>3

LEMMA StepKeepsGaps ==
    ASSUME StructInv, GapsInv, GapsAreCurrent, [Next]_vars
    PROVE  GapsInv' /\ GapsAreCurrent'
<1>1. TypeOK /\ WorkInv BY DEF StructInv
<1>2. CASE \E f \in Files : reparse_modified_file(f) \/ reparse_new_file(f)
  BY <1>1, <1>2, ParseKeepsGaps
<1>3. CASE save_manifest BY <1>1, <1>3, SaveKeepsGaps
<1>4. CASE save_incremental_coverage BY <1>1, <1>4, ReportKeepsGaps
<1>5. CASE index_codebase_with_language \/ fall_back_to_full BY <1>1, <1>5, IndexKeepsGaps
<1> QED BY <1>1, <1>2, <1>3, <1>4, <1>5, OthersKeepGaps DEF Next

-----------------------------------------------------------------------------
(* Rows and claims of files that a refresh does not touch.                 *)

LEMMA ShapedLinks ==
    /\ \A t \in Tree : \A r \in IndexedLinks(t) : Shaped(r)
    /\ \A t \in Tree, sources \in SUBSET Files :
          \A r \in link_file_imports_for(t, sources) : Shaped(r)
    /\ \A syms : \A t \in Tree, sources \in SUBSET Files :
          \A r \in run_iac_pass_for(t, sources, syms) : Shaped(r)
<1>1. ASSUME NEW t \in Tree, NEW r \in IndexedLinks(t) PROVE Shaped(r)
  BY <1>1, IndexedRows DEF Shaped
<1>2. ASSUME NEW t \in Tree, NEW sources \in SUBSET Files, NEW r \in link_file_imports_for(t, sources)
      PROVE  Shaped(r)
  <2>1. /\ r[1] = "References_File_File"
        /\ r[2] = FileId(owning_file(r[2])) /\ r[3] = FileId(owning_file(r[3]))
        /\ owning_file(r[2]) \in Present(t)
    BY <1>2, LightLinks
  <2>2. owning_file(r[2]) \in Files BY <2>1 DEF Present
  <2>3. r[2][3] = "file" BY <2>1, <2>2, Ids
  <2> QED BY <2>1, <2>3 DEF Shaped, SiteRow
<1>3. ASSUME NEW t \in Tree, NEW sources \in SUBSET Files, NEW syms,
             NEW r \in run_iac_pass_for(t, sources, syms)
      PROVE  Shaped(r)
  <2>1. /\ r[1] \in {"Imports_IacModule_IacModule", "Imports_IacModule_File"}
        /\ r[1] = "Imports_IacModule_File" => r[3] = FileId(owning_file(r[3]))
        /\ r[2][3] = "symbol"
    BY <1>3, InfrastructureLinks
  <2> QED BY <2>1 DEF Shaped, SiteRow, SymbolTables
<1> QED BY <1>1, <1>2, <1>3

LEMMA ShapedCalls ==
    ASSUME TypeOK, NEW r \in ResolvedRows
    PROVE  Shaped(r)
<1>1. /\ r[1] \in {"Calls_Function_Function", "Uses_Function_Enum", "Calls_CallSite_Function"}
      /\ SiteRow(r) => r[2] \in sites
      /\ ~SiteRow(r) => r[2][3] = "symbol"
  BY RowsOfSites
<1>2. SiteRow(r) => r[2][3] = "site" BY <1>1 DEF TypeOK
<1> QED BY <1>1, <1>2 DEF Shaped, SymbolTables

\* A step after which no refresh is in progress.
LEMMA RestKeepsKept ==
    ASSUME KeepInv, rows' = rows, call'.step \in {"idle", "flush"},
           before' = before \/ before' = NoBefore
    PROVE  KeepInv'
<1>1. \A r : Shaped(r)' <=> Shaped(r) BY DEF Shaped, SiteRow, owning_file, FileId
<1>2. before'.rows \subseteq before.rows /\ before'.claims \subseteq before.claims
  BY DEF NoBefore
<1>3. /\ \A r \in rows \cup before.rows : Shaped(r)
      /\ \A s \in before.claims : s[3] = "site"
  BY DEF KeepInv
<1>4. (\A r \in rows \cup before.rows : Shaped(r))' BY <1>1, <1>2, <1>3
<1>5. (\A s \in before.claims : s[3] = "site")' BY <1>2, <1>3
<1>6. ~Refreshing' BY DEF Refreshing, AfterPurge, AfterParse
<1> QED BY <1>4, <1>5, <1>6 DEF KeepInv, Refreshing, AfterPurge, AfterParse

LEMMA RestsKeepKept ==
    ASSUME TypeOK, KeepInv,
           \/ \E f \in Files : (\E c \in Contents[f] \cup {Absent} : edit(f, c)) \/ edit_cargo(f)
           \/ save_incremental_coverage \/ save_coverage_failed \/ cut_short \/ resolve_graph_done
           \/ resolve_calls
    PROVE  KeepInv'
<1>1. CASE ~resolve_calls
  <2>1. /\ rows' = rows /\ call'.step = "idle"
        /\ before' = before \/ before' = NoBefore
    BY <1>1, EmptyCall DEF edit, edit_cargo, save_incremental_coverage, save_coverage_failed, cut_short,
       resolve_graph_done, Idle, graph, nodes
  <2> QED BY <2>1, RestKeepsKept
<1>2. CASE resolve_calls
  <2> DEFINE tables == {r[1] : r \in ResolvedRows}
  <2>1. call' = [NoCall EXCEPT !.step = "flush", !.todo = tables] /\ rows' = rows /\ before' = before
    BY <1>2 DEF resolve_calls
  <2> HIDE DEF tables
  <2>2. call'.step = "flush" BY <2>1 DEF NoCall
  <2> QED BY <2>1, <2>2, RestKeepsKept
<1> QED BY <1>1, <1>2

LEMMA InitKept == Init => KeepInv
<1> SUFFICES ASSUME Init PROVE KeepInv OBVIOUS
<1>1. /\ rows = IndexedLinks(tree) /\ call.step = "idle" /\ tree \in Tree
      /\ before.rows = {} /\ before.claims = {}
  BY EmptyCall DEF Init, Tree, Content, NoBefore
<1>2. \A r \in rows \cup before.rows : Shaped(r) BY <1>1, ShapedLinks
<1> QED BY <1>1, <1>2 DEF KeepInv, Refreshing, AfterPurge, AfterParse

LEMMA IndexKeepsKept ==
    ASSUME TypeOK, index_codebase_with_language \/ fall_back_to_full
    PROVE  KeepInv'
<1>1. /\ rows' = IndexedLinks(tree) /\ call'.step = "idle" /\ tree \in Tree
      /\ before'.rows = {} /\ before'.claims = {}
  <2>1. rows' = IndexedLinks(tree) /\ call' = NoCall /\ before' = NoBefore BY IndexFields
  <2>2. tree \in Tree BY DEF TypeOK
  <2>3. before'.rows = {} /\ before'.claims = {} BY <2>1 DEF NoBefore
  <2> QED BY <2>1, <2>2, <2>3, EmptyCall
<1>2. \A r : Shaped(r)' <=> Shaped(r) BY DEF Shaped, SiteRow, owning_file, FileId
<1>3. (\A r \in rows \cup before.rows : Shaped(r))' BY <1>1, <1>2, ShapedLinks
<1> QED BY <1>1, <1>3 DEF KeepInv, Refreshing, AfterPurge, AfterParse

\* A row into a file that is new to the manifest: the file is in the graph.
LEMMA ClassifyKeepsKept ==
    ASSUME StructInv, KeepInv, classify
    PROVE  KeepInv'
<1> DEFINE ch == {f \in Present(tree) : manifest[f] \notin {Absent, tree[f]}}
           ad == {f \in Present(tree) : manifest[f] = Absent}
           de == {f \in Present(manifest) : tree[f] = Absent}
<1>1. /\ call' = [NoCall EXCEPT !.step = "snapshot", !.changed = ch, !.added = ad,
                                !.deleted = de, !.next = tree]
      /\ before' = [rows |-> rows, claims |-> is_resolved, lost |-> {}]
      /\ UNCHANGED <<files, rows, is_resolved>>
  BY DEF classify, graph, nodes
<1>2. ASSUME NEW r \in rows, owning_file(r[3]) \in ad PROVE owning_file(r[3]) \in files
  <2>1. owning_file(r[3]) \in Files /\ manifest[owning_file(r[3])] = Absent BY <1>2 DEF Present
  <2> QED BY <1>2, <2>1 DEF StructInv, GoneInv, Gone
<1> HIDE DEF ch, ad, de
<1>3. call'.step = "snapshot" /\ call'.added = ad BY <1>1 DEF NoCall
<1>4. before'.rows = rows /\ before'.claims = is_resolved BY <1>1
<1>5. \A r : Shaped(r)' <=> Shaped(r) BY DEF Shaped, SiteRow, owning_file, FileId
<1>6. (\A r \in rows \cup before.rows : Shaped(r))' BY <1>1, <1>4, <1>5 DEF KeepInv
<1>7. \A s \in before'.claims : s[3] = "site" BY <1>4 DEF StructInv, TypeOK
<1>8. before' = [rows |-> rows', claims |-> is_resolved', lost |-> {}] BY <1>1
<1>9. \A r \in before'.rows : owning_file(r[3]) \in call'.added => owning_file(r[3]) \in files'
  BY <1>1, <1>2, <1>3, <1>4
<1> QED BY <1>3, <1>6, <1>7, <1>8, <1>9 DEF KeepInv, AfterPurge, AfterParse

LEMMA WithdrawKeepsKept ==
    ASSUME TypeOK, KeepInv, snapshot_inbound_edges \/ reopen_sites_resolved_into
    PROVE  KeepInv'
<1>0. \A r : Shaped(r)' <=> Shaped(r) BY DEF Shaped, SiteRow, owning_file, FileId
<1>1. call.step \in {"snapshot", "reopen"}
  BY SnapshotFields, ReopenFields
<1>2. /\ before = [rows |-> rows, claims |-> is_resolved, lost |-> {}]
      /\ before.rows = rows /\ before.claims = is_resolved
  BY <1>1 DEF KeepInv
<1>3. /\ \A r \in rows \cup before.rows : Shaped(r)
      /\ \A s \in before.claims : s[3] = "site"
      /\ \A r \in before.rows : owning_file(r[3]) \in call.added => owning_file(r[3]) \in files
  BY <1>1 DEF KeepInv
<1>4. CASE snapshot_inbound_edges
  <2>1. /\ call'.step = "reopen"
        /\ call'.changed = call.changed /\ call'.added = call.added
        /\ call'.saved = {r \in rows : /\ r[1] \in SymbolTables
                                       /\ owning_file(r[3]) \in call.changed
                                       /\ owning_file(r[2]) \notin Reparsed}
        /\ UNCHANGED <<files, rows, is_resolved, before>>
    BY <1>4, SnapshotFields
  <2>2. Reparsed' = Reparsed BY <2>1 DEF Reparsed
  <2>3. (\A r \in rows \cup before.rows : Shaped(r))' BY <1>0, <1>3, <2>1
  <2>4. call'.saved = {r \in before'.rows : /\ r[1] \in SymbolTables
                                           /\ owning_file(r[3]) \in call'.changed
                                           /\ owning_file(r[2]) \notin Reparsed'}
    BY <1>2, <2>1, <2>2
  <2> QED BY <1>2, <1>3, <2>1, <2>3, <2>4 DEF KeepInv, AfterPurge, AfterParse
<1>5. CASE reopen_sites_resolved_into
  <2>1. /\ call.step = "reopen" /\ call'.step = "purge"
        /\ call'.changed = call.changed /\ call'.added = call.added /\ call'.deleted = call.deleted
        /\ call'.saved = call.saved /\ call'.reopened = collect_sites
        /\ is_resolved' = is_resolved \ collect_sites
        /\ UNCHANGED <<files, rows, before>>
    BY <1>5, ReopenFields
  <2>2. Reparsed' = Reparsed BY <2>1 DEF Reparsed
  <2>3. (\A r \in rows \cup before.rows : Shaped(r))' BY <1>0, <1>3, <2>1
  <2>4. call.saved = {r \in before.rows : /\ r[1] \in SymbolTables
                                         /\ owning_file(r[3]) \in call.changed
                                         /\ owning_file(r[2]) \notin Reparsed}
    BY <2>1 DEF KeepInv, Refreshing
  <2>5. call'.saved = {r \in before'.rows : /\ r[1] \in SymbolTables
                                           /\ owning_file(r[3]) \in call'.changed
                                           /\ owning_file(r[2]) \notin Reparsed'}
    BY <2>1, <2>2, <2>4
  <2>6. \A r \in before'.rows : r \in rows' BY <1>2, <2>1
  <2>7. \A s \in before'.claims : s \in is_resolved' \cup call'.reopened BY <1>2, <2>1
  <2>8. \A r \in call.saved : SiteRow(r) /\ owning_file(r[2]) \notin Touched => r[2] \notin is_resolved'
    BY <1>2, <2>1, <2>4 DEF collect_sites, SiteRow, Touched, Purged
  <2>9. Touched' = Touched BY <2>1 DEF Touched, Reparsed, Purged
  <2> HIDE DEF collect_sites
  <2>10. (\A r \in call.saved : SiteRow(r) /\ owning_file(r[2]) \notin Touched => r[2] \notin is_resolved)'
    BY <2>1, <2>8, <2>9 DEF SiteRow, owning_file
  <2> QED BY <1>3, <2>1, <2>3, <2>5, <2>6, <2>7, <2>10 DEF KeepInv, AfterPurge, AfterParse
<1> QED BY <1>4, <1>5

\* Only a row with an end of its own kind in the purged file goes.
LEMMA PurgeKeepsKept ==
    ASSUME TypeOK, WorkInv, KeepInv, NEW f \in Files, purge_file(f)
    PROVE  KeepInv'
<1>0. \A r : Shaped(r)' <=> Shaped(r) BY DEF Shaped, SiteRow, owning_file, FileId
<1>1. /\ call.step = "purge" /\ call'.step = "purge" /\ f \in call.todo
      /\ call'.changed = call.changed /\ call'.added = call.added
      /\ call'.deleted = call.deleted
      /\ call'.saved = call.saved /\ call'.reopened = call.reopened
      /\ sites' = {s \in sites : owning_file(s) # f}
      /\ symbols' \subseteq symbols
      /\ is_resolved' = is_resolved \cap sites'
      /\ files' = (IF f \in call.deleted THEN files \ {f} ELSE files)
      /\ rows' = Detached({r \in rows : ~(r[1] = "References_File_File" /\ r[2] = FileId(f))},
                          Nodes(files', symbols', sites'))
      /\ before' = before
  BY PurgeFields
<1>2. Reparsed' = Reparsed /\ Touched' = Touched
  BY <1>1 DEF Reparsed, Touched, Purged
<1>3. \A r : Stays(r)' <=> Stays(r) BY <1>1, <1>2 DEF Stays, owning_file
<1>4. f \in Touched /\ f \notin call.added
  BY <1>1 DEF WorkInv, Touched, Purged, Refreshing, Present
<1>5. rows' \subseteq rows BY <1>1 DEF Detached
<1>6. \A i \in Nodes(files', symbols', sites') : i \in Nodes(files, symbols, sites)
  BY <1>1 DEF Nodes
<1>7. /\ \A r \in rows \cup before.rows : Shaped(r)
      /\ \A s \in before.claims : s[3] = "site"
      /\ call.saved = {r \in before.rows : /\ r[1] \in SymbolTables
                                          /\ owning_file(r[3]) \in call.changed
                                          /\ owning_file(r[2]) \notin Reparsed}
      /\ \A r \in before.rows : owning_file(r[3]) \in call.added => owning_file(r[3]) \in files
      /\ \A r \in before.rows :
            (/\ Stays(r) /\ r[2] \in Nodes(files, symbols, sites)
             /\ r \in call.saved \/ r[3] \in Nodes(files, symbols, sites)) =>
                r \in rows \cup call.saved
      /\ \A s \in before.claims : owning_file(s) \notin Touched => s \in is_resolved \cup call.reopened
      /\ \A r \in call.saved :
            SiteRow(r) /\ owning_file(r[2]) \notin Touched => r[2] \notin is_resolved
  BY <1>1 DEF KeepInv, Refreshing
<1>8. ASSUME NEW r \in before.rows, Stays(r), r[2] \in Nodes(files', symbols', sites'),
             r \in call.saved \/ r[3] \in Nodes(files', symbols', sites')
      PROVE  r \in rows' \cup call.saved
  <2> SUFFICES ASSUME r \notin call.saved PROVE r \in rows' OBVIOUS
  <2>1. r \in rows BY <1>6, <1>7, <1>8
  <2>2. r[2] # FileId(f) BY <1>4, <1>8, Ids DEF Stays
  <2> QED BY <1>1, <1>8, <2>1, <2>2 DEF Detached, Ends
<1>9. \A s \in before.claims : owning_file(s) \notin Touched => s \in is_resolved' \cup call.reopened
  BY <1>1, <1>4, <1>7 DEF TypeOK
<1>10. (\A r \in rows \cup before.rows : Shaped(r))' BY <1>0, <1>1, <1>5, <1>7
<1>11. \A r \in before.rows : owning_file(r[3]) \in call.added => owning_file(r[3]) \in files'
  BY <1>1, <1>4, <1>7
<1>12. Nodes(files, symbols, sites)' = Nodes(files', symbols', sites') BY DEF Nodes
<1>13. (\A r \in before.rows :
            (/\ Stays(r) /\ r[2] \in Nodes(files, symbols, sites)
             /\ r \in call.saved \/ r[3] \in Nodes(files, symbols, sites)) =>
                r \in rows \cup call.saved)'
  BY <1>1, <1>3, <1>8, <1>12
<1>14. (\A r \in call.saved :
           SiteRow(r) /\ owning_file(r[2]) \notin Touched => r[2] \notin is_resolved)'
  BY <1>1, <1>2, <1>7 DEF SiteRow, owning_file
<1> QED BY <1>1, <1>2, <1>7, <1>9, <1>10, <1>11, <1>13, <1>14
        DEF KeepInv, AfterPurge, AfterParse

\* A step of a refresh after the reopening that leaves rows and nodes.
LEMMA DoneKeepsKept ==
    ASSUME TypeOK, KeepInv,
           \/ purge_done \/ reparse_modified_done \/ reparse_new_done \/ prune_orphan_directories
    PROVE  KeepInv'
<1>0. \A r : Shaped(r)' <=> Shaped(r) BY DEF Shaped, SiteRow, owning_file, FileId
<1>1. /\ call'.changed = call.changed /\ call'.added = call.added /\ call'.deleted = call.deleted
      /\ call'.saved = call.saved /\ call'.reopened = call.reopened
      /\ UNCHANGED <<files, symbols, sites, rows, is_resolved, before>>
      /\ \/ call.step = "purge" /\ call'.step = "reparse"
         \/ call.step = "reparse" /\ call'.step = "new" /\ call'.todo = call.added
         \/ call.step = "new" /\ call.todo = {} /\ call'.step = "prune"
         \/ call.step = "prune" /\ call'.step = "links"
  BY DoneFields, PruneFields
<1>2. /\ Reparsed' = Reparsed /\ Touched' = Touched
      /\ Nodes(files, symbols, sites)' = Nodes(files, symbols, sites)
  BY <1>1 DEF Reparsed, Touched, Purged, Nodes
<1>3. \A r : Stays(r)' <=> Stays(r) BY <1>1, <1>2 DEF Stays, owning_file
<1>4. /\ \A r \in rows \cup before.rows : Shaped(r)
      /\ \A s \in before.claims : s[3] = "site"
      /\ call.saved = {r \in before.rows : /\ r[1] \in SymbolTables
                                          /\ owning_file(r[3]) \in call.changed
                                          /\ owning_file(r[2]) \notin Reparsed}
      /\ \A r \in before.rows :
            (/\ Stays(r) /\ r[2] \in Nodes(files, symbols, sites)
             /\ r \in call.saved \/ r[3] \in Nodes(files, symbols, sites)) =>
                r \in rows \cup call.saved
      /\ \A s \in before.claims : owning_file(s) \notin Touched => s \in is_resolved \cup call.reopened
      /\ \A r \in call.saved :
            SiteRow(r) /\ owning_file(r[2]) \notin Touched => r[2] \notin is_resolved
  BY <1>1 DEF KeepInv, Refreshing, AfterPurge, AfterParse
<1>5. /\ call'.step \in {"reparse", "new"} => \A r \in before.rows :
            owning_file(r[3]) \in call.added => owning_file(r[3]) \in files
      /\ call'.step \in {"prune", "links"} => \A r \in before.rows : owning_file(r[3]) \notin call.added
  BY <1>1 DEF KeepInv, AfterParse
<1>6. (\A r \in rows \cup before.rows : Shaped(r))' BY <1>0, <1>1, <1>4
<1>7. (\A r \in before.rows :
            (/\ Stays(r) /\ r[2] \in Nodes(files, symbols, sites)
             /\ r \in call.saved \/ r[3] \in Nodes(files, symbols, sites)) =>
                r \in rows \cup call.saved)'
  BY <1>1, <1>2, <1>3, <1>4
<1>8. (\A r \in call.saved :
           SiteRow(r) /\ owning_file(r[2]) \notin Touched => r[2] \notin is_resolved)'
  BY <1>1, <1>2, <1>4 DEF SiteRow, owning_file
<1> QED BY <1>1, <1>2, <1>4, <1>5, <1>6, <1>7, <1>8 DEF KeepInv, AfterPurge, AfterParse

\* The nodes a parse adds are of a file of the change set; a row into one of its
\* symbols was saved, and its File node, when it had one, was never away.
LEMMA ParseKeepsKept ==
    ASSUME TypeOK, TypeOK', WorkInv, KeepInv, NEW f \in Files,
           reparse_modified_file(f) \/ reparse_new_file(f)
    PROVE  KeepInv'
<1>0. \A r : Shaped(r)' <=> Shaped(r) BY DEF Shaped, SiteRow, owning_file, FileId
<1>1. /\ call'.step = call.step /\ f \in call.todo /\ call'.todo = call.todo \ {f}
      /\ f \in Reparsed /\ f \in Present(tree)
      /\ call'.changed = call.changed /\ call'.added = call.added
      /\ call'.deleted = call.deleted
      /\ call'.saved = call.saved /\ call'.reopened = call.reopened
      /\ symbols' = symbols \cup SymbolsOf(f, tree[f])
      /\ sites' = sites \cup SitesOf(f, tree[f])
      /\ \/ call.step = "reparse" /\ f \in call.changed /\ files' = files
         \/ call.step = "new" /\ f \in call.added /\ f \notin files /\ files' = files \cup {f}
      /\ UNCHANGED <<rows, is_resolved, before>>
  BY ParseFields
<1>2. Reparsed' = Reparsed /\ Touched' = Touched BY <1>1 DEF Reparsed, Touched, Purged
<1>3. \A r : Stays(r)' <=> Stays(r) BY <1>1, <1>2 DEF Stays, owning_file
<1>4. /\ \A r \in rows \cup before.rows : Shaped(r)
      /\ \A s \in before.claims : s[3] = "site"
      /\ call.saved = {r \in before.rows : /\ r[1] \in SymbolTables
                                          /\ owning_file(r[3]) \in call.changed
                                          /\ owning_file(r[2]) \notin Reparsed}
      /\ \A r \in before.rows : owning_file(r[3]) \in call.added =>
            owning_file(r[3]) \in files /\ (call.step = "new" => owning_file(r[3]) \in call.todo)
      /\ \A r \in before.rows :
            (/\ Stays(r) /\ r[2] \in Nodes(files, symbols, sites)
             /\ r \in call.saved \/ r[3] \in Nodes(files, symbols, sites)) =>
                r \in rows \cup call.saved
      /\ \A s \in before.claims : owning_file(s) \notin Touched => s \in is_resolved \cup call.reopened
      /\ \A r \in call.saved :
            SiteRow(r) /\ owning_file(r[2]) \notin Touched => r[2] \notin is_resolved
  BY <1>1 DEF KeepInv, Refreshing, AfterPurge
<1>5. \A i \in Nodes(files, symbols, sites)' : i \in Nodes(files, symbols, sites) \/ owning_file(i) = f
  <2>1. \A s \in SymbolsOf(f, tree[f]) \cup SitesOf(f, tree[f]) : owning_file(s) = f
    BY <1>1, FileNodes DEF TypeOK
  <2>2. owning_file(FileId(f)) = f BY Ids
  <2> QED BY <1>1, <2>1, <2>2 DEF Nodes
<1>6. ASSUME NEW r \in before.rows, Stays(r), r[2] \in Nodes(files, symbols, sites)',
             r \in call.saved \/ r[3] \in Nodes(files, symbols, sites)'
      PROVE  r \in rows \cup call.saved
  <2>1. r[2] \in Nodes(files, symbols, sites) BY <1>1, <1>5, <1>6 DEF Stays, Touched
  <2>2. r \notin call.saved => r[3] \in Nodes(files, symbols, sites)
    <3> SUFFICES ASSUME r \notin call.saved, owning_file(r[3]) = f
                 PROVE  r[3] \in Nodes(files, symbols, sites)
      BY <1>5, <1>6
    <3>1. f \in call.changed /\ files' = files BY <1>1, <1>6 DEF Stays
    <3>2. owning_file(r[2]) \notin Reparsed BY <1>6 DEF Stays, Touched
    <3>3. r[1] \notin SymbolTables BY <1>4, <3>1, <3>2
    <3>4. r[3] = FileId(f) BY <1>4, <3>3 DEF Shaped
    <3>5. r[3][3] = "file" BY <3>4, Ids
    <3>6. \A s \in symbols' \cup sites' : s[3] # "file" BY DEF TypeOK
    <3> QED BY <1>6, <3>1, <3>5, <3>6 DEF Nodes
  <2> QED BY <1>4, <1>6, <2>1, <2>2
<1>7. (\A r \in before.rows :
            (/\ Stays(r) /\ r[2] \in Nodes(files, symbols, sites)
             /\ r \in call.saved \/ r[3] \in Nodes(files, symbols, sites)) =>
                r \in rows \cup call.saved)'
  BY <1>1, <1>3, <1>6
<1>8. (\A r \in rows \cup before.rows : Shaped(r))' BY <1>0, <1>1, <1>4
<1>9. \A r \in before.rows : owning_file(r[3]) \in call.added =>
         owning_file(r[3]) \in files' /\ (call.step = "new" => owning_file(r[3]) \in call'.todo)
  BY <1>1, <1>4
<1>10. (\A r \in call.saved :
           SiteRow(r) /\ owning_file(r[2]) \notin Touched => r[2] \notin is_resolved)'
  BY <1>1, <1>2, <1>4 DEF SiteRow, owning_file
<1> QED BY <1>1, <1>2, <1>4, <1>7, <1>8, <1>9, <1>10 DEF KeepInv, AfterPurge, AfterParse

\* Rows are only added; what was saved and has its ends again is back after the
\* relinking.
LEMMA CreateKeepsKept ==
    ASSUME TypeOK, KeepInv,
           \/ light_link \/ iac \/ relink_inbound_edges
           \/ \E table \in SymbolTables : flush(table)
    PROVE  KeepInv'
<1>0. \A r : Shaped(r)' <=> Shaped(r) BY DEF Shaped, SiteRow, owning_file, FileId
<1>1. /\ call'.changed = call.changed /\ call'.added = call.added
      /\ call'.deleted = call.deleted
      /\ call'.saved = call.saved /\ call'.reopened = call.reopened
      /\ \/ /\ call.step = "links" /\ call'.step = "iac"
            /\ rows' = rows \cup link_file_imports_for(tree, Reparsed)
         \/ /\ call.step = "iac" /\ call'.step = "relink"
            /\ rows' = rows \cup run_iac_pass_for(tree, Reparsed, symbols)
         \/ /\ call.step = "relink" /\ call'.step = "restore"
            /\ before'.lost \subseteq Detached(call.saved, Nodes(files, symbols, sites))
            /\ rows' = rows \cup
                  (Detached(call.saved, Nodes(files, symbols, sites)) \ before'.lost)
         \/ /\ call.step = "flush" /\ call'.step = "flush"
            /\ \E table \in SymbolTables : rows' = rows \cup {r \in ResolvedRows : r[1] = table}
      /\ before'.rows = before.rows /\ before'.claims = before.claims
      /\ UNCHANGED <<files, symbols, sites, is_resolved>>
  BY CreateFields
<1>2. /\ Reparsed' = Reparsed /\ Touched' = Touched
      /\ Nodes(files, symbols, sites)' = Nodes(files, symbols, sites)
  BY <1>1 DEF Reparsed, Touched, Purged, Nodes
<1>3. \A r : Stays(r)' <=> Stays(r) BY <1>1, <1>2 DEF Stays, owning_file
<1>4. rows \subseteq rows' BY <1>1
<1>5. /\ \A r \in rows \cup before.rows : Shaped(r)
      /\ \A s \in before.claims : s[3] = "site"
  BY DEF KeepInv
<1>6. call.step # "flush" =>
      /\ call.saved = {r \in before.rows : /\ r[1] \in SymbolTables
                                          /\ owning_file(r[3]) \in call.changed
                                          /\ owning_file(r[2]) \notin Reparsed}
      /\ \A r \in before.rows : owning_file(r[3]) \notin call.added
      /\ \A r \in before.rows :
            (/\ Stays(r) /\ r[2] \in Nodes(files, symbols, sites)
             /\ r \in call.saved \/ r[3] \in Nodes(files, symbols, sites)) =>
                r \in rows \cup call.saved
      /\ \A s \in before.claims : owning_file(s) \notin Touched => s \in is_resolved \cup call.reopened
      /\ \A r \in call.saved :
            SiteRow(r) /\ owning_file(r[2]) \notin Touched => r[2] \notin is_resolved
  BY <1>1 DEF KeepInv, Refreshing, AfterPurge, AfterParse
<1>7. ASSUME NEW r \in rows' PROVE Shaped(r)
  <2>1. CASE r \in rows BY <1>5, <2>1
  <2>2. CASE r \in link_file_imports_for(tree, Reparsed)
    BY <2>2, ShapedLinks, CallTypes DEF TypeOK
  <2>3. CASE r \in run_iac_pass_for(tree, Reparsed, symbols)
    BY <2>3, ShapedLinks, CallTypes DEF TypeOK
  <2>4. CASE call.step = "relink" /\ r \in Detached(call.saved, Nodes(files, symbols, sites))
    BY <1>5, <1>6, <2>4 DEF Detached
  <2>5. CASE r \in ResolvedRows BY <2>5, ShapedCalls
  <2> QED BY <1>1, <1>7, <2>1, <2>2, <2>3, <2>4, <2>5
<1>8. (\A r \in rows \cup before.rows : Shaped(r))' BY <1>0, <1>1, <1>5, <1>7
<1>9. CASE call.step = "flush"
  BY <1>1, <1>5, <1>8, <1>9 DEF KeepInv, Refreshing, AfterPurge, AfterParse
<1>10. CASE call.step # "flush"
  <2>1. (\A r \in before.rows :
            (/\ Stays(r) /\ r[2] \in Nodes(files, symbols, sites)
             /\ r \in call.saved \/ r[3] \in Nodes(files, symbols, sites)) =>
                r \in rows \cup call.saved)'
    BY <1>1, <1>2, <1>3, <1>4, <1>6, <1>10
  <2>2. call.step = "relink" =>
           /\ before'.lost \subseteq call.saved
           /\ \A r \in before.rows : Stays(r) /\ Ends(r) \subseteq Nodes(files, symbols, sites) =>
                 r \in rows' \cup before'.lost
    BY <1>1, <1>6, <1>10 DEF Ends, Detached
  <2>3. call'.step = "restore" =>
           /\ before'.lost \subseteq call'.saved
           /\ (\A r \in before.rows : Stays(r) /\ Ends(r) \subseteq Nodes(files, symbols, sites) =>
                 r \in rows \cup before.lost)'
    BY <1>1, <1>2, <1>3, <2>2 DEF Ends
  <2>4. (\A r \in call.saved :
           SiteRow(r) /\ owning_file(r[2]) \notin Touched => r[2] \notin is_resolved)'
    BY <1>1, <1>2, <1>6, <1>10 DEF SiteRow, owning_file
  <2> QED BY <1>1, <1>2, <1>5, <1>6, <1>8, <1>10, <2>1, <2>3, <2>4
          DEF KeepInv, AfterPurge, AfterParse
<1> QED BY <1>9, <1>10

LEMMA RestoreKeepsKept ==
    ASSUME TypeOK, KeepInv, restore_sites_with_edge \/ save_manifest
    PROVE  KeepInv'
<1>0. \A r : Shaped(r)' <=> Shaped(r) BY DEF Shaped, SiteRow, owning_file, FileId
<1>1. /\ call'.changed = call.changed /\ call'.added = call.added /\ call'.deleted = call.deleted
      /\ call'.saved = call.saved
      /\ UNCHANGED <<files, symbols, sites, rows, before>>
      /\ \/ /\ call.step = "restore" /\ call'.step = "save"
            /\ is_resolved' = is_resolved \cup {s \in call.reopened : HasSiteRow(s)}
         \/ call.step = "save" /\ call'.step = "coverage" /\ is_resolved' = is_resolved
  BY RestoreFields, SaveFields
<1>2. /\ Reparsed' = Reparsed /\ Touched' = Touched
      /\ Nodes(files, symbols, sites)' = Nodes(files, symbols, sites)
  BY <1>1 DEF Reparsed, Touched, Purged, Nodes
<1>3. \A r : Stays(r)' <=> Stays(r) BY <1>1, <1>2 DEF Stays, owning_file
<1>4. /\ \A r \in rows \cup before.rows : Shaped(r)
      /\ \A s \in before.claims : s[3] = "site"
      /\ call.saved = {r \in before.rows : /\ r[1] \in SymbolTables
                                          /\ owning_file(r[3]) \in call.changed
                                          /\ owning_file(r[2]) \notin Reparsed}
      /\ \A r \in before.rows : owning_file(r[3]) \notin call.added
      /\ \A r \in before.rows :
            (/\ Stays(r) /\ r[2] \in Nodes(files, symbols, sites)
             /\ r \in call.saved \/ r[3] \in Nodes(files, symbols, sites)) =>
                r \in rows \cup call.saved
      /\ before.lost \subseteq call.saved
      /\ \A r \in before.rows :
            Stays(r) /\ Ends(r) \subseteq Nodes(files, symbols, sites) => r \in rows \cup before.lost
  BY <1>1 DEF KeepInv, Refreshing, AfterPurge, AfterParse
<1>5. call.step = "restore" =>
      /\ \A s \in before.claims :
            owning_file(s) \notin Touched => s \in is_resolved \cup call.reopened
      /\ \A r \in call.saved :
            SiteRow(r) /\ owning_file(r[2]) \notin Touched => r[2] \notin is_resolved
  BY DEF KeepInv, AfterPurge, AfterParse
<1>6. call.step = "save" =>
      /\ \A s \in before.claims :
            owning_file(s) \notin Touched /\ HasSiteRow(s) => s \in is_resolved
      /\ \A r \in call.saved :
            SiteRow(r) /\ owning_file(r[2]) \notin Touched /\ r[2] \in is_resolved => HasSiteRow(r[2])
  BY DEF KeepInv
<1>7. (\A r \in rows \cup before.rows : Shaped(r))' BY <1>0, <1>1, <1>4
<1>8. (\A r \in before.rows :
            (/\ Stays(r) /\ r[2] \in Nodes(files, symbols, sites)
             /\ r \in call.saved \/ r[3] \in Nodes(files, symbols, sites)) =>
                r \in rows \cup call.saved)'
  BY <1>1, <1>2, <1>3, <1>4
<1>9. (\A r \in before.rows :
            Stays(r) /\ Ends(r) \subseteq Nodes(files, symbols, sites) => r \in rows \cup before.lost)'
  BY <1>1, <1>2, <1>3, <1>4 DEF Ends
<1>10. \A s : HasSiteRow(s)' <=> HasSiteRow(s) BY <1>1 DEF HasSiteRow, SiteRow
<1>11. (\A s \in before.claims : owning_file(s) \notin Touched /\ HasSiteRow(s) => s \in is_resolved)'
  BY <1>1, <1>2, <1>5, <1>6, <1>10 DEF owning_file
<1>12. (\A r \in call.saved :
            SiteRow(r) /\ owning_file(r[2]) \notin Touched /\ r[2] \in is_resolved => HasSiteRow(r[2]))'
  BY <1>1, <1>2, <1>5, <1>6, <1>10 DEF owning_file, SiteRow
<1> QED BY <1>1, <1>2, <1>4, <1>7, <1>8, <1>9, <1>11, <1>12 DEF KeepInv, AfterPurge, AfterParse

LEMMA StepKeepsKept ==
    ASSUME StructInv, TypeOK', KeepInv, [Next]_vars
    PROVE  KeepInv'
<1>1. TypeOK /\ WorkInv BY DEF StructInv
<1>2. CASE \E f \in Files : purge_file(f) BY <1>1, <1>2, PurgeKeepsKept
<1>3. CASE \E f \in Files : reparse_modified_file(f) \/ reparse_new_file(f)
  BY <1>1, <1>3, ParseKeepsKept
<1>4. CASE \/ purge_done \/ reparse_modified_done \/ reparse_new_done \/ prune_orphan_directories
  BY <1>1, <1>4, DoneKeepsKept
<1>5. CASE light_link \/ iac \/ relink_inbound_edges \/ \E table \in SymbolTables : flush(table)
  BY <1>1, <1>5, CreateKeepsKept
<1>6. CASE restore_sites_with_edge \/ save_manifest BY <1>1, <1>6, RestoreKeepsKept
<1>7. CASE index_codebase_with_language \/ fall_back_to_full BY <1>1, <1>7, IndexKeepsKept
<1>8. CASE classify BY <1>8, ClassifyKeepsKept
<1>9. CASE snapshot_inbound_edges \/ reopen_sites_resolved_into BY <1>1, <1>9, WithdrawKeepsKept
<1>10. CASE UNCHANGED vars
  <2>1. UNCHANGED <<files, symbols, sites, rows, is_resolved, call, before>>
    BY <1>10 DEF vars, graph, nodes, history
  <2>2. /\ Reparsed' = Reparsed /\ Touched' = Touched /\ (Refreshing' <=> Refreshing)
        /\ Nodes(files, symbols, sites)' = Nodes(files, symbols, sites)
    BY <2>1 DEF Reparsed, Touched, Purged, Nodes, Refreshing
  <2>3. \A r : (Stays(r)' <=> Stays(r)) /\ (Shaped(r)' <=> Shaped(r))
    BY <2>1, <2>2 DEF Stays, owning_file, Shaped, SiteRow, FileId
  <2>4. \A x : HasSiteRow(x)' <=> HasSiteRow(x) BY <2>1 DEF HasSiteRow, SiteRow
  <2> QED BY <2>1, <2>2, <2>3, <2>4 DEF KeepInv, SiteRow
<1> QED BY <1>1, <1>2, <1>3, <1>4, <1>5, <1>6, <1>7, <1>8, <1>9, <1>10, RestsKeepKept DEF Next

\* At the end of a refresh: an end in a deleted file is gone, and a row into a
\* new file there was not.
LEMMA KeptRows ==
    ASSUME StructInv, KeepInv
    PROVE  RefreshKeepsRows
<1> SUFFICES ASSUME call.step = "coverage", NEW r \in before.rows,
                    owning_file(r[2]) \notin Reparsed \cup Purged,
                    Ends(r) \subseteq Nodes(files, symbols, sites)
             PROVE  /\ r \in rows \cup before.lost
                    /\ SiteRow(r) /\ r[2] \in before.claims =>
                          (r[2] \in is_resolved <=> HasSiteRow(r[2]))
  BY DEF RefreshKeepsRows
<1>1. TypeOK BY DEF StructInv
<1>2. owning_file(r[3]) \notin call.added BY DEF KeepInv, AfterParse
<1>3. owning_file(r[3]) \notin call.deleted
  <2>1. \A f \in call.deleted : Gone(f) BY DEF StructInv, GoneInv, AfterPurge, AfterParse
  <2>2. files \subseteq Files /\ call.deleted \subseteq Files BY <1>1, CallTypes DEF TypeOK
  <2>3. \A f \in Files : Gone(f) => \A i \in Nodes(files, symbols, sites) : owning_file(i) # f
    BY <2>2, Ids DEF Gone, Nodes
  <2> QED BY <2>1, <2>2, <2>3 DEF Ends
<1>4. Stays(r) /\ owning_file(r[2]) \notin Touched BY <1>2, <1>3 DEF Stays, Touched
<1>5. r \in rows \cup before.lost /\ before.lost \subseteq call.saved BY <1>4 DEF KeepInv
<1>6. SiteRow(r) /\ r \in rows => HasSiteRow(r[2]) BY DEF HasSiteRow
<1>7. r[2] \in before.claims /\ HasSiteRow(r[2]) => r[2] \in is_resolved BY <1>4 DEF KeepInv
<1>8. SiteRow(r) /\ r \in call.saved /\ r[2] \in is_resolved => HasSiteRow(r[2])
  BY <1>4 DEF KeepInv
<1> QED BY <1>5, <1>6, <1>7, <1>8

-----------------------------------------------------------------------------
(* The nodes of files.                                                     *)

\* What an index of a tree has for one file.
LEMMA IndexedPerFile ==
    ASSUME NEW t \in Tree, NEW f \in Files
    PROVE  /\ {s \in IndexedSymbols(t) : owning_file(s) = f} =
                 IF t[f] = Absent THEN {} ELSE SymbolsOf(f, t[f])
           /\ {s \in IndexedSites(t) : owning_file(s) = f} =
                 IF t[f] = Absent THEN {} ELSE SitesOf(f, t[f])
<1>1. \A g \in Present(t) : /\ \A s \in SymbolsOf(g, t[g]) : owning_file(s) = g
                            /\ \A s \in SitesOf(g, t[g]) : owning_file(s) = g
  BY FileNodes
<1>2. f \in Present(t) <=> t[f] # Absent BY DEF Present
<1>3. \A s : s \in IndexedSymbols(t) <=> \E g \in Present(t) : s \in SymbolsOf(g, t[g])
  BY DEF IndexedSymbols
<1>4. \A s : s \in IndexedSites(t) <=> \E g \in Present(t) : s \in SitesOf(g, t[g])
  BY DEF IndexedSites
<1>5. ASSUME NEW s
      PROVE  (s \in IndexedSymbols(t) /\ owning_file(s) = f) <=> (t[f] # Absent /\ s \in SymbolsOf(f, t[f]))
  BY <1>1, <1>2, <1>3
<1>6. ASSUME NEW s
      PROVE  (s \in IndexedSites(t) /\ owning_file(s) = f) <=> (t[f] # Absent /\ s \in SitesOf(f, t[f]))
  BY <1>1, <1>2, <1>4
<1> QED BY <1>5, <1>6

LEMMA IndexIsNodes ==
    ASSUME NEW t \in Tree, files = Present(t), symbols = IndexedSymbols(t), sites = IndexedSites(t)
    PROVE  \A f \in Files : NodesOf(f, t[f])
BY IndexedPerFile DEF NodesOf, Present

\* And back: per file the nodes of the tree, so altogether.
LEMMA NodesAreIndex ==
    ASSUME TypeOK, \A f \in Files : NodesOf(f, tree[f])
    PROVE  files = Present(tree) /\ symbols = IndexedSymbols(tree) /\ sites = IndexedSites(tree)
<1>1. tree \in Tree /\ files \subseteq Files BY DEF TypeOK
<1>2. files = Present(tree) BY <1>1 DEF NodesOf, Present
<1>3. \A s \in symbols \cup sites : owning_file(s) \in Files BY Owned DEF TypeOK
<1>4. \A f \in Files : /\ \A s \in SymbolsOf(f, tree[f]) : tree[f] # Absent => owning_file(s) = f
                       /\ \A s \in SitesOf(f, tree[f]) : tree[f] # Absent => owning_file(s) = f
  BY <1>1, FileNodes DEF Present
<1>5. ASSUME NEW s, NEW f \in Files
      PROVE  /\ s \in symbols /\ owning_file(s) = f => tree[f] # Absent /\ s \in SymbolsOf(f, tree[f])
             /\ tree[f] # Absent /\ s \in SymbolsOf(f, tree[f]) => s \in symbols
             /\ s \in sites /\ owning_file(s) = f => tree[f] # Absent /\ s \in SitesOf(f, tree[f])
             /\ tree[f] # Absent /\ s \in SitesOf(f, tree[f]) => s \in sites
  <2>1. /\ {x \in symbols : owning_file(x) = f} = IF tree[f] = Absent THEN {} ELSE SymbolsOf(f, tree[f])
        /\ {x \in sites : owning_file(x) = f} = IF tree[f] = Absent THEN {} ELSE SitesOf(f, tree[f])
    BY DEF NodesOf
  <2> QED BY <2>1
<1>6. symbols = IndexedSymbols(tree)
  BY <1>3, <1>5 DEF IndexedSymbols, Present
<1>7. sites = IndexedSites(tree)
  BY <1>3, <1>5 DEF IndexedSites, Present
<1> QED BY <1>2, <1>6, <1>7

LEMMA InitNodes == Init => NodesInv /\ NodesOfTree
<1> SUFFICES ASSUME Init PROVE NodesInv /\ NodesOfTree OBVIOUS
<1>1. /\ tree \in Tree /\ manifest = tree /\ torn = {} /\ call.step = "idle"
      /\ files = Present(tree) /\ symbols = IndexedSymbols(tree) /\ sites = IndexedSites(tree)
      /\ dirs = {DirOf[f] : f \in Present(tree)}
  BY EmptyCall DEF Init, Tree, Content
<1>2. \A f \in Files : NodesOf(f, tree[f]) BY <1>1, IndexIsNodes
<1>3. NodesInv BY <1>1, <1>2 DEF NodesInv, AfterParse
<1>4. NodesOfTree BY <1>1 DEF NodesOfTree
<1> QED BY <1>3, <1>4

LEMMA IndexKeepsNodes ==
    ASSUME TypeOK, index_codebase_with_language \/ fall_back_to_full
    PROVE  NodesInv' /\ NodesOfTree'
<1>1. /\ tree \in Tree /\ manifest' = tree /\ torn' = {} /\ call'.step = "idle"
      /\ files' = Present(tree) /\ symbols' = IndexedSymbols(tree) /\ sites' = IndexedSites(tree)
      /\ dirs' = {DirOf[f] : f \in Present(tree)} /\ tree' = tree
  BY IndexFields, EmptyCall DEF TypeOK
<1>2. Present(tree)' = Present(tree) /\ IndexedSymbols(tree)' = IndexedSymbols(tree)
      /\ IndexedSites(tree)' = IndexedSites(tree)
  BY <1>1 DEF Present, IndexedSymbols, IndexedSites
<1>3. \A f \in Files : NodesOf(f, manifest[f])'
  BY <1>1, IndexedPerFile DEF NodesOf, Present
<1>4. NodesInv' BY <1>1, <1>3 DEF NodesInv, AfterParse
<1>5. NodesOfTree' BY <1>1, <1>2 DEF NodesOfTree
<1> QED BY <1>4, <1>5

\* A step that leaves the nodes, the manifest and the contents of torn files.
LEMMA OtherKeepsNodes ==
    ASSUME TypeOK, NodesInv, UNCHANGED <<manifest, files, dirs, symbols, sites, torn>>,
           crossed' = {} => crossed = {} /\ \A f \in torn : tree'[f] = tree[f],
           \/ call'.step \notin {"purge", "reparse", "new"} \cup AfterParse
           \/ /\ call'.changed = call.changed /\ call'.added = call.added
              /\ call'.deleted = call.deleted /\ tree' = tree
              /\ \/ call'.step = "purge" /\ call'.todo = Purged
                 \/ call'.step = call.step /\ call'.todo = call.todo
                 \/ /\ call.step = "purge" /\ call.todo = {}
                    /\ call'.step = "reparse" /\ call'.todo = call.changed
                 \/ /\ call.step = "reparse" /\ call.todo = {}
                    /\ call'.step = "new" /\ call'.todo = call.added
                 \/ call.step = "new" /\ call.todo = {} /\ call'.step = "prune"
                 \/ call.step \in AfterParse \ {"prune"} /\ call'.step \in AfterParse \ {"prune"}
    PROVE  NodesInv'
<1> SUFFICES ASSUME crossed' = {}
             PROVE  /\ \A f \in Files \ torn' : NodesOf(f, manifest[f])'
                    /\ \A f \in torn' : /\ manifest'[f] # tree'[f]
                                        /\ manifest'[f] # Absent /\ tree'[f] # Absent => f \in files'
                    /\ call'.step = "purge" => \A f \in Purged' \ call'.todo : Bare(f)'
                    /\ call'.step = "reparse" => \A f \in call'.changed :
                         IF f \in call'.todo THEN Bare(f)' ELSE NodesOf(f, tree[f])'
                    /\ call'.step = "new" => \A f \in Reparsed' \ call'.todo : NodesOf(f, tree[f])'
                    /\ call'.step \in AfterParse => \A f \in Reparsed' : NodesOf(f, tree[f])'
                    /\ \/ dirs' = {DirOf[f] : f \in files'}
                       \/ /\ call'.step \notin AfterParse \ {"prune"}
                          /\ {DirOf[f] : f \in files'} \subseteq dirs'
                          /\ \E f \in torn' : manifest'[f] # Absent /\ tree'[f] = Absent
  BY DEF NodesInv
<1>1. crossed = {} /\ \A f \in torn : tree'[f] = tree[f] OBVIOUS
<1>2. \A f \in Files \ torn' : NodesOf(f, manifest[f])' BY <1>1 DEF NodesInv, NodesOf
<1>3. \A f \in torn' : /\ manifest'[f] # tree'[f]
                       /\ manifest'[f] # Absent /\ tree'[f] # Absent => f \in files'
  BY <1>1 DEF NodesInv
<1>4. \/ dirs = {DirOf[f] : f \in files}
      \/ /\ call.step \notin AfterParse \ {"prune"}
         /\ {DirOf[f] : f \in files} \subseteq dirs
         /\ \E f \in torn : manifest[f] # Absent /\ tree[f] = Absent
  BY <1>1 DEF NodesInv
<1>5. CASE call'.step \notin {"purge", "reparse", "new"} \cup AfterParse
  BY <1>1, <1>2, <1>3, <1>4, <1>5
<1>6. CASE call'.step \in {"purge", "reparse", "new"} \cup AfterParse
  <2>1. Reparsed' = Reparsed /\ Purged' = Purged /\ tree' = tree BY <1>6 DEF Reparsed, Purged
  <2>2. \A f : (Bare(f)' <=> Bare(f)) BY DEF Bare, owning_file
  <2>3. \A f : NodesOf(f, tree[f])' <=> NodesOf(f, tree[f])
    BY <2>1 DEF NodesOf, owning_file, SymbolsOf, SitesOf, Sym, Site
  <2>4. /\ call.step = "purge" => \A f \in Purged \ call.todo : Bare(f)
        /\ call.step = "reparse" => \A f \in call.changed :
             IF f \in call.todo THEN Bare(f) ELSE NodesOf(f, tree[f])
        /\ call.step = "new" => \A f \in Reparsed \ call.todo : NodesOf(f, tree[f])
        /\ call.step \in AfterParse => \A f \in Reparsed : NodesOf(f, tree[f])
    BY <1>1 DEF NodesInv
  <2>5. call'.step = "purge" => \A f \in Purged' \ call'.todo : Bare(f)'
    BY <1>6, <2>1, <2>2, <2>4 DEF AfterParse
  <2>6. call'.step = "reparse" => \A f \in call'.changed :
             IF f \in call'.todo THEN Bare(f)' ELSE NodesOf(f, tree[f])'
    BY <1>6, <2>1, <2>2, <2>3, <2>4 DEF AfterParse, Purged
  <2>7. call'.step = "new" => \A f \in Reparsed' \ call'.todo : NodesOf(f, tree[f])'
    BY <1>6, <2>1, <2>3, <2>4 DEF AfterParse, Reparsed
  <2>8. call'.step \in AfterParse => \A f \in Reparsed' : NodesOf(f, tree[f])'
    BY <1>6, <2>1, <2>3, <2>4 DEF AfterParse
  <2>9. \/ dirs' = {DirOf[f] : f \in files'}
        \/ /\ call'.step \notin AfterParse \ {"prune"}
           /\ {DirOf[f] : f \in files'} \subseteq dirs'
           /\ \E f \in torn' : manifest'[f] # Absent /\ tree'[f] = Absent
    BY <1>4, <1>6, <2>1 DEF AfterParse
  <2> QED BY <1>2, <1>3, <2>5, <2>6, <2>7, <2>8, <2>9
<1> QED BY <1>5, <1>6

\* So does the promise about a settled graph.
LEMMA SameKeepsTree ==
    ASSUME NodesOfTree, UNCHANGED <<files, dirs, symbols, sites>>, crossed' = {} => crossed = {},
           settled' => settled /\ tree' = tree
    PROVE  NodesOfTree'
<1> SUFFICES ASSUME settled', crossed' = {}
             PROVE  /\ files' = Present(tree)' /\ dirs' = {DirOf[f] : f \in Present(tree)'}
                    /\ symbols' = IndexedSymbols(tree)' /\ sites' = IndexedSites(tree)'
  BY DEF NodesOfTree
<1>1. tree' = tree /\ settled /\ crossed = {} OBVIOUS
<1>2. Present(tree)' = Present(tree) /\ IndexedSymbols(tree)' = IndexedSymbols(tree)
      /\ IndexedSites(tree)' = IndexedSites(tree)
  BY <1>1 DEF Present, IndexedSymbols, IndexedSites
<1>3. /\ files = Present(tree) /\ dirs = {DirOf[f] : f \in Present(tree)}
      /\ symbols = IndexedSymbols(tree) /\ sites = IndexedSites(tree)
  BY <1>1 DEF NodesOfTree
<1> QED BY <1>2, <1>3

LEMMA OthersKeepNodes ==
    ASSUME TypeOK, NodesInv, NodesOfTree,
           \/ \E f \in Files : (\E c \in Contents[f] \cup {Absent} : edit(f, c)) \/ edit_cargo(f)
           \/ classify \/ snapshot_inbound_edges \/ reopen_sites_resolved_into
           \/ purge_done \/ reparse_modified_done \/ reparse_new_done
           \/ light_link \/ iac \/ relink_inbound_edges \/ \E table \in SymbolTables : flush(table)
           \/ restore_sites_with_edge \/ save_coverage_failed \/ resolve_calls
           \/ resolve_graph_done \/ cut_short \/ UNCHANGED vars
    PROVE  NodesInv' /\ NodesOfTree'
<1>1. ASSUME NEW f \in Files, (\E c \in Contents[f] \cup {Absent} : edit(f, c)) \/ edit_cargo(f)
      PROVE  NodesInv' /\ NodesOfTree'
  <2>1. /\ UNCHANGED <<manifest, files, dirs, symbols, sites, torn>> /\ settled' = FALSE
        /\ call'.step = "idle"
        /\ \/ tree' = tree /\ crossed' = crossed
           \/ \E c : tree' = [tree EXCEPT ![f] = c] /\ crossed' = crossed \cup ({f} \cap torn)
    BY <1>1 DEF edit, edit_cargo, Idle, graph, nodes
  <2>2. crossed' = {} => crossed = {} /\ \A g \in torn : tree'[g] = tree[g]
    <3>1. tree \in [Files -> {Absent} \cup Content] /\ torn \subseteq Files BY DEF TypeOK, Tree
    <3> QED BY <2>1, <3>1
  <2> QED BY <2>1, <2>2, OtherKeepsNodes, SameKeepsTree DEF AfterParse
<1>2. CASE classify
  <2>1. /\ UNCHANGED <<tree, manifest, files, dirs, symbols, sites, torn, crossed, settled>>
        /\ call'.step = "snapshot"
    <3> DEFINE ch == {f \in Present(tree) : manifest[f] \notin {Absent, tree[f]}}
               ad == {f \in Present(tree) : manifest[f] = Absent}
               de == {f \in Present(manifest) : tree[f] = Absent}
    <3>1. /\ call' = [NoCall EXCEPT !.step = "snapshot", !.changed = ch, !.added = ad,
                                    !.deleted = de, !.next = tree]
          /\ UNCHANGED <<tree, manifest, files, dirs, symbols, sites, torn, crossed, settled>>
      BY <1>2 DEF classify, disk, graph, nodes
    <3> HIDE DEF ch, ad, de
    <3> QED BY <3>1 DEF NoCall
  <2> QED BY <2>1, OtherKeepsNodes, SameKeepsTree DEF AfterParse
<1>3. CASE snapshot_inbound_edges \/ reopen_sites_resolved_into
  <2>1. /\ UNCHANGED <<tree, manifest, files, dirs, symbols, sites, torn, crossed, settled>>
        /\ call'.changed = call.changed /\ call'.added = call.added
        /\ call'.deleted = call.deleted
        /\ call'.step = "reopen" \/ (call'.step = "purge" /\ call'.todo = Purged)
    BY <1>3, SnapshotFields, ReopenFields
  <2> QED BY <2>1, OtherKeepsNodes, SameKeepsTree DEF AfterParse
<1>4. CASE purge_done \/ reparse_modified_done \/ reparse_new_done
  <2>1. /\ UNCHANGED <<tree, manifest, files, dirs, symbols, sites, torn, crossed, settled>>
        /\ call'.changed = call.changed /\ call'.added = call.added
        /\ call'.deleted = call.deleted /\ call.todo = {}
        /\ \/ call.step = "purge" /\ call'.step = "reparse" /\ call'.todo = call.changed
           \/ call.step = "reparse" /\ call'.step = "new" /\ call'.todo = call.added
           \/ call.step = "new" /\ call'.step = "prune"
    BY <1>4, DoneFields
  <2> QED BY <2>1, OtherKeepsNodes, SameKeepsTree
<1>5. CASE \/ light_link \/ iac \/ relink_inbound_edges \/ \E table \in SymbolTables : flush(table)
           \/ restore_sites_with_edge
  <2>1. /\ UNCHANGED <<tree, manifest, files, dirs, symbols, sites, torn, crossed, settled>>
        /\ call'.changed = call.changed /\ call'.added = call.added
        /\ call'.deleted = call.deleted
        /\ \/ call.step \in AfterParse \ {"prune"} /\ call'.step \in AfterParse \ {"prune"}
           \/ call'.step = "flush"
    BY <1>5, CreateFields, RestoreFields DEF AfterParse
  <2> QED BY <2>1, OtherKeepsNodes, SameKeepsTree DEF AfterParse
<1>6. CASE save_coverage_failed \/ resolve_graph_done \/ cut_short
  <2>1. /\ UNCHANGED <<tree, manifest, files, dirs, symbols, sites, torn, crossed>>
        /\ settled' = FALSE \/ settled' = settled
        /\ call'.step = "idle"
    BY <1>6, EmptyCall DEF save_coverage_failed, resolve_graph_done, cut_short, disk, graph, nodes
  <2> QED BY <2>1, OtherKeepsNodes, SameKeepsTree DEF AfterParse
<1>7. CASE resolve_calls
  <2>1. /\ UNCHANGED <<tree, manifest, files, dirs, symbols, sites, torn, crossed, settled>>
        /\ call'.step = "flush"
    <3> DEFINE tables == {r[1] : r \in ResolvedRows}
    <3>1. /\ call' = [NoCall EXCEPT !.step = "flush", !.todo = tables]
          /\ UNCHANGED <<tree, manifest, files, dirs, symbols, sites, torn, crossed, settled>>
      BY <1>7 DEF resolve_calls, disk, nodes
    <3> HIDE DEF tables
    <3> QED BY <3>1 DEF NoCall
  <2> QED BY <2>1, OtherKeepsNodes, SameKeepsTree DEF AfterParse
<1>8. CASE UNCHANGED vars
  <2>1. UNCHANGED <<tree, manifest, files, dirs, symbols, sites, torn, crossed, settled, call>>
    BY <1>8 DEF vars, disk, graph, nodes, history
  <2> QED BY <2>1, OtherKeepsNodes, SameKeepsTree
<1> QED BY <1>1, <1>2, <1>3, <1>4, <1>5, <1>6, <1>7, <1>8

\* A file of the change set that is in manifest and tree has its File node.
LEMMA ChangedIsThere ==
    ASSUME NodesInv, crossed = {}, NEW f \in Files, manifest[f] # Absent, tree[f] # Absent
    PROVE  f \in files
BY DEF NodesInv, NodesOf

LEMMA PurgeKeepsNodesInv ==
    ASSUME TypeOK, WorkInv, NodesInv, NEW f \in Files, purge_file(f)
    PROVE  NodesInv' /\ NodesOfTree'
<1>1. /\ call.step = "purge" /\ call'.step = "purge"
      /\ f \in call.todo /\ call'.todo = call.todo \ {f}
      /\ call'.changed = call.changed /\ call'.added = call.added
      /\ call'.deleted = call.deleted
      /\ symbols' = {s \in symbols : owning_file(s) # f}
      /\ sites' = {s \in sites : owning_file(s) # f}
      /\ files' = (IF f \in call.deleted THEN files \ {f} ELSE files)
      /\ settled' = FALSE /\ torn' = torn \cup Touched
      /\ UNCHANGED <<tree, manifest, dirs, crossed>>
  BY PurgeFields
<1>2. /\ call.changed = {g \in Present(tree) : manifest[g] \notin {Absent, tree[g]}}
      /\ call.added = {g \in Present(tree) : manifest[g] = Absent}
      /\ call.deleted = {g \in Present(manifest) : tree[g] = Absent}
      /\ call.todo \subseteq Purged
  BY <1>1 DEF WorkInv, Refreshing
<1>3. f \in Touched /\ Touched \subseteq Files /\ \A g \in Touched : manifest[g] # tree[g]
  BY <1>1, <1>2 DEF Touched, Reparsed, Purged, Present
<1>4. NodesOfTree' BY <1>1 DEF NodesOfTree
<1>5. CASE crossed' # {} BY <1>4, <1>5 DEF NodesInv
<1>6. CASE crossed' = {}
  <2>1. crossed = {} BY <1>1, <1>6
  <2>2. \A g \in Files \ torn' : NodesOf(g, manifest[g])'
    <3> SUFFICES ASSUME NEW g \in Files \ torn' PROVE NodesOf(g, manifest[g])' OBVIOUS
    <3>1. NodesOf(g, manifest[g]) /\ g # f BY <1>1, <1>3, <2>1 DEF NodesInv
    <3>2. /\ {s \in symbols' : owning_file(s) = g} = {s \in symbols : owning_file(s) = g}
          /\ {s \in sites' : owning_file(s) = g} = {s \in sites : owning_file(s) = g}
          /\ g \in files' <=> g \in files
      BY <1>1, <3>1
    <3> QED BY <1>1, <3>1, <3>2 DEF NodesOf
  <2>3. \A g \in torn' : /\ manifest'[g] # tree'[g]
                         /\ manifest'[g] # Absent /\ tree'[g] # Absent => g \in files'
    <3>1. \A g \in torn : manifest[g] # tree[g] BY <2>1 DEF NodesInv
    <3>2. torn \subseteq Files BY DEF TypeOK
    <3>3. \A g \in torn' : manifest[g] # Absent /\ tree[g] # Absent => g \in files
      BY <1>1, <1>3, <2>1, <3>2, ChangedIsThere
    <3>4. \A g \in call.deleted : tree[g] = Absent BY <1>2
    <3> QED BY <1>1, <1>3, <3>1, <3>3, <3>4
  <2>4. \A g \in Purged' \ call'.todo : Bare(g)'
    <3>1. Purged' = Purged BY <1>1 DEF Purged
    <3>2. \A g \in Purged \ call.todo : Bare(g) BY <1>1, <2>1 DEF NodesInv
    <3> QED BY <1>1, <3>1, <3>2 DEF Bare
  <2>5. \/ dirs' = {DirOf[g] : g \in files'}
        \/ /\ {DirOf[g] : g \in files'} \subseteq dirs'
           /\ \E g \in torn' : manifest'[g] # Absent /\ tree'[g] = Absent
    <3>1. {DirOf[g] : g \in files} \subseteq dirs BY <2>1 DEF NodesInv
    <3>2. {DirOf[g] : g \in files'} \subseteq dirs' BY <1>1, <3>1
    <3>3. CASE f \in call.deleted
      <4>1. f \in torn' /\ manifest'[f] # Absent /\ tree'[f] = Absent
        BY <1>1, <1>2, <1>3, <3>3 DEF Present
      <4> QED BY <3>2, <4>1
    <3>4. CASE f \notin call.deleted
      <4>1. files' = files BY <1>1, <3>4
      <4>2. \/ dirs = {DirOf[g] : g \in files}
            \/ \E g \in torn : manifest[g] # Absent /\ tree[g] = Absent
        BY <2>1 DEF NodesInv
      <4> QED BY <1>1, <3>2, <4>1, <4>2
    <3> QED BY <3>3, <3>4
  <2>6. call'.step \notin AfterParse BY <1>1 DEF AfterParse
  <2> QED BY <1>1, <1>4, <2>2, <2>3, <2>4, <2>5, <2>6 DEF NodesInv
<1> QED BY <1>5, <1>6

LEMMA ParseKeepsNodesInv ==
    ASSUME StructInv, NodesInv, NEW f \in Files, reparse_modified_file(f) \/ reparse_new_file(f)
    PROVE  NodesInv' /\ NodesOfTree'
<1>0. TypeOK /\ WorkInv /\ tree \in Tree BY DEF StructInv, TypeOK
<1>1. /\ call'.step = call.step /\ f \in call.todo /\ call'.todo = call.todo \ {f}
      /\ f \in Reparsed /\ f \in Present(tree)
      /\ call'.changed = call.changed /\ call'.added = call.added
      /\ call'.deleted = call.deleted
      /\ symbols' = symbols \cup SymbolsOf(f, tree[f])
      /\ sites' = sites \cup SitesOf(f, tree[f])
      /\ \/ call.step = "reparse" /\ f \in call.changed /\ files' = files /\ dirs' = dirs
         \/ /\ call.step = "new" /\ f \in call.added /\ f \notin files
            /\ files' = files \cup {f} /\ dirs' = dirs \cup {DirOf[f]}
      /\ settled' = FALSE /\ torn' = torn \cup Touched
      /\ UNCHANGED <<tree, manifest, crossed>>
  BY <1>0, ParseFields
<1>2. /\ call.changed = {g \in Present(tree) : manifest[g] \notin {Absent, tree[g]}}
      /\ call.added = {g \in Present(tree) : manifest[g] = Absent}
      /\ call.deleted = {g \in Present(manifest) : tree[g] = Absent}
  BY <1>0, <1>1 DEF WorkInv, Refreshing, AfterPurge
<1>3. f \in Touched /\ Touched \subseteq Files /\ \A g \in Touched : manifest[g] # tree[g]
  BY <1>1, <1>2 DEF Touched, Reparsed, Purged, Present
<1>4. NodesOfTree' BY <1>1 DEF NodesOfTree
<1>5. CASE crossed' # {} BY <1>4, <1>5 DEF NodesInv
<1>6. CASE crossed' = {}
  <2>1. crossed = {} BY <1>1, <1>6
  <2>2. /\ \A s \in SymbolsOf(f, tree[f]) : owning_file(s) = f
        /\ \A s \in SitesOf(f, tree[f]) : owning_file(s) = f
    BY <1>0, <1>1, FileNodes
  <2>3. ASSUME NEW g \in Files, g # f
        PROVE  /\ {s \in symbols' : owning_file(s) = g} = {s \in symbols : owning_file(s) = g}
               /\ {s \in sites' : owning_file(s) = g} = {s \in sites : owning_file(s) = g}
               /\ g \in files' <=> g \in files
               /\ Bare(g) => Bare(g)'
    BY <1>1, <2>2, <2>3 DEF Bare
  <2>4. \A g \in Files \ torn' : NodesOf(g, manifest[g])'
    <3> SUFFICES ASSUME NEW g \in Files \ torn' PROVE NodesOf(g, manifest[g])' OBVIOUS
    <3>1. NodesOf(g, manifest[g]) /\ g # f BY <1>1, <1>3, <2>1 DEF NodesInv
    <3> QED BY <1>1, <2>3, <3>1 DEF NodesOf
  <2>5. \A g \in Files : g # f /\ NodesOf(g, tree[g]) => NodesOf(g, tree[g])'
    BY <1>1, <2>3 DEF NodesOf
  <2>6. \A g \in torn' : /\ manifest'[g] # tree'[g]
                         /\ manifest'[g] # Absent /\ tree'[g] # Absent => g \in files'
    <3>1. \A g \in torn : manifest[g] # tree[g] BY <2>1 DEF NodesInv
    <3>2. torn \subseteq Files BY <1>0 DEF TypeOK
    <3>3. \A g \in torn' : manifest[g] # Absent /\ tree[g] # Absent => g \in files
      BY <1>1, <1>3, <2>1, <3>2, ChangedIsThere
    <3> QED BY <1>1, <1>3, <3>1, <3>3
  <2>7. Bare(f) /\ f \in files'
    <3>1. CASE call.step = "reparse"
      <4>1. manifest[f] # Absent /\ tree[f] # Absent BY <1>1, <1>2, <3>1 DEF Present
      <4> QED BY <1>1, <2>1, <3>1, <4>1, ChangedIsThere DEF NodesInv
    <3>2. CASE call.step = "new"
      <4>1. manifest[f] = Absent /\ f \notin files /\ f \in files' BY <1>1, <1>2, <3>2
      <4> QED BY <4>1 DEF StructInv, GoneInv, Gone, Bare
    <3> QED BY <1>1, <3>1, <3>2
  <2>8. NodesOf(f, tree[f])'
    <3>1. tree[f] # Absent BY <1>1 DEF Present
    <3>2. /\ {s \in symbols' : owning_file(s) = f} = SymbolsOf(f, tree[f])
          /\ {s \in sites' : owning_file(s) = f} = SitesOf(f, tree[f])
      BY <1>1, <2>2, <2>7 DEF Bare
    <3> QED BY <1>1, <2>7, <3>1, <3>2 DEF NodesOf
  <2>9. Reparsed' = Reparsed /\ Reparsed \subseteq Files /\ call.changed \subseteq Files
    BY <1>0, <1>1, CallTypes DEF Reparsed
  <2>10. call'.step = "reparse" => \A g \in call'.changed :
             IF g \in call'.todo THEN Bare(g)' ELSE NodesOf(g, tree[g])'
    <3>1. call.step = "reparse" => \A g \in call.changed :
             IF g \in call.todo THEN Bare(g) ELSE NodesOf(g, tree[g])
      BY <2>1 DEF NodesInv
    <3> QED BY <1>1, <2>3, <2>5, <2>8, <2>9, <3>1
  <2>11. call'.step = "new" => \A g \in Reparsed' \ call'.todo : NodesOf(g, tree[g])'
    <3>1. call.step = "new" => \A g \in Reparsed \ call.todo : NodesOf(g, tree[g])
      BY <2>1 DEF NodesInv
    <3> QED BY <1>1, <2>5, <2>8, <2>9, <3>1
  <2>12. \/ dirs' = {DirOf[g] : g \in files'}
         \/ /\ {DirOf[g] : g \in files'} \subseteq dirs'
            /\ \E g \in torn' : manifest'[g] # Absent /\ tree'[g] = Absent
    <3>1. \/ dirs = {DirOf[g] : g \in files}
          \/ /\ {DirOf[g] : g \in files} \subseteq dirs
             /\ \E g \in torn : manifest[g] # Absent /\ tree[g] = Absent
      BY <2>1 DEF NodesInv
    <3> QED BY <1>1, <3>1
  <2>13. call'.step \notin AfterParse /\ call'.step # "purge" BY <1>1 DEF AfterParse
  <2> QED BY <1>4, <2>4, <2>6, <2>10, <2>11, <2>12, <2>13 DEF NodesInv
<1> QED BY <1>5, <1>6

\* A directory is left over only while a deletion was begun and not saved.
LEMMA PruneKeepsNodes ==
    ASSUME TypeOK, WorkInv, NodesInv, NodesOfTree, prune_orphan_directories
    PROVE  NodesInv' /\ NodesOfTree'
<1>1. /\ call.step = "prune" /\ call'.step = "links"
      /\ call'.changed = call.changed /\ call'.added = call.added
      /\ dirs' = IF call.deleted = {} THEN dirs ELSE {DirOf[f] : f \in files}
      /\ UNCHANGED <<tree, manifest, files, symbols, sites, settled, torn, crossed>>
  BY PruneFields
<1>2. call.deleted = {f \in Present(manifest) : tree[f] = Absent}
  BY <1>1 DEF WorkInv, Refreshing, AfterPurge, AfterParse
<1>3. ASSUME crossed = {} PROVE dirs' = {DirOf[f] : f \in files'}
  <2>1. CASE call.deleted # {} BY <1>1, <2>1
  <2>2. CASE call.deleted = {}
    <3>1. torn \subseteq Files BY DEF TypeOK
    <3>2. ~\E f \in torn : manifest[f] # Absent /\ tree[f] = Absent
      BY <1>2, <2>2, <3>1 DEF Present
    <3>3. dirs = {DirOf[f] : f \in files} BY <1>3, <3>2 DEF NodesInv
    <3> QED BY <1>1, <2>2, <3>3
  <2> QED BY <2>1, <2>2
<1>4. Reparsed' = Reparsed BY <1>1 DEF Reparsed
<1>5. NodesInv'
  <2> SUFFICES ASSUME crossed' = {} PROVE NodesInv' BY DEF NodesInv
  <2>1. crossed = {} BY <1>1
  <2>2. /\ \A f \in Files \ torn : NodesOf(f, manifest[f])
        /\ \A f \in torn : /\ manifest[f] # tree[f]
                           /\ manifest[f] # Absent /\ tree[f] # Absent => f \in files
        /\ \A f \in Reparsed : NodesOf(f, tree[f])
    BY <1>1, <2>1 DEF NodesInv, AfterParse
  <2>3. \A f \in Files \ torn' : NodesOf(f, manifest[f])' BY <1>1, <2>2 DEF NodesOf
  <2>4. \A f \in Reparsed' : NodesOf(f, tree[f])' BY <1>1, <1>4, <2>2 DEF NodesOf
  <2>5. dirs' = {DirOf[f] : f \in files'} BY <1>3, <2>1
  <2> QED BY <1>1, <2>2, <2>3, <2>4, <2>5 DEF NodesInv
<1>6. NodesOfTree'
  <2> SUFFICES ASSUME settled', crossed' = {}
               PROVE  /\ files' = Present(tree)' /\ dirs' = {DirOf[f] : f \in Present(tree)'}
                      /\ symbols' = IndexedSymbols(tree)' /\ sites' = IndexedSites(tree)'
    BY DEF NodesOfTree
  <2>1. Present(tree)' = Present(tree) /\ IndexedSymbols(tree)' = IndexedSymbols(tree)
        /\ IndexedSites(tree)' = IndexedSites(tree)
    BY <1>1 DEF Present, IndexedSymbols, IndexedSites
  <2>2. /\ files = Present(tree)
        /\ symbols = IndexedSymbols(tree) /\ sites = IndexedSites(tree)
    BY <1>1 DEF NodesOfTree
  <2>3. dirs' = {DirOf[f] : f \in files'} BY <1>1, <1>3
  <2> QED BY <1>1, <2>1, <2>2, <2>3
<1> QED BY <1>5, <1>6

\* When the manifest is saved, every file has the nodes of its content.
LEMMA SaveKeepsNodes ==
    ASSUME StructInv, NodesInv, NodesOfTree, save_manifest
    PROVE  NodesInv' /\ NodesOfTree'
<1>0. TypeOK /\ WorkInv BY DEF StructInv
<1>1. /\ call.step = "save" /\ call'.step = "coverage"
      /\ call'.changed = call.changed /\ call'.added = call.added
      /\ manifest' = call.next /\ torn' = torn \ Touched
      /\ UNCHANGED <<tree, files, dirs, symbols, sites, settled, crossed>>
  BY <1>0, SaveFields
<1>2. /\ call.next = tree
      /\ call.changed = {g \in Present(tree) : manifest[g] \notin {Absent, tree[g]}}
      /\ call.added = {g \in Present(tree) : manifest[g] = Absent}
      /\ call.deleted = {g \in Present(manifest) : tree[g] = Absent}
  BY <1>0, <1>1 DEF WorkInv, Refreshing, AfterPurge, AfterParse
<1>3. NodesOfTree' BY <1>1, SameKeepsTree
<1>4. CASE crossed' # {} BY <1>3, <1>4 DEF NodesInv
<1>5. CASE crossed' = {}
  <2>1. /\ \A f \in Files \ torn : NodesOf(f, manifest[f])
        /\ \A f \in torn : manifest[f] # tree[f]
        /\ \A f \in Reparsed : NodesOf(f, tree[f])
        /\ dirs = {DirOf[f] : f \in files}
    BY <1>1, <1>5 DEF NodesInv, AfterParse
  <2>2. \A f \in call.deleted : Gone(f)
    BY <1>1 DEF StructInv, GoneInv, AfterPurge, AfterParse
  <2>3. \A f \in Files : manifest[f] # tree[f] => f \in Reparsed \/ f \in call.deleted
    BY <1>2 DEF Reparsed, Present
  <2>4. torn \subseteq Files BY <1>0 DEF TypeOK
  <2>5. torn' = {} BY <1>1, <2>1, <2>3, <2>4 DEF Touched, Purged
  <2>6. ASSUME NEW f \in Files PROVE NodesOf(f, tree[f])
    <3>1. CASE f \in Reparsed BY <2>1, <3>1
    <3>2. CASE f \in call.deleted
      <4>1. tree[f] = Absent BY <1>2, <3>2
      <4> QED BY <2>2, <3>2, <4>1 DEF NodesOf, Gone
    <3>3. CASE f \notin Reparsed /\ f \notin call.deleted
      <4>1. manifest[f] = tree[f] BY <2>3, <3>3
      <4>2. f \notin torn BY <2>1, <4>1
      <4> QED BY <2>1, <4>1, <4>2
    <3> QED BY <3>1, <3>2, <3>3
  <2>7. \A f \in Files : NodesOf(f, manifest[f])' /\ NodesOf(f, tree[f])'
    BY <1>1, <1>2, <2>6 DEF NodesOf
  <2>8. Reparsed' = Reparsed /\ Reparsed \subseteq Files BY <1>0, <1>1, CallTypes DEF Reparsed
  <2> QED BY <1>1, <1>3, <2>1, <2>5, <2>7, <2>8 DEF NodesInv
<1> QED BY <1>4, <1>5

LEMMA ReportKeepsNodes ==
    ASSUME StructInv, NodesInv, save_incremental_coverage
    PROVE  NodesInv' /\ NodesOfTree'
<1>0. TypeOK /\ WorkInv BY DEF StructInv
<1>1. /\ call.step = "coverage" /\ call'.step = "idle"
      /\ UNCHANGED <<tree, manifest, files, dirs, symbols, sites, torn, crossed>>
  BY EmptyCall DEF save_incremental_coverage, disk, graph, nodes
<1>2. NodesInv' BY <1>0, <1>1, OtherKeepsNodes DEF AfterParse
<1>3. NodesOfTree'
  <2> SUFFICES ASSUME crossed = {}
               PROVE  /\ files' = Present(tree)' /\ dirs' = {DirOf[f] : f \in Present(tree)'}
                      /\ symbols' = IndexedSymbols(tree)' /\ sites' = IndexedSites(tree)'
    BY <1>1 DEF NodesOfTree
  <2>1. manifest = tree BY <1>0, <1>1 DEF WorkInv
  <2>2. torn = {} BY <2>1 DEF NodesInv
  <2>3. \A f \in Files : NodesOf(f, tree[f]) BY <2>1, <2>2 DEF NodesInv
  <2>4. files = Present(tree) /\ symbols = IndexedSymbols(tree) /\ sites = IndexedSites(tree)
    BY <1>0, <2>3, NodesAreIndex
  <2>5. dirs = {DirOf[f] : f \in files} BY <2>2 DEF NodesInv
  <2>6. Present(tree)' = Present(tree) /\ IndexedSymbols(tree)' = IndexedSymbols(tree)
        /\ IndexedSites(tree)' = IndexedSites(tree)
    BY <1>1 DEF Present, IndexedSymbols, IndexedSites
  <2> QED BY <1>1, <2>4, <2>5, <2>6
<1> QED BY <1>2, <1>3

LEMMA StepKeepsNodes ==
    ASSUME StructInv, NodesInv, NodesOfTree, [Next]_vars
    PROVE  NodesInv' /\ NodesOfTree'
<1>1. TypeOK /\ WorkInv BY DEF StructInv
<1>2. CASE \E f \in Files : purge_file(f) BY <1>1, <1>2, PurgeKeepsNodesInv
<1>3. CASE \E f \in Files : reparse_modified_file(f) \/ reparse_new_file(f)
  BY <1>3, ParseKeepsNodesInv
<1>4. CASE prune_orphan_directories BY <1>1, <1>4, PruneKeepsNodes
<1>5. CASE save_manifest BY <1>5, SaveKeepsNodes
<1>6. CASE save_incremental_coverage BY <1>6, ReportKeepsNodes
<1>7. CASE index_codebase_with_language \/ fall_back_to_full BY <1>1, <1>7, IndexKeepsNodes
<1> QED BY <1>1, <1>2, <1>3, <1>4, <1>5, <1>6, <1>7, OthersKeepNodes DEF Next

-----------------------------------------------------------------------------
(* No row twice.                                                           *)

LEMMA LinkKinds ==
    ASSUME NEW t \in Tree, NEW sources \in SUBSET Files, NEW syms, NEW r,
           \/ r \in link_file_imports_for(t, sources)
           \/ r \in run_iac_pass_for(t, sources, syms)
    PROVE  Kinds(r)
<1>1. CASE r \in link_file_imports_for(t, sources)
  BY <1>1, LightLinks DEF Kinds, SymbolTables
<1>2. CASE r \in run_iac_pass_for(t, sources, syms)
  <2>1. PICK f \in sources \cap Present(t), g \in Present(t) :
           \/ r = <<"Imports_IacModule_IacModule", Module(f), Module(g)>>
           \/ r = <<"Imports_IacModule_File", Module(f), FileId(g)>>
    BY <1>2 DEF run_iac_pass_for
  <2>2. Module(f)[3] = "symbol" /\ Module(g)[3] = "symbol" BY Ids DEF Present
  <2>3. CASE r = <<"Imports_IacModule_IacModule", Module(f), Module(g)>>
    <3>1. r[2] = Module(f) /\ r[3] = Module(g) BY <2>3
    <3> QED BY <2>2, <3>1 DEF Kinds
  <2>4. CASE r = <<"Imports_IacModule_File", Module(f), FileId(g)>>
    <3>1. r[1] = "Imports_IacModule_File" /\ r[2] = Module(f) BY <2>4
    <3> QED BY <2>2, <3>1 DEF Kinds, SymbolTables
  <2> QED BY <2>1, <2>3, <2>4
<1> QED BY <1>1, <1>2

LEMMA IndexedKinds ==
    ASSUME NEW t \in Tree, NEW r \in IndexedLinks(t)
    PROVE  Kinds(r)
<1>1. Present(t) \in SUBSET Files BY DEF Present
<1>2. \/ r \in link_file_imports_for(t, Present(t))
      \/ r \in run_iac_pass_for(t, Present(t), IndexedSymbols(t))
  BY DEF IndexedLinks
<1> QED BY <1>1, <1>2, LinkKinds

LEMMA ResolvedKinds ==
    ASSUME TypeOK, NEW r \in ResolvedRows
    PROVE  Kinds(r)
<1>1. /\ r[3] \in symbols
      /\ SiteRow(r) => r[2] \in sites
      /\ ~SiteRow(r) => r[2][3] = "symbol"
  BY RowsOfSites
<1>2. r[3][3] = "symbol" /\ r[2][3] # "file" BY <1>1 DEF TypeOK
<1> QED BY <1>2 DEF Kinds

LEMMA RestKeepsTwice ==
    ASSUME NoRowTwice, \A r \in rows' : Kinds(r), doubled' = doubled,
           call'.step \in {"idle", "flush"}
    PROVE  TwiceInv'
BY DEF TwiceInv, NoRowTwice, Refreshing, AfterPurge, AfterParse, Kinds

LEMMA RestsKeepTwice ==
    ASSUME TypeOK, TwiceInv,
           \/ \E f \in Files : (\E c \in Contents[f] \cup {Absent} : edit(f, c)) \/ edit_cargo(f)
           \/ save_incremental_coverage \/ save_coverage_failed \/ cut_short \/ resolve_graph_done
           \/ resolve_calls \/ index_codebase_with_language \/ fall_back_to_full
    PROVE  TwiceInv'
<1>1. NoRowTwice /\ \A r \in rows : Kinds(r) BY DEF TwiceInv
<1>2. CASE index_codebase_with_language \/ fall_back_to_full
  <2>1. /\ rows' = IndexedLinks(tree) /\ call'.step = "idle" /\ tree \in Tree /\ doubled' = doubled
    BY <1>2, IndexFields, EmptyCall DEF TypeOK
  <2> QED BY <1>1, <2>1, IndexedKinds, RestKeepsTwice
<1>3. CASE resolve_calls
  <2> DEFINE tables == {r[1] : r \in ResolvedRows}
  <2>1. call' = [NoCall EXCEPT !.step = "flush", !.todo = tables] /\ UNCHANGED <<rows, doubled>>
    BY <1>3 DEF resolve_calls
  <2> HIDE DEF tables
  <2>2. call'.step = "flush" BY <2>1 DEF NoCall
  <2> QED BY <1>1, <2>1, <2>2, RestKeepsTwice
<1>4. CASE ~resolve_calls /\ ~index_codebase_with_language /\ ~fall_back_to_full
  <2>1. UNCHANGED <<rows, doubled>> /\ call'.step = "idle"
    BY <1>4, EmptyCall DEF edit, edit_cargo, save_incremental_coverage, save_coverage_failed, cut_short,
       resolve_graph_done, Idle, graph
  <2> QED BY <1>1, <2>1, RestKeepsTwice
<1> QED BY <1>2, <1>3, <1>4

LEMMA InitTwice == Init => TwiceInv
<1> SUFFICES ASSUME Init PROVE TwiceInv OBVIOUS
<1>1. rows = IndexedLinks(tree) /\ call.step = "idle" /\ tree \in Tree /\ ~doubled
  BY EmptyCall DEF Init, Tree, Content
<1>2. \A r \in rows : Kinds(r) BY <1>1, IndexedKinds
<1> QED BY <1>1, <1>2 DEF TwiceInv, NoRowTwice, Refreshing, AfterPurge, AfterParse

LEMMA BeginKeepsTwice ==
    ASSUME TypeOK, TwiceInv, classify \/ snapshot_inbound_edges \/ reopen_sites_resolved_into
    PROVE  TwiceInv'
<1>1. CASE classify
  <2>1. UNCHANGED <<rows, doubled>> /\ call'.step = "snapshot" /\ call'.saved = {}
    <3> DEFINE ch == {f \in Present(tree) : manifest[f] \notin {Absent, tree[f]}}
               ad == {f \in Present(tree) : manifest[f] = Absent}
               de == {f \in Present(manifest) : tree[f] = Absent}
    <3>1. /\ call' = [NoCall EXCEPT !.step = "snapshot", !.changed = ch, !.added = ad,
                                    !.deleted = de, !.next = tree]
          /\ UNCHANGED <<rows, doubled>>
      BY <1>1 DEF classify, graph
    <3> HIDE DEF ch, ad, de
    <3> QED BY <3>1 DEF NoCall
  <2> QED BY <2>1 DEF TwiceInv, NoRowTwice, Kinds
<1>2. CASE snapshot_inbound_edges
  <2>1. /\ call'.step = "reopen" /\ call'.changed = call.changed /\ call'.added = call.added
        /\ call'.saved = {r \in rows : /\ r[1] \in SymbolTables
                                       /\ owning_file(r[3]) \in call.changed
                                       /\ owning_file(r[2]) \notin Reparsed}
        /\ UNCHANGED <<rows, doubled>>
    BY <1>2, SnapshotFields
  <2>2. Reparsed' = Reparsed BY <2>1 DEF Reparsed
  <2> QED BY <2>1, <2>2 DEF TwiceInv, NoRowTwice, Kinds
<1>3. CASE reopen_sites_resolved_into
  <2>1. /\ call.step = "reopen" /\ call'.step = "purge" /\ call'.todo = Purged
        /\ call'.changed = call.changed /\ call'.added = call.added /\ call'.saved = call.saved
        /\ UNCHANGED <<rows, doubled>>
    BY <1>3, ReopenFields
  <2>2. Reparsed' = Reparsed /\ Refreshing BY <2>1 DEF Reparsed, Refreshing
  <2>3. call.changed \subseteq Purged BY DEF Purged
  <2> QED BY <2>1, <2>2, <2>3 DEF TwiceInv, NoRowTwice, Kinds
<1> QED BY <1>1, <1>2, <1>3

LEMMA MoveKeepsTwice ==
    ASSUME TypeOK, TwiceInv,
           \/ purge_done \/ reparse_modified_done \/ reparse_new_done \/ prune_orphan_directories
           \/ restore_sites_with_edge \/ save_manifest
    PROVE  TwiceInv'
<1>1. /\ UNCHANGED <<rows, doubled>>
      /\ call'.changed = call.changed /\ call'.added = call.added /\ call'.saved = call.saved
      /\ \/ call.step = "purge" /\ call.todo = {} /\ call'.step = "reparse"
         \/ call.step = "reparse" /\ call'.step = "new" /\ call'.todo = call.added
         \/ call.step = "new" /\ call.todo = {} /\ call'.step = "prune"
         \/ call.step = "prune" /\ call'.step = "links"
         \/ call.step = "restore" /\ call'.step = "save"
         \/ call.step = "save" /\ call'.step = "coverage"
  <2>1. CASE purge_done \/ reparse_modified_done \/ reparse_new_done BY <2>1, DoneFields
  <2>2. CASE prune_orphan_directories BY <2>2, PruneFields
  <2>3. CASE restore_sites_with_edge BY <2>3, RestoreFields
  <2>4. CASE save_manifest BY <2>4, SaveFields
  <2> QED BY <2>1, <2>2, <2>3, <2>4
<1>2. Reparsed' = Reparsed /\ Refreshing
  BY <1>1 DEF Reparsed, Refreshing, AfterPurge, AfterParse
<1>3. Reparsed \ call.added \subseteq call.changed /\ call.changed \subseteq Reparsed BY DEF Reparsed
<1>4. \A f : NoneFrom(f)' <=> NoneFrom(f) BY <1>1 DEF NoneFrom
<1> QED BY <1>1, <1>2, <1>3, <1>4 DEF TwiceInv, NoRowTwice, Kinds

\* Purging a file takes every row out of it, and every saved row into it.
LEMMA PurgeKeepsTwice ==
    ASSUME TypeOK, TwiceInv, NEW f \in Files, purge_file(f)
    PROVE  TwiceInv'
<1>1. /\ call.step = "purge" /\ call'.step = "purge" /\ call'.todo = call.todo \ {f}
      /\ call'.changed = call.changed /\ call'.added = call.added /\ call'.saved = call.saved
      /\ symbols' = {s \in symbols : owning_file(s) # f}
      /\ sites' = {s \in sites : owning_file(s) # f}
      /\ rows' = Detached({r \in rows : ~(r[1] = "References_File_File" /\ r[2] = FileId(f))},
                          Nodes(files', symbols', sites'))
      /\ doubled' = doubled
  BY PurgeFields
<1>2. Reparsed' = Reparsed /\ Refreshing BY <1>1 DEF Reparsed, Refreshing
<1>3. \A i \in Nodes(files', symbols', sites') : owning_file(i) = f => i = FileId(f) /\ i[3] = "file"
  <2> SUFFICES ASSUME NEW i \in Nodes(files', symbols', sites'), owning_file(i) = f
               PROVE  i = FileId(f) /\ i[3] = "file"
    OBVIOUS
  <2>1. PICK g \in files' : i = FileId(g) BY <1>1 DEF Nodes
  <2>2. g = f BY <2>1 DEF owning_file, FileId
  <2> QED BY <2>1, <2>2, Ids
<1>4. /\ rows' \subseteq rows
      /\ \A r \in rows' : /\ ~(r[1] = "References_File_File" /\ r[2] = FileId(f))
                          /\ r[2] \in Nodes(files', symbols', sites')
                          /\ r[3] \in Nodes(files', symbols', sites')
  BY <1>1 DEF Detached, Ends
<1>5. \A r \in rows' : Kinds(r) BY <1>4 DEF TwiceInv
<1>6. NoneFrom(f)' BY <1>3, <1>4, <1>5 DEF NoneFrom, Kinds
<1>7. \A g : NoneFrom(g) => NoneFrom(g)' BY <1>4 DEF NoneFrom
<1>8. \A g \in call'.changed \ call'.todo : NoneFrom(g)'
  BY <1>1, <1>6, <1>7 DEF TwiceInv
<1>9. \A r \in call'.saved \cap rows' : owning_file(r[3]) \in call'.todo
  <2> SUFFICES ASSUME NEW r \in call.saved, r \in rows' PROVE owning_file(r[3]) \in call'.todo
    BY <1>1
  <2>1. owning_file(r[3]) \in call.todo BY <1>1, <1>4 DEF TwiceInv
  <2>2. r[1] \in SymbolTables /\ Kinds(r) BY <1>2 DEF TwiceInv
  <2>3. r[3][3] = "symbol" BY <2>2 DEF Kinds
  <2>4. owning_file(r[3]) # f BY <1>3, <1>4, <2>3
  <2> QED BY <1>1, <2>1, <2>4
<1> QED BY <1>1, <1>2, <1>5, <1>8, <1>9 DEF TwiceInv, NoRowTwice, Kinds

\* A new file that is parsed has left nothing in the graph before.
LEMMA ParseKeepsTwice ==
    ASSUME StructInv, TwiceInv, NEW f \in Files, reparse_modified_file(f) \/ reparse_new_file(f)
    PROVE  TwiceInv'
<1>0. TypeOK /\ WorkInv /\ GoneInv BY DEF StructInv
<1>1. /\ call'.step = call.step /\ call'.todo = call.todo \ {f}
      /\ call'.changed = call.changed /\ call'.added = call.added /\ call'.saved = call.saved
      /\ \/ call.step = "reparse"
         \/ call.step = "new" /\ f \in call.added /\ f \notin files
      /\ UNCHANGED <<rows, doubled>>
  BY <1>0, ParseFields
<1>2. Reparsed' = Reparsed /\ Refreshing
  BY <1>1 DEF Reparsed, Refreshing, AfterPurge
<1>3. \A g : NoneFrom(g)' <=> NoneFrom(g) BY <1>1 DEF NoneFrom
<1>4. CASE call.step = "reparse"
  BY <1>1, <1>2, <1>3, <1>4 DEF TwiceInv, NoRowTwice, Kinds
<1>5. CASE call.step = "new"
  <2>1. manifest[f] = Absent
    BY <1>0, <1>1, <1>5 DEF WorkInv, Refreshing, AfterPurge
  <2>2. NoneFrom(f) BY <1>0, <1>1, <1>5, <2>1 DEF GoneInv, Gone, NoneFrom
  <2>3. \A g \in Reparsed' \ call'.todo : NoneFrom(g)'
    BY <1>1, <1>2, <1>3, <1>5, <2>2 DEF TwiceInv
  <2> QED BY <1>1, <1>2, <1>3, <1>5, <2>3 DEF TwiceInv, NoRowTwice, Kinds
<1> QED BY <1>1, <1>4, <1>5

\* Every pass creates rows that are not there.
LEMMA CreateKeepsTwice ==
    ASSUME TypeOK, TwiceInv,
           \/ light_link \/ iac \/ relink_inbound_edges
           \/ \E table \in SymbolTables : flush(table)
    PROVE  TwiceInv'
<1>0. /\ ~doubled /\ \A r \in rows : Kinds(r)
      /\ tree \in Tree /\ Reparsed \in SUBSET Files
  BY CallTypes DEF TwiceInv, NoRowTwice, TypeOK
<1>1. /\ call'.changed = call.changed /\ call'.added = call.added /\ call'.saved = call.saved
  BY CreateFields
<1>2. Reparsed' = Reparsed BY <1>1 DEF Reparsed
<1>3. CASE light_link
  <2> DEFINE new == link_file_imports_for(tree, Reparsed)
  <2>1. /\ call.step = "links" /\ call'.step = "iac"
        /\ rows' = rows \cup new /\ doubled' = (doubled \/ new \cap rows # {})
    <3>1. call.step = "links" /\ Goto("iac") /\ create_rows(new) BY <1>3 DEF light_link
    <3>2. call'.step = "iac" BY <3>1, CallTypes, StepFields DEF Steps
    <3> QED BY <3>1, <3>2 DEF create_rows
  <2>2. \A r \in new : r[1] = "References_File_File" /\ owning_file(r[2]) \in Reparsed
    BY <1>0, LightLinks
  <2>3. \A r \in new : Kinds(r) BY <1>0, LinkKinds
  <2> HIDE DEF new
  <2>4. Refreshing BY <2>1 DEF Refreshing, AfterPurge, AfterParse
  <2>5. \A r \in rows : owning_file(r[2]) \notin Reparsed BY <2>1 DEF TwiceInv, NoneFrom
  <2>6. ~doubled' BY <1>0, <2>1, <2>2, <2>5
  <2>7. \A r \in call.saved : Kinds(r) /\ r[1] \in SymbolTables
                              /\ owning_file(r[3]) \in call.changed /\ owning_file(r[2]) \notin Reparsed
    BY <2>4 DEF TwiceInv
  <2>8. call.saved \cap rows' = {} BY <2>1, <2>2, <2>7 DEF TwiceInv
  <2>9. \A r \in rows' : Kinds(r) BY <1>0, <2>1, <2>3
  <2>10. \A r \in rows' : owning_file(r[2]) \in Reparsed => r[1] = "References_File_File"
    BY <2>1, <2>2, <2>5
  <2> QED BY <1>1, <1>2, <2>1, <2>6, <2>7, <2>8, <2>9, <2>10 DEF TwiceInv, NoRowTwice, Kinds
<1>4. CASE iac
  <2> DEFINE new == run_iac_pass_for(tree, Reparsed, symbols)
  <2>1. /\ call.step = "iac" /\ call'.step = "relink"
        /\ rows' = rows \cup new /\ doubled' = (doubled \/ new \cap rows # {})
    <3>1. call.step = "iac" /\ Goto("relink") /\ create_rows(new) BY <1>4 DEF iac
    <3>2. call'.step = "relink" BY <3>1, CallTypes, StepFields DEF Steps
    <3> QED BY <3>1, <3>2 DEF create_rows
  <2>2. \A r \in new : r[1] # "References_File_File" /\ owning_file(r[2]) \in Reparsed
    BY <1>0, InfrastructureLinks
  <2>3. \A r \in new : Kinds(r) BY <1>0, LinkKinds
  <2> HIDE DEF new
  <2>4. Refreshing BY <2>1 DEF Refreshing, AfterPurge, AfterParse
  <2>5. \A r \in rows : owning_file(r[2]) \in Reparsed => r[1] = "References_File_File"
    BY <2>1 DEF TwiceInv
  <2>6. ~doubled' BY <1>0, <2>1, <2>2, <2>5
  <2>7. \A r \in call.saved : Kinds(r) /\ r[1] \in SymbolTables
                              /\ owning_file(r[3]) \in call.changed /\ owning_file(r[2]) \notin Reparsed
    BY <2>4 DEF TwiceInv
  <2>8. call.saved \cap rows' = {} BY <2>1, <2>2, <2>7 DEF TwiceInv
  <2>9. \A r \in rows' : Kinds(r) BY <1>0, <2>1, <2>3
  <2> QED BY <1>1, <1>2, <2>1, <2>6, <2>7, <2>8, <2>9 DEF TwiceInv, NoRowTwice, Kinds
<1>5. CASE relink_inbound_edges
  <2>1. PICK new \in SUBSET Detached(call.saved, Nodes(files, symbols, sites)) : create_rows(new)
    <3>1. PICK failed \in SUBSET Detached(call.saved, Nodes(files, symbols, sites)) :
             create_rows(Detached(call.saved, Nodes(files, symbols, sites)) \ failed)
      BY <1>5 DEF relink_inbound_edges
    <3> QED BY <3>1
  <2>2. /\ call.step = "relink" /\ call'.step = "restore"
        /\ rows' = rows \cup new /\ doubled' = (doubled \/ new \cap rows # {})
    <3>1. call.step = "relink" /\ Goto("restore") BY <1>5 DEF relink_inbound_edges
    <3>2. call'.step = "restore" BY <3>1, CallTypes, StepFields DEF Steps
    <3> QED BY <2>1, <3>1, <3>2 DEF create_rows
  <2>3. new \subseteq call.saved BY <2>1 DEF Detached
  <2>4. Refreshing BY <2>2 DEF Refreshing, AfterPurge, AfterParse
  <2>5. call.saved \cap rows = {} BY <2>2 DEF TwiceInv
  <2>6. ~doubled' BY <1>0, <2>2, <2>3, <2>5
  <2>7. \A r \in call.saved : Kinds(r) /\ r[1] \in SymbolTables
                              /\ owning_file(r[3]) \in call.changed /\ owning_file(r[2]) \notin Reparsed
    BY <2>4 DEF TwiceInv
  <2>8. \A r \in rows' : Kinds(r) BY <1>0, <2>2, <2>3, <2>7
  <2> QED BY <1>1, <1>2, <2>2, <2>6, <2>7, <2>8 DEF TwiceInv, NoRowTwice, Kinds
<1>6. ASSUME NEW table \in SymbolTables, flush(table) PROVE TwiceInv'
  <2> DEFINE new == {r \in ResolvedRows : r[1] = table} \ rows
  <2>1. call.step = "flush" /\ create_rows(new) BY <1>6 DEF flush
  <2>2. rows' = rows \cup new /\ doubled' = doubled BY <1>0, <2>1 DEF create_rows, TypeOK
  <2>3. \A r \in new : Kinds(r) BY ResolvedKinds
  <2>4. call'.step = "flush" BY <1>6, <2>1, CreateFields
  <2> HIDE DEF new
  <2>5. \A r \in rows' : Kinds(r) BY <1>0, <2>2, <2>3
  <2> QED BY <1>0, <2>2, <2>4, <2>5, RestKeepsTwice DEF NoRowTwice
<1> QED BY <1>3, <1>4, <1>5, <1>6

LEMMA StepKeepsTwice ==
    ASSUME StructInv, TwiceInv, [Next]_vars
    PROVE  TwiceInv'
<1>1. TypeOK BY DEF StructInv
<1>2. CASE \E f \in Files : purge_file(f) BY <1>1, <1>2, PurgeKeepsTwice
<1>3. CASE \E f \in Files : reparse_modified_file(f) \/ reparse_new_file(f)
  BY <1>3, ParseKeepsTwice
<1>4. CASE classify \/ snapshot_inbound_edges \/ reopen_sites_resolved_into
  BY <1>1, <1>4, BeginKeepsTwice
<1>5. CASE \/ purge_done \/ reparse_modified_done \/ reparse_new_done \/ prune_orphan_directories
           \/ restore_sites_with_edge \/ save_manifest
  BY <1>1, <1>5, MoveKeepsTwice
<1>6. CASE light_link \/ iac \/ relink_inbound_edges \/ \E table \in SymbolTables : flush(table)
  BY <1>1, <1>6, CreateKeepsTwice
<1>7. CASE UNCHANGED vars
  <2>1. UNCHANGED <<rows, call, doubled>> BY <1>7 DEF vars, graph, history
  <2>2. Reparsed' = Reparsed /\ (Refreshing' <=> Refreshing) BY <2>1 DEF Reparsed, Refreshing
  <2>3. \A g : NoneFrom(g)' <=> NoneFrom(g) BY <2>1 DEF NoneFrom
  <2> QED BY <2>1, <2>2, <2>3 DEF TwiceInv, NoRowTwice, Kinds
<1>8. CASE \/ \E f \in Files : (\E c \in Contents[f] \cup {Absent} : edit(f, c)) \/ edit_cargo(f)
           \/ save_incremental_coverage \/ save_coverage_failed \/ cut_short \/ resolve_graph_done
           \/ resolve_calls \/ index_codebase_with_language \/ fall_back_to_full
  BY <1>1, <1>8, RestsKeepTwice
<1> QED BY <1>2, <1>3, <1>4, <1>5, <1>6, <1>7, <1>8 DEF Next

-----------------------------------------------------------------------------
(* The theorems.                                                           *)

\* Every state reached has the layered invariant: types, work lists and what
\* deleted files leave; claims; rows and claims carried through a refresh; nodes
\* by file; gaps by file; rows that are not there yet when they are created.
THEOREM IncrementalInvariant == Spec => []IInv
<1>1. Init => IInv
  BY InitStruct, InitClaims, InitKept, InitNodes, InitGaps, InitTwice DEF IInv
<1>2. IInv /\ [Next]_vars => IInv'
  <2> SUFFICES ASSUME IInv, [Next]_vars PROVE IInv' OBVIOUS
  <2>1. /\ StructInv /\ ClaimsInv /\ ClaimsHaveRows /\ KeepInv
        /\ NodesInv /\ NodesOfTree /\ GapsInv /\ GapsAreCurrent /\ TwiceInv
    BY DEF IInv
  <2>2. StructInv' /\ ClaimsInv' /\ ClaimsHaveRows' BY <2>1, StepKeepsClaims
  <2>3. TypeOK' BY <2>2 DEF StructInv
  <2>4. KeepInv' BY <2>1, <2>3, StepKeepsKept
  <2>5. NodesInv' /\ NodesOfTree' BY <2>1, StepKeepsNodes
  <2>6. GapsInv' /\ GapsAreCurrent' BY <2>1, StepKeepsGaps
  <2>7. TwiceInv' BY <2>1, StepKeepsTwice
  <2> QED BY <2>2, <2>4, <2>5, <2>6, <2>7 DEF IInv
<1> QED BY <1>1, <1>2, PTL DEF Spec

\* Type correctness of the tree, the graph, the sidecar and the call.
THEOREM IncrementalTypes == Spec => []TypeOK
<1>1. IInv => TypeOK BY DEF IInv, StructInv
<1> QED BY <1>1, IncrementalInvariant, PTL

\* A call site that claims a resolution to a function has its row, wherever a
\* refresh is cut short and whichever insert fails: reopen_sites_resolved_into
\* withdraws claims before purge_file takes rows, and restore_sites_with_edge
\* restores only those that got theirs back.  A site resolved to a type has no
\* row of its own, and the theorem says nothing of it.
THEOREM ClaimsAreBacked == Spec => []ClaimsHaveRows
<1>1. IInv => ClaimsHaveRows BY DEF IInv
<1> QED BY <1>1, IncrementalInvariant, PTL

\* A refresh keeps every row of a file it does not touch whose ends are there at
\* the end, but for those relink_inbound_edges failed to insert, and the site of
\* such a row has its claim exactly if it has a row: purge_file takes with a
\* symbol only rows that snapshot_inbound_edges saved.
THEOREM UntouchedRowsSurvive == Spec => []RefreshKeepsRows
<1>1. IInv => RefreshKeepsRows BY KeptRows DEF IInv
<1> QED BY <1>1, IncrementalInvariant, PTL

\* After a refresh the nodes are those of a full index of the tree, whatever was
\* cut short before, unless a torn file was edited in between.
THEOREM RefreshedNodes == Spec => []NodesOfTree
<1>1. IInv => NodesOfTree BY DEF IInv
<1> QED BY <1>1, IncrementalInvariant, PTL

\* After a refresh that left no file unreported the sidecar has the gaps of the
\* current contents and Cargo targets: merge_coverage carries over no stale one.
THEOREM SidecarIsCurrent == Spec => []GapsAreCurrent
<1>1. IInv => GapsAreCurrent BY DEF IInv
<1> QED BY <1>1, IncrementalInvariant, PTL

\* No row is created a second time, also when a refresh or a resolve_graph is
\* repeated after it was cut short: purge_file takes what light_link, iac and
\* relink_inbound_edges create again, and flush leaves out what is there.
THEOREM RowsAreCreatedOnce == Spec => []NoRowTwice
<1>1. IInv => NoRowTwice BY DEF IInv, TwiceInv
<1> QED BY <1>1, IncrementalInvariant, PTL
=============================================================================
