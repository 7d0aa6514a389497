--------------------------- MODULE LspPassProofs ---------------------------
(* What a language-server pass writes and reports, for any set of sites,    *)
(* files and callers, any budget and any number of passes and faults.       *)
EXTENDS LspPass, FiniteSetTheorems, TLAPS

\* Budgets and bounds are numbers.
LEMMA BudgetsAreNumbers ==
    /\ Timeout \in Nat /\ PER_REQUEST_TIMEOUT \in Nat
    /\ MaxPasses \in Nat /\ MaxFaults \in Nat
BY LspPassAssumption DEF LspPassAssumption

\* Subsets of the sites can be counted, and one more site counts one more.
LEMMA SitesAreFinite ==
    ASSUME NEW S \in SUBSET Site
    PROVE  IsFiniteSet(S) /\ Cardinality(S) \in Nat
BY LspPassAssumption, FS_Subset, FS_CardinalityType DEF LspPassAssumption

LEMMA OneMore ==
    ASSUME NEW S \in SUBSET Site, NEW s \in Site, s \notin S
    PROVE  Cardinality(S \cup {s}) = Cardinality(S) + 1
BY SitesAreFinite, FS_AddElement

LEMMA CountApart ==
    ASSUME NEW S \in SUBSET Site, NEW T \in SUBSET Site, S \cap T = {}
    PROVE  Cardinality(S \cup T) = Cardinality(S) + Cardinality(T)
<1>1. /\ IsFiniteSet(S) /\ IsFiniteSet(T)
      /\ Cardinality(S) \in Nat /\ Cardinality(T) \in Nat
  BY SitesAreFinite
<1>2. Cardinality(S \cup T) = Cardinality(S) + Cardinality(T) - Cardinality(S \cap T)
  BY <1>1, FS_Union
<1>3. Cardinality(S \cap T) = 0 BY FS_EmptySet
<1> QED BY <1>1, <1>2, <1>3

\* Time only goes on, and beyond the budget it stays there.
LEMMA TimeGoesOn ==
    ASSUME elapsed \in 0 .. (Timeout + 1), NEW d \in Durations, Takes(d)
    PROVE  elapsed' \in 0 .. (Timeout + 1) /\ elapsed' >= elapsed
BY BudgetsAreNumbers DEF Takes, Durations

LEMMA EmptyTally ==
    /\ NoTally \in Tally /\ NoResult \in Report
    /\ NoTally.newly_resolved = {} /\ NoTally.outside_ids = {}
    /\ NoTally.resolved = 0 /\ NoTally.failed = 0 /\ NoTally.outside = 0
    /\ Cardinality({}) = 0
BY FS_EmptySet DEF NoTally, NoResult, Tally, Report

LEMMA InitIInv == Init => IInv
<1> SUFFICES ASSUME Init PROVE IInv OBVIOUS
<1>1. TypeOK
  BY EmptyTally, LspPassAssumption
  DEF LspPassAssumption, Init, TypeOK, ByConstruction, Improvable
<1>2. ResolvedHasRows BY DEF Init, ResolvedHasRows, Caller
<1>3. NewlyResolvedHasRows /\ TakenOnce /\ CountersCount
  BY EmptyTally DEF Init, NewlyResolvedHasRows, TakenOnce, CountersCount
<1>4. ReportAddsUp /\ LateEndsLoops BY DEF Init, ReportAddsUp, NoResult, LateEndsLoops
<1> QED BY <1>1, <1>2, <1>3, <1>4 DEF IInv

\* Between two passes nothing is counted.
LEMMA ForgottenPass ==
    ASSUME tally' = NoTally, answered' = {}, sites' = {}
    PROVE  NewlyResolvedHasRows' /\ TakenOnce' /\ CountersCount'
BY EmptyTally DEF NewlyResolvedHasRows, TakenOnce, CountersCount

LEMMA StartKeepsIInv == IInv /\ resolve_with_lsp => IInv'
<1> SUFFICES ASSUME IInv, resolve_with_lsp PROVE IInv' OBVIOUS
<1>1. TypeOK'
  <2>1. total' \subseteq Site BY DEF resolve_with_lsp, collect_unresolved_callsites
  <2>2. files' \subseteq File
    BY <2>1, LspPassAssumption DEF LspPassAssumption, resolve_with_lsp
  <2>3. passes \in 0 .. MaxPasses /\ passes < MaxPasses /\ passes' = passes + 1
    BY DEF resolve_with_lsp, IInv, TypeOK
  <2>4. passes' \in 0 .. MaxPasses /\ 0 \in 0 .. (Timeout + 1)
    BY <2>3, BudgetsAreNumbers
  <2> QED BY <2>1, <2>2, <2>4, EmptyTally DEF IInv, TypeOK, resolve_with_lsp, graph
<1>2. NewlyResolvedHasRows' /\ TakenOnce' /\ CountersCount'
  BY ForgottenPass DEF resolve_with_lsp
<1>3. ResolvedHasRows' BY DEF IInv, ResolvedHasRows, IsBacked, resolve_with_lsp, graph
<1>4. ReportAddsUp' /\ LateEndsLoops'
  BY DEF IInv, resolve_with_lsp, ReportAddsUp, NoResult, LateEndsLoops
<1> QED BY <1>1, <1>2, <1>3, <1>4 DEF IInv

\* A step that only waits and moves on within the loops, or leaves them.
LEMMA WaitKeepsIInv ==
    ASSUME IInv,
           UNCHANGED <<graph, total, tally, result, linked_to, answered, late, passes, faults>>,
           elapsed' \in 0 .. (Timeout + 1),
           pc' \in {"idle", "start", "files", "sites", "close", "mark", "reasons"},
           pc' \in {"idle", "start", "files", "sites"}
                => pc \in {"idle", "start", "files", "sites"},
           files' \subseteq files, sites' \subseteq Site,
           \/ sites' = sites
           \/ \E f \in files \ OutsideTargets :
                f \notin files' /\ sites' = {s \in total : FileOf[s] = f}
    PROVE  IInv'
<1>1. TypeOK' BY DEF IInv, TypeOK, graph
<1>2. TakenOnce' BY DEF IInv, TypeOK, TakenOnce
<1>3. ResolvedHasRows' /\ NewlyResolvedHasRows'
  BY DEF IInv, ResolvedHasRows, NewlyResolvedHasRows, IsBacked, graph
<1>4. CountersCount' /\ ReportAddsUp' /\ LateEndsLoops'
  BY DEF IInv, CountersCount, ReportAddsUp, LateEndsLoops
<1> QED BY <1>1, <1>2, <1>3, <1>4 DEF IInv

LEMMA WaitsKeepIInv ==
    ASSUME IInv,
           \/ resolve_with_client \/ files_done \/ shutdown
           \/ \E f \in File : open_document(f)
    PROVE  IInv'
<1>1. elapsed \in 0 .. (Timeout + 1) /\ sites \subseteq Site /\ total \subseteq Site
  BY DEF IInv, TypeOK
<1>2. CASE resolve_with_client
  <2>1. PICK d \in Durations : Takes(d) BY <1>2 DEF resolve_with_client
  <2>2. elapsed' \in 0 .. (Timeout + 1) BY <1>1, <2>1, TimeGoesOn
  <2> QED BY <1>1, <1>2, <2>2, WaitKeepsIInv DEF resolve_with_client, bounds
<1>3. CASE files_done
  BY <1>1, <1>3, WaitKeepsIInv DEF files_done, bounds
<1>4. CASE shutdown
  <2>1. PICK d \in Durations : Takes(d) BY <1>4 DEF shutdown
  <2>2. elapsed' \in 0 .. (Timeout + 1) BY <1>1, <2>1, TimeGoesOn
  <2> QED BY <1>1, <1>4, <2>2, WaitKeepsIInv DEF shutdown, bounds
<1>5. ASSUME NEW f \in File, open_document(f) PROVE IInv'
  <2>1. CASE UNCHANGED <<sites, pc, elapsed>>
    BY <1>1, <1>5, <2>1, WaitKeepsIInv DEF open_document, bounds
  <2>2. CASE /\ sites' = {s \in total : FileOf[s] = f}
             /\ pc' = "sites"
             /\ \E d \in Durations : Takes(d)
    <3>1. PICK d \in Durations : Takes(d) BY <2>2
    <3>2. elapsed' \in 0 .. (Timeout + 1) BY <1>1, <3>1, TimeGoesOn
    <3> QED BY <1>1, <1>5, <2>2, <3>2, WaitKeepsIInv DEF open_document, bounds
  <2> QED BY <1>5, <2>1, <2>2 DEF open_document
<1> QED BY <1>2, <1>3, <1>4, <1>5

\* The sites of a file outside the targets are counted when the file is taken.
LEMMA OutsideKeepsIInv == \A f \in File : IInv /\ mark_outside_targets(f) => IInv'
<1> SUFFICES ASSUME NEW f \in File, IInv, mark_outside_targets(f) PROVE IInv' OBVIOUS
<1> DEFINE here == {s \in total : FileOf[s] = f}
<1>1. here \subseteq Site /\ total \subseteq Site BY DEF IInv, TypeOK
<1>2. Cardinality(here) \in Nat BY <1>1, SitesAreFinite
<1>3. tally \in Tally /\ tally.outside_ids \subseteq Site BY DEF IInv, TypeOK, Tally
<1>4. tally' = [tally EXCEPT !.outside = @ + Cardinality(here), !.outside_ids = @ \cup here]
  BY DEF mark_outside_targets
<1>5. here \cap tally.outside_ids = {}
  BY DEF IInv, TakenOnce, mark_outside_targets
<1>6. Cardinality(tally.outside_ids \cup here)
        = Cardinality(tally.outside_ids) + Cardinality(here)
  BY <1>1, <1>3, <1>5, CountApart
<1>7. elapsed' \in 0 .. (Timeout + 1)
  <2>1. elapsed \in 0 .. (Timeout + 1) BY DEF IInv, TypeOK
  <2>2. 0 \in Durations BY BudgetsAreNumbers DEF Durations
  <2>3. IF Overdue THEN Takes(0) ELSE \E d \in Durations : Takes(d)
    BY DEF mark_outside_targets
  <2> QED BY <2>1, <2>2, <2>3, TimeGoesOn
<1> HIDE DEF here
<1>8. /\ tally' \in Tally
      /\ tally'.outside = tally.outside + Cardinality(here)
      /\ tally'.outside_ids = tally.outside_ids \cup here
      /\ tally'.newly_resolved = tally.newly_resolved
      /\ tally'.resolved = tally.resolved /\ tally'.failed = tally.failed
  <2>1. tally.outside + Cardinality(here) \in Nat /\ tally.outside_ids \cup here \subseteq Site
    BY <1>1, <1>2, <1>3 DEF Tally
  <2>2. tally' \in Tally BY <1>3, <1>4, <2>1 DEF Tally
  <2>3. /\ tally'.outside = tally.outside + Cardinality(here)
        /\ tally'.outside_ids = tally.outside_ids \cup here
    BY <1>3, <1>4 DEF Tally
  <2>4. /\ tally'.newly_resolved = tally.newly_resolved
        /\ tally'.resolved = tally.resolved /\ tally'.failed = tally.failed
    BY <1>3, <1>4 DEF Tally
  <2> QED BY <2>2, <2>3, <2>4
<1>9. /\ UNCHANGED <<graph, pc, sites, total, result, linked_to, answered, late, bounds>>
      /\ files' = files \ {f}
  BY DEF mark_outside_targets
<1>10. TypeOK' BY <1>7, <1>8, <1>9 DEF IInv, TypeOK, graph, bounds
<1>11. TakenOnce'
  BY <1>1, <1>8, <1>9 DEF IInv, TypeOK, TakenOnce, mark_outside_targets, here
<1>12. CountersCount'
  BY <1>3, <1>6, <1>8, <1>9 DEF IInv, CountersCount
<1>13. ResolvedHasRows' /\ NewlyResolvedHasRows'
  BY <1>8, <1>9 DEF IInv, ResolvedHasRows, NewlyResolvedHasRows, IsBacked, graph
<1>14. ReportAddsUp' /\ LateEndsLoops'
  BY <1>9 DEF IInv, ReportAddsUp, LateEndsLoops
<1> QED BY <1>10, <1>11, <1>12, <1>13, <1>14 DEF IInv

\* A row that is there stays, one that is not is written once.
LEMMA InsertOnce ==
    ASSUME NEW D, NEW k \in D, NEW rows \in [D -> Nat], \A x \in D : rows[x] <= 1
    PROVE  /\ insert_edge_if_absent(rows, k) \in [D -> Nat]
           /\ insert_edge_if_absent(rows, k)[k] = 1
           /\ \A x \in D : /\ insert_edge_if_absent(rows, k)[x] <= 1
                           /\ rows[x] = 1 => insert_edge_if_absent(rows, k)[x] = 1
BY DEF insert_edge_if_absent

\* What an answer does to rows, tally and counters: a row is written at most
\* once, the site is counted once, newly resolved only with the rows of its
\* answer, and no site loses the rows of its own.
LEMMA RecordStep ==
    ASSUME IInv, NEW s \in Site, s \in sites, record(s)
    PROVE  /\ tally' \in Tally /\ tally'.outside = tally.outside
           /\ tally'.outside_ids = tally.outside_ids
           /\ answered' \subseteq answered \cup {s}
           /\ site_rows' \in [Site \X Target -> Nat] /\ call_rows' \in [Caller \X Target -> Nat]
           /\ linked_to' \in [Site -> SUBSET Target]
           /\ tally'.resolved + tally'.failed = Cardinality(answered')
           /\ \A t \in Site, u \in Target :
                site_rows'[<<t, u>>] <= 1 /\ call_rows'[<<CallerOf[t], u>>] <= 1
           /\ \A t \in Site : IsBacked(t) => IsBacked(t)'
           /\ \A t \in tally'.newly_resolved \ tally.newly_resolved : IsBacked(t)'
<1>1. /\ tally \in Tally /\ answered \subseteq Site /\ s \notin answered
      /\ site_rows \in [Site \X Target -> Nat] /\ call_rows \in [Caller \X Target -> Nat]
      /\ linked_to \in [Site -> SUBSET Target]
      /\ tally.resolved + tally.failed = Cardinality(answered)
      /\ \A t \in Site, u \in Target :
           site_rows[<<t, u>>] <= 1 /\ call_rows[<<CallerOf[t], u>>] <= 1
  BY DEF IInv, TypeOK, TakenOnce, CountersCount, ResolvedHasRows
<1>2. /\ tally.resolved \in Nat /\ tally.failed \in Nat /\ tally.outside \in Nat
      /\ tally.newly_resolved \in SUBSET Site /\ tally.outside_ids \in SUBSET Site
      /\ tally.twin_ids \in SUBSET Site /\ tally.external_ids \in SUBSET Site
  BY <1>1 DEF Tally
<1>3. \A t \in Site : CallerOf[t] \in Caller BY DEF Caller
<1>4. Cardinality(answered \cup {s}) = tally.resolved + tally.failed + 1
  BY <1>1, <1>2, OneMore
<1>5. /\ fail \in Tally /\ fail.resolved = tally.resolved /\ fail.failed = tally.failed + 1
      /\ fail.outside = tally.outside /\ fail.outside_ids = tally.outside_ids
      /\ fail.newly_resolved = tally.newly_resolved
      /\ fail.twin_ids = tally.twin_ids /\ fail.external_ids = tally.external_ids
  BY <1>1, <1>2 DEF fail, Tally
<1>6. CASE UNCHANGED <<tally, answered, call_rows, site_rows, linked_to>>
  BY <1>1, <1>2, <1>3, <1>6 DEF IsBacked
<1>7. CASE /\ tally' = fail /\ answered' = answered \cup {s}
           /\ UNCHANGED <<call_rows, site_rows, linked_to>>
  BY <1>1, <1>2, <1>3, <1>4, <1>5, <1>7 DEF IsBacked
<1>8. /\ \A x \in Site \X Target : site_rows[x] <= 1
      /\ \A x \in Caller \X Target : call_rows[x] <= 1
  <2>1. ASSUME NEW x \in Site \X Target PROVE site_rows[x] <= 1
    <3>1. PICK t \in Site, u \in Target : x = <<t, u>> OBVIOUS
    <3> QED BY <1>1, <3>1
  <2>2. ASSUME NEW x \in Caller \X Target PROVE call_rows[x] <= 1
    <3>1. PICK c \in Caller, u \in Target : x = <<c, u>> OBVIOUS
    <3>2. PICK t \in Site : c = CallerOf[t] BY DEF Caller
    <3> QED BY <1>1, <3>1, <3>2
  <2> QED BY <2>1, <2>2
<1>9. ASSUME NEW u \in Target
       PROVE  LET s1 == insert_edge_if_absent(site_rows, <<s, u>>)
                  c1 == insert_edge_if_absent(call_rows, <<CallerOf[s], u>>)
              IN  /\ s1 \in [Site \X Target -> Nat] /\ s1[<<s, u>>] = 1
                  /\ \A x \in Site \X Target : s1[x] <= 1 /\ (site_rows[x] = 1 => s1[x] = 1)
                  /\ c1 \in [Caller \X Target -> Nat] /\ c1[<<CallerOf[s], u>>] = 1
                  /\ \A x \in Caller \X Target : c1[x] <= 1 /\ (call_rows[x] = 1 => c1[x] = 1)
  <2> DEFINE S == Site \X Target
             C == Caller \X Target
             k == <<s, u>>
             l == <<CallerOf[s], u>>
  <2>1. /\ k \in S /\ site_rows \in [S -> Nat] /\ \A x \in S : site_rows[x] <= 1
        /\ l \in C /\ call_rows \in [C -> Nat] /\ \A x \in C : call_rows[x] <= 1
    BY <1>1, <1>3, <1>8
  <2> HIDE DEF S, C, k, l
  <2>2. LET s1 == insert_edge_if_absent(site_rows, k)
        IN  /\ s1 \in [S -> Nat] /\ s1[k] = 1
            /\ \A x \in S : s1[x] <= 1 /\ (site_rows[x] = 1 => s1[x] = 1)
    BY <2>1, InsertOnce
  <2>3. LET c1 == insert_edge_if_absent(call_rows, l)
        IN  /\ c1 \in [C -> Nat] /\ c1[l] = 1
            /\ \A x \in C : c1[x] <= 1 /\ (call_rows[x] = 1 => c1[x] = 1)
    BY <2>1, InsertOnce
  <2> QED BY <2>2, <2>3 DEF S, C, k, l
<1>10. ASSUME NEW d \in Definitions, record_definition(s, d)
      PROVE  /\ answered' = answered \cup {s}
             /\ site_rows' \in [Site \X Target -> Nat]
             /\ call_rows' \in [Caller \X Target -> Nat]
             /\ linked_to' \in [Site -> SUBSET Target]
             /\ \A t \in Site, u \in Target :
                  site_rows'[<<t, u>>] <= 1 /\ call_rows'[<<CallerOf[t], u>>] <= 1
             /\ tally' \in Tally /\ tally'.outside = tally.outside
             /\ tally'.outside_ids = tally.outside_ids
             /\ tally'.resolved + tally'.failed = tally.resolved + tally.failed + 1
             /\ \A t \in Site : IsBacked(t) => IsBacked(t)'
             /\ \A t \in tally'.newly_resolved \ tally.newly_resolved : IsBacked(t)'
  <2>0. d.target \in Target BY DEF Definitions, SomeDefinition
  <2>1. /\ answered' = answered \cup {s}
        /\ site_rows' \in [Site \X Target -> Nat] /\ call_rows' \in [Caller \X Target -> Nat]
        /\ \A t \in Site, u \in Target :
             /\ site_rows'[<<t, u>>] <= 1 /\ call_rows'[<<CallerOf[t], u>>] <= 1
             /\ site_rows[<<t, u>>] = 1 => site_rows'[<<t, u>>] = 1
             /\ call_rows[<<CallerOf[t], u>>] = 1 => call_rows'[<<CallerOf[t], u>>] = 1
    <3>1. /\ site_rows' \in {site_rows, insert_edge_if_absent(site_rows, <<s, d.target>>)}
          /\ call_rows' \in {call_rows,
                             insert_edge_if_absent(call_rows, <<CallerOf[s], d.target>>)}
          /\ answered' = answered \cup {s}
      BY <1>10 DEF record_definition, insert_lsp_edge
    <3>2. /\ <<s, d.target>> \in Site \X Target
          /\ <<CallerOf[s], d.target>> \in Caller \X Target
          /\ \A t \in Site, u \in Target :
               <<t, u>> \in Site \X Target /\ <<CallerOf[t], u>> \in Caller \X Target
      BY <1>3, <2>0
    <3>4. /\ site_rows' \in [Site \X Target -> Nat]
          /\ \A x \in Site \X Target : /\ site_rows'[x] <= 1
                                       /\ site_rows[x] = 1 => site_rows'[x] = 1
      <4>1. CASE site_rows' = site_rows BY <4>1, <1>1, <1>8
      <4>2. CASE site_rows' = insert_edge_if_absent(site_rows, <<s, d.target>>)
        BY <4>2, <1>9, <2>0
      <4> QED BY <3>1, <4>1, <4>2
    <3>5. /\ call_rows' \in [Caller \X Target -> Nat]
          /\ \A x \in Caller \X Target : /\ call_rows'[x] <= 1
                                         /\ call_rows[x] = 1 => call_rows'[x] = 1
      <4>1. CASE call_rows' = call_rows BY <4>1, <1>1, <1>8
      <4>2. CASE call_rows' = insert_edge_if_absent(call_rows, <<CallerOf[s], d.target>>)
        BY <4>2, <1>9, <2>0
      <4> QED BY <3>1, <4>1, <4>2
    <3>6. ASSUME NEW t \in Site, NEW u \in Target
          PROVE  /\ site_rows'[<<t, u>>] <= 1 /\ call_rows'[<<CallerOf[t], u>>] <= 1
                 /\ site_rows[<<t, u>>] = 1 => site_rows'[<<t, u>>] = 1
                 /\ call_rows[<<CallerOf[t], u>>] = 1 => call_rows'[<<CallerOf[t], u>>] = 1
      BY <3>2, <3>4, <3>5, <3>6
    <3> QED BY <3>1, <3>4, <3>5, <3>6
  <2>2. ASSUME NEW t \in Site, linked_to'[t] = linked_to[t], IsBacked(t)
        PROVE  IsBacked(t)'
    BY <1>1, <2>1, <2>2 DEF IsBacked
  <2>3. CASE lsp_edge(d) = "added"
    <3>1. /\ d.inside_root /\ d.node /\ d.same_name /\ ~d.compiled_out
          /\ d.rel_table /\ d.row \in {"both", "caller"}
          /\ d.target \in SiteTable => d.row = "both"
      BY <2>3 DEF lsp_edge, row_is_written, Definitions, SomeDefinition
    <3>2. /\ call_rows' = insert_edge_if_absent(call_rows, <<CallerOf[s], d.target>>)
          /\ d.target \in SiteTable =>
               site_rows' = insert_edge_if_absent(site_rows, <<s, d.target>>)
      BY <1>10, <3>1 DEF record_definition, insert_lsp_edge
    <3>3. /\ tally' = [tally EXCEPT !.resolved = @ + 1, !.newly_resolved = @ \cup {s}]
          /\ linked_to' = [linked_to EXCEPT ![s] = {d.target}]
      BY <1>10, <2>3 DEF record_definition
    <3>4. /\ tally' \in Tally /\ tally'.outside = tally.outside
          /\ tally'.outside_ids = tally.outside_ids
          /\ tally'.resolved = tally.resolved + 1 /\ tally'.failed = tally.failed
          /\ tally'.newly_resolved = tally.newly_resolved \cup {s}
      <4>1. tally.resolved + 1 \in Nat /\ tally.newly_resolved \cup {s} \in SUBSET Site
        BY <1>2
      <4>2. tally' \in Tally BY <1>1, <3>3, <4>1 DEF Tally
      <4>3. /\ tally'.resolved = tally.resolved + 1
            /\ tally'.newly_resolved = tally.newly_resolved \cup {s}
        BY <1>1, <3>3 DEF Tally
      <4>4. /\ tally'.outside = tally.outside /\ tally'.failed = tally.failed
            /\ tally'.outside_ids = tally.outside_ids
        BY <1>1, <3>3 DEF Tally
      <4> QED BY <4>2, <4>3, <4>4
    <3>5. /\ call_rows'[<<CallerOf[s], d.target>>] = 1
          /\ d.target \in SiteTable => site_rows'[<<s, d.target>>] = 1
      BY <1>9, <2>0, <3>2
    <3>6. /\ linked_to' \in [Site -> SUBSET Target] /\ linked_to'[s] = {d.target}
          /\ \A t \in Site : t # s => linked_to'[t] = linked_to[t]
      BY <1>1, <2>0, <3>3
    <3>7. IsBacked(s)' BY <3>5, <3>6 DEF IsBacked
    <3>8. \A t \in Site : IsBacked(t) => IsBacked(t)' BY <2>2, <3>6, <3>7
    <3>9. tally'.resolved + tally'.failed = tally.resolved + tally.failed + 1
      BY <1>2, <3>4
    <3>10. \A t \in tally'.newly_resolved \ tally.newly_resolved : IsBacked(t)'
      BY <3>4, <3>7, Zenon
    <3> QED BY <2>1, <3>4, <3>6, <3>8, <3>9, <3>10
  <2>4. CASE lsp_edge(d) # "added"
    <3>1. linked_to' = linked_to BY <1>10, <2>4 DEF record_definition
    <3>2. \/ tally' = [fail EXCEPT !.twin_ids = @ \cup {s}]
          \/ tally' = [fail EXCEPT !.external_ids = @ \cup {s}]
          \/ tally' = fail
      <4>1. lsp_edge(d) \in {"added", "compiled_out_twin", "external", "not_added"}
        BY DEF lsp_edge, Definitions, SomeDefinition
      <4> QED BY <1>10, <2>4, <4>1 DEF record_definition
    <3> HIDE DEF fail
    <3>3. /\ tally' \in Tally /\ tally'.outside = tally.outside
          /\ tally'.outside_ids = tally.outside_ids
          /\ tally'.resolved = tally.resolved /\ tally'.failed = tally.failed + 1
          /\ tally'.newly_resolved = tally.newly_resolved
      BY <1>2, <1>5, <3>2 DEF Tally
    <3> QED BY <1>1, <1>2, <2>1, <2>2, <3>1, <3>3
  <2> QED BY <2>3, <2>4
<1> QED BY <1>1, <1>2, <1>4, <1>6, <1>7, <1>10 DEF record

\* An answer keeps the invariant; one that came late ends the loops.
LEMMA SiteKeepsIInv == \A s \in Site : IInv /\ resolve_site(s) => IInv'
<1> SUFFICES ASSUME NEW s \in Site, IInv, resolve_site(s) PROVE IInv' OBVIOUS
<1>1. s \in sites /\ record(s) /\ get_definition(s) BY DEF resolve_site, get_definition
<1>2. /\ UNCHANGED <<is_resolved, reason, total, result, bounds, files>>
      /\ sites' \subseteq sites \ {s} /\ pc' \in {"files", "sites", "close"}
      /\ late' = IF Overdue THEN late + 1 ELSE late
  BY DEF resolve_site, get_definition
<1>3. elapsed' \in 0 .. (Timeout + 1) /\ elapsed' >= elapsed /\ elapsed \in Nat
  <2>1. elapsed \in 0 .. (Timeout + 1) BY DEF IInv, TypeOK
  <2>2. PICK d \in Durations : Takes(d) BY DEF resolve_site, get_definition
  <2> QED BY <2>1, <2>2, TimeGoesOn, BudgetsAreNumbers
<1>4. TypeOK'
  <2>1. late \in Nat BY DEF IInv, TypeOK
  <2>2. late' \in Nat BY <1>2, <2>1
  <2> QED BY <1>1, <1>2, <1>3, <2>2, RecordStep DEF IInv, TypeOK, bounds
<1>5. ResolvedHasRows' /\ NewlyResolvedHasRows'
  <2>1. is_resolved \subseteq Site /\ tally.newly_resolved \subseteq Site
    BY DEF IInv, TypeOK, Tally
  <2>2. \A t \in is_resolved \cup tally.newly_resolved : IsBacked(t)
    BY DEF IInv, ResolvedHasRows, NewlyResolvedHasRows
  <2>3. /\ \A t \in Site : IsBacked(t) => IsBacked(t)'
        /\ \A t \in tally'.newly_resolved \ tally.newly_resolved : IsBacked(t)'
        /\ \A t \in Site, u \in Target :
             site_rows'[<<t, u>>] <= 1 /\ call_rows'[<<CallerOf[t], u>>] <= 1
    BY <1>1, RecordStep
  <2> QED BY <1>2, <2>1, <2>2, <2>3 DEF ResolvedHasRows, NewlyResolvedHasRows
<1>6. TakenOnce'
  BY <1>1, <1>2, RecordStep DEF IInv, TakenOnce
<1>7. CountersCount'
  <2>1. tally.outside = Cardinality(tally.outside_ids) BY DEF IInv, CountersCount
  <2>2. /\ tally'.outside = tally.outside /\ tally'.outside_ids = tally.outside_ids
        /\ tally'.resolved + tally'.failed = Cardinality(answered')
    BY <1>1, RecordStep
  <2> QED BY <2>1, <2>2 DEF CountersCount
<1>8. ReportAddsUp' BY <1>2 DEF IInv, ReportAddsUp
<1>9. LateEndsLoops'
  <2>1. late = 0 BY DEF IInv, LateEndsLoops, resolve_site
  <2>2. pc' \in {"idle", "start", "files", "sites"} => elapsed' <= Deadline
    BY DEF resolve_site
  <2>3. Deadline \in Nat BY BudgetsAreNumbers DEF Deadline, monus
  <2>4. elapsed' <= Deadline => ~Overdue
    BY <1>3, <2>3, BudgetsAreNumbers DEF Overdue
  <2> QED BY <1>2, <2>1, <2>2, <2>4 DEF LateEndsLoops
<1> QED BY <1>4, <1>5, <1>6, <1>7, <1>8, <1>9 DEF IInv

\* Flags are set for what the tally holds, and nothing else.
LEMMA MarkKeepsIInv == IInv /\ mark_nodes_resolved => IInv'
<1> SUFFICES ASSUME IInv, mark_nodes_resolved PROVE IInv' OBVIOUS
<1>1. TypeOK' BY DEF IInv, TypeOK, mark_nodes_resolved, Tally, bounds
<1>2. ResolvedHasRows' /\ NewlyResolvedHasRows'
  BY DEF IInv, ResolvedHasRows, NewlyResolvedHasRows, IsBacked, mark_nodes_resolved
<1>3. TakenOnce' /\ CountersCount' /\ ReportAddsUp' /\ LateEndsLoops'
  BY DEF IInv, TakenOnce, CountersCount, ReportAddsUp, LateEndsLoops, mark_nodes_resolved
<1> QED BY <1>1, <1>2, <1>3 DEF IInv

\* The report of a pass adds up, because answered and attributed sites are
\* apart and both are among the sites collected.
LEMMA ResultAddsUp ==
    ASSUME IInv, result' = into_result(tally)
    PROVE  result' \in Report /\ ReportAddsUp'
<1> DEFINE seen == answered \cup tally.outside_ids
           left == total \ seen
<1>1. /\ total \subseteq Site /\ answered \subseteq Site /\ tally.outside_ids \subseteq Site
      /\ tally.resolved \in Nat /\ tally.failed \in Nat /\ tally.outside \in Nat
  BY DEF IInv, TypeOK, Tally
<1>2. Cardinality(seen) = Cardinality(answered) + Cardinality(tally.outside_ids)
  <2>1. answered \cap tally.outside_ids = {} BY DEF IInv, TakenOnce
  <2> QED BY <1>1, <2>1, CountApart
<1>3. Cardinality(total) = Cardinality(seen) + Cardinality(left)
  <2>1. total = seen \cup left /\ seen \cap left = {} BY DEF IInv, TakenOnce
  <2>2. seen \subseteq Site /\ left \subseteq Site BY <1>1
  <2> QED BY <2>1, <2>2, CountApart
<1>4. /\ Cardinality(left) \in Nat /\ Cardinality(total) \in Nat
      /\ Cardinality(answered) \in Nat /\ Cardinality(tally.outside_ids) \in Nat
  BY <1>1, SitesAreFinite
<1>5. /\ tally.resolved + tally.failed = Cardinality(answered)
      /\ tally.outside = Cardinality(tally.outside_ids)
  BY DEF IInv, CountersCount
<1>6. monus(Cardinality(total), tally.resolved + tally.failed + tally.outside)
        = Cardinality(left)
  BY <1>1, <1>2, <1>3, <1>4, <1>5 DEF monus
<1>7. result' = [resolved |-> tally.resolved, failed |-> tally.failed,
                 outside |-> tally.outside, skipped |-> Cardinality(left),
                 unanswered |-> Cardinality(left), asked |-> Cardinality(total)]
  BY <1>6 DEF into_result
<1> HIDE DEF left
<1>8. tally.resolved + tally.failed + tally.outside + Cardinality(left) = Cardinality(total)
  BY <1>1, <1>2, <1>3, <1>4, <1>5
<1>9. result' \in Report BY <1>1, <1>4, <1>7 DEF Report
<1> QED BY <1>7, <1>8, <1>9 DEF ReportAddsUp

LEMMA ReasonsKeepIInv == IInv /\ mark_reasons => IInv'
<1> SUFFICES ASSUME IInv, mark_reasons PROVE IInv' OBVIOUS
<1>1. result' \in Report /\ ReportAddsUp' BY ResultAddsUp DEF mark_reasons
<1>2. NewlyResolvedHasRows' /\ TakenOnce' /\ CountersCount'
  BY ForgottenPass DEF mark_reasons, end_of_pass
<1>3. reason' \in [Site -> ByConstruction \cup Improvable \cup {""}]
  BY DEF IInv, TypeOK, mark_reasons, clear_callsite_reasons, set_callsite_unresolved_reason,
         promote_callsite_reason_to_external, ByConstruction, Improvable
<1>4. TypeOK'
  BY <1>1, <1>3, EmptyTally DEF IInv, TypeOK, mark_reasons, end_of_pass, bounds
<1>5. ResolvedHasRows' /\ LateEndsLoops'
  BY DEF IInv, ResolvedHasRows, IsBacked, LateEndsLoops, mark_reasons, end_of_pass
<1> QED BY <1>1, <1>2, <1>4, <1>5 DEF IInv

\* A fault forgets the pass and keeps what it wrote.
LEMMA CutKeepsIInv == IInv /\ cut_short => IInv'
<1> SUFFICES ASSUME IInv, cut_short PROVE IInv' OBVIOUS
<1>1. NewlyResolvedHasRows' /\ TakenOnce' /\ CountersCount'
  BY ForgottenPass DEF cut_short, end_of_pass
<1>2. faults' \in 0 .. MaxFaults
  <2>1. faults \in 0 .. MaxFaults /\ faults < MaxFaults /\ faults' = faults + 1
    BY DEF IInv, TypeOK, cut_short
  <2> QED BY <2>1, BudgetsAreNumbers
<1>3. TypeOK' BY <1>2, EmptyTally DEF IInv, TypeOK, cut_short, end_of_pass, graph
<1>4. ResolvedHasRows' /\ ReportAddsUp' /\ LateEndsLoops'
  BY DEF IInv, ResolvedHasRows, IsBacked, ReportAddsUp, LateEndsLoops, cut_short, end_of_pass, graph
<1> QED BY <1>1, <1>3, <1>4 DEF IInv

LEMMA StutterKeepsIInv == IInv /\ UNCHANGED vars => IInv'
<1> SUFFICES ASSUME IInv, UNCHANGED vars PROVE IInv' OBVIOUS
<1>1. TypeOK' BY DEF vars, graph, bounds, IInv, TypeOK
<1>2. ResolvedHasRows' /\ NewlyResolvedHasRows'
  BY DEF vars, graph, IInv, ResolvedHasRows, NewlyResolvedHasRows, IsBacked
<1>3. TakenOnce' /\ CountersCount' /\ ReportAddsUp' /\ LateEndsLoops'
  BY DEF vars, IInv, TakenOnce, CountersCount, ReportAddsUp, LateEndsLoops
<1> QED BY <1>1, <1>2, <1>3 DEF IInv

\* The invariant holds in every state of every pass, whatever the server
\* answers, whenever the budget runs out and wherever a fault cuts it short.
THEOREM PassInvariant == Spec => []IInv
<1>1. IInv /\ [Next]_vars => IInv'
  BY StartKeepsIInv, WaitsKeepIInv, OutsideKeepsIInv, SiteKeepsIInv, MarkKeepsIInv,
     ReasonsKeepIInv, CutKeepsIInv, StutterKeepsIInv
  DEF Next, PassStep
<1> QED BY <1>1, InitIInv, PTL DEF Spec

\* A site is flagged as resolved only when the row of its caller is there, and
\* its own where the target's kind has a table for it, each once, whatever
\* writes fail and also after a pass that was cut short and replayed
\* (insert_lsp_edge, mark_resolved).
THEOREM ResolvedSitesHaveRows == Spec => []ResolvedHasRows
<1>1. IInv => ResolvedHasRows BY DEF IInv
<1> QED BY <1>1, PassInvariant, PTL

\* The counters of every report partition the sites the pass collected, and
\* skipped counts the sites without an answer (into_result).
THEOREM EveryReportAddsUp == Spec => []ReportAddsUp
<1>1. IInv => ReportAddsUp BY DEF IInv
<1> QED BY <1>1, PassInvariant, PTL

\* At most one definition is asked after the deadline (resolve_site).
THEOREM AtMostOneLateRequest == Spec => []OneLateRequest
<1>1. IInv => OneLateRequest BY DEF IInv, LateEndsLoops, OneLateRequest
<1> QED BY <1>1, PassInvariant, PTL

\* No step turns the attribution of a site, outside the targets or left to cfg
\* twins, into an external callee (promote_callsite_reason_to_external).
THEOREM AttributionsStay == Spec => ReasonsAreNotDowngraded
<1> DEFINE Keeps == \A s \in Site : reason[s] \in ByConstruction \ {"external_callee"}
                                   => reason'[s] # "external_callee"
<1>1. ASSUME UNCHANGED reason PROVE Keeps BY <1>1
<1>2. ASSUME IInv, mark_reasons PROVE Keeps
  BY <1>2 DEF mark_reasons, clear_callsite_reasons, set_callsite_unresolved_reason,
              promote_callsite_reason_to_external, ByConstruction, Improvable
<1>3. IInv /\ [Next]_vars => [Keeps]_vars
  <2> SUFFICES ASSUME IInv, Next PROVE Keeps BY DEF vars
  <2>1. CASE mark_reasons BY <2>1, <1>2
  <2>2. CASE ~mark_reasons
    <3>1. UNCHANGED reason
      BY <2>2 DEF Next, PassStep, resolve_with_lsp, resolve_with_client, mark_outside_targets,
                  open_document, resolve_site, get_definition, files_done, shutdown,
                  mark_nodes_resolved, cut_short, graph
    <3> QED BY <3>1, <1>1
  <2> QED BY <2>1, <2>2
<1> HIDE DEF Keeps
<1>4. Spec => [][Keeps]_vars BY <1>3, PassInvariant, PTL DEF Spec
<1> QED BY <1>4 DEF Keeps, ReasonsAreNotDowngraded
=============================================================================
