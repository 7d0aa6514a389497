------------------------------- MODULE LspPass -------------------------------
(***************************************************************************)
(* One language-server pass over the call sites of a graph, repeated: which *)
(* sites it asks about, what an answer does to the graph, how the sites are *)
(* counted, and when the time budget stops it.  The session with the server *)
(* is LspClient; here a request is one step that takes some time and ends   *)
(* in an answer, an error or a timeout.                                     *)
(***************************************************************************)
EXTENDS Naturals, FiniteSets

CONSTANTS Site, File, FileOf, CallerOf,
          Target,                \* nodes of the graph that a definition can name
          SiteTable,             \* targets whose kind has a table of rows per site
          MacroSite,             \* invocations of macros, never asked about
          OutsideTargets,        \* files that no Cargo target compiles
          TwinSite,              \* sites the static pass left to cfg twins
          Timeout,               \* the caller's timeout_ms
          PER_REQUEST_TIMEOUT,
          MaxPasses, MaxFaults   \* bounds

ASSUME LspPassAssumption ==
    /\ IsFiniteSet(Site)
    /\ FileOf \in [Site -> File] /\ MacroSite \subseteq Site /\ TwinSite \subseteq Site
    /\ OutsideTargets \subseteq File /\ SiteTable \subseteq Target
    /\ Timeout \in Nat /\ PER_REQUEST_TIMEOUT \in Nat
    /\ MaxPasses \in Nat /\ MaxFaults \in Nat

Caller == {CallerOf[s] : s \in Site}

VARIABLES
    \* the graph
    is_resolved,     \* sites with the flag set
    site_rows,       \* how many rows lead from a site to a target
    call_rows,       \* how many rows lead from a caller to a target
    reason,          \* unresolved_reason of every site
    \* the pass
    pc, files, sites, total, tally, elapsed,
    \* its result, and history
    result,          \* LspResolutionResult of the last pass that completed
    linked_to,       \* target of the answer that last counted a site as resolved
    answered,        \* sites for which this pass got an answer
    late,            \* definition requests made after the deadline
    passes, faults

graph == <<is_resolved, site_rows, call_rows, reason>>
bounds == <<passes, faults>>
vars == <<graph, pc, files, sites, total, tally, elapsed, result, linked_to, answered, late,
          bounds>>

-----------------------------------------------------------------------------
(* Reasons of open sites.                                                  *)

ByConstruction == {"outside_targets", "cfg_twins", "external_callee"}
Improvable == {"no_receiver_type"}

set_callsite_unresolved_reason(r, ids, why) == [s \in Site |-> IF s \in ids THEN why ELSE r[s]]
clear_callsite_reasons(r, ids) == set_callsite_unresolved_reason(r, ids, "")
promote_any_reason(r, ids) ==
    [s \in Site |-> IF s \in ids /\ s \notin is_resolved' THEN "external_callee" ELSE r[s]]
promote_callsite_reason_to_external(r, ids) ==
    [s \in Site |-> IF /\ s \in ids /\ s \notin is_resolved'
                       /\ r[s] \in Improvable
                    THEN "external_callee" ELSE r[s]]

-----------------------------------------------------------------------------
(* The tally.                                                              *)

NoTally == [resolved |-> 0, failed |-> 0, outside |-> 0,
            newly_resolved |-> {}, outside_ids |-> {}, twin_ids |-> {}, external_ids |-> {}]
NoResult == [resolved |-> 0, failed |-> 0, outside |-> 0, skipped |-> 0, unanswered |-> 0,
             asked |-> 0]

monus(a, b) == IF a >= b THEN a - b ELSE 0
\* skipped is derived; unanswered is what it should be.
into_result(t) ==
    [resolved |-> t.resolved, failed |-> t.failed, outside |-> t.outside,
     skipped |-> monus(Cardinality(total), t.resolved + t.failed + t.outside),
     unanswered |-> Cardinality(total \ (answered \cup t.outside_ids)),
     asked |-> Cardinality(total)]

-----------------------------------------------------------------------------
(* Starting: resolve_with_lsp up to the gate.                              *)

collect_unresolved_callsites == (Site \ is_resolved) \ MacroSite

Deadline == monus(Timeout, PER_REQUEST_TIMEOUT)
Overdue == elapsed > Deadline

\* A wait takes any time up to the client's timeout, which is the whole budget.
\* Beyond the timeout all times are alike.
Durations == 0 .. Timeout
Takes(d) == elapsed' = IF elapsed + d <= Timeout THEN elapsed + d ELSE Timeout + 1

resolve_with_lsp ==
    /\ pc = "idle" /\ passes < MaxPasses
    /\ passes' = passes + 1
    /\ total' = collect_unresolved_callsites
    /\ tally' = NoTally /\ answered' = {} /\ late' = 0 /\ elapsed' = 0 /\ sites' = {}
    /\ \/ /\ total' = {}                                     \* nothing_to_resolve
          /\ pc' = "idle" /\ files' = {}
          /\ result' = NoResult
       \/ /\ total' # {}
          /\ pc' = "start" /\ files' = {FileOf[s] : s \in total'}
          /\ result' = NoResult
    /\ UNCHANGED <<graph, linked_to, faults>>

\* initialize and the health gate; a refusal ends the pass without a result.
resolve_with_client ==
    /\ pc = "start"
    /\ \E d \in Durations : Takes(d)
    /\ pc' \in {"files", "idle"}
    /\ UNCHANGED <<graph, files, sites, total, tally, result, linked_to, answered, late,
                   bounds>>

-----------------------------------------------------------------------------
(* drive_pass: file by file, in the order of a hash map.                   *)

\* A file outside the targets is attributed without asking about its sites;
\* within the budget it is still opened for the cross-check.
mark_outside_targets(f) ==
    /\ pc = "files" /\ f \in files
    /\ f \in OutsideTargets
    /\ files' = files \ {f}
    /\ LET here == {s \in total : FileOf[s] = f}
       IN  tally' = [tally EXCEPT !.outside = @ + Cardinality(here),
                                  !.outside_ids = @ \cup here]
    /\ IF Overdue THEN Takes(0) ELSE \E d \in Durations : Takes(d)
    /\ UNCHANGED <<graph, pc, sites, total, result, linked_to, answered, late,
                   bounds>>

\* didOpen and the cross-check of a file, which may take its time as well; a
\* file that cannot be read or is refused is passed over.
open_document(f) ==
    /\ pc = "files" /\ f \in files
    /\ f \notin OutsideTargets
    /\ files' = files \ {f}
    /\ \/ /\ sites' = {s \in total : FileOf[s] = f}
          /\ pc' = "sites"
          /\ \E d \in Durations : Takes(d)
       \/ UNCHANGED <<sites, pc, elapsed>>
    /\ UNCHANGED <<graph, total, tally, result, linked_to, answered, late,
                   bounds>>

files_done ==
    /\ pc = "files" /\ files = {}
    /\ pc' = "close"
    /\ UNCHANGED <<graph, files, sites, total, tally, elapsed, result, linked_to, answered, late,
                   bounds>>

\* A definition: where it lies, the node there, and which of the two writes
\* that it asks for succeed.
SomeDefinition(i, n, c, t, row) ==
    [inside_root |-> i, node |-> n, same_name |-> n, compiled_out |-> c, rel_table |-> TRUE,
     target |-> t, row |-> row]
\* The answers that tell the outcomes apart.
Definitions ==
    UNION {{SomeDefinition(FALSE, FALSE, FALSE, t, "none"),
            SomeDefinition(TRUE, FALSE, FALSE, t, "none"),
            SomeDefinition(TRUE, TRUE, TRUE, t, "none"),
            SomeDefinition(TRUE, TRUE, FALSE, t, "none"),
            SomeDefinition(TRUE, TRUE, FALSE, t, "caller"),
            SomeDefinition(TRUE, TRUE, FALSE, t, "both")} : t \in Target}

\* lsp_edge: what a definition is worth, in the order of its checks.  A target
\* without a table per site (an Enum, Trait or TypeAlias) asks for one write.
caller_row_suffices(d) == d.rel_table /\ d.row \in {"both", "caller"}
row_is_written(d) ==
    d.rel_table /\ (d.row = "both" \/ (d.row = "caller" /\ d.target \notin SiteTable))
lsp_edge(d) ==
    CASE ~d.inside_root                           -> "external"
      [] d.inside_root /\ ~(d.node /\ d.same_name) -> "not_added"
      [] d.inside_root /\ d.node /\ d.same_name /\ d.compiled_out -> "compiled_out_twin"
      [] OTHER -> IF row_is_written(d) THEN "added" ELSE "not_added"

insert_edge_if_absent(rows, key) == [rows EXCEPT ![key] = IF @ = 0 THEN 1 ELSE @]

\* The row of the caller first, then that of the site if there is a table for
\* it; either write can fail.
insert_lsp_edge(s, d) ==
    /\ call_rows' = IF d.row \in {"caller", "both"}
                    THEN insert_edge_if_absent(call_rows, <<CallerOf[s], d.target>>)
                    ELSE call_rows
    /\ site_rows' = IF d.row = "both" /\ d.target \in SiteTable
                    THEN insert_edge_if_absent(site_rows, <<s, d.target>>)
                    ELSE site_rows

\* record: an answer counts once; a request that timed out counts nowhere.
fail == [tally EXCEPT !.failed = @ + 1]
record_definition(s, d) ==
    /\ IF d.inside_root /\ d.node /\ d.same_name /\ ~d.compiled_out /\ d.rel_table
       THEN insert_lsp_edge(s, d) ELSE UNCHANGED <<call_rows, site_rows>>
    /\ tally' = CASE lsp_edge(d) = "added" ->
                       [tally EXCEPT !.resolved = @ + 1, !.newly_resolved = @ \cup {s}]
                  [] lsp_edge(d) = "compiled_out_twin" -> [fail EXCEPT !.twin_ids = @ \cup {s}]
                  [] lsp_edge(d) = "external"   -> [fail EXCEPT !.external_ids = @ \cup {s}]
                  [] lsp_edge(d) = "not_added"  -> fail
    /\ linked_to' = IF lsp_edge(d) = "added" THEN [linked_to EXCEPT ![s] = {d.target}]
                                             ELSE linked_to
    /\ answered' = answered \cup {s}
record_timeout_as_failure(s) ==
    \/ \E d \in Definitions : record_definition(s, d)
    \/ /\ tally' = fail
       /\ answered' \in {answered, answered \cup {s}}
       /\ UNCHANGED <<call_rows, site_rows, linked_to>>
record(s) ==
    \/ \E d \in Definitions : record_definition(s, d)
    \/ /\ tally' = fail                                  \* no definition, or an error
       /\ answered' = answered \cup {s}
       /\ UNCHANGED <<call_rows, site_rows, linked_to>>
    \/ UNCHANGED <<tally, answered, call_rows, site_rows, linked_to>>  \* a timeout

get_definition(s) ==
    /\ \E d \in Durations : Takes(d)
    /\ late' = IF Overdue THEN late + 1 ELSE late
    /\ record(s)
    /\ UNCHANGED <<is_resolved, reason, total, result, bounds>>

\* The budget is looked at after a site, and ends both loops.
resolve_site(s) ==
    /\ pc = "sites" /\ s \in sites
    /\ get_definition(s)
    /\ \/ /\ elapsed' > Deadline
          /\ sites' = {} /\ pc' = "close"
       \/ /\ elapsed' <= Deadline
          /\ sites' = sites \ {s}
          /\ pc' = IF sites' = {} THEN "files" ELSE "sites"
    /\ UNCHANGED files

-----------------------------------------------------------------------------
(* The end: shutdown, then mark_resolved, write after write.               *)

shutdown ==
    /\ pc = "close"
    /\ \E d \in Durations : Takes(d)
    /\ pc' = "mark"
    /\ UNCHANGED <<graph, files, sites, total, tally, result, linked_to, answered, late,
                   bounds>>

mark_nodes_resolved ==
    /\ pc = "mark"
    /\ is_resolved' = is_resolved \cup tally.newly_resolved
    /\ pc' = "reasons"
    /\ UNCHANGED <<site_rows, call_rows, reason, files, sites, total, tally, elapsed, result,
                   linked_to, answered, late, bounds>>
\* The state of a pass is local to the call.
end_of_pass ==
    /\ pc' = "idle" /\ files' = {} /\ sites' = {} /\ total' = {}
    /\ tally' = NoTally /\ answered' = {} /\ late' = 0
mark_reasons ==
    /\ pc = "reasons"
    /\ UNCHANGED is_resolved
    /\ reason' = LET r1 == clear_callsite_reasons(reason, tally.newly_resolved)
                     r2 == set_callsite_unresolved_reason(r1, tally.outside_ids, "outside_targets")
                     r3 == set_callsite_unresolved_reason(r2, tally.twin_ids, "cfg_twins")
                 IN  promote_callsite_reason_to_external(r3, tally.external_ids)
    /\ result' = into_result(tally)
    /\ end_of_pass
    /\ UNCHANGED <<site_rows, call_rows, elapsed, linked_to, bounds>>

\* The process ends, or a write of mark_resolved fails: what was written stays.
cut_short ==
    /\ pc # "idle" /\ faults < MaxFaults
    /\ faults' = faults + 1
    /\ end_of_pass
    /\ UNCHANGED <<graph, elapsed, result, linked_to, passes>>

-----------------------------------------------------------------------------
\* The static pass has given every open site a reason.
Init ==
    /\ is_resolved = {}
    /\ site_rows = [r \in Site \X Target |-> 0] /\ call_rows = [r \in Caller \X Target |-> 0]
    /\ reason = [s \in Site |-> IF s \in TwinSite THEN "cfg_twins" ELSE "no_receiver_type"]
    /\ pc = "idle" /\ files = {} /\ sites = {} /\ total = {} /\ tally = NoTally /\ elapsed = 0
    /\ result = NoResult
    /\ linked_to = [s \in Site |-> {}]
    /\ answered = {} /\ late = 0 /\ passes = 0 /\ faults = 0

PassStep ==
    \/ resolve_with_client
    \/ \E f \in File : mark_outside_targets(f) \/ open_document(f)
    \/ \E s \in Site : resolve_site(s)
    \/ files_done
    \/ shutdown
    \/ mark_nodes_resolved
    \/ mark_reasons
Next == resolve_with_lsp \/ PassStep \/ cut_short

Spec == Init /\ [][Next]_vars

-----------------------------------------------------------------------------
(* Properties.                                                             *)

\* The four counters of a report partition the sites the pass collected, and
\* skipped is exactly the number of sites without an answer, wherever the
\* budget, a timeout or an unreadable file stopped it (LspPass in pass.rs).
ReportAddsUp ==
    /\ result.resolved + result.failed + result.outside + result.skipped = result.asked
    /\ result.skipped = result.unanswered

\* The rows of the answer a site was resolved by: the row of its caller, and its
\* own where the kind of the target has a table for one.
IsBacked(s) ==
    /\ linked_to[s] # {}
    /\ \A t \in linked_to[s] : /\ call_rows[<<CallerOf[s], t>>] = 1
                               /\ t \in SiteTable => site_rows[<<s, t>>] = 1

\* A site counts as resolved only if the rows of its answer are in the graph:
\* that of its caller always, its own unless the target is of a kind without a
\* table for it.  So it is also when a write failed, when another site of the
\* caller has a row there already, and when a pass was cut short between rows
\* and flags, and no replay of such a pass writes a row twice
\* (insert_lsp_edge, mark_resolved).
ResolvedHasRows ==
    /\ \A s \in is_resolved : IsBacked(s)
    /\ \A s \in Site, t \in Target :
         site_rows[<<s, t>>] <= 1 /\ call_rows[<<CallerOf[s], t>>] <= 1

\* A reason that says more than a gap of the resolver is not overwritten by an
\* answer from outside the root (promote_callsite_reason_to_external).
ReasonsAreNotDowngraded ==
    [][\A s \in Site : reason[s] \in ByConstruction \ {"external_callee"} => reason'[s] # "external_callee"]_vars

\* However long opening the files and the cross-checks take, at most one
\* definition is asked after the deadline (the break out of both loops).
OneLateRequest == late <= 1

\* The total budget, as the schema of lsp_resolve describes timeout_ms.
BudgetHolds == pc = "idle" => elapsed <= Timeout
-----------------------------------------------------------------------------
(* The inductive invariant.                                                *)

Tally == [resolved : Nat, failed : Nat, outside : Nat,
          newly_resolved : SUBSET Site, outside_ids : SUBSET Site,
          twin_ids : SUBSET Site, external_ids : SUBSET Site]
Report == [resolved : Nat, failed : Nat, outside : Nat, skipped : Nat, unanswered : Nat,
           asked : Nat]

\* The types of the graph, of the pass and of its report.
TypeOK ==
    /\ is_resolved \subseteq Site
    /\ site_rows \in [Site \X Target -> Nat] /\ call_rows \in [Caller \X Target -> Nat]
    /\ linked_to \in [Site -> SUBSET Target]
    /\ reason \in [Site -> ByConstruction \cup Improvable \cup {""}]
    /\ pc \in {"idle", "start", "files", "sites", "close", "mark", "reasons"}
    /\ files \subseteq File /\ sites \subseteq Site /\ total \subseteq Site
    /\ tally \in Tally /\ elapsed \in 0 .. (Timeout + 1) /\ result \in Report
    /\ answered \subseteq Site /\ late \in Nat
    /\ passes \in 0 .. MaxPasses /\ faults \in 0 .. MaxFaults

\* What the tally counts as resolved has its rows, before any flag is set.
NewlyResolvedHasRows ==
    \A s \in tally.newly_resolved : IsBacked(s)

\* Every file is taken once, so that a site is answered or attributed once.
TakenOnce ==
    /\ answered \cup tally.outside_ids \cup sites \subseteq total
    /\ \A s \in total : FileOf[s] \in files => s \notin answered \cup tally.outside_ids \cup sites
    /\ sites \cap answered = {}
    /\ \A s \in answered \cup sites : FileOf[s] \notin OutsideTargets
    /\ \A s \in tally.outside_ids : FileOf[s] \in OutsideTargets

\* The counters are the sizes of the sets they count.
CountersCount ==
    /\ tally.resolved + tally.failed = Cardinality(answered)
    /\ tally.outside = Cardinality(tally.outside_ids)

\* The loops go on only as long as no request has been late.
LateEndsLoops == late <= 1 /\ (pc \in {"idle", "start", "files", "sites"} => late = 0)

IInv ==
    /\ TypeOK
    /\ ResolvedHasRows /\ NewlyResolvedHasRows
    /\ TakenOnce /\ CountersCount /\ ReportAddsUp
    /\ LateEndsLoops
=============================================================================
