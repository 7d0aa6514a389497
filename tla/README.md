# Verification of automatised-pipeline

TLA+ models of the `ai-architect-mcp-codebase` server (Rust, `src/src/`): an MCP
server that indexes a source tree into an embedded graph database, resolves the calls
in it, answers queries about it, and keeps the records of findings that go through a
staged review. This directory holds the models, the TLC configurations, the proofs
(TLAPS) and `PROJECT.json`, which maps every definition to the lines it models.

Run a configuration with `tlc -workers 2 -config <cfg> <module>`, check proofs
with `tlapm <module>Proofs.tla`.

## 1. Inventory

The server is one process with one thread that reads one JSON-RPC request at a
time from stdin (`main.rs`). What makes it hard is less its own concurrency than
what it shares: files it replaces one by one and may die between, a
database whose handles have views of their own, a source tree and a git history that
the user changes while they are being read, and a language server that is another
program. The other half of the system are decisions over the graph: long chains of
rules, each a pure function, in which one rule in the wrong place gives a wrong answer
without an error.

| component | state it keeps | operations | what is hard | what makes it correct | module |
|---|---|---|---|---|---|
| finding records (`finding_extract`, `finding_refine`, `finding_index`) | one directory per finding, `index.json` per run | `extract_finding`, `refine_finding` | several files per call; every stage rewrites the same index entry | a stage never loses the fields of a later one | `FindingRecords` |
| verification sessions (`verification_core`, `verification_ops`) | session file, receipt, index entry | start, append, finalize, abort | three writes in `finalize_verification`; retries after a crash; restarts after an abort | what the index publishes is a finalized, complete, digested conversation | `FindingRecords`, `VerifiedLedger` |
| atomic files (`atomic_file`, `handler_util`) | – | temp file, fsync, rename | – | a file is old or new, never partial | (one step in all models) |
| graph handles (`graph_cache`, `graph_store/handles`, `recovery`, `mod`) | open database handles, fingerprints; database file and log | cached open, eviction, open for writing, release, recovery, removal | a handle that is closed late writes its old view back; a log of a database that is gone | handles are current; commits are never undone | `GraphHandles`, `GraphContents` |
| indexing (`indexing_handlers`, `indexer/*`, `query_handlers/graph_paths`) | graph, manifest, `meta.json` | full and incremental index, fallback | edits while a call reads; calls that stop; time stamps; order of sidecars | the graph is that of a full index; the manifest is of the graph | `IndexPipeline` |
| edges around a refresh (`indexer/incremental/edges`, `stale_sites`, `coverage`, `resolver/mod`, `light_link`, `iac`) | rows, claims of call sites, coverage sidecar | purge, reparse, relink, resolve, flush | edges held in memory while a file is purged; claims before rows; inserts that fail and are passed over | no claim outlives its row; a refresh keeps rows | `IncrementalEdges` |
| freshness (`graph_freshness`) | none | `check` | reads three files that are written at different times | `fresh` is never said of an outdated graph | `IndexPipeline` |
| artifacts (`artifact`, `history_handlers`, `incremental/bootstrap`) | archive and sidecar in the repository | export, import, fill | an archive of another commit, of a dirty tree, of another version; failures in between | a filled graph is that of a full index | `ArtifactBootstrap` |
| language server client (`lsp_client/*`) | request ids, frame queue, child process, reader thread | handshake, readiness wait, requests, shutdown | two threads, three bounded buffers, an arbitrary peer | answers are matched to requests; the pass ends | `LspClient` |
| language server pass (`lsp_resolver/*`) | call sites and their outcome, counters | the loop over files and sites, rows, reasons, marks | time budget, repeated passes, rows that fail, targets without a table for sites | a mark only with the rows of its answer; no reason is lost; the counters add up | `LspPass` |
| Cargo scope (`parser/cfg_*`, `indexer/cargo_*`, `feature_gated`, `file_scope`, `cfg_verdict`, `cfg_select`) | flags of files, gates in ids | attribution, verdicts | three-valued gates, modules reached twice | what a build compiles is not flagged; the pinned twin is compiled | `CfgScope` |
| static resolver (`resolver/calls/*`, `resolver/receiver/*`, `ambiguity_policy`, `call_evidence`) | edges and reasons | one call site against the symbol table | order of rules, scopes, linkage | an edge names what the language lets it name | `CallResolution`, `RustPaths` |
| macro layer (`macro_expansion/*`, `resolver_layers`, `graph_store/macro_reset`) | rows and marks of macro sites | dispatch, reset | names bound in several scopes; a pass that runs again | targets are what the expansion calls | `MacroPass` |
| co-change mining (`cochange`) | aggregates with the last commit, edges | full and incremental mining | history that moves during a pass | each commit counted, once | `CoChange` |
| diffs and history (`git_diff`, `history/*`) | versions of symbols | `detect_changes`, `index_history` | line counters, ranges, paths below the top of the work tree | touched symbols are named | `LineHistory` |
| graph comparison (`semantic_diff`) | none | cycles, dangling ends, score | iterative Tarjan search | cycles are components | `GraphDiff` |
| clustering and processes (`clustering/*`) | communities, processes | Louvain, repair, tracing | levels, disconnected communities | connected, no worse than one level | `Clustering` |
| impact (`clustering/impact*`, `epistemic`, `process_impact_handlers/*`) | none | `get_impact` | absence of evidence | "exact" leaves out no call | `ImpactReport` |
| query tool (`query_handlers`, `read_only_gate`, `response_budget`) | none | gate, limit, pages | page borders, probe row, budget, an engine that answers in any order | pages that are called stable are together the answer | `QueryPages` |
| search (`search/*`, `search_context_handlers`) | none | fetch, filter, fuse, page | rare labels behind a fetch limit; ties | a short answer is a whole one | `SearchRanking` |
| analysis (`analyze_handlers/*`) | – | index, resolve, LSP, cluster, search index | order of phases | what is reported as done is durable | partly, in `GraphHandles`, `LspPass` |
| traces, requirement documents, security gates, stdlib index, parsers, language providers, schemas, prompts, CLI, `crates/zera` | none shared with the above | – | – | – | section 9 |

Interactions: `index_codebase` and `analyze_codebase` open the graph through
`graph_store`, which first makes `graph_cache` release its handle; all read
tools open through `graph_cache`; read tools stamp the receipt of
`graph_freshness` on their answers; the indexer writes the flags of Cargo scope that the
resolver reads; the resolver leaves open sites to the macro layer and to the language
server pass, which drives the client; `get_impact` reads the reasons all of them left;
`index_codebase` ends with co-change mining and, when asked, an export; stages 1 and 2
meet in `index.json`.

## 2. Modules

| module | models | extends / instantiates |
|---|---|---|
| `FindingRecords` | stages 1 and 2: the files of one run directory | instantiates `VerifiedLedger` |
| `VerifiedLedger` | what the next stage relies on: a write-once map from findings to verified transcripts | |
| `GraphHandles` | handles, cache, log and file of the graphs | instantiates `GraphContents` |
| `GraphContents` | what the tools assume of graphs: a path holds the last content written | |
| `IndexPipeline` | graph, manifest, `meta.json`, freshness receipt | |
| `IncrementalEdges` | nodes, rows, claims and coverage around a refresh and `resolve_graph` | |
| `ArtifactBootstrap` | archive, git, working tree and the graph that is bootstrapped | |
| `CoChange` | commits, a mining pass, aggregates and edges | |
| `LspClient` | client thread, reader thread, frame queue, pipes, server | |
| `LspPass` | the pass over files and sites, with time | |
| `CfgScope`, `RustPaths`, `CallResolution`, `MacroPass` | decisions of indexer and resolver, as operators | `CallResolution` extends `RustPaths` |
| `GraphDiff`, `Clustering`, `LineHistory`, `QueryPages`, `ImpactReport`, `SearchRanking` | reports of the tools, as operators | `SearchRanking` extends `QueryPages` |
| `MCDecisions`, `MCReports`, `MCAnswers` | the worlds these operators are asked about, and the questions | `MCAnswers` instantiates the other two |
| other `MC*` | TLC instances of the state machines | each extends its module |
| `FindingRecordsProofs`, `GraphHandlesProofs`, `LspClientProofs`, `LspPassProofs`, `IndexPipelineProofs`, `IncrementalEdgesProofs`, `ArtifactBootstrapProofs`, `CoChangeProofs` | theorems | each extends its module |

Definitions have the names of the functions they model. A definition named
`<function>_<defect>`, or otherwise standing right before the function, is the function with a
plausible bug; `PROJECT.json` says which property catches it.

### FindingRecords

`files`, `session`, `receipt` and `index` are the files of the run directory;
`call` is the call in progress with what it still has to write and the session
it read at its beginning. A call that writes one file is one action, because
`atomic_write` replaces a file by a rename. `extract_finding` is
`extract_source`, `extract_file`, `extract_index`; `refine_finding` is
`refine_file`, `refine_index`; `finalize_verification` is `finalize_receipt`,
`finalize_session`, `upsert_verified_index`. `cut_short` ends a call between two
of its writes: the process dies, or the write fails and the handler returns its
error. `can_transition` is the table of `verification_core.rs`. A digest is
modelled by the transcript that was digested. Times and paths are left out,
except that the index entry tells the extracted, the refined and the blank path
apart.

### GraphHandles

`disk` and `wal` are the database file and the log of each graph: the id of the
database and a version number of the content. `cache` holds a handle's own view,
the fingerprint taken when it was opened and its sequence number; `reader` is the
graph whose cached handle the running request uses; `writer` is the handle of a
write tool. The engine (`lbug`) is external and modelled from how the code uses
it and what its comments have measured: a log is replayed if it carries the id
of the database, an open with a foreign log fails (and
`recover_from_stale_sidecars` moves the log aside), and closing a handle writes
its view into the file. `open_cached_miss` is the whole of `get_with_opener`,
with the entry it replaces and the one it evicts.

### IndexPipeline

`tree` belongs to the user: `edit` may change a file between any two steps of a
call, also to an earlier content, and always gives it a new stamp (mtime and
size). `graph` has for every file its `File` node and the content its symbols were
parsed from, and the marker rows a completed index writes last. `manifest` has
stamps and hashes; `meta` names the manifest it was written for by its identity.
`call.step` follows `do_index_codebase`: incremental if there is a graph and a
manifest (`require_markers`, `discover`, `classify`, `purge_file`,
`reparse_modified_file`, `reparse_new_file`, `save_next_manifest`), the full index
otherwise or after any error (`remove_stale_graph_artifact` ...
`write_full_manifest`), then `write_graph_meta`. `behind` and `quiet` are history
variables for the premises of the properties: the graph was changed since the
manifest was saved; no file was edited during a call or while a call that was cut
short waited to be repaired.

### IncrementalEdges

One level below `IndexPipeline`: the same refresh, with symbols, call sites and rows,
over a tree that stands still while it runs. A content has names it defines and calls, files it
links to, bases it builds on and a gap of its parse. `reopen_sites_resolved_into`,
`snapshot_inbound_edges`, the purge, the reparses, `relink_inbound_edges`, the link passes,
`prune_orphan_directories`, the manifest and `merge_coverage` are steps, and a fault may fall
between any two. `resolve_graph` claims the sites it resolves first and flushes the rows table
by table. A call of a function gets a row from its caller and one from its site; a call of a type
(`TypeNames`: an enum, a trait, an alias) gets the row of its caller only, since the schema has no table
for the other (`call_site_rel_table`, `schema.rs:465`). `relink_inbound_edges` may fail on any of its rows and goes on:
`before.lost` has those it lost. The history variables name what the premises leave out, each a window of the code:

- `unflushed`: `resolve_calls` marks sites resolved before the flush (`resolver/calls.rs:113`); a
  call that stops in between leaves claims without rows, and no later run looks at them again;
- `torn`, `crossed`: a refresh is cut after its purge and the file is then edited, for instance
  back to the content of the manifest, so that the next refresh finds it unchanged;
- `unreported`: a cut between the saves of manifest and coverage leaves a stale gap;
- a site resolved to a type keeps its claim when the type is gone, because nothing withdraws a claim that has no
  row of its own: `stale_sites.rs:20` calls this a "known gap, accepted", and `ClaimsHaveRows` leaves such sites out;
- rows of `Imports_File_*` of a file that is not reparsed stay as they were (outside `before`).

### ArtifactBootstrap

`tree`, `tracked`, `commits` and `git` are the developer's: edits, moves, commits, clones (full,
shallow, without git). `artifact` is the archive with the graph and the manifest in it, and the
commit its sidecar names; export writes them one after the other (`artifact.rs:235`), so that a
commit or a cut in between pairs them wrongly. A call is `do_index_codebase` with its
flags for bootstrap, stale archives and export: import, the comparison of the sidecar's
commit with HEAD, `git diff` parsed by `parse_diff_lines`, purge, reparse, manifest; or the
incremental path, or a full index. Inside a refresh nothing is modelled (see the two modules
before). `call.whole` says that git named every change. `trusted` is a history variable of the local graph, and a
field of every archive, for the premise of `CaughtUp`. It leaves out: a graph unpacked beside the manifest of an older
one, a fill to which `BootstrapFills` does not apply, a fill cut short between purge and save, a fill that
fails after its purge while a file of the tree is not tracked (`Redone` is the opposite), a refresh after a failed fill
that is itself cut short, and archives of such graphs.

### CoChange

The commits form a graph that the developer extends, merges, resets and prunes, between passes
and between a pass's reading of HEAD and its `git log`. `mine` is `start`, `read_commit_files`
(with `range_args` for the full window and for the increment), `accumulate`, `rewrite_edges`,
`save_state`. `Anc`, the history of a commit, is the least set of commits that has it and is closed
under parents. `rewrite_edges` drops all edges and inserts the coupled pairs; an insert that fails is passed over
(`cochange.rs:292`) and the aggregates are saved all the same: `skipped` has what the last rewrite did not get in. `excused` collects what the premises of the properties leave out: a failed
`git log`, which the code reads as an empty one although `last_sha` moves on
(`cochange.rs:321`, `:184`); a reset in between; a commit between the two reads, which is counted
twice.

### LspClient

`client` is the program counter of the thread that runs the pass: initialize,
readiness wait with its acknowledgements, health gate, calls, shutdown, kill.
Every message goes through `drain_pending` and a blocking write; every request is
followed by a read with a deadline. `reader` is the thread that turns the
server's stdout into frames and pushes them into the bounded `queue`. `stdin` and
`stdout` are bounded too. The server may do anything at any time: read, answer
any request it has read, send any frame unasked (its own requests with an id of
ours, statuses, notifications, frames that do not parse, bytes that are no
frame), block in a write, die. Deadlines are modelled by what they allow: a wait
can end at any time. The three outcomes of `give_up` lead to the same calls and
are one. `serial` numbers requests in the model only; on the wire there is the id.
`MCLspClient` lets the server send one frame of each kind.

### LspPass

Takes a request as one step that uses some time and ends in an answer, an error or a timeout.
The graph part is the flag, the rows and the reason of every site; the pass has the
files and sites still to do, the tally and the time elapsed. `lsp_edge` grades a definition
(outside the root, no node, compiled-out twin, added), `insert_lsp_edge` writes the row of the caller and,
where the kind of the target has a table for it (`SiteTable`), the row of the site, of which either may fail
(`row_is_written`), and reasons and marks follow at the end. `linked_to` is a history variable: the target
each site was last resolved to. The readiness wait and the
cross-checks take time too.

### Decisions and reports

`CfgScope`, `RustPaths`, `CallResolution` and `MacroPass` decide something about one site or file;
`GraphDiff`, `Clustering`, `LineHistory`, `QueryPages`, `ImpactReport` and `SearchRanking` compute
an answer of a tool. They have no state. Each module holds the code's algorithm and, under a
heading of its own at the end, a reference that is written from the language or from the promise of the
tool and not from the code: what a build of the workspace compiles, what C linkage and Rust
scoping let a name mean, strongly connected components by reachability, Newman's modularity, the
unpaged answer, the calls a program can make. `MCDecisions` and `MCReports` enumerate small worlds
as initial states; the one step of `MCAnswers` settles the question, and the properties, as action properties
of that step, compare the two on every world.

`CallsLink` covers all C and C++ worlds that `LegalC` accepts, files whose path goes on from the caller's included
(`a.cpp` beside `a.c`). There the resolver, which compares paths as text (`ambiguity_policy.rs:194`, `starts_with`), can take a
function of `a.cpp` for one of `a.c`: the property names that edge (`TakenForOwn`: recorded as `same-file-unique`, to such a
file) as the only kind that the linker would not make; section 7 has the sentence it contradicts.

`ChangedSymbolsAreNamed` asks `detect_changes` that no untouched symbol is named and that every touched one with a `Defines_File`
relation is; a method, which has none, may be named or not. It reads git's paths as the graph's, as the code does: the
indexed directory is the top of the work tree. For `index_history` it may lie anywhere below it (`repo_root_prefix`, `strip_prefix`), and
commits touch files of the same name outside it.

`PagesAreTheAnswer` lets the engine answer every call in another of the statement's `orders`, and all of their combinations are read;
only `ORDER BY` restricts them to those sorted by key. In all of them paging ends after as many rows as the answer has; that these
are every row once, in order, is claimed of pages that say `order_stable`, and under `NoTies`: of rows that sort alike the
engine may still choose the order per call. The statements have one `RETURN`, to which their `ORDER BY` belongs.

Assumptions of these properties, each named where it is used: `LegalC` and `LegalRust` (the world is one
a compiler accepts), `Unambiguous` (no text of a diff looks like a header), `NoTies`, `DeclaredOnce` (no module is declared twice in a file for the same
place), `ScopesAgree` (a name bound by `use` in several scopes of a file means the same in all), globs export no
name of the prelude, `IndexIsCurrent` (the search index is of this graph), cargo metadata was read (for Rust paths).
Without `ScopesAgree` `MacroTargetsAreCalled` is refuted: `original_name` (`scope.rs:107`) takes the first binding of
the file.

## 3. Runs

| run | instance | states | what it shows |
|---|---|---|---|
| `records` | 2 findings, 4 turns, 2 faults | 21 543 | a published finding is backed by a finalized session and its receipt wherever calls were cut short; history is kept; stages do not clobber each other; the records refine the ledger |
| `records_publish` | 1 finding, 1 fault | – | violation, finding 1 below |
| `handles` | 2 graphs, cache of 1, 5 versions, 4 cached opens | 11 251 | no handle is outdated, a writer is alone, and everything together refines `GraphContents` |
| `pipeline` | 2 files, 2 contents, 3 edits, 3 calls, 1 fault | 300 277 | a saved manifest is of the graph, `fresh` over a completed graph is right, a saved graph is that of a full index, every call returns |
| `pipeline_commit` | 1 file, 2 calls, 1 fault | – | violation, finding 2 below |
| `pipeline_edit` | 1 file, 1 call, no fault | – | violation, finding 3 below |
| `lsp` | queue and pipes of 1, 1 call, 4 frames | 375 552 | the inductive invariant of section 5, answers are ours and are not lost, no call after a load error, the pass ends but for the tracked write cycle, the reader stops |
| `lsp_pass` | 3 files, 2 targets (1 with a table for sites), 2 passes, 1 fault, budget of 2 | 990 147 | a mark has the rows of its answer, also after a cut; the counters of a report partition the sites; a reason that says more is not replaced by `external_callee` |
| `edges` | 3 files, 2 edits, 2 refreshes, 2 resolver runs, 1 fault or failed relink | 902 398 | no claim of a function outlives its row, rows from untouched files survive a refresh but for failed inserts, nodes are those of a full index, gaps are current |
| `bootstrap` | 2 paths inside, 1 outside, 2 contents, 2 edits, 2 commits, 2 calls, 1 fault | 1 997 881 | a fill equals a full index; a refresh after a bootstrap, also a failed one, catches up |
| `cochange` | 3 files, 4 commits, 2 passes, 1 reset, 1 fault | 4 208 085 | every due commit is counted, and once, apart from what `excused` names |
| `answers` | 56 380 worlds | 112 760 | the eleven decisions and reports agree with their references |

Bounds. `records`: four turns are two rounds of question and answer, enough for a
session that is finalized, aborted and restarted at different lengths; two faults
let a retry be cut short again. `handles`: with a cache of one, the second graph
evicts the first; five versions are two databases at the same path with commits
each, and a log of the first beside the second. `pipeline`: two files make the
order of purges and reparses matter; three edits are a change, its reversal and
one more; three calls are a build, a call that is cut short and the one that has
to repair it. `lsp`: four frames are what the write cycle needs with buffers of
one (one in the queue, one in the reader, one in the pipe, one in the server);
one call between the handshake and the shutdown makes three requests, so that a
late answer has a later request to be mistaken for. `lsp_pass`: a second pass meets what a first one, cut
short, left behind; a budget of two requests lets one start late. `edges`: three files are a caller, a callee and one that
is linked to; two edits and two refreshes are a cut and its repair, or a file removed and added again; two resolver
runs, one before and one after. `bootstrap`: two commits make an archive stale, a path outside the indexed
directory makes renames across the prefix happen. `cochange`: `MaxFiles` 2 (20 in the code), `MinCochange` 2 (3) and
`MinCoupling` 70 (30 %) put the thresholds where two passes over four commits cross them; one commit ages out of the window.
`answers`: `QUERY_GRAPH_ROW_LIMIT` 4 (500), `MAX_RESPONSE_CHARS` 6 (100 000), `OVERFETCH_FACTOR` 2 (3), `MAX_FETCH_LIMIT` 8
(4000), `K` 2 (60), so that limits, budgets and escalation are met within ten rows; `Unit` is the denominator of ranks;
`U64_MAX` 1000 is where `saturating_add` stops. The theorems of section 5 do not depend on any bound.

`CHECK_DEADLOCK FALSE` is set where a counter of edits, calls or passes runs out (`pipeline*`, `lsp_pass`, `edges`,
`bootstrap`, `cochange`), for `lsp`, where a pass ends, and for `answers`, where one step settles the question.

## 4. Fairness

- `IndexPipeline`: weak fairness of the steps of a call. The handler is
  sequential code without waiting; edits, new calls and faults are not assumed to
  happen.
- `LspClient`: weak fairness of the client thread and of the reader thread. The
  operating system schedules both, and the deadlines of all reads are real because they are on
  the channel (`next_frame`) and not on the pipe. Of the server nothing is assumed.
  `OnlyTheCycleHangs` states its own premise: a server that goes on reading and
  writing.

The other modules have safety properties only.

## 5. Proofs

All theorems hold for every value of the constants; the assumptions on them are
the named `ASSUME`s of the modules (natural bounds; finite sets of graphs, sites and
files; a capacity, a number of edits and a number of commits of at least one; paths not both inside and outside;
thresholds above zero and no empty change; a content that is never the mark of an
absent file; call sites only in contents with a function to hold them; no content whose
own gap is Cargo's). Every inductive invariant `IInv` was checked by TLC on the
instance of its run before it was proved.

`FindingRecordsProofs`. `IInv` adds to `VerifiedEntryIsBacked` what it rests on
(`SessionInv`, `CallInv`): a session that waits for the agent has had a question and an
answer; a finalized session has exactly the receipt that is computed from it; and
a finalize in progress holds the session that is on disk, because no other call runs
before it returns. Without the last, the session written by the second step could be
an old one. `TypeCorrect`, `PublishedIsBacked`, `HistoryIsKept`,
`DownstreamIsKept` and the refinement `RecordsImplementLedger` follow.
`RecordsAlwaysAgree` states `RecordsAgree`, which no run checks: without a fault,
receipt, session and index say the same between calls. Its `AgreeInv` says which of the
three writes of a finalize are done at each of its steps, and that a refined file is in
the index once its call has returned.

`GraphHandlesProofs`. `IInv` adds that ids of files and logs are not newer than the
clock (so a new database gets an id no leftover log carries), that a cached handle has the
fingerprint of the file as it is (so a miss never replaces an open handle), that a
writer's file exists and that the reader's handle is cached. `HandlesStayCurrent`,
`WritersAreAlone` and the refinement `HandlesImplementContents` follow.
`ReaderStaysCached` states `CacheHoldsTheReader`, which no run checks: the cache stays
within its capacity because over capacity there is always an oldest entry (a finite,
non-empty set of numbers has a least one), and it is evicted.

`LspClientProofs`. `AnswerIsOurs` and `AnswerIsNotLost` are not inductive: both
depend on what is in the pipes. `IInv` adds that ids are serial numbers
(`IdInv`: one counter, and only requests take from it), so that a frame with the id of a
request answers that request and no earlier one; that the server knows only requests
that were written (`WrittenInv`), so that what `drain_pending` discards before
the write cannot be the answer; that every frame on its way is true and the reader
holds none while it reads (`FlightInv`); and that the client passes the health
gate once, before its first call (`GateInv`), which also bounds the ids.
`SessionInvariant`, `AnswersAreOurs`, `AnswersAreNotLost` and `GateHolds` follow,
for buffers of any depth, any number of calls and any frames of the server; the proof
needs neither the fairness nor a server that behaves.

`LspPassProofs`. `ResolvedHasRows` is about marks, and marks are set from a list the pass
carries: `IInv` adds that a site in that list has the rows of its answer already (`NewlyResolvedHasRows`),
so that the order of the two writes is what the proof rests on. That a row is there once,
also after a repeated pass, comes from the test for the row before it is inserted. `EveryReportAddsUp` needs the counters at
every step (`CountersCount`: resolved and failed together are the number of answered sites, outside is that of the
outside ids), and that a site is answered or attributed once (`TakenOnce`); `AtMostOneLateRequest` needs that a late
request ends both loops (`LateEndsLoops`). `ResolvedSitesHaveRows` and the action property `AttributionsStay` follow.

`IndexPipelineProofs`. `ManifestIsOfGraph` speaks of finished calls only, and the next call starts
from what a call that was cut short left: `Repairable` says what that may be (a graph with its markers can be refreshed
from the manifest there is: what the manifest does not show to have changed is as in the tree, and every entry
still in the tree has its File node), `FullIndexInv` and `RefreshInv` what a call on its way has done (what is left neither
to purge nor to parse is as in the tree), `DiscoveredInv` that the walk it uses is still right,
and `StampsAreFresh` that a stamp is not given twice, without which an edit could hide behind
equal metadata. `ManifestDescribesGraph`, `FreshReceiptsAreRight` and the action property
`SavedGraphs` follow, for any number of calls, edits and faults.

`IncrementalEdgesProofs` is built in layers, each proved over all actions from the ones
below it. `StructInv`: types, what the change set of a refresh is against manifest and tree, and
that files the manifest does not know have left nothing behind. `ClaimsInv` gives `ClaimsAreBacked`: claims
into files about to be purged are withdrawn first, and what is saved or reopened belongs to files the
refresh leaves alone. `KeepInv` gives `UntouchedRowsSurvive`: every row of the start is in the graph, or in
the saved list until `restore`, or has lost an end, or its insert has failed (`before.lost`), in which case its site
is not restored; it needs that a row into a file that is new and yet in the
graph makes the refresh fall back. `NodesInv` gives `RefreshedNodes`: files outside `torn` have the nodes of
their manifest entry and a torn file differs from its entry, so that the next refresh takes it up. `GapsInv`
gives `SidecarIsCurrent`. `TwiceInv` gives `RowsAreCreatedOnce` (of `NoRowTwice`, stated in the module and in no
run): a changed file has no outgoing row from its purge until its links are created, a new file has left none
behind or the refresh falls back, and a saved row leaves the graph with the purge of its target.

`ArtifactBootstrapProofs`. `UnpackInv` says which of graph, manifest and archive a call has made equal so far;
`FillInv` that what is left of a fill (purge, then reparse) leads to the graph of the tree, for every pair of commits, renames
across the prefix included; `RedoInv` that a fill that stops half way leaves a graph whose manifest names every file in which
it differs from the tree; `TrustInv` and `ArchiveInv` that a trusted graph, here or in any archive of any
commit, is the graph of its manifest. `FillIsFullIndex` and the action property `RefreshCatchesUp` follow. An earlier form of
`CaughtUp` passed its run and could not be proved: with more commits, or with every path inside the indexed directory, there is a
file of the archive's commit that git no longer tracks and that is back with its content, which a failing
fill purges and the refresh then takes for unchanged; and an archive may be exported from an untrusted graph.
`trusted` now says so, and TLC has checked it on a second instance of 12 million states (1 path, 3 commits, 3 calls, 3 edits,
2 faults).

`CoChangeProofs`. Three groups of lemmas: `Anc` (a commit's history contains the histories of its members,
`AncClosed`, and a new commit changes no older history, `AncKept`); `accumulate` (over disjoint logs it adds up exactly,
`ExactJoin`; over any two it covers what is within them, `CoversJoin`), with the maximum of two finite sets; and the two
ranges of `range_args` (`FullLog`, `LogSince`). `IInv` says the same of the aggregates saved and of those a pass is about to
save (`Aggregates`), that a waiting pass still extends the sidecar there is, and that the edges rewritten are those of its
aggregates but for the inserts that failed (`skipped`). `CommitsCountOnce` also needs that what the full pass left out is in the history of the
commit it reached, so that no later range finds it again. `NothingIsMissed`, `CommitsCountOnce` and the action property
`EdgesFollowAggregates` (of `EdgesOfAggregates`, stated in the module and in no run) follow, for any repository and any files,
finite or not.

Only model-checked: liveness (`IndexCallReturns`, `PassEnds`,
`OnlyTheCycleHangs`, `ReaderStops`), because the prover has no rules for fairness; and the decisions and
reports, which use recursive operators. Every other property of a passing run is a theorem.

## 6. Findings

1. `records_publish`. If `finalize_verification` stops after it flipped the session and
   before it wrote the index, the session is terminal and the finding is never
   published: calling it again returns `already_finalized`. The comment on
   `persist_finalize` considers only the window before the flip. (If it stops before the flip, the receipt
   stays while the session goes on; the index does not publish such a receipt, `VerifiedEntryIsBacked`.)
2. `pipeline_commit`. A full index that stops while it rebuilds leaves the
   sidecars of the previous graph. They agree with each other and with the tree, so the receipt says `fresh` over
   a partial graph. The next `index_codebase` notices (markers), a read tool does not.
3. `pipeline_edit`. The manifest of a full index is taken from a second walk. A file edited
   between its parse and that walk is recorded as indexed with its new state: the
   receipt says `fresh`, and the next incremental call skips the file.

## 7. Where code and comments differ

Met while modelling. The models follow the code; each of the first six is stated as a property next to the others of
its module, is not part of a run, and TLC refutes it when it is added to the module's configuration.

| property | the code | what is said |
|---|---|---|
| `LspPass!BudgetHolds` | the readiness wait, every request and the shutdown get the whole timeout (`lsp_resolver.rs:126`) | "Total timeout in milliseconds for LSP resolution" (`tool_schemas_graph_analysis.rs:147`) |
| `IncrementalEdges!LinksOfTree` | the link passes run over the reparsed files only (`incremental/mod.rs:334`), so an unchanged file is not linked to one that was added | "the graph equals what a full index ... would produce" (`incremental/mod.rs:142`) |
| `ArtifactBootstrap!FillEqualsFullIndex` | a rename whose new path is outside the prefix returns before the old path is purged (`bootstrap.rs:315`); untracked files are listed under the prefix only (`:258`) | "the graph equals what a full index of the current tree would produce" (`bootstrap.rs:42`) |
| `MCDecisions!InactiveIsOff` | of two items that declare the same module in the same place only the gates of one are read (`file_scope.rs:75`, `seen`) | the verdict is `inactive` "when every path to it is compiled out", `active` "when one path holds" (`file_scope.rs:19`) |
| `MCDecisions!SameFileEdges` | a candidate counts as of the caller's file when its name starts with that file's path, so that `a.cpp` passes for `a.c` (`ambiguity_policy.rs:194`) | "defined in the caller's own file" (`ambiguity_policy.rs:69`) |
| `MCReports!TouchedSymbolsAreNamed` | there is no `Defines_File_Method` table (`schema.rs:151`), so `detect_changes` never names a method (`git_diff.rs:195`) | the header of the file (`git_diff.rs:7`), and `Method` in the label list (`:181`) |

Further, without a property of their own:

- `describes_manifest` (`graph_freshness.rs:66`) says that a sidecar without an identity pairs by default; the code
  below it explains why it does not.
- A `git diff` that fails after `cat-file` succeeded leaves an empty change set, and the fill reports success
  (`bootstrap.rs:234`). A fill that fails after its purge falls back to `try_incremental_index`, whose manifest, if the
  archive was made from a dirty tree, or the file is no longer tracked and has its old content, calls the purged file
  unchanged (`history_handlers.rs:224`), although the message says that it falls back to a full index (`:379`).
- HEAD is read before `git log` resolves it again, so a commit in between is mined twice (`cochange.rs:147`, `:164`);
  after a reset the last commit may not be in the history of HEAD although the module calls it append-only (`:24`); an
  incremental pass keeps commits that have left the window.
- A caller in a compiled-out file that is reached in two ways has no gate of its own, so the profile pins its call
  although `cfg_verdict.rs:20` says it must not.
- `reexport.rs` follows globs even where the module defines the name itself.
- Breaking a cycle into a smaller one counts as a new cycle, and a single new cycle (0.5) is still "clean"
  (`semantic_diff.rs`).
- `compute_modularity` sums over adjacency entries only, which is not Newman's modularity, and is taken before the repair
  (`community_louvain.rs:168`).
- A deleted line that starts with `--`, or a `\ No newline` note, shifts the line counter (`git_diff.rs:142`);
  `Unambiguous` excludes both. `index_history` writes commits before a diff it refuses fails the call, and gives versions
  of old commits today's line ranges.
- `git_diff` looks a file up by the path git gives it; `git diff` run in a directory below the top of the work tree
  (`git_diff.rs:340`) names files from the top, so that `detect_changes` finds none of them, where `index_history` strips the
  prefix (`history/mod.rs:240`).
- `order_stable` says that an `ORDER BY` occurs, also one of a `WITH` before the last `RETURN` or one whose keys have ties
  (`query_handlers.rs:433`); the rows of two pages may then still change places.
- `import_matches` compares text (`ambiguity_policy.rs:264`) although its comment says "path-segment suffix" (`:257`); `ends_with` of
  `CallResolution` follows the code.
- `load_existing_edges` skips a table whose query fails (`resolver/mod.rs:399`), so that a resolver run could create its rows
  again; `NoRowTwice` is about queries that succeed.
- A failed query for open sites counts as none (`impact_reasons.rs:77`), although `coverage_evidence.rs:53` says that
  "exact" must not rest on absence.
- With `min_score` 0.01 a hit of one retriever only passes up to rank 40, so that limits above 20 may return fewer rows;
  `index_codebase` does not rebuild the search index, and a stale one can withhold hits.

## 8. Hazards

`PROJECT.json` lists them with the line where each bites and the properties that
cover it. Those without a property are a second server process on the same
output directory, an import beside a log left by a crash, the total budget of the language server pass (refuted, section 7)
and the order of the phases of `analyze_codebase`.

## 9. Plan

Done: the modules of section 2.

Next, in this order:

1. `AnalyzePhases`: the phases of `analyze_codebase` and what each failure leaves behind; composes the pass, the pipeline
   and the handles.
2. Import composed with the log of `GraphHandles`.
3. A refinement from `IncrementalEdges` to the node level of `IndexPipeline`.

Not modelled: parsers and language providers (syntax trees of many languages to symbols, no state: the parse of
a file is a value); BM25 and TF-IDF scores (the retrievers are arbitrary rankings); texts (schemas, prompts,
requirement documents, security gates, CLI); the insides of git, Cargo and the database engine (external);
`crates/zera` (a wire protocol used by a test only). Of the modelled components: the Cypher texts, wording of errors, time
stamps in records, the listing of communities, trait dispatch and the fuzzy candidates of the resolver.
