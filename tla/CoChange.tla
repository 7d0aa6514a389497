------------------------------ MODULE CoChange ------------------------------
(***************************************************************************)
(* Temporal coupling mined from git (cochange::mine, called through        *)
(* history_handlers::run_cochange at the end of an index call).            *)
(*                                                                         *)
(* The repository is a graph of commits that a developer extends, merges,  *)
(* resets and prunes while a call is under way.  A mining pass reads HEAD, *)
(* then asks git log for the commits, accumulates their files, rewrites    *)
(* the FILE_CHANGES_WITH edges and at last saves the sidecar; it may fail  *)
(* or be killed between any two of these.                                  *)
(***************************************************************************)
EXTENDS Naturals, FiniteSets, FiniteSetsExt

CONSTANTS
    Files,         \* the files below the indexed root
    Changes,       \* the sets of files a commit may change, files outside the root too
    Trees,         \* the sets of files an index call may find
    MaxFiles,      \* MAX_FILES_PER_COMMIT
    MinCochange,   \* MIN_COCHANGE
    MinCoupling,   \* MIN_COUPLING, in percent
    MaxCommits,    \* bound: commits of the repository
    MaxMoves,      \* bound: checkouts and resets
    MaxAge,        \* bound: commits that leave the window
    MaxMines,      \* bound: index calls
    MaxFaults      \* bound: failures and kills

ASSUME BoundsAssumption ==
    /\ Trees \subseteq SUBSET Files /\ {} \notin Changes
    /\ {MaxFiles, MinCochange, MinCoupling, MaxCommits, MaxMoves, MaxAge, MaxMines, MaxFaults} \subseteq Nat
    /\ MinCochange > 0 /\ MaxFiles > 0

VARIABLES
    parents,    \* commit -> its parents; commits are numbered in time order
    touched,    \* commit -> the files it changes
    objects,    \* the commits git still stores
    head,       \* the commit HEAD names, 0 before the first
    old,        \* commits up to this one are out of the one-year window
    graph,      \* the File nodes of the graph
    edges,      \* the FILE_CHANGES_WITH edges
    sidecar,    \* cochange.json: [last_sha, file_changes, pairs], or NoState
    pass,       \* the mining pass under way, or Idle
    moves, mines, faults,
    forgotten,  \* ghost: commits out of the window of the last full mining
    excused,    \* ghost: what happened to git under a pass that was saved
    skipped     \* ghost: edges of the pass under way that the store refused

vars == <<parents, touched, objects, head, old, graph, edges, sidecar, pass, moves, mines, faults, forgotten, excused, skipped>>
repository == <<parents, touched, objects, head, old, moves>>

Commits == DOMAIN parents
NoState == [last_sha |-> 0]
Idle == [at |-> "idle"]
Pair == {p \in SUBSET Files : Cardinality(p) = 2}

\* The commits reachable from c, itself included: what is in every set of earlier
\* commits that has c and the parents of its members.  Commit 0 is none.
Anc(c) ==
    LET closed == {S \in SUBSET (1 .. c) : c \in S /\ \A d \in S : parents[d] \subseteq S}
    IN {d \in 1 .. c : \A S \in closed : d \in S}

(***************************************************************************)
(* git, as the pass sees it.                                               *)
(***************************************************************************)
\* --no-merges --name-only: one entry per commit with a file below the root.
CommitFiles(c) == touched[c] \cap Files
read_commit_files(range) ==
    [c \in {d \in range : Cardinality(parents[d]) < 2 /\ CommitFiles(d) # {}} |-> CommitFiles(c)]

git_known(sha) == sha \in objects

range_args_since(full, last) == {c \in Anc(head) : c > (IF full THEN old ELSE last)}
range_args_window(full, last) == {c \in Anc(head) : c > old}

\* <last_sha>..HEAD, or the window.
range_args(full, last) ==
    IF full THEN {c \in Anc(head) : c > old} ELSE Anc(head) \ Anc(last)

(***************************************************************************)
(* The aggregates.                                                         *)
(***************************************************************************)
NewState == [last_sha |-> 0,
             file_changes |-> [f \in Files |-> 0],
             pairs |-> [p \in Pair |-> [count |-> 0, last_ts |-> 0]]]

\* commits: commit -> its files.
accumulate(state, commits) ==
    LET small == {c \in DOMAIN commits : Cardinality(commits[c]) <= MaxFiles}
        of(p) == {c \in small : p \subseteq commits[c]}
    IN [last_sha |-> state.last_sha,
        file_changes |-> [f \in Files |-> state.file_changes[f] + Cardinality({c \in small : f \in commits[c]})],
        pairs |-> [p \in Pair |-> [count |-> state.pairs[p].count + Cardinality(of(p)),
                                   last_ts |-> Max({state.pairs[p].last_ts} \cup of(p))]]]

\* The edges of the pairs over the thresholds, both files in the graph.
coupled(state, files) ==
    LET changes(p) == {state.file_changes[f] : f \in p}
        support(p) == Min(changes(p))
    IN {[pair |-> p, agg |-> state.pairs[p], support |-> support(p)] :
            p \in {q \in Pair :
                     /\ q \subseteq files
                     /\ state.pairs[q].count >= MinCochange
                     /\ support(q) > 0
                     /\ 100 * state.pairs[q].count >= MinCoupling * support(q)}}

(***************************************************************************)
(* The developer.                                                          *)
(***************************************************************************)
Next1 == Cardinality(Commits) + 1
Extend(ps, fs) ==
    /\ Next1 <= MaxCommits
    /\ parents' = [c \in Commits \cup {Next1} |-> IF c = Next1 THEN ps ELSE parents[c]]
    /\ touched' = [c \in Commits \cup {Next1} |-> IF c = Next1 THEN fs ELSE touched[c]]
    /\ objects' = objects \cup {Next1}
    /\ head' = Next1
    /\ UNCHANGED <<old, graph, edges, sidecar, pass, moves, mines, faults, forgotten, excused, skipped>>

Commit(fs) == Extend(IF head = 0 THEN {} ELSE {head}, fs)

Merge(c) ==
    /\ c \in objects /\ head # 0
    /\ Extend({head, c}, {})
    /\ c \notin Anc(head) /\ head \notin Anc(c)

\* A checkout, a reset, or the start of a rebase.
Checkout(c) ==
    /\ c \in objects /\ c # head /\ moves < MaxMoves
    /\ moves' = moves + 1
    /\ head' = c
    /\ UNCHANGED <<parents, touched, objects, old, graph, edges, sidecar, pass, mines, faults, forgotten, excused, skipped>>

\* git gc drops what HEAD no longer reaches.
Prune ==
    /\ objects # Anc(head)
    /\ objects' = Anc(head)
    /\ UNCHANGED <<parents, touched, head, old, graph, edges, sidecar, pass, moves, mines, faults, forgotten, excused, skipped>>

\* Between calls, another commit leaves the window.
Age ==
    /\ pass = Idle
    /\ old < Min({MaxAge, Cardinality(Commits)})
    /\ old' = old + 1
    /\ UNCHANGED <<parents, touched, objects, head, graph, edges, sidecar, pass, moves, mines, faults, forgotten, excused, skipped>>

(***************************************************************************)
(* run_cochange and mine.                                                  *)
(***************************************************************************)
\* An index call leaves the File nodes fs; the files it parses again lose their
\* edges, and a full call starts from an empty graph.
Index(full, fs) ==
    /\ pass = Idle /\ mines < MaxMines
    /\ mines' = mines + 1
    /\ graph' = fs
    /\ IF full THEN edges' = {} ELSE edges' \in SUBSET {e \in edges : e.pair \subseteq fs}
    /\ pass' = [at |-> "head", full |-> full]
    /\ UNCHANGED <<repository, sidecar, faults, forgotten, excused, skipped>>

\* git_head and the choice of the range; no commit, no git tree: Ok(None).
ReadHead ==
    LET usable == ~pass.full /\ sidecar # NoState /\ git_known(sidecar.last_sha)
    IN /\ pass.at = "head"
       /\ pass' = IF head = 0 THEN Idle
                  ELSE [at |-> "log", full |-> ~usable, head |-> head,
                        state |-> IF usable THEN sidecar ELSE NewState, excused |-> IF usable THEN excused ELSE {}]
       /\ UNCHANGED <<repository, graph, edges, sidecar, mines, faults, forgotten, excused, skipped>>

\* git log resolves HEAD again; its failure is read as an empty range.
ReadLog(fails) ==
    LET range == range_args(pass.full, pass.state.last_sha)
        commits == read_commit_files(IF fails THEN {} ELSE range)
        odd == (IF fails THEN {"log"} ELSE {})
               \cup (IF head # pass.head THEN {"race"} ELSE {})
               \cup (IF pass.head \notin Anc(head) THEN {"reset"} ELSE {})
               \cup (IF ~pass.full /\ pass.state.last_sha \notin Anc(head) THEN {"rewrite"} ELSE {})
    IN /\ pass.at = "log"
       /\ faults + (IF fails THEN 1 ELSE 0) <= MaxFaults
       /\ faults' = faults + (IF fails THEN 1 ELSE 0)
       /\ pass' = [at |-> "rewrite", forgotten |-> IF pass.full THEN Anc(pass.head) \cap 1 .. old ELSE forgotten,
                   excused |-> pass.excused \cup odd,
                   state |-> [accumulate(pass.state, commits) EXCEPT !.last_sha = pass.head]]
       /\ UNCHANGED <<repository, graph, edges, sidecar, mines, forgotten, excused, skipped>>

\* Drops every edge, then inserts the edges pair by pair; an insert that fails
\* is logged and passed over.
rewrite_edges ==
    /\ pass.at = "rewrite"
    /\ skipped' \in SUBSET coupled(pass.state, graph)
    /\ edges' = coupled(pass.state, graph) \ skipped'
    /\ faults' = faults + (IF skipped' = {} THEN 0 ELSE 1)
    /\ faults' <= MaxFaults
    /\ pass' = [pass EXCEPT !.at = "save"]
    /\ UNCHANGED <<repository, graph, sidecar, mines, forgotten, excused>>

save_state ==
    /\ pass.at = "save"
    /\ sidecar' = pass.state
    /\ forgotten' = pass.forgotten
    /\ excused' = pass.excused
    /\ pass' = Idle /\ skipped' = {}
    /\ UNCHANGED <<repository, graph, edges, mines, faults>>

\* The call fails or the process is killed: what is on disk stays; in the midst
\* of the rewriting, that is some of the new edges.
Abort ==
    /\ pass # Idle /\ faults < MaxFaults
    /\ faults' = faults + 1
    /\ pass' = Idle /\ skipped' = {}
    /\ \/ UNCHANGED edges
       \/ pass.at = "rewrite" /\ edges' \in SUBSET coupled(pass.state, graph)
    /\ UNCHANGED <<repository, graph, sidecar, mines, forgotten, excused>>

Init ==
    /\ parents = [c \in {} |-> {}] /\ touched = [c \in {} |-> {}]
    /\ objects = {} /\ head = 0 /\ old = 0
    /\ graph = {} /\ edges = {} /\ sidecar = NoState /\ pass = Idle
    /\ moves = 0 /\ mines = 0 /\ faults = 0 /\ forgotten = {} /\ excused = {} /\ skipped = {}

\* Elsewhere in a pass git is not read, and the steps commute.
Developer ==
    /\ pass.at \in {"idle", "log"}
    /\ \/ \E fs \in Changes : Commit(fs)
       \/ \E c \in Commits : Merge(c) \/ Checkout(c)
       \/ Prune
       \/ Age

Mine ==
    \/ \E full \in BOOLEAN, fs \in Trees : Index(full, fs)
    \/ ReadHead
    \/ \E fails \in BOOLEAN : ReadLog(fails)
    \/ rewrite_edges
    \/ save_state
    \/ Abort

Next == Developer \/ Mine

Spec == Init /\ [][Next]_vars

(***************************************************************************)
(* Properties.                                                             *)
(***************************************************************************)
\* What aggregates up to sha should hold: its history once over, but for what was
\* out of the window.
Due(sha, past) == read_commit_files(Anc(sha) \ past)

\* The aggregates count every commit of the log at least once, or all exactly once.
Covers(state, log) ==
    LET due == accumulate(NewState, log) IN
    /\ \A f \in Files : state.file_changes[f] >= due.file_changes[f]
    /\ \A p \in Pair : state.pairs[p].count >= due.pairs[p].count
                       /\ state.pairs[p].last_ts >= due.pairs[p].last_ts
Exact(state, log) ==
    LET due == accumulate(NewState, log) IN
    state.file_changes = due.file_changes /\ state.pairs = due.pairs

\* NothingMissed: the aggregates count every commit up to last_sha that the
\* last full mining had in its window, whatever merges, resets and commits
\* came between the passes and whatever was committed during one; only what a
\* failed git log, or a reset between the two reads, hides is missing.
\* The pass notes HEAD before it reads the log, so a commit that lands in
\* between is read twice and never lost.
NothingMissed ==
    sidecar # NoState /\ excused \cap {"log", "reset"} = {} =>
        Covers(sidecar, Due(sidecar.last_sha, forgotten))

\* CountedOnce: extending the aggregates pass by pass gives what one pass over
\* the whole history gives, no commit twice, if no commit landed during a pass
\* and each pass found its last commit in the history of HEAD, merges included.
CountedOnce ==
    sidecar # NoState /\ excused = {} => Exact(sidecar, Due(sidecar.last_sha, forgotten))

\* EdgesOfAggregates: when a pass saves, every edge of the graph is one of the
\* saved aggregates over the thresholds, none is left from an earlier pass, and
\* those missing are the ones whose insert failed in this very pass: a pass
\* that saves repairs what an earlier one skipped.
EdgesOfAggregates ==
    [][sidecar' # sidecar => edges' = coupled(sidecar', graph') \ skipped]_vars

(***************************************************************************)
(* The inductive invariant.                                                *)
(***************************************************************************)
Odd == {"log", "race", "reset", "rewrite"}
State == [last_sha : {0} \cup Commits, file_changes : [Files -> Nat],
          pairs : [Pair -> [count : Nat, last_ts : Nat]]]

\* A commit is later than its parents.
RepositoryOK ==
    /\ Cardinality(Commits) \in 0 .. MaxCommits /\ Commits = 1 .. Cardinality(Commits)
    /\ parents \in [Commits -> SUBSET Commits] /\ touched \in [Commits -> Changes \cup {{}}]
    /\ \A c \in Commits : parents[c] \subseteq 1 .. (c - 1)
    /\ objects \subseteq Commits /\ head \in {0} \cup Commits /\ old \in Nat

PassOK ==
    pass \in {Idle} \cup [at : {"head"}, full : BOOLEAN]
        \cup [at : {"log"}, full : BOOLEAN, head : Commits, state : State, excused : SUBSET Odd]
        \cup [at : {"rewrite", "save"}, forgotten : SUBSET Commits, excused : SUBSET Odd, state : State]

\* The types of the repository, the sidecar and the pass.
TypeOK ==
    /\ RepositoryOK /\ PassOK
    /\ graph \subseteq Files
    /\ sidecar \in {NoState} \cup State /\ forgotten \subseteq Commits /\ excused \subseteq Odd
    /\ moves \in 0 .. MaxMoves /\ mines \in 0 .. MaxMines /\ faults \in 0 .. MaxFaults

\* What is said of the aggregates, saved or about to be.  What was out of the
\* window is in the history of the commit they reach, so that no later pass
\* finds it again.
Aggregates(state, past, odd) ==
    /\ state.last_sha \in Commits
    /\ odd \cap {"log", "reset"} = {} => Covers(state, Due(state.last_sha, past))
    /\ odd = {} => /\ past \subseteq Anc(state.last_sha)
                   /\ Exact(state, Due(state.last_sha, past))

\* A pass extends the sidecar or starts afresh, and its edges are those of its
\* aggregates that the store took.
PassInv ==
    /\ pass.at = "log" =>
         IF pass.full THEN pass.state = NewState /\ pass.excused = {}
         ELSE sidecar # NoState /\ pass.state = sidecar /\ pass.excused = excused
    /\ pass.at \in {"rewrite", "save"} => Aggregates(pass.state, pass.forgotten, pass.excused)
    /\ pass.at = "save" => edges = coupled(pass.state, graph) \ skipped

IInv ==
    /\ TypeOK /\ PassInv
    /\ sidecar # NoState => Aggregates(sidecar, forgotten, excused)
=============================================================================
