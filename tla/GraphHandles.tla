---------------------------- MODULE GraphHandles ----------------------------
(***************************************************************************)
(* Who holds a graph open.  The embedded database (lbug) is opened by path; *)
(* a handle has its own view of the content, and closing it checkpoints     *)
(* that view into the database file, whatever happened to the file since.   *)
(* Read tools share the handles of graph_cache, which stay open between     *)
(* requests; write tools open a handle of their own.  So graph_store makes  *)
(* the cache let go of a graph before the graph is opened for writing,      *)
(* replaced or removed, and refuses while the running request still uses    *)
(* the cached handle.                                                       *)
(*                                                                         *)
(* The server runs one request at a time on one thread.                    *)
(***************************************************************************)
EXTENDS Naturals, FiniteSets

CONSTANTS Graphs,
          NoGraph,          \* no graph: the request holds no cached handle
          MAX_CACHED_GRAPHS,
          MaxVersions,      \* bound: contents ever written
          MaxOpens          \* bound: handles the cache ever opened

ASSUME HandlesAssumption ==
    /\ NoGraph \notin Graphs
    /\ IsFiniteSet(Graphs)
    /\ MAX_CACHED_GRAPHS \in Nat \ {0}
    /\ MaxVersions \in Nat
    /\ MaxOpens \in Nat

VARIABLES disk,         \* graph -> the database file at its path
          wal,          \* graph -> the write-ahead log beside it
          cache,        \* graph -> the cache's entry
          reader,       \* the graph whose cached handle the request uses
          writer,       \* the handle a write tool holds
          clock,        \* contents written so far
          next_seq      \* GraphCache::next_seq

vars == <<disk, wal, cache, reader, writer, clock, next_seq>>

-----------------------------------------------------------------------------
(* The database.  A file or a log carries the id of its database and the   *)
(* version of its content; id 0 is no file.                                *)

Image == [id : Nat, ver : Nat]
Absent == [id |-> 0, ver |-> 0]

\* The log is replayed if it carries the id of the database.  With a foreign
\* id the open fails, recover_from_stale_sidecars moves the log aside, and the
\* second attempt opens the file alone.
replays(file, log) == log # Absent /\ log.id = file.id
Recovered(g) == IF replays(disk[g], wal[g]) THEN wal[g] ELSE disk[g]
recover_from_stale_sidecars(file, log) == IF replays(file, log) THEN log ELSE Absent

\* ~Database: the handle's own view becomes the file, and the log is done.
\* A handle whose file was unlinked writes into nothing.
closed_file(file, h) == IF file = Absent THEN file ELSE [id |-> h.id, ver |-> h.ver]

NoWriter == [g |-> NoGraph, id |-> 0, ver |-> 0]
Writers == [g : Graphs \cup {NoGraph}, id : Nat, ver : Nat]

CacheEntry ==
    [open : BOOLEAN, id : Nat, ver : Nat, fingerprint : Image, opened_seq : Nat]
NoHandle ==
    [open |-> FALSE, id |-> 0, ver |-> 0, fingerprint |-> Absent, opened_seq |-> 0]

-----------------------------------------------------------------------------
(* The release hook: what closing the cached handle of g leaves behind.    *)

release_refused(g) == cache[g].open /\ reader = g
file_after_release(g) == IF cache[g].open THEN closed_file(disk[g], cache[g]) ELSE disk[g]
log_after_release(g) == IF cache[g].open THEN Absent ELSE wal[g]

-----------------------------------------------------------------------------
(* Reading.                                                                *)

\* A hit needs the fingerprint (newest mtime, total size) of the file to be
\* the one taken when the cached handle was opened.
hit(g) == cache[g].open /\ cache[g].fingerprint = disk[g]

open_cached_hit(g) ==
    /\ reader = NoGraph /\ writer = NoWriter
    /\ disk[g] # Absent                          \* the tools check that it exists
    /\ hit(g)
    /\ reader' = g
    /\ UNCHANGED <<disk, wal, cache, writer, clock, next_seq>>

\* The entry with the smallest opened_seq goes when the cache is over capacity.
oldest(entries, v) ==
    /\ entries[v].open
    /\ \A h \in Graphs : entries[h].open => entries[v].opened_seq <= entries[h].opened_seq
evict_if_over_capacity(entries) ==
    {v \in Graphs :
        /\ Cardinality({h \in Graphs : entries[h].open}) > MAX_CACHED_GRAPHS
        /\ oldest(entries, v)}

\* A miss opens the graph, puts the handle into the cache (which closes the
\* one it replaces) and closes the handle it evicts.
open_cached_miss(g) ==
    /\ reader = NoGraph /\ writer = NoWriter
    /\ disk[g] # Absent
    /\ ~hit(g)
    /\ next_seq < MaxOpens
    /\ LET opened == Recovered(g)
           file == file_after_release(g)
           entries == [cache EXCEPT ![g] =
                          [open |-> TRUE, id |-> opened.id, ver |-> opened.ver,
                           fingerprint |-> disk[g], opened_seq |-> next_seq]]
           victims == evict_if_over_capacity(entries)
       IN  /\ disk' = [h \in Graphs |->
                          IF h = g THEN file
                          ELSE IF h \in victims THEN closed_file(disk[h], cache[h]) ELSE disk[h]]
           /\ wal' = [h \in Graphs |->
                          IF h = g THEN IF cache[g].open THEN Absent
                                        ELSE recover_from_stale_sidecars(disk[g], wal[g])
                          ELSE IF h \in victims THEN Absent ELSE wal[h]]
           /\ cache' = [h \in Graphs |-> IF h \in victims THEN NoHandle ELSE entries[h]]
    /\ reader' = g
    /\ next_seq' = next_seq + 1
    /\ UNCHANGED <<writer, clock>>

\* The request returns; the handle stays in the cache.
end_read ==
    /\ reader # NoGraph
    /\ reader' = NoGraph
    /\ UNCHANGED <<disk, wal, cache, writer, clock, next_seq>>

-----------------------------------------------------------------------------
(* Writing.                                                                *)

\* GraphStore::open_or_create of a graph that exists ...
open_existing(g, file, log) ==
    /\ file # Absent
    /\ LET opened == IF replays(file, log) THEN log ELSE file
       IN  writer' = [g |-> g, id |-> opened.id, ver |-> opened.ver]
    /\ disk' = [disk EXCEPT ![g] = file]
    /\ wal' = [wal EXCEPT ![g] = recover_from_stale_sidecars(file, log)]
    /\ UNCHANGED clock
\* ... and of one that does not: the new database has an id of its own.
create_new(g, file) ==
    /\ file = Absent
    /\ clock < MaxVersions
    /\ clock' = clock + 1
    /\ writer' = [g |-> g, id |-> clock + 1, ver |-> clock + 1]
    /\ disk' = [disk EXCEPT ![g] = [id |-> clock + 1, ver |-> clock + 1]]
    /\ wal' = [wal EXCEPT ![g] = Absent]

open_or_create_unreleased(g) ==
    /\ writer = NoWriter
    /\ open_existing(g, disk[g], wal[g]) \/ create_new(g, disk[g])
    /\ UNCHANGED <<cache, reader, next_seq>>
open_or_create_unguarded(g) ==
    /\ writer = NoWriter
    /\ \/ open_existing(g, file_after_release(g), log_after_release(g))
       \/ create_new(g, file_after_release(g))
    /\ cache' = [cache EXCEPT ![g] = NoHandle]
    /\ UNCHANGED <<reader, next_seq>>
open_or_create(g) ==
    /\ writer = NoWriter
    /\ ~release_refused(g)
    /\ \/ open_existing(g, file_after_release(g), log_after_release(g))
       \/ create_new(g, file_after_release(g))
    /\ cache' = [cache EXCEPT ![g] = NoHandle]
    /\ UNCHANGED <<reader, next_seq>>

\* A statement of the write tool commits: into the log.
commit ==
    /\ writer # NoWriter
    /\ clock < MaxVersions
    /\ clock' = clock + 1
    /\ writer' = [writer EXCEPT !.ver = clock + 1]
    /\ wal' = [wal EXCEPT ![writer.g] = [id |-> writer.id, ver |-> clock + 1]]
    /\ UNCHANGED <<disk, cache, reader, next_seq>>

\* The database checkpoints when the log has grown, and when it is closed.
write_back ==
    /\ disk' = [disk EXCEPT ![writer.g] = closed_file(@, writer)]
    /\ wal' = [wal EXCEPT ![writer.g] = Absent]
checkpoint ==
    /\ writer # NoWriter
    /\ wal[writer.g] # Absent
    /\ write_back
    /\ UNCHANGED <<cache, reader, writer, clock, next_seq>>
close_writer ==
    /\ writer # NoWriter
    /\ write_back
    /\ writer' = NoWriter
    /\ UNCHANGED <<cache, reader, clock, next_seq>>

\* Removes the database file; a log left by a crash stays where it is.
remove_stale_graph_artifact(g) ==
    /\ writer = NoWriter
    /\ ~release_refused(g)
    /\ disk[g] # Absent
    /\ disk' = [disk EXCEPT ![g] = Absent]
    /\ wal' = [wal EXCEPT ![g] = log_after_release(g)]
    /\ cache' = [cache EXCEPT ![g] = NoHandle]
    /\ UNCHANGED <<reader, writer, clock, next_seq>>

-----------------------------------------------------------------------------
(* The end of the process: stdin closes and every cached handle is closed  *)
(* with the thread, or the process dies and nothing is.                    *)

exit ==
    /\ reader = NoGraph /\ writer = NoWriter
    /\ disk' = [g \in Graphs |-> file_after_release(g)]
    /\ wal' = [g \in Graphs |-> log_after_release(g)]
    /\ cache' = [g \in Graphs |-> NoHandle]
    /\ UNCHANGED <<reader, writer, clock, next_seq>>

crash ==
    /\ reader' = NoGraph
    /\ writer' = NoWriter
    /\ cache' = [g \in Graphs |-> NoHandle]
    /\ UNCHANGED <<disk, wal, clock, next_seq>>

Init ==
    /\ disk = [g \in Graphs |-> Absent]
    /\ wal = [g \in Graphs |-> Absent]
    /\ cache = [g \in Graphs |-> NoHandle]
    /\ reader = NoGraph
    /\ writer = NoWriter
    /\ clock = 0
    /\ next_seq = 0

Next ==
    \/ \E g \in Graphs :
          \/ open_cached_hit(g)
          \/ open_cached_miss(g)
          \/ open_or_create(g)
          \/ remove_stale_graph_artifact(g)
    \/ end_read
    \/ commit
    \/ checkpoint
    \/ close_writer
    \/ exit
    \/ crash

Spec == Init /\ [][Next]_vars
-----------------------------------------------------------------------------
(* Properties.                                                             *)

\* Every variable keeps its type.
TypeOK ==
    /\ disk \in [Graphs -> Image]
    /\ wal \in [Graphs -> Image]
    /\ cache \in [Graphs -> CacheEntry]
    /\ reader \in Graphs \cup {NoGraph}
    /\ writer \in Writers
    /\ clock \in 0 .. MaxVersions
    /\ next_seq \in 0 .. MaxOpens

\* Every handle that is open, cached or a write tool's, shows the content a
\* fresh open would show: a read never answers from before the last commit,
\* and no handle is left whose close would put older content back.
HandlesAreCurrent ==
    /\ \A g \in Graphs :
          cache[g].open => Recovered(g) = [id |-> cache[g].id, ver |-> cache[g].ver]
    /\ writer # NoWriter => Recovered(writer.g) = [id |-> writer.id, ver |-> writer.ver]

\* The rule of graph_store::handles: while a write tool has a graph open, the
\* cache holds no handle of it and the running request uses none.
OneHandlePerGraph ==
    writer # NoWriter => ~cache[writer.g].open /\ reader # writer.g

\* The handle that a running request reads through stays in the cache until
\* the request ends, whatever is opened or evicted, and the cache never holds
\* more than its capacity.
CacheHoldsTheReader ==
    /\ reader # NoGraph => cache[reader].open
    /\ Cardinality({g \in Graphs : cache[g].open}) <= MAX_CACHED_GRAPHS

\* What makes them inductive: a log is never newer than the clock, an absent
\* file leaves only logs that a later database cannot mistake for its own, a
\* cached handle keeps the fingerprint of its file, and entries are ordered
\* by the sequence numbers already given out.
DiskInv ==
    \A g \in Graphs :
        /\ disk[g].id <= clock /\ wal[g].id <= clock
        /\ disk[g].id = 0 => disk[g] = Absent
        /\ wal[g].id = 0 => wal[g] = Absent
CacheInv ==
    \A g \in Graphs :
        /\ cache[g].open => /\ disk[g] # Absent
                            /\ cache[g].fingerprint = disk[g]
                            /\ cache[g].opened_seq < next_seq
WriterInv ==
    /\ writer.g = NoGraph => writer = NoWriter
    /\ writer # NoWriter => disk[writer.g] # Absent
ReaderInv == reader # NoGraph => cache[reader].open
IInv == TypeOK /\ DiskInv /\ CacheInv /\ WriterInv /\ ReaderInv
             /\ HandlesAreCurrent /\ OneHandlePerGraph

\* The files implement the contents the tools assume.
contents == [g \in Graphs |-> Recovered(g)]
Contents == INSTANCE GraphContents WITH content <- contents, last <- clock
ImplementsContents == Contents!Spec
=============================================================================
