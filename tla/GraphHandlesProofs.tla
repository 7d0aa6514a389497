------------------------- MODULE GraphHandlesProofs -------------------------
(* The rule of graph_store::handles keeps every handle current, for any     *)
(* number of graphs, capacity of the cache and number of writes.            *)
EXTENDS GraphHandles, FiniteSetTheorems, WellFoundedInduction, TLAPS

\* Closing a handle that shows what a fresh open would show changes nothing
\* for the next one to open the graph.
LEMMA CurrentClose ==
    ASSUME IInv, NEW g \in Graphs, cache[g].open
    PROVE  /\ file_after_release(g) = Recovered(g)
           /\ file_after_release(g) # Absent
           /\ file_after_release(g) \in Image
           /\ log_after_release(g) = Absent
           /\ file_after_release(g).id = disk[g].id
BY DEF IInv, TypeOK, HandlesAreCurrent, CacheInv, DiskInv, file_after_release,
       log_after_release, closed_file, Recovered, replays, Absent, Image, CacheEntry

\* Releasing a graph, cached or not, keeps what a fresh open would show.
LEMMA Release ==
    ASSUME IInv, NEW g \in Graphs
    PROVE  LET file == file_after_release(g)
               log == log_after_release(g)
           IN  /\ file \in Image /\ log \in Image
               /\ (IF replays(file, log) THEN log ELSE file) = Recovered(g)
               /\ file.id = disk[g].id /\ log.id <= clock
               /\ (file.id = 0 => file = Absent) /\ (log.id = 0 => log = Absent)
<1>1. CASE cache[g].open
  <2>1. disk[g].id # 0 /\ disk[g] \in Image /\ clock \in Nat
    BY <1>1, HandlesAssumption DEF HandlesAssumption, IInv, TypeOK, DiskInv, CacheInv
  <2>2. Absent.id = 0 /\ Absent \in Image BY DEF Absent, Image
  <2> HIDE DEF Absent
  <2> QED BY <1>1, <2>1, <2>2, CurrentClose DEF replays, Image
<1>2. CASE ~cache[g].open
  BY <1>2 DEF IInv, TypeOK, DiskInv, file_after_release, log_after_release, Recovered, Image
<1> QED BY <1>1, <1>2

LEMMA InitIInv == Init => IInv
BY HandlesAssumption
DEF HandlesAssumption, Init, IInv, TypeOK, DiskInv, CacheInv, WriterInv, ReaderInv, HandlesAreCurrent,
    OneHandlePerGraph, Recovered, replays, Image, CacheEntry, Writers, Absent,
    NoHandle, NoWriter

\* An entry evicted to make room is never the one just opened: it was there
\* before, because the cache has room for at least one.
LEMMA VictimWasCached ==
    ASSUME IInv, NEW g \in Graphs, NEW v \in Graphs, NEW e,
           e.open, e.opened_seq = next_seq,
           v \in evict_if_over_capacity([cache EXCEPT ![g] = e])
    PROVE  v # g /\ cache[v].open
<1> DEFINE entries == [cache EXCEPT ![g] = e]
           Open == {h \in Graphs : entries[h].open}
<1>1. cache \in [Graphs -> CacheEntry] BY DEF IInv, TypeOK
<1>2. entries[g] = e /\ \A h \in Graphs \ {g} : entries[h] = cache[h] BY <1>1
<1>3. Cardinality(Open) > MAX_CACHED_GRAPHS /\ oldest(entries, v)
  BY DEF evict_if_over_capacity
<1>4. \E h \in Graphs \ {g} : entries[h].open
  <2> SUFFICES ASSUME \A h \in Graphs \ {g} : ~entries[h].open PROVE FALSE OBVIOUS
  <2>1. Open = {g} BY <1>2
  <2>2. Cardinality(Open) = 1 BY <2>1, FS_Singleton
  <2> HIDE DEF Open
  <2> QED BY <2>2, <1>3, HandlesAssumption DEF HandlesAssumption
<1>5. PICK h \in Graphs \ {g} : entries[h].open BY <1>4
<1>6. entries[v].opened_seq <= entries[h].opened_seq BY <1>3, <1>5 DEF oldest
<1>7. cache[h].opened_seq < next_seq BY <1>5, <1>2 DEF IInv, CacheInv
<1>8. cache[h].opened_seq \in Nat /\ next_seq \in Nat
  BY <1>1, HandlesAssumption DEF HandlesAssumption, IInv, TypeOK, CacheEntry
<1>9. v # g
  <2> SUFFICES ASSUME v = g PROVE FALSE OBVIOUS
  <2>1. next_seq <= cache[h].opened_seq BY <1>6, <1>2, <1>5
  <2> HIDE DEF entries, Open
  <2> QED BY <2>1, <1>7, <1>8
<1>10. entries[v].open BY <1>3 DEF oldest
<1> QED BY <1>9, <1>10, <1>2

\* Opening for reading.
LEMMA MissStep ==
    ASSUME IInv, NEW g \in Graphs, open_cached_miss(g)
    PROVE  IInv' /\ contents' = contents
<1> DEFINE opened == Recovered(g)
           e == [open |-> TRUE, id |-> opened.id, ver |-> opened.ver,
                 fingerprint |-> disk[g], opened_seq |-> next_seq]
           victims == evict_if_over_capacity([cache EXCEPT ![g] = e])
<1>0. /\ TypeOK /\ DiskInv /\ CacheInv /\ HandlesAreCurrent
      /\ cache \in [Graphs -> CacheEntry] /\ disk \in [Graphs -> Image] /\ wal \in [Graphs -> Image]
  BY DEF IInv, TypeOK
<1>1. ~cache[g].open BY <1>0 DEF CacheInv, hit, open_cached_miss
<1>2. \A v \in victims : v \in Graphs /\ v # g /\ cache[v].open
  <2> SUFFICES ASSUME NEW v \in victims PROVE v \in Graphs /\ v # g /\ cache[v].open OBVIOUS
  <2>1. v \in Graphs BY DEF evict_if_over_capacity
  <2>2. e.open /\ e.opened_seq = next_seq OBVIOUS
  <2> HIDE DEF e
  <2> QED BY <2>1, <2>2, VictimWasCached
<1>3. /\ disk' = [h \in Graphs |->
                     IF h \in victims THEN closed_file(disk[h], cache[h]) ELSE disk[h]]
      /\ wal' = [h \in Graphs |->
                     IF h = g THEN recover_from_stale_sidecars(disk[g], wal[g])
                     ELSE IF h \in victims THEN Absent ELSE wal[h]]
      /\ cache' = [h \in Graphs |-> IF h \in victims THEN NoHandle
                                    ELSE IF h = g THEN e ELSE cache[h]]
      /\ reader' = g /\ next_seq' = next_seq + 1 /\ next_seq < MaxOpens
      /\ writer = NoWriter /\ writer' = writer /\ clock' = clock /\ disk[g] # Absent
  <2> HIDE DEF victims
  <2>1. [cache EXCEPT ![g] = e] = [h \in Graphs |-> IF h = g THEN e ELSE cache[h]] BY <1>0
  <2> QED BY <1>1, <1>2, <2>1 DEF open_cached_miss, file_after_release, victims
<1> HIDE DEF victims
<1>4. opened \in Image BY <1>0 DEF Recovered, Image
<1>5. e \in CacheEntry
  BY <1>4, <1>0, HandlesAssumption DEF HandlesAssumption, TypeOK, CacheEntry, Image
<1>6. \A h \in victims : /\ disk'[h] = Recovered(h) /\ disk'[h] # Absent
                         /\ disk'[h] \in Image /\ disk'[h].id = disk[h].id
  BY <1>2, <1>3, CurrentClose DEF file_after_release
<1>7. \A h \in Graphs : disk'[h] \in Image /\ wal'[h] \in Image
  BY <1>0, <1>3, <1>6 DEF Image, Absent, recover_from_stale_sidecars
<1>8. TypeOK'
  BY <1>0, <1>3, <1>5, <1>7, HandlesAssumption
  DEF HandlesAssumption, TypeOK, CacheEntry, NoHandle, Absent, Image
<1>9. \A h \in Graphs : Recovered(h)' = Recovered(h)
  <2> SUFFICES ASSUME NEW h \in Graphs PROVE Recovered(h)' = Recovered(h) OBVIOUS
  <2>1. CASE h \in victims BY <2>1, <1>2, <1>3, <1>6 DEF Recovered, replays, Absent
  <2>2. CASE h = g BY <2>2, <1>2, <1>3 DEF Recovered, replays, recover_from_stale_sidecars, Absent
  <2>3. CASE h # g /\ h \notin victims BY <2>3, <1>3 DEF Recovered, replays
  <2> QED BY <2>1, <2>2, <2>3
<1>10. DiskInv'
  <2> SUFFICES ASSUME NEW h \in Graphs
               PROVE  /\ disk'[h].id <= clock /\ wal'[h].id <= clock
                      /\ disk'[h].id = 0 => disk'[h] = Absent
                      /\ wal'[h].id = 0 => wal'[h] = Absent
    BY <1>3 DEF DiskInv
  <2>1. clock \in Nat /\ Absent.id = 0
    BY <1>0, HandlesAssumption DEF HandlesAssumption, TypeOK, Absent
  <2>2. wal'[h] \in {wal[h], Absent} BY <1>3 DEF recover_from_stale_sidecars
  <2>3. disk'[h] = disk[h] \/ (disk'[h].id = disk[h].id /\ h \in victims) BY <1>3, <1>6
  <2>4. h \in victims => disk[h].id # 0 BY <1>0, <1>2 DEF CacheInv, DiskInv
  <2> QED BY <2>1, <2>2, <2>3, <2>4, <1>0 DEF DiskInv
<1>11. CacheInv' /\ ReaderInv'
  BY <1>0, <1>2, <1>3, HandlesAssumption
  DEF HandlesAssumption, CacheInv, ReaderInv, TypeOK, CacheEntry, NoHandle
<1>12. HandlesAreCurrent'
  <2>1. \A h \in Graphs : cache'[h].open =>
            Recovered(h) = [id |-> cache'[h].id, ver |-> cache'[h].ver]
    <3> SUFFICES ASSUME NEW h \in Graphs, cache'[h].open
                 PROVE  Recovered(h) = [id |-> cache'[h].id, ver |-> cache'[h].ver]
      OBVIOUS
    <3>1. CASE h = g BY <3>1, <1>2, <1>3, <1>4 DEF Image
    <3>2. CASE h # g BY <3>2, <1>0, <1>3 DEF HandlesAreCurrent, NoHandle
    <3> QED BY <3>1, <3>2
  <2> QED BY <2>1, <1>9, <1>3 DEF HandlesAreCurrent
<1>13. WriterInv' /\ OneHandlePerGraph'
  BY <1>3 DEF WriterInv, OneHandlePerGraph
<1>14. contents' = contents BY <1>9 DEF contents
<1> QED BY <1>8, <1>10, <1>11, <1>12, <1>13, <1>14 DEF IInv

\* Opening for writing, on an existing graph.
LEMMA OpenExistingStep ==
    ASSUME IInv, NEW g \in Graphs, writer = NoWriter, ~release_refused(g),
           open_existing(g, file_after_release(g), log_after_release(g)),
           cache' = [cache EXCEPT ![g] = NoHandle],
           UNCHANGED <<reader, next_seq>>
    PROVE  IInv' /\ contents' = contents
<1> DEFINE file == file_after_release(g)
           log == log_after_release(g)
           opened == IF replays(file, log) THEN log ELSE file
<1>0. /\ TypeOK /\ DiskInv /\ CacheInv /\ HandlesAreCurrent /\ ReaderInv
      /\ cache \in [Graphs -> CacheEntry] /\ disk \in [Graphs -> Image] /\ wal \in [Graphs -> Image]
  BY DEF IInv, TypeOK
<1>1. /\ file \in Image /\ log \in Image /\ opened = Recovered(g)
      /\ file.id = disk[g].id /\ log.id <= clock
      /\ (file.id = 0 => file = Absent) /\ (log.id = 0 => log = Absent)
  BY Release
<1>2. /\ file # Absent /\ clock' = clock
      /\ writer' = [g |-> g, id |-> opened.id, ver |-> opened.ver]
      /\ disk' = [disk EXCEPT ![g] = file]
      /\ wal' = [wal EXCEPT ![g] = recover_from_stale_sidecars(file, log)]
  BY DEF open_existing
<1>3. Absent \in Image /\ Absent.id = 0 /\ NoHandle \in CacheEntry /\ ~NoHandle.open
  BY DEF Absent, Image, NoHandle, CacheEntry
<1> HIDE DEF file, log
<1>4. recover_from_stale_sidecars(file, log) \in {log, Absent} BY DEF recover_from_stale_sidecars
<1>5. /\ disk'[g] = file /\ wal'[g] = recover_from_stale_sidecars(file, log) /\ cache'[g] = NoHandle
      /\ \A h \in Graphs \ {g} : disk'[h] = disk[h] /\ wal'[h] = wal[h] /\ cache'[h] = cache[h]
  BY <1>0, <1>2
<1>6. opened \in Image BY <1>1
<1>7. TypeOK'
  BY <1>0, <1>1, <1>2, <1>3, <1>4, <1>6 DEF TypeOK, Writers, Image
<1>8. \A h \in Graphs : Recovered(h)' = Recovered(h)
  <2>1. Recovered(g)' = opened
    BY <1>5 DEF Recovered, replays, recover_from_stale_sidecars
  <2> QED BY <2>1, <1>1, <1>5 DEF Recovered
<1>9. DiskInv'
  BY <1>0, <1>1, <1>2, <1>3, <1>4, <1>5, HandlesAssumption DEF HandlesAssumption, DiskInv, TypeOK
<1>10. CacheInv' BY <1>0, <1>3, <1>5 DEF CacheInv
<1>11. reader # g
  BY <1>0, HandlesAssumption DEF HandlesAssumption, release_refused, ReaderInv
<1>12. ReaderInv' BY <1>0, <1>5, <1>11 DEF ReaderInv, TypeOK
<1>13. writer' # NoWriter /\ writer'.g = g /\ g # NoGraph
  BY <1>2, HandlesAssumption DEF HandlesAssumption, NoWriter
<1>14. WriterInv' /\ OneHandlePerGraph'
  BY <1>2, <1>3, <1>5, <1>11, <1>13 DEF WriterInv, OneHandlePerGraph
<1>15. [id |-> opened.id, ver |-> opened.ver] = opened BY <1>6 DEF Image
<1>16. HandlesAreCurrent'
  BY <1>0, <1>1, <1>2, <1>3, <1>5, <1>8, <1>13, <1>15 DEF HandlesAreCurrent
<1>17. contents' = contents BY <1>8 DEF contents
<1> QED BY <1>7, <1>9, <1>10, <1>12, <1>14, <1>16, <1>17 DEF IInv

\* Opening for writing where there is no graph.
LEMMA CreateStep ==
    ASSUME IInv, NEW g \in Graphs, writer = NoWriter, ~release_refused(g),
           create_new(g, file_after_release(g)),
           cache' = [cache EXCEPT ![g] = NoHandle],
           UNCHANGED <<reader, next_seq>>
    PROVE  IInv' /\ Contents!Create(g)
<1> DEFINE new == [id |-> clock + 1, ver |-> clock + 1]
<1>0. /\ TypeOK /\ DiskInv /\ CacheInv /\ HandlesAreCurrent /\ ReaderInv
      /\ cache \in [Graphs -> CacheEntry] /\ disk \in [Graphs -> Image] /\ wal \in [Graphs -> Image]
  BY DEF IInv, TypeOK
<1>1. /\ file_after_release(g) = Absent /\ clock < MaxVersions /\ clock' = clock + 1
      /\ writer' = [g |-> g, id |-> clock + 1, ver |-> clock + 1]
      /\ disk' = [disk EXCEPT ![g] = new] /\ wal' = [wal EXCEPT ![g] = Absent]
  BY DEF create_new
<1>2. Absent \in Image /\ Absent.id = 0 /\ NoHandle \in CacheEntry /\ ~NoHandle.open
  BY DEF Absent, Image, NoHandle, CacheEntry
<1>3. clock \in Nat /\ clock + 1 \in 0 .. MaxVersions
  BY <1>0, <1>1, HandlesAssumption DEF HandlesAssumption, TypeOK
<1>4. new \in Image /\ new # Absent /\ new.id = clock + 1 BY <1>3 DEF Image, Absent
<1>5. /\ disk'[g] = new /\ wal'[g] = Absent /\ cache'[g] = NoHandle
      /\ \A h \in Graphs \ {g} : disk'[h] = disk[h] /\ wal'[h] = wal[h] /\ cache'[h] = cache[h]
  BY <1>0, <1>1
<1>6. ~cache[g].open /\ disk[g] = Absent
  BY <1>1, CurrentClose DEF file_after_release
<1>7. Recovered(g) = Absent BY <1>0, <1>6, <1>2 DEF Recovered, replays, DiskInv
<1>8. Recovered(g)' = new /\ \A h \in Graphs \ {g} : Recovered(h)' = Recovered(h)
  BY <1>5 DEF Recovered, replays
<1>9. reader # g
  BY <1>0, <1>6, HandlesAssumption DEF HandlesAssumption, ReaderInv
<1>10. writer' # NoWriter /\ writer'.g = g /\ g # NoGraph
  BY <1>1, HandlesAssumption DEF HandlesAssumption, NoWriter
<1>11. TypeOK'
  BY <1>0, <1>1, <1>2, <1>3, <1>4 DEF TypeOK, Writers
<1>12. DiskInv' BY <1>0, <1>1, <1>2, <1>3, <1>4, <1>5 DEF DiskInv, Image
<1>13. CacheInv' /\ ReaderInv'
  BY <1>0, <1>2, <1>5, <1>9 DEF CacheInv, ReaderInv, TypeOK
<1>14. WriterInv' /\ OneHandlePerGraph'
  BY <1>1, <1>2, <1>4, <1>5, <1>9, <1>10 DEF WriterInv, OneHandlePerGraph
<1>15. HandlesAreCurrent'
  BY <1>0, <1>1, <1>2, <1>5, <1>8, <1>10 DEF HandlesAreCurrent
<1>16. contents' = [contents EXCEPT ![g] = new] BY <1>8 DEF contents
<1>17. contents[g] = Contents!Absent BY <1>7 DEF contents, Absent, Contents!Absent
<1>18. Contents!Create(g) BY <1>1, <1>16, <1>17 DEF Contents!Create, Contents!Put
<1> QED BY <1>11, <1>12, <1>13, <1>14, <1>15, <1>18 DEF IInv

\* A commit through the write tool's handle.
LEMMA CommitStep ==
    ASSUME IInv, commit
    PROVE  IInv' /\ \E g \in Graphs : Contents!Write(g)
<1>0. /\ TypeOK /\ DiskInv /\ CacheInv /\ HandlesAreCurrent /\ ReaderInv /\ WriterInv
      /\ OneHandlePerGraph /\ writer \in Writers
      /\ cache \in [Graphs -> CacheEntry] /\ disk \in [Graphs -> Image] /\ wal \in [Graphs -> Image]
  BY DEF IInv, TypeOK
<1>g. PICK g \in Graphs : g = writer.g /\ g # NoGraph
  BY <1>0, HandlesAssumption DEF HandlesAssumption, commit, WriterInv, Writers
<1> DEFINE new == [id |-> writer.id, ver |-> clock + 1]
<1>1. /\ writer # NoWriter /\ clock < MaxVersions /\ clock' = clock + 1
      /\ writer' = [writer EXCEPT !.ver = clock + 1]
      /\ wal' = [wal EXCEPT ![g] = new] /\ UNCHANGED <<disk, cache, reader, next_seq>>
  BY <1>g DEF commit
<1>2. g = writer.g /\ g # NoGraph BY <1>g
<1>3. clock \in Nat /\ clock + 1 \in 0 .. MaxVersions
  BY <1>0, <1>1, HandlesAssumption DEF HandlesAssumption, TypeOK
<1>4. writer' = [g |-> g, id |-> writer.id, ver |-> clock + 1] /\ writer.id \in Nat
  BY <1>0, <1>1, <1>2 DEF Writers
<1>5. Recovered(g) = [id |-> writer.id, ver |-> writer.ver] BY <1>0, <1>1, <1>2 DEF HandlesAreCurrent
<1>6. writer.id = disk[g].id
  <2>1. Recovered(g).id = disk[g].id BY DEF Recovered, replays
  <2> QED BY <2>1, <1>5
<1>7. disk[g].id # 0 BY <1>0, <1>1, <1>2 DEF WriterInv, DiskInv
<1>8. new \in Image /\ new # Absent /\ new.id = disk[g].id /\ new.id <= clock
  BY <1>0, <1>2, <1>3, <1>4, <1>6, <1>7 DEF Image, Absent, DiskInv
<1>9. wal'[g] = new /\ \A h \in Graphs \ {g} : wal'[h] = wal[h] BY <1>0, <1>1, <1>2
<1>10. Recovered(g)' = new /\ \A h \in Graphs \ {g} : Recovered(h)' = Recovered(h)
  BY <1>1, <1>8, <1>9 DEF Recovered, replays
<1>11. writer'.g = g /\ writer' # NoWriter BY <1>4, <1>2 DEF NoWriter
<1>12. TypeOK' BY <1>0, <1>1, <1>2, <1>3, <1>4, <1>8 DEF TypeOK, Writers
<1>13. DiskInv'
  BY <1>0, <1>1, <1>3, <1>7, <1>8, <1>9 DEF DiskInv, Image
<1>14. CacheInv' /\ ReaderInv' BY <1>0, <1>1 DEF CacheInv, ReaderInv
<1>15. WriterInv' /\ OneHandlePerGraph'
  BY <1>0, <1>1, <1>2, <1>11 DEF WriterInv, OneHandlePerGraph
<1>16. HandlesAreCurrent'
  BY <1>0, <1>1, <1>2, <1>4, <1>10, <1>11 DEF HandlesAreCurrent, OneHandlePerGraph
<1>17. contents' = [contents EXCEPT ![g] = new]
  <2> HIDE DEF new
  <2> QED BY <1>2, <1>10 DEF contents
<1>18. contents[g].id = writer.id /\ contents[g] # Contents!Absent
  BY <1>2, <1>5, <1>6, <1>7 DEF contents, Contents!Absent
<1>19. Contents!Write(g) BY <1>1, <1>17, <1>18 DEF Contents!Write, Contents!Put
<1> QED BY <1>2, <1>12, <1>13, <1>14, <1>15, <1>16, <1>19 DEF IInv

\* A checkpoint, alone or on closing.
LEMMA WriteBackStep ==
    ASSUME IInv, checkpoint \/ close_writer
    PROVE  IInv' /\ contents' = contents
<1> DEFINE g == writer.g
           file == closed_file(disk[g], writer)
<1>0. /\ TypeOK /\ DiskInv /\ CacheInv /\ HandlesAreCurrent /\ ReaderInv /\ WriterInv
      /\ OneHandlePerGraph /\ writer \in Writers
      /\ cache \in [Graphs -> CacheEntry] /\ disk \in [Graphs -> Image] /\ wal \in [Graphs -> Image]
  BY DEF IInv, TypeOK
<1>1. /\ writer # NoWriter /\ (writer' = writer \/ writer' = NoWriter)
      /\ disk' = [disk EXCEPT ![g] = file] /\ wal' = [wal EXCEPT ![g] = Absent]
      /\ UNCHANGED <<cache, reader, clock, next_seq>>
  BY DEF checkpoint, close_writer, write_back
<1>2. g \in Graphs /\ g # NoGraph /\ disk[g] # Absent
  BY <1>0, <1>1, HandlesAssumption DEF HandlesAssumption, WriterInv, Writers
<1>3. file = [id |-> writer.id, ver |-> writer.ver] /\ file = Recovered(g)
  BY <1>0, <1>1, <1>2 DEF closed_file, HandlesAreCurrent
<1>4. file.id = disk[g].id /\ file \in Image
  BY <1>0, <1>2, <1>3 DEF Recovered, replays
<1>5. Absent \in Image /\ Absent.id = 0 BY DEF Absent, Image
<1> HIDE DEF file
<1>6. /\ disk'[g] = file /\ wal'[g] = Absent /\ file.id # 0
      /\ \A h \in Graphs \ {g} : disk'[h] = disk[h] /\ wal'[h] = wal[h]
  BY <1>0, <1>1, <1>2, <1>4 DEF DiskInv
<1>7. \A h \in Graphs : Recovered(h)' = Recovered(h)
  BY <1>3, <1>6 DEF Recovered, replays
<1>8. TypeOK'
  <2>1. NoWriter \in Writers BY HandlesAssumption DEF HandlesAssumption, Writers, NoWriter
  <2>2. writer' \in Writers BY <1>0, <1>1, <2>1
  <2> HIDE DEF g
  <2>3. disk' \in [Graphs -> Image] /\ wal' \in [Graphs -> Image]
    BY <1>0, <1>1, <1>4, <1>5
  <2> QED BY <1>0, <1>1, <2>2, <2>3 DEF TypeOK
<1>9. DiskInv'
  BY <1>0, <1>1, <1>2, <1>4, <1>5, <1>6, HandlesAssumption DEF HandlesAssumption, DiskInv, TypeOK
<1>10. CacheInv' /\ ReaderInv'
  BY <1>0, <1>1, <1>6 DEF CacheInv, ReaderInv, OneHandlePerGraph
<1>11. WriterInv' /\ OneHandlePerGraph'
  BY <1>0, <1>1, <1>2, <1>5, <1>6 DEF WriterInv, OneHandlePerGraph
<1>12. HandlesAreCurrent' BY <1>0, <1>1, <1>2, <1>7 DEF HandlesAreCurrent
<1>13. contents' = contents BY <1>7 DEF contents
<1> QED BY <1>8, <1>9, <1>10, <1>11, <1>12, <1>13 DEF IInv

\* Removing a graph: the log it may leave has an id of the past.
LEMMA RemoveStep ==
    ASSUME IInv, NEW g \in Graphs, remove_stale_graph_artifact(g)
    PROVE  IInv' /\ Contents!Remove(g)
<1> DEFINE log == log_after_release(g)
<1>0. /\ TypeOK /\ DiskInv /\ CacheInv /\ HandlesAreCurrent /\ ReaderInv /\ WriterInv
      /\ cache \in [Graphs -> CacheEntry] /\ disk \in [Graphs -> Image] /\ wal \in [Graphs -> Image]
  BY DEF IInv, TypeOK
<1>1. /\ writer = NoWriter /\ ~release_refused(g) /\ disk[g] # Absent
      /\ disk' = [disk EXCEPT ![g] = Absent] /\ wal' = [wal EXCEPT ![g] = log]
      /\ cache' = [cache EXCEPT ![g] = NoHandle]
      /\ UNCHANGED <<reader, writer, clock, next_seq>>
  BY DEF remove_stale_graph_artifact
<1>2. log \in Image /\ log.id <= clock /\ (log.id = 0 => log = Absent) BY Release
<1>3. Absent \in Image /\ Absent.id = 0 /\ NoHandle \in CacheEntry /\ ~NoHandle.open
  BY DEF Absent, Image, NoHandle, CacheEntry
<1> HIDE DEF log
<1>4. /\ disk'[g] = Absent /\ wal'[g] = log /\ cache'[g] = NoHandle
      /\ \A h \in Graphs \ {g} : disk'[h] = disk[h] /\ wal'[h] = wal[h] /\ cache'[h] = cache[h]
  BY <1>0, <1>1
<1>5. reader # g
  BY <1>0, <1>1, HandlesAssumption DEF HandlesAssumption, release_refused, ReaderInv
<1>6. Recovered(g)' = Absent /\ \A h \in Graphs \ {g} : Recovered(h)' = Recovered(h)
  BY <1>2, <1>3, <1>4 DEF Recovered, replays
<1>7. TypeOK' BY <1>0, <1>1, <1>2, <1>3 DEF TypeOK
<1>8. DiskInv'
  BY <1>0, <1>1, <1>2, <1>3, <1>4, HandlesAssumption DEF HandlesAssumption, DiskInv, TypeOK
<1>9. CacheInv' /\ ReaderInv' BY <1>0, <1>1, <1>3, <1>4, <1>5 DEF CacheInv, ReaderInv, TypeOK
<1>10. WriterInv' /\ OneHandlePerGraph' BY <1>0, <1>1 DEF WriterInv, OneHandlePerGraph
<1>11. HandlesAreCurrent' BY <1>0, <1>1, <1>3, <1>4, <1>6 DEF HandlesAreCurrent
<1>12. Recovered(g).id = disk[g].id BY DEF Recovered, replays
<1>13. disk[g].id # 0 BY <1>0, <1>1 DEF DiskInv
<1>14. contents[g] # Contents!Absent BY <1>12, <1>13 DEF contents, Contents!Absent
<1>15. contents' = [contents EXCEPT ![g] = Contents!Absent]
  BY <1>6 DEF contents, Contents!Absent, Absent
<1>16. Contents!Remove(g) BY <1>1, <1>14, <1>15 DEF Contents!Remove
<1> QED BY <1>7, <1>8, <1>9, <1>10, <1>11, <1>16 DEF IInv

\* The end of the process, orderly or not.
LEMMA EndStep ==
    ASSUME IInv, exit \/ crash
    PROVE  IInv' /\ contents' = contents
<1>0. /\ TypeOK /\ DiskInv /\ CacheInv
      /\ cache \in [Graphs -> CacheEntry] /\ disk \in [Graphs -> Image] /\ wal \in [Graphs -> Image]
  BY DEF IInv, TypeOK
<1>1. NoHandle \in CacheEntry /\ ~NoHandle.open BY DEF Absent, Image, NoHandle, CacheEntry
<1>2. /\ cache' = [g \in Graphs |-> NoHandle] /\ reader' = NoGraph /\ writer' = NoWriter
      /\ UNCHANGED <<clock, next_seq>>
  BY DEF exit, crash
<1>3. \A g \in Graphs :
          /\ disk'[g] \in Image /\ wal'[g] \in Image /\ Recovered(g)' = Recovered(g)
          /\ disk'[g].id = disk[g].id /\ wal'[g].id <= clock
          /\ (disk'[g].id = 0 => disk'[g] = Absent) /\ (wal'[g].id = 0 => wal'[g] = Absent)
  <2>1. CASE crash BY <2>1, <1>0 DEF crash, Recovered, DiskInv
  <2>2. CASE exit
    <3> SUFFICES ASSUME NEW g \in Graphs
                 PROVE  /\ disk'[g] \in Image /\ wal'[g] \in Image
                        /\ Recovered(g)' = Recovered(g)
                        /\ disk'[g].id = disk[g].id /\ wal'[g].id <= clock
                        /\ (disk'[g].id = 0 => disk'[g] = Absent)
                        /\ (wal'[g].id = 0 => wal'[g] = Absent)
      OBVIOUS
    <3>1. disk'[g] = file_after_release(g) /\ wal'[g] = log_after_release(g) BY <2>2 DEF exit
    <3>2. Recovered(g)' = IF replays(disk'[g], wal'[g]) THEN wal'[g] ELSE disk'[g]
      BY DEF Recovered, replays
    <3> QED BY <3>1, <3>2, Release
  <2> QED BY <2>1, <2>2
<1>4. disk' \in [Graphs -> Image] /\ wal' \in [Graphs -> Image]
  BY <1>0, <1>3 DEF exit, crash
<1>5. TypeOK' BY <1>0, <1>1, <1>2, <1>4 DEF TypeOK, Writers, NoWriter
<1>6. DiskInv' BY <1>0, <1>2, <1>3 DEF DiskInv
<1>7. CacheInv' /\ ReaderInv' /\ WriterInv' /\ OneHandlePerGraph' /\ HandlesAreCurrent'
  BY <1>1, <1>2 DEF CacheInv, ReaderInv, WriterInv, OneHandlePerGraph, HandlesAreCurrent
<1>8. contents' = contents BY <1>3 DEF contents
<1> QED BY <1>5, <1>6, <1>7, <1>8 DEF IInv

\* Requests that only take or return a cached handle.
LEMMA RequestStep ==
    ASSUME IInv, end_read \/ \E g \in Graphs : open_cached_hit(g)
    PROVE  IInv' /\ contents' = contents
<1>1. /\ UNCHANGED <<disk, wal, cache, writer, clock, next_seq>>
      /\ \/ reader' = NoGraph
         \/ reader' \in Graphs /\ cache[reader'].open /\ writer = NoWriter
  BY DEF end_read, open_cached_hit, hit
<1>2. \A h \in Graphs : Recovered(h)' = Recovered(h) BY <1>1 DEF Recovered
<1>3. TypeOK' /\ DiskInv' /\ CacheInv' /\ WriterInv' /\ ReaderInv'
  BY <1>1 DEF IInv, TypeOK, DiskInv, CacheInv, WriterInv, ReaderInv
<1>4. OneHandlePerGraph'
  BY <1>1, HandlesAssumption DEF HandlesAssumption, IInv, TypeOK, Writers, WriterInv, OneHandlePerGraph
<1>5. HandlesAreCurrent'
  BY <1>1, <1>2, HandlesAssumption DEF HandlesAssumption, IInv, TypeOK, Writers, WriterInv, HandlesAreCurrent
<1>6. contents' = contents BY <1>2 DEF contents
<1> QED BY <1>3, <1>4, <1>5, <1>6 DEF IInv

\* Every step keeps the invariant and is a step of the contents or none.
LEMMA StepIInv ==
    ASSUME IInv, [Next]_vars
    PROVE  IInv' /\ [Contents!Next]_<<contents, clock>>
<1>1. CASE UNCHANGED vars
  BY <1>1 DEF vars, IInv, TypeOK, DiskInv, CacheInv, WriterInv, ReaderInv,
              HandlesAreCurrent, OneHandlePerGraph, Recovered, contents
<1>2. CASE end_read \/ \E g \in Graphs : open_cached_hit(g)
  <2>1. clock' = clock BY <1>2 DEF end_read, open_cached_hit
  <2> QED BY <2>1, <1>2, RequestStep
<1>3. ASSUME NEW g \in Graphs, open_cached_miss(g)
      PROVE  IInv' /\ contents' = contents /\ clock' = clock
  BY <1>3, MissStep DEF open_cached_miss
<1>4. ASSUME NEW g \in Graphs, open_or_create(g)
      PROVE  IInv' /\ ((contents' = contents /\ clock' = clock) \/ Contents!Create(g))
  <2>1. /\ writer = NoWriter /\ ~release_refused(g)
        /\ cache' = [cache EXCEPT ![g] = NoHandle] /\ UNCHANGED <<reader, next_seq>>
    BY <1>4 DEF open_or_create
  <2>2. CASE open_existing(g, file_after_release(g), log_after_release(g))
    <3>1. clock' = clock BY <2>2 DEF open_existing
    <3> QED BY <2>1, <2>2, <3>1, OpenExistingStep
  <2>3. CASE create_new(g, file_after_release(g)) BY <2>1, <2>3, CreateStep
  <2> QED BY <1>4, <2>2, <2>3 DEF open_or_create
<1>5. CASE commit BY <1>5, CommitStep DEF Contents!Next
<1>6. CASE checkpoint \/ close_writer
  <2>1. clock' = clock BY <1>6 DEF checkpoint, close_writer
  <2> QED BY <2>1, <1>6, WriteBackStep
<1>7. ASSUME NEW g \in Graphs, remove_stale_graph_artifact(g)
      PROVE  IInv' /\ Contents!Remove(g)
  BY <1>7, RemoveStep
<1>8. CASE exit \/ crash
  <2>1. clock' = clock BY <1>8 DEF exit, crash
  <2> QED BY <2>1, <1>8, EndStep
<1> QED BY <1>1, <1>2, <1>3, <1>4, <1>5, <1>6, <1>7, <1>8 DEF Next, Contents!Next

-----------------------------------------------------------------------------
LEMMA AlwaysIInv == Spec => []IInv
<1>1. IInv /\ [Next]_vars => IInv' BY StepIInv
<1> QED BY InitIInv, <1>1, PTL DEF Spec

\* For any number of graphs and any capacity, every open handle shows what a
\* fresh open would show, whatever was opened, written, evicted, removed or
\* killed before: the guarantee that release_open_handles is there to give.
THEOREM HandlesStayCurrent == Spec => []HandlesAreCurrent
<1>1. IInv => HandlesAreCurrent BY DEF IInv
<1> QED BY AlwaysIInv, <1>1, PTL

\* While a write tool has a graph open, no cached handle of it is open and no
\* request reads through one.
THEOREM WritersAreAlone == Spec => []OneHandlePerGraph
<1>1. IInv => OneHandlePerGraph BY DEF IInv
<1> QED BY AlwaysIInv, <1>1, PTL

\* Opening, caching, evicting, closing, exiting and dying never change what is
\* on disk as the next opener sees it, and no committed content comes undone:
\* the files implement GraphContents.
THEOREM HandlesImplementContents == Spec => ImplementsContents
<1>1. Init => Contents!Init
  BY DEF Init, Contents!Init, contents, Recovered, replays, Absent, Contents!Absent
<1>2. IInv /\ [Next]_vars => [Contents!Next]_<<contents, clock>> BY StepIInv
<1> QED BY AlwaysIInv, <1>1, <1>2, PTL DEF Spec, ImplementsContents, Contents!Spec

-----------------------------------------------------------------------------
\* In a finite set something has the least number.
LEMMA Least ==
    ASSUME NEW S, IsFiniteSet(S), S # {}, NEW key, \A x \in S : key[x] \in Nat
    PROVE  \E x \in S : \A y \in S : key[x] <= key[y]
<1> DEFINE Down(x) == {y \in S : key[y] <= key[x]}
           T == {Down(x) : x \in S}
<1>1. IsWellFoundedOn(StrictSubsetOrdering(S), FiniteSubsetsOf(S)) BY FS_StrictSubsetOrderingWellFounded
<1>2. \A x \in S : IsFiniteSet(Down(x)) /\ Down(x) \in SUBSET S BY FS_Subset
<1>3. T \subseteq FiniteSubsetsOf(S) /\ T # {} BY <1>2 DEF FiniteSubsetsOf
<1>4. PICK u \in T : \A v \in T : ~(<<v, u>> \in StrictSubsetOrdering(S)) BY <1>1, <1>3, WFMin
<1>5. PICK x \in S : u = Down(x) BY <1>4
<1>6. ASSUME NEW y \in S PROVE key[x] <= key[y]
  <2>1. SUFFICES ASSUME key[y] < key[x] PROVE FALSE OBVIOUS
  <2>2. Down(y) \in T OBVIOUS
  <2>3. x \in Down(x) /\ x \notin Down(y) BY <2>1
  <2>4. ASSUME NEW z \in Down(y) PROVE z \in Down(x)
    <3>1. z \in S /\ key[z] \in Nat /\ key[y] \in Nat /\ key[x] \in Nat /\ key[z] <= key[y] BY <2>4
    <3>2. key[z] <= key[x] BY <2>1, <3>1
    <3> QED BY <3>1, <3>2
  <2> HIDE DEF Down
  <2>5. Down(y) \subseteq u /\ Down(y) # u BY <1>5, <2>3, <2>4
  <2>6. Down(y) \in SUBSET S /\ u \in SUBSET S BY <1>2, <1>5
  <2>7. <<Down(y), u>> \in StrictSubsetOrdering(S) BY <2>5, <2>6 DEF StrictSubsetOrdering
  <2> QED BY <1>4, <2>2, <2>7
<1> QED BY <1>6

OpenIn(entries) == {h \in Graphs : entries[h].open}

LEMMA OpenCount ==
    ASSUME NEW entries
    PROVE  IsFiniteSet(OpenIn(entries)) /\ Cardinality(OpenIn(entries)) \in Nat
<1>1. OpenIn(entries) \subseteq Graphs BY DEF OpenIn
<1> QED BY <1>1, HandlesAssumption, FS_Subset, FS_CardinalityType DEF HandlesAssumption

\* Adding one entry and dropping the victims keeps the cache within its
\* capacity: over it, there is a victim.
LEMMA MissStaysWithin ==
    ASSUME IInv, Cardinality(OpenIn(cache)) <= MAX_CACHED_GRAPHS, NEW g \in Graphs, open_cached_miss(g)
    PROVE  Cardinality(OpenIn(cache')) <= MAX_CACHED_GRAPHS
<1> DEFINE e == [open |-> TRUE, id |-> Recovered(g).id, ver |-> Recovered(g).ver,
                 fingerprint |-> disk[g], opened_seq |-> next_seq]
           entries == [cache EXCEPT ![g] = e]
           victims == evict_if_over_capacity(entries)
<1>1. cache' = [h \in Graphs |-> IF h \in victims THEN NoHandle ELSE entries[h]] BY DEF open_cached_miss
<1>2. cache \in [Graphs -> CacheEntry] /\ next_seq \in Nat
  BY HandlesAssumption DEF IInv, TypeOK, HandlesAssumption
<1>3. entries[g] = e /\ \A h \in Graphs \ {g} : entries[h] = cache[h] BY <1>2
<1>4. e.open /\ e.opened_seq = next_seq OBVIOUS
<1>5. ~NoHandle.open BY DEF NoHandle
<1>6. victims = {v \in Graphs : Cardinality(OpenIn(entries)) > MAX_CACHED_GRAPHS /\ oldest(entries, v)}
  BY DEF evict_if_over_capacity, OpenIn
<1> HIDE DEF e, entries, victims
<1>7. OpenIn(cache') = OpenIn(entries) \ victims BY <1>1, <1>5 DEF OpenIn
<1>8. OpenIn(entries) = OpenIn(cache) \cup {g} BY <1>3, <1>4 DEF OpenIn
<1>9. IsFiniteSet(OpenIn(cache)) /\ Cardinality(OpenIn(cache)) \in Nat BY OpenCount
<1>10. IsFiniteSet(OpenIn(entries)) /\ Cardinality(OpenIn(entries)) \in Nat BY OpenCount
<1>11. Cardinality(OpenIn(entries)) <= Cardinality(OpenIn(cache)) + 1
  <2>1. CASE g \in OpenIn(cache)
    <3>1. OpenIn(entries) = OpenIn(cache) BY <1>8, <2>1
    <3> QED BY <1>9, <3>1
  <2>2. CASE g \notin OpenIn(cache)
    <3>1. Cardinality(OpenIn(entries)) = Cardinality(OpenIn(cache)) + 1 BY <1>8, <1>9, <2>2, FS_AddElement
    <3> QED BY <1>9, <3>1
  <2> QED BY <2>1, <2>2
<1>12. MAX_CACHED_GRAPHS \in Nat BY HandlesAssumption DEF HandlesAssumption
<1>13. IsFiniteSet(OpenIn(cache')) /\ Cardinality(OpenIn(cache')) \in Nat
       /\ Cardinality(OpenIn(cache')) <= Cardinality(OpenIn(entries))
  <2>1. OpenIn(cache') \subseteq OpenIn(entries) BY <1>7
  <2>2. IsFiniteSet(OpenIn(cache')) BY <1>10, <2>1, FS_Subset
  <2> QED BY <1>10, <2>1, <2>2, FS_Subset, FS_CardinalityType
<1>14. CASE Cardinality(OpenIn(entries)) <= MAX_CACHED_GRAPHS BY <1>10, <1>12, <1>13, <1>14
<1>15. CASE Cardinality(OpenIn(entries)) > MAX_CACHED_GRAPHS
  <2>1. PICK v \in OpenIn(entries) : oldest(entries, v)
    <3> DEFINE key == [h \in OpenIn(entries) |-> entries[h].opened_seq]
    <3>1. \A h \in OpenIn(entries) : key[h] \in Nat
      <4>1. \A h \in Graphs : cache[h].opened_seq \in Nat BY <1>2 DEF CacheEntry
      <4>2. \A h \in OpenIn(entries) : entries[h].opened_seq \in Nat BY <1>2, <1>3, <1>4, <4>1 DEF OpenIn
      <4> QED BY <4>2
    <3>2. OpenIn(entries) # {} BY <1>8
    <3>3. \A h \in OpenIn(entries) : key[h] = entries[h].opened_seq OBVIOUS
    <3> HIDE DEF key
    <3>4. PICK v \in OpenIn(entries) : \A h \in OpenIn(entries) : key[v] <= key[h] BY <1>10, <3>1, <3>2, Least
    <3>5. \A h \in OpenIn(entries) : entries[v].opened_seq <= entries[h].opened_seq BY <3>3, <3>4
    <3>6. oldest(entries, v) BY <3>5 DEF oldest, OpenIn
    <3> QED BY <3>6
  <2>2. v \in victims BY <1>6, <1>15, <2>1 DEF OpenIn
  <2>3. OpenIn(cache') \subseteq OpenIn(entries) \ {v} BY <1>7, <2>2
  <2>4. IsFiniteSet(OpenIn(entries) \ {v}) /\ Cardinality(OpenIn(entries) \ {v}) = Cardinality(OpenIn(entries)) - 1
    BY <1>10, <2>1, FS_RemoveElement
  <2>5. Cardinality(OpenIn(cache')) <= Cardinality(OpenIn(entries) \ {v}) BY <2>3, <2>4, FS_Subset
  <2> QED BY <1>9, <1>10, <1>11, <1>12, <1>13, <2>4, <2>5
<1> QED BY <1>10, <1>12, <1>14, <1>15

\* Every other step opens no entry.
LEMMA OthersStayWithin ==
    ASSUME IInv, [Next]_vars, \A g \in Graphs : ~open_cached_miss(g)
    PROVE  Cardinality(OpenIn(cache')) <= Cardinality(OpenIn(cache))
<1>1. ASSUME NEW h \in Graphs PROVE cache'[h] = cache[h] \/ cache'[h] = NoHandle
  <2>0. cache \in [Graphs -> CacheEntry] BY DEF IInv, TypeOK
  <2>1. CASE UNCHANGED cache BY <2>1
  <2>2. CASE \E g \in Graphs : cache' = [cache EXCEPT ![g] = NoHandle] BY <2>0, <2>2
  <2>3. CASE cache' = [g \in Graphs |-> NoHandle] BY <2>3
  <2>4. UNCHANGED cache \/ (\E g \in Graphs : cache' = [cache EXCEPT ![g] = NoHandle])
        \/ cache' = [g \in Graphs |-> NoHandle]
    BY DEF Next, vars, open_cached_hit, open_or_create, remove_stale_graph_artifact, end_read, commit,
           checkpoint, close_writer, exit, crash
  <2> QED BY <2>1, <2>2, <2>3, <2>4
<1>2. ~NoHandle.open BY DEF NoHandle
<1>3. OpenIn(cache') \subseteq OpenIn(cache) BY <1>1, <1>2 DEF OpenIn
<1>4. IsFiniteSet(OpenIn(cache)) BY OpenCount
<1> QED BY <1>3, <1>4, FS_Subset

\* The handle a request reads through is never evicted or released under it,
\* and the cache never holds more handles than its capacity, for any capacity
\* (evict_if_over_capacity, release_open_handles).
THEOREM ReaderStaysCached == Spec => []CacheHoldsTheReader
<1> DEFINE Within == Cardinality(OpenIn(cache)) <= MAX_CACHED_GRAPHS
<1>1. Init => Within
  <2> SUFFICES ASSUME Init PROVE Within OBVIOUS
  <2>1. OpenIn(cache) = {} BY DEF Init, OpenIn, NoHandle
  <2>2. Cardinality(OpenIn(cache)) = 0 BY <2>1, FS_EmptySet
  <2> QED BY <2>2, HandlesAssumption DEF HandlesAssumption
<1>2. IInv /\ Within /\ [Next]_vars => Within'
  <2> SUFFICES ASSUME IInv, Within, [Next]_vars PROVE Cardinality(OpenIn(cache')) <= MAX_CACHED_GRAPHS BY DEF OpenIn
  <2>1. CASE \E g \in Graphs : open_cached_miss(g) BY <2>1, MissStaysWithin
  <2>2. CASE \A g \in Graphs : ~open_cached_miss(g)
    <3>1. Cardinality(OpenIn(cache')) <= Cardinality(OpenIn(cache)) BY <2>2, OthersStayWithin
    <3>2. Cardinality(OpenIn(cache')) \in Nat /\ Cardinality(OpenIn(cache)) \in Nat /\ MAX_CACHED_GRAPHS \in Nat
      BY OpenCount, HandlesAssumption DEF HandlesAssumption
    <3> QED BY <3>1, <3>2
  <2> QED BY <2>1, <2>2
<1>3. IInv /\ Within => CacheHoldsTheReader BY DEF IInv, ReaderInv, CacheHoldsTheReader, OpenIn
<1> QED BY <1>1, <1>2, <1>3, AlwaysIInv, PTL DEF Spec
=============================================================================
