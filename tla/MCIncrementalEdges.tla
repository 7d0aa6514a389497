------------------------ MODULE MCIncrementalEdges ------------------------
EXTENDS IncrementalEdges
\* A library, its caller with a kustomization, and a base in a directory.
MCFiles == {"lib", "app", "base"}
MCContents == [lib |-> {"lib1", "lib2"}, app |-> {"app1", "app2"}, base |-> {"base1", "base2"}]
MCDirOf == [lib |-> "", app |-> "", base |-> "d"]
MCDefsOf == [lib1 |-> {"helper", "Kind"}, lib2 |-> {}, app1 |-> {"main", "kustomize"},
             app2 |-> {"main"}, base1 |-> {"kustomize"}, base2 |-> {"helper"}]
MCCallsOf == [lib1 |-> {}, lib2 |-> {}, app1 |-> {"helper", "Kind"}, app2 |-> {"helper"},
              base1 |-> {}, base2 |-> {}]
MCLinksOf == [lib1 |-> {}, lib2 |-> {}, app1 |-> {"lib"}, app2 |-> {},
              base1 |-> {"lib"}, base2 |-> {}]
MCBasesOf == [lib1 |-> {}, lib2 |-> {}, app1 |-> {"base"}, app2 |-> {}, base1 |-> {},
              base2 |-> {}]
MCGapOf == [lib1 |-> "none", lib2 |-> "skipped", app1 |-> "none", app2 |-> "none",
            base1 |-> "none", base2 |-> "partial"]
=============================================================================
