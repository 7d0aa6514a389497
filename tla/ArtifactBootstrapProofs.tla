----------------------- MODULE ArtifactBootstrapProofs -----------------------
(***************************************************************************)
(* Theorems about ArtifactBootstrap: a fill ends with the graph a full     *)
(* index would build, and a refresh of a bootstrapped graph catches up with *)
(* the working tree, for any paths, contents and histories.                *)
(***************************************************************************)
EXTENDS ArtifactBootstrap, TLAPS

-----------------------------------------------------------------------------
(* Operators.                                                              *)

Nodes == [Inside -> MaybeContent]

LEMMA Bounds == MaxEdits \in Nat /\ MaxCalls \in Nat /\ MaxFaults \in Nat
  BY BootstrapAssumption

LEMMA ElementOf == ASSUME NEW S, NEW s \in Seq(S), NEW i \in 1 .. Len(s) PROVE s[i] \in S
  OBVIOUS

LEMMA SeqGrows ==
    ASSUME NEW S, NEW T, S \subseteq T, NEW s \in Seq(S), NEW e \in T
    PROVE  Append(s, e) \in Seq(T)
  OBVIOUS

LEMMA AppendLast ==
    ASSUME NEW S, NEW s \in Seq(S), NEW e
    PROVE  /\ Append(s, e)[Len(s) + 1] = e
           /\ \A i \in 1 .. Len(s) : Append(s, e)[i] = s[i]
  OBVIOUS

LEMMA Basics ==
    ASSUME TypeOK
    PROVE  /\ Indexed \in Nodes /\ Nothing \in Nodes
           /\ NoGraph \in Graph /\ NoManifest \in Manifest /\ NoChanges \in Changes
           /\ NoCall \in Call /\ Inside \subseteq Paths
           /\ current = {p \in Inside : Indexed[p] # Gone}
           /\ \A p \in Inside : Indexed[p] = tree[p]
  BY DEF TypeOK, Indexed, Nodes, Nothing, MaybeContent, NoGraph, NoManifest, NoChanges, NoCall, Graph,
         Manifest, Changes, Call, Paths, current

LEMMA PurgedParsed ==
    ASSUME TypeOK, NEW node \in Nodes, NEW cs \in Changes
    PROVE  /\ Purged(node, cs) \in Nodes /\ Parsed(node, cs) \in Nodes
           /\ \A p \in Inside :
                /\ p \in cs.changed \cup cs.deleted \cup {x[1] : x \in cs.renamed} =>
                     Purged(node, cs)[p] = Gone
                /\ p \notin cs.changed \cup cs.deleted \cup {x[1] : x \in cs.renamed} =>
                     Purged(node, cs)[p] = node[p]
                /\ p \in cs.changed \cup NewFiles(cs) => Parsed(node, cs)[p] = tree[p]
                /\ p \notin cs.changed \cup NewFiles(cs) => Parsed(node, cs)[p] = node[p]
  BY DEF TypeOK, Purged, Parsed, Nodes, MaybeContent, Paths

LEMMA ArchiveTypes ==
    ASSUME TypeOK
    PROVE  /\ graph.node \in Nodes /\ manifest.hash \in Nodes
           /\ artifact.graph \in Graph /\ artifact.manifest \in Manifest
           /\ artifact.graph.node \in Nodes /\ artifact.manifest.hash \in Nodes
           /\ artifact.commit \in 0 .. HEAD
           /\ artifact.commit # 0 =>
                commits[artifact.commit] \in [files : [Paths -> MaybeContent], artifact : Artifact]
           /\ call.changes \in Changes
<1>1. artifact \in Artifact /\ graph \in Graph /\ manifest \in Manifest /\ call \in Call BY DEF TypeOK
<1>2. commits \in Seq([files : [Paths -> MaybeContent], artifact : Artifact]) BY DEF TypeOK
<1>3. artifact.commit \in 0 .. HEAD BY <1>1 DEF Artifact
<1>4. ASSUME artifact.commit # 0
      PROVE  commits[artifact.commit] \in [files : [Paths -> MaybeContent], artifact : Artifact]
  <2>1. HEAD \in Nat /\ HEAD = Len(commits) BY <1>2 DEF TypeOK, HEAD
  <2>2. artifact.commit \in 1 .. Len(commits) BY <1>3, <1>4, <2>1
  <2> QED BY <1>2, <2>2, ElementOf
<1>5. /\ artifact.graph \in Graph /\ artifact.manifest \in Manifest /\ call.changes \in Changes
  BY <1>1 DEF Artifact, Call
<1> QED BY <1>1, <1>3, <1>4, <1>5 DEF Graph, Manifest, Nodes

-----------------------------------------------------------------------------
(* What git names.                                                         *)

\* A line of the diff, by its code.
LEMMA DiffLines ==
    ASSUME NEW ren \in SUBSET (Lost \X Fresh), NEW l \in diff_lines(ren)
    PROVE  /\ l.code \in {"R", "D", "A", "M"}
           /\ l.code = "R" => <<l.old, l.new>> \in ren /\ l.old \in Lost /\ l.new \in Fresh
           /\ l.code = "D" => l.old = l.new /\ l.old \in Lost
           /\ l.code = "A" => l.old = l.new /\ l.new \in Fresh
           /\ l.code = "M" => /\ l.old = l.new /\ l.new \in Paths
                              /\ Old(l.new) # Gone /\ New(l.new) # Gone /\ Old(l.new) # New(l.new)
<1>1. CASE \E x \in ren : l = Line("R", x[1], x[2])
  BY <1>1 DEF Line
<1>2. CASE \E p \in Lost : l = Line("D", p, p)
  BY <1>2 DEF Line
<1>3. CASE \E p \in Fresh : l = Line("A", p, p)
  BY <1>3 DEF Line
<1>4. CASE \E p \in {q \in Paths : Old(q) # Gone /\ New(q) # Gone /\ Old(q) # New(q)} : l = Line("M", p, p)
  BY <1>4 DEF Line
<1> QED BY <1>1, <1>2, <1>3, <1>4 DEF diff_lines

LEMMA HasLines ==
    ASSUME NEW ren \in SUBSET (Lost \X Fresh)
    PROVE  /\ \A x \in ren : Line("R", x[1], x[2]) \in diff_lines(ren)
           /\ \A p \in Lost : p \notin {x[1] : x \in ren} => Line("D", p, p) \in diff_lines(ren)
           /\ \A p \in Fresh : p \notin {x[2] : x \in ren} => Line("A", p, p) \in diff_lines(ren)
           /\ \A p \in Paths : Old(p) # Gone /\ New(p) # Gone /\ Old(p) # New(p) =>
                Line("M", p, p) \in diff_lines(ren)
  BY DEF diff_lines

\* What the change set has of a path in the indexed directory.
LEMMA GitNames ==
    ASSUME TypeOK, NEW ren \in SUBSET (Lost \X Fresh),
           NEW cs, cs = git_changes(diff_lines(ren))
    PROVE  /\ cs \in Changes
           /\ \A p \in cs.changed : Old(p) # Gone /\ Old(p) # New(p) /\ p \in current
           /\ \A p \in cs.deleted : p \in Lost
           /\ \A x \in cs.renamed : x[1] \in Lost /\ x[2] \in current
           /\ cs.added \subseteq current
           /\ untracked \subseteq cs.added \cup cs.changed
           /\ \A p \in Fresh : p \in current => p \in NewFiles(cs)
           /\ \A p \in current : Old(p) # Gone /\ New(p) # Gone /\ Old(p) # New(p) => p \in cs.changed
           /\ Whole(diff_lines(ren)) =>
                \A p \in Lost : p \in Inside => p \in cs.deleted \cup {x[1] : x \in cs.renamed}
<1> DEFINE lines == diff_lines(ren)
           ds == parse_diff_lines(lines)
<1>0. current \subseteq Inside /\ Inside \subseteq Paths BY DEF current, Paths
<1>1. ds.renamed = {<<l.old, l.new>> : l \in {k \in lines : k.code = "R" /\ Under(k.new) /\ k.new \in current /\ Under(k.old)}}
  BY DEF parse_diff_lines
<1>2. ds.deleted = {l.old : l \in {k \in lines : k.code = "D" /\ Under(k.old)}}
                   \cup {l.old : l \in {k \in lines : k.code = "R" /\ Under(k.new) /\ k.new \notin current /\ Under(k.old)}}
  BY DEF parse_diff_lines
<1>3. ds.changed = {l.new : l \in {k \in lines : k.code = "M" /\ k.new \in current}}
  BY DEF parse_diff_lines
<1>4. ds.added = {l.new : l \in {k \in lines : k.code = "A" /\ k.new \in current}}
                 \cup {l.new : l \in {k \in lines : k.code = "R" /\ Under(k.new) /\ k.new \in current /\ ~Under(k.old)}}
  BY DEF parse_diff_lines
<1>5. /\ cs.renamed = ds.renamed /\ cs.deleted = ds.deleted /\ cs.changed = ds.changed
      /\ cs.added = ds.added \cup (untracked \ (ds.added \cup ds.changed))
      /\ cs = [changed |-> cs.changed, added |-> cs.added, deleted |-> cs.deleted, renamed |-> cs.renamed]
  BY DEF git_changes, collect_untracked_adds, parse_diff_lines
<1>6. untracked \subseteq current BY DEF untracked
<1> HIDE DEF ds
<1>7. \A l \in lines :
        /\ l.code = "R" => <<l.old, l.new>> \in ren /\ l.old \in Lost /\ l.new \in Fresh
        /\ l.code = "D" => l.old = l.new /\ l.old \in Lost
        /\ l.code = "A" => l.old = l.new /\ l.new \in Fresh
        /\ l.code = "M" => Old(l.new) # Gone /\ New(l.new) # Gone /\ Old(l.new) # New(l.new)
  BY DiffLines
<1>8. /\ \A x \in ren : Line("R", x[1], x[2]) \in lines
      /\ \A p \in Lost : p \notin {x[1] : x \in ren} => Line("D", p, p) \in lines
      /\ \A p \in Fresh : p \notin {x[2] : x \in ren} => Line("A", p, p) \in lines
      /\ \A p \in Paths : Old(p) # Gone /\ New(p) # Gone /\ Old(p) # New(p) => Line("M", p, p) \in lines
  BY HasLines
<1>9. \A c, p, q : Line(c, p, q).code = c /\ Line(c, p, q).old = p /\ Line(c, p, q).new = q BY DEF Line
<1> HIDE DEF lines
<1>10. cs.changed \subseteq current /\ cs.added \subseteq current BY <1>3, <1>4, <1>5, <1>6
<1>11. cs.deleted \subseteq Inside BY <1>2, <1>5 DEF Under
<1>12. cs.renamed \subseteq Inside \X Inside BY <1>1, <1>5 DEF Under
<1>13. cs \in Changes BY <1>0, <1>5, <1>10, <1>11, <1>12 DEF Changes
<1>14. ASSUME NEW p \in cs.changed PROVE Old(p) # Gone /\ Old(p) # New(p) /\ p \in current
  <2>1. PICK l \in lines : l.code = "M" /\ l.new \in current /\ p = l.new BY <1>3, <1>5
  <2> QED BY <2>1, <1>7
<1>15. ASSUME NEW p \in cs.deleted PROVE p \in Lost
  <2>1. PICK l \in lines : l.code \in {"D", "R"} /\ p = l.old BY <1>2, <1>5
  <2> QED BY <2>1, <1>7
<1>16. \A x \in cs.renamed : x[1] \in Lost /\ x[2] \in current BY <1>1, <1>5, <1>7
<1>17. untracked \subseteq cs.added \cup cs.changed BY <1>5
<1>18. ASSUME NEW p \in Fresh, p \in current PROVE p \in NewFiles(cs)
  <2>1. CASE p \notin {x[2] : x \in ren}
    <3>1. p \in ds.added BY <1>4, <1>8, <1>9, <1>18, <2>1
    <3> QED BY <3>1, <1>5 DEF NewFiles
  <2>2. CASE p \in {x[2] : x \in ren}
    <3>1. PICK x \in ren : p = x[2] BY <2>2
    <3> DEFINE l == Line("R", x[1], p)
    <3>2. l \in lines /\ l.code = "R" /\ l.old = x[1] /\ l.new = p BY <3>1, <1>8, <1>9
    <3> HIDE DEF l
    <3>3. Under(p) BY <1>18, <1>0 DEF Under
    <3>4. CASE Under(x[1])
      <4>1. <<x[1], p>> \in ds.renamed BY <3>2, <3>3, <3>4, <1>1, <1>18
      <4> QED BY <4>1, <1>5 DEF NewFiles
    <3>5. CASE ~Under(x[1])
      <4>1. p \in ds.added BY <3>2, <3>3, <3>5, <1>4, <1>18
      <4> QED BY <4>1, <1>5 DEF NewFiles
    <3> QED BY <3>4, <3>5
  <2> QED BY <2>1, <2>2
<1>19. ASSUME NEW p \in current, Old(p) # Gone, New(p) # Gone, Old(p) # New(p)
       PROVE  p \in cs.changed
  <2> DEFINE l == Line("M", p, p)
  <2>1. l \in lines /\ l.code = "M" /\ l.new = p BY <1>0, <1>8, <1>9, <1>19
  <2> HIDE DEF l
  <2> QED BY <2>1, <1>3, <1>5
<1>20. ASSUME Whole(lines), NEW p \in Lost, p \in Inside
       PROVE  p \in cs.deleted \cup {x[1] : x \in cs.renamed}
  <2>1. CASE p \notin {x[1] : x \in ren}
    <3> DEFINE l == Line("D", p, p)
    <3>1. l \in lines /\ l.code = "D" /\ l.old = p BY <1>8, <1>9, <2>1
    <3> HIDE DEF l
    <3> QED BY <3>1, <1>2, <1>5, <1>20 DEF Under
  <2>2. CASE p \in {x[1] : x \in ren}
    <3>1. PICK x \in ren : p = x[1] BY <2>2
    <3> DEFINE l == Line("R", p, x[2])
    <3>2. l \in lines /\ l.code = "R" /\ l.old = p /\ l.new = x[2] BY <3>1, <1>8, <1>9
    <3> HIDE DEF l
    <3>3. Under(p) /\ Under(x[2]) BY <3>2, <1>20 DEF Whole, Under
    <3>4. CASE x[2] \in current
      <4>1. <<p, x[2]>> \in cs.renamed BY <3>2, <3>3, <3>4, <1>1, <1>5
      <4> QED BY <4>1
    <3>5. CASE x[2] \notin current
      <4>1. p \in cs.deleted BY <3>2, <3>3, <3>5, <1>2, <1>5
      <4> QED BY <4>1
    <3> QED BY <3>4, <3>5
  <2> QED BY <2>1, <2>2
<1> QED BY <1>10, <1>13, <1>14, <1>15, <1>16, <1>17, <1>18, <1>19, <1>20 DEF lines

\* Applying what git names to the graph of the commit gives the graph of the
\* working tree.
LEMMA GitFills ==
    ASSUME TypeOK, artifact.commit # 0,
           NEW node \in Nodes, \A p \in Inside : node[p] = Old(p),
           NEW ren \in SUBSET (Lost \X Fresh), Whole(diff_lines(ren)),
           NEW cs, cs = git_changes(diff_lines(ren))
    PROVE  /\ Parsed(Purged(node, cs), cs) = Indexed
           /\ current \subseteq tracked =>
                \A p \in Inside : node[p] = tree[p] => Purged(node, cs)[p] = tree[p]
<1>1. /\ cs \in Changes
      /\ \A p \in cs.changed : Old(p) # Gone /\ Old(p) # New(p) /\ p \in current
      /\ \A p \in cs.deleted : p \in Lost
      /\ \A x \in cs.renamed : x[1] \in Lost /\ x[2] \in current
      /\ cs.added \subseteq current
      /\ untracked \subseteq cs.added \cup cs.changed
      /\ \A p \in Fresh : p \in current => p \in NewFiles(cs)
      /\ \A p \in current : Old(p) # Gone /\ New(p) # Gone /\ Old(p) # New(p) => p \in cs.changed
      /\ \A p \in Lost : p \in Inside => p \in cs.deleted \cup {x[1] : x \in cs.renamed}
  BY GitNames
<1>2. current \ tracked \subseteq cs.added \cup cs.changed BY <1>1 DEF Whole
<1>3. NewFiles(cs) \subseteq current BY <1>1 DEF NewFiles
<1>4. cs.added \subseteq NewFiles(cs) BY DEF NewFiles
<1> DEFINE gone == cs.deleted \cup {x[1] : x \in cs.renamed}
<1>5. gone \subseteq Lost BY <1>1
<1>6. \A p \in Inside : p \in Lost => p \in gone BY <1>1
<1>7. Purged(node, cs) \in Nodes BY <1>1, PurgedParsed
<1>8. \A p \in Inside : /\ p \in cs.changed \cup gone => Purged(node, cs)[p] = Gone
                        /\ p \notin cs.changed \cup gone => Purged(node, cs)[p] = node[p]
  BY <1>1, PurgedParsed
<1>9. /\ Parsed(Purged(node, cs), cs) \in Nodes
      /\ \A p \in Inside :
           /\ p \in cs.changed \cup NewFiles(cs) => Parsed(Purged(node, cs), cs)[p] = tree[p]
           /\ p \notin cs.changed \cup NewFiles(cs) =>
                Parsed(Purged(node, cs), cs)[p] = Purged(node, cs)[p]
  BY <1>1, <1>7, PurgedParsed
<1> HIDE DEF gone
<1>10. \A p \in Inside : p \in current <=> tree[p] # Gone BY DEF current
<1>11. \A p \in Inside : New(p) = IF p \in tracked THEN tree[p] ELSE Gone BY DEF New
<1>12. Inside \subseteq Paths BY Basics
<1>13. \A p \in Inside : /\ p \in Lost <=> Old(p) # Gone /\ New(p) = Gone
                         /\ p \in Fresh <=> Old(p) = Gone /\ New(p) # Gone
  BY <1>12 DEF Lost, Fresh
<1>14. ASSUME NEW p \in Inside PROVE Parsed(Purged(node, cs), cs)[p] = tree[p]
  <2>1. CASE p \in cs.changed \cup NewFiles(cs) BY <2>1, <1>9
  <2>2. CASE p \notin cs.changed \cup NewFiles(cs)
    <3>1. p \in current => p \in tracked BY <2>2, <1>2, <1>4
    <3>2. New(p) = tree[p] BY <3>1, <1>10, <1>11
    <3>3. Parsed(Purged(node, cs), cs)[p] = Purged(node, cs)[p] BY <2>2, <1>9
    <3>4. CASE p \in gone
      <4>1. New(p) = Gone BY <3>4, <1>5, <1>13
      <4> QED BY <4>1, <3>2, <3>3, <3>4, <1>8
    <3>5. CASE p \notin gone
      <4>1. ~(p \in Fresh /\ p \in current) BY <2>2, <1>1
      <4>2. ~(p \in current /\ Old(p) # Gone /\ New(p) # Gone /\ Old(p) # New(p)) BY <2>2, <1>1
      <4>3. p \notin Lost BY <3>5, <1>6
      <4>4. Old(p) = New(p) BY <4>1, <4>2, <4>3, <3>2, <1>10, <1>13
      <4>5. Purged(node, cs)[p] = node[p] BY <2>2, <3>5, <1>8
      <4> QED BY <4>4, <4>5, <3>2, <3>3
    <3> QED BY <3>4, <3>5
  <2> QED BY <2>1, <2>2
<1>15. Parsed(Purged(node, cs), cs) = Indexed
  <2>1. Indexed \in Nodes /\ \A p \in Inside : Indexed[p] = tree[p] BY Basics
  <2> QED BY <2>1, <1>9, <1>14 DEF Nodes
<1>16. ASSUME current \subseteq tracked, NEW p \in Inside, node[p] = tree[p]
       PROVE  Purged(node, cs)[p] = tree[p]
  <2>1. New(p) = tree[p] BY <1>10, <1>11, <1>16
  <2>2. Old(p) = New(p) BY <2>1, <1>16
  <2>3. p \notin cs.changed BY <2>2, <1>1
  <2>4. p \notin Lost BY <2>2, <1>13
  <2> QED BY <2>3, <2>4, <1>5, <1>8, <1>16
<1> QED BY <1>15, <1>16

\* So does what classify names, against a manifest that shows every file in
\* which the graph differs from the tree.
LEMMA ClassifyFills ==
    ASSUME TypeOK, NEW node \in Nodes, Catches(node)
    PROVE  /\ classify \in Changes
           /\ Parsed(Purged(node, classify), classify) = Indexed
<1>1. classify \in Changes BY DEF classify, Changes, current
<1>2. /\ Purged(node, classify) \in Nodes
      /\ \A p \in Inside :
           /\ p \in classify.changed \cup classify.deleted \cup {x[1] : x \in classify.renamed} =>
                Purged(node, classify)[p] = Gone
           /\ p \notin classify.changed \cup classify.deleted \cup {x[1] : x \in classify.renamed} =>
                Purged(node, classify)[p] = node[p]
  BY <1>1, PurgedParsed
<1>3. /\ Parsed(Purged(node, classify), classify) \in Nodes
      /\ \A p \in Inside :
           /\ p \in classify.changed \cup NewFiles(classify) =>
                Parsed(Purged(node, classify), classify)[p] = tree[p]
           /\ p \notin classify.changed \cup NewFiles(classify) =>
                Parsed(Purged(node, classify), classify)[p] = Purged(node, classify)[p]
  BY <1>1, <1>2, PurgedParsed
<1>4. /\ classify.renamed = {} /\ NewFiles(classify) = classify.added
      /\ \A p \in Inside :
           /\ p \in classify.changed <=> tree[p] # Gone /\ manifest.hash[p] \notin {Gone, tree[p]}
           /\ p \in classify.added <=> tree[p] # Gone /\ manifest.hash[p] = Gone
           /\ p \in classify.deleted <=> tree[p] = Gone /\ manifest.hash[p] # Gone
  BY DEF classify, NewFiles, current
<1>5. ASSUME NEW p \in Inside PROVE Parsed(Purged(node, classify), classify)[p] = tree[p]
  <2>1. CASE p \in classify.changed \cup classify.added BY <2>1, <1>3, <1>4
  <2>2. CASE p \in classify.deleted /\ p \notin classify.changed \cup classify.added
    BY <2>2, <1>2, <1>3, <1>4
  <2>3. CASE p \notin classify.deleted /\ p \notin classify.changed \cup classify.added
    <3>1. manifest.hash[p] = tree[p] BY <2>3, <1>4
    <3>2. node[p] = tree[p] BY <3>1 DEF Catches
    <3> QED BY <2>3, <3>2, <1>2, <1>3, <1>4
  <2> QED BY <2>1, <2>2, <2>3
<1> QED
  <2>1. Indexed \in Nodes /\ \A p \in Inside : Indexed[p] = tree[p] BY Basics
  <2> QED BY <2>1, <1>1, <1>3, <1>5 DEF Nodes

-----------------------------------------------------------------------------
(* Types.                                                                  *)

Steps == {"idle", "unpack", "unpack_sidecars", "open", "fill", "purge", "reparse", "save",
          "meta", "incremental", "archive", "sidecar"}

LEMMA CallMoves ==
    ASSUME TypeOK
    PROVE  /\ \A step \in Steps : Goto(step) =>
                /\ call' \in Call /\ call'.step = step
                /\ call'.method = call.method /\ call'.changes = call.changes
                /\ call'.sound = call.sound /\ call'.whole = call.whole /\ call'.full = call.full
           /\ Reindex => /\ call' \in Call /\ call'.step = "incremental"
                         /\ call'.method = call.method /\ call'.sound = FALSE
           /\ call' = NoCall => /\ call' \in Call /\ call'.step = "idle" /\ call'.method = ""
                                /\ call'.sound = FALSE
<1>1. call \in Call BY DEF TypeOK
<1>2. NoChanges \in Changes BY DEF NoChanges, Changes
<1>3. \A step \in Steps : Goto(step) =>
        /\ call' \in Call /\ call'.step = step
        /\ call'.method = call.method /\ call'.changes = call.changes
        /\ call'.sound = call.sound /\ call'.whole = call.whole /\ call'.full = call.full
  BY <1>1 DEF Goto, Call, Steps
<1>4. Reindex => /\ call' \in Call /\ call'.step = "incremental"
                 /\ call'.method = call.method /\ call'.sound = FALSE
  BY <1>1, <1>2 DEF Reindex, NoCall, Call
<1>5. call' = NoCall => /\ call' \in Call /\ call'.step = "idle" /\ call'.method = ""
                        /\ call'.sound = FALSE
  <2>1. NoCall \in Call /\ NoCall.step = "idle" /\ NoCall.method = "" /\ NoCall.sound = FALSE
    BY <1>2 DEF NoCall, Call
  <2> QED BY <2>1
<1> QED BY <1>3, <1>4, <1>5

LEMMA InitTypes == Init => TypeOK
<1> SUFFICES ASSUME Init PROVE TypeOK OBVIOUS
<1> USE BootstrapAssumption
<1>1. /\ Nothing \in Nodes BY DEF Nothing, Nodes, MaybeContent
<1>2. NoGraph \in Graph /\ NoManifest \in Manifest BY <1>1 DEF NoGraph, NoManifest, Graph, Manifest, Nodes
<1>3. commits = <<[files |-> tree, artifact |-> NoArtifact]>> /\ HEAD = 1 BY DEF Init, HEAD
<1>4. NoArtifact \in Artifact BY <1>2, <1>3 DEF NoArtifact, Artifact, SCHEMA_VERSION
<1>5. tree \in [Paths -> MaybeContent] BY DEF Init
<1>6. [files |-> tree, artifact |-> NoArtifact] \in [files : [Paths -> MaybeContent], artifact : Artifact]
  BY <1>4, <1>5
<1>7. commits \in Seq([files : [Paths -> MaybeContent], artifact : Artifact]) BY <1>3, <1>6
<1>8. NoCall \in Call BY DEF NoCall, Call, NoChanges, Changes
<1> QED BY <1>2, <1>3, <1>4, <1>5, <1>7, <1>8 DEF Init, TypeOK

\* Commits do not go away.
LEMMA Artifacts ==
    ASSUME TypeOK, UNCHANGED commits
    PROVE  Artifact' = Artifact /\ HEAD' = HEAD
<1>1. HEAD' = HEAD BY DEF HEAD
<1>2. Graph' = Graph /\ Manifest' = Manifest BY DEF Graph, Manifest
<1> QED BY <1>1, <1>2 DEF Artifact

\* What the user and the team do.
LEMMA UserTypes ==
    ASSUME TypeOK,
           \/ \E p \in Paths, c \in MaybeContent : edit(p, c)
           \/ \E p, q \in Paths : move(p, q)
           \/ \E ps \in SUBSET Paths : commit(ps)
           \/ \E kind \in {"full", "shallow", "none"} : clone(kind)
           \/ remove_graph
           \/ \E kind \in {"newer", "older", "bare"} : other_version(kind)
    PROVE  TypeOK'
<1> USE BootstrapAssumption
<1>1. CASE \E p \in Paths, c \in MaybeContent : edit(p, c)
  <2>1. UNCHANGED <<tracked, commits, git, artifact, graph, manifest, call, calls, faults, trusted>>
    BY <1>1 DEF edit, local
  <2>2. tree' \in [Paths -> MaybeContent] /\ edits' \in 0 .. MaxEdits BY <1>1 DEF edit, TypeOK
  <2> QED BY <2>1, <2>2, Artifacts DEF TypeOK
<1>2. CASE \E p, q \in Paths : move(p, q)
  <2>1. UNCHANGED <<tracked, commits, git, artifact, graph, manifest, call, calls, faults, trusted>>
    BY <1>2 DEF move, local
  <2>2. tree' \in [Paths -> MaybeContent] /\ edits' \in 0 .. MaxEdits
    BY <1>2 DEF move, TypeOK, MaybeContent
  <2> QED BY <2>1, <2>2, Artifacts DEF TypeOK
<1>3. CASE \E ps \in SUBSET Paths : commit(ps)
  <2>1. PICK ps \in SUBSET Paths : commit(ps) BY <1>3
  <2> DEFINE fs == [p \in Paths |-> IF p \in tracked \cup ps THEN tree[p] ELSE Gone]
             c == [files |-> fs, artifact |-> artifact]
  <2>2. UNCHANGED <<tree, git, artifact, graph, manifest, call, edits, calls, faults, trusted>>
    BY <2>1 DEF commit, local, counters
  <2>3. commits' = Append(commits, c) /\ tracked' \subseteq Paths /\ HEAD < MaxCommits
    BY <2>1 DEF commit
  <2>4. fs \in [Paths -> MaybeContent] BY DEF TypeOK, MaybeContent
  <2>5. commits \in Seq([files : [Paths -> MaybeContent], artifact : Artifact])
        /\ HEAD \in Nat \ {0} /\ HEAD = Len(commits)
    BY DEF TypeOK, HEAD
  <2>6. HEAD' = HEAD + 1 BY <2>3, <2>5 DEF HEAD
  <2>7. Artifact \subseteq Artifact'
    BY <2>5, <2>6 DEF Artifact, Graph, Manifest, MaybeContent, SCHEMA_VERSION
  <2>8. artifact \in Artifact BY DEF TypeOK
  <2> DEFINE R == [files : [Paths -> MaybeContent], artifact : Artifact]
             R1 == [files : [Paths -> MaybeContent], artifact : Artifact']
  <2>9. c \in R1 BY <2>4, <2>7, <2>8
  <2>10. R \subseteq R1 BY <2>7
  <2> HIDE DEF R, R1, c, fs
  <2>11. commits \in Seq(R) BY <2>5 DEF R
  <2>12. commits' \in Seq(R1) BY <2>3, <2>9, <2>10, <2>11, SeqGrows
  <2>13. commits' \in Seq([files : [Paths -> MaybeContent], artifact : Artifact'])
    BY <2>12 DEF R1
  <2>14. HEAD' \in 1 .. MaxCommits BY <2>3, <2>5, <2>6
  <2>15. artifact' \in Artifact' BY <2>2, <2>7, <2>8
  <2>16. /\ tree' \in [Paths -> MaybeContent] /\ git' \in {"full", "shallow", "none"}
         /\ graph' \in Graph /\ manifest' \in Manifest /\ call' \in Call /\ trusted' \in BOOLEAN
         /\ edits' \in 0 .. MaxEdits /\ calls' \in 0 .. MaxCalls /\ faults' \in 0 .. MaxFaults
    BY <2>2 DEF TypeOK
  <2> QED BY <2>3, <2>13, <2>14, <2>15, <2>16 DEF TypeOK
<1>4. CASE \E kind \in {"full", "shallow", "none"} : clone(kind)
  <2>1. PICK kind \in {"full", "shallow", "none"} : clone(kind) BY <1>4
  <2>2. HEAD \in 1 .. Len(commits) BY DEF HEAD, TypeOK
  <2>3. commits[HEAD] \in [files : [Paths -> MaybeContent], artifact : Artifact]
    BY <2>2, ElementOf DEF TypeOK
  <2>4. UNCHANGED <<commits, call, edits, calls, faults>> BY <2>1 DEF clone, counters
  <2>5. /\ tree' \in [Paths -> MaybeContent] /\ tracked' \subseteq Paths /\ git' \in {"full", "shallow", "none"}
        /\ artifact' \in Artifact /\ graph' = NoGraph /\ manifest' = NoManifest /\ trusted' = TRUE
    BY <2>1, <2>3 DEF clone
  <2> QED BY <2>4, <2>5, Artifacts, Basics DEF TypeOK
<1>5. CASE remove_graph
  <2>1. UNCHANGED <<tree, tracked, commits, git, artifact, manifest, call, calls, faults, trusted>>
    BY <1>5 DEF remove_graph, repository
  <2>2. graph' = NoGraph /\ edits' \in 0 .. MaxEdits BY <1>5 DEF remove_graph, TypeOK
  <2> QED BY <2>1, <2>2, Artifacts, Basics DEF TypeOK
<1>6. CASE \E kind \in {"newer", "older", "bare"} : other_version(kind)
  <2>1. PICK kind \in {"newer", "older", "bare"} : other_version(kind) BY <1>6
  <2>2. UNCHANGED <<tree, tracked, commits, git, graph, manifest, call, edits, calls, trusted>>
    BY <2>1 DEF other_version, local
  <2>3. faults' \in 0 .. MaxFaults BY <2>1 DEF other_version, TypeOK
  <2>4. artifact \in Artifact BY DEF TypeOK
  <2>5. artifact' \in Artifact
    <3>1. CASE kind = "newer" BY <2>1, <2>4, <3>1 DEF other_version, Artifact
    <3>2. CASE kind = "older"
      <4>1. artifact' = [artifact EXCEPT !.graph.marker = FALSE] BY <2>1, <3>2 DEF other_version
      <4> QED BY <4>1, <2>4 DEF Artifact, Graph
    <3>3. CASE kind = "bare"
      <4>1. artifact' = [artifact EXCEPT !.manifest = NoManifest] BY <2>1, <3>3 DEF other_version
      <4> QED BY <4>1, <2>4, Basics DEF Artifact
    <3> QED BY <3>1, <3>2, <3>3
  <2> QED BY <2>2, <2>3, <2>5, Artifacts DEF TypeOK
<1> QED BY <1>1, <1>2, <1>3, <1>4, <1>5, <1>6

-----------------------------------------------------------------------------
(* The steps between calls.                                                *)

\* Outside an import only what is trusted matters.
LEMMA NotImporting ==
    ASSUME TypeOK', TrustInv', ArchiveInv', call'.sound = FALSE,
           call'.step \in {"idle", "incremental", "archive", "sidecar"}
    PROVE  IInv'
  BY DEF IInv, UnpackInv, FillInv, BootstrapFills, RedoInv, Redone

\* Archives stay as they are.
LEMMA ArchivesKept ==
    ASSUME ArchiveInv, UNCHANGED <<commits, artifact>>
    PROVE  ArchiveInv'
  BY DEF ArchiveInv, Matching, HEAD

LEMMA IdleFacts ==
    ASSUME IInv, Idle
    PROVE  /\ call.step = "idle" /\ call.sound = FALSE
           /\ trusted /\ manifest.saved /\ graph.exists => Matching(graph, manifest)
<1>1. call.step = "idle" BY DEF Idle
<1>2. call.sound \in BOOLEAN BY DEF IInv, TypeOK, Call
<1> QED BY <1>1, <1>2 DEF IInv, UnpackInv, TrustInv

LEMMA UserSteps ==
    ASSUME IInv,
           \/ \E p \in Paths, c \in MaybeContent : edit(p, c)
           \/ \E p, q \in Paths : move(p, q)
           \/ \E ps \in SUBSET Paths : commit(ps)
           \/ \E kind \in {"full", "shallow", "none"} : clone(kind)
           \/ remove_graph
           \/ \E kind \in {"newer", "older", "bare"} : other_version(kind)
    PROVE  IInv'
<1>1. TypeOK /\ ArchiveInv BY DEF IInv
<1>2. TypeOK' BY <1>1, UserTypes
<1>3. Idle /\ UNCHANGED call BY DEF edit, move, commit, clone, remove_graph, other_version
<1>4. /\ call.step = "idle" /\ call.sound = FALSE
      /\ trusted /\ manifest.saved /\ graph.exists => Matching(graph, manifest)
  BY <1>3, IdleFacts
<1>5. call'.step = "idle" /\ call'.sound = FALSE BY <1>3, <1>4
<1>6. (UNCHANGED <<graph, manifest, trusted>>) \/ graph'.exists = FALSE
  <2>1. NoGraph.exists = FALSE BY DEF NoGraph
  <2> QED BY <2>1 DEF edit, move, commit, clone, remove_graph, other_version, local
<1>7. TrustInv' BY <1>4, <1>5, <1>6 DEF TrustInv, Matching
<1>8. ArchiveInv'
  <2>1. CASE \/ \E p \in Paths, c \in MaybeContent : edit(p, c)
             \/ \E p, q \in Paths : move(p, q)
             \/ remove_graph
    <3>1. UNCHANGED <<commits, artifact>> BY <2>1 DEF edit, move, remove_graph, repository
    <3> QED BY <3>1, <1>1, ArchivesKept
  <2>2. CASE \E ps \in SUBSET Paths : commit(ps)
    <3>1. PICK c : commits' = Append(commits, c) /\ c.artifact = artifact /\ artifact' = artifact
      BY <2>2 DEF commit
    <3>2. HEAD \in Nat /\ HEAD = Len(commits) /\ HEAD' = HEAD + 1
      BY <1>1, <3>1 DEF TypeOK, HEAD
    <3>3. \A i \in 1 .. HEAD' : commits'[i].artifact \in {artifact} \cup {commits[j].artifact : j \in 1 .. HEAD}
      <4> SUFFICES ASSUME NEW i \in 1 .. HEAD'
                   PROVE  commits'[i].artifact \in {artifact} \cup {commits[j].artifact : j \in 1 .. HEAD}
        OBVIOUS
      <4>1. CASE i = HEAD + 1
        <5>1. commits'[i] = c BY <3>1, <3>2, <4>1, <1>1, AppendLast DEF TypeOK
        <5> QED BY <5>1, <3>1
      <4>2. CASE i \in 1 .. HEAD
        <5>1. commits'[i] = commits[i] BY <3>1, <3>2, <4>2, <1>1, AppendLast DEF TypeOK
        <5> QED BY <5>1, <4>2
      <4> QED BY <3>2, <4>1, <4>2
    <3> QED BY <3>1, <3>3, <1>1 DEF ArchiveInv, Matching
  <2>3. CASE \E kind \in {"full", "shallow", "none"} : clone(kind)
    <3>1. artifact' = commits[HEAD].artifact /\ commits' = commits /\ HEAD' = HEAD
      BY <2>3 DEF clone, HEAD
    <3>2. HEAD \in 1 .. HEAD BY <1>1 DEF TypeOK
    <3> QED BY <3>1, <3>2, <1>1 DEF ArchiveInv, Matching
  <2>4. CASE \E kind \in {"newer", "older", "bare"} : other_version(kind)
    <3>1. PICK kind \in {"newer", "older", "bare"} : other_version(kind) BY <2>4
    <3>2. artifact \in Artifact BY <1>1 DEF TypeOK
    <3>3. commits' = commits /\ HEAD' = HEAD BY <3>1 DEF other_version, HEAD
    <3>4. /\ artifact'.trusted = artifact.trusted /\ artifact'.graph.exists = artifact.graph.exists
          /\ artifact'.graph.node = artifact.graph.node
          /\ artifact'.manifest.saved => artifact'.manifest = artifact.manifest
      <4>1. CASE kind = "newer"
        <5>1. artifact' = [artifact EXCEPT !.schema = SCHEMA_VERSION + 1] BY <3>1, <4>1 DEF other_version
        <5> QED BY <5>1, <3>2 DEF Artifact
      <4>2. CASE kind = "older"
        <5>1. artifact' = [artifact EXCEPT !.graph.marker = FALSE] BY <3>1, <4>2 DEF other_version
        <5> QED BY <5>1, <3>2 DEF Artifact, Graph
      <4>3. CASE kind = "bare"
        <5>1. artifact' = [artifact EXCEPT !.manifest = NoManifest] BY <3>1, <4>3 DEF other_version
        <5> QED BY <5>1, <3>2 DEF Artifact, NoManifest
      <4> QED BY <4>1, <4>2, <4>3
    <3> QED BY <3>3, <3>4, <1>1 DEF ArchiveInv, Matching
  <2> QED BY <2>1, <2>2, <2>3, <2>4
<1> QED BY <1>2, <1>5, <1>7, <1>8, NotImporting

-----------------------------------------------------------------------------
(* The steps of a call up to the fill.                                     *)

\* What does not depend on the graph.
LEMMA Frame ==
    ASSUME TypeOK, UNCHANGED repository
    PROVE  /\ UNCHANGED <<tree, tracked, commits, git, artifact>>
           /\ Indexed' = Indexed /\ current' = current /\ (AsOfCommit' <=> AsOfCommit)
           /\ Artifact' = Artifact /\ HEAD' = HEAD
           /\ ArchiveInv => ArchiveInv'
<1>1. UNCHANGED <<tree, tracked, commits, git, artifact>> BY DEF repository
<1>2. Indexed' = Indexed /\ current' = current /\ (AsOfCommit' <=> AsOfCommit)
  BY <1>1 DEF Indexed, current, AsOfCommit
<1> QED BY <1>1, <1>2, Artifacts, ArchivesKept

LEMMA FrameTypes ==
    ASSUME TypeOK, UNCHANGED repository, graph' \in Graph, manifest' \in Manifest, call' \in Call,
           trusted' \in BOOLEAN, edits' \in 0 .. MaxEdits, calls' \in 0 .. MaxCalls,
           faults' \in 0 .. MaxFaults
    PROVE  TypeOK'
  BY Frame DEF TypeOK

LEMMA StartStep ==
    ASSUME IInv, NEW b \in BOOLEAN, NEW a \in BOOLEAN, NEW f \in BOOLEAN, NEW x \in BOOLEAN,
           do_index_codebase(b, a, f, x)
    PROVE  IInv'
<1>1. TypeOK /\ ArchiveInv /\ Idle /\ UNCHANGED <<repository, graph, manifest, trusted, edits, faults>>
  BY DEF IInv, do_index_codebase, local
<1> DEFINE boot == b /\ ~graph.exists /\ artifact_exists
           step == IF boot THEN "unpack" ELSE "incremental"
           fill == boot /\ artifact_staleness /\ ~a
           sound == boot /\ AsOfCommit
<1>2. call' = [NoCall EXCEPT !.step = step, !.full = f, !.export = x, !.fill = fill, !.sound = sound]
  BY DEF do_index_codebase
<1>3. artifact_exists \in BOOLEAN /\ artifact_staleness \in BOOLEAN /\ AsOfCommit \in BOOLEAN
  BY <1>1 DEF artifact_exists, artifact_staleness, AsOfCommit, TypeOK, Artifact
<1>4. graph.exists \in BOOLEAN BY <1>1 DEF TypeOK, Graph
<1>5. fill \in BOOLEAN /\ sound \in BOOLEAN /\ step \in {"unpack", "incremental"} BY <1>3, <1>4
<1> HIDE DEF fill, sound, step
<1>6. NoChanges \in Changes BY DEF NoChanges, Changes
<1>7. call' \in Call /\ call'.step = step /\ call'.method = "" /\ call'.sound = sound
  BY <1>2, <1>5, <1>6 DEF NoCall, Call
<1>8. calls' \in 0 .. MaxCalls BY Bounds, <1>1 DEF do_index_codebase, TypeOK
<1>9. TypeOK' BY <1>1, <1>7, <1>8, FrameTypes DEF TypeOK
<1>10. trusted /\ manifest.saved /\ graph.exists => Matching(graph, manifest) BY <1>1, IdleFacts
<1>11. trusted /\ manifest.saved /\ graph.exists => Catches(graph.node)
  BY <1>10 DEF Matching, Catches
<1>12. TrustInv' BY <1>1, <1>10, <1>11, Frame DEF TrustInv, Matching, Catches
<1>13. ArchiveInv' BY <1>1, Frame
<1>14. sound => step = "unpack" /\ artifact.commit # 0 /\ AsOfCommit
  BY DEF sound, step, artifact_exists
<1>15. UnpackInv' BY <1>1, <1>5, <1>7, <1>14, Frame DEF UnpackInv
<1>16. FillInv' /\ BootstrapFills' /\ RedoInv'
  BY <1>5, <1>7 DEF FillInv, BootstrapFills, RedoInv
<1> QED BY <1>9, <1>12, <1>13, <1>15, <1>16 DEF IInv

LEMMA ImportSteps ==
    ASSUME IInv, unpack_graph \/ unpack_sidecars \/ import_compatible_artifact
    PROVE  IInv'
<1>1. TypeOK /\ ArchiveInv /\ UnpackInv /\ TrustInv /\ UNCHANGED <<repository, edits, calls, faults>>
  BY DEF IInv, unpack_graph, unpack_sidecars, import_compatible_artifact, counters
<1>2. /\ call \in Call /\ graph \in Graph /\ manifest \in Manifest /\ trusted \in BOOLEAN
      /\ artifact \in Artifact /\ artifact.graph \in Graph /\ artifact.manifest \in Manifest
      /\ artifact.trusted \in BOOLEAN /\ manifest.saved \in BOOLEAN /\ call.sound \in BOOLEAN
  BY <1>1, ArchiveTypes DEF TypeOK, Artifact, Manifest, Call
<1>3. ArchiveInv' BY <1>1, Frame
<1>4. CASE unpack_graph
  <2>1. /\ call.step = "unpack" /\ graph' = artifact.graph /\ manifest' = manifest
        /\ trusted' = ~manifest.saved /\ Goto("unpack_sidecars")
    BY <1>4 DEF unpack_graph
  <2>2. /\ call' \in Call /\ call'.step = "unpack_sidecars" /\ call'.method = call.method
        /\ call'.sound = call.sound
    BY <1>1, <2>1, CallMoves DEF Steps
  <2>3. TypeOK' BY <1>1, <1>2, <2>1, <2>2, FrameTypes DEF TypeOK
  <2>4. TrustInv' BY <2>1 DEF TrustInv
  <2>5. UnpackInv' BY <1>1, <2>1, <2>2, Frame DEF UnpackInv
  <2>6. FillInv' /\ BootstrapFills' /\ RedoInv' BY <2>2 DEF FillInv, BootstrapFills, RedoInv
  <2> QED BY <1>3, <2>3, <2>4, <2>5, <2>6 DEF IInv
<1>5. CASE unpack_sidecars
  <2>1. /\ call.step = "unpack_sidecars" /\ graph' = graph /\ Goto("open")
        /\ artifact.manifest.saved => manifest' = artifact.manifest /\ trusted' = artifact.trusted
        /\ ~artifact.manifest.saved => manifest' = manifest /\ trusted' = trusted
    BY <1>5 DEF unpack_sidecars
  <2>2. /\ call' \in Call /\ call'.step = "open" /\ call'.method = call.method
        /\ call'.sound = call.sound
    BY <1>1, <2>1, CallMoves DEF Steps
  <2>3. TypeOK' BY <1>1, <1>2, <2>1, <2>2, FrameTypes DEF TypeOK
  <2>4. graph = artifact.graph BY <1>1, <2>1 DEF UnpackInv
  <2>5. TrustInv'
    <3>1. CASE artifact.manifest.saved
      <4>1. artifact.trusted /\ artifact.graph.exists => Matching(artifact.graph, artifact.manifest)
        BY <1>1, <3>1 DEF ArchiveInv
      <4> QED BY <2>1, <2>2, <2>4, <3>1, <4>1 DEF TrustInv, Matching
    <3>2. CASE ~artifact.manifest.saved
      BY <1>1, <2>1, <2>2, <3>2 DEF TrustInv, Matching
    <3> QED BY <3>1, <3>2
  <2>6. call.sound => artifact.manifest.saved
    <3>1. call.sound => artifact.manifest = [saved |-> TRUE, hash |-> artifact.graph.node]
      BY <1>1 DEF UnpackInv, AsOfCommit
    <3>2. [saved |-> TRUE, hash |-> artifact.graph.node].saved = TRUE OBVIOUS
    <3> QED BY <3>1, <3>2
  <2>7. UnpackInv' BY <1>1, <2>1, <2>2, <2>4, <2>6, Frame DEF UnpackInv
  <2>8. FillInv' /\ BootstrapFills' /\ RedoInv' BY <2>2 DEF FillInv, BootstrapFills, RedoInv
  <2> QED BY <1>3, <2>3, <2>5, <2>7, <2>8 DEF IInv
<1>6. CASE import_compatible_artifact
  <2>1. /\ call.step = "open" /\ graph' = graph /\ manifest' = manifest /\ trusted' = trusted
        /\ \/ Goto("fill") \/ Goto("meta") \/ Reindex
    BY <1>6 DEF import_compatible_artifact, local
  <2>2. trusted /\ manifest.saved /\ graph.exists => Matching(graph, manifest)
    BY <1>1, <2>1 DEF TrustInv
  <2>3. CASE Reindex
    <3>1. call' \in Call /\ call'.step = "incremental" /\ call'.sound = FALSE
      BY <1>1, <2>3, CallMoves
    <3>2. TypeOK' BY <1>1, <1>2, <2>1, <3>1, FrameTypes DEF TypeOK
    <3>3. TrustInv' BY <1>1, <2>1, <2>2, Frame DEF TrustInv, Matching, Catches
    <3> QED BY <1>3, <3>1, <3>2, <3>3, NotImporting
  <2>4. CASE Goto("fill") \/ Goto("meta")
    <3>1. /\ call' \in Call /\ call'.step \in {"fill", "meta"} /\ call'.method = call.method
          /\ call'.sound = call.sound
      BY <1>1, <2>4, CallMoves DEF Steps
    <3>2. TypeOK' BY <1>1, <1>2, <2>1, <3>1, FrameTypes DEF TypeOK
    <3>3. TrustInv' BY <2>1, <2>2, <3>1 DEF TrustInv, Matching
    <3>4. UnpackInv' BY <1>1, <2>1, <3>1, Frame DEF UnpackInv
    <3>5. call.method = "" BY <1>1, <2>1 DEF UnpackInv
    <3>6. FillInv' /\ BootstrapFills' /\ RedoInv' BY <3>1, <3>5 DEF FillInv, BootstrapFills, RedoInv
    <3> QED BY <1>3, <3>2, <3>3, <3>4, <3>6 DEF IInv
  <2> QED BY <2>1, <2>3, <2>4
<1> QED BY <1>4, <1>5, <1>6

-----------------------------------------------------------------------------
(* The fill.                                                               *)

\* Every way out of an import: the graph matches the manifest or catches up.
LEMMA Reindexes ==
    ASSUME IInv, UNCHANGED <<repository, manifest, edits, calls>>, Reindex,
           graph' = graph \/ graph' = NoGraph, faults' \in 0 .. MaxFaults, trusted' \in BOOLEAN,
           trusted' /\ manifest.saved /\ graph.exists =>
               /\ Catches(graph.node)
               /\ call.method = "" => Matching(graph, manifest)
    PROVE  IInv'
<1>1. TypeOK /\ ArchiveInv BY DEF IInv
<1>2. /\ call' \in Call /\ call'.step = "incremental" /\ call'.method = call.method
      /\ call'.sound = FALSE
  BY <1>1, CallMoves
<1>3. TypeOK' BY <1>1, <1>2, Basics, FrameTypes DEF TypeOK
<1>4. ArchiveInv' BY <1>1, Frame
<1>5. NoGraph.exists = FALSE BY DEF NoGraph
<1>6. TrustInv' BY <1>1, <1>2, <1>5, Frame DEF TrustInv, Matching, Catches
<1> QED BY <1>2, <1>3, <1>4, <1>6, NotImporting

LEMMA MatchingCatches ==
    ASSUME Matching(graph, manifest) PROVE Catches(graph.node)
  BY DEF Matching, Catches

LEMMA ImportFails ==
    ASSUME IInv, NEW removed \in BOOLEAN, import_failed(removed)
    PROVE  IInv'
<1>1. /\ call.step \in {"unpack", "unpack_sidecars"} /\ Reindex
      /\ UNCHANGED <<repository, manifest, edits, calls, trusted>>
      /\ graph' = graph \/ graph' = NoGraph
  BY DEF import_failed
<1>2. faults' \in 0 .. MaxFaults BY Bounds DEF import_failed, IInv, TypeOK
<1>3. trusted /\ manifest.saved /\ graph.exists => Matching(graph, manifest)
  BY <1>1 DEF IInv, TrustInv
<1> QED BY <1>1, <1>2, <1>3, MatchingCatches, Reindexes DEF IInv, TypeOK

LEMMA FillFails ==
    ASSUME IInv, fill_failed
    PROVE  IInv'
<1>1. /\ call.step \in {"fill", "purge", "reparse", "save"} /\ Reindex
      /\ UNCHANGED <<repository, graph, manifest, edits, calls>>
      /\ trusted' = (trusted /\ (Redone \/ call.step \in {"fill", "purge"}))
  BY DEF fill_failed, local
<1>2. faults' \in 0 .. MaxFaults BY Bounds DEF fill_failed, IInv, TypeOK
<1>3. trusted' \in BOOLEAN BY <1>1
<1>4. ASSUME trusted', manifest.saved, graph.exists
      PROVE  Catches(graph.node) /\ (call.method = "" => Matching(graph, manifest))
  <2>1. CASE call.step \in {"fill", "purge"}
    <3>1. Matching(graph, manifest) BY <1>1, <1>4, <2>1 DEF IInv, TrustInv
    <3> QED BY <3>1, MatchingCatches
  <2>2. CASE call.step \in {"reparse", "save"}
    <3>1. Redone BY <1>1, <1>4, <2>2
    <3> QED BY <3>1, <2>2 DEF IInv, RedoInv, UnpackInv
  <2> QED BY <1>1, <2>1, <2>2
<1> QED BY <1>1, <1>2, <1>3, <1>4, Reindexes

\* A fill begins: any method whose changes lead from the graph to the tree.
LEMMA Begins ==
    ASSUME IInv, call.step = "fill", UNCHANGED <<repository, graph, manifest, trusted, edits, calls>>,
           faults' \in 0 .. MaxFaults,
           NEW method \in {"git_diff", "content_hash"}, NEW cs \in Changes, NEW whole \in BOOLEAN,
           call' = [call EXCEPT !.step = "purge", !.method = method, !.changes = cs, !.whole = whole],
           call.sound /\ whole => /\ Parsed(Purged(graph.node, cs), cs) = Indexed
                                  /\ current \subseteq tracked => Catches(Purged(graph.node, cs))
    PROVE  IInv'
<1>1. TypeOK /\ ArchiveInv /\ UnpackInv /\ TrustInv BY DEF IInv
<1>2. call \in Call BY <1>1 DEF TypeOK
<1>3. /\ call' \in Call /\ call'.step = "purge" /\ call'.method = method /\ call'.changes = cs
      /\ call'.whole = whole /\ call'.sound = call.sound
  BY <1>2 DEF Call
<1>4. TypeOK' BY <1>1, <1>3, FrameTypes DEF TypeOK
<1>5. ArchiveInv' BY <1>1, Frame
<1>6. TrustInv' BY <1>1, <1>3 DEF TrustInv, Matching
<1>7. UnpackInv' BY <1>1, <1>3, Frame DEF UnpackInv
<1>8. BootstrapFills' BY <1>3 DEF BootstrapFills
<1>9. /\ UNCHANGED tree /\ Indexed' = Indexed /\ current' = current /\ UNCHANGED tracked BY <1>1, Frame
<1>10. /\ Purged(graph.node, call.changes)' = Purged(graph.node, cs)
       /\ Parsed(Purged(graph.node, call.changes), call.changes)' = Parsed(Purged(graph.node, cs), cs)
  BY <1>3, <1>9 DEF Purged, Parsed, NewFiles
<1>11. FillInv' BY <1>3, <1>9, <1>10 DEF FillInv
<1>12. Catches(Purged(graph.node, call.changes))' <=> Catches(Purged(graph.node, cs))
  BY <1>9, <1>10 DEF Catches
<1>13. RedoInv' BY <1>3, <1>9, <1>12 DEF RedoInv, Redone
<1> QED BY <1>4, <1>5, <1>6, <1>7, <1>8, <1>11, <1>13 DEF IInv

\* The archive's graph of a sound import.
LEMMA SoundFacts ==
    ASSUME IInv, call.sound, call.step \in {"fill", "purge"}
    PROVE  /\ artifact.commit # 0 /\ graph.node \in Nodes
           /\ \A p \in Inside : graph.node[p] = Old(p)
           /\ manifest.saved /\ manifest.hash = graph.node
<1>1. TypeOK /\ artifact.commit # 0 /\ AsOfCommit /\ graph = artifact.graph BY DEF IInv, UnpackInv
<1>2. graph.node \in Nodes BY <1>1, ArchiveTypes
<1>3. \A p \in Inside : graph.node[p] = Old(p) BY <1>1 DEF AsOfCommit, Old
<1>4. manifest = [saved |-> TRUE, hash |-> graph.node] BY <1>1 DEF IInv, UnpackInv, AsOfCommit
<1>5. [saved |-> TRUE, hash |-> graph.node].saved /\ [saved |-> TRUE, hash |-> graph.node].hash = graph.node
  OBVIOUS
<1> QED BY <1>1, <1>2, <1>3, <1>4, <1>5

LEMMA FillBegins ==
    ASSUME IInv, fill_after_bootstrap \/ diff_failed
    PROVE  IInv'
<1>1. TypeOK /\ call.step = "fill" /\ UNCHANGED <<repository, graph, manifest, trusted, edits, calls>>
  BY DEF IInv, fill_after_bootstrap, diff_failed, local, counters
<1>2. faults' \in 0 .. MaxFaults
  <2>1. faults' = faults \/ (faults < MaxFaults /\ faults' = faults + 1)
    BY DEF fill_after_bootstrap, diff_failed, counters
  <2> QED BY <1>1, <2>1, Bounds DEF TypeOK
<1>3. call \in Call /\ call.whole \in BOOLEAN BY <1>1 DEF TypeOK, Call
<1>4. CASE \E ren \in Renames :
             call' = [call EXCEPT !.step = "purge", !.method = "git_diff",
                                  !.changes = git_changes(diff_lines(ren)), !.whole = Whole(diff_lines(ren))]
  <2>1. PICK ren \in Renames :
             call' = [call EXCEPT !.step = "purge", !.method = "git_diff",
                                  !.changes = git_changes(diff_lines(ren)), !.whole = Whole(diff_lines(ren))]
    BY <1>4
  <2>2. ren \in SUBSET (Lost \X Fresh) BY DEF Renames
  <2> DEFINE cs == git_changes(diff_lines(ren))
             whole == Whole(diff_lines(ren))
  <2>3. cs \in Changes BY <1>1, <2>2, GitNames
  <2>4. whole \in BOOLEAN BY DEF Whole
  <2>5. ASSUME call.sound, whole
        PROVE  /\ Parsed(Purged(graph.node, cs), cs) = Indexed
               /\ current \subseteq tracked => Catches(Purged(graph.node, cs))
    <3>1. /\ artifact.commit # 0 /\ graph.node \in Nodes
          /\ \A p \in Inside : graph.node[p] = Old(p)
          /\ manifest.hash = graph.node
      BY <1>1, <2>5, SoundFacts
    <3>2. /\ Parsed(Purged(graph.node, cs), cs) = Indexed
          /\ current \subseteq tracked =>
               \A p \in Inside : graph.node[p] = tree[p] => Purged(graph.node, cs)[p] = tree[p]
      BY <1>1, <2>2, <2>5, <3>1, GitFills
    <3> QED BY <3>1, <3>2 DEF Catches
  <2> HIDE DEF cs, whole
  <2>6. call' = [call EXCEPT !.step = "purge", !.method = "git_diff", !.changes = cs, !.whole = whole]
    BY <2>1 DEF cs, whole
  <2> QED BY <1>1, <1>2, <2>3, <2>4, <2>5, <2>6, Begins
<1>5. CASE fill_after_bootstrap /\ ~git_knows /\ manifest.saved
  <2>1. call' = [call EXCEPT !.step = "purge", !.method = "content_hash", !.changes = classify]
    BY <1>5 DEF fill_after_bootstrap
  <2>2. classify \in Changes BY DEF classify, Changes, current
  <2> DEFINE cs == classify
  <2>3. ASSUME call.sound
        PROVE  /\ Parsed(Purged(graph.node, cs), cs) = Indexed
               /\ Catches(Purged(graph.node, cs))
    <3>1. graph.node \in Nodes /\ manifest.hash = graph.node BY <1>1, <2>3, SoundFacts
    <3>2. Catches(graph.node) BY <3>1 DEF Catches
    <3>3. Parsed(Purged(graph.node, cs), cs) = Indexed BY <1>1, <3>1, <3>2, ClassifyFills
    <3>4. ASSUME NEW p \in Inside, manifest.hash[p] = tree[p] PROVE Purged(graph.node, cs)[p] = tree[p]
      <4>1. p \notin classify.changed \cup classify.deleted \cup {x[1] : x \in classify.renamed}
        BY <3>4 DEF classify, current
      <4>2. Purged(graph.node, cs)[p] = graph.node[p] BY <1>1, <2>2, <3>1, <4>1, PurgedParsed
      <4> QED BY <3>1, <3>4, <4>2
    <3> QED BY <3>3, <3>4 DEF Catches
  <2> HIDE DEF cs
  <2>4. cs \in Changes BY <2>2 DEF cs
  <2> DEFINE whole == call.whole
  <2>5. call' = [call EXCEPT !.step = "purge", !.method = "content_hash", !.changes = cs, !.whole = whole]
    BY <1>3, <2>1 DEF cs, Call
  <2> HIDE DEF whole
  <2>6. whole \in BOOLEAN BY <1>3 DEF whole
  <2> QED BY <1>1, <1>2, <2>3, <2>4, <2>5, <2>6, Begins
<1>6. CASE Reindex
  <2>1. trusted /\ manifest.saved /\ graph.exists => Matching(graph, manifest)
    BY <1>1 DEF IInv, TrustInv
  <2> QED BY <1>1, <1>2, <1>6, <2>1, MatchingCatches, Reindexes DEF TypeOK
<1>7. CASE diff_failed
  <2> DEFINE cs == git_changes({})
  <2>1. call' = [call EXCEPT !.step = "purge", !.method = "git_diff", !.changes = cs, !.whole = FALSE]
    BY <1>7 DEF diff_failed
  <2>2. cs \in Changes
    BY DEF git_changes, collect_untracked_adds, parse_diff_lines, Changes, untracked, current
  <2> HIDE DEF cs
  <2> QED BY <1>1, <1>2, <2>1, <2>2, Begins
<1> QED BY <1>4, <1>5, <1>6, <1>7 DEF fill_after_bootstrap

LEMMA PurgeStep ==
    ASSUME IInv, purge
    PROVE  IInv'
<1>1. /\ TypeOK /\ ArchiveInv /\ UnpackInv /\ FillInv /\ RedoInv
      /\ UNCHANGED <<repository, manifest, trusted, edits, calls, faults>>
      /\ call.step = "purge" /\ Goto("reparse")
      /\ graph' = [graph EXCEPT !.node = Purged(graph.node, call.changes)]
  BY DEF IInv, purge, counters
<1>2. /\ call' \in Call /\ call'.step = "reparse" /\ call'.method = call.method
      /\ call'.changes = call.changes /\ call'.sound = call.sound /\ call'.whole = call.whole
  BY <1>1, CallMoves DEF Steps
<1>3. graph \in Graph /\ graph.node \in Nodes /\ call.changes \in Changes
  BY <1>1, ArchiveTypes DEF TypeOK
<1>4. Purged(graph.node, call.changes) \in Nodes BY <1>1, <1>3, PurgedParsed
<1>5. graph' \in Graph /\ graph'.node = Purged(graph.node, call.changes)
  BY <1>1, <1>3, <1>4 DEF Graph, Nodes
<1>6. TypeOK' BY <1>1, <1>2, <1>5, FrameTypes DEF TypeOK
<1>7. ArchiveInv' BY <1>1, Frame
<1>8. TrustInv' BY <1>2 DEF TrustInv
<1>9. UnpackInv' BY <1>1, <1>2, Frame DEF UnpackInv
<1>10. BootstrapFills' BY <1>2 DEF BootstrapFills
<1>11. UNCHANGED <<tree, tracked>> /\ Indexed' = Indexed /\ current' = current BY <1>1, Frame
<1>12. Parsed(graph.node, call.changes)' = Parsed(Purged(graph.node, call.changes), call.changes)
  BY <1>2, <1>5, <1>11 DEF Parsed, NewFiles
<1>13. FillInv' BY <1>1, <1>2, <1>11, <1>12 DEF FillInv
<1>14. Catches(graph.node)' <=> Catches(Purged(graph.node, call.changes))
  BY <1>1, <1>5, <1>11 DEF Catches
<1>15. RedoInv' BY <1>1, <1>2, <1>11, <1>14 DEF RedoInv, Redone
<1> QED BY <1>6, <1>7, <1>8, <1>9, <1>10, <1>13, <1>15 DEF IInv

LEMMA ReparseStep ==
    ASSUME IInv, reparse
    PROVE  IInv'
<1>1. /\ TypeOK /\ ArchiveInv /\ UnpackInv /\ FillInv /\ RedoInv
      /\ UNCHANGED <<repository, manifest, edits, calls, faults>> /\ call.step = "reparse"
  BY DEF IInv, reparse, counters
<1>2. CASE Collides(graph.node, call.changes)
  <2>1. Reindex /\ trusted' = (trusted /\ Redone) /\ graph' = graph BY <1>2 DEF reparse
  <2>2. trusted' => Catches(graph.node) /\ call.method # "" BY <1>1, <2>1 DEF RedoInv, UnpackInv
  <2> QED BY <1>1, <2>1, <2>2, Reindexes DEF TypeOK
<1>3. CASE ~Collides(graph.node, call.changes)
  <2>1. /\ Goto("save") /\ trusted' = trusted
        /\ graph' = [graph EXCEPT !.node = Parsed(graph.node, call.changes)]
    BY <1>3 DEF reparse
  <2>2. /\ call' \in Call /\ call'.step = "save" /\ call'.method = call.method
        /\ call'.changes = call.changes /\ call'.sound = call.sound /\ call'.whole = call.whole
    BY <1>1, <2>1, CallMoves DEF Steps
  <2>3. graph \in Graph /\ graph.node \in Nodes /\ call.changes \in Changes
    BY <1>1, ArchiveTypes DEF TypeOK
  <2>4. Parsed(graph.node, call.changes) \in Nodes BY <1>1, <2>3, PurgedParsed
  <2>5. graph' \in Graph /\ graph'.node = Parsed(graph.node, call.changes)
    BY <2>1, <2>3, <2>4 DEF Graph, Nodes
  <2>6. TypeOK' BY <1>1, <2>1, <2>2, <2>5, FrameTypes DEF TypeOK
  <2>7. ArchiveInv' BY <1>1, Frame
  <2>8. TrustInv' BY <2>2 DEF TrustInv
  <2>9. UnpackInv' BY <1>1, <2>2, Frame DEF UnpackInv
  <2>10. BootstrapFills' BY <2>2 DEF BootstrapFills
  <2>11. UNCHANGED <<tree, tracked>> /\ Indexed' = Indexed /\ current' = current BY <1>1, Frame
  <2>12. FillInv' BY <1>1, <2>2, <2>5, <2>11 DEF FillInv
  <2>13. ASSUME Catches(graph.node) PROVE Catches(graph.node)'
    <3> SUFFICES ASSUME NEW p \in Inside, manifest.hash[p] = tree[p]
                 PROVE  Parsed(graph.node, call.changes)[p] = tree[p]
      BY <1>1, <2>5, <2>11 DEF Catches
    <3>1. graph.node[p] = tree[p] BY <2>13 DEF Catches
    <3> QED BY <3>1, <1>1, <2>3, PurgedParsed
  <2>14. RedoInv' BY <1>1, <2>2, <2>11, <2>13 DEF RedoInv, Redone
  <2> QED BY <2>6, <2>7, <2>8, <2>9, <2>10, <2>12, <2>14 DEF IInv
<1> QED BY <1>2, <1>3

LEMMA SaveStep ==
    ASSUME IInv, save_manifest
    PROVE  IInv'
<1>1. /\ TypeOK /\ ArchiveInv /\ UnpackInv /\ FillInv
      /\ UNCHANGED <<repository, graph, edits, calls, faults>> /\ call.step = "save" /\ Goto("meta")
      /\ manifest' = [saved |-> TRUE, hash |-> Indexed] /\ trusted' = (call.sound /\ call.whole)
  BY DEF IInv, save_manifest, counters
<1>2. /\ call' \in Call /\ call'.step = "meta" /\ call'.method = call.method
      /\ call'.sound = call.sound /\ call'.whole = call.whole
  BY <1>1, CallMoves DEF Steps
<1>3. manifest' \in Manifest /\ manifest'.hash = Indexed
  BY <1>1, Basics DEF Manifest, Nodes
<1>4. TypeOK' BY <1>1, <1>2, <1>3, FrameTypes DEF TypeOK
<1>5. ArchiveInv' BY <1>1, Frame
<1>6. call.sound /\ call.whole => graph.node = Indexed BY <1>1 DEF FillInv
<1>7. TrustInv' BY <1>1, <1>2, <1>3, <1>6 DEF TrustInv, Matching
<1>8. UnpackInv' BY <1>1, <1>2, Frame DEF UnpackInv
<1>9. Indexed' = Indexed BY <1>1, Frame
<1>10. BootstrapFills' BY <1>1, <1>2, <1>6, <1>9 DEF BootstrapFills
<1>11. FillInv' /\ RedoInv' BY <1>2 DEF FillInv, RedoInv
<1> QED BY <1>4, <1>5, <1>7, <1>8, <1>10, <1>11 DEF IInv

-----------------------------------------------------------------------------
(* The end of a call.                                                      *)

LEMMA MetaStep ==
    ASSUME IInv, write_graph_meta
    PROVE  IInv'
<1>1. /\ TypeOK /\ ArchiveInv /\ call.step = "meta" /\ call' = NoCall
      /\ UNCHANGED <<repository, graph, manifest, trusted, edits, calls, faults>>
  BY DEF IInv, write_graph_meta, counters
<1>2. call' \in Call /\ call'.step = "idle" /\ call'.sound = FALSE BY <1>1, CallMoves
<1>3. TypeOK' BY <1>1, <1>2, FrameTypes DEF TypeOK
<1>4. TrustInv' BY <1>1, <1>2 DEF IInv, TrustInv, Matching
<1> QED BY <1>1, <1>2, <1>3, <1>4, Frame, NotImporting

\* A refresh, or a full index, of a graph that is as trusted says.
LEMMA Indexes ==
    ASSUME IInv, try_incremental_index \/ full_index
    PROVE  /\ IInv'
           /\ trusted => graph'.node = Indexed
<1>1. /\ TypeOK /\ ArchiveInv /\ TrustInv /\ call.step = "incremental" /\ call.sound = FALSE
      /\ UNCHANGED <<repository, edits, calls, faults>>
  BY DEF IInv, UnpackInv, try_incremental_index, full_index, counters, TypeOK, Call
<1>2. PICK node \in Nodes :
        /\ finish(node)
        /\ trusted \/ trusted' => node = Indexed
        /\ trusted' \in BOOLEAN
  <2>1. CASE full_index BY <1>1, <2>1, Basics DEF full_index
  <2>2. CASE try_incremental_index
    <3> DEFINE node == Parsed(Purged(graph.node, classify), classify)
    <3>1. finish(node) /\ Refreshable /\ trusted' = trusted BY <2>2 DEF try_incremental_index
    <3>2. classify \in Changes BY DEF classify, Changes, current
    <3>3. graph.node \in Nodes BY <1>1, ArchiveTypes
    <3>4. node \in Nodes BY <1>1, <3>2, <3>3, PurgedParsed
    <3>5. trusted => Catches(graph.node) BY <1>1, <3>1 DEF Refreshable, TrustInv
    <3>6. trusted => node = Indexed BY <1>1, <3>3, <3>5, ClassifyFills
    <3>7. trusted' \in BOOLEAN BY <1>1, <3>1 DEF TypeOK
    <3> HIDE DEF node
    <3> QED BY <3>1, <3>4, <3>6, <3>7
  <2> QED BY <2>1, <2>2
<1>3. /\ graph' = [exists |-> TRUE, marker |-> TRUE, node |-> node]
      /\ manifest' = [saved |-> TRUE, hash |-> Indexed]
      /\ call' = [call EXCEPT !.step = "archive"] \/ call' = NoCall
  BY <1>2 DEF finish
<1>4. /\ graph' \in Graph /\ graph'.node = node BY <1>3 DEF Graph, Nodes
<1>5. manifest' \in Manifest /\ manifest'.hash = Indexed BY <1>1, <1>3, Basics DEF Manifest, Nodes
<1>6. call' \in Call /\ call'.step \in {"archive", "idle"} /\ call'.sound = FALSE
  <2>1. CASE call' = [call EXCEPT !.step = "archive"]
    <3>1. Goto("archive") BY <2>1 DEF Goto
    <3> QED BY <1>1, <3>1, CallMoves DEF Steps
  <2>2. CASE call' = NoCall BY <1>1, <2>2, CallMoves
  <2> QED BY <1>3, <2>1, <2>2
<1>7. TypeOK' BY <1>1, <1>2, <1>4, <1>5, <1>6, FrameTypes DEF TypeOK
<1>8. TrustInv' BY <1>2, <1>4, <1>5, <1>6 DEF TrustInv, Matching
<1>9. ArchiveInv' BY <1>1, Frame
<1> QED BY <1>2, <1>4, <1>6, <1>7, <1>8, <1>9, NotImporting

LEMMA ExportSteps ==
    ASSUME IInv, export_archive \/ export_sidecar
    PROVE  IInv'
<1>1. /\ TypeOK /\ ArchiveInv /\ TrustInv /\ call.step \in {"archive", "sidecar"} /\ call.sound = FALSE
      /\ UNCHANGED <<tree, tracked, commits, git, graph, manifest, trusted, edits, calls, faults>>
  BY DEF IInv, UnpackInv, export_archive, export_sidecar, counters, local, TypeOK, Call
<1>2. artifact \in Artifact /\ HEAD \in Nat /\ Artifact' = Artifact /\ HEAD' = HEAD
  BY <1>1, Artifacts DEF TypeOK
<1>3. trusted /\ manifest.saved /\ graph.exists => Matching(graph, manifest) BY <1>1 DEF TrustInv
<1>4. /\ artifact' \in Artifact /\ call' \in Call /\ call'.step \in {"sidecar", "idle"}
      /\ call'.sound = FALSE
      /\ \/ /\ artifact'.trusted = artifact.trusted /\ artifact'.graph = artifact.graph
            /\ artifact'.manifest = artifact.manifest
         \/ /\ artifact'.trusted = trusted /\ artifact'.graph = graph /\ artifact'.manifest = manifest
  <2>1. CASE export_archive
    <3>1. artifact' = [artifact EXCEPT !.archive = TRUE, !.graph = graph, !.manifest = manifest,
                                       !.trusted = trusted]
      BY <2>1 DEF export_archive
    <3>2. /\ artifact' \in Artifact /\ artifact'.trusted = trusted /\ artifact'.graph = graph
          /\ artifact'.manifest = manifest
      BY <1>1, <1>2, <3>1 DEF Artifact, TypeOK
    <3>3. Goto("sidecar") BY <2>1 DEF export_archive
    <3> QED BY <1>1, <3>2, <3>3, CallMoves DEF Steps
  <2>2. CASE export_sidecar
    <3>1. artifact' = [artifact EXCEPT !.commit = HEAD, !.schema = SCHEMA_VERSION] /\ call' = NoCall
      BY <2>2 DEF export_sidecar
    <3>2. HEAD \in 0 .. HEAD BY <1>2
    <3>3. /\ artifact' \in Artifact /\ artifact'.trusted = artifact.trusted
          /\ artifact'.graph = artifact.graph /\ artifact'.manifest = artifact.manifest
      BY <1>2, <3>1, <3>2 DEF Artifact
    <3> QED BY <1>1, <3>1, <3>3, CallMoves
  <2> QED BY <2>1, <2>2
<1>5. TypeOK' BY <1>1, <1>2, <1>4 DEF TypeOK
<1>6. TrustInv' BY <1>1, <1>3, <1>4 DEF TrustInv, Matching
<1>7. ArchiveInv' BY <1>1, <1>2, <1>3, <1>4 DEF ArchiveInv, Matching
<1> QED BY <1>4, <1>5, <1>6, <1>7, NotImporting

LEMMA CutShort ==
    ASSUME IInv, cut_short
    PROVE  IInv'
<1>1. /\ TypeOK /\ ArchiveInv /\ TrustInv /\ call' = NoCall
      /\ UNCHANGED <<repository, graph, manifest, edits, calls>>
      /\ trusted' = (trusted /\ call.step \notin {"reparse", "save"}
                             /\ (call.step = "incremental" => call.method = ""))
  BY DEF IInv, cut_short, local
<1>2. call' \in Call /\ call'.step = "idle" /\ call'.sound = FALSE BY <1>1, CallMoves
<1>3. faults' \in 0 .. MaxFaults
  <2>1. faults < MaxFaults /\ faults' = faults + 1 BY DEF cut_short
  <2>2. faults \in 0 .. MaxFaults BY <1>1 DEF TypeOK
  <2> QED BY <2>1, <2>2, Bounds
<1>4. TypeOK' BY <1>1, <1>2, <1>3, FrameTypes DEF TypeOK
<1>5. TrustInv' BY <1>1, <1>2 DEF TrustInv, Matching
<1> QED BY <1>1, <1>2, <1>4, <1>5, Frame, NotImporting

-----------------------------------------------------------------------------
(* The theorems.                                                           *)

LEMMA InitInv == Init => IInv
<1> SUFFICES ASSUME Init PROVE IInv OBVIOUS
<1>1. TypeOK BY InitTypes
<1>2. call.step = "idle" /\ call.sound = FALSE BY DEF Init, NoCall
<1>3. NoGraph.exists = FALSE /\ NoArtifact.manifest.saved = FALSE BY DEF NoGraph, NoArtifact, NoManifest
<1>4. UnpackInv /\ FillInv /\ BootstrapFills /\ RedoInv
  BY <1>2 DEF UnpackInv, FillInv, BootstrapFills, RedoInv, Redone
<1>5. TrustInv BY <1>3 DEF Init, TrustInv
<1>6. ArchiveInv
  <2>1. commits = <<[files |-> tree, artifact |-> NoArtifact]>> /\ HEAD = 1 /\ artifact = NoArtifact
    BY DEF Init, HEAD
  <2>2. commits[1].artifact = NoArtifact BY <2>1
  <2>3. \A i \in 1 .. HEAD : commits[i].artifact = NoArtifact BY <2>1, <2>2
  <2> QED BY <1>3, <2>1, <2>3 DEF ArchiveInv
<1> QED BY <1>1, <1>4, <1>5, <1>6 DEF IInv

LEMMA StepInv == IInv /\ [Next]_vars => IInv'
<1> SUFFICES ASSUME IInv, [Next]_vars PROVE IInv' OBVIOUS
<1>1. CASE UNCHANGED vars
  <2>1. UNCHANGED <<tree, tracked, commits, git, artifact, graph, manifest, call, edits, calls, faults,
                    trusted, repository>>
    BY <1>1 DEF vars, repository, local, counters
  <2>2. TypeOK /\ UnpackInv /\ FillInv /\ BootstrapFills /\ RedoInv /\ TrustInv /\ ArchiveInv BY DEF IInv
  <2>3. TypeOK' BY <2>1, <2>2, FrameTypes DEF TypeOK
  <2>4. ArchiveInv' /\ UnpackInv' /\ BootstrapFills' BY <2>1, <2>2, Frame DEF UnpackInv, BootstrapFills
  <2>5. FillInv' BY <2>1, <2>2 DEF FillInv, Purged, Parsed, NewFiles, Indexed
  <2>6. RedoInv' /\ TrustInv'
    BY <2>1, <2>2 DEF RedoInv, Redone, TrustInv, Purged, Catches, Matching, current
  <2> QED BY <2>3, <2>4, <2>5, <2>6 DEF IInv
<1>2. CASE Next
  <2>1. CASE CallStep
    BY <2>1, ImportSteps, FillBegins, PurgeStep, ReparseStep, SaveStep, MetaStep, Indexes, ExportSteps
       DEF CallStep
  <2>2. CASE \E b, a, f, x \in BOOLEAN : do_index_codebase(b, a, f, x) BY <2>2, StartStep
  <2>3. CASE \/ \E p \in Paths, c \in MaybeContent : edit(p, c)
             \/ \E p, q \in Paths : move(p, q)
             \/ \E ps \in SUBSET Paths : commit(ps)
             \/ \E kind \in {"full", "shallow", "none"} : clone(kind)
             \/ remove_graph
             \/ \E kind \in {"newer", "older", "bare"} : other_version(kind)
    BY <2>3, UserSteps
  <2>4. CASE \E removed \in BOOLEAN : import_failed(removed) BY <2>4, ImportFails
  <2>5. CASE fill_failed BY <2>5, FillFails
  <2>6. CASE diff_failed BY <2>6, FillBegins
  <2>7. CASE cut_short BY <2>7, CutShort
  <2> QED BY <1>2, <2>1, <2>2, <2>3, <2>4, <2>5, <2>6, <2>7 DEF Next
<1> QED BY <1>1, <1>2

\* Imports, fills, refreshes, exports and everything that cuts them short keep
\* the inductive invariant, whatever the team edits, commits and clones.
THEOREM BootstrapInvariant == Spec => []IInv
  BY InitInv, StepInv, PTL DEF Spec

\* Repository, archives, graph, manifest and the call keep their types.
THEOREM BootstrapTypes == Spec => []TypeOK
<1>1. IInv => TypeOK BY DEF IInv
<1> QED BY <1>1, BootstrapInvariant, PTL

\* A fill of an archive of its commit ends with the graph a full index would
\* build, if git named every change (fill_after_bootstrap).
THEOREM FillIsFullIndex == Spec => []BootstrapFills
<1>1. IInv => BootstrapFills BY DEF IInv
<1> QED BY <1>1, BootstrapInvariant, PTL

\* A refresh brings a trusted bootstrapped graph to the working tree
\* (try_incremental_index after attempt_bootstrap).
THEOREM RefreshCatchesUp == Spec => CaughtUp
<1>1. ASSUME IInv, [Next]_vars
      PROVE  [call.step = "incremental" /\ call'.step # "incremental" /\ trusted /\ faults' = faults
                => graph'.node = Indexed]_vars
  <2> SUFFICES ASSUME Next, call.step = "incremental", call'.step # "incremental", trusted, faults' = faults
               PROVE  graph'.node = Indexed
    BY <1>1
  <2>1. faults \in Nat
    <3>1. faults \in 0 .. MaxFaults BY <1>1 DEF IInv, TypeOK
    <3> QED BY <3>1, Bounds
  <2>2. ~cut_short
    <3>1. cut_short => faults' = faults + 1 BY DEF cut_short
    <3>2. faults + 1 # faults BY <2>1
    <3> QED BY <3>1, <3>2
  <2>3. try_incremental_index \/ full_index
    BY <2>2 DEF Next, CallStep, edit, move, commit, clone, remove_graph, other_version, Idle,
       do_index_codebase, unpack_graph, unpack_sidecars, import_compatible_artifact, fill_after_bootstrap,
       purge, reparse, save_manifest, write_graph_meta, export_archive, export_sidecar, import_failed,
       fill_failed, diff_failed
  <2> QED BY <1>1, <2>3, Indexes
<1> QED BY <1>1, BootstrapInvariant, PTL DEF Spec, CaughtUp
=============================================================================
