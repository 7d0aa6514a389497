---------------------------- MODULE GraphContents ----------------------------
(***************************************************************************)
(* What the tools may assume of the graphs on disk: each path holds nothing *)
(* or the last content written there.  Content only changes when a tool     *)
(* creates, writes or removes the graph; opening, closing, caching and      *)
(* dying leave it alone, and an earlier content never comes back.           *)
(***************************************************************************)
EXTENDS Naturals

CONSTANT Graphs

VARIABLES content,      \* graph -> the database at its path
          last          \* contents are numbered; the number last given out

Absent == [id |-> 0, ver |-> 0]

Put(g, id) ==
    /\ last' = last + 1
    /\ content' = [content EXCEPT ![g] = [id |-> id, ver |-> last + 1]]

Create(g) == content[g] = Absent /\ Put(g, last + 1)
Write(g) == content[g] # Absent /\ Put(g, content[g].id)
Remove(g) ==
    /\ content[g] # Absent
    /\ content' = [content EXCEPT ![g] = Absent]
    /\ UNCHANGED last

Init == content = [g \in Graphs |-> Absent] /\ last = 0
Next == \E g \in Graphs : Create(g) \/ Write(g) \/ Remove(g)
Spec == Init /\ [][Next]_<<content, last>>
=============================================================================
