----------------------------- MODULE MCLspPass -----------------------------
EXTENDS LspPass
\* Three files: one with two sites of one caller, one with a site and a macro,
\* one that no target compiles; a definition is a function or an enum.
MCSite == {"s1", "s2", "s3", "m1", "o1"}
MCFile == {"a", "b", "o"}
MCFileOf == [s \in MCSite |-> CASE s \in {"s1", "s2"} -> "a" [] s \in {"s3", "m1"} -> "b"
                                [] s = "o1" -> "o"]
MCCallerOf == [s \in MCSite |-> CASE s \in {"s1", "s2"} -> "f" [] s \in {"s3", "m1"} -> "g"
                                  [] s = "o1" -> "h"]
=============================================================================
