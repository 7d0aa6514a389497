--------------------------- MODULE MCGraphHandles ---------------------------
(* Two graphs and room for one cached handle, so that opening the second    *)
(* evicts the first.                                                        *)
EXTENDS GraphHandles, TLC

Symmetry == Permutations(Graphs)
=============================================================================
