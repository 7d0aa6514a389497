--------------------------- MODULE MCIndexPipeline ---------------------------
(* Two files with two contents are enough for a file to be edited, reverted, *)
(* deleted, restored and moved, while the other one stays as it is.          *)
EXTENDS IndexPipeline
=============================================================================
