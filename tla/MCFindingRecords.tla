-------------------------- MODULE MCFindingRecords --------------------------
(* Instances of FindingRecords for TLC.                                    *)
EXTENDS FindingRecords, TLC

Symmetry == Permutations(Findings)
=============================================================================
