------------------------------ MODULE MCIndexRun ------------------------------
(***************************************************************************)
(* IndexRun with interchangeable ordinary files.                           *)
(***************************************************************************)
EXTENDS IndexRun, TLC

Symmetry == Permutations(Files \ FastSkipped)

=============================================================================
