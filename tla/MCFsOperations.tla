--------------------------- MODULE MCFsOperations ---------------------------
(***************************************************************************)
(* FsOperations for TLC: the threads are interchangeable model values.     *)
(***************************************************************************)
EXTENDS FsOperations, TLC

ThreadSymmetry == Permutations(Threads)
=============================================================================
