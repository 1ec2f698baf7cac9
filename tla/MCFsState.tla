----------------------------- MODULE MCFsState ------------------------------
(***************************************************************************)
(* FsState for TLC: names are model values.                                *)
(***************************************************************************)
EXTENDS FsState
=============================================================================
