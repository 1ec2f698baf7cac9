---------------------------- MODULE MCMountPipes ----------------------------
(***************************************************************************)
(* MountPipes for TLC.                                                     *)
(***************************************************************************)
EXTENDS MountPipes
=============================================================================
