-------------------------- MODULE MCDirectTransfer --------------------------
(***************************************************************************)
(* DirectTransfer for TLC.                                                 *)
(***************************************************************************)
EXTENDS DirectTransfer
=============================================================================
