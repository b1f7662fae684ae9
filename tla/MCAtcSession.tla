---------------------------- MODULE MCAtcSession ----------------------------
(***************************************************************************)
(* AtcSession for TLC.                                                     *)
(***************************************************************************)
EXTENDS AtcSession
=============================================================================
