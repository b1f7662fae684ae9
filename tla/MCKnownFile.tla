---------------------------- MODULE MCKnownFile -----------------------------
(***************************************************************************)
(* Instances of KnownFileTxn for TLC.                                      *)
(***************************************************************************)
EXTENDS KnownFileTxn, TLC

\* Contents are interchangeable.
Symmetry == Permutations(Bytes)
=============================================================================
