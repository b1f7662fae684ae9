--------------------------- MODULE MCBooksInPlace ---------------------------
(***************************************************************************)
(* BooksInPlace for TLC.                                                   *)
(***************************************************************************)
EXTENDS BooksInPlace
=============================================================================
