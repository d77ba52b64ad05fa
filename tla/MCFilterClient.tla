--------------------------- MODULE MCFilterClient ---------------------------
(* The instance of FilterClient for TLC.                                     *)
EXTENDS FilterClient
=============================================================================
