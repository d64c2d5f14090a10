--------------------------- MODULE MCDownloadForm ---------------------------
(***************************************************************************)
(* Small instance of DownloadForm: p may be added twice, q once, and text  *)
(* is not an address.                                                      *)
(***************************************************************************)
EXTENDS DownloadForm, TLC

CONSTANTS p, q, text

Adds == (p :> 2) @@ (q :> 1) @@ (text :> 1)
=============================================================================
