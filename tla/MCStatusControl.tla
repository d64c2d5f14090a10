-------------------------- MODULE MCStatusControl --------------------------
(***************************************************************************)
(* Small instance of StatusControl: two agents, of which one reports, and  *)
(* two versions of the settings file.                                      *)
(***************************************************************************)
EXTENDS StatusControl, TLC

CONSTANTS x, y

Starts == (x :> 1) @@ (y :> 1)

Editions == {<<"good", "good">>, <<"bad", "good">>}
=============================================================================
