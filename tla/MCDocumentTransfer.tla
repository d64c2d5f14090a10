------------------------- MODULE MCDocumentTransfer -------------------------
(***************************************************************************)
(* Small instances of DocumentTransfer: a message holds two bytes, so that *)
(* documents of 1 and 2 bytes are small, 3 and 4 make two sub-messages     *)
(* (the last one short or full) and 5 makes three.                         *)
(***************************************************************************)
EXTENDS DocumentTransfer, TLC

CONSTANTS s1, s2, d1, d2, d3

OneScanner  == {s1}
TwoScanners == {s1, s2}

OneLarge == d1 :> 5
TwoLarge == (d1 :> 5) @@ (d2 :> 4)
WithSmall == (d1 :> 5) @@ (d2 :> 4) @@ (d3 :> 2)

StartedOnce == [p \in Processes |-> 1]
CentralTwice == [p \in Processes |-> IF p = "central" THEN 2 ELSE 1]
=============================================================================
