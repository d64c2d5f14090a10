--------------------------- MODULE MCScanAssembly ---------------------------
(***************************************************************************)
(* Small instances of ScanAssembly.  p1, p2, ... are pages named after     *)
(* their number, sep is a sheet with the separating barcode, odd one with  *)
(* another barcode, bad an image that cannot be decoded, memo a readable   *)
(* image whose name is not a page's, photo one without a number.           *)
(***************************************************************************)
EXTENDS ScanAssembly, TLC

CONSTANTS p1, p2, p3, p5, sep, odd, bad, memo, photo

Numbers == (p1 :> 1) @@ (p2 :> 2) @@ (p3 :> 3) @@ (p5 :> 5)
             @@ (sep :> 4) @@ (odd :> 3) @@ (bad :> 2) @@ (memo :> 4)
             @@ (photo :> NoNumber)

Codes == (p1 :> "none") @@ (p2 :> "none") @@ (p3 :> "none") @@ (p5 :> "none")
           @@ (sep :> "separator") @@ (odd :> "other") @@ (bad :> "unreadable")
           @@ (memo :> "none") @@ (photo :> "none")

NumberOf == [f \in Files |-> Numbers[f]]

CodeOf == [f \in Files |-> Codes[f]]
=============================================================================
