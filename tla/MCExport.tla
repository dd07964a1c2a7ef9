------------------------------ MODULE MCExport ------------------------------
(* A small instance of Export for TLC. *)
EXTENDS Export, TLC

CONSTANTS r1, r2
Cycles == (r1 :> 2) @@ (r2 :> 1)
=============================================================================
