------------------------------ MODULE MCLedger ------------------------------
(* Small instances of Ledger for TLC. *)
EXTENDS Ledger, TLC

CONSTANTS u1, u2, i1, i2

MCPayer == (i1 :> u1 @@ i2 :> u2)
MCAmount == (i1 :> 5 @@ i2 :> 7)
OnePayer == (i1 :> u1)
OneAmount == (i1 :> 5)
=============================================================================
