---------------------------- MODULE MCPullDeposit ----------------------------
(***************************************************************************)
(* Small instances of PullDeposit: two investors, one deposit each, both   *)
(* on the one token contract.                                              *)
(***************************************************************************)
EXTENDS PullDeposit, TLC

CONSTANTS d1, d2, i1, i2, w1, w2, p1, p2

MCInvestor == d1 :> i1 @@ d2 :> i2
MCExpected == d1 :> 1 @@ d2 :> 1
(* the first deposit leaves its amount open *)
MCExpectedOpen == d1 :> 0 @@ d2 :> 1
MCSymmetry == Permutations({p1, p2}) \cup Permutations({w1, w2})
=============================================================================
