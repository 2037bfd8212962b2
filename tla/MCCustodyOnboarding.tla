------------------------- MODULE MCCustodyOnboarding -------------------------
(***************************************************************************)
(* Small instances of CustodyOnboarding: one investor, two vaults with a   *)
(* wallet each.                                                            *)
(***************************************************************************)
EXTENDS CustodyOnboarding, TLC

CONSTANTS v1, v2, x1, x2

MCAddressOf == v1 :> x1 @@ v2 :> x2
MCSymmetry == Permutations(Calls)
=============================================================================
