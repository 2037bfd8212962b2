----------------------------- MODULE MCOtaDeposit -----------------------------
(***************************************************************************)
(* Small instances of OtaDeposit.                                          *)
(***************************************************************************)
EXTENDS OtaDeposit, TLC

CONSTANTS d1, d2, p1, p2

(* the first deposit waits for two units, the second takes anything *)
MCExpected == [d \in Deposits |-> IF d = d1 THEN 2 ELSE 0]
MCSymmetry == Permutations(Polls)
=============================================================================
