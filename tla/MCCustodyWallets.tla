-------------------------- MODULE MCCustodyWallets --------------------------
(***************************************************************************)
(* CustodyWallets for TLC: three accounts of which one or two exist at     *)
(* boot, two assets, two lookups that may share a scan, pages of one       *)
(* account, one retry of a rate limited call, one fault and one restart.   *)
(***************************************************************************)
EXTENDS CustodyWallets, TLC

CONSTANTS v1, v2, v3, l1, l2, stranger

MCAccounts == {v1, v2, v3}
MCLookups == {l1, l2}
MCStarts == {[v \in MCAccounts |-> IF v = v1 THEN 1 ELSE IF v = v2 THEN 2 ELSE 0]}
=============================================================================
