-------------------------- MODULE MCCustodyTokens --------------------------
(***************************************************************************)
(* Small instances of CustodyTokens: two orders of two investors on a bond *)
(* held in escrow and a note held by reservation.                          *)
(***************************************************************************)
EXTENDS CustodyTokens, TLC

CONSTANTS f1, f2, w1, w2, o1, o2, bond, note

MCHoldModel == bond :> "escrow-transfer" @@ note :> "holder-reservation"
MCMapping == f1 :> w1 @@ f2 :> w2
MCBalance == [w \in {w1, w2} |-> [a \in {bond, note} |-> IF w = w1 THEN 2 ELSE 1]]

Ord(k, a, f, t, g) == [kind |-> k, asset |-> a, from |-> f, to |-> t, given |-> g]
MCOrders ==
  { o1 :> Ord("hold", bond, f1, f2, None) @@ o2 :> Ord("hold", bond, f1, None, None),
    o1 :> Ord("hold", note, f1, None, None) @@ o2 :> Ord("hold", note, f2, f1, w2),
    o1 :> Ord("issue", bond, None, f2, None) @@ o2 :> Ord("hold", bond, f2, f1, None),
    o1 :> Ord("transfer", note, f1, f2, None) @@ o2 :> Ord("redeem", note, f2, None, None) }
=============================================================================
