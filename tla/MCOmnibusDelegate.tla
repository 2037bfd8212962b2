------------------------- MODULE MCOmnibusDelegate -------------------------
(***************************************************************************)
(* Small instances of OmnibusDelegate: two orders of one asset, or of two  *)
(* where an arrival is claimed for the wrong one.                          *)
(***************************************************************************)
EXTENDS OmnibusDelegate, TLC

CONSTANTS f1, p1, o1, o2, t1, bond, note

Ord(k, t, g) == [kind |-> k, asset |-> bond, to |-> t, given |-> g, transfer |-> None, amount |-> 1]
Inbound(a, n) == [kind |-> "inbound", asset |-> a, to |-> f1, given |-> "none", transfer |-> t1, amount |-> n]

MCOrders ==
  { o1 :> Ord("hold", p1, "here") @@ o2 :> Ord("outbound", p1, "here"),
    o1 :> Ord("hold", f1, "here") @@ o2 :> Ord("hold", p1, "here"),
    o1 :> Ord("hold", f1, "elsewhere") @@ o2 :> Inbound(bond, 1),
    o1 :> Ord("outbound", p1, "none") @@ o2 :> Inbound(bond, 2),
    o1 :> Inbound(bond, 1) @@ o2 :> Inbound(bond, 1),
    o1 :> Inbound(note, 1) @@ o2 :> Ord("outbound", p1, "here") }

MCTransfers == t1 :> [asset |-> bond, ok |-> TRUE, first |-> 1, more |-> 0]
MCPools == {bond :> n @@ note :> 0 : n \in 1..2}
=============================================================================
