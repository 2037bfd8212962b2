--------------------------- MODULE MCOnchainTokens ---------------------------
(***************************************************************************)
(* OnchainTokens for TLC: two investors, a bond that is traded for money   *)
(* the request may name by another symbol than the template, and templates *)
(* of every shape (the other sales are read like Selling), with            *)
(* amounts that tell their legs and phases apart.  The first call is a     *)
(* transfer or a hold, which may come without a destination, the second    *)
(* one issues or settles.                                                  *)
(***************************************************************************)
EXTENDS OnchainTokens, TLC

CONSTANTS alice, bob, c1, c2, none, op1, plan1

MCFinIds == {alice, bob}
MCCalls == {c1, c2}

Term(id, kind, amount) == [id |-> id, kind |-> kind, amount |-> amount]
NoTerm == Term("none", "none", 0)
TheTemplate(type) ==
  [type |-> type, buyer |-> bob, seller |-> alice, asset |-> Term("bond", "finp2p", 1),
   settlement |-> IF type \in Settled THEN Term("USDC", "fiat", 2) ELSE NoTerm,
   borrowed |-> 3, returned |-> 4]

(* A sale for money of the asset's own id, and one of a money symbol. *)
Ambiguous == {[TheTemplate("Selling") EXCEPT !.settlement = Term("bond", "fiat", 2)],
              [TheTemplate("Selling") EXCEPT !.asset = Term("USD", "fiat", 1)]}
Templates(type) == {TheTemplate(type)} \cup (IF type = "Selling" THEN Ambiguous ELSE {})

NamedAssets == {[id |-> "bond", kind |-> "finp2p"], [id |-> "USD", kind |-> "finp2p"],
                [id |-> "USDC", kind |-> "fiat"], [id |-> "bond", kind |-> "fiat"]}

(* Instructions of a plan: the fourth of a loan closes it on chain, the fifth
   for the direct services as well.  One loan comes without a plan. *)
Positions(type) ==
  CASE type = "Loan" -> {<<none, 0>>} \cup ({plan1} \X (3..5))
    [] type = "Selling" -> {<<plan1, 5>>}
    [] OTHER -> {<<plan1, 4>>}
Amounts(type) == IF type = "Loan" THEN 1..4 ELSE 1..2
Types(method) == IF method = "hold" THEN {"Transfer", "Redemption", "Move", "Selling"}
                 ELSE {"Transfer", "Loan", "Other"}
Destinations(method) == IF method = "hold" THEN MCFinIds \cup {none} ELSE MCFinIds
Trades ==
  UNION {
    {[method |-> m, source |-> s, destination |-> d, asset |-> a, quantity |-> q,
      operation |-> op1, plan |-> n[1], sequence |-> n[2], template |-> e] :
       s \in MCFinIds, d \in Destinations(m), a \in NamedAssets, q \in Amounts(t),
       n \in Positions(t), e \in Templates(t)} :
    <<m, t>> \in {x \in {"transfer", "hold"} \X (Supported \cup {"Other", "none"}) : x[2] \in Types(x[1])}}

Settlement(method, source, operation, quantity) ==
  [method |-> method, source |-> source, destination |-> bob,
   asset |-> [id |-> "fund", kind |-> "finp2p"], quantity |-> quantity,
   operation |-> operation, plan |-> plan1, sequence |-> 5, template |-> TheTemplate("none")]
Settlements ==
  {Settlement("issue", none, none, 1), Settlement("rollback", alice, op1, 1),
   Settlement("redeem", alice, none, 1), Settlement("redeem", alice, op1, 1),
   Settlement("redeem", alice, op1, 2), Settlement("release", alice, op1, 1),
   Settlement("release", bob, op1, 2), Settlement("release", bob, op1, 1)}

MCRequests == [c \in MCCalls |-> IF c = c1 THEN Trades ELSE Settlements]
=============================================================================
