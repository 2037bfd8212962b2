--------------------------- MODULE MCPlanApproval ---------------------------
(***************************************************************************)
(* Small instances of PlanApproval: two plans and two investors.  The      *)
(* first plan moves the bond from the first to the second investor and     *)
(* then holds cash of the first; the other spends cash of the first as     *)
(* well, or redeems another organization's asset and the bond before it    *)
(* names one of an unknown standard.  The note is whitelisted like the     *)
(* bond, so that a sweep has more than one asset to remove.                *)
(***************************************************************************)
EXTENDS PlanApproval, TLC

CONSTANTS p1, p2, f1, f2, w1, w2, bond, note, cash, odd, us, them

MCStandard == bond :> "whitelisting" @@ note :> "whitelisting" @@ cash :> "elsewhere" @@ odd :> "unregistered"
MCMapping == f1 :> w1 @@ f2 :> w2

MCListed == {{w1, w2} \X {bond, note}}

Ins(o, t, a, s, d) == [orgs |-> o, type |-> t, asset |-> a, source |-> s, destination |-> d]
MCContents ==
  p1 :> { <<Ins({}, "transfer", bond, f1, f2), Ins({us}, "hold", cash, f1, None)>> } @@
  p2 :> { <<Ins({us}, "transfer", cash, f1, f2)>>,
          <<Ins({them}, "redeem", odd, f1, None), Ins({us, them}, "redeem", bond, f1, None),
            Ins({us}, "transfer", odd, f2, f1)>> }
=============================================================================
