---------------------------- MODULE PlanApproval ----------------------------
(***************************************************************************)
(* Approval of execution plans in the custody modes: the base verdict, the *)
(* introspection of the plan, the whitelisting check that may veto it and, *)
(* in direct mode, the gas top-ups of the wallets that will sign for it.   *)
(*                                                                         *)
(* The module follows services/plan-approval/, gas-station.ts and          *)
(* investor-whitelist-service.ts.  Approvals of different plans, a removal *)
(* of an investor from the whitelists, account onboarding and the          *)
(* execution of plans already approved run side by side; every await is a  *)
(* step boundary.  The tokens' whitelists, the chain's balances, the       *)
(* orchestrator and the base service are modelled from how that code uses  *)
(* them.                                                                   *)
(***************************************************************************)
EXTENDS Integers, Sequences, FiniteSets

CONSTANTS
  Plans,
  Contents,      (* what each plan may hold: sequences of instructions     *)
  FinIds, Wallets, Assets,
  None,          (* no finId, no asset, no wallet                          *)
  Standard,      (* [Assets -> kind]: what the stored asset's token
                    standard is: "whitelisting", "plain", "unregistered",
                    or the asset is "elsewhere", not in this adapter       *)
  Orgs, Org,     (* the organizations, and this one                        *)
  Prefunding,    (* direct mode: the gas option is configured              *)
  InitMapping,   (* [FinIds -> Wallets]                                    *)
  InitListed,    (* the whitelists to begin with: sets of <<wallet, asset>> *)
  MaxGas, MaxChanges, MaxFaults        (* bounds                           *)

Types == {"issue", "transfer", "hold", "release", "redeem", "await"}
Parties == {"source", "destination"}

ASSUME DataAssumption ==
  /\ None \notin FinIds \cup Wallets \cup Assets
  /\ Standard \in [Assets -> {"whitelisting", "plain", "unregistered", "elsewhere"}]
  /\ Prefunding \in BOOLEAN /\ Org \in Orgs
  /\ InitMapping \in [FinIds -> Wallets \cup {None}]
  /\ InitListed \subseteq SUBSET (Wallets \X Assets)
  /\ \A p \in Plans : Contents[p] \subseteq
       Seq([orgs : SUBSET Orgs, type : Types, asset : Assets \cup {None},
            source : FinIds \cup {None}, destination : FinIds \cup {None}])
ASSUME BoundsAssumption == MaxGas \in Nat /\ MaxChanges \in Nat /\ MaxFaults \in Nat

VARIABLES
  pc, at, party, addr,   (* the approvePlan call of each plan              *)
  plan,          (* the plan it works on, fetched once                     *)
  signer,        (* the wallets it counted, [Plans -> [instruction -> wallet]] *)
  due,           (* wallets it has yet to top up                           *)
  verdict,       (* its answer                                             *)
  mapping,       (* account mapping: [FinIds -> wallet]                    *)
  listed,        (* the tokens' whitelists: <<wallet, asset>>              *)
  gas,           (* chain: native balance, in units of one transaction     *)
  topUp,         (* chain: the top-up a plan submitted for a wallet        *)
  todo,          (* orchestrator: instructions that have yet to sign       *)
  sweep,         (* a dewhitelist call                                     *)
  covered,       (* history: top-ups that returned and are not drained     *)
  since,         (* history: what changed since an approval began          *)
  changes, faults

walk == <<at, party, addr>>
content == <<plan, signer, due, verdict, todo, since>>
chain == <<gas, topUp, covered>>
lists == <<mapping, listed, changes>>
world == <<chain, lists, sweep>>
vars == <<pc, walk, content, world, faults>>

(* Operators named Mutant... are plausible slips in the definition they
   precede; no specification uses them. *)

Verdicts == {"none", "approved", "base", "unreadable", "failed", "unregistered", "unmapped", "unlisted"}

Fault == faults < MaxFaults /\ faults' = faults + 1
Change == changes < MaxChanges /\ changes' = changes + 1

-----------------------------------------------------------------------------
(* introspectPlan: this organization's instructions. *)
Local(i) == i.orgs = {} \/ Org \in i.orgs

(* An instruction the whitelisting option looks into. *)
Checked(i) == Local(i) /\ i.asset # None /\ i.type # "await" /\ Standard[i.asset] # "elsewhere"

(* An instruction whose source investor's wallet signs it: the others are
   signed by the issuer or the escrow wallet. *)
Signs(i) == Local(i) /\ i.type \in {"transfer", "hold", "redeem"} /\ i.source # None

(* What txCounts holds for a wallet, and the balance ensureGas asks for.  The
   slip asks for one transaction's worth however many there are. *)
TxCount(p, w) == Cardinality({i \in DOMAIN signer[p] : signer[p][i] = w})
MutantThreshold(p, w) == 1
Threshold(p, w) == IF TxCount(p, w) > 1 THEN TxCount(p, w) ELSE 1

NoSweep(state) == [pc |-> state, wallet |-> None, left |-> {}, asset |-> None, refused |-> {}, scope |-> {}]

Current(p) == plan[p][at[p]]

Init ==
  /\ pc = [p \in Plans |-> "none"]
  /\ at = [p \in Plans |-> 1]
  /\ party = [p \in Plans |-> "source"]
  /\ addr = [p \in Plans |-> None]
  /\ plan = [p \in Plans |-> <<>>]
  /\ signer = [p \in Plans |-> <<>>]
  /\ due = [p \in Plans |-> {}]
  /\ verdict = [p \in Plans |-> "none"]
  /\ mapping = InitMapping
  /\ listed \in InitListed
  /\ gas \in [Wallets -> 0..MaxGas]
  /\ topUp = [p \in Plans |-> [w \in Wallets |-> "none"]]
  /\ todo = [p \in Plans |-> {}]
  /\ sweep = NoSweep("idle")
  /\ covered = {}
  /\ since = [p \in Plans |-> {}]
  /\ changes = 0 /\ faults = 0

-----------------------------------------------------------------------------
(***************************************************************************)
(* approvePlan                                                             *)
(***************************************************************************)
(* The call's locals go with it; an approved plan keeps, for the properties,
   what it holds and whom the gas station took for its signers. *)
Answer(p, v) ==
  /\ pc' = [pc EXCEPT ![p] = "answered"]
  /\ verdict' = [verdict EXCEPT ![p] = v]
  /\ at' = [at EXCEPT ![p] = 1]
  /\ party' = [party EXCEPT ![p] = "source"]
  /\ addr' = [addr EXCEPT ![p] = None]
  /\ since' = [since EXCEPT ![p] = {}]
Approve(p) == Answer(p, "approved") /\ UNCHANGED <<plan, signer, due, todo>>
Reject(p, v) ==
  /\ Answer(p, v)
  /\ plan' = [plan EXCEPT ![p] = <<>>]
  /\ signer' = [signer EXCEPT ![p] = <<>>]
  /\ due' = [due EXCEPT ![p] = {}]
  /\ todo' = [todo EXCEPT ![p] = {}]

(* The base service's verdict; a rejection is final. *)
BaseApproves(p) ==
  /\ pc[p] = "none"
  /\ pc' = [pc EXCEPT ![p] = "introspect"]
  /\ UNCHANGED <<walk, content, world, faults>>
BaseRejects(p) ==
  /\ pc[p] = "none"
  /\ Reject(p, "base")
  /\ UNCHANGED <<world, faults>>

(* The plan is fetched once; the options walk over what was fetched. *)
Introspect(p) ==
  /\ pc[p] = "introspect"
  /\ \E x \in Contents[p] :
       /\ plan' = [plan EXCEPT ![p] = x]
       /\ signer' = [signer EXCEPT ![p] = [i \in DOMAIN x |-> None]]
       /\ todo' = [todo EXCEPT ![p] = {i \in DOMAIN x : Signs(x[i])}]
  /\ pc' = [pc EXCEPT ![p] = "whitelisting"]
  /\ UNCHANGED <<walk, due, verdict, since, world, faults>>

(* No client, a failed fetch or no plan: whitelisting is a gating option, so
   the answer is a rejection. *)
IntrospectionFails(p) ==
  /\ pc[p] = "introspect"
  /\ Reject(p, "unreadable")
  /\ UNCHANGED <<world, faults>>

(***************************************************************************)
(* TokenWhitelistingOption.apply                                           *)
(***************************************************************************)
(* getAsset and the registry lookup for the current instruction. *)
Examine(p) ==
  /\ pc[p] = "whitelisting" /\ at[p] \in DOMAIN plan[p]
  /\ LET i == Current(p) IN
     \/ /\ Checked(i) /\ Standard[i.asset] = "unregistered"
        /\ Reject(p, "unregistered")
     \/ /\ Checked(i) /\ Standard[i.asset] = "whitelisting"
        /\ pc' = [pc EXCEPT ![p] = "party"]
        /\ party' = [party EXCEPT ![p] = "source"]
        /\ UNCHANGED <<at, addr, content>>
     \/ /\ ~(Checked(i) /\ Standard[i.asset] \in {"unregistered", "whitelisting"})
        /\ at' = [at EXCEPT ![p] = @ + 1]
        /\ UNCHANGED <<pc, party, addr, content>>
  /\ UNCHANGED <<world, faults>>

(* After the source the destination, then the next instruction.  The slip
   leaves the destination unchecked. *)
MutantNextParty(p) ==
  /\ pc' = [pc EXCEPT ![p] = "whitelisting"]
  /\ at' = [at EXCEPT ![p] = @ + 1]
  /\ UNCHANGED party
NextParty(p) ==
  \/ /\ party[p] = "source"
     /\ pc' = [pc EXCEPT ![p] = "party"]
     /\ party' = [party EXCEPT ![p] = "destination"]
     /\ UNCHANGED at
  \/ /\ party[p] = "destination"
     /\ pc' = [pc EXCEPT ![p] = "whitelisting"]
     /\ at' = [at EXCEPT ![p] = @ + 1]
     /\ UNCHANGED party

(* An endpoint without a finId is no investor and is not checked. *)
SkipParty(p) ==
  /\ pc[p] = "party" /\ Current(p)[party[p]] = None
  /\ NextParty(p)
  /\ UNCHANGED <<addr, content, world, faults>>

(* resolveAccount *)
ResolveParty(p) ==
  /\ pc[p] = "party" /\ Current(p)[party[p]] # None
  /\ LET w == mapping[Current(p)[party[p]]] IN
     \/ w = None /\ Reject(p, "unmapped")
     \/ /\ w # None
        /\ pc' = [pc EXCEPT ![p] = "verify"]
        /\ addr' = [addr EXCEPT ![p] = w]
        /\ UNCHANGED <<at, party, content>>
  /\ UNCHANGED <<world, faults>>

(* validateParty *)
PartyListed(p) ==
  /\ pc[p] = "verify" /\ <<addr[p], Current(p).asset>> \in listed
  /\ NextParty(p)
  /\ UNCHANGED <<addr, content, world, faults>>
(* The slip vetoes the listed source, as for a blocklist. *)
MutantPartyUnlisted(p) ==
  /\ pc[p] = "verify"
  /\ (<<addr[p], Current(p).asset>> \in listed) = (party[p] = "source")
  /\ Reject(p, "unlisted")
  /\ UNCHANGED <<world, faults>>
PartyUnlisted(p) ==
  /\ pc[p] = "verify" /\ <<addr[p], Current(p).asset>> \notin listed
  /\ Reject(p, "unlisted")
  /\ UNCHANGED <<world, faults>>

(* A store or a node that fails throws out of the option, and a gating option
   that threw rejects. *)
WhitelistingThrows(p) ==
  /\ pc[p] \in {"whitelisting", "party", "verify"}
  /\ Reject(p, "failed")
  /\ Fault
  /\ UNCHANGED world

WhitelistingPasses(p) ==
  /\ pc[p] = "whitelisting" /\ at[p] \notin DOMAIN plan[p]
  /\ IF Prefunding
     THEN /\ pc' = [pc EXCEPT ![p] = "counting"]
          /\ at' = [at EXCEPT ![p] = 1]
          /\ UNCHANGED <<party, addr, content>>
     ELSE Approve(p)
  /\ UNCHANGED <<world, faults>>

(***************************************************************************)
(* GasPrefundingOption.apply                                               *)
(***************************************************************************)
(* The signing wallets are counted per instruction; an investor without a
   wallet is left out. *)
CountSigner(p) ==
  /\ pc[p] = "counting" /\ at[p] \in DOMAIN plan[p]
  /\ LET i == Current(p) IN
     signer' = IF Signs(i) THEN [signer EXCEPT ![p][at[p]] = mapping[i.source]] ELSE signer
  /\ at' = [at EXCEPT ![p] = @ + 1]
  /\ UNCHANGED <<pc, party, addr, plan, due, verdict, todo, since, world, faults>>
ResolvingSignerFails(p) ==
  /\ pc[p] = "counting" /\ at[p] \in DOMAIN plan[p] /\ Signs(Current(p))
  /\ at' = [at EXCEPT ![p] = @ + 1]
  /\ Fault
  /\ UNCHANGED <<pc, party, addr, content, world>>
CountingEnds(p) ==
  /\ pc[p] = "counting" /\ at[p] \notin DOMAIN plan[p]
  /\ due' = [due EXCEPT ![p] = {signer[p][i] : i \in DOMAIN signer[p]} \ {None}]
  /\ pc' = [pc EXCEPT ![p] = "funding"]
  /\ UNCHANGED <<walk, plan, signer, verdict, todo, since, world, faults>>
FundingEnds(p) ==
  /\ pc[p] = "funding" /\ due[p] = {}
  /\ Approve(p)
  /\ UNCHANGED <<world, faults>>

(***************************************************************************)
(* GasStation.ensureGas                                                    *)
(***************************************************************************)
Enough(p, w) == gas[w] >= Threshold(p, w)

(* ensureGas(w) of p is over: it returned, or it threw and the option
   swallowed that. *)
Leave(p, w) ==
  /\ due' = [due EXCEPT ![p] = @ \ {w}]
  /\ pc' = [pc EXCEPT ![p] = "funding"]
  /\ addr' = [addr EXCEPT ![p] = None]
  /\ UNCHANGED <<at, party, plan, signer, verdict, todo, since>>
Returns(p, w) == Leave(p, w) /\ covered' = covered \cup {<<p, w>>}

(* One wallet at a time; which one is first does not matter. *)
EnsureGas(p, w) ==
  /\ pc[p] = "funding" /\ w \in due[p]
  /\ IF Enough(p, w) THEN Returns(p, w)
     ELSE /\ pc' = [pc EXCEPT ![p] = "sending"]
          /\ addr' = [addr EXCEPT ![p] = w]
          /\ UNCHANGED <<at, party, content, covered>>
  /\ UNCHANGED <<gas, topUp, lists, sweep, faults>>

SendTopUp(p) ==
  /\ pc[p] = "sending"
  /\ topUp' = [topUp EXCEPT ![p][addr[p]] = "pending"]
  /\ pc' = [pc EXCEPT ![p] = "polling"]
  /\ UNCHANGED <<walk, content, gas, covered, lists, sweep, faults>>

(* sendTransaction fails, with or without the transaction on its way, and the
   plan is approved all the same.  The slip rejects it, as a gating option
   would. *)
MutantSendFails(p) ==
  /\ pc[p] = "sending"
  /\ \/ topUp' = [topUp EXCEPT ![p][addr[p]] = "pending"]
     \/ UNCHANGED topUp
  /\ Reject(p, "failed")
  /\ Fault
  /\ UNCHANGED <<gas, covered, lists, sweep>>
SendFails(p) ==
  /\ pc[p] = "sending"
  /\ \/ topUp' = [topUp EXCEPT ![p][addr[p]] = "pending"]
     \/ UNCHANGED topUp
  /\ Leave(p, addr[p])
  /\ Fault
  /\ UNCHANGED <<gas, covered, lists, sweep>>

(* The balance is polled until it suffices or the minute is over. *)
PollSucceeds(p) ==
  /\ pc[p] = "polling" /\ Enough(p, addr[p])
  /\ Returns(p, addr[p])
  /\ UNCHANGED <<gas, topUp, lists, sweep, faults>>
(* The slip has no deadline. *)
MutantPollTimesOut(p) == FALSE /\ UNCHANGED vars
PollTimesOut(p) ==
  /\ pc[p] = "polling"
  /\ Leave(p, addr[p])
  /\ UNCHANGED <<chain, lists, sweep, faults>>

-----------------------------------------------------------------------------
(***************************************************************************)
(* The chain and the orchestrator                                          *)
(***************************************************************************)
Mine(p, w) ==
  /\ topUp[p][w] = "pending"
  /\ topUp' = [topUp EXCEPT ![p][w] = "mined"]
  /\ gas' = [gas EXCEPT ![w] = @ + Threshold(p, w)]
  /\ UNCHANGED <<pc, walk, content, covered, lists, sweep, faults>>

(* An approved plan's instruction is signed by the wallet the investor has by
   then, for at most the configured amount of gas.  It drains that wallet for
   every plan that did not count on this very transaction. *)
Execute(p, i) ==
  /\ verdict[p] = "approved" /\ i \in todo[p]
  /\ LET w == mapping[plan[p][i].source] IN
     /\ w # None /\ gas[w] > 0
     /\ gas' = [gas EXCEPT ![w] = @ - 1]
     /\ covered' = {c \in covered : c[2] # w \/ (c[1] = p /\ signer[p][i] = w)}
  /\ todo' = [todo EXCEPT ![p] = @ \ {i}]
  /\ UNCHANGED <<pc, walk, plan, signer, due, verdict, since, topUp, lists, sweep, faults>>

(* An instruction that ends without a transaction of the investor's wallet:
   it failed, or it is a held redemption, which the escrow wallet signs. *)
Skip(p, i) ==
  /\ verdict[p] = "approved" /\ i \in todo[p]
  /\ todo' = [todo EXCEPT ![p] = @ \ {i}]
  /\ UNCHANGED <<pc, walk, plan, signer, due, verdict, since, world, faults>>

(***************************************************************************)
(* Onboarding and InvestorWhitelistServiceImpl                             *)
(***************************************************************************)
(* The approvals that are running see that something changed. *)
Note(what) ==
  since' = [p \in Plans |-> IF pc[p] \in {"none", "introspect", "answered"} THEN {} ELSE since[p] \cup what]

(* The account mapping of an investor changes. *)
Rebind(f, w) ==
  /\ Change
  /\ w # mapping[f]
  /\ mapping' = [mapping EXCEPT ![f] = w]
  /\ Note({"granted", "revoked"})
  /\ UNCHANGED <<pc, walk, plan, signer, due, verdict, todo, chain, listed, sweep, faults>>

Capable == {a \in Assets : Standard[a] = "whitelisting"}

(* whitelist, for an investor or for an address. *)
Whitelist(w, a) ==
  /\ a \in Capable /\ <<w, a>> \notin listed
  /\ listed' = listed \cup {<<w, a>>}
  /\ Note({"granted"})
  /\ sweep' = IF w = sweep.wallet THEN [sweep EXCEPT !.scope = @ \ {a}] ELSE sweep
  /\ UNCHANGED <<pc, walk, plan, signer, due, verdict, todo, chain, mapping, changes, faults>>

(* dewhitelist, for one asset or for every capable one: each is looked up and
   then removed. *)
Dewhitelist(w, A) ==
  /\ Change
  /\ sweep.pc \notin {"sweeping", "removing"}
  /\ A = Capable \/ \E a \in Capable : A = {a}
  /\ sweep' = [pc |-> "sweeping", wallet |-> w, left |-> A, asset |-> None, refused |-> {}, scope |-> A]
  /\ UNCHANGED <<pc, walk, content, chain, mapping, listed, faults>>
SweepLooks(a) ==
  /\ sweep.pc = "sweeping" /\ a \in sweep.left
  /\ sweep' = IF <<sweep.wallet, a>> \in listed
              THEN [sweep EXCEPT !.pc = "removing", !.asset = a]
              ELSE [sweep EXCEPT !.left = @ \ {a}]
  /\ UNCHANGED <<pc, walk, content, chain, lists, faults>>
(* The slip counts what the sweep removed for a success, refusals before it
   forgotten. *)
MutantSweepRemoves ==
  /\ sweep.pc = "removing"
  /\ listed' = listed \ {<<sweep.wallet, sweep.asset>>}
  /\ Note({"revoked"})
  /\ sweep' = [sweep EXCEPT !.pc = "sweeping", !.left = @ \ {sweep.asset}, !.asset = None,
                                 !.refused = {}]
  /\ UNCHANGED <<pc, walk, plan, signer, due, verdict, todo, chain, mapping, changes, faults>>
SweepRemoves ==
  /\ sweep.pc = "removing"
  /\ listed' = listed \ {<<sweep.wallet, sweep.asset>>}
  /\ Note({"revoked"})
  /\ sweep' = [sweep EXCEPT !.pc = "sweeping", !.left = @ \ {sweep.asset}, !.asset = None]
  /\ UNCHANGED <<pc, walk, plan, signer, due, verdict, todo, chain, mapping, changes, faults>>
(* The token refuses; the sweep goes on and reports it at the end. *)
SweepIsRefused ==
  /\ sweep.pc = "removing"
  /\ sweep' = [sweep EXCEPT !.pc = "sweeping", !.left = @ \ {sweep.asset}, !.asset = None,
                                 !.refused = @ \cup {sweep.asset}]
  /\ UNCHANGED <<pc, walk, content, chain, lists, faults>>
SweepThrows ==
  /\ sweep.pc \in {"sweeping", "removing"}
  /\ sweep' = NoSweep("refused")
  /\ Fault
  /\ UNCHANGED <<pc, walk, content, chain, lists>>
SweepEnds ==
  /\ sweep.pc = "sweeping" /\ sweep.left = {}
  /\ sweep' = NoSweep(IF sweep.refused = {} THEN "returned" ELSE "refused")
  /\ UNCHANGED <<pc, walk, content, chain, lists, faults>>

-----------------------------------------------------------------------------
(* A step of an approvePlan call that needs nothing from outside. *)
Approval(p) ==
  \/ Introspect(p) \/ Examine(p) \/ SkipParty(p) \/ ResolveParty(p)
  \/ PartyListed(p) \/ PartyUnlisted(p) \/ WhitelistingPasses(p)
  \/ CountSigner(p) \/ CountingEnds(p) \/ FundingEnds(p)
  \/ \E w \in Wallets : EnsureGas(p, w)
  \/ SendTopUp(p) \/ PollSucceeds(p) \/ PollTimesOut(p)

ApprovalFails(p) ==
  \/ IntrospectionFails(p) \/ WhitelistingThrows(p) \/ ResolvingSignerFails(p) \/ SendFails(p)

Sweep ==
  \/ \E a \in Assets : SweepLooks(a)
  \/ SweepRemoves \/ SweepIsRefused \/ SweepThrows \/ SweepEnds

Next ==
  \/ \E p \in Plans :
       \/ BaseApproves(p) \/ BaseRejects(p) \/ Approval(p) \/ ApprovalFails(p)
       \/ \E w \in Wallets : Mine(p, w)
       \/ \E i \in todo[p] : Execute(p, i) \/ Skip(p, i)
  \/ \E f \in FinIds, w \in Wallets \cup {None} : Rebind(f, w)
  \/ \E w \in Wallets, a \in Assets : Whitelist(w, a)
  \/ \E w \in Wallets, A \in SUBSET Assets : Dewhitelist(w, A)
  \/ Sweep

Spec == Init /\ [][Next]_vars

(* A call that was taken up runs on: its awaits settle, and the poll gives up
   after a minute. *)
FairSpec == Spec /\ \A p \in Plans : WF_vars(Approval(p))

-----------------------------------------------------------------------------
(***************************************************************************)
(* Properties                                                              *)
(***************************************************************************)
(* A call that looks at a party looks at one of the plan, and a call that tops
   up a wallet knows which. *)
Aligned == \A p \in Plans :
  /\ pc[p] \in {"party", "verify"} => at[p] \in DOMAIN plan[p]
  /\ pc[p] \in {"sending", "polling"} => addr[p] # None

(* The calls, the top-ups and the sweep keep to their shapes. *)
TypeOK ==
  /\ pc \in [Plans -> {"none", "introspect", "whitelisting", "party", "verify", "counting",
                       "funding", "sending", "polling", "answered"}]
  /\ at \in [Plans -> Nat \ {0}]
  /\ party \in [Plans -> Parties]
  /\ addr \in [Plans -> Wallets \cup {None}]
  /\ DOMAIN plan = Plans
  /\ \A p \in Plans : plan[p] \in Contents[p] \cup {<<>>}
  /\ Aligned
  /\ DOMAIN signer = Plans
  /\ \A p \in Plans : signer[p] \in [DOMAIN plan[p] -> Wallets \cup {None}]
  /\ due \in [Plans -> SUBSET Wallets]
  /\ verdict \in [Plans -> Verdicts]
  /\ mapping \in [FinIds -> Wallets \cup {None}]
  /\ listed \subseteq Wallets \X Assets
  /\ gas \in [Wallets -> Nat]
  /\ topUp \in [Plans -> [Wallets -> {"none", "pending", "mined"}]]
  /\ DOMAIN todo = Plans
  /\ \A p \in Plans : todo[p] \subseteq DOMAIN plan[p]
  /\ sweep \in [pc : {"idle", "sweeping", "removing", "returned", "refused"},
                wallet : Wallets \cup {None}, left : SUBSET Assets, asset : Assets \cup {None},
                refused : SUBSET Assets, scope : SUBSET Assets]
  /\ sweep.pc = "removing" => sweep.asset # None
  /\ covered \subseteq Plans \X Wallets
  /\ since \in [Plans -> SUBSET {"granted", "revoked"}]
  /\ changes \in 0..MaxChanges /\ faults \in 0..MaxFaults

(* The parties the whitelisting option has to clear, and whether one is. *)
Required(p) == {r \in (DOMAIN plan[p]) \X Parties :
  /\ Checked(plan[p][r[1]]) /\ Standard[plan[p][r[1]].asset] = "whitelisting"
  /\ plan[p][r[1]][r[2]] # None}
Clear(p, r) == <<mapping[plan[p][r[1]][r[2]]], plan[p][r[1]].asset>> \in listed

(* Failing closed: a plan is approved only after it was read, holding no local
   instruction on an asset of an unknown standard, and with every investor it
   names allowed to hold the asset of the instruction -- at that moment, unless
   somebody was removed from a whitelist or given another wallet while the
   approval ran.  Whatever failed on the way. *)
ApprovalClears == [][\A p \in Plans : verdict[p] = "none" /\ verdict'[p] = "approved" =>
  /\ \A i \in DOMAIN plan'[p] : Checked(plan'[p][i]) => Standard[plan'[p][i].asset] # "unregistered"
  /\ "revoked" \notin since[p] => \A r \in Required(p)' : Clear(p, r)']_vars

(* A veto is never a false alarm: the plan names an investor without a wallet
   or not on the whitelist, unless somebody was let in while it was checked. *)
VetoHasCause == [][\A p \in Plans :
  verdict[p] = "none" /\ verdict'[p] \in {"unmapped", "unlisted"} /\ "granted" \notin since[p] =>
    \E r \in Required(p) : ~Clear(p, r)]_vars

(* The gas station sends nothing for a plan that is rejected, and what it does
   send is not taken back by a rejection. *)
VetoedIsUnfunded ==
  \A p \in Plans : verdict[p] \notin {"none", "approved"} =>
    \A w \in Wallets : topUp[p][w] = "none"

(* A wallet whose top-up returned can pay for everything the plan has yet to
   sign with it, until a transaction the plan did not count on is paid from it:
   the top-up is the plan's total and not the price of one transaction. *)
CoveredHasGas ==
  \A c \in covered :
    gas[c[2]] >= Cardinality({i \in todo[c[1]] : signer[c[1]][i] = c[2]})

(* A dewhitelist call that returns leaves the wallet on none of the whitelists
   it took up, except where somebody put it back meanwhile. *)
SweptIsUnlisted == [][sweep.pc = "sweeping" /\ sweep'.pc = "returned" =>
  \A a \in sweep.scope : <<sweep.wallet, a>> \notin listed]_vars

(* Every approval that was taken up is answered, a top-up that never lands
   included. *)
ApprovalEnds == \A p \in Plans : pc[p] = "introspect" ~> pc[p] = "answered"
=============================================================================
