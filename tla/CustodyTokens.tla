--------------------------- MODULE CustodyTokens ---------------------------
(***************************************************************************)
(* Token and escrow operations of direct custody mode: issue, transfer,    *)
(* redeem, hold, release and rollback of CustodyTokenService over one      *)
(* escrow wallet that all held operations share.                           *)
(*                                                                         *)
(* The module follows services/custody/token-service.ts and the hold model *)
(* of integrations/token-standards/registry.ts.  Calls run side by side,   *)
(* every await is a step boundary, a transaction may land after the call   *)
(* that sent it gave up on it, and account mappings change under the       *)
(* calls.  The orchestrator, the token contracts, the custody provider and *)
(* the stores are modelled from how that code uses them; an operation      *)
(* moves one token.                                                        *)
(***************************************************************************)
EXTENDS Integers, FiniteSets

CONSTANTS
  Orders,        (* what the orchestrator wants done                       *)
  InitOrders,    (* which order is which: a set of functions on Orders     *)
  FinIds, Wallets, Assets,
  Custodied,     (* the wallets the custody provider can sign for          *)
  Escrow,        (* the escrow wallet                                      *)
  None,
  HoldModel,     (* [Assets -> "escrow-transfer" or "holder-reservation"]  *)
  InitMapping,   (* [FinIds -> Wallets]                                    *)
  InitKnown,     (* the assets recorded to begin with: a set of sets       *)
  InitBalance,   (* [Wallets -> [Assets -> Nat]]                           *)
  MaxChanges, MaxFaults     (* bounds                                      *)

Kinds == {"issue", "transfer", "redeem", "hold"}
Settlements == {"release", "redeemHeld", "rollback"}
Methods == Kinds \cup Settlements
Accounts == Wallets \cup {Escrow}

(* An order of kind "hold" is a hold and what settles it: a release to the
   destination, a redemption if there is none, or a rollback.  "given" is the
   ledger address that came with the destination. *)
Order == [kind : Kinds, asset : Assets, from : FinIds \cup {None}, to : FinIds \cup {None},
          given : Wallets \cup {None}]

ASSUME NamesAssumption == Escrow \notin Wallets \cup {None} /\ None \notin FinIds \cup Wallets
ASSUME OrdersAssumption ==
  /\ IsFiniteSet(Orders)
  /\ InitOrders \subseteq [Orders -> Order]
  /\ \A x \in InitOrders : \A o \in Orders :
       /\ x[o].kind # "issue" => x[o].from # None
       /\ x[o].kind \in {"issue", "transfer"} => x[o].to # None
ASSUME WorldAssumption ==
  /\ Custodied \subseteq Wallets
  /\ HoldModel \in [Assets -> {"escrow-transfer", "holder-reservation"}]
  /\ InitMapping \in [FinIds -> Wallets \cup {None}]
  /\ InitKnown \subseteq SUBSET Assets
  /\ InitBalance \in [Wallets -> [Assets -> Nat]]
ASSUME BoundsAssumption == MaxChanges \in Nat /\ MaxFaults \in Nat

VARIABLES
  order,         (* the orders                                             *)
  issuer,        (* whether an issuer key is configured                    *)
  pc, method, signer, target,   (* the call running for each order         *)
  answer,        (* the receipts: [Orders -> [Methods -> ...]]             *)
  tx,            (* the transactions: [Orders -> [Methods -> ...]]         *)
  mapping, known,               (* account mapping, asset records          *)
  balance,       (* chain: [Accounts -> [Assets -> Nat]]                   *)
  reserved,      (* chain: orders whose token is reserved at the holder    *)
  lost,          (* history: assets of which a settlement's answer was lost *)
  changes, faults

call == <<pc, method, signer, target>>
config == <<order, issuer>>
chain == <<tx, balance, reserved>>
stores == <<mapping, known, changes>>
vars == <<config, call, answer, chain, stores, lost, faults>>

(* Operators named Mutant... are plausible slips in the definition they
   precede; no specification uses them. *)

Fault == faults < MaxFaults /\ faults' = faults + 1
Change == changes < MaxChanges /\ changes' = changes + 1

NoTx == [state |-> "none", by |-> None, to |-> None]

Init ==
  /\ order \in InitOrders
  /\ issuer \in BOOLEAN
  /\ pc = [o \in Orders |-> "idle"]
  /\ method = [o \in Orders |-> "none"]
  /\ signer = [o \in Orders |-> None]
  /\ target = [o \in Orders |-> None]
  /\ answer = [o \in Orders |-> [m \in Methods |-> "none"]]
  /\ tx = [o \in Orders |-> [m \in Methods |-> NoTx]]
  /\ mapping = InitMapping
  /\ known \in InitKnown
  /\ balance = [w \in Accounts |-> IF w = Escrow THEN [a \in Assets |-> 0] ELSE InitBalance[w]]
  /\ reserved = {}
  /\ lost = {}
  /\ changes = 0 /\ faults = 0

-----------------------------------------------------------------------------
(***************************************************************************)
(* What a method does                                                      *)
(***************************************************************************)
Reserving(o) == HoldModel[order[o].asset] = "holder-reservation"

NeedsSource == {"transfer", "redeem", "hold"}
NeedsTarget == {"issue", "transfer", "release", "rollback"}

(* The call of the token standard.  The slip burns from escrow whatever the
   asset's hold model. *)
MutantDeed(o, m) ==
  CASE m = "issue" -> "mint"
    [] m \in {"redeem", "redeemHeld"} -> "burn"
    [] m \in {"release", "rollback"} -> "release"
    [] OTHER -> m
Deed(o, m) ==
  CASE m = "issue" -> "mint"
    [] m = "redeem" \/ (m = "redeemHeld" /\ ~Reserving(o)) -> "burn"
    [] m \in {"release", "rollback"} \/ (m = "redeemHeld" /\ Reserving(o)) -> "release"
    [] OTHER -> m

(* The wallet that signs, and whose tokens are burned.  The slip overlooks
   the operation id of a redemption. *)
MutantBy(o, m) == IF m \in {"release", "rollback"} THEN Escrow
                  ELSE IF m = "redeemHeld" /\ mapping[order[o].from] # None THEN mapping[order[o].from]
                  ELSE signer[o]
By(o, m) == IF m \in Settlements THEN Escrow ELSE signer[o]

(* The investor a method pays, and the address that came with the request. *)
Payee(o, m) == IF m = "rollback" THEN order[o].from ELSE order[o].to
Given(o, m) == IF m = "rollback" THEN None ELSE order[o].given
Address(o, m) == IF Payee(o, m) # None /\ mapping[Payee(o, m)] # None THEN mapping[Payee(o, m)]
                 ELSE Given(o, m)

-----------------------------------------------------------------------------
(***************************************************************************)
(* The orchestrator                                                        *)
(***************************************************************************)
Settled(o) == \E m \in Settlements : answer[o][m] = "success"

(* It asks for a method of an order at most once (a repeated request is
   answered from the first one's record), settles what was held and, when a
   settlement fails, may try another. *)
Due(o, m) ==
  /\ answer[o][m] = "none"
  /\ \/ m = order[o].kind
     \/ /\ m \in Settlements /\ order[o].kind = "hold"
        /\ answer[o]["hold"] = "success" /\ ~Settled(o)
        /\ m = "release" => order[o].to # None \/ order[o].given # None
        /\ m = "redeemHeld" => order[o].to = None

Request(o, m) ==
  /\ pc[o] = "idle" /\ Due(o, m)
  /\ pc' = [pc EXCEPT ![o] = "asset"]
  /\ method' = [method EXCEPT ![o] = m]
  /\ UNCHANGED <<config, signer, target, answer, chain, stores, lost, faults>>

-----------------------------------------------------------------------------
(***************************************************************************)
(* CustodyTokenService                                                     *)
(***************************************************************************)
(* The receipt; the call is over. *)
Answer(o, a) ==
  /\ answer' = [answer EXCEPT ![o][method[o]] = a]
  /\ pc' = [pc EXCEPT ![o] = "idle"]
  /\ method' = [method EXCEPT ![o] = "none"]
  /\ signer' = [signer EXCEPT ![o] = None]
  /\ target' = [target EXCEPT ![o] = None]

(* Where the call goes on after a step. *)
After(m, step) ==
  IF step = "asset" /\ m \in NeedsSource THEN "source"
  ELSE IF step # "target" /\ m \in NeedsTarget THEN "target"
  ELSE "send"

(* assetRecord; issuing stops where no issuer is configured. *)
FindAsset(o) ==
  /\ pc[o] = "asset"
  /\ \/ /\ order[o].asset \notin known \/ (method[o] = "issue" /\ ~issuer)
        /\ Answer(o, "failed")
     \/ /\ order[o].asset \in known /\ (method[o] = "issue" => issuer)
        /\ pc' = [pc EXCEPT ![o] = After(method[o], "asset")]
        /\ UNCHANGED <<method, signer, target, answer>>
  /\ UNCHANGED <<config, chain, stores, lost, faults>>

(* resolveSourceWallet *)
ResolveSource(o) ==
  /\ pc[o] = "source"
  /\ LET w == mapping[order[o].from] IN
     \/ w \notin Custodied /\ Answer(o, "failed")
     \/ /\ w \in Custodied
        /\ pc' = [pc EXCEPT ![o] = After(method[o], "source")]
        /\ signer' = [signer EXCEPT ![o] = w]
        /\ UNCHANGED <<method, target, answer>>
  /\ UNCHANGED <<config, chain, stores, lost, faults>>

(* The destination's wallet, or else the address given for it; a rollback pays
   the wallet the source has by now.  The slip returns without a receipt where
   there is none. *)
MutantResolveTarget(o) ==
  /\ pc[o] = "target"
  /\ Address(o, method[o]) # None
  /\ pc' = [pc EXCEPT ![o] = "send"]
  /\ target' = [target EXCEPT ![o] = Address(o, method[o])]
  /\ UNCHANGED <<config, method, signer, answer, chain, stores, lost, faults>>
ResolveTarget(o) ==
  /\ pc[o] = "target"
  /\ LET w == Address(o, method[o]) IN
     \/ w = None /\ Answer(o, "failed")
     \/ /\ w # None
        /\ pc' = [pc EXCEPT ![o] = "send"]
        /\ target' = [target EXCEPT ![o] = w]
        /\ UNCHANGED <<method, signer, answer>>
  /\ UNCHANGED <<config, chain, stores, lost, faults>>

Send(o) ==
  /\ pc[o] = "send"
  /\ tx' = [tx EXCEPT ![o][method[o]] = [state |-> "pending", by |-> By(o, method[o]), to |-> target[o]]]
  /\ pc' = [pc EXCEPT ![o] = "wait"]
  /\ UNCHANGED <<config, method, signer, target, answer, balance, reserved, stores, lost, faults>>

(* A store, the provider or the node fails before anything was sent. *)
Throws(o) ==
  /\ pc[o] \in {"asset", "source", "target", "send"}
  /\ Answer(o, "failed")
  /\ Fault
  /\ UNCHANGED <<config, chain, stores, lost>>

(* Waiting for the transaction fails: every exception becomes a failed
   receipt, whether the transaction lands or not. *)
WaitThrows(o) ==
  /\ pc[o] = "wait"
  /\ Answer(o, "failed")
  /\ lost' = IF method[o] \in Settlements THEN lost \cup {order[o].asset} ELSE lost
  /\ Fault
  /\ UNCHANGED <<config, chain, stores>>

(* The slip takes a transaction that was sent for one that landed. *)
MutantWaitReturns(o) ==
  /\ pc[o] = "wait"
  /\ Answer(o, "success")
  /\ UNCHANGED <<config, chain, stores, lost, faults>>
WaitReturns(o) ==
  /\ pc[o] = "wait"
  /\ \/ tx[o][method[o]].state = "landed" /\ Answer(o, "success")
     \/ tx[o][method[o]].state \in {"short", "refused"} /\ Answer(o, "failed")
  /\ UNCHANGED <<config, chain, stores, lost, faults>>

(* createAsset: a deployment, which takes an issuer, or a binding. *)
CreateAsset(a, deploy) ==
  /\ a \notin known /\ (deploy => issuer)
  /\ known' = known \cup {a}
  /\ UNCHANGED <<config, call, answer, chain, mapping, changes, lost, faults>>

-----------------------------------------------------------------------------
(***************************************************************************)
(* The token contracts and the account mapping                             *)
(***************************************************************************)
(* Who pays a token and who gets it; None where it is made, burned or kept on
   the holder's account as a reservation. *)
Payer(o, m) == IF Deed(o, m) = "mint" \/ (Deed(o, m) = "release" /\ Reserving(o)) THEN None
               ELSE tx[o][m].by
Taker(o, m) == CASE Deed(o, m) = "hold" -> IF Reserving(o) THEN None ELSE Escrow
                 [] Deed(o, m) = "burn" -> None
                 [] OTHER -> tx[o][m].to

Possible(o, m) ==
  /\ Payer(o, m) # None => balance[Payer(o, m)][order[o].asset] > 0
  /\ Deed(o, m) = "release" => IF Reserving(o) THEN o \in reserved ELSE tx[o][m].to # None

Lands(o, m) ==
  /\ tx[o][m].state = "pending" /\ Possible(o, m)
  /\ tx' = [tx EXCEPT ![o][m].state = "landed"]
  /\ balance' = [w \in Accounts |-> [balance[w] EXCEPT ![order[o].asset] =
                   @ - (IF w = Payer(o, m) THEN 1 ELSE 0) + (IF w = Taker(o, m) THEN 1 ELSE 0)]]
  /\ reserved' = CASE Reserving(o) /\ Deed(o, m) = "hold" -> reserved \cup {o}
                   [] Reserving(o) /\ Deed(o, m) = "release" -> reserved \ {o}
                   [] OTHER -> reserved
  /\ UNCHANGED <<config, call, answer, stores, lost, faults>>
(* There is no token to pay with. *)
FallsShort(o, m) ==
  /\ tx[o][m].state = "pending" /\ ~Possible(o, m)
  /\ tx' = [tx EXCEPT ![o][m].state = "short"]
  /\ UNCHANGED <<config, call, answer, balance, reserved, stores, lost, faults>>
(* Any other reason: no gas, a paused token, a party that is not listed. *)
IsRefused(o, m) ==
  /\ tx[o][m].state = "pending"
  /\ tx' = [tx EXCEPT ![o][m].state = "refused"]
  /\ Fault
  /\ UNCHANGED <<config, call, answer, balance, reserved, stores, lost>>

Rebind(f, w) ==
  /\ Change
  /\ w # mapping[f]
  /\ mapping' = [mapping EXCEPT ![f] = w]
  /\ UNCHANGED <<config, call, answer, chain, known, lost, faults>>

-----------------------------------------------------------------------------
CallStep(o) == FindAsset(o) \/ ResolveSource(o) \/ ResolveTarget(o) \/ Send(o) \/ WaitReturns(o)
Mine(o, m) == Lands(o, m) \/ FallsShort(o, m)

Next ==
  \/ \E o \in Orders :
       \/ \E m \in Methods : Request(o, m) \/ Mine(o, m) \/ IsRefused(o, m)
       \/ CallStep(o) \/ Throws(o) \/ WaitThrows(o)
  \/ \E a \in Assets, deploy \in BOOLEAN : CreateAsset(a, deploy)
  \/ \E f \in FinIds, w \in Wallets \cup {None} : Rebind(f, w)

Spec == Init /\ [][Next]_vars

(* The event loop resumes every call whose await has settled, and the chain
   mines what was sent. *)
FairSpec == Spec /\ \A o \in Orders : WF_vars(CallStep(o)) /\ \A m \in Methods : WF_vars(Mine(o, m))

-----------------------------------------------------------------------------
(***************************************************************************)
(* Properties                                                              *)
(***************************************************************************)
TxType == [state : {"none", "pending", "landed", "short", "refused"},
           by : Accounts \cup {None}, to : Wallets \cup {None}]

(* The calls, their receipts and their transactions keep to their shapes; a
   call that sends knows for whom. *)
TypeOK ==
  /\ order \in [Orders -> Order]
  /\ issuer \in BOOLEAN
  /\ pc \in [Orders -> {"idle", "asset", "source", "target", "send", "wait"}]
  /\ method \in [Orders -> Methods \cup {"none"}]
  /\ \A o \in Orders : pc[o] = "idle" <=> method[o] = "none"
  /\ signer \in [Orders -> Wallets \cup {None}]
  /\ target \in [Orders -> Wallets \cup {None}]
  /\ \A o \in Orders : pc[o] \in {"send", "wait"} /\ method[o] \in NeedsTarget => target[o] # None
  /\ answer \in [Orders -> [Methods -> {"none", "success", "failed"}]]
  /\ tx \in [Orders -> [Methods -> TxType]]
  /\ mapping \in [FinIds -> Wallets \cup {None}]
  /\ known \subseteq Assets
  /\ balance \in [Accounts -> [Assets -> Nat]]
  /\ reserved \subseteq Orders
  /\ lost \subseteq Assets
  /\ changes \in 0..MaxChanges /\ faults \in 0..MaxFaults

(* What is set aside for the held orders of an asset: the escrow wallet's
   balance, which all of them share, or the reservations. *)
Backing(a) == IF HoldModel[a] = "escrow-transfer" THEN balance[Escrow][a]
              ELSE Cardinality({o \in reserved : order[o].asset = a})

(* The orders the orchestrator takes for held; the holds that took a token and
   are not, or not yet, answered so; the settlements that paid a token and are
   not, or not yet, answered so. *)
Held(a) == {o \in Orders : order[o].asset = a /\ answer[o]["hold"] = "success" /\ ~Settled(o)}
Stray(a) == {o \in Orders : order[o].asset = a /\ tx[o]["hold"].state = "landed" /\ answer[o]["hold"] # "success"}
Unseen(a) == {s \in Orders \X Settlements :
  order[s[1]].asset = a /\ tx[s[1]][s[2]].state = "landed" /\ answer[s[1]][s[2]] # "success"}

(* The shared escrow always accounts for the held orders to the token: it
   lacks exactly those whose settlement paid without an answer and has in
   excess exactly those whose hold took a token without an answer, whichever
   the asset's hold model and however calls, transactions and remappings
   interleave. *)
EscrowAccounted == \A a \in Assets :
  Backing(a) + Cardinality(Unseen(a)) = Cardinality(Held(a)) + Cardinality(Stray(a))

(* Until the answer to some settlement of its asset was lost, no settlement of
   a held order finds the escrow without its token: orders do not spend each
   other's, though nothing in the escrow wallet tells them apart. *)
HeldIsPayable == \A o \in Orders, m \in Settlements :
  tx[o][m].state = "short" => order[o].asset \in lost

(* An order takes a token of an investor at most once: a held redemption burns
   what the hold took, and not another one of the holder's. *)
HolderPaysOnce == \A o \in Orders :
  Cardinality({m \in Methods : tx[o][m].state = "landed" /\ tx[o][m].by \in Wallets /\ Deed(o, m) # "mint"}) <= 1

(* Until then, too, the escrow is a token pool that owes what the orchestrator
   takes for held: a debt arises only for a token that a hold has brought and
   that no other order was credited with, a token leaves only for a debt, and a
   debt goes only with a token. *)
Owed(a) == Cardinality(Held(a)) - Cardinality(Unseen(a))
Pool == INSTANCE TokenPool WITH
  open <- Assets \ lost,
  held <- [a \in Assets |-> IF a \in lost THEN 0 ELSE Backing(a)],
  owed <- [a \in Assets |-> IF a \in lost THEN 0 ELSE Owed(a)]
PoolImplemented == Pool!Spec

(* Every call is answered, whatever was resolved, refused or thrown. *)
CallEnds == \A o \in Orders : pc[o] = "asset" ~> pc[o] = "idle"
=============================================================================
