-------------------------- MODULE OmnibusDelegate --------------------------
(***************************************************************************)
(* Omnibus mode: the tokens of all investors of the organisation lie in    *)
(* one omnibus wallet, those of held orders in an escrow wallet, and who   *)
(* owns what stands in a ledger.                                           *)
(*                                                                         *)
(* The module follows services/omnibus/omnibus-delegate.ts, which moves    *)
(* the tokens and verifies arrivals.  The ledger that calls it (the        *)
(* vanilla service) is modelled by what docs/omnibus-mode.md says of it:   *)
(* lock, execute, settle, and credit what was verified.  Its accounts are  *)
(* taken together: the ledger is the number of tokens it has not locked    *)
(* and the set of orders whose token it has.  An order moves one token; an *)
(* incoming transaction moves any number.                                  *)
(***************************************************************************)
EXTENDS Integers, FiniteSets

CONSTANTS
  Orders, Investors,
  Partners,        (* investors of other organisations                     *)
  Assets, Transfers,     (* Transfers: the incoming transactions           *)
  None,
  InitOrders,      (* which order is which: a set of functions on Orders   *)
  InitTransfers,   (* [Transfers -> Transfer]                              *)
  InitKnown,       (* the assets recorded to begin with: a set of sets     *)
  InitPools,       (* the tokens in the omnibus wallet to begin with, all
                      of them promised: a set of [Assets -> Nat]           *)
  MaxChanges, MaxFaults    (* bounds                                       *)

FinIds == Investors \cup Partners
Settlements == {"release", "rollback"}
Methods == {"outbound", "hold", "inbound"} \cup Settlements

(* "given" is the ledger account that comes with the destination: none that
   has an address, an address on this chain, or one on another chain. *)
Order == [kind : {"outbound", "hold", "inbound"}, asset : Assets, to : FinIds,
          given : {"none", "here", "elsewhere"}, transfer : Transfers \cup {None}, amount : Nat]

(* A transaction to the token contract of an asset: whether it succeeds, the
   amount of its first transfer to the omnibus wallet (0: it has none) and
   what any further ones bring. *)
Transfer == [asset : Assets, ok : BOOLEAN, first : Nat, more : Nat]

ASSUME NamesAssumption == None \notin Transfers /\ Investors \cap Partners = {}
ASSUME OrdersAssumption ==
  /\ IsFiniteSet(Orders)
  /\ InitOrders \subseteq [Orders -> Order]
  /\ \A x \in InitOrders : \A o \in Orders :
       /\ x[o].kind = "inbound" <=> x[o].transfer # None
       /\ x[o].kind = "inbound" => x[o].to \in Investors
       /\ x[o].kind = "outbound" => x[o].to \in Partners
ASSUME WorldAssumption ==
  /\ InitTransfers \in [Transfers -> Transfer]
  /\ InitKnown \subseteq SUBSET Assets
  /\ InitPools \subseteq [Assets -> Nat]
ASSUME BoundsAssumption == MaxChanges \in Nat /\ MaxFaults \in Nat

VARIABLES
  order,         (* the orders                                             *)
  shared,        (* whether one wallet is both escrow and omnibus wallet   *)
  finalized,     (* requireFinalizedBlock                                  *)
  pc, method, target,      (* the delegate's call for each order           *)
  answer,        (* [Orders -> [Methods -> ...]]                           *)
  avail, locked, (* the ledger: unlocked tokens, orders whose token it locked *)
  tx,            (* the delegate's transactions                            *)
  incoming,      (* [Transfers -> how deep the transaction lies]           *)
  balance,       (* chain: ["omnibus", "escrow" -> [Assets -> Nat]]        *)
  mapped,        (* the finIds the account mapping has an address for      *)
  known,         (* the assets recorded                                    *)
  troubled,      (* history: assets of which an answer was lost, or a token
                    of an investor left although the ledger keeps it       *)
  changes, faults

config == <<order, shared, finalized>>
call == <<pc, method, target>>
ledger == <<avail, locked>>
chain == <<tx, incoming, balance>>
stores == <<mapped, known, changes>>
vars == <<config, call, answer, ledger, chain, stores, troubled, faults>>

(* Operators named Mutant... are plausible slips in the definition they
   precede; no specification uses them. *)

Fault == faults < MaxFaults /\ faults' = faults + 1
Change == changes < MaxChanges /\ changes' = changes + 1

NoTx == [state |-> "none", to |-> "none"]

Init ==
  /\ order \in InitOrders
  /\ shared \in BOOLEAN /\ finalized \in BOOLEAN
  /\ pc = [o \in Orders |-> "idle"]
  /\ method = [o \in Orders |-> "none"]
  /\ target = [o \in Orders |-> "none"]
  /\ answer = [o \in Orders |-> [m \in Methods |-> "none"]]
  /\ avail \in InitPools /\ locked = {}
  /\ tx = [o \in Orders |-> [m \in Methods |-> NoTx]]
  /\ incoming = [t \in Transfers |-> "sent"]
  /\ balance = [w \in {"omnibus", "escrow"} |-> IF w = "omnibus" THEN avail ELSE [a \in Assets |-> 0]]
  /\ mapped = Investors
  /\ known \in InitKnown
  /\ troubled = {}
  /\ changes = 0 /\ faults = 0

-----------------------------------------------------------------------------
(***************************************************************************)
(* The orchestrator and the ledger                                         *)
(***************************************************************************)
Settled(o) == \E m \in Settlements : answer[o][m] = "success"

(* A method of an order is asked for once; what is held is settled, and a
   settlement that failed may be tried the other way. *)
Due(o, m) ==
  /\ answer[o][m] = "none"
  /\ \/ m = order[o].kind
     \/ /\ m \in Settlements /\ order[o].kind = "hold"
        /\ answer[o]["hold"] = "success" /\ ~Settled(o)

(* The ledger counts an incoming transaction once. *)
Fresh(t) == \A p \in Orders : order[p].transfer = t => method[p] # "inbound" /\ answer[p]["inbound"] # "success"

(* What leaves the omnibus wallet is locked first. *)
Lock(o) ==
  /\ avail[order[o].asset] > 0
  /\ avail' = [avail EXCEPT ![order[o].asset] = @ - 1]
  /\ locked' = locked \cup {o}

Request(o, m) ==
  /\ pc[o] = "idle" /\ Due(o, m)
  /\ m = "inbound" => Fresh(order[o].transfer)
  /\ IF m \in {"outbound", "hold"} THEN Lock(o) ELSE UNCHANGED ledger
  /\ pc' = [pc EXCEPT ![o] = IF m = "inbound" THEN "receipt" ELSE "asset"]
  /\ method' = [method EXCEPT ![o] = m]
  /\ UNCHANGED <<config, target, answer, chain, stores, troubled, faults>>

(* The call returns or throws, and the ledger books the outcome: what was
   credited, what went, what comes back. *)
Credited(o, a) ==
  LET m == method[o] IN
  CASE m = "inbound" /\ a = "success" -> order[o].amount
    [] m \in {"outbound", "hold"} /\ a = "failed" -> 1
    [] m = "rollback" /\ a = "success" -> 1
    [] m = "release" /\ a = "success" /\ order[o].to \in Investors -> 1
    [] OTHER -> 0
Unlocks(o, a) == (method[o] \in {"outbound", "release", "rollback"} /\ a = "success")
                 \/ (method[o] \in {"outbound", "hold"} /\ a = "failed")

Answer(o, a) ==
  /\ answer' = [answer EXCEPT ![o][method[o]] = a]
  /\ avail' = [avail EXCEPT ![order[o].asset] = @ + Credited(o, a)]
  /\ locked' = IF Unlocks(o, a) THEN locked \ {o} ELSE locked
  /\ pc' = [pc EXCEPT ![o] = "idle"]
  /\ method' = [method EXCEPT ![o] = "none"]
  /\ target' = [target EXCEPT ![o] = "none"]

Goto(o, step) == pc' = [pc EXCEPT ![o] = step] /\ UNCHANGED <<method, answer, ledger>>

-----------------------------------------------------------------------------
(***************************************************************************)
(* OmnibusDelegate                                                         *)
(***************************************************************************)
EscrowWallet == IF shared THEN "omnibus" ELSE "escrow"

(* The wallet that pays.  The slip settles held orders from the pool. *)
MutantFrom(m) == "omnibus"
From(m) == IF m \in Settlements THEN EscrowWallet ELSE "omnibus"

(* Where a destination's tokens go: an outbound transfer to its address, be it
   mapped or given; a release stays in the pool if the destination is mapped.
   "none": nowhere.  An address on another chain throws wherever it is looked
   at, which a release does first. *)
Whither(o) ==
  CASE method[o] = "outbound" /\ (order[o].to \in mapped \/ order[o].given = "here") -> "outside"
    [] method[o] = "release" /\ order[o].given # "elsewhere" /\ order[o].to \in mapped -> "omnibus"
    [] method[o] = "release" /\ order[o].given = "here" /\ order[o].to \notin mapped -> "outside"
    [] OTHER -> "none"

To(o) == CASE method[o] = "hold" -> EscrowWallet
           [] method[o] = "rollback" -> "omnibus"
           [] OTHER -> target[o]

(* assetRecord, of the calls that move tokens. *)
FindAsset(o) ==
  /\ pc[o] = "asset" /\ method[o] # "inbound"
  /\ \/ order[o].asset \notin known /\ Answer(o, "failed")
     \/ /\ order[o].asset \in known
        /\ Goto(o, IF method[o] \in {"outbound", "release"} THEN "resolve" ELSE "send")
        /\ UNCHANGED target
  /\ UNCHANGED <<config, chain, stores, troubled, faults>>

(* An investor of this organisation who is not mapped any more counts as one
   of another. *)
Resolve(o) ==
  /\ pc[o] = "resolve"
  /\ \/ Whither(o) = "none" /\ Answer(o, "failed")
     \/ /\ Whither(o) # "none"
        /\ Goto(o, "send")
        /\ target' = [target EXCEPT ![o] = Whither(o)]
  /\ troubled' = IF Whither(o) = "outside" /\ order[o].to \in Investors \ mapped
                 THEN troubled \cup {order[o].asset} ELSE troubled
  /\ UNCHANGED <<config, chain, stores, faults>>

(* ensureGas and the call of the token standard *)
Send(o) ==
  /\ pc[o] = "send"
  /\ tx' = [tx EXCEPT ![o][method[o]] = [state |-> "pending", to |-> To(o)]]
  /\ Goto(o, "wait")
  /\ UNCHANGED <<config, target, incoming, balance, stores, troubled, faults>>

WaitReturns(o) ==
  /\ pc[o] = "wait"
  /\ \/ tx[o][method[o]].state = "landed" /\ Answer(o, "success")
     \/ tx[o][method[o]].state \in {"short", "refused"} /\ Answer(o, "failed")
  /\ UNCHANGED <<config, chain, stores, troubled, faults>>

(* Waiting fails though the transaction has landed or may land. *)
WaitThrows(o) ==
  /\ pc[o] = "wait"
  /\ Answer(o, "failed")
  /\ troubled' = IF tx[o][method[o]].state \in {"pending", "landed"}
                 THEN troubled \cup {order[o].asset} ELSE troubled
  /\ Fault
  /\ UNCHANGED <<config, chain, stores>>

(* A store, the node, the custody provider or the gas station fails first. *)
Throws(o) ==
  /\ pc[o] \in {"receipt", "final", "asset", "resolve", "send"}
  /\ Answer(o, "failed")
  /\ Fault
  /\ UNCHANGED <<config, chain, stores, troubled>>

(* verifyReceiptOnChain: the receipt once the transaction is confirmed, or
   none within the timeout; *)
AwaitReceipt(o) ==
  /\ pc[o] = "receipt"
  /\ LET t == order[o].transfer IN
     \/ (incoming[t] = "sent" \/ ~InitTransfers[t].ok) /\ Answer(o, "failed")
     \/ /\ incoming[t] # "sent" /\ InitTransfers[t].ok
        /\ Goto(o, IF finalized THEN "final" ELSE "asset")
        /\ UNCHANGED target
  /\ UNCHANGED <<config, chain, stores, troubled, faults>>

(* its block finalized, or not within the timeout (the slip waits on); *)
MutantAwaitFinal(o) ==
  /\ pc[o] = "final" /\ incoming[order[o].transfer] = "final"
  /\ Goto(o, "asset")
  /\ UNCHANGED <<config, target, chain, stores, troubled, faults>>
AwaitFinal(o) ==
  /\ pc[o] = "final"
  /\ \/ incoming[order[o].transfer] # "final" /\ Answer(o, "failed")
     \/ /\ incoming[order[o].transfer] = "final"
        /\ Goto(o, "asset")
        /\ UNCHANGED target
  /\ UNCHANGED <<config, chain, stores, troubled, faults>>

(* the token contract, the first transfer to the omnibus wallet, its amount.
   The slip does not compare the amount. *)
MutantVerified(o) == LET t == InitTransfers[order[o].transfer] IN
  order[o].asset \in known /\ t.asset = order[o].asset /\ t.first > 0
Verified(o) == LET t == InitTransfers[order[o].transfer] IN
  order[o].asset \in known /\ t.asset = order[o].asset /\ t.first > 0 /\ t.first = order[o].amount

Verify(o) ==
  /\ pc[o] = "asset" /\ method[o] = "inbound"
  /\ Answer(o, IF Verified(o) THEN "success" ELSE "failed")
  /\ UNCHANGED <<config, chain, stores, troubled, faults>>

(* createAsset, deploying or binding the token *)
CreateAsset(a) ==
  /\ a \notin known
  /\ known' = known \cup {a}
  /\ UNCHANGED <<config, call, answer, ledger, chain, mapped, changes, troubled, faults>>

-----------------------------------------------------------------------------
(***************************************************************************)
(* The chain and the account mapping                                       *)
(***************************************************************************)
Possible(o, m) == balance[From(m)][order[o].asset] > 0

Lands(o, m) ==
  /\ tx[o][m].state = "pending" /\ Possible(o, m)
  /\ tx' = [tx EXCEPT ![o][m].state = "landed"]
  /\ balance' = [w \in {"omnibus", "escrow"} |-> [balance[w] EXCEPT ![order[o].asset] =
                   @ - (IF w = From(m) THEN 1 ELSE 0) + (IF w = tx[o][m].to THEN 1 ELSE 0)]]
  /\ UNCHANGED <<config, call, answer, ledger, incoming, stores, troubled, faults>>
FallsShort(o, m) ==
  /\ tx[o][m].state = "pending" /\ ~Possible(o, m)
  /\ tx' = [tx EXCEPT ![o][m].state = "short"]
  /\ UNCHANGED <<config, call, answer, ledger, incoming, balance, stores, troubled, faults>>
IsRefused(o, m) ==
  /\ tx[o][m].state = "pending"
  /\ tx' = [tx EXCEPT ![o][m].state = "refused"]
  /\ Fault
  /\ UNCHANGED <<config, call, answer, ledger, incoming, balance, stores, troubled>>

(* An incoming transaction is confirmed as often as the delegate asks for; a
   block that deep is not undone, and its tokens count from here on. *)
Confirm(t) ==
  /\ incoming[t] = "sent"
  /\ incoming' = [incoming EXCEPT ![t] = "confirmed"]
  /\ balance' = IF InitTransfers[t].ok
                THEN [balance EXCEPT !["omnibus"][InitTransfers[t].asset] =
                        @ + InitTransfers[t].first + InitTransfers[t].more]
                ELSE balance
  /\ UNCHANGED <<config, call, answer, ledger, tx, stores, troubled, faults>>
Finalize(t) ==
  /\ incoming[t] = "confirmed"
  /\ incoming' = [incoming EXCEPT ![t] = "final"]
  /\ UNCHANGED <<config, call, answer, ledger, tx, balance, stores, troubled, faults>>

(* Onboarding and removal of an account; operators may map partners too, so
   that outbound transfers find them. *)
Remap(f) ==
  /\ Change
  /\ mapped' = IF f \in mapped THEN mapped \ {f} ELSE mapped \cup {f}
  /\ UNCHANGED <<config, call, answer, ledger, chain, known, troubled, faults>>

-----------------------------------------------------------------------------
CallStep(o) == \/ FindAsset(o) \/ Resolve(o) \/ Send(o) \/ WaitReturns(o)
               \/ AwaitReceipt(o) \/ AwaitFinal(o) \/ Verify(o)
Mine(o, m) == Lands(o, m) \/ FallsShort(o, m)

Next ==
  \/ \E o \in Orders :
       \/ \E m \in Methods : Request(o, m) \/ Mine(o, m) \/ IsRefused(o, m)
       \/ CallStep(o) \/ Throws(o) \/ WaitThrows(o)
  \/ \E a \in Assets : CreateAsset(a)
  \/ \E t \in Transfers : Confirm(t) \/ Finalize(t)
  \/ \E f \in FinIds : Remap(f)

Spec == Init /\ [][Next]_vars

(* The event loop resumes every call, whose waits end by an answer or by a
   timeout, and the chain mines what the delegate sent. *)
FairSpec == Spec /\ \A o \in Orders : WF_vars(CallStep(o)) /\ \A m \in Methods : WF_vars(Mine(o, m))

-----------------------------------------------------------------------------
(***************************************************************************)
(* Properties                                                              *)
(***************************************************************************)
TxType == [state : {"none", "pending", "landed", "short", "refused"},
           to : {"none", "omnibus", "escrow", "outside"}]

(* Calls, receipts and transactions keep to their shapes, and what is sent has
   somewhere to go. *)
TypeOK ==
  /\ order \in [Orders -> Order]
  /\ shared \in BOOLEAN /\ finalized \in BOOLEAN
  /\ pc \in [Orders -> {"idle", "receipt", "final", "asset", "resolve", "send", "wait"}]
  /\ method \in [Orders -> Methods \cup {"none"}]
  /\ target \in [Orders -> {"none", "omnibus", "outside"}]
  /\ answer \in [Orders -> [Methods -> {"none", "success", "failed"}]]
  /\ avail \in [Assets -> Nat]
  /\ locked \subseteq Orders
  /\ tx \in [Orders -> [Methods -> TxType]]
  /\ \A o \in Orders, m \in Methods : tx[o][m].state = "none" <=> tx[o][m].to = "none"
  /\ incoming \in [Transfers -> {"sent", "confirmed", "final"}]
  /\ balance \in [{"omnibus", "escrow"} -> [Assets -> Nat]]
  /\ mapped \subseteq FinIds
  /\ known \subseteq Assets
  /\ troubled \subseteq Assets
  /\ changes \in 0..MaxChanges /\ faults \in 0..MaxFaults

(* The tokens of an asset in both wallets, and those the ledger promises. *)
Holdings(a) == balance["omnibus"][a] + balance["escrow"][a]
Promised(a) == avail[a] + Cardinality({o \in locked : order[o].asset = a})

(* The transactions that took a token away and are not answered so yet, and
   the partners' releases that stayed in the pool. *)
Unseen(a) == {s \in Orders \X Methods : /\ order[s[1]].asset = a /\ answer[s[1]][s[2]] # "success"
                                        /\ tx[s[1]][s[2]].state = "landed" /\ tx[s[1]][s[2]].to = "outside"}
Kept(a) == {o \in Orders : /\ order[o].asset = a /\ order[o].to \in Partners
                           /\ answer[o]["release"] = "success" /\ tx[o]["release"].to = "omnibus"}

(* Until the answer to an operation on an asset is lost or an unmapped
   investor is paid outside, the wallet an operation pays from has its token:
   omnibus and escrow wallet are each in balance with the ledger's available
   and locked tokens, under every interleaving of calls, arrivals and
   remappings. *)
NothingFallsShort == \A o \in Orders, m \in Methods :
  tx[o][m].state = "short" => order[o].asset \in troubled

(* Until then, too, the two wallets are a token pool that owes what the ledger
   promises and the tokens it kept from partners: it never owes more than it
   holds, every new debt is covered by an arrival nobody was credited for, and
   no token leaves but for a debt. *)
Owed(a) == Promised(a) + Cardinality(Kept(a)) - Cardinality(Unseen(a))
Pool == INSTANCE TokenPool WITH
  open <- Assets \ troubled,
  held <- [a \in Assets |-> IF a \in troubled THEN 0 ELSE Holdings(a)],
  owed <- [a \in Assets |-> IF a \in troubled THEN 0 ELSE Owed(a)]
PoolImplemented == Pool!Spec

(* Every call of the delegate comes back, also one that waits for a
   transaction nobody sent or a block that is never finalized. *)
CallEnds == \A o \in Orders : pc[o] # "idle" ~> pc[o] = "idle"
=============================================================================
