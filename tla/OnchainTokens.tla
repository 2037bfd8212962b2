---------------------------- MODULE OnchainTokens ----------------------------
(***************************************************************************)
(* The on-chain token service: every instruction becomes a transaction on  *)
(* the FINP2POperator contract.  The contract sees only what the investor  *)
(* signed (the template and the terms in it) and the parameters derived    *)
(* from it; the adapter must refuse a request that says something else.    *)
(*                                                                         *)
(* Beside it run the onboarding of investors (their wallets are kept in    *)
(* the contract's credentials registry), the HTTP routes of the account    *)
(* mapping, which write the same registry, and the creation of assets.     *)
(* The contract is not part of the repository: it is modelled by what the  *)
(* service asks of it.                                                     *)
(***************************************************************************)
EXTENDS Integers, Sequences, FiniteSets

CONSTANTS
  FinIds,         \* investors
  None,           \* no investor, no operation, no plan, no standard
  Calls,          \* instructions the router sends
  Requests,       \* what each of them may ask for
  Joining,        \* those whose accounts change while the adapter runs
  NewAssets,      \* assets created while the adapter runs
  OldAssets,      \* assets the contract knows already
  Bound,          \* investors with a credential at the start
  DefaultStandard,\* DEFAULT_ASSET_STANDARD, or None
  MaxFaults,      \* bound: failing RPC calls and lost answers
  MaxRestarts     \* bound: restarts of the adapter

ASSUME NoneAssumption == None \notin FinIds
ASSUME RequestsAssumption ==
  \A c \in Calls : \A r \in Requests[c] :
    /\ r.method \in {"transfer", "hold", "issue", "redeem", "release", "rollback"}
    /\ r.method = "transfer" => r.destination # None
    /\ r.sequence \in Nat
ASSUME BoundAssumption == Bound \subseteq FinIds /\ Joining \subseteq FinIds /\ MaxFaults \in Nat /\ MaxRestarts \in Nat

VARIABLES
  chainMode,    \* contract: wallet resolution mode
  credentials,  \* contract: finIds in the credentials registry
  linked,       \* contract: assets associated with a token
  locks,        \* contract: what is held, by operation id
  effect,       \* contract: what the transaction of a running call moved, or None
  mode,         \* the mode probed at boot
  registered,   \* registeredCredentials
  contexts,     \* InMemoryExecDetailsStore: the plan of a transaction, or None
  pc, req, todo,  \* the calls: progress, request, credentials still to check
  account,      \* network accounts: the record and a create that is under way
  created,      \* createAsset of an asset: progress
  unmapped,     \* history: finIds whose credential a mapping route removed last
  faults, restarts

registry == <<chainMode, credentials, linked, locks>>
contract == <<registry, effect>>
process == <<mode, registered, contexts>>
calls == <<pc, req, todo>>
bounds == <<faults, restarts>>
vars == <<contract, process, calls, account, created, unmapped, bounds>>

-----------------------------------------------------------------------------
(***************************************************************************)
(* From a request to the parameters of the contract (helpers.ts)           *)
(***************************************************************************)
(* Templates whose message has a settlement term, and all that are known. *)
Settled == {"PrimarySale", "Buying", "Selling", "Redemption", "Loan", "PrivateOffer"}
Supported == Settled \cup {"Transfer", "Move"}

(* compareAssets: the same asset, or two well-known money symbols. *)
WellKnown(asset, term) ==
  /\ term.kind \in {"fiat", "cryptocurrency"} /\ term.id \in {"USD", "USDC"}
  /\ asset.kind \in {"fiat", "cryptocurrency", "finp2p"} /\ asset.id \in {"USD", "USDC"}
SameAsset(asset, term) == WellKnown(asset, term) \/ (asset.id = term.id /\ asset.kind = term.kind)

(* detectLeg; "none" stands for the exception. *)
Leg(r) ==
  IF SameAsset(r.asset, r.template.asset) THEN "asset"
  ELSE IF r.template.type \in Settled /\ SameAsset(r.asset, r.template.settlement) THEN "settlement"
  ELSE "none"

Phase(r) == IF r.template.type = "Loan" /\ r.plan # None /\ r.sequence > 3 THEN "close" ELSE "initiate"

ReleaseType(r) ==
  IF r.template.type \in {"Transfer", "Redemption", "Move"} /\ r.destination = None
  THEN "redeem" ELSE "release"

(* extractBusinessDetails: what the contract is called with. *)
Details(r) ==
  [buyer |-> r.template.buyer, seller |-> r.template.seller,
   asset |-> r.template.asset, settlement |-> r.template.settlement,
   borrowed |-> r.template.borrowed, returned |-> r.template.returned,
   leg |-> Leg(r), type |-> r.template.type, phase |-> Phase(r),
   operation |-> r.operation, release |-> ReleaseType(r)]

(* The parties and the quantity of a request against those of a template. *)
Agrees(r, destination, source, quantity) ==
  /\ r.destination = None \/ r.destination = destination
  /\ r.source = source
  /\ r.quantity = quantity

(* The slip: a closing loan is checked as an opening one. *)
MutantValidRequest(r, d) ==
  IF d.type = "Loan"
  THEN \/ d.leg = "asset" /\ Agrees(r, d.buyer, d.seller, d.asset.amount)
       \/ d.leg = "settlement" /\ Agrees(r, d.seller, d.buyer, d.borrowed)
  ELSE \/ d.leg = "asset" /\ Agrees(r, d.buyer, d.seller, d.asset.amount)
       \/ d.leg = "settlement" /\ Agrees(r, d.seller, d.buyer, d.settlement.amount)

(* validateRequest: who must be the destination and the source, and what must
   be the quantity, for each phase and leg. *)
ValidRequest(r, d) ==
  IF d.type = "Loan"
  THEN \/ d.phase = "initiate" /\ d.leg = "asset" /\ Agrees(r, d.buyer, d.seller, d.asset.amount)
       \/ d.phase = "initiate" /\ d.leg = "settlement" /\ Agrees(r, d.seller, d.buyer, d.borrowed)
       \/ d.phase = "close" /\ d.leg = "asset" /\ Agrees(r, d.seller, d.buyer, d.asset.amount)
       \/ d.phase = "close" /\ d.leg = "settlement" /\ Agrees(r, d.buyer, d.seller, d.returned)
  ELSE \/ d.leg = "asset" /\ Agrees(r, d.buyer, d.seller, d.asset.amount)
       \/ d.leg = "settlement" /\ Agrees(r, d.seller, d.buyer, d.settlement.amount)

(* A transfer or a hold is sent on when its template can be read and says
   what the request says. *)
Accepted(r) == r.template.type \in Supported /\ Leg(r) # "none" /\ ValidRequest(r, Details(r))

-----------------------------------------------------------------------------
(***************************************************************************)
(* The same for the direct services (operation-context.ts)                 *)
(***************************************************************************)
DirectLeg(r) ==
  IF r.template.asset.id = r.asset.id THEN "asset"
  ELSE IF r.template.type \in Settled /\ r.template.settlement.id = r.asset.id THEN "settlement"
  ELSE "asset"
DirectType(r) == IF r.template.type \in Supported THEN r.template.type ELSE "Transfer"
DirectPhase(r) == IF r.sequence > 4 THEN "close" ELSE "initiate"
(* Only hold derives where the amount is headed; a transfer keeps the default.
   The slip: a move is left out of the templates that may burn. *)
MutantDirectRelease(r) ==
  IF /\ r.method = "hold" /\ r.destination = None
     /\ r.template.type \in {"none", "Transfer", "Redemption"}
  THEN "redeem" ELSE "release"
DirectRelease(r) ==
  IF /\ r.method = "hold" /\ r.destination = None
     /\ r.template.type \in {"none", "Transfer", "Redemption", "Move"}
  THEN "redeem" ELSE "release"

-----------------------------------------------------------------------------
(***************************************************************************)
(* The contract                                                            *)
(***************************************************************************)
(* In the derivation mode every finId has a wallet and none is registered. *)
HasCredential(f) == chainMode = "derivation" \/ f \in credentials

(* What a signed trade moves: the asset to the buyer and the money to the
   seller, and back when a loan is closed. *)
Back(d) == d.type = "Loan" /\ d.phase = "close"
Trade(d) ==
  LET toBuyer == (d.leg = "asset") # Back(d)
      money == IF d.type # "Loan" THEN d.settlement.amount
               ELSE IF Back(d) THEN d.returned ELSE d.borrowed
      term == IF d.leg = "asset" THEN d.asset ELSE d.settlement
  IN [from |-> IF toBuyer THEN d.seller ELSE d.buyer,
      to |-> IF toBuyer THEN d.buyer ELSE d.seller,
      id |-> term.id,
      amount |-> IF d.leg = "asset" THEN d.asset.amount ELSE money]

(* What the transaction of a request moves; the last case is a rollback. *)
Moved(r) ==
  CASE r.method \in {"transfer", "hold"} -> Trade(Details(r))
    [] r.method = "issue" ->
         [from |-> None, to |-> r.destination, id |-> r.asset.id, amount |-> r.quantity]
    [] r.method = "redeem" -> [locks[r.operation] EXCEPT !.to = None]
    [] r.method = "release" -> [locks[r.operation] EXCEPT !.to = r.destination]
    [] OTHER -> [locks[r.operation] EXCEPT !.to = locks[r.operation].from]

Settling == {"redeem", "release", "rollback"}
Held(op) == locks[op] # None

(* The finIds whose credentials a method checks, in order. *)
Parties(r) ==
  CASE r.method \in {"transfer", "hold"} -> <<r.template.seller, r.template.buyer>>
    [] r.method = "issue" -> <<r.destination>>
    [] r.method = "release" -> <<r.source, r.destination>>
    [] r.method \in {"redeem", "rollback"} -> <<r.source>>

(* The contract takes the transaction: its parties have wallets, the asset is
   known, and a settlement names a lock of that source and amount. *)
Takes(r) ==
  /\ \A i \in DOMAIN Parties(r) : HasCredential(Parties(r)[i])
  /\ IF r.method \in Settling
     THEN /\ Held(r.operation)
          /\ r.method # "rollback" =>
               locks[r.operation].from = r.source /\ locks[r.operation].amount = r.quantity
     ELSE Moved(r).id \in linked
  /\ r.method = "hold" => ~Held(r.operation)

-----------------------------------------------------------------------------
NoRequest == [method |-> "none", operation |-> None, plan |-> None]

Operations == {r.operation : r \in UNION {Requests[c] : c \in Calls}} \cup {None}

(* The probe of the contract's mode falls back to the mapping. *)
Init ==
  /\ chainMode \in {"mapping", "derivation"}
  /\ mode \in {chainMode, "mapping"}
  /\ credentials = IF chainMode = "mapping" THEN Bound ELSE {}
  /\ linked = OldAssets
  /\ locks = [o \in Operations |-> None]
  /\ effect = [c \in Calls |-> None]
  /\ registered = {}
  /\ contexts = [c \in Calls |-> None]
  /\ pc = [c \in Calls |-> "new"]
  /\ req = [c \in Calls |-> NoRequest]
  /\ todo = [c \in Calls |-> << >>]
  /\ account = [f \in FinIds |-> "none"]
  /\ created = [a \in NewAssets |-> "no"]
  /\ unmapped = {}
  /\ faults = 0
  /\ restarts = 0

Fault == faults < MaxFaults /\ faults' = faults + 1 /\ UNCHANGED restarts

(* A call answers; what it asked for and moved is forgotten. *)
Ends(c, answer) ==
  /\ pc' = [pc EXCEPT ![c] = answer]
  /\ todo' = [todo EXCEPT ![c] = << >>]
  /\ req' = [req EXCEPT ![c] = NoRequest]
  /\ effect' = [effect EXCEPT ![c] = None]

-----------------------------------------------------------------------------
(***************************************************************************)
(* Instructions                                                            *)
(***************************************************************************)
(* The checks before the first await: those of the template throw, a redeem
   without an operation is answered as failed. *)
Submit(c, r) ==
  /\ pc[c] = "new"
  /\ LET refused == r.method \in {"transfer", "hold"} /\ ~Accepted(r)
         unheld == r.method = "redeem" /\ r.operation = None
     IN IF refused \/ unheld
        THEN Ends(c, IF refused THEN "thrown" ELSE "failed")
        ELSE /\ pc' = [pc EXCEPT ![c] = "ensure"]
             /\ req' = [req EXCEPT ![c] = r]
             /\ todo' = [todo EXCEPT ![c] = Parties(r)]
             /\ UNCHANGED effect
  /\ UNCHANGED <<registry, process, account, created, unmapped, bounds>>

(* The slip: the finId is noted before the contract has been asked. *)
MutantEnsure(c) ==
  /\ pc[c] = "ensure" /\ todo[c] # << >>
  /\ LET f == Head(todo[c]) IN
     /\ registered' = registered \cup {f}
     /\ IF f \in registered \/ HasCredential(f)
        THEN todo' = [todo EXCEPT ![c] = Tail(@)] /\ UNCHANGED <<pc, req, effect>>
        ELSE Ends(c, "failed")
  /\ UNCHANGED <<registry, mode, contexts, account, created, unmapped, bounds>>

(* ensureCredential: known to this process, or asked for once. *)
Ensure(c) ==
  /\ pc[c] = "ensure" /\ todo[c] # << >>
  /\ LET f == Head(todo[c]) IN
     IF f \in registered \/ HasCredential(f)
     THEN /\ registered' = registered \cup {f}
          /\ todo' = [todo EXCEPT ![c] = Tail(@)]
          /\ UNCHANGED <<pc, req, effect>>
     ELSE Ends(c, "failed") /\ UNCHANGED registered
  /\ UNCHANGED <<registry, mode, contexts, account, created, unmapped, bounds>>

(* The transaction is mined. *)
Land(c) ==
  /\ pc[c] = "ensure" /\ todo[c] = << >> /\ Takes(req[c])
  /\ pc' = [pc EXCEPT ![c] = "mined"]
  /\ effect' = [effect EXCEPT ![c] = Moved(req[c])]
  /\ locks' = [locks EXCEPT ![req[c].operation] =
                 IF req[c].method = "hold" THEN Moved(req[c])
                 ELSE IF req[c].method \in Settling THEN None ELSE @]
  /\ UNCHANGED <<chainMode, credentials, linked, process, req, todo, account, created, unmapped, bounds>>
Reverts(c) ==
  /\ pc[c] = "ensure" /\ todo[c] = << >> /\ ~Takes(req[c])
  /\ Ends(c, "failed")
  /\ UNCHANGED <<registry, process, account, created, unmapped, bounds>>

(* Its answer arrives, and the plan of the call is noted under its hash. *)
Note(c) ==
  /\ pc[c] = "mined"
  /\ pc' = [pc EXCEPT ![c] = "receipt"]
  /\ contexts' = [contexts EXCEPT ![c] = req[c].plan]
  /\ UNCHANGED <<contract, mode, registered, req, todo, account, created, unmapped, bounds>>

(* The receipt is parsed and answered. *)
Receive(c) ==
  /\ pc[c] = "receipt"
  /\ Ends(c, "success")
  /\ UNCHANGED <<registry, process, account, created, unmapped, bounds>>

(* A call of the node fails: the answer is a failure, mined or not. *)
CallFails(c) ==
  /\ pc[c] \in {"ensure", "mined", "receipt"}
  /\ Ends(c, "failed")
  /\ Fault
  /\ UNCHANGED <<registry, process, account, created, unmapped>>

-----------------------------------------------------------------------------
(***************************************************************************)
(* Investors                                                               *)
(***************************************************************************)
Registry == <<chainMode, linked, locks, effect>>

(* addCredential reverts under derivation. *)
AddCredential(f) ==
  /\ chainMode = "mapping"
  /\ credentials' = credentials \cup {f}
  /\ unmapped' = unmapped \ {f}

(* The record is in the store, and what a create that is given up leaves. *)
Stored(f) == account[f] \in {"active", "renewing"}
Settles(state) == IF state \in {"active", "renewing"} THEN "active" ELSE "none"

(* createAccount: no-op success, nothing stored, when wallets are derived;
   otherwise the credential, then the record.  A record that is there already
   stays while it is renewed, and if that fails. *)
CreateAccount(f) ==
  /\ account[f] \in {"none", "active"}
  /\ IF mode = "derivation"
     THEN UNCHANGED <<account, credentials, unmapped>>
     ELSE /\ AddCredential(f)
          /\ account' = [account EXCEPT ![f] = IF @ = "none" THEN "adding" ELSE "renewing"]
  /\ UNCHANGED <<Registry, process, calls, created, bounds>>
StoreAccount(f) ==
  /\ account[f] \in {"adding", "renewing"}
  /\ account' = [account EXCEPT ![f] = "active"]
  /\ UNCHANGED <<contract, process, calls, created, unmapped, bounds>>
StoreFails(f) ==
  /\ account[f] \in {"adding", "renewing"}
  /\ account' = [account EXCEPT ![f] = Settles(@)]
  /\ Fault
  /\ UNCHANGED <<contract, process, calls, created, unmapped>>

(* removeAccount touches the record only. *)
RemoveAccount(f) ==
  /\ Stored(f) /\ mode = "mapping"
  /\ account' = [account EXCEPT ![f] = IF @ = "active" THEN "none" ELSE "adding"]
  /\ UNCHANGED <<contract, process, calls, created, unmapped, bounds>>

(* The mapping routes: CredentialsMappingService. *)
SaveMapping(f) ==
  /\ mode = "mapping"
  /\ AddCredential(f)
  /\ UNCHANGED <<Registry, process, calls, account, created, bounds>>
DeleteMapping(f) ==
  /\ mode = "mapping" /\ f \in credentials
  /\ credentials' = credentials \ {f}
  /\ unmapped' = unmapped \cup {f}
  /\ UNCHANGED <<Registry, process, calls, account, created, bounds>>

-----------------------------------------------------------------------------
(***************************************************************************)
(* Assets                                                                  *)
(***************************************************************************)
(* createAsset: a token that exists, or a new one; then the standard, without
   which the token that was just deployed is left alone. *)
CreateAsset(a, standard) ==
  /\ created[a] = "no"
  /\ created' = [created EXCEPT ![a] =
       IF standard = None /\ DefaultStandard = None THEN "failed"
       ELSE "token"]
  /\ UNCHANGED <<contract, process, calls, account, unmapped, bounds>>
AssociateAsset(a) ==
  /\ created[a] = "token"
  /\ linked' = linked \cup {a}
  /\ created' = [created EXCEPT ![a] = "associated"]
  /\ UNCHANGED <<chainMode, credentials, locks, effect, process, calls, account, unmapped, bounds>>
AnswerAsset(a) ==
  /\ created[a] = "associated"
  /\ created' = [created EXCEPT ![a] = "success"]
  /\ UNCHANGED <<contract, process, calls, account, unmapped, bounds>>

(* Deploying, associating or the read of the network's name fails: the answer
   is a failure, also when the asset is associated by then. *)
CreateFails(a) ==
  /\ created[a] \in {"no", "token", "associated"}
  /\ created' = [created EXCEPT ![a] = "failed"]
  /\ Fault
  /\ UNCHANGED <<contract, process, calls, account, unmapped>>

(* The process restarts: the cache, the contexts and running calls are gone. *)
Restart ==
  /\ restarts < MaxRestarts
  /\ restarts' = restarts + 1
  /\ mode' \in {chainMode, "mapping"}
  /\ registered' = {}
  /\ contexts' = [c \in Calls |-> None]
  /\ pc' = [c \in Calls |-> IF pc[c] \in {"ensure", "mined", "receipt"} THEN "thrown" ELSE pc[c]]
  /\ todo' = [c \in Calls |-> << >>]
  /\ req' = [c \in Calls |-> NoRequest]
  /\ effect' = [c \in Calls |-> None]
  /\ account' = [f \in FinIds |-> Settles(account[f])]
  /\ created' = [a \in NewAssets |-> IF created[a] \in {"token", "associated"} THEN "failed" ELSE created[a]]
  /\ UNCHANGED <<registry, unmapped, faults>>

Next ==
  \/ \E c \in Calls :
       \/ \E r \in Requests[c] : Submit(c, r)
       \/ Ensure(c) \/ Land(c) \/ Reverts(c) \/ Note(c) \/ Receive(c) \/ CallFails(c)
  \/ \E f \in Joining :
       \/ CreateAccount(f) \/ StoreAccount(f) \/ StoreFails(f) \/ RemoveAccount(f)
       \/ SaveMapping(f) \/ DeleteMapping(f)
  \/ \E a \in NewAssets :
       \/ \E standard \in {None, "ERC20"} : CreateAsset(a, standard)
       \/ AssociateAsset(a) \/ AnswerAsset(a) \/ CreateFails(a)
  \/ Restart

Spec == Init /\ [][Next]_vars

-----------------------------------------------------------------------------
(***************************************************************************)
(* Properties                                                              *)
(***************************************************************************)
(* What a transaction moves is what the router asked for, although the router's
   source, destination and quantity never reach the contract: for every
   template, leg and phase they are the ones in the terms the investor signed.
   A rollback is left out: the contract is told the operation and no more. *)
MovesAsRequested ==
  \A c \in Calls : effect[c] # None =>
    /\ req[c].method \notin {"issue", "rollback"} => effect[c].from = req[c].source
    /\ req[c].method # "rollback" => effect[c].amount = req[c].quantity
    /\ req[c].method \notin {"redeem", "rollback"} =>
         req[c].destination = None \/ effect[c].to = req[c].destination

(* The direct services read an instruction of a plan as the on-chain one does:
   the same type, the same disposition of the amount, held or not ("Mirrors the
   on-chain helpers' per-template derivation", operation-context.ts:45), and the
   same leg unless the asset was matched by its symbol or both terms name it.
   The phase is not the same: the two part at a loan's fourth instruction and
   from the fifth of any other trade on, and nowhere else. *)
ContextsAgree ==
  \A c \in Calls : req[c].method \in {"transfer", "hold"} /\ req[c].plan # None =>
    LET r == req[c]
        t == r.template
    IN /\ DirectType(r) = Details(r).type
       /\ DirectRelease(r) = Details(r).release
       /\ \/ DirectLeg(r) = Details(r).leg
          \/ WellKnown(r.asset, t.asset) \/ WellKnown(r.asset, t.settlement)
          \/ t.asset.id = t.settlement.id
       /\ DirectPhase(r) # Details(r).phase <=>
            IF t.type = "Loan" THEN r.sequence = 4 ELSE r.sequence > 4

(* An investor whose account is bound, or whom the process takes for
   registered, has a wallet at the contract, unless a mapping route removed it
   since: no order of creating, removing and mapping leaves him without. *)
CredentialBehind ==
  \A f \in FinIds :
    (f \in registered \/ Stored(f)) /\ ~HasCredential(f) => f \in unmapped
=============================================================================
