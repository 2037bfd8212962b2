----------------------- MODULE OmnibusDelegateProofs -----------------------
(***************************************************************************)
(* Safety of OmnibusDelegate for any number of orders, investors and       *)
(* assets: its types, that no transaction falls short, and that the two    *)
(* wallets implement TokenPool.                                            *)
(*                                                                         *)
(* The argument: the token of every locked order has a place (Where), told *)
(* by the transactions that landed; each wallet has at least the tokens    *)
(* that lie in it, the omnibus wallet also those available, those kept     *)
(* from partners and those of arrivals nobody was credited for (Books).    *)
(* Control says what calls, answers and locks tell of the place; Sound     *)
(* says what a step does to the books of one asset.                        *)
(***************************************************************************)
EXTENDS OmnibusDelegate, FiniteSetTheorems, TLAPS

(***************************************************************************)
(* Types                                                                   *)
(***************************************************************************)
LEMMA InitTyped == Init => TypeOK
<1> SUFFICES ASSUME Init PROVE TypeOK
  OBVIOUS
<1>1. order \in [Orders -> Order] /\ avail \in [Assets -> Nat] /\ known \subseteq Assets
  BY OrdersAssumption, WorldAssumption DEF Init
<1>2. balance \in [{"omnibus", "escrow"} -> [Assets -> Nat]]
  BY <1>1 DEF Init
<1>3. tx \in [Orders -> [Methods -> TxType]] /\ \A o \in Orders, m \in Methods : tx[o][m] = NoTx
  BY DEF Init, NoTx, TxType
<1> QED
  BY <1>1, <1>2, <1>3, BoundsAssumption DEF Init, TypeOK, NoTx, FinIds

LEMMA MethodNames ==
  /\ "hold" \in Methods /\ "outbound" \in Methods /\ "inbound" \in Methods
  /\ "release" \in Methods /\ "rollback" \in Methods /\ "none" \notin Methods
  /\ Settlements \subseteq Methods
  BY DEF Methods, Settlements

LEMMA OrderTyped ==
  ASSUME TypeOK, NEW o \in Orders
  PROVE  /\ order[o] \in Order /\ order[o].asset \in Assets /\ order[o].amount \in Nat
         /\ order[o].to \in Investors \cup Partners
  BY DEF TypeOK, Order, FinIds

(* The call is over and the ledger has booked it. *)
LEMMA AnswerTyped ==
  ASSUME TypeOK, NEW o \in Orders, method[o] \in Methods, NEW a \in {"success", "failed"}, Answer(o, a),
         UNCHANGED <<config, chain, stores>>, troubled' \subseteq Assets, faults' \in 0..MaxFaults
  PROVE  TypeOK'
<1>1. answer' \in [Orders -> [Methods -> {"none", "success", "failed"}]]
  BY DEF Answer, TypeOK
<1>2. /\ pc' \in [Orders -> {"idle", "receipt", "final", "asset", "resolve", "send", "wait"}]
      /\ method' \in [Orders -> Methods \cup {"none"}]
      /\ target' \in [Orders -> {"none", "omnibus", "outside"}]
  BY DEF Answer, TypeOK
<1>3. Credited(o, a) \in Nat
  BY OrderTyped DEF Credited
<1>4. avail' \in [Assets -> Nat] /\ locked' \subseteq Orders
  BY <1>3, OrderTyped DEF Answer, TypeOK
<1> QED
  BY <1>1, <1>2, <1>4 DEF TypeOK, config, chain, stores

(* A call that sends knows where to. *)
SendInv == \A o \in Orders :
  /\ pc[o] # "idle" => method[o] \in Methods
  /\ pc[o] \in {"send", "wait"} => method[o] # "inbound"
  /\ pc[o] \in {"send", "wait"} /\ method[o] \in {"outbound", "release"} => target[o] # "none"
  /\ pc[o] = "resolve" => method[o] \in {"outbound", "release"}

LEMMA AnswerSendInv ==
  ASSUME TypeOK, SendInv, NEW o \in Orders, NEW a, Answer(o, a)
  PROVE  SendInv'
<1>1. \A p \in Orders : p # o => pc'[p] = pc[p] /\ method'[p] = method[p] /\ target'[p] = target[p]
  BY DEF Answer, TypeOK
<1>2. pc'[o] = "idle"
  BY DEF Answer, TypeOK
<1> QED
  BY <1>1, <1>2 DEF SendInv

LEMMA GoesOn ==
  ASSUME TypeOK, SendInv, NEW o \in Orders, NEW s \in {"final", "asset", "resolve", "send", "wait"}, Goto(o, s),
         NEW t \in {"none", "omnibus", "outside"}, target' = [target EXCEPT ![o] = t],
         pc[o] # "idle",
         s \in {"send", "wait"} => method[o] # "inbound" /\ (method[o] \in {"outbound", "release"} => t # "none"),
         s = "resolve" => method[o] \in {"outbound", "release"},
         UNCHANGED <<config, chain, stores, faults>>, troubled' \subseteq Assets
  PROVE  TypeOK' /\ SendInv'
<1>1. \A p \in Orders : /\ pc'[p] = IF p = o THEN s ELSE pc[p]
                        /\ target'[p] = IF p = o THEN t ELSE target[p]
                        /\ method'[p] = method[p]
  BY DEF Goto, TypeOK
<1>2. SendInv'
  BY <1>1 DEF SendInv
<1>3. /\ pc' \in [Orders -> {"idle", "receipt", "final", "asset", "resolve", "send", "wait"}]
      /\ target' \in [Orders -> {"none", "omnibus", "outside"}]
  BY DEF Goto, TypeOK
<1> QED
  BY <1>2, <1>3 DEF Goto, TypeOK, config, chain, stores, ledger

(* What the chain's decision about a transaction changes. *)
LEMMA MinedTx ==
  ASSUME tx \in [Orders -> [Methods -> TxType]], NEW o \in Orders, NEW m \in Methods,
         NEW s, tx' = [tx EXCEPT ![o][m].state = s]
  PROVE  \A p \in Orders, n \in Methods :
           /\ tx'[p][n] = IF p = o /\ n = m THEN [tx[p][n] EXCEPT !.state = s] ELSE tx[p][n]
           /\ tx'[p][n].state = IF p = o /\ n = m THEN s ELSE tx[p][n].state
           /\ tx'[p][n].to = tx[p][n].to
<1> SUFFICES ASSUME NEW p \in Orders, NEW n \in Methods
             PROVE  /\ tx'[p][n] = IF p = o /\ n = m THEN [tx[p][n] EXCEPT !.state = s] ELSE tx[p][n]
                    /\ tx'[p][n].state = IF p = o /\ n = m THEN s ELSE tx[p][n].state
                    /\ tx'[p][n].to = tx[p][n].to
  OBVIOUS
<1>1. tx[p][n] = [state |-> tx[p][n].state, to |-> tx[p][n].to]
  <2>1. tx[p][n] \in TxType
    OBVIOUS
  <2> QED BY <2>1 DEF TxType
<1>2. [tx[p][n] EXCEPT !.state = s] = [state |-> s, to |-> tx[p][n].to]
  BY <1>1
<1>3. CASE p # o
  BY <1>3
<1>4. CASE p = o /\ n # m
  <2>1. tx'[o] = [tx[o] EXCEPT ![m].state = s]
    OBVIOUS
  <2>2. tx'[o][n] = tx[o][n]
    BY <1>4, <2>1
  <2> QED BY <1>4, <2>2
<1>5. CASE p = o /\ n = m
  <2>1. tx'[o] = [tx[o] EXCEPT ![m].state = s]
    OBVIOUS
  <2>2. tx'[o][m] = [tx[o][m] EXCEPT !.state = s]
    BY <2>1
  <2> QED BY <1>2, <1>5, <2>2
<1> QED
  BY <1>3, <1>4, <1>5

LEMMA MinedTyped ==
  ASSUME TypeOK, NEW o \in Orders, NEW m \in Methods, tx[o][m].state = "pending",
         NEW s \in {"landed", "short", "refused"}, tx' = [tx EXCEPT ![o][m].state = s],
         UNCHANGED <<config, call, answer, ledger, incoming, stores, troubled>>,
         balance' \in [{"omnibus", "escrow"} -> [Assets -> Nat]], faults' \in 0..MaxFaults
  PROVE  /\ TypeOK'
         /\ \A p \in Orders, n \in Methods :
              tx'[p][n] = IF p = o /\ n = m THEN [tx[p][n] EXCEPT !.state = s] ELSE tx[p][n]
<1>1. \A p \in Orders, n \in Methods :
        tx'[p][n] = IF p = o /\ n = m THEN [tx[p][n] EXCEPT !.state = s] ELSE tx[p][n]
  <2>1. tx \in [Orders -> [Methods -> TxType]]
    BY DEF TypeOK
  <2> QED BY <2>1, MinedTx
<1>2. \A p \in Orders, n \in Methods : [tx[p][n] EXCEPT !.state = s] \in TxType
  <2> SUFFICES ASSUME NEW p \in Orders, NEW n \in Methods PROVE [tx[p][n] EXCEPT !.state = s] \in TxType
    OBVIOUS
  <2>1. tx[p][n] \in TxType
    BY DEF TypeOK
  <2> QED BY <2>1 DEF TxType
<1>3. tx' \in [Orders -> [Methods -> TxType]]
  BY <1>2 DEF TypeOK
<1>4. \A p \in Orders, n \in Methods : tx'[p][n].state = "none" <=> tx'[p][n].to = "none"
  <2> SUFFICES ASSUME NEW p \in Orders, NEW n \in Methods
               PROVE  tx'[p][n].state = "none" <=> tx'[p][n].to = "none"
    OBVIOUS
  <2>1. tx[p][n] \in TxType /\ (tx[p][n].state = "none" <=> tx[p][n].to = "none")
    BY DEF TypeOK
  <2> QED
    BY <1>1, <2>1 DEF TxType
<1> QED
  BY <1>1, <1>3, <1>4 DEF TypeOK, config, call, ledger, stores

LEMMA LandsBalance ==
  ASSUME TypeOK, NEW o \in Orders, NEW m \in Methods, Lands(o, m)
  PROVE  /\ balance' \in [{"omnibus", "escrow"} -> [Assets -> Nat]]
         /\ \A w \in {"omnibus", "escrow"}, a \in Assets :
              balance'[w][a] = IF a # order[o].asset THEN balance[w][a]
                               ELSE balance[w][a] - (IF w = From(m) THEN 1 ELSE 0)
                                                  + (IF w = tx[o][m].to THEN 1 ELSE 0)
<1>1. order[o].asset \in Assets
  BY OrderTyped
<1>2. ASSUME NEW w \in {"omnibus", "escrow"}
      PROVE  balance[w][order[o].asset] - (IF w = From(m) THEN 1 ELSE 0) + (IF w = tx[o][m].to THEN 1 ELSE 0) \in Nat
  <2>1. balance[w][order[o].asset] \in Nat
    BY <1>1 DEF TypeOK
  <2>2. w = From(m) => balance[w][order[o].asset] > 0
    BY DEF Lands, Possible
  <2> QED BY <2>1, <2>2
<1>3. \A w \in {"omnibus", "escrow"} : balance[w] \in [Assets -> Nat]
  BY DEF TypeOK
<1> QED
  BY <1>1, <1>2, <1>3 DEF Lands

LEMMA ConfirmBalance ==
  ASSUME TypeOK, NEW t \in Transfers, Confirm(t)
  PROVE  /\ balance' \in [{"omnibus", "escrow"} -> [Assets -> Nat]]
         /\ \A w \in {"omnibus", "escrow"}, a \in Assets :
              balance'[w][a] = IF w = "omnibus" /\ a = InitTransfers[t].asset /\ InitTransfers[t].ok
                               THEN balance[w][a] + InitTransfers[t].first + InitTransfers[t].more
                               ELSE balance[w][a]
<1>1. InitTransfers[t] \in Transfer
  BY WorldAssumption
<1>2. /\ InitTransfers[t].asset \in Assets /\ InitTransfers[t].ok \in BOOLEAN
      /\ InitTransfers[t].first \in Nat /\ InitTransfers[t].more \in Nat
  BY <1>1 DEF Transfer
<1>3. \A w \in {"omnibus", "escrow"} : balance[w] \in [Assets -> Nat]
  BY DEF TypeOK
<1>4. CASE InitTransfers[t].ok
  <2>1. balance' = [balance EXCEPT !["omnibus"][InitTransfers[t].asset] =
                      @ + InitTransfers[t].first + InitTransfers[t].more]
    BY <1>4 DEF Confirm
  <2>2. balance["omnibus"][InitTransfers[t].asset] + InitTransfers[t].first + InitTransfers[t].more \in Nat
    BY <1>2, <1>3
  <2> QED
    BY <1>2, <1>3, <1>4, <2>1, <2>2 DEF TypeOK
<1>5. CASE ~InitTransfers[t].ok
  BY <1>5 DEF Confirm, TypeOK
<1> QED BY <1>4, <1>5

TypeInv == TypeOK /\ SendInv

LEMMA TypeStep ==
  ASSUME TypeInv, [Next]_vars
  PROVE  TypeInv'
<1> USE DEF TypeInv
<1>1. ASSUME NEW o \in Orders, NEW m \in Methods, Request(o, m) PROVE TypeInv'
  <2>1. \A p \in Orders : /\ pc'[p] = IF p = o THEN IF m = "inbound" THEN "receipt" ELSE "asset" ELSE pc[p]
                          /\ method'[p] = IF p = o THEN m ELSE method[p]
                          /\ target'[p] = target[p]
    BY <1>1 DEF Request, TypeOK
  <2>2. SendInv'
    BY <2>1 DEF SendInv
  <2>3. avail' \in [Assets -> Nat] /\ locked' \subseteq Orders
    BY <1>1, OrderTyped DEF Request, Lock, ledger, TypeOK
  <2>4. /\ pc' \in [Orders -> {"idle", "receipt", "final", "asset", "resolve", "send", "wait"}]
        /\ method' \in [Orders -> Methods \cup {"none"}]
    BY <1>1 DEF Request, TypeOK
  <2> QED
    BY <1>1, <2>2, <2>3, <2>4 DEF Request, TypeOK, config, chain, stores
<1>2. ASSUME NEW o \in Orders, NEW m \in Methods, Lands(o, m) \/ FallsShort(o, m) \/ IsRefused(o, m) PROVE TypeInv'
  <2>1. SendInv'
    BY <1>2 DEF Lands, FallsShort, IsRefused, call, SendInv
  <2>2. TypeOK'
    <3>1. CASE Lands(o, m)
      BY <3>1, LandsBalance, MinedTyped DEF Lands, TypeOK
    <3>2. CASE FallsShort(o, m)
      BY <3>2, MinedTyped DEF FallsShort, TypeOK
    <3>3. CASE IsRefused(o, m)
      <4>1. faults' \in 0..MaxFaults
        BY <3>3, BoundsAssumption DEF IsRefused, Fault, TypeOK
      <4>2. balance' \in [{"omnibus", "escrow"} -> [Assets -> Nat]]
        BY <3>3 DEF IsRefused, TypeOK
      <4> QED
        BY <3>3, <4>1, <4>2, MinedTyped DEF IsRefused
    <3> QED BY <1>2, <3>1, <3>2, <3>3
  <2> QED BY <2>1, <2>2
<1>3. ASSUME NEW o \in Orders, pc[o] # "idle", NEW a \in {"success", "failed"}, Answer(o, a),
             UNCHANGED <<config, chain, stores>>, troubled' \subseteq Assets, faults' \in 0..MaxFaults
      PROVE  TypeInv'
  BY <1>3, AnswerTyped, AnswerSendInv DEF SendInv
<1>4. ASSUME NEW o \in Orders, FindAsset(o) PROVE TypeInv'
  <2>1. CASE Answer(o, "failed")
    BY <1>3, <1>4, <2>1 DEF FindAsset, TypeOK
  <2>2. CASE ~Answer(o, "failed")
    <3> DEFINE s == IF method[o] \in {"outbound", "release"} THEN "resolve" ELSE "send"
    <3>1. target' = [target EXCEPT ![o] = target[o]] /\ target[o] \in {"none", "omnibus", "outside"}
      BY <1>4, <2>2 DEF FindAsset, TypeOK
    <3>2. Goto(o, s) /\ pc[o] # "idle" /\ method[o] # "inbound" /\ troubled' \subseteq Assets
      BY <1>4, <2>2 DEF FindAsset, TypeOK
    <3> QED
      BY <1>4, <3>1, <3>2, GoesOn DEF FindAsset
  <2> QED BY <2>1, <2>2
<1>5. ASSUME NEW o \in Orders, Resolve(o) PROVE TypeInv'
  <2>1. troubled' \subseteq Assets
    BY <1>5, OrderTyped DEF Resolve, TypeOK
  <2>2. CASE Answer(o, "failed")
    BY <1>3, <1>5, <2>1, <2>2 DEF Resolve, TypeOK
  <2>3. CASE ~Answer(o, "failed")
    <3>1. Whither(o) \in {"omnibus", "outside"}
      BY <1>5, <2>3 DEF Resolve, Whither
    <3>2. method[o] # "inbound"
      BY <1>5 DEF Resolve, SendInv
    <3> QED
      BY <1>5, <2>1, <2>3, <3>1, <3>2, GoesOn DEF Resolve
  <2> QED BY <2>2, <2>3
<1>6. ASSUME NEW o \in Orders, Send(o) PROVE TypeInv'
  <2>1. method[o] \in Methods \ {"inbound"} /\ To(o) \in {"omnibus", "escrow", "outside"}
    BY <1>6 DEF Send, SendInv, To, EscrowWallet, TypeOK, Methods, Settlements
  <2>2. \A p \in Orders, n \in Methods : tx'[p][n] = IF p = o /\ n = method[o]
                                                     THEN [state |-> "pending", to |-> To(o)] ELSE tx[p][n]
    BY <1>6, <2>1 DEF Send, TypeOK
  <2>3. tx' \in [Orders -> [Methods -> TxType]]
    <3>1. [state |-> "pending", to |-> To(o)] \in TxType
      BY <2>1 DEF TxType
    <3> QED
      BY <1>6, <2>1, <3>1 DEF Send, TypeOK
  <2>4. \A p \in Orders, n \in Methods : tx'[p][n].state = "none" <=> tx'[p][n].to = "none"
    <3> SUFFICES ASSUME NEW p \in Orders, NEW n \in Methods
                 PROVE  tx'[p][n].state = "none" <=> tx'[p][n].to = "none"
      OBVIOUS
    <3>1. CASE p = o /\ n = method[o]
      BY <2>1, <2>2, <3>1
    <3>2. CASE ~(p = o /\ n = method[o])
      <4>1. tx'[p][n] = tx[p][n]
        BY <2>2, <3>2
      <4> QED BY <4>1 DEF TypeOK
    <3> QED BY <3>1, <3>2
  <2>5. \A p \in Orders : /\ pc'[p] = IF p = o THEN "wait" ELSE pc[p]
                          /\ method'[p] = method[p] /\ target'[p] = target[p]
    BY <1>6 DEF Send, Goto, TypeOK
  <2>6. SendInv'
    BY <1>6, <2>5 DEF SendInv, Send
  <2>7. pc' \in [Orders -> {"idle", "receipt", "final", "asset", "resolve", "send", "wait"}]
    BY <1>6 DEF Send, Goto, TypeOK
  <2> QED
    BY <1>6, <2>3, <2>4, <2>6, <2>7 DEF Send, Goto, TypeOK, config, stores, ledger
<1>7. ASSUME NEW o \in Orders, WaitReturns(o) PROVE TypeInv'
  BY <1>3, <1>7 DEF WaitReturns, TypeOK
<1>8. ASSUME NEW o \in Orders, Throws(o) \/ WaitThrows(o) PROVE TypeInv'
  <2>1. faults' \in 0..MaxFaults
    BY <1>8, BoundsAssumption DEF Throws, WaitThrows, Fault, TypeOK
  <2>2. troubled' \subseteq Assets
    BY <1>8, OrderTyped DEF Throws, WaitThrows, TypeOK
  <2> QED
    BY <1>3, <1>8, <2>1, <2>2 DEF Throws, WaitThrows
<1>9. ASSUME NEW o \in Orders, AwaitReceipt(o) \/ AwaitFinal(o) PROVE TypeInv'
  <2>1. CASE Answer(o, "failed")
    BY <1>3, <1>9, <2>1 DEF AwaitReceipt, AwaitFinal, TypeOK
  <2>2. CASE ~Answer(o, "failed")
    <3>1. \E s \in {"final", "asset"} : Goto(o, s)
      BY <1>9, <2>2 DEF AwaitReceipt, AwaitFinal
    <3>2. target' = [target EXCEPT ![o] = target[o]] /\ target[o] \in {"none", "omnibus", "outside"}
      BY <1>9, <2>2 DEF AwaitReceipt, AwaitFinal, TypeOK
    <3>3. pc[o] # "idle" /\ troubled' \subseteq Assets /\ UNCHANGED <<config, chain, stores, faults>>
      BY <1>9 DEF AwaitReceipt, AwaitFinal, TypeOK
    <3> QED
      BY <3>1, <3>2, <3>3, GoesOn
  <2> QED BY <2>1, <2>2
<1>10. ASSUME NEW o \in Orders, Verify(o) PROVE TypeInv'
  BY <1>3, <1>10 DEF Verify, TypeOK
<1>11. ASSUME NEW a \in Assets, CreateAsset(a) PROVE TypeInv'
  BY <1>11 DEF CreateAsset, TypeOK, SendInv, config, call, ledger, chain
<1>12. ASSUME NEW t \in Transfers, Confirm(t) \/ Finalize(t) PROVE TypeInv'
  <2>1. incoming' \in [Transfers -> {"sent", "confirmed", "final"}]
    BY <1>12 DEF Confirm, Finalize, TypeOK
  <2>2. balance' \in [{"omnibus", "escrow"} -> [Assets -> Nat]]
    BY <1>12, ConfirmBalance DEF Finalize, TypeOK
  <2> QED
    BY <1>12, <2>1, <2>2 DEF Confirm, Finalize, TypeOK, SendInv, config, call, ledger, stores
<1>13. ASSUME NEW f \in FinIds, Remap(f) PROVE TypeInv'
  BY <1>13, BoundsAssumption DEF Remap, Change, TypeOK, SendInv, config, call, ledger, chain
<1>14. CASE UNCHANGED vars
  BY <1>14 DEF vars, TypeOK, SendInv, config, call, ledger, chain, stores
<1> QED
  BY <1>1, <1>2, <1>4, <1>5, <1>6, <1>7, <1>8, <1>9, <1>10, <1>11, <1>12, <1>13, <1>14 DEF Next, CallStep, Mine

(* Every reachable state is well typed: a call that sends has found its
   destination, wherever it was looked up and whatever was remapped since. *)
THEOREM Typed == Spec => []TypeOK
<1>1. Init => SendInv
  BY DEF Init, SendInv
<1> QED
  BY <1>1, InitTyped, TypeStep, PTL DEF Spec, TypeInv

-----------------------------------------------------------------------------
(***************************************************************************)
(* The books                                                               *)
(***************************************************************************)
(* Where the token of an order lies, as far as transactions have landed. *)
Moved(o, m) == tx[o][m].state = "landed"
Where(o) == IF ~Moved(o, order[o].kind) \/ Moved(o, "rollback") THEN "omnibus"
            ELSE IF Moved(o, "release") THEN tx[o]["release"].to
            ELSE tx[o][order[o].kind].to

(* The locked tokens of an asset in a wallet (or gone), and the tokens of
   arrivals nobody was credited for. *)
In(w, a) == {o \in locked : order[o].asset = a /\ Where(o) = w}
Claimed(t) == \E o \in Orders : order[o].transfer = t /\ answer[o]["inbound"] = "success"
Uncredited(a) == {t \in Transfers : /\ incoming[t] # "sent" /\ InitTransfers[t].ok
                                    /\ InitTransfers[t].asset = a /\ ~Claimed(t)}
Tokens(t) == {t} \X (1..InitTransfers[t].first)
Arrived(a) == UNION {Tokens(t) : t \in Uncredited(a)}

(* A call is about a method that is due and has no answer yet, and only the
   call that waits has a transaction without one. *)
CallInv == \A o \in Orders :
  /\ tx[o]["inbound"].state = "none"
  /\ pc[o] \in {"receipt", "final"} => method[o] = "inbound"
  /\ pc[o] = "idle" <=> method[o] = "none"
  /\ method[o] # "none" =>
       /\ answer[o][method[o]] = "none"
       /\ \/ method[o] = order[o].kind
          \/ /\ method[o] \in Settlements /\ order[o].kind = "hold"
             /\ answer[o]["hold"] = "success" /\ ~Settled(o)
  /\ \A m \in Methods : tx[o][m].state # "none" =>
       answer[o][m] # "none" \/ (pc[o] = "wait" /\ method[o] = m)

(* What the answers say is true, unless one of the asset was lost. *)
AnswerInv == \A o \in Orders :
  /\ \A m \in Methods :
       /\ answer[o][m] = "success" /\ m # "inbound" => Moved(o, m)
       /\ answer[o][m] = "failed" /\ order[o].asset \notin troubled => tx[o][m].state \notin {"pending", "landed"}
       /\ answer[o][m] # "none" =>
            m = order[o].kind \/ (m \in Settlements /\ order[o].kind = "hold" /\ answer[o]["hold"] = "success")
  /\ answer[o]["release"] = "success" => answer[o]["rollback"] # "success"

(* Where transactions go; an investor is paid outside only if the asset is
   troubled. *)
Paid(o, w) == /\ w \in {"omnibus", "outside"}
              /\ w = "outside" /\ order[o].to \in Investors => order[o].asset \in troubled
ToInv == \A o \in Orders :
  /\ tx[o]["hold"].state # "none" => tx[o]["hold"].to = EscrowWallet
  /\ tx[o]["rollback"].state # "none" => tx[o]["rollback"].to = "omnibus"
  /\ tx[o]["outbound"].state # "none" => tx[o]["outbound"].to = "outside"
  /\ tx[o]["release"].state # "none" => Paid(o, tx[o]["release"].to)
  /\ pc[o] = "send" /\ method[o] = "outbound" => target[o] = "outside"
  /\ pc[o] = "send" /\ method[o] = "release" => Paid(o, target[o])

(* The ledger has the token of an order that leaves the pool, until the order
   is settled or has failed. *)
LockInv == \A o \in Orders : o \in locked <=>
  \/ order[o].kind \in {"outbound", "hold"} /\ method[o] = order[o].kind
  \/ order[o].kind = "hold" /\ answer[o]["hold"] = "success" /\ ~Settled(o)

(* An arrival is looked at and credited by one order only, once it is there. *)
Claims(o) == method[o] = "inbound" \/ answer[o]["inbound"] = "success"
ArrivalInv == \A o \in Orders :
  /\ method[o] = "inbound" /\ pc[o] \in {"final", "asset"} =>
       incoming[order[o].transfer] # "sent" /\ InitTransfers[order[o].transfer].ok
  /\ \A p \in Orders : Claims(o) /\ Claims(p) /\ order[o].transfer = order[p].transfer => o = p

(* Each wallet has the tokens that lie in it; those of the available, the kept
   and the arrived lie in the omnibus wallet. *)
Front(a) == avail[a] + Cardinality(In("omnibus", a)) + Cardinality(Kept(a))
Debt(a) == Front(a) + Cardinality(In("escrow", a))
Books(a) ==
  /\ balance["escrow"][a] >= Cardinality(In("escrow", a))
  /\ IsFiniteSet(Arrived(a))
  /\ balance["omnibus"][a] >= Front(a) + Cardinality(Arrived(a))
BooksInv == \A a \in Assets \ troubled : Books(a)

Inv == /\ order \in InitOrders /\ TypeInv
       /\ CallInv /\ AnswerInv /\ ToInv /\ LockInv /\ ArrivalInv
       /\ BooksInv /\ NothingFallsShort

(***************************************************************************)
(* Control: calls, answers, destinations, locks, arrivals                  *)
(***************************************************************************)
Control == CallInv /\ AnswerInv /\ ToInv /\ LockInv /\ ArrivalInv

LEMMA OrderKinds ==
  ASSUME order \in InitOrders, NEW o \in Orders
  PROVE  /\ order[o].kind \in {"outbound", "hold", "inbound"}
         /\ order[o].kind = "inbound" <=> order[o].transfer # None
         /\ order[o].transfer \in Transfers \cup {None}
         /\ order[o].kind = "inbound" => order[o].to \in Investors
         /\ order[o].kind = "outbound" => order[o].to \in Partners
         /\ order[o].kind \in Methods /\ order[o].kind \notin Settlements
<1>1. order[o] \in Order
  BY OrdersAssumption
<1> QED
  BY <1>1, OrdersAssumption DEF Order, Methods, Settlements

LEMMA AnswerFields ==
  ASSUME TypeOK, NEW o \in Orders, method[o] \in Methods, NEW a, Answer(o, a)
  PROVE  /\ \A p \in Orders : /\ pc'[p] = IF p = o THEN "idle" ELSE pc[p]
                              /\ method'[p] = IF p = o THEN "none" ELSE method[p]
                              /\ target'[p] = IF p = o THEN "none" ELSE target[p]
         /\ \A p \in Orders, n \in Methods :
              answer'[p][n] = IF p = o /\ n = method[o] THEN a ELSE answer[p][n]
         /\ \A b \in Assets : avail'[b] = IF b = order[o].asset THEN avail[b] + Credited(o, a) ELSE avail[b]
<1>1. order[o].asset \in Assets
  BY OrderTyped
<1> QED
  BY <1>1 DEF Answer, TypeOK

(* A call ends with an answer that is true or of a troubled asset. *)
Truthful(o, a) ==
  /\ a = "success" /\ method[o] # "inbound" => Moved(o, method[o])
  /\ a = "failed" /\ order[o].asset \notin troubled' => tx[o][method[o]].state \notin {"pending", "landed"}

LEMMA AnswerControl ==
  ASSUME Inv, NEW o \in Orders, pc[o] # "idle", NEW a \in {"success", "failed"}, Answer(o, a), Truthful(o, a),
         UNCHANGED <<config, chain>>, troubled \subseteq troubled'
  PROVE  Control'
<1> USE MethodNames DEF Inv, TypeInv
<1>0. /\ method[o] \in Methods /\ answer[o][method[o]] = "none"
      /\ order' = order /\ tx' = tx /\ incoming' = incoming /\ shared' = shared
  BY DEF SendInv, CallInv, config, chain
<1>1. /\ \A p \in Orders : /\ pc'[p] = IF p = o THEN "idle" ELSE pc[p]
                           /\ method'[p] = IF p = o THEN "none" ELSE method[p]
                           /\ target'[p] = IF p = o THEN "none" ELSE target[p]
      /\ \A p \in Orders, n \in Methods :
           answer'[p][n] = IF p = o /\ n = method[o] THEN a ELSE answer[p][n]
  BY <1>0, AnswerFields
<1>2. \A p \in Orders : order[p].kind \in {"outbound", "hold", "inbound"}
  BY OrderKinds
<1>3. Settlements = {"release", "rollback"} /\ Settlements \subseteq Methods /\ "hold" \notin Settlements
  BY DEF Settlements
<1>4. /\ method[o] = order[o].kind
         \/ (method[o] \in Settlements /\ order[o].kind = "hold" /\ answer[o]["hold"] = "success" /\ ~Settled(o))
  BY <1>0, MethodNames DEF CallInv
<1>5. \A p \in Orders : p # o => Settled(p)' = Settled(p)
  BY <1>1, <1>3 DEF Settled
<1>6. CallInv'
  <2> SUFFICES ASSUME NEW p \in Orders
               PROVE  /\ tx[p]["inbound"].state = "none"
                      /\ pc'[p] \in {"receipt", "final"} => method'[p] = "inbound"
                      /\ pc'[p] = "idle" <=> method'[p] = "none"
                      /\ method'[p] # "none" =>
                           /\ answer'[p][method'[p]] = "none"
                           /\ \/ method'[p] = order[p].kind
                              \/ /\ method'[p] \in Settlements /\ order[p].kind = "hold"
                                 /\ answer'[p]["hold"] = "success" /\ ~Settled(p)'
                      /\ \A m \in Methods : tx[p][m].state # "none" =>
                           answer'[p][m] # "none" \/ (pc'[p] = "wait" /\ method'[p] = m)
    BY <1>0 DEF CallInv
  <2>1. CASE p # o
    <3>1. method[p] # "none" => method[p] \in Methods
      BY DEF TypeOK
    <3> QED
      BY <1>1, <1>5, <2>1, <3>1 DEF CallInv
  <2>2. CASE p = o
    BY <1>0, <1>1, <2>2 DEF CallInv
  <2> QED BY <2>1, <2>2
<1>7. AnswerInv'
  <2> SUFFICES ASSUME NEW p \in Orders
               PROVE  /\ \A m \in Methods :
                           /\ answer'[p][m] = "success" /\ m # "inbound" => Moved(p, m)
                           /\ answer'[p][m] = "failed" /\ order[p].asset \notin troubled'
                                => tx[p][m].state \notin {"pending", "landed"}
                           /\ answer'[p][m] # "none" =>
                                m = order[p].kind \/ (m \in Settlements /\ order[p].kind = "hold"
                                                      /\ answer'[p]["hold"] = "success")
                      /\ answer'[p]["release"] = "success" => answer'[p]["rollback"] # "success"
    BY <1>0 DEF AnswerInv, Moved
  <2>1. CASE p # o
    BY <1>1, <2>1 DEF AnswerInv
  <2>2. CASE p = o
    <3>1. ASSUME NEW m \in Methods
          PROVE  /\ answer'[o][m] = "success" /\ m # "inbound" => Moved(o, m)
                 /\ answer'[o][m] = "failed" /\ order[o].asset \notin troubled'
                      => tx[o][m].state \notin {"pending", "landed"}
      BY <1>0, <1>1 DEF AnswerInv, Truthful
    <3>2. ASSUME NEW m \in Methods, answer'[o][m] # "none"
          PROVE  m = order[o].kind \/ (m \in Settlements /\ order[o].kind = "hold" /\ answer'[o]["hold"] = "success")
      <4>1. answer[o]["hold"] = "success" => answer'[o]["hold"] = "success"
        BY <1>0, <1>1
      <4> QED
        BY <1>0, <1>1, <1>4, <3>2, <4>1 DEF AnswerInv
    <3>3. answer'[o]["release"] = "success" => answer'[o]["rollback"] # "success"
      BY <1>0, <1>1, <1>2, <1>3, <1>4 DEF AnswerInv, Settled
    <3> QED BY <2>2, <3>1, <3>2, <3>3
  <2> QED BY <2>1, <2>2
<1>8. ToInv'
  <2>1. \A w : \A p \in Orders : Paid(p, w) => Paid(p, w)'
    BY <1>0 DEF Paid
  <2> QED
    BY <1>0, <1>1, <2>1 DEF ToInv, EscrowWallet
<1>9. LockInv'
  <2> SUFFICES ASSUME NEW p \in Orders
               PROVE  p \in locked' <=>
                        \/ order[p].kind \in {"outbound", "hold"} /\ method'[p] = order[p].kind
                        \/ order[p].kind = "hold" /\ answer'[p]["hold"] = "success" /\ ~Settled(p)'
    BY <1>0 DEF LockInv
  <2>1. locked' = IF Unlocks(o, a) THEN locked \ {o} ELSE locked
    BY DEF Answer
  <2>2. CASE p # o
    BY <1>1, <1>5, <2>1, <2>2 DEF LockInv
  <2>3. CASE p = o
    <3>1. ~Settled(o)
      BY <1>0, <1>2, <1>3, <1>4 DEF Settled, AnswerInv
    <3>2. Settled(o)' <=> method[o] \in Settlements /\ a = "success"
      BY <1>0, <1>1, <1>3, <3>1 DEF Settled
    <3> QED
      BY <1>0, <1>1, <1>2, <1>3, <1>4, <2>1, <2>3, <3>1, <3>2 DEF LockInv, Unlocks
  <2> QED BY <2>2, <2>3
<1>10. ArrivalInv'
  BY <1>0, <1>1 DEF ArrivalInv, Claims
<1> QED
  BY <1>6, <1>7, <1>8, <1>9, <1>10 DEF Control

(* A call goes on to its next step, knowing more of its arrival or of its
   destination. *)
LEMMA GotoControl ==
  ASSUME Inv, NEW o \in Orders, pc[o] \notin {"idle", "wait"}, NEW s \in {"final", "asset", "resolve", "send"}, Goto(o, s),
         NEW t, target' = [target EXCEPT ![o] = t], troubled \subseteq troubled',
         UNCHANGED <<config, chain>>,
         s = "final" => method[o] = "inbound",
         s = "send" /\ method[o] = "outbound" => t = "outside",
         s = "send" /\ method[o] = "release" => Paid(o, t)',
         s \in {"final", "asset"} =>
           incoming[order[o].transfer] # "sent" /\ InitTransfers[order[o].transfer].ok
  PROVE  Control'
<1> USE DEF Inv, TypeInv
<1>0. /\ answer' = answer /\ method' = method /\ locked' = locked
      /\ order' = order /\ tx' = tx /\ incoming' = incoming /\ shared' = shared
      /\ \A p \in Orders : /\ pc'[p] = IF p = o THEN s ELSE pc[p]
                           /\ target'[p] = IF p = o THEN t ELSE target[p]
  BY DEF Goto, config, chain, ledger, TypeOK
<1>1. CallInv'
  BY <1>0 DEF CallInv, Settled
<1>2. AnswerInv'
  BY <1>0 DEF AnswerInv, Moved
<1>3. ToInv'
  <2>1. \A w : \A p \in Orders : Paid(p, w) => Paid(p, w)'
    BY <1>0 DEF Paid
  <2> QED
    BY <1>0, <2>1 DEF ToInv, EscrowWallet
<1>4. LockInv'
  BY <1>0 DEF LockInv, Settled
<1>5. ArrivalInv'
  BY <1>0 DEF ArrivalInv, Claims
<1> QED
  BY <1>1, <1>2, <1>3, <1>4, <1>5 DEF Control

(* Only the running call's transaction is new, and it goes where it should. *)
LEMMA SendFields ==
  ASSUME Inv, NEW o \in Orders, Send(o)
  PROVE  /\ method[o] \in Methods \ {"inbound"} /\ tx[o][method[o]].state = "none"
         /\ \A p \in Orders, n \in Methods : tx'[p][n] = IF p = o /\ n = method[o]
                                                         THEN [state |-> "pending", to |-> To(o)] ELSE tx[p][n]
         /\ \A p \in Orders, n \in Methods : Moved(p, n)' <=> Moved(p, n)
<1> USE DEF Inv, TypeInv
<1>1. method[o] \in Methods \ {"inbound"} /\ pc[o] = "send"
  BY DEF Send, SendInv
<1>2. tx[o][method[o]].state = "none"
  <2>1. answer[o][method[o]] = "none"
    BY <1>1, MethodNames DEF CallInv
  <2> QED
    BY <1>1, <2>1 DEF CallInv
<1>3. \A p \in Orders, n \in Methods : tx'[p][n] = IF p = o /\ n = method[o]
                                                   THEN [state |-> "pending", to |-> To(o)] ELSE tx[p][n]
  BY <1>1 DEF Send, TypeOK
<1> QED
  BY <1>1, <1>2, <1>3 DEF Moved

LEMMA SendControl ==
  ASSUME Inv, NEW o \in Orders, Send(o)
  PROVE  Control'
<1> USE DEF Inv, TypeInv
<1>0. /\ answer' = answer /\ method' = method /\ locked' = locked /\ target' = target
      /\ order' = order /\ incoming' = incoming /\ shared' = shared /\ troubled' = troubled
      /\ \A p \in Orders : pc'[p] = IF p = o THEN "wait" ELSE pc[p]
      /\ pc[o] = "send"
  BY DEF Send, Goto, config, ledger, TypeOK
<1>6. /\ method[o] \in Methods \ {"inbound"} /\ answer[o][method[o]] = "none"
      /\ \A p \in Orders, n \in Methods : tx'[p][n] = IF p = o /\ n = method[o]
                                                   THEN [state |-> "pending", to |-> To(o)] ELSE tx[p][n]
      /\ \A p \in Orders, n \in Methods : Moved(p, n)' <=> Moved(p, n)
  BY SendFields, MethodNames DEF CallInv
<1>1. CallInv'
  BY <1>0, <1>6, MethodNames DEF CallInv, Settled
<1>2. AnswerInv'
  <2> SUFFICES ASSUME NEW p \in Orders, NEW m \in Methods, answer[p][m] = "failed", order[p].asset \notin troubled
               PROVE  tx'[p][m].state \notin {"pending", "landed"}
    BY <1>0, <1>6 DEF AnswerInv
  <2> QED
    BY <1>6 DEF AnswerInv
<1>3. ToInv'
  <2>1. \A w : \A p \in Orders : Paid(p, w) => Paid(p, w)'
    BY <1>0 DEF Paid
  <2>2. /\ method[o] = "hold" => To(o) = EscrowWallet
        /\ method[o] = "rollback" => To(o) = "omnibus"
        /\ method[o] \in {"outbound", "release"} => To(o) = target[o]
    BY DEF To
  <2> QED
    BY <1>0, <1>6, <2>1, <2>2, MethodNames DEF ToInv, EscrowWallet
<1>4. LockInv'
  BY <1>0 DEF LockInv, Settled
<1>5. ArrivalInv'
  BY <1>0 DEF ArrivalInv, Claims
<1> QED
  BY <1>1, <1>2, <1>3, <1>4, <1>5 DEF Control

(* The chain decides about a transaction nobody has given up. *)
LEMMA MinedControl ==
  ASSUME Inv, NEW o \in Orders, NEW m \in Methods, NEW s \in {"landed", "short", "refused"},
         tx[o][m].state = "pending",
         tx' = [tx EXCEPT ![o][m].state = s],
         UNCHANGED <<config, call, answer, ledger, incoming, troubled>>
  PROVE  Control'
<1> USE DEF Inv, TypeInv
<1>0. /\ answer' = answer /\ method' = method /\ locked' = locked /\ target' = target /\ pc' = pc
      /\ order' = order /\ incoming' = incoming /\ shared' = shared /\ troubled' = troubled
  BY DEF config, call, ledger
<1>1. \A p \in Orders, n \in Methods : /\ tx'[p][n].state = IF p = o /\ n = m THEN s ELSE tx[p][n].state
                                       /\ tx'[p][n].to = tx[p][n].to
  <2>1. tx \in [Orders -> [Methods -> TxType]]
    BY DEF TypeOK
  <2> QED BY <2>1, MinedTx
<1>2. CallInv'
  BY <1>0, <1>1, MethodNames DEF CallInv, Settled
<1>3. AnswerInv'
  BY <1>0, <1>1 DEF AnswerInv, Moved
<1>4. ToInv'
  BY <1>0, <1>1, MethodNames DEF ToInv, EscrowWallet, Paid
<1>5. LockInv'
  BY <1>0 DEF LockInv, Settled
<1>6. ArrivalInv'
  BY <1>0 DEF ArrivalInv, Claims
<1> QED
  BY <1>2, <1>3, <1>4, <1>5, <1>6 DEF Control

LEMMA RequestControl ==
  ASSUME Inv, NEW o \in Orders, NEW m \in Methods, Request(o, m)
  PROVE  Control'
<1> USE MethodNames DEF Inv, TypeInv
<1>0. /\ answer' = answer /\ target' = target /\ tx' = tx
      /\ order' = order /\ incoming' = incoming /\ shared' = shared /\ troubled' = troubled
      /\ locked' = IF m \in {"outbound", "hold"} THEN locked \cup {o} ELSE locked
      /\ \A p \in Orders : /\ pc'[p] = IF p = o THEN IF m = "inbound" THEN "receipt" ELSE "asset" ELSE pc[p]
                           /\ method'[p] = IF p = o THEN m ELSE method[p]
      /\ pc[o] = "idle" /\ method[o] = "none"
  BY DEF Request, Lock, ledger, config, chain, TypeOK, CallInv
<1>1. /\ answer[o][m] = "none"
      /\ \/ m = order[o].kind
         \/ m \in Settlements /\ order[o].kind = "hold" /\ answer[o]["hold"] = "success" /\ ~Settled(o)
  BY DEF Request, Due
<1>2. order[o].kind \notin Settlements /\ Settlements = {"release", "rollback"}
      /\ order[o].kind \in {"outbound", "hold", "inbound"}
  BY OrderKinds DEF Settlements
<1>3. CallInv'
  BY <1>0, <1>1 DEF CallInv, Settled
<1>4. AnswerInv'
  BY <1>0 DEF AnswerInv, Moved
<1>5. ToInv'
  BY <1>0 DEF ToInv, EscrowWallet, Paid
<1>6. LockInv'
  <2> SUFFICES ASSUME NEW p \in Orders
               PROVE  p \in locked' <=>
                        \/ order[p].kind \in {"outbound", "hold"} /\ method'[p] = order[p].kind
                        \/ order[p].kind = "hold" /\ answer[p]["hold"] = "success" /\ ~Settled(p)
    BY <1>0 DEF LockInv, Settled
  <2>1. CASE p # o
    BY <1>0, <2>1 DEF LockInv
  <2>2. CASE p = o
    <3>1. o \in locked <=> order[o].kind = "hold" /\ answer[o]["hold"] = "success" /\ ~Settled(o)
      BY <1>0, <1>2 DEF LockInv
    <3> QED
      BY <1>0, <1>1, <1>2, <2>2, <3>1
  <2> QED BY <2>1, <2>2
<1>7. ArrivalInv'
  <2>1. m = "inbound" => \A p \in Orders : order[p].transfer = order[o].transfer => ~Claims(p)
    BY DEF Request, Fresh, Claims
  <2>2. \A p \in Orders : Claims(p)' <=> IF p = o THEN m = "inbound" \/ Claims(p) ELSE Claims(p)
    BY <1>0 DEF Claims
  <2>3. \A p, q \in Orders : Claims(p)' /\ Claims(q)' /\ order[p].transfer = order[q].transfer => p = q
    BY <2>1, <2>2 DEF ArrivalInv
  <2> QED
    BY <1>0, <2>3 DEF ArrivalInv
<1> QED
  BY <1>3, <1>4, <1>5, <1>6, <1>7 DEF Control

(* What moves neither a call nor a transaction of the delegate. *)
LEMMA OutsideControl ==
  ASSUME Inv, UNCHANGED <<order, shared, call, answer, locked, tx, troubled>>,
         \A t \in Transfers : incoming[t] # "sent" => incoming'[t] # "sent"
  PROVE  Control'
<1> USE DEF Inv, TypeInv
<1>1. CallInv' /\ AnswerInv' /\ ToInv' /\ LockInv'
  BY DEF call, CallInv, AnswerInv, ToInv, LockInv, Settled, Moved, Paid, EscrowWallet
<1>2. ArrivalInv'
  <2>1. \A o \in Orders : method[o] = "inbound" => order[o].transfer \in Transfers
    BY OrderKinds DEF CallInv, Settlements
  <2> QED
    BY <2>1 DEF call, ArrivalInv, Claims
<1> QED BY <1>1, <1>2 DEF Control

(***************************************************************************)
(* Counting                                                                *)
(***************************************************************************)
(* Two finite sets that agree but for one element. *)
LEMMA CountDiff ==
  ASSUME NEW S, NEW T, NEW x, IsFiniteSet(S), S \ {x} = T \ {x}
  PROVE  /\ IsFiniteSet(T) /\ Cardinality(S) \in Nat /\ Cardinality(T) \in Nat
         /\ Cardinality(T) = Cardinality(S) + (IF x \in T THEN 1 ELSE 0) - (IF x \in S THEN 1 ELSE 0)
<1>1. IsFiniteSet(S \ {x}) /\ Cardinality(S \ {x}) = IF x \in S THEN Cardinality(S) - 1 ELSE Cardinality(S)
  BY FS_RemoveElement
<1>2. T = IF x \in T THEN (S \ {x}) \cup {x} ELSE S \ {x}
  OBVIOUS
<1>3. /\ IsFiniteSet((S \ {x}) \cup {x})
      /\ Cardinality((S \ {x}) \cup {x}) = Cardinality(S \ {x}) + 1
  BY <1>1, FS_AddElement
<1>4. IsFiniteSet(T) /\ Cardinality(T) = IF x \in T THEN Cardinality(S \ {x}) + 1 ELSE Cardinality(S \ {x})
  <2>1. CASE x \in T
    BY <1>2, <1>3, <2>1
  <2>2. CASE x \notin T
    BY <1>1, <1>2, <2>2
  <2> QED BY <2>1, <2>2
<1>5. Cardinality(S) \in Nat /\ Cardinality(T) \in Nat
  BY <1>4, FS_CardinalityType
<1> QED
  BY <1>1, <1>4, <1>5

LEMMA Finite ==
  ASSUME locked \subseteq Orders, NEW a, NEW w
  PROVE  /\ IsFiniteSet(In(w, a)) /\ Cardinality(In(w, a)) \in Nat
         /\ IsFiniteSet(Kept(a)) /\ Cardinality(Kept(a)) \in Nat
<1>1. In(w, a) \subseteq Orders /\ Kept(a) \subseteq Orders
  BY DEF In, Kept
<1> QED
  BY <1>1, OrdersAssumption, FS_Subset, FS_CardinalityType

(* A step that concerns one order only. *)
Only(o) == /\ order' = order /\ locked' \subseteq Orders
           /\ \A p \in Orders : p # o => /\ p \in locked' <=> p \in locked
                                         /\ Where(p)' = Where(p)
                                         /\ answer'[p]["release"] = answer[p]["release"]
                                         /\ tx'[p]["release"].to = tx[p]["release"].to

LEMMA Counts ==
  ASSUME locked \subseteq Orders, NEW o \in Orders, Only(o), NEW a, NEW w
  PROVE  /\ Cardinality(In(w, a)') = Cardinality(In(w, a)) + (IF o \in In(w, a)' THEN 1 ELSE 0)
                                                           - (IF o \in In(w, a) THEN 1 ELSE 0)
         /\ Cardinality(Kept(a)') = Cardinality(Kept(a)) + (IF o \in Kept(a)' THEN 1 ELSE 0)
                                                         - (IF o \in Kept(a) THEN 1 ELSE 0)
<1>1. In(w, a) \ {o} = In(w, a)' \ {o}
  BY DEF In, Only
<1>2. Kept(a) \ {o} = Kept(a)' \ {o}
  BY DEF Kept, Only
<1> QED
  BY <1>1, <1>2, Finite, CountDiff

LEMMA ArrivedStays ==
  ASSUME order' = order, incoming' = incoming,
         \A p \in Orders : answer'[p]["inbound"] = "success" <=> answer[p]["inbound"] = "success",
         NEW a
  PROVE  Arrived(a)' = Arrived(a)
<1>1. \A t : Claimed(t)' <=> Claimed(t)
  BY DEF Claimed
<1>2. Uncredited(a)' = Uncredited(a)
  BY <1>1 DEF Uncredited
<1> QED
  BY <1>2 DEF Arrived, Tokens

LEMMA TokensFinite ==
  ASSUME NEW t \in Transfers
  PROVE  IsFiniteSet(Tokens(t)) /\ Cardinality(Tokens(t)) = InitTransfers[t].first
<1>1. InitTransfers[t].first \in Nat
  BY WorldAssumption DEF Transfer
<1>2. IsFiniteSet(1..InitTransfers[t].first) /\ Cardinality(1..InitTransfers[t].first) = InitTransfers[t].first
  <2>1. ASSUME NEW n \in Nat PROVE IsFiniteSet(1..n) /\ Cardinality(1..n) = n
    <3>1. IsFiniteSet(1..n) /\ Cardinality(1..n) = IF 1 > n THEN 0 ELSE n - 1 + 1
      BY FS_Interval
    <3> QED BY <3>1
  <2> QED BY <1>1, <2>1
<1>3. IsFiniteSet({t}) /\ Cardinality({t}) = 1
  BY FS_Singleton
<1>4. /\ IsFiniteSet({t} \X (1..InitTransfers[t].first))
      /\ Cardinality({t} \X (1..InitTransfers[t].first)) = Cardinality({t}) * Cardinality(1..InitTransfers[t].first)
  BY ONLY <1>2, <1>3, FS_Product
<1> QED
  BY <1>1, <1>2, <1>3, <1>4 DEF Tokens

(***************************************************************************)
(* What a step does to the books of an asset                               *)
(***************************************************************************)
Same(a) == Holdings(a)' = Holdings(a) /\ Debt(a)' = Debt(a)
Move(a) ==
  \/ Same(a)
  \/ Holdings(a)' > Holdings(a) /\ Debt(a)' = Debt(a)
  \/ Holdings(a)' = Holdings(a) /\ Debt(a)' > Debt(a) /\ Debt(a)' <= Holdings(a)'
  \/ Debt(a) > 0 /\ Holdings(a)' = Holdings(a) - 1 /\ Debt(a)' = Debt(a) - 1

Effect(a) ==
  /\ troubled \subseteq troubled' /\ troubled' \subseteq troubled \cup {a}
  /\ \A b \in Assets \ {a} : b \notin troubled' => Same(b) /\ Books(b)'
  /\ a \notin troubled' => Move(a) /\ Books(a)'

(* The books of an asset depend on these numbers only. *)
LEMMA SameBooks ==
  ASSUME NEW a, Books(a), balance'["omnibus"][a] = balance["omnibus"][a],
         balance'["escrow"][a] = balance["escrow"][a], Front(a)' = Front(a),
         Cardinality(In("escrow", a)') = Cardinality(In("escrow", a)), Arrived(a)' = Arrived(a)
  PROVE  Same(a) /\ Books(a)'
BY DEF Same, Books, Holdings, Debt

(* A step of one order leaves the other assets alone. *)
LEMMA Elsewhere ==
  ASSUME locked \subseteq Orders, NEW o \in Orders, Only(o), NEW b, Books(b), b # order[o].asset,
         balance'["omnibus"][b] = balance["omnibus"][b], balance'["escrow"][b] = balance["escrow"][b],
         avail'[b] = avail[b], Arrived(b)' = Arrived(b)
  PROVE  Same(b) /\ Books(b)'
<1>1. ASSUME NEW w PROVE Cardinality(In(w, b)') = Cardinality(In(w, b))
  <2>1. o \notin In(w, b) /\ o \notin In(w, b)' /\ Cardinality(In(w, b)) \in Nat
    BY Finite DEF In, Only
  <2> QED BY <2>1, Counts
<1>2. Cardinality(Kept(b)') = Cardinality(Kept(b))
  <2>1. o \notin Kept(b) /\ o \notin Kept(b)' /\ Cardinality(Kept(b)) \in Nat
    BY Finite DEF Kept, Only
  <2> QED BY <2>1, Counts
<1> QED
  BY <1>1, <1>2, SameBooks DEF Front

(* A step that neither moves tokens nor answers. *)
LEMMA Still ==
  ASSUME Inv, UNCHANGED <<order, incoming, answer, ledger, balance>>,
         \A p \in Orders : Where(p)' = Where(p),
         \A p \in Orders : answer[p]["release"] = "success" => tx'[p]["release"].to = tx[p]["release"].to
  PROVE  \A b \in Assets \ troubled : Same(b) /\ Books(b)'
<1> SUFFICES ASSUME NEW b \in Assets \ troubled PROVE Same(b) /\ Books(b)'
  OBVIOUS
<1>1. Books(b) /\ locked \subseteq Orders
  BY DEF Inv, TypeInv, TypeOK, BooksInv
<1>2. \A w : In(w, b)' = In(w, b)
  BY <1>1 DEF In, ledger
<1>3. Kept(b)' = Kept(b)
  BY DEF Kept
<1>4. Arrived(b)' = Arrived(b)
  BY ArrivedStays
<1> QED
  BY <1>1, <1>2, <1>3, <1>4, SameBooks DEF Front, ledger

(* Where the token of a locked order lies, as long as its asset is in order. *)
LEMMA Placed ==
  ASSUME Inv, NEW o \in Orders, order[o].asset \notin troubled
  PROVE  /\ method[o] \in {"outbound", "hold"} =>
              /\ o \in locked /\ method[o] = order[o].kind
              /\ Where(o) = IF ~Moved(o, method[o]) THEN "omnibus"
                            ELSE IF method[o] = "hold" THEN EscrowWallet ELSE "outside"
         /\ order[o].kind = "hold" /\ answer[o]["hold"] = "success" /\ ~Settled(o) =>
              /\ o \in locked
              /\ \A m \in Settlements : Moved(o, m) => method[o] = m
              /\ Where(o) = IF method[o] = "rollback" /\ Moved(o, "rollback") THEN "omnibus"
                            ELSE IF method[o] = "release" /\ Moved(o, "release") THEN tx[o]["release"].to
                            ELSE EscrowWallet
<1> USE MethodNames DEF Inv, TypeInv
<1>0. Settlements = {"release", "rollback"} /\ order[o].kind \notin Settlements
  BY OrderKinds DEF Settlements
<1>1. ASSUME NEW m \in Methods, Moved(o, m) PROVE answer[o][m] = "success" \/ method[o] = m
  <2>1. answer[o][m] \in {"none", "success", "failed"}
    BY DEF TypeOK
  <2> QED
    BY <1>1, <2>1 DEF Moved, CallInv, AnswerInv
<1>2. ASSUME method[o] \in {"outbound", "hold"}
      PROVE  /\ o \in locked /\ method[o] = order[o].kind
             /\ ~Moved(o, "release") /\ ~Moved(o, "rollback")
             /\ Where(o) = IF ~Moved(o, method[o]) THEN "omnibus"
                           ELSE IF method[o] = "hold" THEN EscrowWallet ELSE "outside"
  <2>1. method[o] = order[o].kind /\ answer[o][method[o]] = "none" /\ o \in locked
    BY <1>0, <1>2 DEF CallInv, LockInv
  <2>2. \A m \in Settlements : answer[o][m] = "none"
    BY <1>0, <1>2, <2>1 DEF AnswerInv
  <2>3. ~Moved(o, "release") /\ ~Moved(o, "rollback")
    BY <1>0, <1>1, <1>2, <2>2
  <2> QED
    BY <1>2, <2>1, <2>3 DEF Where, Moved, ToInv
<1>3. ASSUME order[o].kind = "hold", answer[o]["hold"] = "success", ~Settled(o)
      PROVE  /\ o \in locked
             /\ \A m \in Settlements : Moved(o, m) => method[o] = m
             /\ Where(o) = IF method[o] = "rollback" /\ Moved(o, "rollback") THEN "omnibus"
                           ELSE IF method[o] = "release" /\ Moved(o, "release") THEN tx[o]["release"].to
                           ELSE EscrowWallet
  <2>1. o \in locked /\ Moved(o, "hold")
    BY <1>3 DEF LockInv, AnswerInv
  <2>2. \A m \in Settlements : Moved(o, m) => method[o] = m
    BY <1>0, <1>1, <1>3 DEF Settled
  <2> QED
    BY <1>0, <1>3, <2>1, <2>2 DEF Where, Moved, ToInv
<1> QED
  BY <1>2, <1>3

(***************************************************************************)
(* Answers                                                                 *)
(***************************************************************************)
LEMMA AnswerOnly ==
  ASSUME Inv, NEW o \in Orders, pc[o] # "idle", NEW a \in {"success", "failed"}, Answer(o, a),
         UNCHANGED <<config, chain>>
  PROVE  Only(o) /\ \A p \in Orders : Where(p)' = Where(p)
<1> USE MethodNames DEF Inv, TypeInv
<1>1. method[o] \in Methods
  BY DEF SendInv
<1>2. \A p \in Orders : Where(p)' = Where(p)
  BY DEF Where, Moved, config, chain
<1>3. \A p \in Orders : p # o => answer'[p]["release"] = answer[p]["release"]
  BY <1>1, AnswerFields
<1> QED
  BY <1>2, <1>3 DEF Only, Answer, TypeOK, config, chain

(* An answer about a token of the pool: what is unlocked has come back, has
   gone or is kept. *)
LEMMA AnswerMoves ==
  ASSUME Inv, NEW o \in Orders, pc[o] # "idle", NEW a \in {"success", "failed"}, Answer(o, a), Truthful(o, a),
         UNCHANGED <<config, chain>>, troubled \subseteq troubled', troubled' \subseteq troubled \cup {order[o].asset},
         method[o] = "inbound" => a = "failed"
  PROVE  Effect(order[o].asset)
<1> USE MethodNames DEF Inv, TypeInv
<1> DEFINE A == order[o].asset
           m == method[o]
<1>0. /\ m \in Methods /\ answer[o][m] = "none" /\ A \in Assets /\ locked \subseteq Orders
      /\ order' = order /\ tx' = tx /\ incoming' = incoming /\ balance' = balance
  BY OrderTyped DEF SendInv, CallInv, config, chain, TypeOK
<1>1. /\ \A p \in Orders, n \in Methods : answer'[p][n] = IF p = o /\ n = m THEN a ELSE answer[p][n]
      /\ \A b \in Assets : avail'[b] = IF b = A THEN avail[b] + Credited(o, a) ELSE avail[b]
      /\ locked' = IF Unlocks(o, a) THEN locked \ {o} ELSE locked
  <2>1. locked' = IF Unlocks(o, a) THEN locked \ {o} ELSE locked
    BY DEF Answer
  <2> QED BY <1>0, <2>1, AnswerFields
<1>2. Only(o) /\ Where(o)' = Where(o)
  BY AnswerOnly
<1>3. \A b : Arrived(b)' = Arrived(b)
  <2>1. \A p \in Orders : answer'[p]["inbound"] = "success" <=> answer[p]["inbound"] = "success"
    BY <1>0, <1>1
  <2> QED BY <1>0, <2>1, ArrivedStays
<1>4. ASSUME NEW b \in Assets \ {A}, b \notin troubled' PROVE Same(b) /\ Books(b)'
  BY <1>0, <1>1, <1>2, <1>3, <1>4, Elsewhere DEF BooksInv
<1>5. ASSUME A \notin troubled' PROVE Same(A) /\ Books(A)'
  <2>0. A \notin troubled /\ Books(A)
    BY <1>0, <1>5 DEF BooksInv
  <2>1. m = order[o].kind
        \/ (m \in Settlements /\ order[o].kind = "hold" /\ answer[o]["hold"] = "success" /\ ~Settled(o))
    BY <1>0 DEF CallInv
  <2>2. /\ m \in {"outbound", "hold", "inbound", "release", "rollback"}
        /\ order[o].kind \in {"outbound", "hold", "inbound"} /\ Settlements = {"release", "rollback"}
    BY <1>0, OrderKinds DEF Methods, Settlements
  <2>3. /\ o \in Kept(A) <=> order[o].to \in Partners /\ answer[o]["release"] = "success"
                             /\ tx[o]["release"].to = "omnibus"
        /\ o \in Kept(A)' <=> order[o].to \in Partners /\ answer'[o]["release"] = "success"
                              /\ tx[o]["release"].to = "omnibus"
    BY <1>0 DEF Kept
  <2>4. \A w : /\ o \in In(w, A) <=> o \in locked /\ Where(o) = w
               /\ o \in In(w, A)' <=> o \in locked' /\ Where(o) = w
    BY <1>0, <1>2 DEF In
  <2>5. \A n \in Methods : n # m => answer'[o][n] = answer[o][n]
    BY <1>0, <1>1
  <2> DEFINE On(P) == IF P THEN 1 ELSE 0
  <2>6. /\ (o \in In("escrow", A)') = (o \in In("escrow", A))
        /\ Credited(o, a) + On(o \in In("omnibus", A)') + On(o \in Kept(A)')
             = On(o \in In("omnibus", A)) + On(o \in Kept(A))
    <3>1. CASE a = "failed" /\ m \in {"inbound", "release", "rollback"}
      <4>1. Credited(o, a) = 0 /\ ~Unlocks(o, a)
        BY <3>1 DEF Credited, Unlocks
      <4>2. answer'[o]["release"] = "success" <=> answer[o]["release"] = "success"
        BY <1>0, <1>1, <3>1
      <4> QED
        BY <1>1, <2>3, <2>4, <4>1, <4>2
    <3>2. CASE m = "hold" /\ a = "success"
      <4>1. Credited(o, a) = 0 /\ ~Unlocks(o, a)
        BY <3>2 DEF Credited, Unlocks
      <4> QED
        BY <1>1, <2>3, <2>4, <2>5, <3>2, <4>1
    <3>3. CASE m \in {"outbound", "hold"} /\ a = "failed"
      <4>1. Credited(o, a) = 1 /\ Unlocks(o, a)
        BY <3>3 DEF Credited, Unlocks
      <4>2. ~Moved(o, m)
        BY <1>5, <3>3 DEF Truthful, Moved
      <4>3. o \in locked /\ Where(o) = "omnibus"
        BY <2>0, <3>3, <4>2, Placed
      <4> QED
        BY <1>1, <2>3, <2>4, <2>5, <3>3, <4>1, <4>3
    <3>4. CASE m = "outbound" /\ a = "success"
      <4>1. Credited(o, a) = 0 /\ Unlocks(o, a)
        BY <3>4 DEF Credited, Unlocks
      <4>2. Moved(o, m)
        BY <3>4 DEF Truthful
      <4>3. Where(o) = "outside"
        BY <2>0, <3>4, <4>2, Placed
      <4> QED
        BY <1>1, <2>3, <2>4, <2>5, <3>4, <4>1, <4>3
    <3>5. CASE m = "rollback" /\ a = "success"
      <4>1. Credited(o, a) = 1 /\ Unlocks(o, a)
        BY <3>5 DEF Credited, Unlocks
      <4>2. Moved(o, m)
        BY <3>5 DEF Truthful
      <4>3. o \in locked /\ Where(o) = "omnibus"
        BY <2>0, <2>1, <2>2, <3>5, <4>2, Placed
      <4> QED
        BY <1>1, <2>3, <2>4, <2>5, <3>5, <4>1, <4>3
    <3>6. CASE m = "release" /\ a = "success"
      <4>1. Unlocks(o, a) /\ Credited(o, a) = On(order[o].to \in Investors)
        BY <3>6 DEF Credited, Unlocks
      <4>2. Moved(o, m)
        BY <3>6 DEF Truthful
      <4>3. o \in locked /\ Where(o) = tx[o]["release"].to
        BY <2>0, <2>1, <2>2, <3>6, <4>2, Placed
      <4>4. Paid(o, tx[o]["release"].to)
        BY <3>6, <4>2 DEF ToInv, Moved
      <4>5. order[o].to \in Investors \/ order[o].to \in Partners
        BY OrderTyped
      <4>6. order[o].to \in Investors => order[o].to \notin Partners /\ Where(o) = "omnibus"
        BY <2>0, <4>3, <4>4, NamesAssumption DEF Paid
      <4>7. answer[o]["release"] # "success" /\ answer'[o]["release"] = "success"
        BY <1>0, <1>1, <3>6
      <4>8. Where(o) \in {"omnibus", "outside"}
        BY <4>3, <4>4 DEF Paid
      <4> QED
        BY <1>1, <2>3, <2>4, <4>1, <4>3, <4>5, <4>6, <4>7, <4>8
    <3> QED BY <2>2, <3>1, <3>2, <3>3, <3>4, <3>5, <3>6
  <2>7. \A w : Cardinality(In(w, A)) \in Nat /\ Cardinality(Kept(A)) \in Nat
    BY <1>0, Finite
  <2>8. Credited(o, a) \in Nat /\ avail[A] \in Nat
    BY <1>0, OrderTyped DEF Credited, TypeOK
  <2>9. /\ \A w : Cardinality(In(w, A)') = Cardinality(In(w, A)) + On(o \in In(w, A)') - On(o \in In(w, A))
        /\ Cardinality(Kept(A)') = Cardinality(Kept(A)) + On(o \in Kept(A)') - On(o \in Kept(A))
    BY <1>0, <1>2, Counts
  <2>10. avail'[A] = avail[A] + Credited(o, a)
    BY <1>0, <1>1
  <2>11. Front(A)' = Front(A) /\ Cardinality(In("escrow", A)') = Cardinality(In("escrow", A))
    <3>1. Cardinality(In("escrow", A)') = Cardinality(In("escrow", A))
      BY <2>6, <2>7, <2>9
    <3> DEFINE i0 == Cardinality(In("omnibus", A))
               k0 == Cardinality(Kept(A))
               i1 == Cardinality(In("omnibus", A)')
               k1 == Cardinality(Kept(A)')
               x0 == On(o \in In("omnibus", A))
               y0 == On(o \in Kept(A))
               x1 == On(o \in In("omnibus", A)')
               y1 == On(o \in Kept(A)')
               c  == Credited(o, a)
    <3>2. i1 = i0 + x1 - x0
      BY <2>9
    <3>3. k1 = k0 + y1 - y0 /\ c + x1 + y1 = x0 + y0
      BY <2>6, <2>9
    <3>4. i0 \in Nat /\ k0 \in Nat /\ x0 \in Nat /\ y0 \in Nat /\ x1 \in Nat /\ y1 \in Nat /\ c \in Nat
      BY <2>7, <2>8
    <3>5. Front(A)' = avail'[A] + i1 + k1 /\ Front(A) = avail[A] + i0 + k0
      BY <1>0 DEF Front
    <3>6. Front(A)' = Front(A)
      <4> HIDE DEF i0, k0, i1, k1, x0, x1, y0, y1, c
      <4>1. avail'[A] + i1 + k1 = avail[A] + i0 + k0
        BY <2>8, <2>10, <3>2, <3>3, <3>4 DEF c
      <4> QED BY <3>5, <4>1
    <3> QED BY <3>1, <3>6
  <2> QED
    BY <1>0, <1>3, <2>0, <2>11, SameBooks
<1> QED
  BY <1>4, <1>5 DEF Effect, Move

(* An arrival that was verified pays for what is credited. *)
LEMMA CreditMoves ==
  ASSUME Inv, NEW o \in Orders, pc[o] = "asset", method[o] = "inbound", Verified(o), Answer(o, "success"),
         UNCHANGED <<config, chain, troubled>>
  PROVE  Effect(order[o].asset)
<1> USE MethodNames DEF Inv, TypeInv
<1> DEFINE A == order[o].asset
           t == order[o].transfer
           n == order[o].amount
<1>0. /\ A \in Assets /\ n \in Nat /\ locked \subseteq Orders /\ answer[o]["inbound"] = "none"
      /\ order' = order /\ tx' = tx /\ incoming' = incoming /\ balance' = balance /\ troubled' = troubled
  BY OrderTyped DEF CallInv, config, chain, TypeOK
<1>1. /\ t \in Transfers /\ InitTransfers[t].asset = A /\ InitTransfers[t].first = n /\ n > 0
      /\ incoming[t] # "sent" /\ InitTransfers[t].ok
  <2>1. order[o].kind = "inbound"
    BY DEF CallInv, Settlements
  <2> QED
    BY <2>1, OrderKinds DEF Verified, ArrivalInv
<1>2. /\ \A p \in Orders, m \in Methods :
           answer'[p][m] = IF p = o /\ m = "inbound" THEN "success" ELSE answer[p][m]
      /\ \A b \in Assets : avail'[b] = IF b = A THEN avail[b] + n ELSE avail[b]
      /\ locked' = locked
  <2>1. Credited(o, "success") = n /\ ~Unlocks(o, "success")
    BY DEF Credited, Unlocks
  <2>2. locked' = locked
    BY <2>1 DEF Answer
  <2> QED
    BY <2>1, <2>2, AnswerFields
<1>3. Only(o) /\ \A p \in Orders : Where(p)' = Where(p)
  BY AnswerOnly
<1>4. \A u : Claimed(u)' <=> u = t \/ Claimed(u)
  BY <1>0, <1>2 DEF Claimed
<1>5. ~Claimed(t)
  <2> SUFFICES ASSUME NEW p \in Orders, order[p].transfer = t, answer[p]["inbound"] = "success" PROVE FALSE
    BY DEF Claimed
  <2>1. p = o
    BY DEF ArrivalInv, Claims
  <2> QED BY <1>0, <2>1
<1>6. ASSUME NEW b \in Assets \ {A}, b \notin troubled PROVE Same(b) /\ Books(b)'
  <2>1. Uncredited(b)' = Uncredited(b)
    BY <1>0, <1>1, <1>4, <1>6 DEF Uncredited
  <2>2. Arrived(b)' = Arrived(b)
    BY <2>1 DEF Arrived, Tokens
  <2> QED
    BY <1>0, <1>2, <1>3, <1>6, <2>2, Elsewhere DEF BooksInv
<1>7. ASSUME A \notin troubled
      PROVE  /\ Holdings(A)' = Holdings(A) /\ Debt(A)' > Debt(A) /\ Debt(A)' <= Holdings(A)'
             /\ Books(A)'
  <2>1. Books(A)
    BY <1>0, <1>7 DEF BooksInv
  <2>2. t \in Uncredited(A) /\ Uncredited(A)' = Uncredited(A) \ {t}
    BY <1>0, <1>1, <1>4, <1>5 DEF Uncredited
  <2>3. /\ Tokens(t) \subseteq Arrived(A)
        /\ Arrived(A)' = Arrived(A) \ Tokens(t)
    <3>1. \A u, x : x \in Tokens(u) => x[1] = u
      BY DEF Tokens
    <3>2. Arrived(A)' = UNION {Tokens(u) : u \in Uncredited(A) \ {t}}
      BY <2>2 DEF Arrived, Tokens
    <3> QED
      BY <2>2, <3>1, <3>2 DEF Arrived
  <2>4. IsFiniteSet(Tokens(t)) /\ Cardinality(Tokens(t)) = n
    BY <1>1, TokensFinite
  <2>5. /\ IsFiniteSet(Arrived(A)')
        /\ Cardinality(Arrived(A)') = Cardinality(Arrived(A)) - n
    <3>1. IsFiniteSet(Arrived(A)')
      BY <2>1, <2>3, FS_Subset DEF Books
    <3>2. Arrived(A) \cap Tokens(t) = Tokens(t)
      BY <2>3
    <3>3. Cardinality(Arrived(A) \ Tokens(t)) = Cardinality(Arrived(A)) - Cardinality(Arrived(A) \cap Tokens(t))
      BY <2>1, FS_Difference DEF Books
    <3> QED BY <2>3, <2>4, <3>1, <3>2, <3>3
  <2>6. /\ \A w : In(w, A)' = In(w, A)
        /\ Kept(A)' = Kept(A)
    BY <1>0, <1>2, <1>3 DEF In, Kept
  <2>7. avail'[A] = avail[A] + n /\ avail[A] \in Nat
    BY <1>0, <1>2 DEF TypeOK
  <2>8. /\ Cardinality(In("omnibus", A)) \in Nat /\ Cardinality(In("escrow", A)) \in Nat
        /\ Cardinality(Kept(A)) \in Nat
    BY <1>0, Finite
  <2>9. Front(A)' = Front(A) + n /\ Front(A) \in Nat
    BY <1>0, <2>6, <2>7, <2>8 DEF Front
  <2>10. balance["omnibus"][A] \in Nat /\ balance["escrow"][A] \in Nat /\ Cardinality(Arrived(A)') \in Nat
    BY <1>0, <2>5, FS_CardinalityType DEF TypeOK
  <2>11. Debt(A)' = Debt(A) + n /\ Debt(A) = Front(A) + Cardinality(In("escrow", A)) /\ Debt(A) \in Nat
    BY <1>0, <2>6, <2>8, <2>9 DEF Debt
  <2>12. Holdings(A) = balance["omnibus"][A] + balance["escrow"][A] /\ Holdings(A)' = Holdings(A)
    BY <1>0 DEF Holdings
  <2>13. /\ balance["escrow"][A] >= Cardinality(In("escrow", A))
         /\ balance["omnibus"][A] >= Front(A) + Cardinality(Arrived(A))
         /\ Cardinality(Arrived(A)) \in Nat
    BY <2>1, FS_CardinalityType DEF Books
  <2>14. balance["omnibus"][A] >= Front(A)' + Cardinality(Arrived(A)')
    BY <1>0, <2>5, <2>9, <2>13
  <2>15. Books(A)'
    BY <1>0, <2>5, <2>6, <2>13, <2>14 DEF Books
  <2>16. Debt(A)' > Debt(A) /\ Debt(A)' <= Holdings(A)'
    BY <1>0, <1>1, <2>5, <2>8, <2>9, <2>10, <2>11, <2>12, <2>13, <2>14
  <2> QED BY <2>12, <2>15, <2>16
<1> QED
  BY <1>0, <1>6, <1>7 DEF Effect, Move

(* The ledger locks a token that is available. *)
LEMMA RequestMoves ==
  ASSUME Inv, NEW o \in Orders, NEW m \in Methods, Request(o, m)
  PROVE  Effect(order[o].asset)
<1> USE MethodNames DEF Inv, TypeInv
<1> DEFINE A == order[o].asset
<1>0. /\ A \in Assets /\ locked \subseteq Orders /\ answer' = answer
      /\ order' = order /\ tx' = tx /\ incoming' = incoming /\ balance' = balance /\ troubled' = troubled
      /\ answer[o][m] = "none" /\ method[o] = "none"
  BY OrderTyped DEF Request, Due, CallInv, config, chain, TypeOK
<1>1. \A p \in Orders : Where(p)' = Where(p)
  BY <1>0 DEF Where, Moved
<1>2. CASE m \notin {"outbound", "hold"}
  <2>1. ledger' = ledger
    BY <1>2 DEF Request
  <2>2. \A b \in Assets \ troubled : Same(b) /\ Books(b)'
    BY <1>0, <1>1, <2>1, Still
  <2> QED BY <1>0, <2>2 DEF Effect, Move
<1>3. CASE m \in {"outbound", "hold"}
  <2>1. /\ avail[A] > 0 /\ locked' = locked \cup {o}
        /\ \A b \in Assets : avail'[b] = IF b = A THEN avail[b] - 1 ELSE avail[b]
    BY <1>3 DEF Request, Lock, TypeOK
  <2>2. Only(o)
    BY <1>0, <1>1, <2>1 DEF Only
  <2>3. \A b : Arrived(b)' = Arrived(b)
    BY <1>0, ArrivedStays
  <2>4. ASSUME NEW b \in Assets \ {A}, b \notin troubled PROVE Same(b) /\ Books(b)'
    BY <1>0, <2>1, <2>2, <2>3, <2>4, Elsewhere DEF BooksInv
  <2>5. ASSUME A \notin troubled PROVE Same(A) /\ Books(A)'
    <3>0. Books(A)
      BY <1>0, <2>5 DEF BooksInv
    <3>1. m = order[o].kind
      BY <1>3, OrderKinds DEF Request, Due, Settlements
    <3>2. o \notin locked
      BY <1>0, <3>1 DEF LockInv
    <3>3. tx[o][m].state = "none"
      BY <1>0 DEF CallInv
    <3>4. Where(o) = "omnibus"
      BY <3>1, <3>3 DEF Where, Moved
    <3>5. /\ o \notin In("omnibus", A) /\ o \in In("omnibus", A)'
          /\ o \notin In("escrow", A) /\ o \notin In("escrow", A)'
      BY <1>0, <1>1, <2>1, <3>2, <3>4 DEF In
    <3>6. Kept(A)' = Kept(A)
      BY <1>0 DEF Kept
    <3>7. /\ Cardinality(In("omnibus", A)) \in Nat /\ Cardinality(In("escrow", A)) \in Nat
          /\ Cardinality(Kept(A)) \in Nat /\ avail[A] \in Nat
      BY <1>0, Finite DEF TypeOK
    <3>8. /\ Cardinality(In("omnibus", A)') = Cardinality(In("omnibus", A)) + 1
          /\ Cardinality(In("escrow", A)') = Cardinality(In("escrow", A))
      BY <1>0, <2>2, <3>5, <3>7, Counts
    <3>9. Front(A)' = Front(A)
      BY <1>0, <2>1, <3>6, <3>7, <3>8 DEF Front
    <3> QED
      BY <1>0, <2>3, <3>0, <3>8, <3>9, SameBooks
  <2> QED
    BY <1>0, <2>4, <2>5 DEF Effect, Move
<1> QED BY <1>2, <1>3

(* A wallet pays with the token of the order that lies in it. *)
LEMMA PaysFrom ==
  ASSUME Inv, NEW o \in Orders, NEW m \in Methods, tx[o][m].state = "pending", order[o].asset \notin troubled
  PROVE  /\ method[o] = m /\ m \in {"outbound", "hold", "release", "rollback"} /\ answer[o][m] = "none"
         /\ m = order[o].kind \/ (m \in Settlements /\ order[o].kind = "hold"
                                  /\ answer[o]["hold"] = "success" /\ ~Settled(o))
         /\ o \in In(From(m), order[o].asset) /\ From(m) \in {"omnibus", "escrow"}
         /\ Possible(o, m)
<1> USE MethodNames DEF Inv, TypeInv
<1>1. answer[o][m] \in {"none", "success", "failed"} /\ order[o].asset \in Assets /\ locked \subseteq Orders
  BY OrderTyped DEF TypeOK
<1>2. m # "inbound"
  BY DEF CallInv
<1>3. answer[o][m] = "none" /\ method[o] = m
  BY <1>1, <1>2 DEF AnswerInv, Moved, CallInv
<1>4. m = order[o].kind \/ (m \in Settlements /\ order[o].kind = "hold"
                            /\ answer[o]["hold"] = "success" /\ ~Settled(o))
  BY <1>3 DEF CallInv
<1>5. m \in {"outbound", "hold", "release", "rollback"} /\ Settlements = {"release", "rollback"}
  BY <1>2 DEF Methods, Settlements
<1>6. o \in locked /\ Where(o) = From(m)
  <2>1. ~Moved(o, m)
    BY DEF Moved
  <2>2. CASE m \in {"outbound", "hold"}
    BY <1>3, <1>5, <2>1, <2>2, Placed DEF From
  <2>3. CASE m \in Settlements
    <3>1. order[o].kind = "hold" /\ answer[o]["hold"] = "success" /\ ~Settled(o)
      BY <1>4, <2>3, OrderKinds
    <3> QED
      BY <1>3, <1>5, <2>1, <2>3, <3>1, Placed DEF From
  <2> QED BY <1>5, <2>2, <2>3
<1>7. o \in In(From(m), order[o].asset) /\ From(m) \in {"omnibus", "escrow"}
  BY <1>6 DEF In, From, EscrowWallet
<1>8. Possible(o, m)
  <2> DEFINE A == order[o].asset
  <2>1. Books(A)
    BY <1>1 DEF BooksInv
  <2>2. \A w : IsFiniteSet(In(w, A)) /\ Cardinality(In(w, A)) \in Nat /\ Cardinality(Kept(A)) \in Nat
    BY <1>1, Finite
  <2>3. Cardinality(In(From(m), A)) > 0
    <3>1. Cardinality(In(From(m), A)) # 0
      BY <1>7, <2>2, FS_EmptySet
    <3> QED BY <2>2, <3>1
  <2>4. avail[A] \in Nat /\ Cardinality(Arrived(A)) \in Nat
    BY <1>1, <2>1, FS_CardinalityType DEF TypeOK, Books
  <2>5. balance["escrow"][A] \in Nat /\ balance["omnibus"][A] \in Nat
    BY <1>1 DEF TypeOK
  <2>6. CASE From(m) = "escrow"
    BY <2>1, <2>2, <2>3, <2>5, <2>6 DEF Possible, Books
  <2>7. CASE From(m) = "omnibus"
    <3>1. /\ Cardinality(In("omnibus", A)) \in Nat /\ Cardinality(In("omnibus", A)) > 0
          /\ Cardinality(Kept(A)) \in Nat
      BY <2>2, <2>3, <2>7
    <3>2. balance["omnibus"][A] >= avail[A] + Cardinality(In("omnibus", A)) + Cardinality(Kept(A))
                                   + Cardinality(Arrived(A))
      BY <2>1 DEF Books, Front
    <3>3. balance["omnibus"][A] > 0
      BY <2>4, <2>5, <3>1, <3>2
    <3> QED BY <2>7, <3>3 DEF Possible
  <2> QED BY <1>7, <2>6, <2>7
<1> QED BY <1>3, <1>4, <1>5, <1>7, <1>8

(***************************************************************************)
(* Transactions                                                            *)
(***************************************************************************)
(* A token lands where its transaction takes it. *)
LEMMA LandsMoves ==
  ASSUME Inv, NEW o \in Orders, NEW m \in Methods, Lands(o, m)
  PROVE  Effect(order[o].asset)
<1> USE MethodNames DEF Inv, TypeInv
<1> DEFINE A == order[o].asset
           dst == tx[o][m].to
<1>0. /\ A \in Assets /\ locked \subseteq Orders /\ answer' = answer /\ locked' = locked /\ avail' = avail
      /\ order' = order /\ incoming' = incoming /\ troubled' = troubled /\ tx[o][m].state = "pending"
  BY OrderTyped DEF Lands, config, ledger, TypeOK
<1>1. \A p \in Orders, n \in Methods : /\ tx'[p][n].state = IF p = o /\ n = m THEN "landed" ELSE tx[p][n].state
                                       /\ tx'[p][n].to = tx[p][n].to
  <2>1. tx \in [Orders -> [Methods -> TxType]] /\ tx' = [tx EXCEPT ![o][m].state = "landed"]
    BY DEF Lands, TypeOK
  <2> QED BY <2>1, MinedTx
<1>2. ASSUME NEW p \in Orders, p # o PROVE Where(p)' = Where(p)
  <2>1. order[p].kind \in Methods
    BY OrderKinds
  <2> QED BY <1>0, <1>1, <1>2, <2>1 DEF Where, Moved
<1>3. Only(o)
  BY <1>0, <1>1, <1>2 DEF Only
<1>4. \A b : Arrived(b)' = Arrived(b)
  BY <1>0, ArrivedStays
<1>5. \A w \in {"omnibus", "escrow"}, b \in Assets :
        balance'[w][b] = IF b # A THEN balance[w][b]
                         ELSE balance[w][b] - (IF w = From(m) THEN 1 ELSE 0) + (IF w = dst THEN 1 ELSE 0)
  BY LandsBalance
<1>6. ASSUME NEW b \in Assets \ {A}, b \notin troubled PROVE Same(b) /\ Books(b)'
  BY <1>0, <1>3, <1>4, <1>5, <1>6, Elsewhere DEF BooksInv
<1>7. ASSUME A \notin troubled PROVE Move(A) /\ Books(A)'
  <2>0. Books(A)
    BY <1>0, <1>7 DEF BooksInv
  <2>1. /\ method[o] = m /\ m \in {"outbound", "hold", "release", "rollback"} /\ answer[o][m] = "none"
        /\ m = order[o].kind \/ (m \in Settlements /\ order[o].kind = "hold"
                                 /\ answer[o]["hold"] = "success" /\ ~Settled(o))
        /\ o \in In(From(m), A) /\ From(m) \in {"omnibus", "escrow"}
    BY <1>0, <1>7, PaysFrom
  <2>2. Where(o)' = dst /\ dst \in {"omnibus", "escrow", "outside"}
    <3>1. /\ order[o].kind \in {"outbound", "hold", "inbound"} /\ order[o].kind \in Methods
          /\ Settlements = {"release", "rollback"}
      BY OrderKinds DEF Settlements
    <3>2. \A n \in Methods : Moved(o, n)' <=> n = m \/ Moved(o, n)
      BY <1>1 DEF Moved
    <3>3. CASE m = order[o].kind
      <4>1. ASSUME NEW n \in Settlements PROVE ~Moved(o, n)
        <5>1. answer[o][n] = "none"
          BY <2>1, <3>1, <3>3 DEF AnswerInv
        <5> QED BY <2>1, <3>1, <3>3, <5>1 DEF CallInv, Moved
      <4>2. Where(o)' = dst
        BY <1>0, <1>1, <3>1, <3>2, <3>3, <4>1 DEF Where
      <4>3. dst \in {"omnibus", "escrow", "outside"}
        BY <1>0, <2>1, <3>1, <3>3 DEF ToInv, EscrowWallet
      <4> QED BY <4>2, <4>3
    <3>4. CASE m # order[o].kind
      <4>1. m \in Settlements /\ order[o].kind = "hold" /\ answer[o]["hold"] = "success" /\ ~Settled(o)
        BY <2>1, <3>4
      <4>2. \A n \in Settlements : Moved(o, n) => n = m
        BY <1>0, <1>7, <2>1, <4>1, Placed
      <4>3. Moved(o, "hold")
        BY <4>1 DEF AnswerInv
      <4>4. CASE m = "rollback"
        <5>1. dst = "omnibus"
          BY <1>0, <4>4 DEF ToInv
        <5> QED BY <1>0, <1>1, <3>1, <3>2, <4>1, <4>4, <5>1 DEF Where
      <4>5. CASE m = "release"
        <5>1. dst \in {"omnibus", "outside"}
          BY <1>0, <4>5 DEF ToInv, Paid
        <5>2. ~Moved(o, "rollback")
          BY <3>1, <4>2, <4>5
        <5> QED BY <1>0, <1>1, <3>1, <3>2, <4>1, <4>3, <4>5, <5>1, <5>2 DEF Where
      <4> QED BY <3>1, <4>1, <4>4, <4>5
    <3> QED BY <3>3, <3>4
  <2>3. \A w : /\ o \in In(w, A) <=> w = From(m)
               /\ o \in In(w, A)' <=> w = dst
    BY <1>0, <2>1, <2>2 DEF In
  <2>4. Kept(A)' = Kept(A)
    BY <1>0, <1>1 DEF Kept
  <2>5. /\ Cardinality(In("omnibus", A)) \in Nat /\ Cardinality(In("escrow", A)) \in Nat
        /\ Cardinality(Kept(A)) \in Nat /\ avail[A] \in Nat
        /\ balance["omnibus"][A] \in Nat /\ balance["escrow"][A] \in Nat
    <3>1. avail[A] \in Nat /\ balance["omnibus"][A] \in Nat /\ balance["escrow"][A] \in Nat
      BY <1>0 DEF TypeOK
    <3> QED BY <1>0, <3>1, Finite
  <2>6. ASSUME NEW w PROVE Cardinality(In(w, A)') = Cardinality(In(w, A)) + (IF w = dst THEN 1 ELSE 0)
                                                     - (IF w = From(m) THEN 1 ELSE 0)
    BY <1>0, <1>3, <2>3, Counts
  <2>7. Cardinality(Arrived(A)) \in Nat
    BY <2>0, FS_CardinalityType DEF Books
  <2> DEFINE io == Cardinality(In("omnibus", A))
             ie == Cardinality(In("escrow", A))
             jo == Cardinality(In("omnibus", A)')
             je == Cardinality(In("escrow", A)')
             bo == balance["omnibus"][A]
             be == balance["escrow"][A]
             co == balance'["omnibus"][A]
             ce == balance'["escrow"][A]
             av == avail[A]
             kp == Cardinality(Kept(A))
             ar == Cardinality(Arrived(A))
  <2>8. /\ jo = io + (IF dst = "omnibus" THEN 1 ELSE 0) - (IF From(m) = "omnibus" THEN 1 ELSE 0)
        /\ je = ie + (IF dst = "escrow" THEN 1 ELSE 0) - (IF From(m) = "escrow" THEN 1 ELSE 0)
        /\ co = bo + (IF dst = "omnibus" THEN 1 ELSE 0) - (IF From(m) = "omnibus" THEN 1 ELSE 0)
        /\ ce = be + (IF dst = "escrow" THEN 1 ELSE 0) - (IF From(m) = "escrow" THEN 1 ELSE 0)
    <3>1. /\ co = bo - (IF From(m) = "omnibus" THEN 1 ELSE 0) + (IF dst = "omnibus" THEN 1 ELSE 0)
          /\ ce = be - (IF From(m) = "escrow" THEN 1 ELSE 0) + (IF dst = "escrow" THEN 1 ELSE 0)
      BY <1>0, <1>5
    <3> QED BY <2>5, <2>6, <3>1
  <2>9. /\ Holdings(A) = bo + be /\ Holdings(A)' = co + ce
        /\ Debt(A) = av + io + kp + ie /\ Debt(A)' = av + jo + kp + je
    BY <1>0, <2>4 DEF Holdings, Debt, Front
  <2>10. be >= ie /\ bo >= av + io + kp + ar
    BY <2>0 DEF Books, Front
  <2>11. io + ie > 0
    <3>1. In(From(m), A) # {} /\ IsFiniteSet(In(From(m), A))
      BY <1>0, <2>1, Finite
    <3>2. Cardinality(In(From(m), A)) # 0
      BY <3>1, FS_EmptySet
    <3> QED BY <2>1, <2>5, <3>2
  <2>12. Books(A)'
    <3>1. ce >= je /\ co >= av + jo + kp + ar
      <4> HIDE DEF io, ie, jo, je, bo, be, co, ce, av, kp, ar, dst
      <4> QED
        BY <2>5, <2>7, <2>8, <2>10 DEF io, ie, bo, be, av, kp, ar
    <3> QED
      BY <1>0, <1>4, <2>0, <2>4, <3>1 DEF Books, Front
  <2>13. \/ co + ce = bo + be /\ av + jo + kp + je = av + io + kp + ie
         \/ /\ av + io + kp + ie > 0 /\ co + ce = bo + be - 1
            /\ av + jo + kp + je = av + io + kp + ie - 1
    <3> HIDE DEF io, ie, jo, je, bo, be, co, ce, av, kp, ar, dst
    <3> QED
      BY <2>1, <2>2, <2>5, <2>8, <2>11 DEF io, ie, bo, be, av, kp
  <2>14. \/ Holdings(A)' = Holdings(A) /\ Debt(A)' = Debt(A)
         \/ Debt(A) > 0 /\ Holdings(A)' = Holdings(A) - 1 /\ Debt(A)' = Debt(A) - 1
    <3>1. CASE co + ce = bo + be /\ av + jo + kp + je = av + io + kp + ie
      BY <2>9, <3>1
    <3>2. CASE /\ av + io + kp + ie > 0 /\ co + ce = bo + be - 1
               /\ av + jo + kp + je = av + io + kp + ie - 1
      <4>1. Holdings(A)' = Holdings(A) - 1
        BY <2>5, <2>9, <3>2
      <4>2. Debt(A) > 0
        BY <2>9, <3>2
      <4>3. Debt(A)' = Debt(A) - 1
        BY <2>5, <2>9, <3>2
      <4> QED BY <4>1, <4>2, <4>3
    <3> QED BY <2>13, <3>1, <3>2
  <2>15. Move(A)
    BY <1>0, <2>14 DEF Move, Same
  <2> QED BY <2>12, <2>15
<1> QED
  BY <1>0, <1>6, <1>7 DEF Effect

(* A step that moves no token, of a call or of a transaction that is sent or
   given up. *)
Calm == troubled' = troubled /\ \A b \in Assets \ troubled : Same(b) /\ Books(b)'

LEMMA SendCalm ==
  ASSUME Inv, NEW o \in Orders, Send(o)
  PROVE  Calm
<1> USE MethodNames DEF Inv, TypeInv
<1>0. /\ answer' = answer /\ order' = order /\ incoming' = incoming /\ ledger' = ledger /\ balance' = balance
      /\ troubled' = troubled
  BY DEF Send, Goto, config, ledger
<1>1. /\ \A p \in Orders, n \in Methods : tx'[p][n] = IF p = o /\ n = method[o]
                                                      THEN [state |-> "pending", to |-> To(o)] ELSE tx[p][n]
      /\ \A p \in Orders, n \in Methods : Moved(p, n)' <=> Moved(p, n)
      /\ method[o] \in Methods
  BY SendFields
<1>2. \A p \in Orders, n \in Methods : Moved(p, n) => tx'[p][n] = tx[p][n]
  <2>1. tx[o][method[o]].state = "none"
    BY SendFields
  <2> QED BY <1>1, <2>1 DEF Moved
<1>3. ASSUME NEW p \in Orders PROVE Where(p)' = Where(p)
  <2>1. order[p].kind \in Methods
    BY OrderKinds
  <2> QED BY <1>0, <1>1, <1>2, <2>1 DEF Where
<1>4. \A p \in Orders : answer[p]["release"] = "success" => tx'[p]["release"].to = tx[p]["release"].to
  <2>1. \A p \in Orders : answer[p]["release"] = "success" => Moved(p, "release")
    BY DEF AnswerInv
  <2> QED BY <1>2, <2>1
<1> QED
  BY <1>0, <1>3, <1>4, Still DEF Calm

LEMMA EndsCalm ==
  ASSUME Inv, NEW o \in Orders, NEW m \in Methods, tx[o][m].state = "pending",
         NEW s \in {"short", "refused"}, tx' = [tx EXCEPT ![o][m].state = s],
         UNCHANGED <<config, answer, ledger, incoming, balance, troubled>>
  PROVE  Calm
<1> USE MethodNames DEF Inv, TypeInv
<1>1. \A p \in Orders, n \in Methods : /\ tx'[p][n].state = IF p = o /\ n = m THEN s ELSE tx[p][n].state
                                       /\ tx'[p][n].to = tx[p][n].to
  <2>1. tx \in [Orders -> [Methods -> TxType]]
    BY DEF TypeOK
  <2> QED BY <2>1, MinedTx
<1>2. ASSUME NEW p \in Orders PROVE Where(p)' = Where(p)
  <2>1. order[p].kind \in Methods
    BY OrderKinds
  <2>2. \A n \in Methods : Moved(p, n)' <=> Moved(p, n)
    BY <1>1 DEF Moved
  <2> QED BY <1>1, <2>1, <2>2 DEF Where, config
<1> QED
  BY <1>1, <1>2, Still DEF Calm, config

(* Incoming tokens lie in the omnibus wallet, and are owed to nobody yet. *)
LEMMA ConfirmMoves ==
  ASSUME Inv, NEW t \in Transfers, Confirm(t)
  PROVE  Effect(InitTransfers[t].asset)
<1> USE MethodNames DEF Inv, TypeInv
<1> DEFINE A == InitTransfers[t].asset
           f == InitTransfers[t].first
           e == InitTransfers[t].more
<1>0. /\ A \in Assets /\ locked \subseteq Orders /\ answer' = answer /\ ledger' = ledger
      /\ order' = order /\ tx' = tx /\ troubled' = troubled /\ f \in Nat /\ e \in Nat
      /\ \A u \in Transfers : incoming'[u] = IF u = t THEN "confirmed" ELSE incoming[u]
  BY WorldAssumption DEF Confirm, config, TypeOK, Transfer
<1>1. /\ \A p \in Orders : Where(p)' = Where(p)
      /\ \A u : Claimed(u)' = Claimed(u)
  BY <1>0 DEF Where, Moved, Claimed
<1>2. \A w, b : In(w, b)' = In(w, b) /\ Kept(b)' = Kept(b)
  BY <1>0, <1>1 DEF In, Kept, ledger
<1>3. \A b : Front(b)' = Front(b) /\ Debt(b)' = Debt(b)
  BY <1>0, <1>2 DEF Front, Debt, ledger
<1>4. \A w \in {"omnibus", "escrow"}, b \in Assets :
        balance'[w][b] = IF w = "omnibus" /\ b = A /\ InitTransfers[t].ok
                         THEN balance[w][b] + f + e ELSE balance[w][b]
  BY ConfirmBalance
<1>5. ASSUME NEW b \in Assets, b # A \/ ~InitTransfers[t].ok, b \notin troubled
      PROVE  Same(b) /\ Books(b)'
  <2>1. Uncredited(b)' = Uncredited(b)
    BY <1>0, <1>1, <1>5 DEF Uncredited
  <2>2. Arrived(b)' = Arrived(b)
    BY <2>1 DEF Arrived, Tokens
  <2>3. Books(b)
    BY <1>5 DEF BooksInv
  <2> QED
    BY <1>2, <1>3, <1>4, <1>5, <2>2, <2>3, SameBooks
<1>6. ASSUME A \notin troubled, InitTransfers[t].ok
      PROVE  Move(A) /\ Books(A)'
  <2>1. Books(A)
    BY <1>0, <1>6 DEF BooksInv
  <2>2. Arrived(A)' \subseteq Arrived(A) \cup Tokens(t)
    <3>1. Uncredited(A)' \subseteq Uncredited(A) \cup {t}
      BY <1>0, <1>1 DEF Uncredited
    <3> QED BY <3>1 DEF Arrived, Tokens
  <2>3. IsFiniteSet(Tokens(t)) /\ Cardinality(Tokens(t)) = f
    BY TokensFinite
  <2>4. /\ IsFiniteSet(Arrived(A) \cup Tokens(t))
        /\ Cardinality(Arrived(A) \cup Tokens(t)) <= Cardinality(Arrived(A)) + f
    <3>1. IsFiniteSet(Arrived(A)) /\ Cardinality(Arrived(A)) \in Nat
      BY <2>1, FS_CardinalityType DEF Books
    <3>2. /\ IsFiniteSet(Arrived(A) \cup Tokens(t))
          /\ Cardinality(Arrived(A) \cup Tokens(t))
               = Cardinality(Arrived(A)) + Cardinality(Tokens(t)) - Cardinality(Arrived(A) \cap Tokens(t))
      BY <2>3, <3>1, FS_Union
    <3>3. Cardinality(Arrived(A) \cap Tokens(t)) \in Nat
      BY <3>1, FS_Intersection, FS_CardinalityType
    <3> QED BY <1>0, <2>3, <3>1, <3>2, <3>3
  <2>5. IsFiniteSet(Arrived(A)') /\ Cardinality(Arrived(A)') <= Cardinality(Arrived(A)) + f
    <3>1. /\ IsFiniteSet(Arrived(A)')
          /\ Cardinality(Arrived(A)') <= Cardinality(Arrived(A) \cup Tokens(t))
      BY <2>2, <2>4, FS_Subset
    <3>2. /\ Cardinality(Arrived(A)') \in Nat /\ Cardinality(Arrived(A)) \in Nat
          /\ Cardinality(Arrived(A) \cup Tokens(t)) \in Nat
      BY <2>1, <2>4, <3>1, FS_CardinalityType DEF Books
    <3> QED BY <1>0, <2>4, <3>1, <3>2
  <2>6. /\ balance'["omnibus"][A] = balance["omnibus"][A] + f + e
        /\ balance'["escrow"][A] = balance["escrow"][A]
        /\ balance["omnibus"][A] \in Nat /\ balance["escrow"][A] \in Nat
    BY <1>0, <1>4, <1>6 DEF TypeOK
  <2>7. Cardinality(Arrived(A)') \in Nat /\ Cardinality(Arrived(A)) \in Nat /\ Front(A) \in Nat
    <3>1. Cardinality(Arrived(A)') \in Nat /\ Cardinality(Arrived(A)) \in Nat
      BY <2>1, <2>5, FS_CardinalityType DEF Books
    <3>2. /\ Cardinality(In("omnibus", A)) \in Nat /\ Cardinality(Kept(A)) \in Nat /\ avail[A] \in Nat
      BY <1>0, Finite DEF TypeOK
    <3> QED BY <3>1, <3>2 DEF Front
  <2>8. balance'["omnibus"][A] >= Front(A)' + Cardinality(Arrived(A)')
    <3>1. balance["omnibus"][A] >= Front(A) + Cardinality(Arrived(A))
      BY <2>1 DEF Books
    <3>2. balance'["omnibus"][A] >= Front(A) + Cardinality(Arrived(A)')
      BY <1>0, <2>5, <2>6, <2>7, <3>1
    <3> QED BY <1>3, <3>2
  <2>9. Books(A)'
    BY <1>2, <2>1, <2>5, <2>6, <2>8 DEF Books
  <2>10. /\ Debt(A)' = Debt(A)
         /\ Holdings(A)' = Holdings(A) + (f + e) /\ Holdings(A) \in Nat
    BY <1>0, <1>3, <2>6 DEF Holdings
  <2>11. Holdings(A)' = Holdings(A) \/ Holdings(A)' > Holdings(A)
    BY <1>0, <2>10
  <2> QED BY <2>9, <2>10, <2>11 DEF Move, Same
<1>7. ASSUME A \notin troubled, ~InitTransfers[t].ok PROVE Move(A) /\ Books(A)'
  BY <1>0, <1>5, <1>7 DEF Move
<1> QED
  BY <1>0, <1>5, <1>6, <1>7 DEF Effect

(***************************************************************************)
(* Steps                                                                   *)
(***************************************************************************)
(* What every step does: control stays in order, the books of one asset at
   most move or are closed, and what falls short is of a troubled asset. *)
Sound == /\ Control' /\ order' = order
         /\ Calm \/ \E a \in Assets : Effect(a)
         /\ \A o \in Orders, m \in Methods :
              tx'[o][m].state = "short" => tx[o][m].state = "short" \/ order[o].asset \in troubled

LEMMA AnswerSound ==
  ASSUME Inv, NEW o \in Orders, pc[o] # "idle", NEW a \in {"success", "failed"}, Answer(o, a), Truthful(o, a),
         UNCHANGED <<config, chain>>, troubled \subseteq troubled', troubled' \subseteq troubled \cup {order[o].asset},
         method[o] = "inbound" /\ a = "success" => pc[o] = "asset" /\ Verified(o) /\ troubled' = troubled
  PROVE  Sound
<1>1. Control' /\ order' = order /\ tx' = tx
  BY AnswerControl DEF config, chain
<1>2. Effect(order[o].asset) /\ order[o].asset \in Assets
  <2>1. CASE method[o] = "inbound" /\ a = "success"
    BY <2>1, CreditMoves, OrderTyped DEF Inv, TypeInv
  <2>2. CASE ~(method[o] = "inbound" /\ a = "success")
    BY <2>2, AnswerMoves, OrderTyped DEF Inv, TypeInv
  <2> QED BY <2>1, <2>2
<1> QED
  BY <1>1, <1>2 DEF Sound

LEMMA GotoSound ==
  ASSUME Inv, NEW o \in Orders, pc[o] \notin {"idle", "wait"}, NEW s \in {"final", "asset", "resolve", "send"}, Goto(o, s),
         NEW t, target' = [target EXCEPT ![o] = t],
         troubled \subseteq troubled', troubled' \subseteq troubled \cup {order[o].asset},
         UNCHANGED <<config, chain>>,
         s = "final" => method[o] = "inbound",
         s = "send" /\ method[o] = "outbound" => t = "outside",
         s = "send" /\ method[o] = "release" => Paid(o, t)',
         s \in {"final", "asset"} =>
           incoming[order[o].transfer] # "sent" /\ InitTransfers[order[o].transfer].ok
  PROVE  Sound
<1>1. Control' /\ order' = order /\ tx' = tx /\ order[o].asset \in Assets
  BY GotoControl, OrderTyped DEF config, chain, Inv, TypeInv
<1>2. Effect(order[o].asset)
  <2>1. \A p \in Orders : Where(p)' = Where(p)
    BY <1>1 DEF Where, Moved
  <2>2. \A b \in Assets \ troubled : Same(b) /\ Books(b)'
    BY <1>1, <2>1, Still DEF Goto, config, chain
  <2> QED
    BY <1>1, <2>2 DEF Effect, Move
<1> QED
  BY <1>1, <1>2 DEF Sound

(* Whatever moves neither calls nor orders nor wallets. *)
LEMMA IdleSound ==
  ASSUME Inv, UNCHANGED <<order, shared, call, answer, ledger, tx, balance, incoming, troubled>>
  PROVE  Sound
<1>1. Control'
  BY OutsideControl DEF ledger
<1>2. \A p \in Orders : Where(p)' = Where(p)
  BY DEF Where, Moved
<1>3. Calm
  BY <1>2, Still DEF Calm
<1> QED
  BY <1>1, <1>3 DEF Sound

LEMMA MinedSound ==
  ASSUME Inv, NEW o \in Orders, NEW m \in Methods, Lands(o, m) \/ FallsShort(o, m) \/ IsRefused(o, m)
  PROVE  Sound
<1> USE DEF Inv, TypeInv
<1>1. PICK s \in {"landed", "short", "refused"} :
        tx' = [tx EXCEPT ![o][m].state = s] /\ (s = "short" => FallsShort(o, m))
  BY DEF Lands, FallsShort, IsRefused
<1>2. /\ tx[o][m].state = "pending"
      /\ UNCHANGED <<config, call, answer, ledger, incoming, troubled>>
  BY DEF Lands, FallsShort, IsRefused
<1>3. \A p \in Orders, n \in Methods : tx'[p][n].state = IF p = o /\ n = m THEN s ELSE tx[p][n].state
  <2>1. tx \in [Orders -> [Methods -> TxType]]
    BY DEF TypeOK
  <2> QED BY <1>1, <2>1, MinedTx
<1>4. Control'
  BY <1>1, <1>2, MinedControl
<1>5. Calm \/ Effect(order[o].asset)
  <2>1. CASE Lands(o, m)
    BY <2>1, LandsMoves
  <2>2. CASE FallsShort(o, m) \/ IsRefused(o, m)
    <3>1. \E x \in {"short", "refused"} : tx' = [tx EXCEPT ![o][m].state = x]
      BY <2>2 DEF FallsShort, IsRefused
    <3>2. balance' = balance
      BY <2>2 DEF FallsShort, IsRefused
    <3> QED
      BY <1>2, <3>1, <3>2, EndsCalm
  <2> QED BY <2>1, <2>2
<1>6. \A p \in Orders, n \in Methods :
        tx'[p][n].state = "short" => tx[p][n].state = "short" \/ order[p].asset \in troubled
  <2> SUFFICES ASSUME NEW p \in Orders, NEW n \in Methods, tx'[p][n].state = "short",
                      order[p].asset \notin troubled
               PROVE  tx[p][n].state = "short"
    OBVIOUS
  <2>1. CASE p = o /\ n = m
    <3>1. tx'[o][m].state = s
      BY <1>3
    <3>2. ~Possible(o, m)
      BY <1>1, <2>1, <3>1 DEF FallsShort
    <3> QED BY <1>2, <2>1, <3>2, PaysFrom
  <2>2. CASE ~(p = o /\ n = m)
    BY <1>3, <2>2
  <2> QED BY <2>1, <2>2
<1>7. order[o].asset \in Assets /\ order' = order
  BY <1>2, OrderTyped DEF config
<1> QED
  BY <1>4, <1>5, <1>6, <1>7 DEF Sound

LEMMA SendSound ==
  ASSUME Inv, NEW o \in Orders, Send(o)
  PROVE  Sound
<1>1. ASSUME NEW p \in Orders, NEW n \in Methods, tx'[p][n].state = "short"
      PROVE  tx[p][n].state = "short"
  <2>1. tx'[p][n] = IF p = o /\ n = method[o] THEN [state |-> "pending", to |-> To(o)] ELSE tx[p][n]
    BY SendFields
  <2>2. CASE p = o /\ n = method[o]
    BY <1>1, <2>1, <2>2
  <2>3. CASE ~(p = o /\ n = method[o])
    BY <1>1, <2>1, <2>3
  <2> QED BY <2>2, <2>3
<1> QED
  BY <1>1, SendControl, SendCalm DEF Sound, Send, config

LEMMA RequestSound ==
  ASSUME Inv, NEW o \in Orders, NEW m \in Methods, Request(o, m)
  PROVE  Sound
<1>1. tx' = tx /\ order' = order /\ order[o].asset \in Assets
  BY OrderTyped DEF Request, config, chain, Inv, TypeInv
<1> QED
  BY <1>1, RequestControl, RequestMoves DEF Sound

LEMMA StepSound ==
  ASSUME Inv, [Next]_vars
  PROVE  Sound
<1> USE DEF Inv, TypeInv
<1>1. ASSUME NEW o \in Orders, FindAsset(o) PROVE Sound
  <2>0. pc[o] = "asset" /\ method[o] # "inbound" /\ method[o] # "none" /\ UNCHANGED <<config, chain, troubled>>
    BY <1>1 DEF FindAsset, CallInv
  <2>1. CASE Answer(o, "failed")
    <3>1. tx[o][method[o]].state = "none"
      BY <2>0, MethodNames DEF CallInv, SendInv
    <3> QED
      BY <2>0, <2>1, <3>1, AnswerSound DEF Truthful
  <2>2. CASE ~Answer(o, "failed")
    <3> DEFINE s == IF method[o] \in {"outbound", "release"} THEN "resolve" ELSE "send"
    <3>1. Goto(o, s) /\ target' = [target EXCEPT ![o] = target[o]]
      BY <1>1, <2>2 DEF FindAsset, TypeOK
    <3>2. s \in {"final", "asset", "resolve", "send"} /\ s \notin {"final", "asset"}
          /\ (s = "send" => method[o] \notin {"outbound", "release"})
      OBVIOUS
    <3> HIDE DEF s
    <3> QED
      BY <2>0, <3>1, <3>2, GotoSound
  <2> QED BY <2>1, <2>2
<1>2. ASSUME NEW o \in Orders, Resolve(o) PROVE Sound
  <2>0. /\ pc[o] = "resolve" /\ method[o] \in {"outbound", "release"} /\ UNCHANGED <<config, chain>>
        /\ troubled \subseteq troubled' /\ troubled' \subseteq troubled \cup {order[o].asset}
    BY <1>2 DEF Resolve, SendInv
  <2>1. CASE Answer(o, "failed")
    <3>1. tx[o][method[o]].state = "none"
      BY <2>0, MethodNames DEF CallInv
    <3> QED
      BY <2>0, <2>1, <3>1, AnswerSound DEF Truthful
  <2>2. CASE ~Answer(o, "failed")
    <3>0. PICK w : w = Whither(o)
      OBVIOUS
    <3>1. /\ Goto(o, "send") /\ target' = [target EXCEPT ![o] = w]
          /\ w \in {"omnibus", "outside"}
      BY <1>2, <2>2, <3>0 DEF Resolve, Whither
    <3>2. method[o] = "outbound" => w = "outside"
      BY <3>0, <3>1 DEF Whither
    <3>3. ASSUME method[o] = "release" PROVE Paid(o, w)'
      <4>1. ASSUME w = "outside", order[o].to \in Investors PROVE order[o].asset \in troubled'
        <5>1. order[o].to \notin mapped
          BY <3>0, <3>3, <4>1 DEF Whither
        <5> QED BY <1>2, <3>0, <4>1, <5>1 DEF Resolve
      <4> QED
        BY <2>0, <3>1, <4>1 DEF Paid, config
    <3> QED
      BY <2>0, <3>1, <3>2, <3>3, GotoSound
  <2> QED BY <2>1, <2>2
<1>3. ASSUME NEW o \in Orders, WaitReturns(o) PROVE Sound
  <2>0. pc[o] = "wait" /\ method[o] # "inbound" /\ UNCHANGED <<config, chain, troubled>>
    BY <1>3 DEF WaitReturns, SendInv
  <2>1. CASE tx[o][method[o]].state = "landed" /\ Answer(o, "success")
    BY <2>0, <2>1, AnswerSound DEF Truthful, Moved
  <2>2. CASE tx[o][method[o]].state \in {"short", "refused"} /\ Answer(o, "failed")
    BY <2>0, <2>2, AnswerSound DEF Truthful
  <2> QED BY <1>3, <2>1, <2>2 DEF WaitReturns
<1>4. ASSUME NEW o \in Orders, WaitThrows(o) PROVE Sound
  <2>1. /\ pc[o] = "wait" /\ UNCHANGED <<config, chain>> /\ Answer(o, "failed")
        /\ troubled \subseteq troubled' /\ troubled' \subseteq troubled \cup {order[o].asset}
        /\ tx[o][method[o]].state \in {"pending", "landed"} => order[o].asset \in troubled'
    BY <1>4 DEF WaitThrows
  <2> QED
    BY <2>1, AnswerSound DEF Truthful
<1>5. ASSUME NEW o \in Orders, pc[o] \notin {"idle", "wait"}, Answer(o, "failed"), UNCHANGED <<config, chain, troubled>>
      PROVE  Sound
  <2>1. tx[o][method[o]].state = "none"
    BY <1>5, MethodNames DEF CallInv, SendInv
  <2> QED
    BY <1>5, <2>1, AnswerSound DEF Truthful
<1>6. ASSUME NEW o \in Orders, Throws(o) PROVE Sound
  BY <1>5, <1>6 DEF Throws
<1>7. ASSUME NEW o \in Orders, AwaitReceipt(o) \/ AwaitFinal(o) PROVE Sound
  <2>0. pc[o] \in {"receipt", "final"} /\ UNCHANGED <<config, chain, troubled>>
    BY <1>7 DEF AwaitReceipt, AwaitFinal
  <2>1. CASE Answer(o, "failed")
    BY <1>5, <2>0, <2>1
  <2>2. CASE ~Answer(o, "failed")
    <3>1. PICK s \in {"final", "asset"} : Goto(o, s)
      BY <1>7, <2>2 DEF AwaitReceipt, AwaitFinal
    <3>2. target' = [target EXCEPT ![o] = target[o]]
      BY <1>7, <2>2 DEF AwaitReceipt, AwaitFinal, TypeOK
    <3>3. incoming[order[o].transfer] # "sent" /\ InitTransfers[order[o].transfer].ok
      <4>1. CASE AwaitReceipt(o)
        BY <2>2, <4>1 DEF AwaitReceipt
      <4>2. CASE AwaitFinal(o)
        <5>1. method[o] = "inbound" /\ pc[o] = "final"
          BY <4>2 DEF AwaitFinal, CallInv
        <5> QED BY <5>1 DEF ArrivalInv
      <4> QED BY <1>7, <4>1, <4>2
    <3>4. method[o] = "inbound"
      BY <2>0 DEF CallInv
    <3> QED
      BY <2>0, <3>1, <3>2, <3>3, <3>4, GotoSound
  <2> QED BY <2>1, <2>2
<1>8. ASSUME NEW o \in Orders, Verify(o) PROVE Sound
  <2>0. pc[o] = "asset" /\ method[o] = "inbound" /\ UNCHANGED <<config, chain, troubled>>
    BY <1>8 DEF Verify
  <2>1. CASE Verified(o)
    BY <1>8, <2>0, <2>1, AnswerSound DEF Verify, Truthful
  <2>2. CASE ~Verified(o)
    BY <1>5, <1>8, <2>0, <2>2 DEF Verify
  <2> QED BY <2>1, <2>2
<1>9. ASSUME NEW t \in Transfers, Confirm(t) PROVE Sound
  <2>1. /\ UNCHANGED <<order, shared, call, answer, locked, tx, troubled>>
        /\ \A u \in Transfers : incoming[u] # "sent" => incoming'[u] # "sent"
    BY <1>9 DEF Confirm, config, ledger, TypeOK
  <2>2. InitTransfers[t].asset \in Assets
    BY WorldAssumption DEF Transfer
  <2> QED
    BY <1>9, <2>1, <2>2, OutsideControl, ConfirmMoves DEF Sound
<1>10. ASSUME NEW t \in Transfers, Finalize(t) PROVE Sound
  <2>1. /\ UNCHANGED <<order, shared, call, answer, ledger, tx, troubled, balance>>
        /\ \A u \in Transfers : incoming'[u] = "sent" <=> incoming[u] = "sent"
    BY <1>10 DEF Finalize, config, TypeOK
  <2>2. Calm
    <3> SUFFICES ASSUME NEW b \in Assets \ troubled PROVE Same(b) /\ Books(b)'
      BY <2>1 DEF Calm
    <3>1. Uncredited(b)' = Uncredited(b)
      BY <2>1 DEF Uncredited, Claimed
    <3>2. Arrived(b)' = Arrived(b)
      BY <3>1 DEF Arrived, Tokens
    <3>3. /\ \A w : In(w, b)' = In(w, b)
          /\ Kept(b)' = Kept(b)
      BY <2>1 DEF In, Kept, Where, Moved, ledger
    <3> QED
      BY <2>1, <3>2, <3>3, SameBooks DEF BooksInv, Front, ledger
  <2> QED
    BY <2>1, <2>2, OutsideControl DEF Sound, ledger
<1>11. ASSUME NEW a \in Assets, CreateAsset(a) PROVE Sound
  BY <1>11, IdleSound DEF CreateAsset, config, chain
<1>12. ASSUME NEW f \in FinIds, Remap(f) PROVE Sound
  BY <1>12, IdleSound DEF Remap, config, chain
<1>13. CASE UNCHANGED vars
  BY <1>13, IdleSound DEF vars, config, chain
<1> QED
  BY <1>1, <1>2, <1>3, <1>4, <1>6, <1>7, <1>8, <1>9, <1>10, <1>11, <1>12, <1>13,
     SendSound, RequestSound, MinedSound DEF Next, CallStep, Mine

(***************************************************************************)
(* The invariant, and that nothing falls short                             *)
(***************************************************************************)
LEMMA InvInit == Init => Inv
<1> SUFFICES ASSUME Init PROVE Inv
  OBVIOUS
<1> USE MethodNames
<1>1. order \in InitOrders /\ TypeInv
  BY InitTyped DEF Init, TypeInv, SendInv
<1>2. \A o \in Orders, m \in Methods : answer[o][m] = "none" /\ tx[o][m] = NoTx
  BY DEF Init
<1>3. \A o \in Orders : pc[o] = "idle" /\ method[o] = "none" /\ target[o] = "none"
  BY DEF Init
<1>4. CallInv /\ AnswerInv /\ ToInv /\ ArrivalInv /\ NothingFallsShort
  BY <1>2, <1>3 DEF CallInv, AnswerInv, ToInv, ArrivalInv, Claims, NothingFallsShort, NoTx
<1>5. LockInv
  <2>1. locked = {} /\ \A o \in Orders : order[o].kind # "none"
    BY <1>1, OrderKinds DEF Init
  <2> QED BY <1>2, <1>3, <2>1 DEF LockInv
<1>6. ASSUME NEW a \in Assets PROVE Books(a)
  <2>1. (\A w : In(w, a) = {}) /\ Kept(a) = {} /\ Arrived(a) = {}
    BY <1>2 DEF Init, In, Kept, Arrived, Uncredited
  <2>2. balance["omnibus"][a] = avail[a] /\ balance["escrow"][a] = 0 /\ avail[a] \in Nat
    BY <1>1 DEF Init, TypeInv, TypeOK
  <2>3. Cardinality({}) = 0 /\ IsFiniteSet({})
    BY FS_EmptySet
  <2>4. Front(a) = avail[a]
    BY <2>1, <2>2, <2>3 DEF Front
  <2> QED
    BY <2>1, <2>2, <2>3, <2>4 DEF Books
<1> QED
  BY <1>1, <1>4, <1>5, <1>6 DEF Inv, BooksInv

LEMMA InvStep ==
  ASSUME Inv, [Next]_vars
  PROVE  Inv'
<1>1. Sound /\ TypeInv'
  BY StepSound, TypeStep DEF Inv
<1>2. troubled \subseteq troubled'
  BY <1>1 DEF Sound, Calm, Effect
<1>3. BooksInv'
  <2>1. CASE Calm
    BY <2>1 DEF Calm, BooksInv
  <2>2. ASSUME NEW a \in Assets, Effect(a) PROVE BooksInv'
    BY <2>2 DEF Effect, BooksInv
  <2> QED BY <1>1, <2>1, <2>2 DEF Sound
<1>4. NothingFallsShort'
  BY <1>1, <1>2 DEF Inv, Sound, NothingFallsShort
<1> QED
  BY <1>1, <1>3, <1>4 DEF Inv, Sound, Control

(* As long as no answer about an asset was lost and no unmapped investor of it
   paid outside, the wallet an operation pays from has its token, whatever the
   orders, the arrivals and the remappings: no transaction of the delegate
   falls short. *)
THEOREM NeverShort == Spec => []NothingFallsShort
<1>1. Inv => NothingFallsShort
  BY DEF Inv
<1> QED
  BY <1>1, InvInit, InvStep, PTL DEF Spec

(***************************************************************************)
(* The token pool                                                          *)
(***************************************************************************)
LEMMA DisjointUnion ==
  ASSUME NEW S, NEW T, IsFiniteSet(S), IsFiniteSet(T), S \cap T = {}
  PROVE  IsFiniteSet(S \cup T) /\ Cardinality(S \cup T) = Cardinality(S) + Cardinality(T)
<1>1. IsFiniteSet(S \cup T) /\ Cardinality(S \cup T) = Cardinality(S) + Cardinality(T) - Cardinality(S \cap T)
  BY FS_Union
<1>2. Cardinality(S \cap T) = 0
  BY FS_EmptySet
<1>3. Cardinality(S) \in Nat /\ Cardinality(T) \in Nat
  BY FS_CardinalityType
<1> QED
  BY <1>1, <1>2, <1>3

(* A token that is gone and not answered for is that of one locked order. *)
LEMMA Gone ==
  ASSUME Inv, NEW a \in Assets \ troubled
  PROVE  /\ IsFiniteSet(Unseen(a))
         /\ Cardinality(Unseen(a)) = Cardinality(In("outside", a))
<1> USE MethodNames DEF Inv, TypeInv
<1> DEFINE f == [s \in Unseen(a) |-> s[1]]
           T == In("outside", a)
<1>0. Settlements = {"release", "rollback"} /\ locked \subseteq Orders
  BY DEF Settlements, TypeOK
<1>1. ASSUME NEW o \in Orders, NEW m \in Methods, <<o, m>> \in Unseen(a)
      PROVE  method[o] = m /\ o \in T
  <2>1. /\ order[o].asset = a /\ Moved(o, m) /\ tx[o][m].to = "outside" /\ answer[o][m] \in {"none", "failed"}
    BY <1>1 DEF Unseen, Moved, TypeOK
  <2>2. answer[o][m] = "none" /\ method[o] = m
    BY <2>1 DEF AnswerInv, Moved, CallInv
  <2>3. m \in {"outbound", "release"}
    <3>1. m \in {"outbound", "hold", "inbound", "release", "rollback"}
      BY DEF Methods, Settlements
    <3> QED
      BY <2>1, <3>1 DEF ToInv, EscrowWallet, CallInv, Moved
  <2>4. m = "release" => order[o].kind = "hold" /\ answer[o]["hold"] = "success" /\ ~Settled(o)
    BY <1>0, <2>2, OrderKinds DEF CallInv
  <2>5. o \in locked /\ Where(o) = "outside"
    BY <2>1, <2>2, <2>3, <2>4, Placed
  <2> QED BY <2>1, <2>2, <2>5 DEF In
<1>2. ASSUME NEW o \in T PROVE \E m \in Methods : <<o, m>> \in Unseen(a)
  <2>1. o \in locked /\ o \in Orders /\ order[o].asset = a /\ Where(o) = "outside"
    BY <1>0, <1>2 DEF In
  <2>2. CASE order[o].kind \in {"outbound", "hold"} /\ method[o] = order[o].kind
    <3>1. Moved(o, method[o]) /\ method[o] = "outbound"
      BY <2>1, <2>2, Placed DEF EscrowWallet
    <3> QED
      BY <2>1, <3>1 DEF Unseen, Moved, ToInv, CallInv
  <2>3. CASE order[o].kind = "hold" /\ answer[o]["hold"] = "success" /\ ~Settled(o)
    <3>1. method[o] = "release" /\ Moved(o, "release") /\ tx[o]["release"].to = "outside"
      BY <2>1, <2>3, Placed DEF EscrowWallet
    <3> QED
      BY <2>1, <3>1 DEF Unseen, Moved, CallInv
  <2> QED BY <2>1, <2>2, <2>3 DEF LockInv
<1>3. f \in [Unseen(a) -> T]
  <2>1. ASSUME NEW s \in Unseen(a) PROVE s[1] \in T
    <3>1. s = <<s[1], s[2]>> /\ s[1] \in Orders /\ s[2] \in Methods
      BY DEF Unseen
    <3> QED BY <1>1, <3>1
  <2> QED BY <2>1
<1>4. \A r, s \in Unseen(a) : f[r] = f[s] => r = s
  <2> SUFFICES ASSUME NEW r \in Unseen(a), NEW s \in Unseen(a), r[1] = s[1] PROVE r = s
    OBVIOUS
  <2>1. /\ r = <<r[1], r[2]>> /\ r[1] \in Orders /\ r[2] \in Methods
        /\ s = <<s[1], s[2]>> /\ s[1] \in Orders /\ s[2] \in Methods
    BY DEF Unseen
  <2>2. r[2] = method[r[1]] /\ s[2] = method[s[1]]
    BY <1>1, <2>1
  <2> QED BY <2>1, <2>2
<1>5. \A o \in T : \E s \in Unseen(a) : f[s] = o
  <2> SUFFICES ASSUME NEW o \in T PROVE \E s \in Unseen(a) : f[s] = o
    OBVIOUS
  <2>1. PICK m \in Methods : <<o, m>> \in Unseen(a)
    BY <1>2
  <2>2. f[<<o, m>>] = <<o, m>>[1]
    BY <2>1
  <2>3. <<o, m>>[1] = o
    OBVIOUS
  <2> HIDE DEF f
  <2> QED BY <2>1, <2>2, <2>3
<1>6. IsFiniteSet(T)
  BY <1>0, Finite
<1> HIDE DEF f
<1>7. f \in Injection(Unseen(a), T) /\ f \in Surjection(Unseen(a), T)
  <2>1. IsInjective(f)
    BY <1>3, <1>4 DEF IsInjective
  <2> QED BY <1>3, <1>5, <2>1 DEF Injection, Surjection
<1> QED
  BY <1>6, <1>7, FS_Injection

(* What the ledger promises and the pool has kept, less what is gone already,
   is what the books count; and the wallets have it. *)
LEMMA OwedIsDebt ==
  ASSUME Inv, NEW a \in Assets \ troubled
  PROVE  Owed(a) = Debt(a) /\ Debt(a) \in Nat /\ Holdings(a) \in Nat /\ Debt(a) <= Holdings(a)
<1> USE DEF Inv, TypeInv
<1> DEFINE L == {o \in locked : order[o].asset = a}
           O == In("omnibus", a)
           E == In("escrow", a)
           G == In("outside", a)
<1>0. locked \subseteq Orders /\ a \in Assets /\ Books(a)
  BY DEF TypeOK, BooksInv
<1>1. \A o \in L : Where(o) \in {"omnibus", "escrow", "outside"}
  <2> SUFFICES ASSUME NEW o \in L PROVE Where(o) \in {"omnibus", "escrow", "outside"}
    OBVIOUS
  <2>1. o \in Orders /\ o \in locked /\ order[o].asset \notin troubled
    BY <1>0
  <2>2. "release" \in Methods
    BY MethodNames
  <2>3. CASE order[o].kind \in {"outbound", "hold"} /\ method[o] = order[o].kind
    BY <2>1, <2>3, Placed DEF EscrowWallet
  <2>4. CASE order[o].kind = "hold" /\ answer[o]["hold"] = "success" /\ ~Settled(o)
    <3>1. Moved(o, "release") => tx[o]["release"].to \in {"omnibus", "outside"}
      BY <2>1, <2>2 DEF ToInv, Paid, Moved
    <3> QED
      BY <2>1, <2>4, <3>1, Placed DEF EscrowWallet
  <2> QED BY <2>1, <2>3, <2>4 DEF LockInv
<1>2. L = O \cup E \cup G /\ O \cap E = {} /\ (O \cup E) \cap G = {}
  BY <1>1 DEF In
<1>3. /\ IsFiniteSet(O) /\ IsFiniteSet(E) /\ IsFiniteSet(G)
      /\ Cardinality(O) \in Nat /\ Cardinality(E) \in Nat /\ Cardinality(G) \in Nat
      /\ Cardinality(Kept(a)) \in Nat
  BY <1>0, Finite
<1>4. Cardinality(L) = Cardinality(O) + Cardinality(E) + Cardinality(G)
  <2>1. IsFiniteSet(O \cup E) /\ Cardinality(O \cup E) = Cardinality(O) + Cardinality(E)
    BY <1>2, <1>3, DisjointUnion
  <2>2. Cardinality((O \cup E) \cup G) = Cardinality(O \cup E) + Cardinality(G)
    BY <1>2, <1>3, <2>1, DisjointUnion
  <2> QED BY <1>2, <2>1, <2>2
<1>5. Cardinality(Unseen(a)) = Cardinality(G)
  BY Gone
<1>6. /\ avail[a] \in Nat /\ balance["omnibus"][a] \in Nat /\ balance["escrow"][a] \in Nat
      /\ Cardinality(Arrived(a)) \in Nat
  BY <1>0, FS_CardinalityType DEF TypeOK, Books
<1>7. Owed(a) = avail[a] + Cardinality(L) + Cardinality(Kept(a)) - Cardinality(G)
  BY <1>5 DEF Owed, Promised
<1>8. Debt(a) = avail[a] + Cardinality(O) + Cardinality(Kept(a)) + Cardinality(E)
  BY DEF Debt, Front
<1>9. Holdings(a) = balance["omnibus"][a] + balance["escrow"][a]
  BY DEF Holdings
<1>10. /\ balance["escrow"][a] >= Cardinality(E)
       /\ balance["omnibus"][a] >= avail[a] + Cardinality(O) + Cardinality(Kept(a)) + Cardinality(Arrived(a))
  BY <1>0 DEF Books, Front
<1> HIDE DEF L, O, E, G
<1>11. Owed(a) = Debt(a)
  BY <1>3, <1>4, <1>6, <1>7, <1>8
<1>12. Debt(a) \in Nat /\ Holdings(a) \in Nat
  BY <1>3, <1>6, <1>8, <1>9
<1>13. Debt(a) <= Holdings(a)
  BY <1>3, <1>6, <1>8, <1>9, <1>10
<1> QED BY <1>11, <1>12, <1>13

Pooled == \A a \in Assets \ troubled :
  Owed(a) = Debt(a) /\ Debt(a) \in Nat /\ Holdings(a) \in Nat /\ Debt(a) <= Holdings(a)

OpenBar == Assets \ troubled
HeldBar == [a \in Assets |-> IF a \in troubled THEN 0 ELSE Holdings(a)]
OwedBar == [a \in Assets |-> IF a \in troubled THEN 0 ELSE Owed(a)]

LEMMA PoolInit ==
  ASSUME Inv, Pooled
  PROVE  Pool!Init
<1>1. HeldBar \in [Assets -> Nat] /\ OwedBar \in [Assets -> Nat] /\ \A a \in Assets : OwedBar[a] <= HeldBar[a]
  BY DEF Pooled, HeldBar, OwedBar
<1> QED
  BY <1>1 DEF Pool!Init, HeldBar, OwedBar

(* Every step of the delegate, the ledger and the chain is a step of the pool
   or none. *)
LEMMA PoolStep ==
  ASSUME Pooled, Pooled', Sound
  PROVE  [Pool!Next]_<<OpenBar, HeldBar, OwedBar>>
<1>1. /\ \A a \in Assets : /\ HeldBar[a] = IF a \in troubled THEN 0 ELSE Holdings(a)
                           /\ OwedBar[a] = IF a \in troubled THEN 0 ELSE Debt(a)
                           /\ HeldBar'[a] = IF a \in troubled' THEN 0 ELSE Holdings(a)'
                           /\ OwedBar'[a] = IF a \in troubled' THEN 0 ELSE Debt(a)'
      /\ HeldBar = [a \in Assets |-> HeldBar[a]] /\ HeldBar' = [a \in Assets |-> HeldBar'[a]]
      /\ OwedBar = [a \in Assets |-> OwedBar[a]] /\ OwedBar' = [a \in Assets |-> OwedBar'[a]]
  BY DEF HeldBar, OwedBar, Pooled
<1>2. CASE Calm
  <2>1. \A a \in Assets : HeldBar'[a] = HeldBar[a] /\ OwedBar'[a] = OwedBar[a]
    BY <1>1, <1>2 DEF Calm, Same
  <2>2. HeldBar' = HeldBar /\ OwedBar' = OwedBar /\ OpenBar' = OpenBar
    BY <1>1, <1>2, <2>1 DEF Calm, OpenBar
  <2> QED BY <2>2
<1>3. ASSUME NEW a \in Assets, Effect(a)
      PROVE  [Pool!Next]_<<OpenBar, HeldBar, OwedBar>>
  <2>1. \A b \in Assets \ {a} : HeldBar'[b] = HeldBar[b] /\ OwedBar'[b] = OwedBar[b]
    BY <1>1, <1>3 DEF Effect, Same
  <2>2. CASE a \in troubled
    <3>1. \A b \in Assets : HeldBar'[b] = HeldBar[b] /\ OwedBar'[b] = OwedBar[b]
      BY <1>1, <1>3, <2>1, <2>2 DEF Effect
    <3>2. HeldBar' = HeldBar /\ OwedBar' = OwedBar /\ OpenBar' = OpenBar
      BY <1>1, <1>3, <2>2, <3>1 DEF Effect, OpenBar
    <3> QED BY <3>2
  <2>3. CASE a \notin troubled /\ a \in troubled'
    <3>1. OpenBar' = OpenBar \ {a} /\ a \in OpenBar
      BY <1>3, <2>3 DEF Effect, OpenBar
    <3>2. HeldBar' = [HeldBar EXCEPT ![a] = 0] /\ OwedBar' = [OwedBar EXCEPT ![a] = 0]
      BY <1>1, <2>1, <2>3
    <3>3. Pool!Close(a)
      BY <3>1, <3>2 DEF Pool!Close, OpenBar, HeldBar, OwedBar
    <3> QED
      BY <3>1, <3>3 DEF Pool!Next, OpenBar
  <2>4. CASE a \notin troubled'
    <3>0. a \notin troubled /\ OpenBar' = OpenBar /\ a \in OpenBar
      BY <1>3, <2>4 DEF Effect, OpenBar
    <3>1. /\ HeldBar[a] = Holdings(a) /\ HeldBar'[a] = Holdings(a)' /\ OwedBar[a] = Debt(a) /\ OwedBar'[a] = Debt(a)'
          /\ HeldBar[a] \in Nat /\ HeldBar'[a] \in Nat /\ OwedBar[a] \in Nat /\ OwedBar'[a] \in Nat
      BY <1>1, <2>4, <3>0 DEF Pooled
    <3>2. HeldBar' = [HeldBar EXCEPT ![a] = HeldBar'[a]] /\ OwedBar' = [OwedBar EXCEPT ![a] = OwedBar'[a]]
      BY <1>1, <2>1
    <3>3. Move(a)
      BY <1>3, <2>4 DEF Effect
    <3>4. CASE Same(a)
      <4>1. HeldBar' = HeldBar /\ OwedBar' = OwedBar
        BY <1>1, <3>1, <3>2, <3>4 DEF Same
      <4> QED BY <3>0, <4>1
    <3>5. CASE Holdings(a)' > Holdings(a) /\ Debt(a)' = Debt(a)
      <4>1. OwedBar' = OwedBar
        BY <1>1, <3>1, <3>2, <3>5
      <4>2. HeldBar'[a] > HeldBar[a]
        BY <3>1, <3>5
      <4>3. Pool!Arrive(a)
        BY <3>0, <3>1, <3>2, <4>1, <4>2 DEF Pool!Arrive, OpenBar, HeldBar, OwedBar
      <4> QED BY <3>0, <4>3 DEF Pool!Next, OpenBar
    <3>6. CASE Holdings(a)' = Holdings(a) /\ Debt(a)' > Debt(a) /\ Debt(a)' <= Holdings(a)'
      <4>1. HeldBar' = HeldBar
        BY <1>1, <3>1, <3>2, <3>6
      <4>2. OwedBar[a] < OwedBar'[a] /\ OwedBar'[a] <= HeldBar[a]
        BY <3>1, <3>6
      <4>3. Pool!Credit(a)
        BY <3>0, <3>1, <3>2, <4>1, <4>2 DEF Pool!Credit, OpenBar, HeldBar, OwedBar
      <4> QED BY <3>0, <4>3 DEF Pool!Next, OpenBar
    <3>7. CASE Debt(a) > 0 /\ Holdings(a)' = Holdings(a) - 1 /\ Debt(a)' = Debt(a) - 1
      <4>1. /\ HeldBar' = [HeldBar EXCEPT ![a] = HeldBar[a] - 1] /\ OwedBar' = [OwedBar EXCEPT ![a] = OwedBar[a] - 1]
            /\ OwedBar[a] > 0
        BY <3>1, <3>2, <3>7
      <4>2. Pool!Pay(a)
        BY <3>0, <4>1 DEF Pool!Pay, OpenBar, HeldBar, OwedBar
      <4> QED BY <3>0, <4>2 DEF Pool!Next, OpenBar
    <3> QED BY <3>3, <3>4, <3>5, <3>6, <3>7 DEF Move
  <2> QED BY <2>2, <2>3, <2>4
<1> QED
  BY <1>2, <1>3 DEF Sound

(* Omnibus and escrow wallet implement the token pool: of every asset whose
   books are in order they owe at most what they hold, a debt arises only for
   tokens that have arrived and were credited to nobody, and a token leaves only
   for a debt. *)
THEOREM PoolKept == Spec => PoolImplemented
<1>1. Inv => Pooled
  BY OwedIsDebt DEF Pooled
<1>2. Inv /\ Pooled => Pool!Init
  BY PoolInit
<1>3. Inv /\ [Next]_vars /\ Pooled /\ Pooled' => [Pool!Next]_<<OpenBar, HeldBar, OwedBar>>
  BY StepSound, PoolStep
<1>4. [Pool!Next]_<<OpenBar, HeldBar, OwedBar>> <=> [Pool!Next]_<<Assets \ troubled,
          [a \in Assets |-> IF a \in troubled THEN 0 ELSE Holdings(a)],
          [a \in Assets |-> IF a \in troubled THEN 0 ELSE Owed(a)]>>
  BY DEF OpenBar, HeldBar, OwedBar
<1> QED
  BY <1>1, <1>2, <1>3, <1>4, InvInit, InvStep, PTL DEF Spec, PoolImplemented, Pool!Spec
=============================================================================
