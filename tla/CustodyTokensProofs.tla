------------------------ MODULE CustodyTokensProofs ------------------------
(***************************************************************************)
(* Safety of CustodyTokens for any number of orders, investors and assets. *)
(*                                                                         *)
(* CallInv ties an order's receipts to its transactions: a transaction     *)
(* without a receipt belongs to the call that is running, and a success is *)
(* one that landed.  EscrowAccounted is the balance sheet of the escrow,   *)
(* which every landing and receipt keeps; LossInv says which failed        *)
(* receipts may hide a payment.  Together they make every step one of a    *)
(* token pool or none.                                                     *)
(***************************************************************************)
EXTENDS CustodyTokens, FiniteSetTheorems, TLAPS

(***************************************************************************)
(* Types                                                                   *)
(***************************************************************************)
LEMMA InitTyped == Init => TypeOK
  BY NamesAssumption, OrdersAssumption, WorldAssumption, BoundsAssumption
  DEF Init, TypeOK, NoTx, TxType, Accounts, Methods, Kinds

(* A receipt leaves the call's shape as it was before it began. *)
LEMMA AnswerTyped ==
  ASSUME TypeOK, NEW o \in Orders, pc[o] # "idle", NEW a \in {"success", "failed"}, Answer(o, a),
         UNCHANGED <<config, chain, stores>>, lost' \subseteq Assets, faults' \in 0..MaxFaults
  PROVE  TypeOK'
<1>1. method[o] \in Methods
  BY DEF TypeOK
<1>2. answer' \in [Orders -> [Methods -> {"none", "success", "failed"}]]
  BY <1>1 DEF Answer, TypeOK
<1>3. /\ pc' \in [Orders -> {"idle", "asset", "source", "target", "send", "wait"}]
      /\ method' \in [Orders -> Methods \cup {"none"}]
      /\ signer' \in [Orders -> Wallets \cup {None}]
      /\ target' \in [Orders -> Wallets \cup {None}]
  BY DEF Answer, TypeOK
<1>4. \A p \in Orders :
        /\ pc'[p] = "idle" <=> method'[p] = "none"
        /\ pc'[p] \in {"send", "wait"} /\ method'[p] \in NeedsTarget => target'[p] # None
  BY DEF Answer, TypeOK
<1> QED
  BY <1>2, <1>3, <1>4 DEF TypeOK, config, chain, stores

LEMMA ChainTyped ==
  ASSUME TypeOK, NEW o \in Orders, NEW m \in Methods,
         NEW s \in {"landed", "short", "refused"}, tx' = [tx EXCEPT ![o][m].state = s],
         UNCHANGED <<config, call, answer, stores, lost>>, balance' \in [Accounts -> [Assets -> Nat]],
         reserved' \subseteq Orders, faults' \in 0..MaxFaults
  PROVE  TypeOK'
<1>1. tx' \in [Orders -> [Methods -> TxType]]
  <2>1. tx \in [Orders -> [Methods -> TxType]]
    BY DEF TypeOK
  <2>2. [tx[o][m] EXCEPT !.state = s] \in TxType
    BY <2>1 DEF TxType
  <2>3. [tx[o] EXCEPT ![m] = [tx[o][m] EXCEPT !.state = s]] \in [Methods -> TxType]
    BY <2>1, <2>2
  <2> QED BY <2>1, <2>3
<1> QED
  BY <1>1 DEF TypeOK, config, call, stores

LEMMA AfterType ==
  ASSUME NEW m \in Methods, NEW step
  PROVE  /\ After(m, step) \in {"source", "target", "send"}
         /\ m \in NeedsTarget /\ step # "target" => After(m, step) # "send"
  BY DEF After

LEMMA LandsTyped ==
  ASSUME TypeOK, NEW o \in Orders, NEW m \in Methods, Lands(o, m)
  PROVE  balance' \in [Accounts -> [Assets -> Nat]] /\ reserved' \subseteq Orders
<1>1. order[o].asset \in Assets
  BY DEF TypeOK, Order
<1>2. ASSUME NEW w \in Accounts, NEW a \in Assets
      PROVE  balance[w][a] - (IF w = Payer(o, m) THEN 1 ELSE 0) + (IF w = Taker(o, m) THEN 1 ELSE 0) \in Int
  BY DEF TypeOK
<1>3. ASSUME NEW w \in Accounts
      PROVE  balance[w][order[o].asset] - (IF w = Payer(o, m) THEN 1 ELSE 0) + (IF w = Taker(o, m) THEN 1 ELSE 0) \in Nat
  <2>1. balance[w][order[o].asset] \in Nat
    BY <1>1 DEF TypeOK
  <2>2. w = Payer(o, m) => balance[w][order[o].asset] > 0
    BY NamesAssumption DEF Lands, Possible, Accounts
  <2> QED BY <2>1, <2>2
<1>4. balance' \in [Accounts -> [Assets -> Nat]]
  BY <1>1, <1>3 DEF Lands, TypeOK
<1>5. reserved' \subseteq Orders
  BY DEF Lands, TypeOK
<1> QED BY <1>4, <1>5

THEOREM Typed == Spec => []TypeOK
<1>1. TypeOK /\ [Next]_vars => TypeOK'
  <2> SUFFICES ASSUME TypeOK, [Next]_vars PROVE TypeOK'
    OBVIOUS
  <2>1. ASSUME NEW o \in Orders, NEW m \in Methods, Request(o, m) PROVE TypeOK'
    <3>1. /\ pc' \in [Orders -> {"idle", "asset", "source", "target", "send", "wait"}]
          /\ method' \in [Orders -> Methods \cup {"none"}]
          /\ \A p \in Orders :
               /\ pc'[p] = "idle" <=> method'[p] = "none"
               /\ pc'[p] \in {"send", "wait"} /\ method'[p] \in NeedsTarget => target[p] # None
      BY <2>1 DEF Request, TypeOK, Methods, Kinds, Settlements
    <3> QED
      BY <2>1, <3>1 DEF Request, TypeOK, config, chain, stores
  <2>2. ASSUME NEW o \in Orders, NEW m \in Methods, Lands(o, m) PROVE TypeOK'
    BY <2>2, LandsTyped, ChainTyped DEF Lands, TypeOK
  <2>3. ASSUME NEW o \in Orders, NEW m \in Methods, FallsShort(o, m) PROVE TypeOK'
    BY <2>3, ChainTyped DEF FallsShort, TypeOK
  <2>4. ASSUME NEW o \in Orders, NEW m \in Methods, IsRefused(o, m) PROVE TypeOK'
    <3>1. faults' \in 0..MaxFaults
      BY <2>4, BoundsAssumption DEF IsRefused, Fault, TypeOK
    <3>2. balance' \in [Accounts -> [Assets -> Nat]] /\ reserved' \subseteq Orders
      BY <2>4 DEF IsRefused, TypeOK
    <3> QED
      BY <2>4, <3>1, <3>2, ChainTyped DEF IsRefused
  <2>5. ASSUME NEW o \in Orders, FindAsset(o) PROVE TypeOK'
    <3>1. CASE Answer(o, "failed")
      BY <2>5, <3>1, AnswerTyped DEF FindAsset, TypeOK
    <3>2. CASE pc' = [pc EXCEPT ![o] = After(method[o], "asset")] /\ UNCHANGED <<method, signer, target, answer>>
      <4>1. method[o] \in Methods
        BY <2>5 DEF FindAsset, TypeOK
      <4>2. /\ After(method[o], "asset") \in {"source", "target", "send"}
            /\ method[o] \in NeedsTarget => After(method[o], "asset") # "send"
        BY <4>1, AfterType
      <4> QED
        BY <2>5, <3>2, <4>1, <4>2 DEF FindAsset, TypeOK, config, chain, stores, Methods, Kinds, Settlements
    <3> QED BY <2>5, <3>1, <3>2 DEF FindAsset
  <2>6. ASSUME NEW o \in Orders, ResolveSource(o) PROVE TypeOK'
    <3>1. CASE Answer(o, "failed")
      BY <2>6, <3>1, AnswerTyped DEF ResolveSource, TypeOK
    <3>2. ASSUME NEW w \in Custodied, pc' = [pc EXCEPT ![o] = After(method[o], "source")],
                 signer' = [signer EXCEPT ![o] = w], UNCHANGED <<method, target, answer>>
          PROVE  TypeOK'
      <4>1. method[o] \in Methods
        BY <2>6 DEF ResolveSource, TypeOK
      <4>2. /\ After(method[o], "source") \in {"source", "target", "send"}
            /\ method[o] \in NeedsTarget => After(method[o], "source") # "send"
        BY <4>1, AfterType
      <4> QED
        BY <2>6, <3>2, <4>1, <4>2, WorldAssumption
        DEF ResolveSource, TypeOK, config, chain, stores, Methods, Kinds, Settlements
    <3> QED BY <2>6, <3>1, <3>2 DEF ResolveSource
  <2>7. ASSUME NEW o \in Orders, ResolveTarget(o) PROVE TypeOK'
    <3>1. CASE Answer(o, "failed")
      BY <2>7, <3>1, AnswerTyped DEF ResolveTarget, TypeOK
    <3>2. ASSUME NEW w, w = Address(o, method[o]), w # None, pc' = [pc EXCEPT ![o] = "send"],
                 target' = [target EXCEPT ![o] = w], UNCHANGED <<method, signer, answer>>
          PROVE  TypeOK'
      <4>1. w \in Wallets
        BY <3>2 DEF Address, Payee, Given, TypeOK, Order
      <4> QED
        BY <2>7, <3>2, <4>1 DEF ResolveTarget, TypeOK, config, chain, stores
    <3> QED BY <2>7, <3>1, <3>2 DEF ResolveTarget
  <2>8. ASSUME NEW o \in Orders, Send(o) PROVE TypeOK'
    <3>1. method[o] \in Methods
      BY <2>8 DEF Send, TypeOK
    <3>2. [state |-> "pending", by |-> By(o, method[o]), to |-> target[o]] \in TxType
      BY DEF TxType, By, TypeOK, Accounts
    <3>3. tx' \in [Orders -> [Methods -> TxType]]
      BY <2>8, <3>1, <3>2 DEF Send, TypeOK
    <3> QED
      BY <2>8, <3>3 DEF Send, TypeOK, config, stores
  <2>9. ASSUME NEW o \in Orders, WaitReturns(o) PROVE TypeOK'
    BY <2>9, AnswerTyped DEF WaitReturns, TypeOK
  <2>10. ASSUME NEW o \in Orders, Throws(o) PROVE TypeOK'
    <3>1. faults' \in 0..MaxFaults
      BY <2>10, BoundsAssumption DEF Throws, Fault, TypeOK
    <3> QED
      BY <2>10, <3>1, AnswerTyped DEF Throws, TypeOK
  <2>11. ASSUME NEW o \in Orders, WaitThrows(o) PROVE TypeOK'
    <3>1. faults' \in 0..MaxFaults
      BY <2>11, BoundsAssumption DEF WaitThrows, Fault, TypeOK
    <3>2. lost' \subseteq Assets
      BY <2>11 DEF WaitThrows, TypeOK, Order
    <3> QED
      BY <2>11, <3>1, <3>2, AnswerTyped DEF WaitThrows
  <2>12. ASSUME NEW a \in Assets, NEW deploy \in BOOLEAN, CreateAsset(a, deploy) PROVE TypeOK'
    BY <2>12 DEF CreateAsset, TypeOK, config, call, chain
  <2>13. ASSUME NEW f \in FinIds, NEW w \in Wallets \cup {None}, Rebind(f, w) PROVE TypeOK'
    BY <2>13, BoundsAssumption DEF Rebind, Change, TypeOK, config, call, chain
  <2>14. CASE UNCHANGED vars
    BY <2>14 DEF vars, TypeOK, config, call, chain, stores
  <2> QED
    BY <2>1, <2>2, <2>3, <2>4, <2>5, <2>6, <2>7, <2>8, <2>9, <2>10, <2>11, <2>12, <2>13, <2>14
    DEF Next, CallStep, Mine
<1> QED
  BY <1>1, InitTyped, PTL DEF Spec

-----------------------------------------------------------------------------
(***************************************************************************)
(* Calls, receipts and transactions                                        *)
(***************************************************************************)
State(o, m) == tx[o][m].state
Allowed(o, m) ==
  \/ m = order[o].kind
  \/ m \in Settlements /\ order[o].kind = "hold" /\ answer[o]["hold"] = "success"

(* What a running call, a receipt and a transaction say of each other. *)
Answered(o) == \A m \in Methods :
  /\ method[o] = m => answer[o][m] = "none"
  /\ State(o, m) # "none" => answer[o][m] # "none" \/ (method[o] = m /\ pc[o] = "wait")
  /\ answer[o][m] = "success" => State(o, m) = "landed"
Ordered(o) ==
  /\ \A m \in Methods : method[o] = m \/ answer[o][m] # "none" => Allowed(o, m)
  /\ method[o] \in Settlements => ~Settled(o)
Signed(o) == \A m \in Methods : State(o, m) # "none" =>
  /\ m \in Settlements <=> tx[o][m].by = Escrow
  /\ m \in NeedsTarget => tx[o][m].to # None
CallInv == \A o \in Orders : Answered(o) /\ Ordered(o) /\ Signed(o)

LEMMA MethodNames ==
  /\ "hold" \in Methods /\ "hold" \notin Settlements
  /\ Settlements \subseteq Methods /\ "none" \notin Methods
  BY DEF Methods, Kinds, Settlements

LEMMA CallFrame ==
  ASSUME TypeOK, NEW p \in Orders, Answered(p), Ordered(p), Signed(p), order' = order,
         pc'[p] = pc[p], method'[p] = method[p], answer'[p] = answer[p], tx'[p] = tx[p]
  PROVE  Answered(p)' /\ Ordered(p)' /\ Signed(p)'
  BY DEF Answered, Ordered, Signed, State, Allowed, Settled

(* A call goes on without a receipt and without a transaction. *)
LEMMA GoesOn ==
  ASSUME TypeOK, CallInv, NEW o \in Orders, NEW s, s # "wait", pc[o] # "wait", pc' = [pc EXCEPT ![o] = s],
         UNCHANGED <<config, method, answer, tx>>
  PROVE  CallInv'
<1>1. ASSUME NEW p \in Orders, p # o PROVE Answered(p)' /\ Ordered(p)' /\ Signed(p)'
  BY <1>1, CallFrame DEF CallInv, config, TypeOK
<1>2. Answered(o)' /\ Ordered(o)' /\ Signed(o)'
  BY DEF CallInv, config, TypeOK, Answered, Ordered, Signed, State, Allowed, Settled
<1> QED BY <1>1, <1>2 DEF CallInv

(* A receipt, which for a success is one of a transaction that landed. *)
LEMMA Receipt ==
  ASSUME TypeOK, CallInv, NEW o \in Orders, pc[o] # "idle", NEW a \in {"success", "failed"}, Answer(o, a),
         a = "success" => State(o, method[o]) = "landed", UNCHANGED <<config, tx>>
  PROVE  CallInv'
<1> DEFINE m == method[o]
<1>1. m \in Methods
  BY DEF TypeOK
<1>2. /\ method'[o] = "none"
      /\ answer'[o] = [answer[o] EXCEPT ![m] = a]
      /\ \A p \in Orders : p # o => pc'[p] = pc[p] /\ method'[p] = method[p] /\ answer'[p] = answer[p]
  BY DEF Answer, TypeOK
<1>3. ASSUME NEW p \in Orders, p # o PROVE Answered(p)' /\ Ordered(p)' /\ Signed(p)'
  BY <1>2, <1>3, CallFrame DEF CallInv, config
<1>4. /\ answer'[o][m] = a
      /\ \A n \in Methods : n # m => answer'[o][n] = answer[o][n]
  BY <1>1, <1>2 DEF TypeOK
<1>5. Answered(o)'
  BY <1>1, <1>2, <1>4, MethodNames DEF CallInv, Answered, State
<1>6. answer[o][m] = "none"
  BY <1>1 DEF CallInv, Answered
<1>7. Ordered(o)'
  <2>1. ASSUME NEW n \in Methods, Allowed(o, n) PROVE Allowed(o, n)'
    BY <1>4, <1>6, <2>1, MethodNames DEF Allowed, config
  <2>2. ASSUME NEW n \in Methods, answer'[o][n] # "none" PROVE Allowed(o, n)
    BY <1>4, <2>2 DEF CallInv, Ordered
  <2> QED
    BY <1>2, <2>1, <2>2, MethodNames DEF Ordered
<1>8. Signed(o)'
  BY DEF CallInv, Signed, State
<1> QED
  BY <1>3, <1>5, <1>7, <1>8 DEF CallInv

(* The chain settles a transaction that was pending. *)
LEMMA Mined ==
  ASSUME TypeOK, CallInv, NEW o \in Orders, NEW m \in Methods, State(o, m) = "pending",
         NEW s \in {"landed", "short", "refused"}, tx' = [tx EXCEPT ![o][m].state = s],
         UNCHANGED <<config, call, answer>>
  PROVE  /\ CallInv'
         /\ \A p \in Orders, n \in Methods :
              State(p, n)' = IF p = o /\ n = m THEN s ELSE State(p, n)
<1>1. \A p \in Orders, n \in Methods :
        /\ tx'[p][n].state = IF p = o /\ n = m THEN s ELSE tx[p][n].state
        /\ tx'[p][n].by = tx[p][n].by
        /\ tx'[p][n].to = tx[p][n].to
  BY DEF TypeOK, TxType
<1>2. \A p \in Orders, n \in Methods : State(p, n)' = IF p = o /\ n = m THEN s ELSE State(p, n)
  BY <1>1 DEF State
<1>3. ASSUME NEW p \in Orders PROVE Answered(p)' /\ Ordered(p)' /\ Signed(p)'
  <2>1. Answered(p)'
    BY <1>2 DEF CallInv, Answered, call
  <2>2. Ordered(p)'
    BY DEF CallInv, Ordered, Allowed, Settled, config, call
  <2>3. Signed(p)'
    BY <1>1, <1>2 DEF CallInv, Signed
  <2> QED BY <2>1, <2>2, <2>3
<1> QED
  BY <1>2, <1>3 DEF CallInv

LEMMA SendKeeps ==
  ASSUME TypeOK, CallInv, NEW o \in Orders, Send(o)
  PROVE  /\ CallInv'
         /\ method[o] \in Methods /\ State(o, method[o]) = "none" /\ answer[o][method[o]] = "none"
         /\ \A p \in Orders, n \in Methods :
              State(p, n)' = IF p = o /\ n = method[o] THEN "pending" ELSE State(p, n)
<1> DEFINE m == method[o]
<1>1. m \in Methods /\ State(o, m) = "none" /\ answer[o][m] = "none"
  <2>1. m \in Methods
    BY DEF Send, TypeOK
  <2> QED
    BY <2>1 DEF CallInv, Answered, Send
<1>2. /\ tx'[o][m] = [state |-> "pending", by |-> By(o, m), to |-> target[o]]
      /\ \A n \in Methods : n # m => tx'[o][n] = tx[o][n]
      /\ \A p \in Orders : p # o => tx'[p] = tx[p] /\ pc'[p] = pc[p]
      /\ pc'[o] = "wait"
  BY <1>1 DEF Send, TypeOK
<1>3. \A p \in Orders, n \in Methods : State(p, n)' = IF p = o /\ n = m THEN "pending" ELSE State(p, n)
  BY <1>2 DEF State
<1>4. ASSUME NEW p \in Orders, p # o PROVE Answered(p)' /\ Ordered(p)' /\ Signed(p)'
  BY <1>2, <1>4, CallFrame DEF CallInv, Send, config
<1>5. Answered(o)'
  BY <1>1, <1>2, <1>3 DEF CallInv, Answered, Send
<1>6. Ordered(o)'
  BY DEF CallInv, Ordered, Allowed, Settled, Send, config
<1>7. Signed(o)'
  <2>1. m \in Settlements <=> By(o, m) = Escrow
    BY NamesAssumption DEF By, TypeOK
  <2>2. m \in NeedsTarget => target[o] # None
    BY DEF Send, TypeOK
  <2> QED
    BY <1>1, <1>2, <2>1, <2>2 DEF CallInv, Signed, State
<1> QED
  BY <1>1, <1>3, <1>4, <1>5, <1>6, <1>7 DEF CallInv

LEMMA RequestKeeps ==
  ASSUME TypeOK, CallInv, NEW o \in Orders, NEW m \in Methods, Request(o, m)
  PROVE  CallInv'
<1>1. /\ pc'[o] = "asset" /\ method'[o] = m
      /\ \A p \in Orders : p # o => pc'[p] = pc[p] /\ method'[p] = method[p]
  BY DEF Request, TypeOK
<1>2. ASSUME NEW p \in Orders, p # o PROVE Answered(p)' /\ Ordered(p)' /\ Signed(p)'
  BY <1>1, <1>2, CallFrame DEF CallInv, Request, config, chain
<1>3. method[o] = "none"
  BY DEF Request, TypeOK
<1>4. Answered(o)'
  BY <1>1, <1>3, MethodNames DEF CallInv, Answered, State, Request, Due, chain
<1>5. Ordered(o)'
  BY <1>1, MethodNames DEF CallInv, Ordered, Allowed, Settled, Request, Due, config
<1>6. Signed(o)'
  BY DEF CallInv, Signed, State, Request, chain
<1> QED
  BY <1>2, <1>4, <1>5, <1>6 DEF CallInv

LEMMA CallStepKeeps ==
  ASSUME TypeOK, CallInv, [Next]_vars
  PROVE  CallInv'
<1>1. ASSUME NEW o \in Orders, NEW m \in Methods, Request(o, m) PROVE CallInv'
  BY <1>1, RequestKeeps
<1>2. ASSUME NEW o \in Orders, NEW m \in Methods, Lands(o, m) \/ FallsShort(o, m) \/ IsRefused(o, m) PROVE CallInv'
  BY <1>2, Mined DEF Lands, FallsShort, IsRefused, State
<1>3. ASSUME NEW o \in Orders, FindAsset(o) \/ ResolveSource(o) \/ ResolveTarget(o) PROVE CallInv'
  <2>1. CASE Answer(o, "failed")
    BY <1>3, <2>1, Receipt DEF FindAsset, ResolveSource, ResolveTarget, chain
  <2>2. CASE \E s \in {"source", "target", "send"} : pc' = [pc EXCEPT ![o] = s] /\ UNCHANGED <<method, answer>>
    BY <1>3, <2>2, GoesOn DEF FindAsset, ResolveSource, ResolveTarget, chain
  <2> QED
    BY <1>3, <2>1, <2>2 DEF FindAsset, ResolveSource, ResolveTarget, After
<1>4. ASSUME NEW o \in Orders, Send(o) PROVE CallInv'
  BY <1>4, SendKeeps
<1>5. ASSUME NEW o \in Orders, WaitReturns(o) \/ Throws(o) \/ WaitThrows(o) PROVE CallInv'
  BY <1>5, Receipt DEF WaitReturns, Throws, WaitThrows, State, chain
<1>6. ASSUME UNCHANGED <<order, pc, method, answer, tx>> PROVE CallInv'
  BY <1>6, CallFrame DEF CallInv
<1>7. ASSUME NEW a \in Assets, NEW deploy \in BOOLEAN, CreateAsset(a, deploy) PROVE CallInv'
  BY <1>6, <1>7 DEF CreateAsset, config, call, chain
<1>8. ASSUME NEW f \in FinIds, NEW w \in Wallets \cup {None}, Rebind(f, w) PROVE CallInv'
  BY <1>6, <1>8 DEF Rebind, config, call, chain
<1>9. CASE UNCHANGED vars
  BY <1>6, <1>9 DEF vars, config, call, chain
<1> QED
  BY <1>1, <1>2, <1>3, <1>4, <1>5, <1>7, <1>8, <1>9 DEF Next, CallStep, Mine

-----------------------------------------------------------------------------
(***************************************************************************)
(* The balance sheet of the escrow                                         *)
(***************************************************************************)
Reserved(a) == {o \in reserved : order[o].asset = a}

(* A reservation is made by the hold and ended by a settlement. *)
ReservedInv == \A o \in Orders :
  /\ o \in reserved => Reserving(o) /\ State(o, "hold") = "landed"
  /\ Reserving(o) /\ State(o, "hold") = "landed" /\ o \notin reserved =>
       \E m \in Settlements : State(o, m) = "landed"

LEMMA BooksFinite ==
  ASSUME TypeOK, NEW a
  PROVE  /\ IsFiniteSet(Held(a)) /\ IsFiniteSet(Stray(a)) /\ IsFiniteSet(Unseen(a)) /\ IsFiniteSet(Reserved(a))
         /\ Cardinality(Held(a)) \in Nat /\ Cardinality(Stray(a)) \in Nat
         /\ Cardinality(Unseen(a)) \in Nat /\ Cardinality(Reserved(a)) \in Nat
<1>1. IsFiniteSet(Settlements)
  <2>1. IsFiniteSet({"release"}) /\ IsFiniteSet({"redeemHeld"}) /\ IsFiniteSet({"rollback"})
    BY FS_Singleton
  <2>2. Settlements = ({"release"} \cup {"redeemHeld"}) \cup {"rollback"}
    BY DEF Settlements
  <2> QED
    BY <2>1, <2>2, FS_Union
<1>2. IsFiniteSet(Orders \X Settlements)
  BY <1>1, OrdersAssumption, FS_Product
<1>3. /\ Held(a) \in SUBSET Orders /\ Stray(a) \in SUBSET Orders /\ Reserved(a) \in SUBSET Orders
      /\ Unseen(a) \in SUBSET (Orders \X Settlements)
  BY DEF Held, Stray, Reserved, Unseen, TypeOK
<1>4. IsFiniteSet(Held(a)) /\ IsFiniteSet(Stray(a)) /\ IsFiniteSet(Unseen(a)) /\ IsFiniteSet(Reserved(a))
  BY <1>2, <1>3, OrdersAssumption, FS_Subset
<1> QED
  BY <1>4, FS_CardinalityType

LEMMA BackingType ==
  ASSUME TypeOK, NEW a \in Assets
  PROVE  Backing(a) \in Nat
<1>1. balance[Escrow][a] \in Nat
  BY DEF TypeOK, Accounts
<1>2. Cardinality(Reserved(a)) \in Nat
  BY BooksFinite
<1> QED
  BY <1>1, <1>2 DEF Backing, Reserved

(* Nothing landed and no success was answered. *)
LEMMA SameBooks ==
  ASSUME order' = order, NEW a,
         \A p \in Orders, n \in Methods : State(p, n)' = "landed" <=> State(p, n) = "landed",
         \A p \in Orders, n \in Methods : answer'[p][n] = "success" <=> answer[p][n] = "success"
  PROVE  Held(a)' = Held(a) /\ Stray(a)' = Stray(a) /\ Unseen(a)' = Unseen(a)
<1>1. \A p \in Orders : Settled(p)' <=> Settled(p)
  BY MethodNames DEF Settled
<1>2. Held(a)' = Held(a)
  BY <1>1, MethodNames DEF Held
<1>3. Stray(a)' = Stray(a)
  BY MethodNames DEF Stray, State
<1>4. Unseen(a)' = Unseen(a)
  BY MethodNames DEF Unseen, State
<1> QED BY <1>2, <1>3, <1>4

LEMMA AccountFrame ==
  ASSUME EscrowAccounted, UNCHANGED <<order, balance, reserved>>,
         \A p \in Orders, n \in Methods : State(p, n)' = "landed" <=> State(p, n) = "landed",
         \A p \in Orders, n \in Methods : answer'[p][n] = "success" <=> answer[p][n] = "success"
  PROVE  EscrowAccounted'
<1> SUFFICES ASSUME NEW a \in Assets
             PROVE  (Backing(a) + Cardinality(Unseen(a)) = Cardinality(Held(a)) + Cardinality(Stray(a)))'
  BY DEF EscrowAccounted
<1>1. Held(a)' = Held(a) /\ Stray(a)' = Stray(a) /\ Unseen(a)' = Unseen(a)
  BY SameBooks
<1>2. Backing(a)' = Backing(a)
  BY DEF Backing
<1> QED
  BY <1>1, <1>2 DEF EscrowAccounted

(* A failed receipt changes no book. *)
LEMMA FailureAccounted ==
  ASSUME TypeOK, CallInv, EscrowAccounted, NEW o \in Orders, pc[o] # "idle", Answer(o, "failed"),
         UNCHANGED <<config, chain>>
  PROVE  EscrowAccounted'
<1>1. method[o] \in Methods /\ answer[o][method[o]] = "none"
  BY DEF TypeOK, CallInv, Answered
<1>2. \A p \in Orders, n \in Methods : answer'[p][n] = "success" <=> answer[p][n] = "success"
  BY <1>1 DEF Answer, TypeOK
<1> QED
  BY <1>2, AccountFrame DEF State, config, chain

(* A success strikes the token from the books of the unanswered: a hold's order
   is held from now on, a settlement's no longer. *)
LEMMA SuccessBooks ==
  ASSUME TypeOK, CallInv, NEW o \in Orders, pc[o] # "idle", Answer(o, "success"),
         State(o, method[o]) = "landed", UNCHANGED <<config, chain>>, NEW a
  PROVE  /\ Backing(a)' = Backing(a)
         /\ order[o].asset # a \/ (method[o] # "hold" /\ method[o] \notin Settlements) =>
              Held(a)' = Held(a) /\ Stray(a)' = Stray(a) /\ Unseen(a)' = Unseen(a)
         /\ order[o].asset = a /\ method[o] = "hold" =>
              /\ Cardinality(Held(a)') = Cardinality(Held(a)) + 1
              /\ Cardinality(Stray(a)') = Cardinality(Stray(a)) - 1
              /\ Unseen(a)' = Unseen(a)
         /\ order[o].asset = a /\ method[o] \in Settlements =>
              /\ Cardinality(Held(a)') = Cardinality(Held(a)) - 1
              /\ Cardinality(Unseen(a)') = Cardinality(Unseen(a)) - 1
              /\ Stray(a)' = Stray(a)
<1> DEFINE m == method[o]
<1>1. m \in Methods /\ answer[o][m] = "none" /\ Allowed(o, m) /\ (m \in Settlements => ~Settled(o))
  BY DEF TypeOK, CallInv, Answered, Ordered
<1>2. \A p \in Orders, n \in Methods :
        answer'[p][n] = "success" <=> answer[p][n] = "success" \/ (p = o /\ n = m)
  BY <1>1 DEF Answer, TypeOK
<1>3. \A p \in Orders, n \in Methods : State(p, n)' = State(p, n)
  BY DEF State, chain
<1> HIDE DEF m
<1>4. Backing(a)' = Backing(a)
  BY DEF Backing, config, chain
<1>6. \A p \in Orders : Settled(p)' <=> Settled(p) \/ (p = o /\ m \in Settlements)
  BY <1>2, MethodNames DEF Settled
<1>7. ASSUME order[o].asset # a \/ (m # "hold" /\ m \notin Settlements)
      PROVE  Held(a)' = Held(a) /\ Stray(a)' = Stray(a) /\ Unseen(a)' = Unseen(a)
  <2>1. Held(a)' = Held(a)
    BY <1>2, <1>6, <1>7, MethodNames DEF Held, config
  <2>2. Stray(a)' = Stray(a)
    BY <1>2, <1>3, <1>7, MethodNames DEF Stray, State, config
  <2>3. Unseen(a)' = Unseen(a)
    BY <1>2, <1>3, <1>7, MethodNames DEF Unseen, State, config
  <2> QED
    BY <2>1, <2>2, <2>3
<1>8. ASSUME order[o].asset = a, m = "hold"
      PROVE  /\ Cardinality(Held(a)') = Cardinality(Held(a)) + 1
             /\ Cardinality(Stray(a)') = Cardinality(Stray(a)) - 1
             /\ Unseen(a)' = Unseen(a)
  <2>1. ~Settled(o)
    <3>1. ASSUME NEW n \in Settlements, answer[o][n] = "success" PROVE FALSE
      <4>1. Allowed(o, n)
        BY <3>1, MethodNames DEF CallInv, Ordered
      <4>2. n # order[o].kind
        BY <1>1, <1>8, MethodNames DEF Allowed
      <4> QED
        BY <1>1, <1>8, <4>1, <4>2 DEF Allowed
    <3> QED BY <3>1 DEF Settled
  <2>2. Held(a)' = Held(a) \cup {o} /\ o \notin Held(a)
    BY <1>1, <1>2, <1>6, <1>8, <2>1, MethodNames DEF Held, config
  <2>3. Stray(a)' = Stray(a) \ {o} /\ o \in Stray(a)
    BY <1>1, <1>2, <1>3, <1>8, MethodNames DEF Stray, State, config, m
  <2>4. Unseen(a)' = Unseen(a)
    BY <1>2, <1>3, <1>8, MethodNames DEF Unseen, State, config
  <2>5. Cardinality(Held(a)') = Cardinality(Held(a)) + 1
    BY <2>2, BooksFinite, FS_AddElement
  <2>6. Cardinality(Stray(a)') = Cardinality(Stray(a)) - 1
    BY <2>3, BooksFinite, FS_RemoveElement
  <2> QED BY <2>4, <2>5, <2>6
<1>9. ASSUME order[o].asset = a, m \in Settlements
      PROVE  /\ Cardinality(Held(a)') = Cardinality(Held(a)) - 1
             /\ Cardinality(Unseen(a)') = Cardinality(Unseen(a)) - 1
             /\ Stray(a)' = Stray(a)
  <2>1. o \in Held(a)
    BY <1>1, <1>9, MethodNames DEF Held, Allowed, TypeOK, Order, Kinds, Settlements
  <2>2. Held(a)' = Held(a) \ {o}
    BY <1>2, <1>6, <1>9, MethodNames DEF Held, config
  <2>3. Stray(a)' = Stray(a)
    BY <1>2, <1>3, <1>9, MethodNames DEF Stray, State, config
  <2>4. <<o, m>> \in Unseen(a)
    BY <1>1, <1>9 DEF Unseen, State, m
  <2>5. Unseen(a)' = Unseen(a) \ {<<o, m>>}
    BY <1>2, <1>3, <1>9, MethodNames DEF Unseen, State, config
  <2>6. Cardinality(Held(a)') = Cardinality(Held(a)) - 1
    BY <2>1, <2>2, BooksFinite, FS_RemoveElement
  <2>7. Cardinality(Unseen(a)') = Cardinality(Unseen(a)) - 1
    BY <2>4, <2>5, BooksFinite, FS_RemoveElement
  <2> QED BY <2>3, <2>6, <2>7
<1> QED BY <1>4, <1>7, <1>8, <1>9 DEF m

LEMMA SuccessAccounted ==
  ASSUME TypeOK, CallInv, EscrowAccounted, NEW o \in Orders, pc[o] # "idle", Answer(o, "success"),
         State(o, method[o]) = "landed", UNCHANGED <<config, chain>>
  PROVE  EscrowAccounted'
<1> SUFFICES ASSUME NEW a \in Assets
             PROVE  Backing(a)' + Cardinality(Unseen(a)') = Cardinality(Held(a)') + Cardinality(Stray(a)')
  BY DEF EscrowAccounted
<1>1. Backing(a) + Cardinality(Unseen(a)) = Cardinality(Held(a)) + Cardinality(Stray(a))
  BY DEF EscrowAccounted
<1>2. /\ Backing(a) \in Nat /\ Cardinality(Unseen(a)) \in Nat
      /\ Cardinality(Held(a)) \in Nat /\ Cardinality(Stray(a)) \in Nat
  BY BackingType, BooksFinite
<1> QED
  BY <1>1, <1>2, SuccessBooks

(* What a landing does to the escrow: a hold pays into it, a settlement out of
   it, and nothing else touches it. *)
LEMMA BackingMoves ==
  ASSUME TypeOK, CallInv, ReservedInv, NEW o \in Orders, NEW m \in Methods, Lands(o, m), NEW a \in Assets
  PROVE  Backing(a)' = IF order[o].asset # a THEN Backing(a)
                       ELSE IF m = "hold" THEN Backing(a) + 1
                       ELSE IF m \in Settlements THEN Backing(a) - 1
                       ELSE Backing(a)
<1>1. State(o, m) = "pending" /\ UNCHANGED order
  BY DEF Lands, State, config
<1>2. CASE HoldModel[a] = "escrow-transfer"
  <2>1. Backing(a)' = balance'[Escrow][a] /\ Backing(a) = balance[Escrow][a] /\ balance[Escrow][a] \in Nat
    BY <1>2 DEF Backing, TypeOK, Accounts
  <2>2. CASE order[o].asset # a
    BY <2>1, <2>2 DEF Lands, TypeOK, Accounts
  <2>3. CASE order[o].asset = a
    <3>1. ~Reserving(o)
      BY <1>2, <2>3 DEF Reserving
    <3>2. Payer(o, m) = Escrow <=> m \in Settlements
      BY <1>1, <3>1, NamesAssumption DEF CallInv, Signed, Payer, Deed, Settlements
    <3>3. Taker(o, m) = Escrow <=> m = "hold"
      <4>1. tx[o][m].to # Escrow
        BY NamesAssumption DEF TypeOK, TxType
      <4> QED
        BY <3>1, <4>1, NamesAssumption DEF Taker, Deed, Methods, Kinds, Settlements
    <3>4. balance'[Escrow][a] = balance[Escrow][a] - (IF m \in Settlements THEN 1 ELSE 0) + (IF m = "hold" THEN 1 ELSE 0)
      <4>1. balance'[Escrow] = [balance[Escrow] EXCEPT ![order[o].asset] =
               @ - (IF Escrow = Payer(o, m) THEN 1 ELSE 0) + (IF Escrow = Taker(o, m) THEN 1 ELSE 0)]
        BY DEF Lands, Accounts
      <4>2. DOMAIN balance[Escrow] = Assets
        BY DEF TypeOK, Accounts
      <4> QED
        BY <2>3, <3>2, <3>3, <4>1, <4>2
    <3> QED
      BY <2>1, <2>3, <3>4, MethodNames
  <2> QED BY <2>2, <2>3
<1>3. CASE HoldModel[a] # "escrow-transfer"
  <2>1. /\ Backing(a)' = Cardinality(Reserved(a)') /\ Backing(a) = Cardinality(Reserved(a))
        /\ IsFiniteSet(Reserved(a)) /\ Cardinality(Reserved(a)) \in Nat
    BY <1>3, BooksFinite DEF Backing, Reserved
  <2>2. CASE order[o].asset # a
    <3>1. Reserved(a)' = Reserved(a)
      BY <1>1, <2>2 DEF Reserved, Lands
    <3> QED BY <2>1, <2>2, <3>1
  <2>3. CASE order[o].asset = a
    <3>1. Reserving(o)
      BY <1>3, <2>3, WorldAssumption DEF Reserving
    <3>2. CASE m = "hold"
      <4>1. Reserved(a)' = Reserved(a) \cup {o}
        BY <1>1, <2>3, <3>1, <3>2 DEF Reserved, Lands, Deed
      <4>2. o \notin Reserved(a)
        BY <1>1, <3>2 DEF Reserved, ReservedInv
      <4> QED
        BY <2>1, <2>3, <3>2, <4>1, <4>2, FS_AddElement
    <3>3. CASE m \in Settlements
      <4>1. Deed(o, m) = "release"
        BY <3>1, <3>3 DEF Deed, Settlements
      <4>2. Reserved(a)' = Reserved(a) \ {o} /\ o \in Reserved(a)
        BY <1>1, <2>3, <3>1, <4>1 DEF Reserved, Lands, Possible
      <4> QED
        BY <2>1, <2>3, <3>3, <4>2, FS_RemoveElement, MethodNames
    <3>4. CASE m # "hold" /\ m \notin Settlements
      <4>1. Deed(o, m) \notin {"hold", "release"}
        BY <3>4 DEF Deed, Methods, Kinds, Settlements
      <4>2. Reserved(a)' = Reserved(a)
        BY <1>1, <4>1 DEF Reserved, Lands
      <4> QED
        BY <2>1, <2>3, <3>4, <4>2
    <3> QED BY <3>2, <3>3, <3>4
  <2> QED BY <2>2, <2>3
<1> QED BY <1>2, <1>3

(* ... and to the books: a hold that landed is a stray one until it is answered,
   a settlement an unseen one. *)
LEMMA LandingBooks ==
  ASSUME TypeOK, CallInv, NEW o \in Orders, NEW m \in Methods, Lands(o, m), NEW a
  PROVE  /\ Held(a)' = Held(a)
         /\ IF order[o].asset = a /\ m = "hold" THEN Cardinality(Stray(a)') = Cardinality(Stray(a)) + 1
            ELSE Stray(a)' = Stray(a)
         /\ IF order[o].asset = a /\ m \in Settlements THEN Cardinality(Unseen(a)') = Cardinality(Unseen(a)) + 1
            ELSE Unseen(a)' = Unseen(a)
<1>1. State(o, m) = "pending" /\ UNCHANGED <<order, answer>>
  BY DEF Lands, State, config
<1>2. \A p \in Orders, n \in Methods : State(p, n)' = "landed" <=> State(p, n) = "landed" \/ (p = o /\ n = m)
  <2>1. \A p \in Orders, n \in Methods :
          State(p, n)' = IF p = o /\ n = m THEN "landed" ELSE State(p, n)
    BY <1>1, Mined DEF Lands
  <2> QED BY <2>1
<1>3. answer[o][m] # "success"
  BY <1>1 DEF CallInv, Answered
<1>4. Held(a)' = Held(a)
  BY <1>1 DEF Held, Settled
<1>5. Stray(a)' = IF order[o].asset = a /\ m = "hold" THEN Stray(a) \cup {o} ELSE Stray(a)
  BY <1>1, <1>2, <1>3, MethodNames DEF Stray, State
<1>6. Unseen(a)' = IF order[o].asset = a /\ m \in Settlements THEN Unseen(a) \cup {<<o, m>>} ELSE Unseen(a)
  BY <1>1, <1>2, <1>3, MethodNames DEF Unseen, State
<1>7. o \notin Stray(a) \/ m # "hold"
  BY <1>1 DEF Stray, State
<1>8. <<o, m>> \notin Unseen(a)
  BY <1>1 DEF Unseen, State
<1>9. Cardinality(Stray(a) \cup {o}) = Cardinality(Stray(a)) + 1 \/ o \in Stray(a)
  BY BooksFinite, FS_AddElement
<1>10. Cardinality(Unseen(a) \cup {<<o, m>>}) = Cardinality(Unseen(a)) + 1
  BY <1>8, BooksFinite, FS_AddElement
<1> QED
  BY <1>4, <1>5, <1>6, <1>7, <1>9, <1>10

LEMMA LandingAccounted ==
  ASSUME TypeOK, CallInv, ReservedInv, EscrowAccounted, NEW o \in Orders, NEW m \in Methods, Lands(o, m)
  PROVE  EscrowAccounted'
<1> SUFFICES ASSUME NEW a \in Assets
             PROVE  Backing(a)' + Cardinality(Unseen(a)') = Cardinality(Held(a)') + Cardinality(Stray(a)')
  BY DEF EscrowAccounted
<1>1. Backing(a) + Cardinality(Unseen(a)) = Cardinality(Held(a)) + Cardinality(Stray(a))
  BY DEF EscrowAccounted
<1>2. /\ Backing(a) \in Nat /\ Cardinality(Unseen(a)) \in Nat
      /\ Cardinality(Held(a)) \in Nat /\ Cardinality(Stray(a)) \in Nat
  BY BackingType, BooksFinite
<1> QED
  BY <1>1, <1>2, BackingMoves, LandingBooks, MethodNames

LEMMA ReservedStep ==
  ASSUME TypeOK, CallInv, ReservedInv, [Next]_vars
  PROVE  ReservedInv'
<1>1. ASSUME NEW o \in Orders, NEW m \in Methods, Lands(o, m) PROVE ReservedInv'
  <2>1. \A p \in Orders, n \in Methods :
          State(p, n)' = IF p = o /\ n = m THEN "landed" ELSE State(p, n)
    BY <1>1, Mined DEF Lands, State
  <2>2. \A p \in Orders : Reserving(p)' <=> Reserving(p)
    BY <1>1 DEF Lands, Reserving, config
  <2>3. \A p \in Orders : p # o => (p \in reserved' <=> p \in reserved)
    BY <1>1 DEF Lands
  <2>4. State(o, m) = "pending"
    BY <1>1 DEF Lands, State
  <2>5. CASE ~Reserving(o)
    <3>1. reserved' = reserved
      BY <1>1, <2>5 DEF Lands
    <3> QED
      BY <2>1, <2>2, <2>4, <2>5, <3>1, MethodNames DEF ReservedInv
  <2>6. CASE Reserving(o) /\ m = "hold"
    <3>1. reserved' = reserved \cup {o}
      BY <1>1, <2>6 DEF Lands, Deed
    <3> QED
      BY <2>1, <2>2, <2>6, <3>1, MethodNames DEF ReservedInv
  <2>7. CASE Reserving(o) /\ m \in Settlements
    <3>1. Deed(o, m) = "release"
      BY <2>7 DEF Deed, Settlements
    <3>2. reserved' = reserved \ {o}
      BY <1>1, <2>7, <3>1 DEF Lands
    <3> QED
      BY <2>1, <2>2, <2>7, <3>2, MethodNames DEF ReservedInv
  <2>8. CASE Reserving(o) /\ m # "hold" /\ m \notin Settlements
    <3>1. Deed(o, m) \notin {"hold", "release"}
      BY <2>8 DEF Deed, Methods, Kinds, Settlements
    <3>2. reserved' = reserved
      BY <1>1, <3>1 DEF Lands
    <3> QED
      BY <2>1, <2>2, <2>8, <3>2, MethodNames DEF ReservedInv
  <2> QED BY <2>5, <2>6, <2>7, <2>8
<1>2. ASSUME UNCHANGED <<order, reserved>>,
             \A p \in Orders, n \in Methods : State(p, n)' = "landed" <=> State(p, n) = "landed"
      PROVE  ReservedInv'
  BY <1>2, MethodNames DEF ReservedInv, Reserving
<1>3. ASSUME NEW o \in Orders, NEW m \in Methods, FallsShort(o, m) \/ IsRefused(o, m) PROVE ReservedInv'
  <2>1. State(o, m) = "pending"
    BY <1>3 DEF FallsShort, IsRefused, State
  <2> QED
    BY <1>2, <1>3, <2>1, Mined DEF FallsShort, IsRefused, State, config
<1>4. ASSUME NEW o \in Orders, Send(o) PROVE ReservedInv'
  BY <1>2, <1>4, SendKeeps DEF Send, config
<1>5. ASSUME UNCHANGED <<order, reserved, tx>> PROVE ReservedInv'
  BY <1>2, <1>5 DEF State
<1>6. ASSUME NEW o \in Orders,
             \/ \E m \in Methods : Request(o, m)
             \/ FindAsset(o) \/ ResolveSource(o) \/ ResolveTarget(o)
             \/ WaitReturns(o) \/ Throws(o) \/ WaitThrows(o)
      PROVE  ReservedInv'
  BY <1>5, <1>6 DEF Request, FindAsset, ResolveSource, ResolveTarget, WaitReturns, Throws, WaitThrows, config, chain
<1>7. ASSUME \/ \E a \in Assets, deploy \in BOOLEAN : CreateAsset(a, deploy)
             \/ \E f \in FinIds, w \in Wallets \cup {None} : Rebind(f, w)
             \/ UNCHANGED vars
      PROVE  ReservedInv'
  BY <1>5, <1>7 DEF CreateAsset, Rebind, vars, config, chain
<1> QED
  BY <1>1, <1>3, <1>4, <1>6, <1>7 DEF Next, CallStep, Mine

LEMMA AccountStep ==
  ASSUME TypeOK, CallInv, ReservedInv, EscrowAccounted, [Next]_vars
  PROVE  EscrowAccounted'
<1>1. ASSUME NEW o \in Orders, NEW m \in Methods, Lands(o, m) PROVE EscrowAccounted'
  BY <1>1, LandingAccounted
<1>2. ASSUME NEW o \in Orders, NEW m \in Methods, FallsShort(o, m) \/ IsRefused(o, m) PROVE EscrowAccounted'
  <2>1. State(o, m) = "pending"
    BY <1>2 DEF FallsShort, IsRefused, State
  <2>2. \A p \in Orders, n \in Methods : State(p, n)' = "landed" <=> State(p, n) = "landed"
    BY <1>2, <2>1, Mined DEF FallsShort, IsRefused, State
  <2> QED
    BY <1>2, <2>2, AccountFrame DEF FallsShort, IsRefused, config
<1>3. ASSUME NEW o \in Orders, Send(o) PROVE EscrowAccounted'
  BY <1>3, SendKeeps, AccountFrame DEF Send, config
<1>4. ASSUME UNCHANGED <<order, balance, reserved, tx, answer>> PROVE EscrowAccounted'
  BY <1>4, AccountFrame DEF State
<1>5. ASSUME NEW o \in Orders, FindAsset(o) \/ ResolveSource(o) \/ ResolveTarget(o) PROVE EscrowAccounted'
  <2>1. CASE Answer(o, "failed")
    BY <1>5, <2>1, FailureAccounted DEF FindAsset, ResolveSource, ResolveTarget
  <2>2. CASE UNCHANGED answer
    BY <1>4, <1>5, <2>2 DEF FindAsset, ResolveSource, ResolveTarget, config, chain
  <2> QED
    BY <1>5, <2>1, <2>2 DEF FindAsset, ResolveSource, ResolveTarget
<1>6. ASSUME NEW o \in Orders, WaitReturns(o) PROVE EscrowAccounted'
  BY <1>6, SuccessAccounted, FailureAccounted DEF WaitReturns, State
<1>7. ASSUME NEW o \in Orders, Throws(o) \/ WaitThrows(o) PROVE EscrowAccounted'
  BY <1>7, FailureAccounted DEF Throws, WaitThrows
<1>8. ASSUME \/ \E o \in Orders, m \in Methods : Request(o, m)
             \/ \E a \in Assets, deploy \in BOOLEAN : CreateAsset(a, deploy)
             \/ \E f \in FinIds, w \in Wallets \cup {None} : Rebind(f, w)
             \/ UNCHANGED vars
      PROVE  EscrowAccounted'
  BY <1>4, <1>8 DEF Request, CreateAsset, Rebind, vars, config, chain
<1> QED
  BY <1>1, <1>2, <1>3, <1>5, <1>6, <1>7, <1>8 DEF Next, CallStep, Mine

LEMMA InitBooks == Init => CallInv /\ ReservedInv /\ EscrowAccounted
<1> SUFFICES ASSUME Init PROVE CallInv /\ ReservedInv /\ EscrowAccounted
  OBVIOUS
<1>1. \A o \in Orders, m \in Methods : State(o, m) = "none" /\ answer[o][m] = "none"
  BY DEF Init, State, NoTx
<1>2. CallInv
  BY <1>1, MethodNames DEF Init, CallInv, Answered, Ordered, Signed
<1>3. ReservedInv
  BY <1>1, MethodNames DEF Init, ReservedInv
<1>4. ASSUME NEW a \in Assets
      PROVE  Backing(a) + Cardinality(Unseen(a)) = Cardinality(Held(a)) + Cardinality(Stray(a))
  <2>1. Held(a) = {} /\ Stray(a) = {} /\ Unseen(a) = {}
    BY <1>1, MethodNames DEF Held, Stray, Unseen, State
  <2>2. Backing(a) = 0
    BY NamesAssumption, FS_EmptySet DEF Init, Backing, Accounts
  <2> QED
    BY <2>1, <2>2, FS_EmptySet
<1> QED
  BY <1>2, <1>3, <1>4 DEF EscrowAccounted

(* The escrow's balance sheet: its tokens are the held orders' to the token,
   but for settlements that paid and holds that took without an answer. *)
THEOREM Accounted == Spec => []EscrowAccounted
<1>1. TypeOK /\ CallInv /\ ReservedInv /\ EscrowAccounted /\ [Next]_vars =>
        CallInv' /\ ReservedInv' /\ EscrowAccounted'
  BY CallStepKeeps, ReservedStep, AccountStep
<1> QED
  BY <1>1, InitBooks, Typed, PTL DEF Spec

-----------------------------------------------------------------------------
(***************************************************************************)
(* Held orders stay payable                                                *)
(***************************************************************************)
(* A settlement that came too late, or that may yet pay although it was
   answered as failed, is of an asset one of whose answers was lost. *)
LossInv == \A o \in Orders, m \in Settlements :
  /\ State(o, m) = "short" => order[o].asset \in lost
  /\ answer[o][m] = "failed" /\ State(o, m) \in {"pending", "landed"} => order[o].asset \in lost

(* A settlement under way is of a held order. *)
LEMMA RunningIsHeld ==
  ASSUME TypeOK, CallInv, NEW o \in Orders, NEW m \in Settlements, State(o, m) # "none", answer[o][m] = "none"
  PROVE  method[o] = m /\ o \in Held(order[o].asset)
<1>1. method[o] = m /\ Allowed(o, m) /\ ~Settled(o)
  BY MethodNames DEF CallInv, Answered, Ordered
<1>2. m # order[o].kind
  <2>1. order \in [Orders -> Order]
    BY DEF TypeOK
  <2>2. order[o].kind \in Kinds
    BY <2>1 DEF Order
  <2> QED
    BY <2>2 DEF Kinds, Settlements
<1> QED
  BY <1>1, <1>2 DEF Allowed, Held

(* Of an asset none of whose answers was lost, the settlements that paid
   unanswered belong to distinct held orders: no more of them than of any held
   orders they are among. *)
LEMMA UnseenAreHeld ==
  ASSUME TypeOK, CallInv, LossInv, NEW a, a \notin lost, NEW s \in Unseen(a)
  PROVE  s[1] \in Held(a) /\ s[2] = method[s[1]] /\ State(s[1], s[2]) = "landed"
<1>1. /\ s[1] \in Orders /\ s[2] \in Settlements /\ order[s[1]].asset = a
      /\ State(s[1], s[2]) = "landed" /\ answer[s[1]][s[2]] # "success"
  BY DEF Unseen, State
<1>2. answer[s[1]][s[2]] = "none"
  BY <1>1, MethodNames DEF LossInv, TypeOK
<1> QED BY <1>1, <1>2, RunningIsHeld

LEMMA FewUnseen ==
  ASSUME TypeOK, CallInv, LossInv, NEW a, a \notin lost,
         NEW H \in SUBSET Held(a), \A s \in Unseen(a) : s[1] \in H
  PROVE  Cardinality(Unseen(a)) <= Cardinality(H)
<1> DEFINE U == Unseen(a)
           f == [s \in U |-> s[1]]
<1>1. \A s, t \in U : s[1] = t[1] => s = t
  BY UnseenAreHeld DEF Unseen
<1>2. IsFiniteSet(U) /\ IsFiniteSet(H) /\ Cardinality(U) \in Nat /\ Cardinality(H) \in Nat
  BY BooksFinite, FS_Subset, FS_CardinalityType
<1>3. f \in [U -> H]
  OBVIOUS
<1>4. ASSUME Cardinality(H) < Cardinality(U) PROVE FALSE
  <2> HIDE DEF U, f
  <2>1. \E s, t \in U : s # t /\ f[s] = f[t]
    BY <1>2, <1>3, <1>4, FS_PigeonHole
  <2> QED BY <1>1, <2>1 DEF f
<1> HIDE DEF U
<1>5. Cardinality(U) <= Cardinality(H)
  BY <1>2, <1>4
<1> QED BY <1>5 DEF U

(* So there is a token for one whose settlement is still pending. *)
LEMMA EscrowSuffices ==
  ASSUME TypeOK, CallInv, LossInv, EscrowAccounted, NEW o \in Orders, NEW m \in Settlements,
         State(o, m) = "pending", order[o].asset \notin lost
  PROVE  Owed(order[o].asset) > 0 /\ Backing(order[o].asset) > 0
<1> DEFINE a == order[o].asset
<1>1. answer[o][m] = "none"
  BY MethodNames DEF LossInv, CallInv, Answered, TypeOK
<1>2. method[o] = m /\ o \in Held(a)
  BY <1>1, RunningIsHeld
<1>3. \A s \in Unseen(a) : s[1] \in Held(a) \ {o}
  BY <1>2, UnseenAreHeld
<1>4. Cardinality(Unseen(a)) <= Cardinality(Held(a) \ {o})
  BY <1>3, FewUnseen
<1>5. /\ Cardinality(Held(a) \ {o}) = Cardinality(Held(a)) - 1
      /\ Cardinality(Unseen(a)) \in Nat /\ Cardinality(Held(a)) \in Nat /\ Cardinality(Stray(a)) \in Nat
  BY <1>2, BooksFinite, FS_RemoveElement
<1>6. a \in Assets
  BY DEF TypeOK, Order
<1>7. Backing(a) \in Nat /\ Backing(a) + Cardinality(Unseen(a)) = Cardinality(Held(a)) + Cardinality(Stray(a))
  BY <1>6, BackingType DEF EscrowAccounted
<1> HIDE DEF a
<1>8. Owed(a) > 0 /\ Backing(a) > 0
  BY <1>4, <1>5, <1>7 DEF Owed
<1> QED BY <1>8 DEF a

LEMMA NeverShort ==
  ASSUME TypeOK, CallInv, ReservedInv, LossInv, EscrowAccounted, NEW o \in Orders, NEW m \in Settlements,
         State(o, m) = "pending", order[o].asset \notin lost
  PROVE  Possible(o, m)
<1>1. answer[o][m] = "none"
  BY MethodNames DEF LossInv, CallInv, Answered, TypeOK
<1>2. method[o] = m /\ o \in Held(order[o].asset)
  BY <1>1, RunningIsHeld
<1>3. tx[o][m].by = Escrow /\ (m \in {"release", "rollback"} => tx[o][m].to # None)
  BY MethodNames DEF CallInv, Signed, NeedsTarget
<1>4. order[o].asset \in Assets
  BY DEF TypeOK, Order
<1>5. CASE ~Reserving(o)
  <2>1. balance[Escrow][order[o].asset] > 0
    BY <1>4, <1>5, EscrowSuffices, WorldAssumption DEF Backing, Reserving
  <2>2. Payer(o, m) = Escrow
    BY <1>3, <1>5 DEF Payer, Deed, Settlements
  <2>3. Deed(o, m) = "release" => m \in {"release", "rollback"}
    BY <1>5 DEF Deed, Settlements
  <2> QED
    BY <1>3, <1>5, <2>1, <2>2, <2>3 DEF Possible
<1>6. CASE Reserving(o)
  <2>1. Deed(o, m) = "release" /\ Payer(o, m) = None
    BY <1>6 DEF Deed, Payer, Settlements
  <2>2. State(o, "hold") = "landed" /\ ~Settled(o)
    BY <1>2, MethodNames DEF Held, CallInv, Answered
  <2>3. ASSUME NEW n \in Settlements, State(o, n) = "landed" PROVE FALSE
    <3>1. answer[o][n] = "none"
      BY <2>2, <2>3, MethodNames DEF LossInv, Settled, TypeOK
    <3>2. method[o] = n
      BY <2>3, <3>1, RunningIsHeld
    <3> QED BY <1>2, <2>3, <3>2
  <2>4. o \in reserved
    BY <1>6, <2>2, <2>3 DEF ReservedInv
  <2> QED
    BY <1>6, <2>1, <2>4 DEF Possible
<1> QED BY <1>5, <1>6

(* Nothing changes for a settlement but that more is lost. *)
LEMMA LossFrame ==
  ASSUME LossInv, order' = order, lost \subseteq lost',
         \A p \in Orders, n \in Settlements :
           /\ State(p, n)' = State(p, n)
              \/ (State(p, n) = "pending" /\ State(p, n)' \in {"landed", "refused"})
           /\ answer'[p][n] = answer[p][n] \/ answer'[p][n] = "success"
              \/ State(p, n) \notin {"pending", "landed"} \/ order[p].asset \in lost'
  PROVE  LossInv'
  BY DEF LossInv

LEMMA LossAnswer ==
  ASSUME TypeOK, CallInv, LossInv, NEW o \in Orders, pc[o] # "idle", NEW a \in {"success", "failed"}, Answer(o, a),
         lost \subseteq lost', UNCHANGED <<order, tx>>,
         \/ a = "success" \/ State(o, method[o]) \notin {"pending", "landed"}
         \/ method[o] \in Settlements => order[o].asset \in lost'
  PROVE  LossInv'
<1>1. \A p \in Orders, n \in Settlements :
        answer'[p][n] = IF p = o /\ n = method[o] THEN a ELSE answer[p][n]
  BY MethodNames DEF Answer, TypeOK
<1>2. \A p \in Orders, n \in Settlements : State(p, n)' = State(p, n)
  BY DEF State
<1> QED
  BY <1>1, <1>2, LossFrame

LEMMA LossStep ==
  ASSUME TypeOK, CallInv, ReservedInv, LossInv, EscrowAccounted, [Next]_vars
  PROVE  LossInv'
<1>1. ASSUME NEW o \in Orders, NEW m \in Methods, Lands(o, m) \/ IsRefused(o, m) PROVE LossInv'
  <2>1. State(o, m) = "pending"
    BY <1>1 DEF Lands, IsRefused, State
  <2>2. \A p \in Orders, n \in Methods :
          \/ State(p, n)' = State(p, n)
          \/ State(p, n) = "pending" /\ State(p, n)' \in {"landed", "refused"}
    <3>1. CASE Lands(o, m)
      <4>1. \A p \in Orders, n \in Methods :
              State(p, n)' = IF p = o /\ n = m THEN "landed" ELSE State(p, n)
        BY <2>1, <3>1, Mined DEF Lands
      <4> QED BY <2>1, <4>1
    <3>2. CASE IsRefused(o, m)
      <4>1. \A p \in Orders, n \in Methods :
              State(p, n)' = IF p = o /\ n = m THEN "refused" ELSE State(p, n)
        BY <2>1, <3>2, Mined DEF IsRefused
      <4> QED BY <2>1, <4>1
    <3> QED BY <1>1, <3>1, <3>2
  <2> QED
    BY <1>1, <2>2, LossFrame, MethodNames DEF Lands, IsRefused, config
<1>2. ASSUME NEW o \in Orders, NEW m \in Methods, FallsShort(o, m) PROVE LossInv'
  <2>1. State(o, m) = "pending" /\ ~Possible(o, m)
    BY <1>2 DEF FallsShort, State
  <2>2. \A p \in Orders, n \in Methods :
          State(p, n)' = IF p = o /\ n = m THEN "short" ELSE State(p, n)
    BY <1>2, <2>1, Mined DEF FallsShort
  <2>3. m \in Settlements => order[o].asset \in lost
    BY <2>1, NeverShort
  <2>4. order' = order /\ answer' = answer /\ lost' = lost
    BY <1>2 DEF FallsShort, config
  <2>5. ASSUME NEW p \in Orders, NEW n \in Settlements
        PROVE  /\ State(p, n)' = "short" => order[p].asset \in lost
               /\ answer[p][n] = "failed" /\ State(p, n)' \in {"pending", "landed"} => order[p].asset \in lost
    <3>1. n \in Methods
      BY MethodNames
    <3>2. State(p, n)' = IF p = o /\ n = m THEN "short" ELSE State(p, n)
      BY <2>2, <3>1
    <3>3. /\ State(p, n) = "short" => order[p].asset \in lost
          /\ answer[p][n] = "failed" /\ State(p, n) \in {"pending", "landed"} => order[p].asset \in lost
      BY DEF LossInv
    <3> QED
      BY <2>3, <3>2, <3>3
  <2> QED
    BY <2>4, <2>5 DEF LossInv
<1>3. ASSUME NEW o \in Orders, Send(o) PROVE LossInv'
  <2>1. order' = order /\ lost' = lost /\ answer' = answer
    BY <1>3 DEF Send, config
  <2>2. ASSUME NEW p \in Orders, NEW n \in Settlements
        PROVE  /\ State(p, n)' = "short" => order[p].asset \in lost
               /\ answer[p][n] = "failed" /\ State(p, n)' \in {"pending", "landed"} => order[p].asset \in lost
    <3>1. n \in Methods
      BY MethodNames
    <3>2. /\ State(p, n) = "short" => order[p].asset \in lost
          /\ answer[p][n] = "failed" /\ State(p, n) \in {"pending", "landed"} => order[p].asset \in lost
      BY DEF LossInv
    <3> QED
      BY <1>3, <3>1, <3>2, SendKeeps
  <2> QED
    BY <2>1, <2>2 DEF LossInv
<1>4. ASSUME UNCHANGED <<order, answer, tx, lost>> PROVE LossInv'
  BY <1>4 DEF LossInv, State
<1>5. ASSUME NEW o \in Orders, FindAsset(o) \/ ResolveSource(o) \/ ResolveTarget(o) \/ Throws(o) PROVE LossInv'
  <2>1. CASE Answer(o, "failed")
    <3>1. pc[o] \notin {"idle", "wait"}
      BY <1>5 DEF FindAsset, ResolveSource, ResolveTarget, Throws
    <3>2. State(o, method[o]) = "none"
      BY <3>1 DEF CallInv, Answered, TypeOK
    <3> QED
      BY <1>5, <2>1, <3>1, <3>2, LossAnswer DEF FindAsset, ResolveSource, ResolveTarget, Throws, config, chain
  <2>2. CASE UNCHANGED answer
    BY <1>4, <1>5, <2>2 DEF FindAsset, ResolveSource, ResolveTarget, Throws, config, chain
  <2> QED
    BY <1>5, <2>1, <2>2 DEF FindAsset, ResolveSource, ResolveTarget, Throws
<1>6. ASSUME NEW o \in Orders, WaitReturns(o) PROVE LossInv'
  BY <1>6, LossAnswer DEF WaitReturns, State, config, chain
<1>7. ASSUME NEW o \in Orders, WaitThrows(o) PROVE LossInv'
  BY <1>7, LossAnswer DEF WaitThrows, config, chain
<1>8. ASSUME \/ \E o \in Orders, m \in Methods : Request(o, m)
             \/ \E a \in Assets, deploy \in BOOLEAN : CreateAsset(a, deploy)
             \/ \E f \in FinIds, w \in Wallets \cup {None} : Rebind(f, w)
             \/ UNCHANGED vars
      PROVE  LossInv'
  BY <1>4, <1>8 DEF Request, CreateAsset, Rebind, vars, config, chain
<1> QED
  BY <1>1, <1>2, <1>3, <1>5, <1>6, <1>7, <1>8 DEF Next, CallStep, Mine

(* No settlement of a held order finds the escrow empty unless an answer to
   some settlement of its asset was lost. *)
THEOREM Payable == Spec => []HeldIsPayable
<1>1. Init => LossInv
  BY MethodNames DEF Init, LossInv, State, NoTx
<1>2. TypeOK /\ CallInv /\ ReservedInv /\ EscrowAccounted /\ LossInv /\ [Next]_vars =>
        CallInv' /\ ReservedInv' /\ EscrowAccounted' /\ LossInv'
  BY CallStepKeeps, ReservedStep, AccountStep, LossStep
<1>3. LossInv => HeldIsPayable
  BY DEF LossInv, HeldIsPayable, State
<1> QED
  BY <1>1, <1>2, <1>3, InitBooks, Typed, PTL DEF Spec

(* An order takes a token of an investor at most once: what the escrow did not
   sign is the order's own method, of which there is one. *)
THEOREM PaysOnce == Spec => []HolderPaysOnce
<1>1. TypeOK /\ CallInv => HolderPaysOnce
  <2> SUFFICES ASSUME TypeOK, CallInv, NEW o \in Orders
               PROVE  Cardinality({m \in Methods : tx[o][m].state = "landed" /\ tx[o][m].by \in Wallets
                                                    /\ Deed(o, m) # "mint"}) <= 1
    BY DEF HolderPaysOnce
  <2> DEFINE paid == {m \in Methods : tx[o][m].state = "landed" /\ tx[o][m].by \in Wallets /\ Deed(o, m) # "mint"}
  <2>1. ASSUME NEW m \in paid PROVE m = order[o].kind
    <3>1. m \in Methods /\ State(o, m) # "none" /\ tx[o][m].by # Escrow
      BY NamesAssumption DEF State
    <3>2. m \notin Settlements
      BY <3>1 DEF CallInv, Signed
    <3>3. Allowed(o, m)
      BY <3>1 DEF CallInv, Answered, Ordered
    <3> QED BY <3>2, <3>3 DEF Allowed
  <2>2. paid \in SUBSET {order[o].kind}
    BY <2>1
  <2>3. IsFiniteSet({order[o].kind}) /\ Cardinality({order[o].kind}) = 1
    BY FS_Singleton
  <2> HIDE DEF paid
  <2>4. Cardinality(paid) <= 1
    BY <2>2, <2>3, FS_Subset
  <2> QED BY <2>4 DEF paid
<1>2. TypeOK /\ CallInv /\ [Next]_vars => CallInv'
  BY CallStepKeeps
<1> QED
  BY <1>1, <1>2, InitBooks, Typed, PTL DEF Spec

-----------------------------------------------------------------------------
(***************************************************************************)
(* The escrow as a token pool                                              *)
(***************************************************************************)
Inv == TypeOK /\ CallInv /\ ReservedInv /\ EscrowAccounted /\ LossInv

(* Of an asset whose books are open no more is owed than is there. *)
LEMMA Solvent ==
  ASSUME Inv, NEW a \in Assets \ lost
  PROVE  Owed(a) \in Nat /\ Backing(a) \in Nat /\ Owed(a) <= Backing(a)
<1>1. Cardinality(Unseen(a)) <= Cardinality(Held(a))
  BY UnseenAreHeld, FewUnseen DEF Inv
<1>2. /\ Cardinality(Held(a)) \in Nat /\ Cardinality(Unseen(a)) \in Nat /\ Cardinality(Stray(a)) \in Nat
      /\ Backing(a) \in Nat
  BY BooksFinite, BackingType DEF Inv
<1>3. Backing(a) + Cardinality(Unseen(a)) = Cardinality(Held(a)) + Cardinality(Stray(a))
  BY DEF Inv, EscrowAccounted
<1> QED BY <1>1, <1>2, <1>3 DEF Owed

(* What a step may do to the books of one asset, and what it does to those of
   the others. *)
Same(a) == Backing(a)' = Backing(a) /\ Owed(a)' = Owed(a)
Move(a) ==
  \/ Same(a)
  \/ Backing(a)' = Backing(a) + 1 /\ Owed(a)' = Owed(a)
  \/ Backing(a)' = Backing(a) /\ Owed(a)' = Owed(a) + 1
  \/ Owed(a) > 0 /\ Backing(a)' = Backing(a) - 1 /\ Owed(a)' = Owed(a) - 1
Calm == lost' = lost /\ \A b \in Assets : Same(b)
Effect(a) ==
  /\ (lost' = lost /\ (a \in lost \/ Move(a))) \/ lost' = lost \cup {a}
  /\ \A b \in Assets \ {a} : Same(b)

LEMMA SameFrame ==
  ASSUME UNCHANGED <<order, balance, reserved>>, NEW a,
         \A p \in Orders, n \in Methods : State(p, n)' = "landed" <=> State(p, n) = "landed",
         \A p \in Orders, n \in Methods : answer'[p][n] = "success" <=> answer[p][n] = "success"
  PROVE  Same(a)
<1>1. Held(a)' = Held(a) /\ Unseen(a)' = Unseen(a)
  BY SameBooks
<1> QED BY <1>1 DEF Same, Backing, Owed

LEMMA FailureSame ==
  ASSUME TypeOK, CallInv, NEW o \in Orders, pc[o] # "idle", Answer(o, "failed"), UNCHANGED <<config, chain>>,
         NEW a
  PROVE  Same(a)
<1>1. method[o] \in Methods /\ answer[o][method[o]] = "none"
  BY DEF TypeOK, CallInv, Answered
<1>2. \A p \in Orders, n \in Methods : answer'[p][n] = "success" <=> answer[p][n] = "success"
  BY <1>1 DEF Answer, TypeOK
<1> QED BY <1>2, SameFrame DEF State, config, chain

LEMMA StepSound ==
  ASSUME Inv, [Next]_vars
  PROVE  Calm \/ \E a \in Assets : Effect(a)
<1> USE DEF Inv
<1>0. \A o \in Orders : order[o].asset \in Assets
  BY DEF TypeOK, Order
<1>1. ASSUME NEW o \in Orders, NEW m \in Methods, Lands(o, m) PROVE \E a \in Assets : Effect(a)
  <2>0. PICK a \in Assets : a = order[o].asset
    BY <1>0
  <2>1. State(o, m) = "pending" /\ lost' = lost
    BY <1>1 DEF Lands, State
  <2>2. \A b : /\ Cardinality(Held(b)) \in Nat /\ Cardinality(Unseen(b)) \in Nat
    BY BooksFinite
  <2>3. \A b \in Assets \ {a} : Same(b)
    BY <1>1, <2>0, BackingMoves, LandingBooks DEF Same, Owed
  <2>4. a \in lost \/ Move(a)
    <3>1. CASE m = "hold"
      BY <1>1, <2>0, <3>1, BackingMoves, LandingBooks, MethodNames DEF Move, Owed
    <3>2. CASE m \in Settlements /\ a \notin lost
      <4>1. Owed(a) > 0
        BY <2>0, <2>1, <3>2, EscrowSuffices
      <4>2. Backing(a)' = Backing(a) - 1
        BY <1>1, <2>0, <3>2, BackingMoves, MethodNames
      <4>3. Owed(a)' = Owed(a) - 1
        <5>1. Held(a)' = Held(a) /\ Cardinality(Unseen(a)') = Cardinality(Unseen(a)) + 1
          BY <1>1, <2>0, <3>2, LandingBooks, MethodNames
        <5> QED BY <2>2, <5>1 DEF Owed
      <4> QED BY <4>1, <4>2, <4>3 DEF Move
    <3>3. CASE m # "hold" /\ m \notin Settlements
      BY <1>1, <2>0, <3>3, BackingMoves, LandingBooks DEF Move, Same, Owed
    <3> QED BY <3>1, <3>2, <3>3
  <2> QED BY <2>1, <2>3, <2>4 DEF Effect
<1>2. ASSUME NEW o \in Orders, NEW m \in Methods, FallsShort(o, m) \/ IsRefused(o, m) PROVE Calm
  <2>1. State(o, m) = "pending" /\ UNCHANGED <<order, balance, reserved, answer, lost>>
    BY <1>2 DEF FallsShort, IsRefused, State, config
  <2>2. \A p \in Orders, n \in Methods : State(p, n)' = "landed" <=> State(p, n) = "landed"
    BY <1>2, <2>1, Mined DEF FallsShort, IsRefused
  <2> QED BY <2>1, <2>2, SameFrame DEF Calm
<1>3. ASSUME NEW o \in Orders, Send(o) PROVE Calm
  BY <1>3, SendKeeps, SameFrame DEF Send, config, Calm
<1>4. ASSUME UNCHANGED <<order, balance, reserved, tx, answer, lost>> PROVE Calm
  BY <1>4, SameFrame DEF State, Calm
<1>5. ASSUME NEW o \in Orders, FindAsset(o) \/ ResolveSource(o) \/ ResolveTarget(o) \/ Throws(o) PROVE Calm
  <2>1. CASE Answer(o, "failed")
    BY <1>5, <2>1, FailureSame DEF FindAsset, ResolveSource, ResolveTarget, Throws, Calm
  <2>2. CASE UNCHANGED answer
    BY <1>4, <1>5, <2>2 DEF FindAsset, ResolveSource, ResolveTarget, Throws, config, chain
  <2> QED
    BY <1>5, <2>1, <2>2 DEF FindAsset, ResolveSource, ResolveTarget, Throws
<1>6. ASSUME NEW o \in Orders, WaitReturns(o) PROVE Calm \/ \E a \in Assets : Effect(a)
  <2>1. CASE Answer(o, "failed")
    BY <1>6, <2>1, FailureSame DEF WaitReturns, Calm
  <2>2. CASE Answer(o, "success") /\ State(o, method[o]) = "landed"
    <3>0. PICK a \in Assets : a = order[o].asset
      BY <1>0
    <3>1. pc[o] # "idle" /\ UNCHANGED <<config, chain>> /\ lost' = lost
      BY <1>6 DEF WaitReturns
    <3>2. \A b : /\ Cardinality(Held(b)) \in Nat /\ Cardinality(Unseen(b)) \in Nat
      BY BooksFinite
    <3>3. \A b \in Assets \ {a} : Same(b)
      BY <2>2, <3>0, <3>1, SuccessBooks DEF Same, Owed
    <3>4. Move(a)
      <4>1. Backing(a)' = Backing(a)
        BY <2>2, <3>0, <3>1, SuccessBooks
      <4>2. Owed(a)' = Owed(a) \/ Owed(a)' = Owed(a) + 1
        <5>1. CASE method[o] = "hold"
          <6>1. Cardinality(Held(a)') = Cardinality(Held(a)) + 1 /\ Unseen(a)' = Unseen(a)
            BY <2>2, <3>0, <3>1, <5>1, SuccessBooks
          <6> QED BY <3>2, <6>1 DEF Owed
        <5>2. CASE method[o] \in Settlements
          <6>1. /\ Cardinality(Held(a)') = Cardinality(Held(a)) - 1
                /\ Cardinality(Unseen(a)') = Cardinality(Unseen(a)) - 1
            BY <2>2, <3>0, <3>1, <5>2, SuccessBooks
          <6> QED BY <3>2, <6>1 DEF Owed
        <5>3. CASE method[o] # "hold" /\ method[o] \notin Settlements
          BY <2>2, <3>0, <3>1, <5>3, SuccessBooks DEF Owed
        <5> QED BY <5>1, <5>2, <5>3
      <4> QED BY <4>1, <4>2 DEF Move, Same
    <3> QED BY <3>1, <3>3, <3>4 DEF Effect
  <2> QED BY <1>6, <2>1, <2>2 DEF WaitReturns, State
<1>7. ASSUME NEW o \in Orders, WaitThrows(o) PROVE Calm \/ \E a \in Assets : Effect(a)
  <2>0. PICK a \in Assets : a = order[o].asset
    BY <1>0
  <2>1. \A b \in Assets : Same(b)
    BY <1>7, FailureSame DEF WaitThrows
  <2> QED BY <1>7, <2>0, <2>1 DEF WaitThrows, Calm, Effect
<1>8. ASSUME \/ \E o \in Orders, m \in Methods : Request(o, m)
             \/ \E a \in Assets, deploy \in BOOLEAN : CreateAsset(a, deploy)
             \/ \E f \in FinIds, w \in Wallets \cup {None} : Rebind(f, w)
             \/ UNCHANGED vars
      PROVE  Calm
  BY <1>4, <1>8 DEF Request, CreateAsset, Rebind, vars, config, chain
<1> QED
  BY <1>1, <1>2, <1>3, <1>5, <1>6, <1>7, <1>8 DEF Next, CallStep, Mine

OpenBar == Assets \ lost
HeldBar == [a \in Assets |-> IF a \in lost THEN 0 ELSE Backing(a)]
OwedBar == [a \in Assets |-> IF a \in lost THEN 0 ELSE Owed(a)]

Pooled == \A a \in Assets \ lost : Owed(a) \in Nat /\ Backing(a) \in Nat /\ Owed(a) <= Backing(a)

LEMMA PoolInit ==
  ASSUME Pooled
  PROVE  Pool!Init
<1>1. HeldBar \in [Assets -> Nat] /\ OwedBar \in [Assets -> Nat] /\ \A a \in Assets : OwedBar[a] <= HeldBar[a]
  BY DEF Pooled, HeldBar, OwedBar
<1> QED
  BY <1>1 DEF Pool!Init, HeldBar, OwedBar

LEMMA PoolStep ==
  ASSUME Pooled, Pooled', Calm \/ \E a \in Assets : Effect(a)
  PROVE  [Pool!Next]_<<OpenBar, HeldBar, OwedBar>>
<1>1. /\ \A a \in Assets : /\ HeldBar[a] = IF a \in lost THEN 0 ELSE Backing(a)
                           /\ OwedBar[a] = IF a \in lost THEN 0 ELSE Owed(a)
                           /\ HeldBar'[a] = IF a \in lost' THEN 0 ELSE Backing(a)'
                           /\ OwedBar'[a] = IF a \in lost' THEN 0 ELSE Owed(a)'
      /\ HeldBar = [a \in Assets |-> HeldBar[a]] /\ HeldBar' = [a \in Assets |-> HeldBar'[a]]
      /\ OwedBar = [a \in Assets |-> OwedBar[a]] /\ OwedBar' = [a \in Assets |-> OwedBar'[a]]
  BY DEF HeldBar, OwedBar
<1>2. CASE Calm
  <2>1. \A a \in Assets : HeldBar'[a] = HeldBar[a] /\ OwedBar'[a] = OwedBar[a]
    BY <1>1, <1>2 DEF Calm, Same
  <2>2. HeldBar' = HeldBar /\ OwedBar' = OwedBar /\ OpenBar' = OpenBar
    BY <1>1, <1>2, <2>1 DEF Calm, OpenBar
  <2> QED BY <2>2
<1>3. ASSUME NEW a \in Assets, Effect(a)
      PROVE  [Pool!Next]_<<OpenBar, HeldBar, OwedBar>>
  <2>1. \A b \in Assets \ {a} : HeldBar'[b] = HeldBar[b] /\ OwedBar'[b] = OwedBar[b]
    BY <1>1, <1>3 DEF Effect, Same
  <2>2. CASE a \in lost
    <3>1. lost' = lost
      BY <1>3, <2>2 DEF Effect
    <3>2. \A b \in Assets : HeldBar'[b] = HeldBar[b] /\ OwedBar'[b] = OwedBar[b]
      BY <1>1, <2>1, <2>2, <3>1
    <3>3. HeldBar' = HeldBar /\ OwedBar' = OwedBar /\ OpenBar' = OpenBar
      BY <1>1, <3>1, <3>2 DEF OpenBar
    <3> QED BY <3>3
  <2>3. CASE a \notin lost /\ lost' = lost \cup {a}
    <3>1. OpenBar' = OpenBar \ {a} /\ a \in OpenBar
      BY <2>3 DEF OpenBar
    <3>2. HeldBar' = [HeldBar EXCEPT ![a] = 0] /\ OwedBar' = [OwedBar EXCEPT ![a] = 0]
      BY <1>1, <2>1, <2>3
    <3>3. Pool!Close(a)
      BY <3>1, <3>2 DEF Pool!Close, OpenBar, HeldBar, OwedBar
    <3> QED BY <3>1, <3>3 DEF Pool!Next, OpenBar
  <2>4. CASE a \notin lost /\ lost' = lost
    <3>0. OpenBar' = OpenBar /\ a \in OpenBar /\ Move(a)
      BY <1>3, <2>4 DEF Effect, OpenBar
    <3>1. /\ HeldBar[a] = Backing(a) /\ HeldBar'[a] = Backing(a)'
          /\ OwedBar[a] = Owed(a) /\ OwedBar'[a] = Owed(a)'
      BY <1>1, <2>4
    <3>2. /\ HeldBar[a] \in Nat /\ HeldBar'[a] \in Nat /\ OwedBar[a] \in Nat /\ OwedBar'[a] \in Nat
          /\ OwedBar'[a] <= HeldBar'[a]
      BY <2>4, <3>1 DEF Pooled
    <3>3. HeldBar' = [HeldBar EXCEPT ![a] = HeldBar'[a]] /\ OwedBar' = [OwedBar EXCEPT ![a] = OwedBar'[a]]
      BY <1>1, <2>1
    <3>4. CASE Same(a)
      BY <1>1, <3>0, <3>1, <3>3, <3>4 DEF Same
    <3>5. CASE Backing(a)' = Backing(a) + 1 /\ Owed(a)' = Owed(a)
      <4>1. OwedBar' = OwedBar /\ HeldBar'[a] > HeldBar[a]
        BY <1>1, <3>1, <3>2, <3>3, <3>5
      <4>2. Pool!Arrive(a)
        BY <3>0, <3>2, <3>3, <4>1 DEF Pool!Arrive, OpenBar, HeldBar, OwedBar
      <4> QED BY <3>0, <4>2 DEF Pool!Next, OpenBar
    <3>6. CASE Backing(a)' = Backing(a) /\ Owed(a)' = Owed(a) + 1
      <4>1. HeldBar' = HeldBar /\ OwedBar[a] < OwedBar'[a] /\ OwedBar'[a] <= HeldBar[a]
        BY <1>1, <3>1, <3>2, <3>3, <3>6
      <4>2. Pool!Credit(a)
        BY <3>0, <3>2, <3>3, <4>1 DEF Pool!Credit, OpenBar, HeldBar, OwedBar
      <4> QED BY <3>0, <4>2 DEF Pool!Next, OpenBar
    <3>7. CASE Owed(a) > 0 /\ Backing(a)' = Backing(a) - 1 /\ Owed(a)' = Owed(a) - 1
      <4>1. /\ HeldBar' = [HeldBar EXCEPT ![a] = HeldBar[a] - 1] /\ OwedBar' = [OwedBar EXCEPT ![a] = OwedBar[a] - 1]
            /\ OwedBar[a] > 0
        BY <3>1, <3>3, <3>7
      <4>2. Pool!Pay(a)
        BY <3>0, <4>1 DEF Pool!Pay, OpenBar, HeldBar, OwedBar
      <4> QED BY <3>0, <4>2 DEF Pool!Next, OpenBar
    <3> QED BY <3>0, <3>4, <3>5, <3>6, <3>7 DEF Move
  <2> QED BY <1>3, <2>2, <2>3, <2>4 DEF Effect
<1> QED BY <1>2, <1>3

(* The shared escrow implements the token pool: of every asset none of whose
   answers was lost it owes at most what it holds, a debt arises only for a
   token that a hold has brought, and token and debt go together. *)
THEOREM PoolKept == Spec => PoolImplemented
<1>1. Init => Inv
  <2>1. Init => LossInv
    BY MethodNames DEF Init, LossInv, State, NoTx
  <2> QED BY <2>1, InitTyped, InitBooks DEF Inv
<1>2. TypeOK' /\ Inv /\ [Next]_vars => Inv'
  BY CallStepKeeps, ReservedStep, AccountStep, LossStep DEF Inv
<1>3. Inv => Pooled
  BY Solvent DEF Pooled
<1>4. Inv /\ Pooled => Pool!Init
  BY PoolInit
<1>5. Inv /\ [Next]_vars /\ Pooled /\ Pooled' => [Pool!Next]_<<OpenBar, HeldBar, OwedBar>>
  BY StepSound, PoolStep
<1>6. [Pool!Next]_<<OpenBar, HeldBar, OwedBar>> <=> [Pool!Next]_<<Assets \ lost,
          [a \in Assets |-> IF a \in lost THEN 0 ELSE Backing(a)],
          [a \in Assets |-> IF a \in lost THEN 0 ELSE Owed(a)]>>
  BY DEF OpenBar, HeldBar, OwedBar
<1> QED
  BY <1>1, <1>2, <1>3, <1>4, <1>5, <1>6, Typed, PTL DEF Spec, PoolImplemented, Pool!Spec
=============================================================================
