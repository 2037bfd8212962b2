------------------------- MODULE OnchainTokensProofs -------------------------
(***************************************************************************)
(* Theorems about OnchainTokens, for any templates, terms and amounts.     *)
(***************************************************************************)
EXTENDS OnchainTokens, TLAPS

(* A call that runs holds a request it may send, a trade only one that agrees
   with its template; what moved is remembered until the call answers. *)
CallInv ==
  \A c \in Calls :
    /\ pc[c] \in {"ensure", "mined", "receipt"} => req[c] \in Requests[c]
    /\ req[c] = NoRequest \/ req[c] \in Requests[c]
    /\ req[c].method \in {"transfer", "hold"} => Accepted(req[c])
    /\ pc[c] \notin {"mined", "receipt"} => effect[c] = None

(* What is held was moved by a trade. *)
Lock(l) == l = [from |-> l.from, to |-> l.to, id |-> l.id, amount |-> l.amount]
LockInv == \A o \in Operations : Held(o) => Lock(locks[o])

Shape ==
  /\ pc \in [Calls -> {"new", "ensure", "mined", "receipt", "success", "failed", "thrown"}]
  /\ DOMAIN req = Calls /\ DOMAIN effect = Calls /\ DOMAIN locks = Operations
  /\ req = [c \in Calls |-> req[c]] /\ effect = [c \in Calls |-> effect[c]]
  /\ locks = [o \in Operations |-> locks[o]]

Inv == Shape /\ CallInv /\ LockInv /\ MovesAsRequested

-----------------------------------------------------------------------------
(* What a trade moves is what an accepted request asks for. *)
LEMMA TradeAgrees ==
  ASSUME NEW r, Accepted(r)
  PROVE  LET t == Trade(Details(r)) IN
         /\ t.from = r.source /\ t.amount = r.quantity
         /\ r.destination = None \/ t.to = r.destination
<1> DEFINE d == Details(r)
<1>0. /\ ValidRequest(r, d) /\ d.leg = Leg(r) /\ d.type = r.template.type /\ d.phase = Phase(r)
  BY DEF Accepted, Details
<1>1. d.leg \in {"asset", "settlement"} /\ d.phase \in {"initiate", "close"}
  BY <1>0 DEF Accepted, Leg, Phase
<1> HIDE DEF d
<1> SUFFICES /\ Trade(d).from = r.source /\ Trade(d).amount = r.quantity
             /\ r.destination = None \/ Trade(d).to = r.destination
  BY DEF d
<1>2. CASE d.type = "Loan" /\ d.phase = "close" /\ d.leg = "asset"
  BY <1>0, <1>2 DEF ValidRequest, Agrees, Trade, Back
<1>3. CASE d.type = "Loan" /\ d.phase = "close" /\ d.leg = "settlement"
  BY <1>0, <1>3 DEF ValidRequest, Agrees, Trade, Back
<1>4. CASE d.type = "Loan" /\ d.phase = "initiate" /\ d.leg = "asset"
  BY <1>0, <1>4 DEF ValidRequest, Agrees, Trade, Back
<1>5. CASE d.type = "Loan" /\ d.phase = "initiate" /\ d.leg = "settlement"
  BY <1>0, <1>5 DEF ValidRequest, Agrees, Trade, Back
<1>6. CASE d.type # "Loan" /\ d.leg = "asset"
  BY <1>0, <1>6 DEF ValidRequest, Agrees, Trade, Back
<1>7. CASE d.type # "Loan" /\ d.leg = "settlement"
  BY <1>0, <1>7 DEF ValidRequest, Agrees, Trade, Back
<1> QED BY <1>1, <1>2, <1>3, <1>4, <1>5, <1>6, <1>7

(* What the transaction of any request moves, if the contract takes it. *)
LEMMA MovedAgrees ==
  ASSUME LockInv, NEW c \in Calls, NEW r \in Requests[c], Takes(r),
         r.method \in {"transfer", "hold"} => Accepted(r)
  PROVE  /\ Lock(Moved(r))
         /\ r.method \notin {"issue", "rollback"} => Moved(r).from = r.source
         /\ r.method # "rollback" => Moved(r).amount = r.quantity
         /\ r.method \notin {"redeem", "rollback"} => r.destination = None \/ Moved(r).to = r.destination
<1>1. CASE r.method \in {"transfer", "hold"}
  <2>1. Moved(r) = Trade(Details(r))
    BY <1>1 DEF Moved
  <2>2. Lock(Trade(Details(r)))
    BY DEF Lock, Trade
  <2> QED BY <1>1, <2>1, <2>2, TradeAgrees
<1>2. CASE r.method = "issue"
  BY <1>2 DEF Moved, Lock
<1>3. CASE r.method \in Settling
  <2>1. /\ Lock(locks[r.operation])
        /\ r.method # "rollback" => locks[r.operation].from = r.source /\ locks[r.operation].amount = r.quantity
    <3>1. r.operation \in Operations
      BY DEF Operations
    <3> QED BY <1>3, <3>1 DEF Takes, LockInv
  <2>2. CASE r.method = "redeem"
    BY <2>1, <2>2 DEF Moved, Lock
  <2>3. CASE r.method = "release"
    BY <2>1, <2>3 DEF Moved, Lock
  <2>4. CASE r.method = "rollback"
    BY <2>1, <2>4 DEF Moved, Lock
  <2> QED BY <1>3, <2>2, <2>3, <2>4 DEF Settling
<1> QED BY <1>1, <1>2, <1>3, RequestsAssumption DEF Settling

-----------------------------------------------------------------------------
LEMMA InitInv == ASSUME Init PROVE Inv
<1>1. Shape
  BY DEF Init, Shape
<1>2. CallInv /\ LockInv /\ MovesAsRequested
  BY DEF Init, CallInv, LockInv, Held, NoRequest, MovesAsRequested
<1> QED BY <1>1, <1>2 DEF Inv

(* A call that ends, or that is ended by a restart. *)
LEMMA EndsInv ==
  ASSUME Inv, NEW c \in Calls, NEW a \in {"success", "failed", "thrown"}, Ends(c, a), locks' = locks
  PROVE  Inv'
<1>1. /\ pc' = [pc EXCEPT ![c] = a] /\ req' = [req EXCEPT ![c] = NoRequest]
      /\ effect' = [effect EXCEPT ![c] = None]
  BY DEF Ends
<1>2. Shape'
  BY <1>1 DEF Inv, Shape
<1>3. CallInv'
  <2> SUFFICES ASSUME NEW e \in Calls
               PROVE  /\ pc'[e] \in {"ensure", "mined", "receipt"} => req'[e] \in Requests[e]
                      /\ req'[e] = NoRequest \/ req'[e] \in Requests[e]
                      /\ req'[e].method \in {"transfer", "hold"} => Accepted(req'[e])
                      /\ pc'[e] \notin {"mined", "receipt"} => effect'[e] = None
    BY DEF CallInv
  <2>1. CASE e = c
    BY <1>1, <2>1 DEF Inv, Shape, NoRequest
  <2>2. CASE e # c
    BY <1>1, <2>2 DEF Inv, Shape, CallInv
  <2> QED BY <2>1, <2>2
<1>4. LockInv'
  BY DEF Inv, LockInv, Held, Lock
<1>5. MovesAsRequested'
  BY <1>1 DEF Inv, Shape, MovesAsRequested
<1> QED BY <1>2, <1>3, <1>4, <1>5 DEF Inv

(* A step that leaves the calls and what they moved and hold alone. *)
LEMMA SameInv ==
  ASSUME Inv, UNCHANGED <<pc, req, effect, locks>>
  PROVE  Inv'
<1>1. Shape'
  BY DEF Inv, Shape
<1>2. CallInv'
  BY DEF Inv, CallInv
<1>3. LockInv'
  BY DEF Inv, LockInv, Held, Lock
<1>4. MovesAsRequested'
  BY DEF Inv, MovesAsRequested
<1> QED BY <1>1, <1>2, <1>3, <1>4 DEF Inv

LEMMA SubmitInv ==
  ASSUME Inv, NEW c \in Calls, NEW r \in Requests[c], Submit(c, r)
  PROVE  Inv'
<1>1. CASE Ends(c, "thrown") \/ Ends(c, "failed")
  BY <1>1, EndsInv DEF Submit, registry
<1>2. CASE /\ ~(r.method \in {"transfer", "hold"} /\ ~Accepted(r))
           /\ pc' = [pc EXCEPT ![c] = "ensure"]
           /\ req' = [req EXCEPT ![c] = r]
           /\ UNCHANGED effect
  <2>1. locks' = locks /\ pc[c] = "new" /\ effect[c] = None
    BY DEF Submit, registry, Inv, CallInv
  <2>2. Shape'
    BY <1>2, <2>1 DEF Inv, Shape
  <2>3. \A e \in Calls : pc'[e] = (IF e = c THEN "ensure" ELSE pc[e]) /\ req'[e] = IF e = c THEN r ELSE req[e]
    BY <1>2 DEF Inv, Shape
  <2>4. CallInv'
    BY <1>2, <2>1, <2>3 DEF Inv, CallInv
  <2>5. LockInv'
    BY <2>1 DEF Inv, LockInv, Held, Lock
  <2>6. MovesAsRequested'
    BY <1>2, <2>1, <2>3 DEF Inv, MovesAsRequested
  <2> QED BY <2>2, <2>4, <2>5, <2>6 DEF Inv
<1> QED BY <1>1, <1>2 DEF Submit

(* The transaction moves what was asked for, and what it holds is a trade. *)
LEMMA LandInv ==
  ASSUME Inv, NEW c \in Calls, Land(c)
  PROVE  Inv'
<1> DEFINE r == req[c]
<1>1. /\ pc[c] = "ensure" /\ Takes(r)
      /\ pc' = [pc EXCEPT ![c] = "mined"] /\ req' = req
      /\ effect' = [effect EXCEPT ![c] = Moved(r)]
      /\ locks' = [locks EXCEPT ![r.operation] =
                     IF r.method = "hold" THEN Moved(r) ELSE IF r.method \in Settling THEN None ELSE @]
  BY DEF Land
<1>2. r \in Requests[c] /\ (r.method \in {"transfer", "hold"} => Accepted(r))
  BY <1>1 DEF Inv, CallInv
<1>3. /\ Lock(Moved(r))
      /\ r.method \notin {"issue", "rollback"} => Moved(r).from = r.source
      /\ r.method # "rollback" => Moved(r).amount = r.quantity
      /\ r.method \notin {"redeem", "rollback"} => r.destination = None \/ Moved(r).to = r.destination
  BY <1>1, <1>2, MovedAgrees DEF Inv
<1>4. /\ \A e \in Calls : pc'[e] = (IF e = c THEN "mined" ELSE pc[e])
      /\ \A e \in Calls : effect'[e] = IF e = c THEN Moved(r) ELSE effect[e]
      /\ \A o \in Operations : locks'[o] \in {locks[o], Moved(r), None}
  BY <1>1 DEF Inv, Shape
<1>5. Shape'
  BY <1>1 DEF Inv, Shape
<1>6. CallInv'
  BY <1>1, <1>2, <1>4 DEF Inv, CallInv
<1>7. LockInv'
  <2> SUFFICES ASSUME NEW o \in Operations, locks'[o] # None PROVE Lock(locks'[o])
    BY DEF LockInv, Held, Lock
  <2> QED BY <1>3, <1>4 DEF Inv, LockInv, Held
<1>8. MovesAsRequested'
  BY <1>1, <1>3, <1>4 DEF Inv, MovesAsRequested
<1> QED BY <1>5, <1>6, <1>7, <1>8 DEF Inv

LEMMA NoteInv ==
  ASSUME Inv, NEW c \in Calls, Note(c)
  PROVE  Inv'
<1>1. pc[c] = "mined" /\ pc' = [pc EXCEPT ![c] = "receipt"] /\ req' = req /\ effect' = effect /\ locks' = locks
  BY DEF Note, contract, registry
<1>2. Shape'
  BY <1>1 DEF Inv, Shape
<1>3. \A e \in Calls : pc'[e] = IF e = c THEN "receipt" ELSE pc[e]
  BY <1>1 DEF Inv, Shape
<1>4. CallInv'
  BY <1>1, <1>3 DEF Inv, CallInv
<1>5. LockInv' /\ MovesAsRequested'
  BY <1>1 DEF Inv, LockInv, Held, Lock, MovesAsRequested
<1> QED BY <1>2, <1>4, <1>5 DEF Inv

LEMMA RestartInv == ASSUME Inv, Restart PROVE Inv'
<1>1. /\ pc' = [c \in Calls |-> IF pc[c] \in {"ensure", "mined", "receipt"} THEN "thrown" ELSE pc[c]]
      /\ req' = [c \in Calls |-> NoRequest] /\ effect' = [c \in Calls |-> None] /\ locks' = locks
  BY DEF Restart, registry
<1>2. Shape'
  BY <1>1 DEF Inv, Shape
<1>3. CallInv'
  BY <1>1 DEF Inv, Shape, CallInv, NoRequest
<1>4. LockInv' /\ MovesAsRequested'
  BY <1>1 DEF Inv, LockInv, Held, Lock, MovesAsRequested
<1> QED BY <1>2, <1>3, <1>4 DEF Inv

LEMMA StepInv == ASSUME Inv, [Next]_vars PROVE Inv'
<1> USE DEF vars, contract, registry, Registry, process, calls
<1>1. ASSUME NEW c \in Calls, NEW r \in Requests[c], Submit(c, r) PROVE Inv'
  BY <1>1, SubmitInv
<1>2. ASSUME NEW c \in Calls, Ensure(c) PROVE Inv'
  <2>1. CASE Ends(c, "failed")
    BY <1>2, <2>1, EndsInv DEF Ensure
  <2>2. CASE UNCHANGED <<pc, req, effect>>
    BY <1>2, <2>2, SameInv DEF Ensure
  <2> QED BY <1>2, <2>1, <2>2 DEF Ensure
<1>3. ASSUME NEW c \in Calls, Land(c) \/ Note(c) PROVE Inv'
  BY <1>3, LandInv, NoteInv
<1>4. ASSUME NEW c \in Calls, Reverts(c) \/ Receive(c) \/ CallFails(c) PROVE Inv'
  <2>1. (Ends(c, "failed") \/ Ends(c, "success")) /\ locks' = locks
    BY <1>4 DEF Reverts, Receive, CallFails
  <2> QED BY <2>1, EndsInv
<1>5. ASSUME NEW f \in Joining,
             \/ CreateAccount(f) \/ StoreAccount(f) \/ StoreFails(f) \/ RemoveAccount(f)
             \/ SaveMapping(f) \/ DeleteMapping(f)
      PROVE  Inv'
  <2>1. UNCHANGED <<pc, req, effect, locks>>
    BY <1>5 DEF CreateAccount, StoreAccount, StoreFails, RemoveAccount, SaveMapping, DeleteMapping
  <2> QED BY <2>1, SameInv
<1>6. ASSUME NEW a \in NewAssets,
             \/ \E standard \in {None, "ERC20"} : CreateAsset(a, standard)
             \/ AssociateAsset(a) \/ AnswerAsset(a) \/ CreateFails(a)
      PROVE  Inv'
  <2>1. UNCHANGED <<pc, req, effect, locks>>
    BY <1>6 DEF CreateAsset, AssociateAsset, AnswerAsset, CreateFails
  <2> QED BY <2>1, SameInv
<1>7. CASE Restart
  BY <1>7, RestartInv
<1>8. CASE UNCHANGED vars
  BY <1>8, SameInv
<1> QED BY <1>1, <1>2, <1>3, <1>4, <1>5, <1>6, <1>7, <1>8 DEF Next

LEMMA Invariance == Spec => []Inv
<1>1. Init => Inv
  BY InitInv
<1>2. Inv /\ [Next]_vars => Inv'
  BY StepInv
<1> QED BY <1>1, <1>2, PTL DEF Spec

-----------------------------------------------------------------------------
(* For every template, leg, phase and amount, and whatever fails: a transaction
   moves what the router asked for, from whom, to whom and how much. *)
THEOREM MovesRequested == Spec => []MovesAsRequested
<1>1. Inv => MovesAsRequested
  BY DEF Inv
<1> QED BY <1>1, Invariance, PTL

(* What the two services derive from an accepted instruction of a plan: the
   phases differ exactly where only one of the tests on the sequence holds. *)
LEMMA ReadingsAgree ==
  ASSUME NEW r, Accepted(r), r.method \in {"transfer", "hold"}, r.sequence \in Int,
         r.method = "transfer" => r.destination # None, r.plan # None
  PROVE  LET t == r.template IN
         /\ DirectType(r) = Details(r).type
         /\ DirectRelease(r) = Details(r).release
         /\ \/ DirectLeg(r) = Details(r).leg
            \/ WellKnown(r.asset, t.asset) \/ WellKnown(r.asset, t.settlement)
            \/ t.asset.id = t.settlement.id
         /\ DirectPhase(r) # Details(r).phase <=>
              IF t.type = "Loan" THEN r.sequence = 4 ELSE r.sequence > 4
<1>1. r.template.type \in Supported /\ Leg(r) # "none"
  BY DEF Accepted
<1>2. DirectRelease(r) = Details(r).release
  <2>1. r.template.type # "none"
    BY <1>1 DEF Supported, Settled
  <2> QED BY <2>1 DEF DirectRelease, Details, ReleaseType
<1>3. DirectType(r) = Details(r).type
  BY <1>1 DEF DirectType, Details
<1>4. \/ DirectLeg(r) = Details(r).leg
      \/ WellKnown(r.asset, r.template.asset) \/ WellKnown(r.asset, r.template.settlement)
      \/ r.template.asset.id = r.template.settlement.id
  <2> HIDE DEF WellKnown
  <2> QED BY <1>1 DEF DirectLeg, Details, Leg, SameAsset
<1>5. DirectPhase(r) # Details(r).phase <=>
        IF r.template.type = "Loan" THEN r.sequence = 4 ELSE r.sequence > 4
  <2>1. CASE r.template.type = "Loan"
    BY <2>1 DEF DirectPhase, Details, Phase
  <2>2. CASE r.template.type # "Loan"
    BY <2>2 DEF DirectPhase, Details, Phase
  <2> QED BY <2>1, <2>2
<1> QED BY <1>2, <1>3, <1>4, <1>5

(* For every request of a plan, template and position: the direct services and
   the on-chain one derive the same type, disposition and, but for symbols and
   ambiguous terms, leg; and they differ in the phase at a loan's fourth
   instruction and from the fifth of another trade on, and nowhere else. *)
THEOREM ContextsSame == Spec => []ContextsAgree
<1>1. Inv => ContextsAgree
  <2> SUFFICES ASSUME Inv, NEW c \in Calls, req[c].method \in {"transfer", "hold"}
               PROVE  /\ Accepted(req[c]) /\ req[c].sequence \in Int
                      /\ req[c].method = "transfer" => req[c].destination # None
    BY ReadingsAgree DEF ContextsAgree
  <2> QED BY RequestsAssumption DEF Inv, CallInv, NoRequest
<1> QED BY <1>1, Invariance, PTL

-----------------------------------------------------------------------------
(* An account that is being stored has its credential behind it already. *)
CredentialInv ==
  \A f \in FinIds :
    (f \in registered \/ account[f] # "none") /\ ~HasCredential(f) => f \in unmapped

AccountShape == account = [f \in FinIds |-> account[f]]

LEMMA CredentialStep ==
  ASSUME CredentialInv, AccountShape, [Next]_vars
  PROVE  CredentialInv' /\ AccountShape'
<1> USE DEF vars, contract, registry, Registry, process, calls
<1>1. ASSUME UNCHANGED <<chainMode, credentials, registered, account, unmapped>>
      PROVE  CredentialInv' /\ AccountShape'
  BY <1>1 DEF CredentialInv, AccountShape, HasCredential
<1>2. ASSUME NEW c \in Calls,
             \/ \E r \in Requests[c] : Submit(c, r)
             \/ Land(c) \/ Reverts(c) \/ Note(c) \/ Receive(c) \/ CallFails(c)
      PROVE  CredentialInv' /\ AccountShape'
  <2>1. UNCHANGED <<chainMode, credentials, registered, account, unmapped>>
    BY <1>2 DEF Submit, Land, Reverts, Note, Receive, CallFails
  <2> QED BY <1>1, <2>1
<1>3. ASSUME NEW c \in Calls, Ensure(c)
      PROVE  CredentialInv' /\ AccountShape'
  <2>1. /\ UNCHANGED <<chainMode, credentials, account, unmapped>>
        /\ \A f \in registered' : f \in registered \/ HasCredential(f)
    BY <1>3 DEF Ensure
  <2> QED BY <2>1 DEF CredentialInv, AccountShape, HasCredential
<1>4. ASSUME NEW f \in Joining, AddCredential(f) PROVE HasCredential(f)' /\ \A g : HasCredential(g) => HasCredential(g)'
  BY <1>4 DEF AddCredential, HasCredential
<1>5. ASSUME NEW f \in Joining, CreateAccount(f)
      PROVE  CredentialInv' /\ AccountShape'
  <2>1. CASE mode = "derivation"
    BY <1>1, <1>5, <2>1 DEF CreateAccount
  <2>2. CASE mode # "derivation"
    <3>1. /\ AddCredential(f) /\ registered' = registered
          /\ account' = [account EXCEPT ![f] = IF @ = "none" THEN "adding" ELSE "renewing"]
          /\ unmapped' = unmapped \ {f}
      BY <1>5, <2>2 DEF CreateAccount, AddCredential
    <3>2. AccountShape' /\ \A g \in FinIds : g # f => account'[g] = account[g]
      BY <3>1 DEF AccountShape
    <3> QED BY <1>4, <3>1, <3>2 DEF CredentialInv
  <2> QED BY <2>1, <2>2
<1>6. ASSUME NEW f \in Joining, StoreAccount(f) \/ StoreFails(f) \/ RemoveAccount(f)
      PROVE  CredentialInv' /\ AccountShape'
  <2>1. UNCHANGED <<chainMode, credentials, registered, unmapped>>
    BY <1>6 DEF StoreAccount, StoreFails, RemoveAccount
  <2>2. /\ AccountShape'
        /\ \A g \in FinIds : account'[g] # "none" => account[g] # "none"
    BY <1>6 DEF StoreAccount, StoreFails, RemoveAccount, Stored, Settles, AccountShape
  <2> QED BY <2>1, <2>2 DEF CredentialInv, HasCredential
<1>7. ASSUME NEW f \in Joining, SaveMapping(f)
      PROVE  CredentialInv' /\ AccountShape'
  <2>1. AddCredential(f) /\ UNCHANGED <<registered, account>> /\ unmapped' = unmapped \ {f}
    BY <1>7 DEF SaveMapping, AddCredential
  <2> QED BY <1>4, <2>1 DEF CredentialInv, AccountShape
<1>8. ASSUME NEW f \in Joining, DeleteMapping(f)
      PROVE  CredentialInv' /\ AccountShape'
  <2>1. /\ UNCHANGED <<chainMode, registered, account>>
        /\ credentials' = credentials \ {f} /\ unmapped' = unmapped \cup {f}
    BY <1>8 DEF DeleteMapping
  <2> QED BY <2>1 DEF CredentialInv, AccountShape, HasCredential
<1>9. ASSUME NEW a \in NewAssets,
             \/ \E standard \in {None, "ERC20"} : CreateAsset(a, standard)
             \/ AssociateAsset(a) \/ AnswerAsset(a) \/ CreateFails(a)
      PROVE  CredentialInv' /\ AccountShape'
  <2>1. UNCHANGED <<chainMode, credentials, registered, account, unmapped>>
    BY <1>9 DEF CreateAsset, AssociateAsset, AnswerAsset, CreateFails
  <2> QED BY <1>1, <2>1
<1>10. CASE Restart
  <2>1. /\ UNCHANGED <<chainMode, credentials, unmapped>> /\ registered' = {} /\ AccountShape'
        /\ \A g \in FinIds : account'[g] # "none" => account[g] # "none"
    BY <1>10 DEF Restart, Settles, AccountShape
  <2> QED BY <2>1 DEF CredentialInv, HasCredential
<1>11. CASE UNCHANGED vars
  BY <1>1, <1>11
<1> QED BY <1>2, <1>3, <1>5, <1>6, <1>7, <1>8, <1>9, <1>10, <1>11 DEF Next

(* No order of creating, removing and mapping accounts, of instructions and of
   restarts leaves an investor who is taken for registered without a wallet,
   except where a mapping route took it away. *)
THEOREM CredentialsBehind == Spec => []CredentialBehind
<1>1. Init => CredentialInv /\ AccountShape
  BY DEF Init, CredentialInv, AccountShape
<1>2. CredentialInv /\ AccountShape /\ [Next]_vars => CredentialInv' /\ AccountShape'
  BY CredentialStep
<1>3. CredentialInv => CredentialBehind
  BY DEF CredentialInv, CredentialBehind, Stored
<1> QED BY <1>1, <1>2, <1>3, PTL DEF Spec
=============================================================================
