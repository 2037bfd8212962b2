-------------------------- MODULE PlanApprovalProofs --------------------------
(***************************************************************************)
(* Proofs about PlanApproval: its type invariant, that nothing is spent on *)
(* a plan that is rejected, that a wallet covered by a top-up can pay for  *)
(* what its plan has left to sign, and that an approval clears the plan.   *)
(***************************************************************************)
EXTENDS PlanApproval, FiniteSetTheorems, TLAPS

Instruction == [orgs : SUBSET Orgs, type : Types, asset : Assets \cup {None},
                source : FinIds \cup {None}, destination : FinIds \cup {None}]

(* What a plan holds, once it was read and before. *)
LEMMA PlanType ==
  ASSUME TypeOK, NEW p \in Plans
  PROVE  /\ plan[p] \in Seq(Instruction)
         /\ DOMAIN plan[p] \in SUBSET Nat
         /\ \A i \in DOMAIN plan[p] : plan[p][i] \in Instruction
<1>1. plan[p] \in Contents[p] \cup {<<>>}
  BY DEF TypeOK
<1>2. plan[p] \in Seq(Instruction)
  <2>1. CASE plan[p] = <<>>
    BY <2>1
  <2>2. CASE plan[p] \in Contents[p]
    BY <2>2, DataAssumption DEF Instruction
  <2> QED BY <1>1, <2>1, <2>2
<1> QED
  BY <1>2

LEMMA PlanFinite ==
  ASSUME TypeOK, NEW p \in Plans
  PROVE  IsFiniteSet(DOMAIN plan[p])
<1>1. DOMAIN plan[p] = 1..Len(plan[p]) /\ Len(plan[p]) \in Nat
  BY PlanType
<1> QED
  BY <1>1, FS_Interval

(* The number of transactions a plan counted for a wallet is a number. *)
LEMMA TxCountType ==
  ASSUME TypeOK, NEW p \in Plans, NEW w
  PROVE  TxCount(p, w) \in Nat /\ Threshold(p, w) \in Nat /\ Threshold(p, w) >= TxCount(p, w)
<1>1. DOMAIN signer[p] = DOMAIN plan[p]
  BY DEF TypeOK
<1>2. IsFiniteSet({i \in DOMAIN signer[p] : signer[p][i] = w})
  BY <1>1, PlanFinite, FS_Subset
<1>3. TxCount(p, w) \in Nat
  BY <1>2, FS_CardinalityType DEF TxCount
<1> QED
  BY <1>3 DEF Threshold

-----------------------------------------------------------------------------
(* An answer keeps the types of the call. *)
LEMMA RejectTyped ==
  ASSUME TypeOK, NEW p \in Plans, NEW v \in Verdicts, Reject(p, v),
         gas' = gas, topUp' = topUp, covered' = covered, mapping' = mapping, listed' = listed,
         changes' = changes, sweep' = sweep, faults' \in 0..MaxFaults
  PROVE  TypeOK'
<1>1. DOMAIN <<>> = {} /\ <<>> = [i \in {} |-> None]
  OBVIOUS
<1>2. \A q \in Plans : signer'[q] \in [DOMAIN plan'[q] -> Wallets \cup {None}]
  <2> TAKE q \in Plans
  <2>1. CASE q = p
    <3>1. signer'[q] = <<>> /\ plan'[q] = <<>>
      BY <2>1 DEF TypeOK, Reject
    <3> QED BY <1>1, <3>1
  <2>2. CASE q # p
    BY <2>2 DEF TypeOK, Reject
  <2> QED BY <2>1, <2>2
<1>3. \A q \in Plans : todo'[q] \subseteq DOMAIN plan'[q]
  BY DEF TypeOK, Reject
<1>4. at' \in [Plans -> Nat \ {0}] /\ party' \in [Plans -> Parties] /\ since' \in [Plans -> SUBSET {"granted", "revoked"}]
  BY DEF TypeOK, Reject, Answer, Parties
<1>5. /\ pc' \in [Plans -> {"none", "introspect", "whitelisting", "party", "verify", "counting",
                       "funding", "sending", "polling", "answered"}]
      /\ addr' \in [Plans -> Wallets \cup {None}]
      /\ DOMAIN plan' = Plans
      /\ \A q \in Plans : plan'[q] \in Contents[q] \cup {<<>>}
      /\ due' \in [Plans -> SUBSET Wallets]
      /\ verdict' \in [Plans -> Verdicts]
  BY DEF TypeOK, Reject, Answer
<1>6. Aligned'
  BY DEF Aligned, TypeOK, Reject, Answer
<1>7. DOMAIN signer' = Plans /\ DOMAIN todo' = Plans
  BY DEF TypeOK, Reject
<1> QED
  BY <1>2, <1>3, <1>4, <1>5, <1>6, <1>7 DEF TypeOK

LEMMA ApproveTyped ==
  ASSUME TypeOK, NEW p \in Plans, Approve(p), UNCHANGED <<world, faults>>
  PROVE  TypeOK'
<1>1. at' \in [Plans -> Nat \ {0}] /\ party' \in [Plans -> Parties] /\ since' \in [Plans -> SUBSET {"granted", "revoked"}]
  BY DEF TypeOK, Approve, Answer, Parties
<1>2. /\ pc' \in [Plans -> {"none", "introspect", "whitelisting", "party", "verify", "counting",
                       "funding", "sending", "polling", "answered"}]
      /\ addr' \in [Plans -> Wallets \cup {None}]
      /\ verdict' \in [Plans -> Verdicts]
  BY DEF TypeOK, Approve, Answer, Verdicts
<1>3. Aligned'
  BY DEF Aligned, TypeOK, Approve, Answer
<1> QED
  BY <1>1, <1>2, <1>3 DEF TypeOK, Approve, world, chain, lists

LEMMA NoteTyped ==
  ASSUME TypeOK, NEW what \in SUBSET {"granted", "revoked"}, Note(what)
  PROVE  since' \in [Plans -> SUBSET {"granted", "revoked"}]
BY DEF TypeOK, Note

LEMMA FaultTyped ==
  ASSUME TypeOK, Fault
  PROVE  faults' \in 0..MaxFaults
BY BoundsAssumption DEF TypeOK, Fault

LEMMA ChangeTyped ==
  ASSUME TypeOK, Change
  PROVE  changes' \in 0..MaxChanges
BY BoundsAssumption DEF TypeOK, Change

LEMMA InitTyped == Init => TypeOK
<1> SUFFICES ASSUME Init PROVE TypeOK
  OBVIOUS
<1>1. \A p \in Plans : signer[p] \in [DOMAIN plan[p] -> Wallets \cup {None}]
  BY DEF Init
<1>2. /\ mapping \in [FinIds -> Wallets \cup {None}]
      /\ listed \subseteq Wallets \X Assets
  BY DataAssumption DEF Init
<1>6. Aligned
  BY DEF Init, Aligned
<1>3. gas \in [Wallets -> Nat]
  BY BoundsAssumption DEF Init
<1>4. changes \in 0..MaxChanges /\ faults \in 0..MaxFaults
  BY BoundsAssumption DEF Init
<1>5. sweep \in [pc : {"idle", "sweeping", "removing", "returned", "refused"},
                wallet : Wallets \cup {None}, left : SUBSET Assets, asset : Assets \cup {None},
                refused : SUBSET Assets, scope : SUBSET Assets]
  BY DEF Init, NoSweep
<1>7. sweep.pc # "removing"
  BY DEF Init, NoSweep
<1> QED
  BY <1>1, <1>2, <1>3, <1>4, <1>5, <1>6, <1>7 DEF Init, TypeOK, Parties, Verdicts

(* Every step of the whitelisting option keeps the types. *)
LEMMA WhitelistingTyped ==
  ASSUME TypeOK, NEW p \in Plans,
         \/ BaseApproves(p) \/ BaseRejects(p) \/ Introspect(p) \/ IntrospectionFails(p)
         \/ Examine(p) \/ SkipParty(p) \/ ResolveParty(p) \/ PartyListed(p) \/ PartyUnlisted(p)
         \/ WhitelistingThrows(p) \/ WhitelistingPasses(p)
  PROVE  TypeOK'
<1>1. ASSUME BaseApproves(p) PROVE TypeOK'
  <2>1. Aligned'
    BY <1>1 DEF TypeOK, Aligned, BaseApproves, walk, content
  <2> QED
    BY <1>1, <2>1 DEF TypeOK, BaseApproves, walk, content, world, chain, lists
<1>2. ASSUME BaseRejects(p) PROVE TypeOK'
  BY <1>2, RejectTyped DEF BaseRejects, world, chain, lists, TypeOK, Verdicts
<1>3. ASSUME Introspect(p) PROVE TypeOK'
  <2>1. PICK x \in Contents[p] :
          /\ plan' = [plan EXCEPT ![p] = x]
          /\ signer' = [signer EXCEPT ![p] = [i \in DOMAIN x |-> None]]
          /\ todo' = [todo EXCEPT ![p] = {i \in DOMAIN x : Signs(x[i])}]
    BY <1>3 DEF Introspect
  <2>2. \A q \in Plans : signer'[q] \in [DOMAIN plan'[q] -> Wallets \cup {None}]
    BY <2>1 DEF TypeOK
  <2>3. \A q \in Plans : todo'[q] \subseteq DOMAIN plan'[q]
    BY <2>1 DEF TypeOK
  <2>4. DOMAIN plan' = Plans /\ \A q \in Plans : plan'[q] \in Contents[q] \cup {<<>>}
    BY <2>1 DEF TypeOK
  <2>5. Aligned'
    BY <1>3, <2>1 DEF Aligned, TypeOK, Introspect, walk
  <2> QED
    BY <1>3, <2>2, <2>3, <2>4, <2>5 DEF TypeOK, Introspect, walk, world, chain, lists
<1>4. ASSUME IntrospectionFails(p) PROVE TypeOK'
  BY <1>4, RejectTyped DEF IntrospectionFails, world, chain, lists, TypeOK, Verdicts
<1>5. ASSUME Examine(p) PROVE TypeOK'
  <2>1. CASE Reject(p, "unregistered")
    BY <1>5, <2>1, RejectTyped DEF Examine, world, chain, lists, TypeOK, Verdicts
  <2>2. CASE /\ pc' = [pc EXCEPT ![p] = "party"]
             /\ party' = [party EXCEPT ![p] = "source"]
             /\ UNCHANGED <<at, addr, content>>
    <3>1. Aligned'
      BY <1>5, <2>2 DEF Examine, Aligned, TypeOK, content
    <3> QED
      BY <1>5, <2>2, <3>1 DEF Examine, TypeOK, content, world, chain, lists, Parties
  <2>3. CASE at' = [at EXCEPT ![p] = @ + 1] /\ UNCHANGED <<pc, party, addr, content>>
    <3>1. Aligned'
      BY <1>5, <2>3 DEF Examine, Aligned, TypeOK, content
    <3>2. at' \in [Plans -> Nat \ {0}]
      BY <2>3 DEF TypeOK
    <3> QED
      BY <1>5, <2>3, <3>1, <3>2 DEF Examine, TypeOK, content, world, chain, lists
  <2> QED
    BY <1>5, <2>1, <2>2, <2>3 DEF Examine
<1>6. ASSUME pc[p] \in {"party", "verify"}, NextParty(p), UNCHANGED <<addr, content, world, faults>> PROVE TypeOK'
  <2>1. Aligned'
    BY <1>6 DEF Aligned, NextParty, TypeOK, content
  <2>2. /\ pc' \in [Plans -> {"none", "introspect", "whitelisting", "party", "verify", "counting",
                       "funding", "sending", "polling", "answered"}]
        /\ party' \in [Plans -> Parties]
    <3>1. /\ pc \in [Plans -> {"none", "introspect", "whitelisting", "party", "verify", "counting",
                       "funding", "sending", "polling", "answered"}]
          /\ party \in [Plans -> Parties]
      BY DEF TypeOK
    <3> QED
      BY <1>6, <3>1 DEF NextParty, Parties
  <2>3. at' = at \/ at' = [at EXCEPT ![p] = @ + 1]
    BY <1>6 DEF NextParty
  <2>4. at' \in [Plans -> Nat \ {0}]
    BY <2>3 DEF TypeOK
  <2> QED
    BY <1>6, <2>1, <2>2, <2>4 DEF TypeOK, content, world, chain, lists
<1>7. ASSUME ResolveParty(p) PROVE TypeOK'
  <2> DEFINE w == mapping[Current(p)[party[p]]]
  <2>1. CASE Reject(p, "unmapped")
    BY <1>7, <2>1, RejectTyped DEF ResolveParty, world, chain, lists, TypeOK, Verdicts
  <2>2. CASE /\ pc' = [pc EXCEPT ![p] = "verify"]
             /\ addr' = [addr EXCEPT ![p] = w]
             /\ UNCHANGED <<at, party, content>>
    <3>0. Aligned'
      BY <1>7, <2>2 DEF ResolveParty, Aligned, TypeOK, content
    <3>1. ASSUME w \in Wallets \cup {None} PROVE TypeOK'
      BY <1>7, <2>2, <3>0, <3>1 DEF ResolveParty, TypeOK, content, world, chain, lists
    <3>2. Current(p) \in Instruction
      BY <1>7, PlanType DEF ResolveParty, TypeOK, Aligned, Current
    <3>3. Current(p)[party[p]] \in FinIds \cup {None}
      BY <3>2 DEF Instruction, TypeOK, Parties
    <3>4. w \in Wallets \cup {None}
      BY <1>7, <3>3 DEF ResolveParty, TypeOK
    <3> QED BY <3>1, <3>4
  <2> QED
    BY <1>7, <2>1, <2>2 DEF ResolveParty
<1>8. ASSUME PartyUnlisted(p) PROVE TypeOK'
  BY <1>8, RejectTyped DEF PartyUnlisted, world, chain, lists, TypeOK, Verdicts
<1>9. ASSUME WhitelistingThrows(p) PROVE TypeOK'
  BY <1>9, RejectTyped, FaultTyped DEF WhitelistingThrows, world, chain, lists, Verdicts
<1>10. ASSUME WhitelistingPasses(p) PROVE TypeOK'
  <2>1. CASE Prefunding
    <3>0. /\ pc' = [pc EXCEPT ![p] = "counting"]
          /\ at' = [at EXCEPT ![p] = 1]
          /\ addr' = addr /\ plan' = plan
      BY <1>10, <2>1 DEF WhitelistingPasses, content
    <3>1. Aligned'
      <4>1. Aligned /\ pc \in [Plans -> {"none", "introspect", "whitelisting", "party", "verify", "counting",
                         "funding", "sending", "polling", "answered"}] /\ at \in [Plans -> Nat \ {0}]
        BY DEF TypeOK
      <4>2. ASSUME NEW q \in Plans
            PROVE  /\ pc'[q] \in {"party", "verify"} => at'[q] \in DOMAIN plan'[q]
                   /\ pc'[q] \in {"sending", "polling"} => addr'[q] # None
        BY <3>0, <4>1 DEF Aligned
      <4> QED
        BY <4>2 DEF Aligned
    <3>2. /\ pc' \in [Plans -> {"none", "introspect", "whitelisting", "party", "verify", "counting",
                         "funding", "sending", "polling", "answered"}]
      BY <1>10, <2>1 DEF WhitelistingPasses, TypeOK
    <3>3. at' = [at EXCEPT ![p] = 1]
      BY <1>10, <2>1 DEF WhitelistingPasses
    <3>4. at' \in [Plans -> Nat \ {0}]
      BY <3>3 DEF TypeOK
    <3> QED
      BY <1>10, <2>1, <3>1, <3>2, <3>4 DEF WhitelistingPasses, TypeOK, content, world, chain, lists
  <2>2. CASE ~Prefunding
    BY <1>10, <2>2, ApproveTyped DEF WhitelistingPasses
  <2> QED BY <2>1, <2>2
<1> QED
  BY <1>1, <1>2, <1>3, <1>4, <1>5, <1>6, <1>7, <1>8, <1>9, <1>10 DEF SkipParty, PartyListed

(* So does every step that counts and tops up the signing wallets. *)
LEMMA LeaveTyped ==
  ASSUME TypeOK, NEW p \in Plans, NEW w, Leave(p, w)
  PROVE  /\ pc' \in [Plans -> {"none", "introspect", "whitelisting", "party", "verify", "counting",
                         "funding", "sending", "polling", "answered"}]
         /\ due' \in [Plans -> SUBSET Wallets]
         /\ addr' \in [Plans -> Wallets \cup {None}]
         /\ Aligned'
         /\ UNCHANGED <<at, party, plan, signer, verdict, todo, since>>
BY DEF TypeOK, Aligned, Leave

LEMMA FundingTyped ==
  ASSUME TypeOK, NEW p \in Plans,
         \/ CountSigner(p) \/ ResolvingSignerFails(p) \/ CountingEnds(p) \/ FundingEnds(p)
         \/ \E w \in Wallets : EnsureGas(p, w)
         \/ SendTopUp(p) \/ SendFails(p) \/ PollSucceeds(p) \/ PollTimesOut(p)
  PROVE  TypeOK'
<1>1. ASSUME CountSigner(p) PROVE TypeOK'
  <2>1. Current(p) \in Instruction
    BY <1>1, PlanType DEF CountSigner, Current
  <2>2. Signs(Current(p)) => mapping[Current(p).source] \in Wallets \cup {None}
    BY <2>1 DEF Signs, Instruction, TypeOK
  <2>3. DOMAIN signer' = Plans /\ \A q \in Plans : signer'[q] \in [DOMAIN plan[q] -> Wallets \cup {None}]
    BY <1>1, <2>2 DEF CountSigner, TypeOK
  <2>4. at' \in [Plans -> Nat \ {0}]
    BY <1>1 DEF CountSigner, TypeOK
  <2>5. Aligned'
    BY <1>1 DEF Aligned, CountSigner, TypeOK
  <2> QED
    BY <1>1, <2>3, <2>4, <2>5 DEF CountSigner, TypeOK, world, chain, lists
<1>2. ASSUME ResolvingSignerFails(p) PROVE TypeOK'
  <2>1. at' \in [Plans -> Nat \ {0}]
    BY <1>2 DEF ResolvingSignerFails, TypeOK
  <2>2. Aligned'
    BY <1>2 DEF Aligned, ResolvingSignerFails, TypeOK, content
  <2>3. faults' \in 0..MaxFaults
    BY <1>2, FaultTyped DEF ResolvingSignerFails
  <2> QED
    BY <1>2, <2>1, <2>2, <2>3 DEF ResolvingSignerFails, TypeOK, content, world, chain, lists
<1>3. ASSUME CountingEnds(p) PROVE TypeOK'
  <2>1. Aligned'
    BY <1>3 DEF Aligned, CountingEnds, TypeOK, walk
  <2>2. {signer[p][i] : i \in DOMAIN signer[p]} \ {None} \in SUBSET Wallets
    BY DEF TypeOK
  <2>3. due' \in [Plans -> SUBSET Wallets]
    BY <1>3, <2>2 DEF CountingEnds, TypeOK
  <2>4. pc' \in [Plans -> {"none", "introspect", "whitelisting", "party", "verify", "counting",
                         "funding", "sending", "polling", "answered"}]
    BY <1>3 DEF CountingEnds, TypeOK
  <2> QED
    BY <1>3, <2>1, <2>3, <2>4 DEF CountingEnds, TypeOK, walk, world, chain, lists
<1>4. ASSUME FundingEnds(p) PROVE TypeOK'
  BY <1>4, ApproveTyped DEF FundingEnds
<1>5. ASSUME NEW w \in Wallets, EnsureGas(p, w) PROVE TypeOK'
  <2>1. CASE Returns(p, w)
    <3>1. covered' \subseteq Plans \X Wallets
      BY <2>1 DEF Returns, TypeOK
    <3> QED
      BY <1>5, <2>1, <3>1, LeaveTyped DEF EnsureGas, Returns, TypeOK, lists
  <2>2. CASE /\ pc' = [pc EXCEPT ![p] = "sending"]
             /\ addr' = [addr EXCEPT ![p] = w]
             /\ UNCHANGED <<at, party, content, covered>>
    <3>1. Aligned'
      BY <2>2, DataAssumption DEF Aligned, TypeOK, content
    <3> QED
      BY <1>5, <2>2, <3>1 DEF EnsureGas, TypeOK, content, lists
  <2> QED
    BY <1>5, <2>1, <2>2 DEF EnsureGas
<1>6. ASSUME NEW w \in Wallets, topUp' = [topUp EXCEPT ![p][w] = "pending"] \/ topUp' = topUp
      PROVE  topUp' \in [Plans -> [Wallets -> {"none", "pending", "mined"}]]
  <2>1. [topUp[p] EXCEPT ![w] = "pending"] \in [Wallets -> {"none", "pending", "mined"}]
    BY DEF TypeOK
  <2>2. CASE topUp' = topUp
    BY <2>2 DEF TypeOK
  <2>3. CASE topUp' = [topUp EXCEPT ![p][w] = "pending"]
    BY <2>1, <2>3 DEF TypeOK
  <2> QED BY <1>6, <2>2, <2>3
<1>7. ASSUME SendTopUp(p) PROVE TypeOK'
  <2>1. Aligned'
    BY <1>7 DEF Aligned, SendTopUp, TypeOK, content, walk
  <2>2. topUp' \in [Plans -> [Wallets -> {"none", "pending", "mined"}]]
    <3>1. addr[p] \in Wallets
      BY <1>7 DEF SendTopUp, TypeOK, Aligned
    <3> QED BY <1>6, <1>7, <3>1 DEF SendTopUp
  <2> QED
    BY <1>7, <2>1, <2>2 DEF SendTopUp, TypeOK, content, walk, lists
<1>8. ASSUME SendFails(p) PROVE TypeOK'
  <2>1. topUp' \in [Plans -> [Wallets -> {"none", "pending", "mined"}]]
    <3>1. addr[p] \in Wallets
      BY <1>8 DEF SendFails, TypeOK, Aligned
    <3> QED BY <1>6, <1>8, <3>1 DEF SendFails
  <2> QED
    BY <1>8, <2>1, LeaveTyped, FaultTyped DEF SendFails, TypeOK, lists
<1>9. ASSUME PollSucceeds(p) PROVE TypeOK'
  <2>1. covered' = covered \cup {<<p, addr[p]>>}
    BY <1>9 DEF PollSucceeds, Returns
  <2>2. addr[p] \in Wallets
    BY <1>9 DEF PollSucceeds, TypeOK, Aligned
  <2> QED
    BY <1>9, <2>1, <2>2, LeaveTyped DEF PollSucceeds, Returns, TypeOK, lists
<1>10. ASSUME PollTimesOut(p) PROVE TypeOK'
  BY <1>10, LeaveTyped DEF PollTimesOut, TypeOK, chain, lists
<1> QED
  BY <1>1, <1>2, <1>3, <1>4, <1>5, <1>7, <1>8, <1>9, <1>10

(* And every step of the chain, the orchestrator and the whitelist service. *)
LEMMA WorldTyped ==
  ASSUME TypeOK,
         \/ \E p \in Plans, w \in Wallets : Mine(p, w)
         \/ \E p \in Plans : \E i \in todo[p] : Execute(p, i) \/ Skip(p, i)
         \/ \E f \in FinIds, w \in Wallets \cup {None} : Rebind(f, w)
         \/ \E w \in Wallets, a \in Assets : Whitelist(w, a)
         \/ \E w \in Wallets, A \in SUBSET Assets : Dewhitelist(w, A)
         \/ Sweep
  PROVE  TypeOK'
<1>1. ASSUME NEW p \in Plans, NEW w \in Wallets, Mine(p, w) PROVE TypeOK'
  <2>1. Threshold(p, w) \in Nat
    BY TxCountType
  <2>2. gas' \in [Wallets -> Nat]
    BY <1>1, <2>1 DEF Mine, TypeOK
  <2>3. topUp' \in [Plans -> [Wallets -> {"none", "pending", "mined"}]]
    BY <1>1 DEF Mine, TypeOK
  <2>4. Aligned'
    BY <1>1 DEF Mine, TypeOK, Aligned, walk, content
  <2> QED
    BY <1>1, <2>2, <2>3, <2>4 DEF Mine, TypeOK, walk, content, lists
<1>2. ASSUME NEW p \in Plans, NEW i \in todo[p],
             DOMAIN todo' = Plans /\ \A q \in Plans : todo'[q] \subseteq todo[q],
             gas' \in [Wallets -> Nat], covered' \subseteq covered,
             UNCHANGED <<pc, walk, plan, signer, due, verdict, since, topUp, lists, sweep, faults>>
      PROVE  TypeOK'
  <2>1. Aligned'
    BY <1>2 DEF TypeOK, Aligned, walk
  <2> QED
    BY <1>2, <2>1 DEF TypeOK, walk, lists
<1>3. ASSUME NEW p \in Plans, NEW i \in todo[p], Execute(p, i) PROVE TypeOK'
  <2> DEFINE w == mapping[plan[p][i].source]
  <2>1. gas[w] > 0 /\ gas' = [gas EXCEPT ![w] = @ - 1]
    BY <1>3 DEF Execute
  <2>2. gas' \in [Wallets -> Nat]
    <3>1. CASE w \in Wallets
      <4>1. gas[w] - 1 \in Nat
        BY <2>1, <3>1 DEF TypeOK
      <4> QED BY <2>1, <4>1 DEF TypeOK
    <3>2. CASE w \notin Wallets
      <4>1. gas' = gas
        BY <2>1, <3>2 DEF TypeOK
      <4> QED BY <4>1 DEF TypeOK
    <3> QED BY <3>1, <3>2
  <2>3. DOMAIN todo' = Plans /\ \A q \in Plans : todo'[q] \subseteq todo[q]
    BY <1>3 DEF Execute, TypeOK
  <2>4. covered' \subseteq covered
    BY <1>3 DEF Execute
  <2> QED
    BY <1>2, <1>3, <2>2, <2>3, <2>4 DEF Execute
<1>4. ASSUME NEW p \in Plans, NEW i \in todo[p], Skip(p, i) PROVE TypeOK'
  <2>1. DOMAIN todo' = Plans /\ \A q \in Plans : todo'[q] \subseteq todo[q]
    BY <1>4 DEF Skip, TypeOK
  <2>2. gas' \in [Wallets -> Nat] /\ covered' \subseteq covered
    BY <1>4 DEF Skip, TypeOK, world, chain
  <2> QED
    BY <1>2, <1>4, <2>1, <2>2 DEF Skip, world, chain
<1>5. ASSUME NEW f \in FinIds, NEW w \in Wallets \cup {None}, Rebind(f, w) PROVE TypeOK'
  <2>1. Aligned'
    BY <1>5 DEF Rebind, TypeOK, Aligned, walk
  <2>2. since' \in [Plans -> SUBSET {"granted", "revoked"}]
    BY <1>5, NoteTyped DEF Rebind
  <2> QED
    BY <1>5, <2>1, <2>2, ChangeTyped DEF Rebind, TypeOK, walk, chain
<1>6. ASSUME NEW w \in Wallets, NEW a \in Assets, Whitelist(w, a) PROVE TypeOK'
  <2>1. Aligned'
    BY <1>6 DEF Whitelist, TypeOK, Aligned, walk
  <2>2. since' \in [Plans -> SUBSET {"granted", "revoked"}]
    BY <1>6, NoteTyped DEF Whitelist
  <2>3. listed' \subseteq Wallets \X Assets
    BY <1>6 DEF Whitelist, TypeOK
  <2> QED
    BY <1>6, <2>1, <2>2, <2>3 DEF Whitelist, TypeOK, walk, chain
<1>7. ASSUME UNCHANGED <<pc, walk, content, chain, mapping>>, changes' \in 0..MaxChanges, faults' \in 0..MaxFaults,
             listed' \subseteq listed,
             sweep' \in [pc : {"idle", "sweeping", "removing", "returned", "refused"},
                wallet : Wallets \cup {None}, left : SUBSET Assets, asset : Assets \cup {None},
                refused : SUBSET Assets, scope : SUBSET Assets],
             sweep'.pc = "removing" => sweep'.asset # None
      PROVE  TypeOK'
  <2>1. Aligned'
    BY <1>7 DEF TypeOK, Aligned, walk, content
  <2> QED
    BY <1>7, <2>1 DEF TypeOK, walk, content, chain
<1>8. ASSUME NEW w \in Wallets, NEW A \in SUBSET Assets, Dewhitelist(w, A) PROVE TypeOK'
  BY <1>7, <1>8, ChangeTyped DEF Dewhitelist, TypeOK
<1>9. ASSUME NEW a \in Assets, SweepLooks(a) PROVE TypeOK'
  BY <1>7, <1>9, DataAssumption DEF SweepLooks, TypeOK, lists
<1>10. ASSUME SweepRemoves PROVE TypeOK'
  <2>1. Aligned'
    BY <1>10 DEF SweepRemoves, TypeOK, Aligned, walk
  <2>2. since' \in [Plans -> SUBSET {"granted", "revoked"}]
    BY <1>10, NoteTyped DEF SweepRemoves
  <2>3. listed' \subseteq Wallets \X Assets
    BY <1>10 DEF SweepRemoves, TypeOK
  <2> QED
    BY <1>10, <2>1, <2>2, <2>3 DEF SweepRemoves, TypeOK, walk, chain
<1>11. ASSUME SweepIsRefused PROVE TypeOK'
  <2>1. sweep.refused \cup {sweep.asset} \in SUBSET Assets
    BY <1>11 DEF SweepIsRefused, TypeOK
  <2> QED
    BY <1>7, <1>11, <2>1 DEF SweepIsRefused, TypeOK, lists
<1>12. ASSUME SweepThrows PROVE TypeOK'
  BY <1>7, <1>12, FaultTyped DEF SweepThrows, NoSweep, TypeOK, lists
<1>13. ASSUME SweepEnds PROVE TypeOK'
  BY <1>7, <1>13 DEF SweepEnds, NoSweep, TypeOK, lists
<1> QED
  BY <1>1, <1>3, <1>4, <1>5, <1>6, <1>8, <1>9, <1>10, <1>11, <1>12, <1>13 DEF Sweep

(* TypeOK holds in every reachable state. *)
THEOREM Typed == Spec => []TypeOK
<1>1. Init => TypeOK
  BY InitTyped
<1>2. TypeOK /\ [Next]_vars => TypeOK'
  <2> SUFFICES ASSUME TypeOK, [Next]_vars PROVE TypeOK'
    OBVIOUS
  <2>1. CASE UNCHANGED vars
    <3>1. Aligned'
      BY <2>1 DEF TypeOK, Aligned, vars, walk, content
    <3> QED
      BY <2>1, <3>1 DEF TypeOK, vars, walk, content, world, chain, lists
  <2>2. CASE Next
    BY <2>2, WhitelistingTyped, FundingTyped, WorldTyped DEF Next, Approval, ApprovalFails
  <2> QED BY <2>1, <2>2
<1> QED
  BY <1>1, <1>2, PTL DEF Spec

-----------------------------------------------------------------------------
(***************************************************************************)
(* Gas: what is spent on a plan, and what it suffices for                  *)
(***************************************************************************)
(* The calls to which the gas station has not got yet, or never will. *)
Unpaid(p) == pc[p] \notin {"funding", "sending", "polling"} /\ verdict[p] # "approved"

FundInv == \A p \in Plans :
  /\ pc[p] = "answered" <=> verdict[p] # "none"
  /\ Unpaid(p) => \A w \in Wallets : topUp[p][w] = "none" /\ <<p, w>> \notin covered

(* What plan p has yet to sign with wallet w. *)
Left(p, w) == {i \in todo[p] : signer[p][i] = w}
GasInv == \A c \in covered : gas[c[2]] >= Cardinality(Left(c[1], c[2]))

LEMMA LeftFinite ==
  ASSUME TypeOK, NEW p \in Plans, NEW w
  PROVE  /\ IsFiniteSet(Left(p, w)) /\ Cardinality(Left(p, w)) \in Nat
         /\ Cardinality(Left(p, w)) <= TxCount(p, w)
<1>1. Left(p, w) \subseteq {i \in DOMAIN signer[p] : signer[p][i] = w}
  BY DEF TypeOK, Left
<1>2. IsFiniteSet({i \in DOMAIN signer[p] : signer[p][i] = w})
  <2>1. DOMAIN signer[p] = DOMAIN plan[p]
    BY DEF TypeOK
  <2> QED
    BY <2>1, PlanFinite, FS_Subset
<1> QED
  BY <1>1, <1>2, FS_Subset, FS_CardinalityType DEF TxCount

(* The rejections come before the gas station; nothing else empties a plan. *)
LEMMA RejectUnpaid ==
  ASSUME TypeOK, FundInv, NEW p \in Plans, NEW v \in Verdicts \ {"none", "approved"}, Unpaid(p),
         Reject(p, v), UNCHANGED world
  PROVE  FundInv'
<1>1. ASSUME NEW q \in Plans, q # p
      PROVE  /\ pc'[q] = pc[q] /\ verdict'[q] = verdict[q]
             /\ topUp' = topUp /\ covered' = covered
  BY <1>1 DEF Reject, Answer, TypeOK, world, chain
<1>2. pc'[p] = "answered" /\ verdict'[p] = v /\ topUp' = topUp /\ covered' = covered
  BY DEF Reject, Answer, TypeOK, world, chain
<1> SUFFICES ASSUME NEW q \in Plans
             PROVE  /\ pc'[q] = "answered" <=> verdict'[q] # "none"
                    /\ Unpaid(q)' => \A w \in Wallets : topUp'[q][w] = "none" /\ <<q, w>> \notin covered'
  BY DEF FundInv
<1>3. CASE q = p
  BY <1>2, <1>3 DEF FundInv
<1>4. CASE q # p
  BY <1>1, <1>4 DEF FundInv, Unpaid
<1> QED BY <1>3, <1>4

(* A plan the gas station has paid for is one of those. *)
LEMMA ApproveKeeps ==
  ASSUME TypeOK, FundInv, NEW p \in Plans, Approve(p), UNCHANGED world
  PROVE  FundInv'
<1>1. ASSUME NEW q \in Plans, q # p
      PROVE  pc'[q] = pc[q] /\ verdict'[q] = verdict[q]
  BY <1>1 DEF Approve, Answer, TypeOK
<1>2. pc'[p] = "answered" /\ verdict'[p] = "approved"
  BY DEF Approve, Answer, TypeOK
<1>3. topUp' = topUp /\ covered' = covered
  BY DEF world, chain
<1> QED
  BY <1>1, <1>2, <1>3 DEF FundInv, Unpaid

(* A step of one call that neither answers nor pays, from before the gas
   station to wherever. *)
LEMMA StepKeeps ==
  ASSUME TypeOK, FundInv, NEW p \in Plans, NEW s, pc[p] # "answered", s # "answered",
         pc' = [pc EXCEPT ![p] = s] \/ (pc' = pc /\ s = pc[p]),
         Unpaid(p) \/ s \in {"funding", "sending", "polling"},
         verdict' = verdict, topUp' = topUp, covered' = covered
  PROVE  FundInv'
<1>1. \A q \in Plans : q # p => pc'[q] = pc[q]
  BY DEF TypeOK
<1>2. pc'[p] = s
  BY DEF TypeOK
<1> QED
  BY <1>1, <1>2 DEF FundInv, Unpaid

LEMMA FundStep ==
  ASSUME TypeOK, FundInv, [Next]_vars
  PROVE  FundInv'
<1>1. ASSUME NEW p \in Plans, BaseApproves(p) PROVE FundInv'
  BY <1>1, StepKeeps DEF BaseApproves, FundInv, Unpaid, content, world, chain
<1>2. ASSUME NEW p \in Plans,
             BaseRejects(p) \/ IntrospectionFails(p) \/ PartyUnlisted(p) \/ WhitelistingThrows(p)
      PROVE  FundInv'
  <2>1. Unpaid(p)
    BY <1>2 DEF BaseRejects, IntrospectionFails, PartyUnlisted, WhitelistingThrows, Unpaid, FundInv
  <2> QED
    BY <1>2, <2>1, RejectUnpaid
       DEF BaseRejects, IntrospectionFails, PartyUnlisted, WhitelistingThrows, Verdicts
<1>3. ASSUME NEW p \in Plans, Introspect(p) PROVE FundInv'
  BY <1>3, StepKeeps DEF Introspect, FundInv, Unpaid, world, chain
<1>4. ASSUME NEW p \in Plans, Examine(p) PROVE FundInv'
  <2>0. Unpaid(p) /\ pc[p] # "answered"
    BY <1>4 DEF Examine, Unpaid, FundInv
  <2>1. CASE Reject(p, "unregistered")
    BY <1>4, <2>0, <2>1, RejectUnpaid DEF Examine, Verdicts
  <2>2. CASE pc' = [pc EXCEPT ![p] = "party"] /\ UNCHANGED content
    BY <1>4, <2>0, <2>2, StepKeeps DEF Examine, content, world, chain
  <2>3. CASE pc' = pc /\ UNCHANGED content
    BY <1>4, <2>0, <2>3, StepKeeps DEF Examine, content, world, chain
  <2> QED
    BY <1>4, <2>1, <2>2, <2>3 DEF Examine
<1>5. ASSUME NEW p \in Plans, SkipParty(p) \/ PartyListed(p) PROVE FundInv'
  <2>0. Unpaid(p) /\ pc[p] # "answered"
    BY <1>5 DEF SkipParty, PartyListed, Unpaid, FundInv
  <2> QED
    BY <1>5, <2>0, StepKeeps DEF SkipParty, PartyListed, NextParty, content, world, chain
<1>6. ASSUME NEW p \in Plans, ResolveParty(p) PROVE FundInv'
  <2>0. Unpaid(p) /\ pc[p] # "answered"
    BY <1>6 DEF ResolveParty, Unpaid, FundInv
  <2>1. CASE Reject(p, "unmapped")
    BY <1>6, <2>0, <2>1, RejectUnpaid DEF ResolveParty, Verdicts
  <2>2. CASE pc' = [pc EXCEPT ![p] = "verify"] /\ UNCHANGED content
    BY <1>6, <2>0, <2>2, StepKeeps DEF ResolveParty, content, world, chain
  <2> QED
    BY <1>6, <2>1, <2>2 DEF ResolveParty
<1>7. ASSUME NEW p \in Plans, WhitelistingPasses(p) PROVE FundInv'
  <2>0. Unpaid(p) /\ pc[p] # "answered"
    BY <1>7 DEF WhitelistingPasses, Unpaid, FundInv
  <2>1. CASE Prefunding
    BY <1>7, <2>0, <2>1, StepKeeps DEF WhitelistingPasses, content, world, chain
  <2>2. CASE ~Prefunding
    BY <1>7, <2>2, ApproveKeeps DEF WhitelistingPasses
  <2> QED BY <2>1, <2>2
<1>8. ASSUME NEW p \in Plans, CountSigner(p) \/ ResolvingSignerFails(p) \/ CountingEnds(p) PROVE FundInv'
  <2>0. Unpaid(p) /\ pc[p] # "answered"
    BY <1>8 DEF CountSigner, ResolvingSignerFails, CountingEnds, Unpaid, FundInv
  <2> QED
    BY <1>8, <2>0, StepKeeps DEF CountSigner, ResolvingSignerFails, CountingEnds, content, world, chain
<1>9. ASSUME NEW p \in Plans, FundingEnds(p) PROVE FundInv'
  BY <1>9, ApproveKeeps DEF FundingEnds
<1>10. ASSUME NEW p \in Plans, NEW w, pc'[p] \in {"funding", "sending", "polling"}, verdict' = verdict,
              pc[p] \in {"funding", "sending", "polling"},
              \A q \in Plans : q # p => pc'[q] = pc[q] /\ topUp'[q] = topUp[q],
              covered' \subseteq covered \cup {<<p, w>>}
       PROVE  FundInv'
  BY <1>10 DEF FundInv, Unpaid
<1>11. ASSUME NEW p \in Plans, NEW w \in Wallets, EnsureGas(p, w) PROVE FundInv'
  <2>1. covered' \subseteq covered \cup {<<p, w>>}
    BY <1>11 DEF EnsureGas, Returns
  <2>2. verdict' = verdict /\ topUp' = topUp /\ pc[p] = "funding"
    BY <1>11 DEF EnsureGas, Returns, Leave, content
  <2>3. pc' = [pc EXCEPT ![p] = "funding"] \/ pc' = [pc EXCEPT ![p] = "sending"]
    BY <1>11 DEF EnsureGas, Returns, Leave
  <2>4. pc'[p] \in {"funding", "sending", "polling"} /\ \A q \in Plans : q # p => pc'[q] = pc[q]
    BY <2>3 DEF TypeOK
  <2> QED
    BY <1>10, <2>1, <2>2, <2>4
<1>12. ASSUME NEW p \in Plans, NEW w, w = addr[p],
              SendTopUp(p) \/ SendFails(p) \/ PollSucceeds(p) \/ PollTimesOut(p)
       PROVE  FundInv'
  <2>1. covered' \subseteq covered \cup {<<p, w>>}
    BY <1>12 DEF SendTopUp, SendFails, PollSucceeds, PollTimesOut, Returns, chain
  <2>2. verdict' = verdict /\ pc[p] \in {"funding", "sending", "polling"}
    BY <1>12 DEF SendTopUp, SendFails, PollSucceeds, PollTimesOut, Returns, Leave, content
  <2>3. \A q \in Plans : q # p => topUp'[q] = topUp[q]
    BY <1>12 DEF SendTopUp, SendFails, PollSucceeds, PollTimesOut, chain, TypeOK
  <2>4. pc' = [pc EXCEPT ![p] = "funding"] \/ pc' = [pc EXCEPT ![p] = "polling"]
    BY <1>12 DEF SendTopUp, SendFails, PollSucceeds, PollTimesOut, Returns, Leave
  <2>5. pc'[p] \in {"funding", "sending", "polling"} /\ \A q \in Plans : q # p => pc'[q] = pc[q]
    BY <2>4 DEF TypeOK
  <2> QED
    BY <1>10, <2>1, <2>2, <2>3, <2>5
<1>14. ASSUME NEW p \in Plans, SendTopUp(p) \/ SendFails(p) \/ PollSucceeds(p) \/ PollTimesOut(p)
       PROVE  FundInv'
  BY <1>12, <1>14
<1>15. ASSUME pc' = pc, verdict' = verdict, covered' \subseteq covered,
              \A p \in Plans, w \in Wallets : topUp[p][w] = "none" => topUp'[p][w] = "none"
       PROVE  FundInv'
  BY <1>15 DEF FundInv, Unpaid
<1>16. ASSUME NEW p \in Plans, NEW w \in Wallets, Mine(p, w) PROVE FundInv'
  <2>1. \A q \in Plans, x \in Wallets : topUp[q][x] = "none" => topUp'[q][x] = "none"
    BY <1>16 DEF Mine, TypeOK
  <2> QED
    BY <1>15, <1>16, <2>1 DEF Mine, content
<1>17. ASSUME NEW p \in Plans, NEW i \in todo[p], Execute(p, i) \/ Skip(p, i) PROVE FundInv'
  BY <1>15, <1>17 DEF Execute, Skip, world, chain
<1>18. ASSUME NEW f \in FinIds, NEW w \in Wallets \cup {None}, Rebind(f, w) PROVE FundInv'
  BY <1>15, <1>18 DEF Rebind, chain
<1>19. ASSUME NEW w \in Wallets, NEW a \in Assets, Whitelist(w, a) PROVE FundInv'
  BY <1>15, <1>19 DEF Whitelist, chain
<1>20. ASSUME NEW w \in Wallets, NEW A \in SUBSET Assets, Dewhitelist(w, A) PROVE FundInv'
  BY <1>15, <1>20 DEF Dewhitelist, content, chain
<1>21. ASSUME Sweep PROVE FundInv'
  BY <1>15, <1>21 DEF Sweep, SweepLooks, SweepRemoves, SweepIsRefused, SweepThrows, SweepEnds, content, chain
<1>22. ASSUME UNCHANGED vars PROVE FundInv'
  BY <1>15, <1>22 DEF vars, content, world, chain
<1> QED
  BY <1>1, <1>2, <1>3, <1>4, <1>5, <1>6, <1>7, <1>8, <1>9, <1>11, <1>14,
     <1>16, <1>17, <1>18, <1>19, <1>20, <1>21, <1>22 DEF Next, Approval, ApprovalFails

(* The gas station sends nothing for a plan that is rejected. *)
THEOREM VetoedUnfunded == Spec => []VetoedIsUnfunded
<1>1. Init => FundInv
  BY DEF Init, FundInv
<1>2. TypeOK /\ FundInv /\ [Next]_vars => FundInv'
  BY FundStep
<1>3. FundInv => VetoedIsUnfunded
  BY DEF FundInv, Unpaid, VetoedIsUnfunded
<1> QED
  BY <1>1, <1>2, <1>3, Typed, PTL DEF Spec

(* A wallet that pays for nothing keeps what it needs. *)
LEMMA GasKept ==
  ASSUME TypeOK, TypeOK', GasInv, NEW c \in covered,
         gas'[c[2]] >= gas[c[2]], Left(c[1], c[2])' \subseteq Left(c[1], c[2])
  PROVE  gas'[c[2]] >= Cardinality(Left(c[1], c[2])')
<1>1. c[1] \in Plans /\ c[2] \in Wallets
  BY DEF TypeOK
<1>2. Cardinality(Left(c[1], c[2])') <= Cardinality(Left(c[1], c[2]))
  BY <1>1, LeftFinite, FS_Subset
<1>3. gas[c[2]] \in Nat /\ gas'[c[2]] \in Nat
  BY <1>1 DEF TypeOK
<1>4. Cardinality(Left(c[1], c[2])) \in Nat
  BY <1>1, LeftFinite
<1>5. IsFiniteSet(Left(c[1], c[2])')
  BY <1>1, LeftFinite, FS_Subset
<1>6. Cardinality(Left(c[1], c[2])') \in Nat
  BY <1>5, FS_CardinalityType
<1> QED
  BY <1>2, <1>3, <1>4, <1>6 DEF GasInv

(* No step but a payment takes gas from a wallet, and a plan that is covered
   neither gets new instructions nor other signers. *)
LEMMA GasStepsKeep ==
  ASSUME TypeOK, TypeOK', GasInv, covered' \subseteq covered,
         \A c \in covered : gas'[c[2]] >= gas[c[2]],
         \A c \in covered : todo'[c[1]] \subseteq todo[c[1]] /\ signer'[c[1]] = signer[c[1]]
  PROVE  GasInv'
<1> SUFFICES ASSUME NEW c \in covered
             PROVE  gas'[c[2]] >= Cardinality(Left(c[1], c[2])')
  BY DEF GasInv
<1>1. Left(c[1], c[2])' \subseteq Left(c[1], c[2])
  BY DEF Left
<1> QED
  BY <1>1, GasKept

(* A top-up that returned suffices for the whole plan. *)
LEMMA ReturnCovers ==
  ASSUME TypeOK, TypeOK', GasInv, NEW p \in Plans, NEW w \in Wallets, Enough(p, w), Returns(p, w),
         gas' = gas
  PROVE  GasInv'
<1>1. todo' = todo /\ signer' = signer /\ covered' = covered \cup {<<p, w>>}
  BY DEF Returns, Leave
<1> SUFFICES ASSUME NEW c \in covered'
             PROVE  gas'[c[2]] >= Cardinality(Left(c[1], c[2])')
  BY DEF GasInv
<1>2. CASE c \in covered
  <2>1. Left(c[1], c[2])' \subseteq Left(c[1], c[2])
    BY <1>1 DEF Left
  <2>2. gas'[c[2]] >= gas[c[2]]
    BY <1>2 DEF TypeOK
  <2> QED
    BY <1>2, <2>1, <2>2, GasKept
<1>3. CASE c = <<p, w>>
  <2>1. Left(p, w)' = Left(p, w)
    BY <1>1 DEF Left
  <2>2. Cardinality(Left(p, w)) <= TxCount(p, w) /\ Cardinality(Left(p, w)) \in Nat
    BY LeftFinite
  <2>3. Threshold(p, w) >= TxCount(p, w) /\ Threshold(p, w) \in Nat /\ TxCount(p, w) \in Nat
    BY TxCountType
  <2>4. gas[w] >= Threshold(p, w) /\ gas[w] \in Nat
    BY DEF Enough, TypeOK
  <2>5. gas[w] >= Cardinality(Left(p, w))
    BY <2>2, <2>3, <2>4
  <2> QED
    BY <1>3, <2>1, <2>5
<1> QED
  BY <1>1, <1>2, <1>3

(* A payment the plan counted on takes one transaction off both sides. *)
LEMMA ExecuteCovers ==
  ASSUME TypeOK, TypeOK', GasInv, NEW p \in Plans, NEW i \in todo[p], Execute(p, i)
  PROVE  GasInv'
<1>0. PICK w : w = mapping[plan[p][i].source]
  OBVIOUS
<1>1. /\ gas' = [gas EXCEPT ![w] = @ - 1]
      /\ covered' = {c \in covered : c[2] # w \/ (c[1] = p /\ signer[p][i] = w)}
      /\ todo' = [todo EXCEPT ![p] = @ \ {i}]
      /\ signer' = signer
  BY <1>0 DEF Execute
<1> SUFFICES ASSUME NEW c \in covered'
             PROVE  gas'[c[2]] >= Cardinality(Left(c[1], c[2])')
  BY DEF GasInv
<1>2. c \in covered /\ c[1] \in Plans /\ c[2] \in Wallets /\ gas[c[2]] \in Nat
  BY <1>1 DEF TypeOK
<1>3. Left(c[1], c[2])' \subseteq Left(c[1], c[2])
  BY <1>1, <1>2 DEF Left, TypeOK
<1>4. CASE c[2] # w
  <2>1. gas'[c[2]] >= gas[c[2]]
    BY <1>1, <1>2, <1>4 DEF TypeOK
  <2> QED
    BY <1>2, <1>3, <2>1, GasKept
<1>5. CASE c[2] = w
  <2>1. c[1] = p /\ signer[p][i] = w
    BY <1>1, <1>5
  <2>2. i \in Left(p, w)
    BY <2>1 DEF Left
  <2>3. Left(p, w)' = Left(p, w) \ {i}
    <3>1. todo'[p] = todo[p] \ {i}
      BY <1>1 DEF TypeOK
    <3> QED BY <1>1, <3>1 DEF Left
  <2>4. IsFiniteSet(Left(p, w)) /\ Cardinality(Left(p, w)) \in Nat
    BY LeftFinite
  <2>5. Cardinality(Left(p, w) \ {i}) = Cardinality(Left(p, w)) - 1
    BY <2>2, <2>4, FS_RemoveElement
  <2>6. gas[w] >= Cardinality(Left(p, w))
    BY <1>2, <1>5, <2>1 DEF GasInv
  <2>7. gas'[w] = gas[w] - 1
    BY <1>1, <1>2, <1>5 DEF TypeOK
  <2>8. gas'[w] >= Cardinality(Left(p, w) \ {i})
    BY <1>2, <1>5, <2>4, <2>5, <2>6, <2>7
  <2> QED
    BY <1>5, <2>1, <2>3, <2>8
<1> QED
  BY <1>4, <1>5

(* What the steps of a call leave alone, as far as gas goes. *)
LEMMA CallKeepsGas ==
  ASSUME TypeOK, TypeOK', FundInv, GasInv, NEW p \in Plans, gas' = gas, covered' = covered,
         \/ UNCHANGED <<todo, signer>>
         \/ /\ Unpaid(p)
            /\ \A q \in Plans : q # p => todo'[q] = todo[q] /\ signer'[q] = signer[q]
  PROVE  GasInv'
<1>1. \A c \in covered : gas'[c[2]] >= gas[c[2]]
  BY DEF TypeOK
<1>2. ASSUME NEW c \in covered
      PROVE  todo'[c[1]] \subseteq todo[c[1]] /\ signer'[c[1]] = signer[c[1]]
  <2>1. c[1] \in Plans /\ c[2] \in Wallets /\ c = <<c[1], c[2]>>
    BY DEF TypeOK
  <2>2. Unpaid(p) => c[1] # p
    BY <2>1 DEF FundInv
  <2> QED
    BY <2>1, <2>2
<1> QED
  BY <1>1, <1>2, GasStepsKeep

LEMMA RejectKeepsGas ==
  ASSUME TypeOK, TypeOK', FundInv, GasInv, NEW p \in Plans, NEW v, Unpaid(p), Reject(p, v), gas' = gas, covered' = covered
  PROVE  GasInv'
<1>1. \A q \in Plans : q # p => todo'[q] = todo[q] /\ signer'[q] = signer[q]
  BY DEF Reject, TypeOK
<1> QED
  BY <1>1, CallKeepsGas

LEMMA GasStep ==
  ASSUME TypeOK, TypeOK', FundInv, GasInv, [Next]_vars
  PROVE  GasInv'
<1>1. ASSUME NEW p \in Plans,
             BaseRejects(p) \/ IntrospectionFails(p) \/ PartyUnlisted(p) \/ WhitelistingThrows(p)
      PROVE  GasInv'
  <2>1. Unpaid(p)
    BY <1>1 DEF BaseRejects, IntrospectionFails, PartyUnlisted, WhitelistingThrows, Unpaid, FundInv
  <2> QED
    BY <1>1, <2>1, RejectKeepsGas
       DEF BaseRejects, IntrospectionFails, PartyUnlisted, WhitelistingThrows, world, chain
<1>2. ASSUME NEW p \in Plans, Introspect(p) PROVE GasInv'
  <2>1. Unpaid(p)
    BY <1>2 DEF Introspect, Unpaid, FundInv
  <2>2. \A q \in Plans : q # p => todo'[q] = todo[q] /\ signer'[q] = signer[q]
    BY <1>2 DEF Introspect, TypeOK
  <2> QED
    BY <1>2, <2>1, <2>2, CallKeepsGas DEF Introspect, world, chain
<1>3. ASSUME NEW p \in Plans, Examine(p) PROVE GasInv'
  <2>1. Unpaid(p)
    BY <1>3 DEF Examine, Unpaid, FundInv
  <2>2. CASE Reject(p, "unregistered")
    BY <1>3, <2>1, <2>2, RejectKeepsGas DEF Examine, world, chain
  <2>3. CASE UNCHANGED content
    BY <1>3, <2>3, CallKeepsGas DEF Examine, content, world, chain
  <2> QED
    BY <1>3, <2>2, <2>3 DEF Examine
<1>4. ASSUME NEW p \in Plans, ResolveParty(p) PROVE GasInv'
  <2>1. Unpaid(p)
    BY <1>4 DEF ResolveParty, Unpaid, FundInv
  <2>2. CASE Reject(p, "unmapped")
    BY <1>4, <2>1, <2>2, RejectKeepsGas DEF ResolveParty, world, chain
  <2>3. CASE UNCHANGED content
    BY <1>4, <2>3, CallKeepsGas DEF ResolveParty, content, world, chain
  <2> QED
    BY <1>4, <2>2, <2>3 DEF ResolveParty
<1>5. ASSUME NEW p \in Plans, BaseApproves(p) \/ SkipParty(p) \/ PartyListed(p) \/ ResolvingSignerFails(p)
      PROVE  GasInv'
  BY <1>5, CallKeepsGas DEF BaseApproves, SkipParty, PartyListed, ResolvingSignerFails, content, world, chain
<1>6. ASSUME NEW p \in Plans, WhitelistingPasses(p) \/ FundingEnds(p) PROVE GasInv'
  BY <1>6, CallKeepsGas DEF WhitelistingPasses, FundingEnds, Approve, content, world, chain
<1>7. ASSUME NEW p \in Plans, CountSigner(p) PROVE GasInv'
  <2>1. Unpaid(p)
    BY <1>7 DEF CountSigner, Unpaid, FundInv
  <2>2. \A q \in Plans : q # p => todo'[q] = todo[q] /\ signer'[q] = signer[q]
    BY <1>7 DEF CountSigner, TypeOK
  <2> QED
    BY <1>7, <2>1, <2>2, CallKeepsGas DEF CountSigner, world, chain
<1>8. ASSUME NEW p \in Plans, CountingEnds(p) \/ SendTopUp(p) \/ SendFails(p) \/ PollTimesOut(p) PROVE GasInv'
  BY <1>8, CallKeepsGas DEF CountingEnds, SendTopUp, SendFails, PollTimesOut, Leave, content, world, chain
<1>9. ASSUME NEW p \in Plans, NEW w \in Wallets, EnsureGas(p, w) PROVE GasInv'
  <2>1. CASE Enough(p, w)
    BY <1>9, <2>1, ReturnCovers DEF EnsureGas
  <2>2. CASE ~Enough(p, w)
    BY <1>9, <2>2, CallKeepsGas DEF EnsureGas, content
  <2> QED BY <2>1, <2>2
<1>10. ASSUME NEW p \in Plans, PollSucceeds(p) PROVE GasInv'
  <2>1. addr[p] \in Wallets
    BY <1>10 DEF PollSucceeds, TypeOK, Aligned
  <2> QED
    BY <1>10, <2>1, ReturnCovers DEF PollSucceeds
<1>11. ASSUME NEW p \in Plans, NEW w \in Wallets, Mine(p, w) PROVE GasInv'
  <2>1. Threshold(p, w) \in Nat
    BY TxCountType
  <2>2. \A x \in Wallets : gas'[x] >= gas[x]
    BY <1>11, <2>1 DEF Mine, TypeOK
  <2>3. \A c \in covered : c[2] \in Wallets
    BY DEF TypeOK
  <2> QED
    BY <1>11, <2>2, <2>3, GasStepsKeep DEF Mine, content
<1>12. ASSUME NEW p \in Plans, NEW i \in todo[p], Execute(p, i) PROVE GasInv'
  BY <1>12, ExecuteCovers
<1>13. ASSUME NEW p \in Plans, NEW i \in todo[p], Skip(p, i) PROVE GasInv'
  <2>1. \A q \in Plans : todo'[q] \subseteq todo[q]
    BY <1>13 DEF Skip, TypeOK
  <2>2. \A c \in covered : c[1] \in Plans /\ c[2] \in Wallets
    BY DEF TypeOK
  <2>3. gas' = gas /\ covered' = covered /\ signer' = signer
    BY <1>13 DEF Skip, world, chain
  <2>4. gas \in [Wallets -> Nat]
    BY DEF TypeOK
  <2>5. \A c \in covered : gas'[c[2]] >= gas[c[2]]
    BY <2>2, <2>3, <2>4
  <2>6. \A c \in covered : todo'[c[1]] \subseteq todo[c[1]] /\ signer'[c[1]] = signer[c[1]]
    BY <2>1, <2>2, <2>3
  <2> QED
    BY <2>3, <2>5, <2>6, GasStepsKeep
<1>14. ASSUME UNCHANGED <<gas, covered, todo, signer>> PROVE GasInv'
  BY <1>14 DEF GasInv, Left
<1>15. ASSUME NEW f \in FinIds, NEW w \in Wallets \cup {None}, Rebind(f, w) PROVE GasInv'
  BY <1>14, <1>15 DEF Rebind, chain
<1>16. ASSUME NEW w \in Wallets, NEW a \in Assets, Whitelist(w, a) PROVE GasInv'
  BY <1>14, <1>16 DEF Whitelist, chain
<1>17. ASSUME NEW w \in Wallets, NEW A \in SUBSET Assets, Dewhitelist(w, A) PROVE GasInv'
  BY <1>14, <1>17 DEF Dewhitelist, content, chain
<1>18. ASSUME Sweep PROVE GasInv'
  BY <1>14, <1>18 DEF Sweep, SweepLooks, SweepRemoves, SweepIsRefused, SweepThrows, SweepEnds, content, chain
<1>19. ASSUME UNCHANGED vars PROVE GasInv'
  BY <1>14, <1>19 DEF vars, content, world, chain
<1> QED
  BY <1>1, <1>2, <1>3, <1>4, <1>5, <1>6, <1>7, <1>8, <1>9, <1>10, <1>11, <1>12, <1>13,
     <1>15, <1>16, <1>17, <1>18, <1>19 DEF Next, Approval, ApprovalFails

(* A wallet whose top-up returned can pay for what its plan has yet to sign. *)
THEOREM CoveredSuffices == Spec => []CoveredHasGas
<1>1. Init => FundInv /\ GasInv
  BY DEF Init, FundInv, GasInv
<1>2. TypeOK /\ TypeOK' /\ FundInv /\ GasInv /\ [Next]_vars => FundInv' /\ GasInv'
  BY FundStep, GasStep
<1>3. GasInv => CoveredHasGas
  BY DEF GasInv, Left, CoveredHasGas
<1> QED
  BY <1>1, <1>2, <1>3, Typed, PTL DEF Spec

-----------------------------------------------------------------------------
(***************************************************************************)
(* Whitelisting: what the walk over the plan has established               *)
(***************************************************************************)
Kept(p) == "revoked" \notin since[p]
Rebound(p) == "revoked" \in since[p] /\ "granted" \in since[p]
PartyOK(p, i, s) == plan[p][i][s] # None => <<mapping[plan[p][i][s]], plan[p][i].asset>> \in listed
Good(p, i) == Checked(plan[p][i]) =>
  /\ Standard[plan[p][i].asset] # "unregistered"
  /\ Kept(p) /\ Standard[plan[p][i].asset] = "whitelisting" =>
       PartyOK(p, i, "source") /\ PartyOK(p, i, "destination")

(* The instructions before the current one are cleared, and the source of the
   current one before its destination is looked at; the address to verify is
   the investor's, unless that was changed. *)
WalkInv(p) ==
  /\ pc[p] \in {"none", "introspect"} => at[p] = 1
  /\ pc[p] \in {"whitelisting", "party", "verify"} => \A i \in DOMAIN plan[p] : i < at[p] => Good(p, i)
  /\ pc[p] \in {"counting", "funding", "sending", "polling"} => \A i \in DOMAIN plan[p] : Good(p, i)
  /\ pc[p] \in {"party", "verify"} =>
       /\ Checked(Current(p)) /\ Standard[Current(p).asset] = "whitelisting"
       /\ party[p] = "destination" /\ Kept(p) => PartyOK(p, at[p], "source")
  /\ pc[p] = "verify" =>
       /\ Current(p)[party[p]] # None
       /\ ~Rebound(p) => addr[p] = mapping[Current(p)[party[p]]]
ClearInv == \A p \in Plans : WalkInv(p)

(* What others do to the whitelists and the mapping leaves what a call has
   established, or leaves a mark. *)
LEMMA WalkFrame ==
  ASSUME TypeOK, NEW p \in Plans, WalkInv(p),
         pc'[p] = pc[p], at'[p] = at[p], party'[p] = party[p], addr'[p] = addr[p], plan'[p] = plan[p],
         \/ pc[p] \in {"none", "introspect", "answered"}
         \/ /\ since[p] \subseteq since'[p]
            /\ Kept(p)' => mapping' = mapping /\ listed \subseteq listed'
            /\ ~Rebound(p)' => mapping' = mapping
  PROVE  WalkInv(p)'
<1>1. CASE pc[p] \in {"none", "introspect", "answered"}
  BY <1>1 DEF WalkInv
<1>2. CASE pc[p] \notin {"none", "introspect", "answered"}
  <2>1. Kept(p)' => Kept(p) /\ mapping' = mapping /\ listed \subseteq listed'
    BY <1>2 DEF Kept
  <2>2. ~Rebound(p)' => ~Rebound(p) /\ mapping' = mapping
    BY <1>2 DEF Rebound
  <2>3. ASSUME NEW i, NEW s, Kept(p)', PartyOK(p, i, s) PROVE PartyOK(p, i, s)'
    BY <2>1, <2>3 DEF PartyOK
  <2>4. ASSUME NEW i, Good(p, i) PROVE Good(p, i)'
    BY <2>1, <2>3, <2>4 DEF Good
  <2>5. Current(p)' = Current(p)
    BY DEF Current
  <2> QED
    BY <2>1, <2>2, <2>3, <2>4, <2>5 DEF WalkInv
<1> QED BY <1>1, <1>2

(* A step of one call leaves the others alone. *)
LEMMA OthersWalk ==
  ASSUME TypeOK, ClearInv, NEW p \in Plans, WalkInv(p)', UNCHANGED <<mapping, listed>>,
         \A q \in Plans : q # p =>
           /\ pc'[q] = pc[q] /\ at'[q] = at[q] /\ party'[q] = party[q] /\ addr'[q] = addr[q]
           /\ plan'[q] = plan[q] /\ since'[q] = since[q]
  PROVE  ClearInv'
<1> SUFFICES ASSUME NEW q \in Plans, q # p PROVE WalkInv(q)'
  BY DEF ClearInv
<1>1. WalkInv(q)
  BY DEF ClearInv
<1> QED
  BY <1>1, WalkFrame

(* An answered call has nothing left to establish. *)
LEMMA AnswerWalks ==
  ASSUME TypeOK, ClearInv, NEW p \in Plans, NEW v, Approve(p) \/ Reject(p, v), UNCHANGED <<mapping, listed>>
  PROVE  ClearInv'
<1>1. pc'[p] = "answered"
  BY DEF Approve, Reject, Answer, TypeOK
<1>2. WalkInv(p)'
  BY <1>1 DEF WalkInv
<1>3. \A q \in Plans : q # p =>
           /\ pc'[q] = pc[q] /\ at'[q] = at[q] /\ party'[q] = party[q] /\ addr'[q] = addr[q]
           /\ plan'[q] = plan[q] /\ since'[q] = since[q]
  BY DEF Approve, Reject, Answer, TypeOK
<1> QED
  BY <1>2, <1>3, OthersWalk

(* Nor does counting and funding touch what whitelisting established. *)
LEMMA FundingWalks ==
  ASSUME TypeOK, ClearInv, NEW p \in Plans,
         pc[p] \in {"counting", "funding", "sending", "polling"},
         pc'[p] \in {"counting", "funding", "sending", "polling"},
         \A q \in Plans : q # p => pc'[q] = pc[q] /\ at'[q] = at[q] /\ addr'[q] = addr[q],
         UNCHANGED <<party, plan, since, mapping, listed>>
  PROVE  ClearInv'
<1>1. \A i : Good(p, i)' = Good(p, i)
  BY DEF Good, PartyOK, Kept
<1>2. WalkInv(p)'
  BY <1>1 DEF ClearInv, WalkInv
<1> QED
  BY <1>2, OthersWalk

(* The current party is cleared: the walk goes on. *)
LEMMA NextPartyWalks ==
  ASSUME TypeOK, ClearInv, NEW p \in Plans, pc[p] \in {"party", "verify"}, NextParty(p),
         Kept(p) => PartyOK(p, at[p], party[p]), UNCHANGED <<addr, content, mapping, listed>>
  PROVE  ClearInv'
<1>1. WalkInv(p) /\ at[p] \in DOMAIN plan[p] /\ party[p] \in Parties /\ at[p] \in Nat
  BY DEF ClearInv, TypeOK, Aligned
<1>2. \A q \in Plans : q # p => pc'[q] = pc[q] /\ at'[q] = at[q] /\ party'[q] = party[q]
  BY DEF NextParty, TypeOK
<1>3. \A i, s : PartyOK(p, i, s)' = PartyOK(p, i, s)
  BY DEF PartyOK, content
<1>4. Kept(p)' = Kept(p)
  BY DEF Kept, content
<1>5. \A i : Good(p, i)' = Good(p, i)
  BY <1>3, <1>4 DEF Good, content
<1>6. CASE party[p] = "source"
  <2>1. pc'[p] = "party" /\ at'[p] = at[p] /\ party'[p] = "destination"
    BY <1>6 DEF NextParty, TypeOK
  <2>2. Current(p)' = Current(p)
    BY <2>1 DEF Current, content
  <2>3. WalkInv(p)'
    BY <1>1, <1>3, <1>4, <1>5, <1>6, <2>1, <2>2 DEF WalkInv, content
  <2> QED
    BY <1>2, <2>3, OthersWalk DEF content
<1>7. CASE party[p] = "destination"
  <2>1. pc'[p] = "whitelisting" /\ at'[p] = at[p] + 1
    BY <1>7 DEF NextParty, TypeOK
  <2>2. Kept(p) => PartyOK(p, at[p], "source") /\ PartyOK(p, at[p], "destination")
    BY <1>1, <1>7 DEF WalkInv
  <2>3. Good(p, at[p])
    BY <1>1, <2>2 DEF Good, WalkInv, Current
  <2>4. \A i \in DOMAIN plan[p] : i < at[p] + 1 => Good(p, i)
    <3> TAKE i \in DOMAIN plan[p]
    <3> HAVE i < at[p] + 1
    <3>1. i \in Nat
      BY PlanType
    <3>2. i < at[p] \/ i = at[p]
      BY <1>1, <3>1
    <3> QED
      BY <1>1, <2>3, <3>2 DEF WalkInv
  <2>5. WalkInv(p)'
    BY <1>5, <2>1, <2>4 DEF WalkInv, content
  <2> QED
    BY <1>2, <2>5, OthersWalk DEF content
<1> QED
  BY <1>1, <1>6, <1>7 DEF Parties

LEMMA WhitelistingWalks ==
  ASSUME TypeOK, ClearInv, NEW p \in Plans,
         \/ BaseApproves(p) \/ BaseRejects(p) \/ Introspect(p) \/ IntrospectionFails(p)
         \/ Examine(p) \/ SkipParty(p) \/ ResolveParty(p) \/ PartyListed(p) \/ PartyUnlisted(p)
         \/ WhitelistingThrows(p) \/ WhitelistingPasses(p)
  PROVE  ClearInv'
<1> USE DEF ClearInv
<1>1. ASSUME BaseApproves(p) PROVE ClearInv'
  <2>1. pc'[p] = "introspect" /\ WalkInv(p)' /\ \A q \in Plans : q # p => pc'[q] = pc[q]
    BY <1>1 DEF BaseApproves, TypeOK, walk, WalkInv
  <2> QED
    BY <1>1, <2>1, OthersWalk DEF BaseApproves, walk, content, world, lists
<1>2. ASSUME BaseRejects(p) \/ IntrospectionFails(p) \/ PartyUnlisted(p) \/ WhitelistingThrows(p)
      PROVE  ClearInv'
  BY <1>2, AnswerWalks
     DEF BaseRejects, IntrospectionFails, PartyUnlisted, WhitelistingThrows, world, lists
<1>3. ASSUME Introspect(p) PROVE ClearInv'
  <2>1. /\ pc'[p] = "whitelisting" /\ at'[p] = 1
        /\ \A q \in Plans : q # p => pc'[q] = pc[q] /\ plan'[q] = plan[q]
    BY <1>3 DEF Introspect, TypeOK, walk, WalkInv
  <2>2. \A i \in DOMAIN plan'[p] : ~(i < 1)
    <3>1. plan'[p] \in Contents[p]
      BY <1>3 DEF Introspect, TypeOK
    <3>2. plan'[p] \in Seq(Instruction)
      BY <3>1, DataAssumption DEF Instruction
    <3> QED BY <3>2
  <2>3. WalkInv(p)'
    BY <2>1, <2>2 DEF WalkInv
  <2> QED
    BY <1>3, <2>1, <2>3, OthersWalk DEF Introspect, walk, world, lists
<1>4. ASSUME Examine(p) PROVE ClearInv'
  <2>0. WalkInv(p) /\ at[p] \in Nat /\ at[p] \in DOMAIN plan[p] /\ pc[p] = "whitelisting"
    BY <1>4 DEF Examine, TypeOK
  <2>1. CASE Reject(p, "unregistered")
    BY <1>4, <2>1, AnswerWalks DEF Examine, world, lists
  <2>2. ASSUME UNCHANGED <<addr, content, mapping, listed>>
        PROVE  /\ \A i : Good(p, i)' = Good(p, i)
               /\ Kept(p)' = Kept(p)
    BY <2>2 DEF Good, PartyOK, Kept, content
  <2>3. CASE /\ Checked(Current(p)) /\ Standard[Current(p).asset] = "whitelisting"
             /\ pc' = [pc EXCEPT ![p] = "party"]
             /\ party' = [party EXCEPT ![p] = "source"]
             /\ UNCHANGED <<at, addr, content>>
    <3>1. /\ pc'[p] = "party" /\ party'[p] = "source" /\ at' = at /\ Current(p)' = Current(p)
          /\ \A q \in Plans : q # p => pc'[q] = pc[q] /\ party'[q] = party[q]
      BY <2>3 DEF TypeOK, Current, content
    <3>2. UNCHANGED <<mapping, listed>>
      BY <1>4 DEF Examine, world, lists
    <3>3. WalkInv(p)'
      BY <2>0, <2>2, <2>3, <3>1, <3>2 DEF WalkInv, content
    <3> QED
      BY <2>3, <3>1, <3>2, <3>3, OthersWalk DEF content
  <2>4. CASE /\ ~(Checked(Current(p)) /\ Standard[Current(p).asset] \in {"unregistered", "whitelisting"})
             /\ at' = [at EXCEPT ![p] = @ + 1]
             /\ UNCHANGED <<pc, party, addr, content>>
    <3>1. at'[p] = at[p] + 1 /\ \A q \in Plans : q # p => at'[q] = at[q]
      BY <2>4 DEF TypeOK
    <3>2. UNCHANGED <<mapping, listed>>
      BY <1>4 DEF Examine, world, lists
    <3>3. Good(p, at[p])
      BY <2>4 DEF Good, Current
    <3>4. \A i \in DOMAIN plan[p] : i < at[p] + 1 => Good(p, i)
      <4> TAKE i \in DOMAIN plan[p]
      <4> HAVE i < at[p] + 1
      <4>1. i \in Nat
        BY PlanType
      <4>2. i < at[p] \/ i = at[p]
        BY <2>0, <4>1
      <4> QED
        BY <2>0, <3>3, <4>2 DEF WalkInv
    <3>5. WalkInv(p)'
      BY <2>0, <2>2, <2>4, <3>1, <3>2, <3>4 DEF WalkInv, content
    <3> QED
      BY <2>4, <3>1, <3>2, <3>5, OthersWalk DEF content
  <2> QED
    BY <1>4, <2>1, <2>3, <2>4 DEF Examine
<1>5. ASSUME SkipParty(p) PROVE ClearInv'
  <2>1. PartyOK(p, at[p], party[p])
    BY <1>5 DEF SkipParty, PartyOK, Current
  <2> QED
    BY <1>5, <2>1, NextPartyWalks DEF SkipParty, world, lists
<1>6. ASSUME ResolveParty(p) PROVE ClearInv'
  <2>0. WalkInv(p) /\ pc[p] = "party" /\ Current(p)[party[p]] # None /\ UNCHANGED <<mapping, listed>>
    BY <1>6 DEF ResolveParty, world, lists
  <2>1. CASE Reject(p, "unmapped")
    BY <2>0, <2>1, AnswerWalks
  <2>2. CASE /\ pc' = [pc EXCEPT ![p] = "verify"]
             /\ addr' = [addr EXCEPT ![p] = mapping[Current(p)[party[p]]]]
             /\ UNCHANGED <<at, party, content>>
    <3>1. /\ pc'[p] = "verify" /\ addr'[p] = mapping[Current(p)[party[p]]]
          /\ Current(p)' = Current(p)
          /\ \A q \in Plans : q # p => pc'[q] = pc[q] /\ addr'[q] = addr[q]
      BY <2>2 DEF TypeOK, Current, content
    <3>2. /\ \A i : Good(p, i)' = Good(p, i)
          /\ \A i, s : PartyOK(p, i, s)' = PartyOK(p, i, s)
          /\ Kept(p)' = Kept(p)
      BY <2>0, <2>2 DEF Good, PartyOK, Kept, content
    <3>3. WalkInv(p)'
      BY <2>0, <2>2, <3>1, <3>2 DEF WalkInv, content
    <3> QED
      BY <2>0, <2>2, <3>1, <3>3, OthersWalk DEF content
  <2> QED
    BY <1>6, <2>1, <2>2 DEF ResolveParty
<1>7. ASSUME PartyListed(p) PROVE ClearInv'
  <2>1. Kept(p) => addr[p] = mapping[Current(p)[party[p]]]
    BY <1>7 DEF PartyListed, WalkInv, Kept, Rebound
  <2>2. Kept(p) => PartyOK(p, at[p], party[p])
    BY <1>7, <2>1 DEF PartyListed, PartyOK, Current
  <2> QED
    BY <1>7, <2>2, NextPartyWalks DEF PartyListed, world, lists
<1>8. ASSUME WhitelistingPasses(p) PROVE ClearInv'
  <2>0. WalkInv(p) /\ pc[p] = "whitelisting" /\ at[p] \notin DOMAIN plan[p] /\ UNCHANGED <<mapping, listed>>
    BY <1>8 DEF WhitelistingPasses, world, lists
  <2>1. CASE Prefunding
    <3>1. UNCHANGED <<party, addr, content>>
      BY <1>8, <2>1 DEF WhitelistingPasses
    <3>2. /\ pc'[p] = "counting"
          /\ \A q \in Plans : q # p => pc'[q] = pc[q] /\ at'[q] = at[q]
      BY <1>8, <2>1 DEF WhitelistingPasses, TypeOK
    <3>3. ASSUME NEW i \in DOMAIN plan[p] PROVE i < at[p]
      <4>1. DOMAIN plan[p] = 1..Len(plan[p]) /\ Len(plan[p]) \in Nat
        BY PlanType
      <4>2. at[p] \in Nat /\ at[p] # 0
        BY DEF TypeOK
      <4> QED BY <2>0, <4>1, <4>2
    <3>4. \A i : Good(p, i)' = Good(p, i)
      BY <2>0, <3>1 DEF Good, PartyOK, Kept, content
    <3>5. WalkInv(p)'
      BY <2>0, <3>1, <3>2, <3>3, <3>4 DEF WalkInv, content
    <3> QED
      BY <2>0, <3>1, <3>2, <3>5, OthersWalk DEF content
  <2>2. CASE ~Prefunding
    BY <1>8, <2>0, <2>2, AnswerWalks DEF WhitelistingPasses
  <2> QED BY <2>1, <2>2
<1> QED
  BY <1>1, <1>2, <1>3, <1>4, <1>5, <1>6, <1>7, <1>8

LEMMA ClearStep ==
  ASSUME TypeOK, ClearInv, [Next]_vars
  PROVE  ClearInv'
<1>1. ASSUME NEW p \in Plans, CountSigner(p) \/ ResolvingSignerFails(p) PROVE ClearInv'
  <2>1. /\ pc'[p] = "counting" /\ pc' = pc
        /\ \A q \in Plans : q # p => at'[q] = at[q]
    BY <1>1 DEF CountSigner, ResolvingSignerFails, TypeOK
  <2> QED
    BY <1>1, <2>1, FundingWalks DEF CountSigner, ResolvingSignerFails, content, world, lists
<1>2. ASSUME NEW p \in Plans, CountingEnds(p) PROVE ClearInv'
  <2>1. pc'[p] = "funding" /\ \A q \in Plans : q # p => pc'[q] = pc[q]
    BY <1>2 DEF CountingEnds, TypeOK
  <2> QED
    BY <1>2, <2>1, FundingWalks DEF CountingEnds, walk, world, lists
<1>3. ASSUME NEW p \in Plans, FundingEnds(p) PROVE ClearInv'
  BY <1>3, AnswerWalks DEF FundingEnds, world, lists
<1>4. ASSUME NEW p \in Plans, NEW w, pc[p] \in {"funding", "sending", "polling"}, Leave(p, w), UNCHANGED lists
      PROVE  ClearInv'
  <2>1. /\ pc'[p] = "funding"
        /\ \A q \in Plans : q # p => pc'[q] = pc[q] /\ addr'[q] = addr[q]
    BY <1>4 DEF Leave, TypeOK
  <2> QED
    BY <1>4, <2>1, FundingWalks DEF Leave, lists
<1>5. ASSUME NEW p \in Plans, NEW w \in Wallets, EnsureGas(p, w) PROVE ClearInv'
  <2>1. CASE Enough(p, w)
    BY <1>4, <1>5, <2>1 DEF EnsureGas, Returns
  <2>2. CASE ~Enough(p, w)
    <3>1. /\ pc'[p] = "sending"
          /\ \A q \in Plans : q # p => pc'[q] = pc[q] /\ addr'[q] = addr[q]
      BY <1>5, <2>2 DEF EnsureGas, TypeOK
    <3> QED
      BY <1>5, <2>2, <3>1, FundingWalks DEF EnsureGas, content, lists
  <2> QED BY <2>1, <2>2
<1>6. ASSUME NEW p \in Plans, SendTopUp(p) PROVE ClearInv'
  <2>1. pc'[p] = "polling" /\ \A q \in Plans : q # p => pc'[q] = pc[q]
    BY <1>6 DEF SendTopUp, TypeOK
  <2> QED
    BY <1>6, <2>1, FundingWalks DEF SendTopUp, walk, content, lists
<1>7. ASSUME NEW p \in Plans, SendFails(p) \/ PollSucceeds(p) \/ PollTimesOut(p) PROVE ClearInv'
  BY <1>4, <1>7 DEF SendFails, PollSucceeds, PollTimesOut, Returns
<1>8. ASSUME UNCHANGED <<pc, walk, plan, since, mapping, listed>> PROVE ClearInv'
  <2> SUFFICES ASSUME NEW q \in Plans PROVE WalkInv(q)'
    BY DEF ClearInv
  <2> QED
    BY <1>8, WalkFrame DEF ClearInv, walk
<1>9. ASSUME NEW p \in Plans, NEW w \in Wallets, Mine(p, w) PROVE ClearInv'
  BY <1>8, <1>9 DEF Mine, content, lists
<1>10. ASSUME NEW p \in Plans, NEW i \in todo[p], Execute(p, i) \/ Skip(p, i) PROVE ClearInv'
  BY <1>8, <1>10 DEF Execute, Skip, world, lists
<1>11. ASSUME NEW what \in SUBSET {"granted", "revoked"}, Note(what), UNCHANGED <<pc, walk, plan>>,
              mapping' = mapping \/ what = {"granted", "revoked"},
              listed \subseteq listed' \/ "revoked" \in what
       PROVE  ClearInv'
  <2> SUFFICES ASSUME NEW q \in Plans PROVE WalkInv(q)'
    BY DEF ClearInv
  <2>1. CASE pc[q] \in {"none", "introspect", "answered"}
    BY <1>11, <2>1, WalkFrame DEF ClearInv, walk
  <2>2. CASE pc[q] \notin {"none", "introspect", "answered"}
    <3>1. since'[q] = since[q] \cup what
      BY <1>11, <2>2 DEF Note
    <3>2. Kept(q)' => mapping' = mapping /\ listed \subseteq listed'
      BY <1>11, <3>1 DEF Kept
    <3>3. ~Rebound(q)' => mapping' = mapping
      BY <1>11, <3>1 DEF Rebound
    <3> QED
      BY <1>11, <3>1, <3>2, <3>3, WalkFrame DEF ClearInv, walk
  <2> QED BY <2>1, <2>2
<1>12. ASSUME NEW f \in FinIds, NEW w \in Wallets \cup {None}, Rebind(f, w) PROVE ClearInv'
  BY <1>11, <1>12 DEF Rebind
<1>13. ASSUME NEW w \in Wallets, NEW a \in Assets, Whitelist(w, a) PROVE ClearInv'
  BY <1>11, <1>13 DEF Whitelist
<1>14. ASSUME NEW w \in Wallets, NEW A \in SUBSET Assets, Dewhitelist(w, A) PROVE ClearInv'
  BY <1>8, <1>14 DEF Dewhitelist, content
<1>15. ASSUME SweepRemoves PROVE ClearInv'
  BY <1>11, <1>15 DEF SweepRemoves
<1>16. ASSUME \/ \E a \in Assets : SweepLooks(a)
              \/ SweepIsRefused \/ SweepThrows \/ SweepEnds
       PROVE  ClearInv'
  BY <1>8, <1>16 DEF SweepLooks, SweepIsRefused, SweepThrows, SweepEnds, content, lists
<1>17. ASSUME UNCHANGED vars PROVE ClearInv'
  BY <1>8, <1>17 DEF vars, content, world, lists
<1> QED
  BY <1>1, <1>2, <1>3, <1>5, <1>6, <1>7, <1>9, <1>10, <1>12, <1>13, <1>14, <1>15, <1>16, <1>17,
     WhitelistingWalks DEF Next, Approval, ApprovalFails, Sweep

(* A step that answers a call does nothing but that. *)
LEMMA AnsweredStep ==
  ASSUME TypeOK, Next, NEW p \in Plans, verdict'[p] # verdict[p]
  PROVE  \/ WhitelistingPasses(p) /\ ~Prefunding /\ Approve(p)
         \/ FundingEnds(p)
         \/ ResolveParty(p) /\ Reject(p, "unmapped")
         \/ PartyUnlisted(p)
         \/ \E v \in Verdicts \ {"approved", "unmapped", "unlisted"} : Reject(p, v)
<1> USE DEF TypeOK
<1>1. ASSUME NEW q \in Plans, NEW v, Answer(q, v) PROVE q = p
  BY <1>1 DEF Answer
<1>2. ASSUME NEW q \in Plans, NEW v, Reject(q, v) PROVE q = p
  BY <1>1, <1>2 DEF Reject
<1>3. ASSUME NEW q \in Plans, BaseRejects(q) \/ IntrospectionFails(q) \/ WhitelistingThrows(q)
      PROVE  \E v \in Verdicts \ {"approved", "unmapped", "unlisted"} : Reject(p, v)
  BY <1>2, <1>3 DEF BaseRejects, IntrospectionFails, WhitelistingThrows, Verdicts
<1>4. ASSUME NEW q \in Plans, Examine(q) \/ ResolveParty(q) \/ PartyUnlisted(q)
      PROVE  \/ Reject(p, "unregistered")
             \/ ResolveParty(p) /\ Reject(p, "unmapped")
             \/ PartyUnlisted(p)
  <2>1. CASE Examine(q)
    BY <1>2, <2>1 DEF Examine, content
  <2>2. CASE ResolveParty(q)
    BY <1>2, <2>2 DEF ResolveParty, content
  <2>3. CASE PartyUnlisted(q)
    BY <1>2, <2>3 DEF PartyUnlisted
  <2> QED BY <1>4, <2>1, <2>2, <2>3
<1>5. ASSUME NEW q \in Plans, WhitelistingPasses(q)
      PROVE  WhitelistingPasses(p) /\ ~Prefunding /\ Approve(p)
  BY <1>1, <1>5 DEF WhitelistingPasses, Approve, content
<1>6. ASSUME NEW q \in Plans, FundingEnds(q) PROVE FundingEnds(p)
  BY <1>1, <1>6 DEF FundingEnds, Approve
<1>7. ASSUME NEW q \in Plans,
             \/ BaseApproves(q) \/ Introspect(q) \/ SkipParty(q) \/ PartyListed(q)
             \/ CountSigner(q) \/ ResolvingSignerFails(q) \/ CountingEnds(q)
      PROVE  FALSE
  BY <1>7 DEF BaseApproves, Introspect, SkipParty, PartyListed, CountSigner, ResolvingSignerFails,
              CountingEnds, content
<1>8. ASSUME NEW q \in Plans, NEW w, Leave(q, w) PROVE FALSE
  BY <1>8 DEF Leave
<1>9. ASSUME NEW q \in Plans,
             \/ \E w \in Wallets : EnsureGas(q, w) \/ Mine(q, w)
             \/ SendTopUp(q) \/ SendFails(q) \/ PollSucceeds(q) \/ PollTimesOut(q)
             \/ \E i \in todo[q] : Execute(q, i) \/ Skip(q, i)
      PROVE  FALSE
  BY <1>8, <1>9 DEF EnsureGas, Returns, Mine, SendTopUp, SendFails, PollSucceeds, PollTimesOut,
                    Execute, Skip, content
<1>10. ASSUME \/ \E f \in FinIds, w \in Wallets \cup {None} : Rebind(f, w)
              \/ \E w \in Wallets, a \in Assets : Whitelist(w, a)
              \/ \E w \in Wallets, A \in SUBSET Assets : Dewhitelist(w, A)
              \/ Sweep
       PROVE  FALSE
  BY <1>10 DEF Rebind, Whitelist, Dewhitelist, Sweep, SweepLooks, SweepRemoves, SweepIsRefused,
               SweepThrows, SweepEnds, content
<1> QED
  BY <1>3, <1>4, <1>5, <1>6, <1>7, <1>9, <1>10 DEF Next, Approval, ApprovalFails, Verdicts

(* Where the walk is over it has cleared every instruction. *)
LEMMA ApprovedIsGood ==
  ASSUME TypeOK, ClearInv, NEW p \in Plans,
         (WhitelistingPasses(p) /\ ~Prefunding /\ Approve(p)) \/ FundingEnds(p)
  PROVE  /\ \A i \in DOMAIN plan[p] : Good(p, i)
         /\ UNCHANGED <<plan, mapping, listed>>
<1>1. CASE FundingEnds(p)
  BY <1>1 DEF FundingEnds, Approve, ClearInv, WalkInv, world, lists
<1>2. CASE WhitelistingPasses(p) /\ ~Prefunding /\ Approve(p)
  <2>1. DOMAIN plan[p] = 1..Len(plan[p]) /\ Len(plan[p]) \in Nat /\ at[p] \in Nat \ {0}
    BY PlanType DEF TypeOK
  <2>2. \A i \in DOMAIN plan[p] : i < at[p]
    BY <1>2, <2>1 DEF WhitelistingPasses
  <2> QED
    BY <1>2, <2>2 DEF WhitelistingPasses, Approve, ClearInv, WalkInv, world, lists
<1> QED BY <1>1, <1>2

LEMMA ApprovedIsClear ==
  ASSUME TypeOK, ClearInv, [Next]_vars, NEW p \in Plans, verdict[p] = "none", verdict'[p] = "approved"
  PROVE  /\ \A i \in DOMAIN plan'[p] : Checked(plan'[p][i]) => Standard[plan'[p][i].asset] # "unregistered"
         /\ "revoked" \notin since[p] => \A r \in Required(p)' : Clear(p, r)'
<1>1. Next
  BY DEF vars, content
<1>2. ASSUME NEW v, v # "approved", Reject(p, v) PROVE FALSE
  BY <1>2 DEF Reject, Answer, TypeOK
<1>3. (WhitelistingPasses(p) /\ ~Prefunding /\ Approve(p)) \/ FundingEnds(p)
  BY <1>1, <1>2, AnsweredStep DEF PartyUnlisted
<1>4. /\ \A i \in DOMAIN plan[p] : Good(p, i)
      /\ UNCHANGED <<plan, mapping, listed>>
  BY <1>3, ApprovedIsGood
<1>5. ASSUME NEW r \in Required(p)', "revoked" \notin since[p] PROVE Clear(p, r)'
  <2>1. r \in Required(p)
    BY <1>4 DEF Required
  <2>2. Clear(p, r)
    BY <1>4, <1>5, <2>1 DEF Required, Good, Kept, PartyOK, Clear, Parties
  <2> QED
    BY <1>4, <2>2 DEF Clear
<1> QED
  BY <1>4, <1>5 DEF Good

(* The whitelisting option fails closed: whatever throws, is withdrawn or is
   unknown, a plan that is approved was read and had every investor it names
   allowed to hold what it moves. *)
THEOREM FailsClosed == Spec => ApprovalClears
<1>1. Init => ClearInv
  BY DEF Init, ClearInv, WalkInv
<1>2. TypeOK /\ ClearInv /\ [Next]_vars => ClearInv'
  BY ClearStep
<1>3. TypeOK /\ ClearInv /\ [Next]_vars =>
        [\A p \in Plans : verdict[p] = "none" /\ verdict'[p] = "approved" =>
           /\ \A i \in DOMAIN plan'[p] : Checked(plan'[p][i]) => Standard[plan'[p][i].asset] # "unregistered"
           /\ "revoked" \notin since[p] => \A r \in Required(p)' : Clear(p, r)']_vars
  BY ApprovedIsClear
<1> QED
  BY <1>1, <1>2, <1>3, Typed, PTL DEF Spec, ApprovalClears

(* The party a call looks at when it vetoes is one it has to clear. *)
LEMMA VetoIsCaused ==
  ASSUME TypeOK, ClearInv, [Next]_vars, NEW p \in Plans,
         verdict[p] = "none", verdict'[p] \in {"unmapped", "unlisted"}, "granted" \notin since[p]
  PROVE  \E r \in Required(p) : ~Clear(p, r)
<1>1. Next
  BY DEF vars, content
<1>2. ASSUME NEW v, Reject(p, v) \/ Answer(p, v) PROVE v = verdict'[p]
  BY <1>2 DEF Reject, Answer, TypeOK
<1>3. (ResolveParty(p) /\ Reject(p, "unmapped")) \/ PartyUnlisted(p)
  BY <1>1, <1>2, AnsweredStep DEF FundingEnds, Approve
<1>4. /\ pc[p] \in {"party", "verify"}
      /\ Current(p)[party[p]] # None
      /\ <<mapping[Current(p)[party[p]]], Current(p).asset>> \notin listed
  <2>1. WalkInv(p) /\ ~Rebound(p)
    BY DEF ClearInv, Rebound
  <2>2. CASE PartyUnlisted(p)
    BY <2>1, <2>2 DEF PartyUnlisted, WalkInv
  <2>3. CASE ResolveParty(p) /\ Reject(p, "unmapped")
    <3>1. pc[p] = "party" /\ Current(p)[party[p]] # None
      BY <2>3 DEF ResolveParty
    <3>2. mapping[Current(p)[party[p]]] = None
      BY <2>3, <3>1 DEF ResolveParty, Reject, Answer, TypeOK
    <3> QED
      BY <3>1, <3>2, DataAssumption DEF TypeOK
  <2> QED BY <1>3, <2>2, <2>3
<1>5. <<at[p], party[p]>> \in Required(p)
  BY <1>4 DEF ClearInv, WalkInv, Required, Current, TypeOK, Aligned
<1>6. ~Clear(p, <<at[p], party[p]>>)
  BY <1>4 DEF Clear, Current
<1> QED BY <1>5, <1>6

(* No false alarms: a plan vetoed for an investor has one that may not hold what
   it moves. *)
THEOREM VetoesHaveCause == Spec => VetoHasCause
<1>1. Init => ClearInv
  BY DEF Init, ClearInv, WalkInv
<1>2. TypeOK /\ ClearInv /\ [Next]_vars => ClearInv'
  BY ClearStep
<1>3. TypeOK /\ ClearInv /\ [Next]_vars =>
        [\A p \in Plans :
           verdict[p] = "none" /\ verdict'[p] \in {"unmapped", "unlisted"} /\ "granted" \notin since[p] =>
             \E r \in Required(p) : ~Clear(p, r)]_vars
  BY VetoIsCaused
<1> QED
  BY <1>1, <1>2, <1>3, Typed, PTL DEF Spec, VetoHasCause

-----------------------------------------------------------------------------
(***************************************************************************)
(* dewhitelist                                                             *)
(***************************************************************************)
(* While a sweep runs, each asset of its scope has yet to be looked at, was
   refused by its token, or has the wallet off its list. *)
SweepInv ==
  sweep.pc \in {"sweeping", "removing"} =>
    \A a \in sweep.scope :
      a \in sweep.left \/ a \in sweep.refused \/ <<sweep.wallet, a>> \notin listed

SweepRecords == [pc : {"idle", "sweeping", "removing", "returned", "refused"},
                 wallet : Wallets \cup {None}, left : SUBSET Assets, asset : Assets \cup {None},
                 refused : SUBSET Assets, scope : SUBSET Assets]

LEMMA SweepStep ==
  ASSUME TypeOK, SweepInv, [Next]_vars
  PROVE  SweepInv'
<1>0. sweep \in SweepRecords
  BY DEF TypeOK, SweepRecords
<1>1. CASE UNCHANGED <<sweep, listed>>
  BY <1>1 DEF SweepInv
<1>2. ASSUME NEW w \in Wallets, NEW a \in Assets, Whitelist(w, a) PROVE SweepInv'
  <2>1. listed' = listed \cup {<<w, a>>}
    BY <1>2 DEF Whitelist
  <2>2. CASE w = sweep.wallet
    <3>1. /\ sweep'.pc = sweep.pc /\ sweep'.wallet = sweep.wallet /\ sweep'.left = sweep.left
          /\ sweep'.refused = sweep.refused /\ sweep'.scope = sweep.scope \ {a}
      BY <1>0, <1>2, <2>2 DEF Whitelist, SweepRecords
    <3> QED BY <2>1, <3>1 DEF SweepInv
  <2>3. CASE w # sweep.wallet
    BY <1>2, <2>1, <2>3 DEF Whitelist, SweepInv
  <2> QED BY <2>2, <2>3
<1>3. ASSUME NEW w \in Wallets, NEW A \in SUBSET Assets, Dewhitelist(w, A) PROVE SweepInv'
  BY <1>3 DEF Dewhitelist, SweepInv
<1>4. ASSUME NEW a \in Assets, SweepLooks(a) PROVE SweepInv'
  <2>1. /\ sweep.pc = "sweeping" /\ listed' = listed
        /\ sweep'.wallet = sweep.wallet /\ sweep'.refused = sweep.refused /\ sweep'.scope = sweep.scope
        /\ \/ <<sweep.wallet, a>> \in listed /\ sweep'.left = sweep.left
           \/ <<sweep.wallet, a>> \notin listed /\ sweep'.left = sweep.left \ {a}
    BY <1>0, <1>4 DEF SweepLooks, SweepRecords, lists
  <2> QED BY <2>1 DEF SweepInv
<1>5. CASE SweepRemoves
  <2>1. /\ sweep.pc = "removing" /\ listed' = listed \ {<<sweep.wallet, sweep.asset>>}
        /\ sweep'.wallet = sweep.wallet /\ sweep'.refused = sweep.refused /\ sweep'.scope = sweep.scope
        /\ sweep'.left = sweep.left \ {sweep.asset}
    BY <1>0, <1>5 DEF SweepRemoves, SweepRecords
  <2> QED BY <2>1 DEF SweepInv
<1>6. CASE SweepIsRefused
  <2>1. /\ sweep.pc = "removing" /\ listed' = listed
        /\ sweep'.wallet = sweep.wallet /\ sweep'.scope = sweep.scope
        /\ sweep'.left = sweep.left \ {sweep.asset}
        /\ sweep'.refused = sweep.refused \cup {sweep.asset}
    BY <1>0, <1>6 DEF SweepIsRefused, SweepRecords, lists
  <2> QED BY <2>1 DEF SweepInv
<1>7. CASE SweepThrows \/ SweepEnds
  BY <1>7 DEF SweepThrows, SweepEnds, NoSweep, SweepInv
<1>8. ASSUME NEW p \in Plans, Approval(p) \/ ApprovalFails(p) \/ BaseApproves(p) \/ BaseRejects(p)
      PROVE  SweepInv'
  BY <1>1, <1>8 DEF Approval, ApprovalFails, BaseApproves, BaseRejects, Introspect, IntrospectionFails,
     Examine, SkipParty, ResolveParty, PartyListed, PartyUnlisted, WhitelistingThrows, WhitelistingPasses,
     CountSigner, ResolvingSignerFails, CountingEnds, FundingEnds, EnsureGas, SendTopUp, SendFails,
     PollSucceeds, PollTimesOut, world, lists
<1>9. ASSUME \/ \E p \in Plans : \/ \E w \in Wallets : Mine(p, w)
                                \/ \E i \in todo[p] : Execute(p, i) \/ Skip(p, i)
             \/ \E f \in FinIds, w \in Wallets \cup {None} : Rebind(f, w)
             \/ UNCHANGED vars
      PROVE  SweepInv'
  BY <1>1, <1>9 DEF Mine, Execute, Skip, Rebind, vars, world, lists
<1> QED
  BY <1>2, <1>3, <1>4, <1>5, <1>6, <1>7, <1>8, <1>9 DEF Next, Sweep

(* Only the end of a sweep makes it return, and only with nothing refused. *)
LEMMA ReturnedSweep ==
  ASSUME TypeOK, SweepInv, [Next]_vars, sweep.pc = "sweeping", sweep'.pc = "returned"
  PROVE  \A a \in sweep.scope : <<sweep.wallet, a>> \notin listed
<1>0. sweep \in SweepRecords
  BY DEF TypeOK, SweepRecords
<1>1. SweepEnds
  <2>1. CASE UNCHANGED sweep
    BY <2>1
  <2>2. CASE \E w \in Wallets, a \in Assets : Whitelist(w, a)
    BY <1>0, <2>2 DEF Whitelist, SweepRecords
  <2>3. CASE \E w \in Wallets, A \in SUBSET Assets : Dewhitelist(w, A)
    BY <2>3 DEF Dewhitelist
  <2>4. ~ SweepRemoves /\ ~ SweepIsRefused /\ ~ SweepThrows /\ \A a \in Assets : ~ SweepLooks(a)
    <3>1. ASSUME NEW a \in Assets, SweepLooks(a) PROVE FALSE
      <4>1. CASE sweep' = [sweep EXCEPT !.pc = "removing", !.asset = a]
        BY <1>0, <4>1 DEF SweepRecords
      <4>2. CASE sweep' = [sweep EXCEPT !.left = @ \ {a}]
        BY <1>0, <4>2 DEF SweepRecords
      <4> QED BY <3>1, <4>1, <4>2 DEF SweepLooks
    <3>2. ~ SweepRemoves /\ ~ SweepIsRefused /\ ~ SweepThrows
      BY DEF SweepRemoves, SweepIsRefused, SweepThrows, NoSweep
    <3> QED BY <3>1, <3>2
  <2>5. ASSUME NEW p \in Plans, Approval(p) \/ ApprovalFails(p) \/ BaseApproves(p) \/ BaseRejects(p)
        PROVE  UNCHANGED sweep
    BY <2>5 DEF Approval, ApprovalFails, BaseApproves, BaseRejects, Introspect, IntrospectionFails,
       Examine, SkipParty, ResolveParty, PartyListed, PartyUnlisted, WhitelistingThrows, WhitelistingPasses,
       CountSigner, ResolvingSignerFails, CountingEnds, FundingEnds, EnsureGas, SendTopUp, SendFails,
       PollSucceeds, PollTimesOut, world
  <2>6. ASSUME \/ \E p \in Plans : \/ \E w \in Wallets : Mine(p, w)
                                  \/ \E i \in todo[p] : Execute(p, i) \/ Skip(p, i)
               \/ \E f \in FinIds, w \in Wallets \cup {None} : Rebind(f, w)
               \/ UNCHANGED vars
        PROVE  UNCHANGED sweep
    BY <2>6 DEF Mine, Execute, Skip, Rebind, vars, world
  <2> QED
    BY <2>1, <2>2, <2>3, <2>4, <2>5, <2>6 DEF Next, Sweep
<1>2. sweep.left = {} /\ sweep.refused = {}
  BY <1>1 DEF SweepEnds, NoSweep
<1> QED BY <1>2 DEF SweepInv

(* A dewhitelist call that returns has the wallet off every whitelist it took up,
   or back on by someone else's call: a token that refuses, or a query that
   throws, is never reported as a removal. *)
THEOREM SweptOff == Spec => SweptIsUnlisted
<1>1. Init => SweepInv
  BY DEF Init, NoSweep, SweepInv
<1>2. TypeOK /\ SweepInv /\ [Next]_vars => SweepInv'
  BY SweepStep
<1>3. TypeOK /\ SweepInv /\ [Next]_vars =>
        [sweep.pc = "sweeping" /\ sweep'.pc = "returned" =>
           \A a \in sweep.scope : <<sweep.wallet, a>> \notin listed]_vars
  BY ReturnedSweep
<1> QED
  BY <1>1, <1>2, <1>3, Typed, PTL DEF Spec, SweptIsUnlisted
=============================================================================
