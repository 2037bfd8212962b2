------------------------ MODULE CustodyAccountsProofs ------------------------
(***************************************************************************)
(* Safety of the custody accounts: of their onboarding, for any number of  *)
(* investors, wallets and concurrent calls, and of the lookup of an        *)
(* account by its address, for every set of accounts and calls, every      *)
(* listing at boot, every size of a page and every number of retries.      *)
(*                                                                         *)
(* Onboarding: the inductive invariant adds what a running call has        *)
(* established: past the insert its address is one its investor is         *)
(* recorded with, and before the save that address is active.              *)
(*                                                                         *)
(* Lookups: UnknownHasCause is not inductive.  The invariant behind it     *)
(* follows each account that was there when a scan began: until the scan   *)
(* ends it is on a page still to come, among the vaults still to read, or  *)
(* in the cache.                                                           *)
(***************************************************************************)
EXTENDS CustodyOnboarding, CustodyWallets, TLAPS, FiniteSetTheorems

(***************************************************************************)
(* Onboarding (CustodyOnboarding).                                         *)
(***************************************************************************)

AddressInv ==
  \A c \in Calls :
    call[c].pc \in {"check", "send", "poll", "save"} => call[c].address \in recorded[call[c].fin]

ActiveInv == Activating => \A c \in Calls : call[c].pc = "save" => balance[call[c].address] > 0

Inv == TypeOK /\ AddressInv /\ ActiveInv /\ MappedIsActive /\ OnlyWinnersCount

LEMMA InitInv == ASSUME Init PROVE Inv
<1> USE DataAssumption, BoundsAssumption
<1>1. TypeOK
  BY DEF Init, TypeOK, CallRecords, CallStates, Unused, Unmapped
<1>2. AddressInv /\ ActiveInv /\ MappedIsActive /\ OnlyWinnersCount
  BY DEF Init, AddressInv, ActiveInv, MappedIsActive, OnlyWinnersCount, Unused, Unmapped
<1>3. QED
  BY <1>1, <1>2 DEF Inv

(* Moving a call on to another of its states keeps its other locals. *)
LEMMA AtTypes ==
  ASSUME TypeOK, NEW c \in Calls, NEW pc \in CallStates, At(c, pc)
  PROVE  /\ call' \in [Calls -> CallRecords]
         /\ \A d \in Calls : d # c => call'[d] = call[d]
         /\ call'[c].pc = pc
         /\ call'[c].fin = call[c].fin /\ call'[c].asset = call[c].asset
         /\ call'[c].vault = call[c].vault /\ call'[c].address = call[c].address
<1>1. call \in [Calls -> CallRecords] /\ call[c] \in CallRecords
  BY DEF TypeOK
<1>2. [call[c] EXCEPT !.pc = pc] \in CallRecords
  BY <1>1 DEF CallRecords
<1>3. QED
  BY <1>1, <1>2 DEF At, CallRecords

(* The part of TypeOK about the locals of running calls. *)
Known(q) ==
  q.pc # "none" =>
    /\ q.fin \in Investors /\ q.asset \in Assets
    /\ q.pc = "resolve" => q.vault \in Vaults
    /\ q.pc \notin {"resolve", "rejected"} => q.address \in Wallets

LEMMA TypeStep == ASSUME TypeOK, [Next]_vars PROVE TypeOK'
<1> USE DataAssumption, BoundsAssumption
<1>0. /\ call \in [Calls -> CallRecords] /\ \A c \in Calls : Known(call[c])
      /\ faults \in Nat
  BY DEF TypeOK, Known
<1>1. ASSUME call' \in [Calls -> CallRecords], \A c \in Calls : Known(call'[c]),
             rows' \in [Investors -> [Assets -> Wallets \cup {None}]],
             mapping' \in [Investors -> [ledger : Wallets \cup {None}, custody : Vaults \cup {None}]],
             balance' \in [Wallets -> Nat], sent' \in [Wallets -> Nat],
             recorded' \in [Investors -> SUBSET Wallets], faults' \in Nat
      PROVE  TypeOK'
  BY <1>1 DEF TypeOK, Known
<1>2. ASSUME NEW c \in Calls, NEW f \in Investors, NEW a \in Assets, NEW bind \in Binds, CreateAccount(c, f, a, bind)
      PROVE  TypeOK'
  <2>1. call' \in [Calls -> CallRecords] /\ \A d \in Calls : Known(call'[d])
    BY <1>0, <1>2 DEF CreateAccount, Binds, CallRecords, CallStates, Known
  <2>2. QED
    BY <1>1, <1>2, <2>1 DEF CreateAccount, TypeOK
<1>3. ASSUME NEW c \in Calls, ResolveCustodyAddress(c) PROVE TypeOK'
  <2>1. AddressOf[call[c].vault] \in Wallets /\ call[c] \in CallRecords /\ Known(call[c])
    BY <1>0, <1>3 DEF ResolveCustodyAddress, Known
  <2>2. call' = [call EXCEPT ![c] = [call[c] EXCEPT !.pc = "insert", !.address = AddressOf[call[c].vault]]]
    BY <1>3 DEF ResolveCustodyAddress
  <2>3. [call[c] EXCEPT !.pc = "insert", !.address = AddressOf[call[c].vault]] \in CallRecords
    BY <2>1 DEF CallRecords, CallStates
  <2>4. call' \in [Calls -> CallRecords] /\ \A d \in Calls : Known(call'[d])
    BY <1>0, <1>3, <2>1, <2>2, <2>3 DEF ResolveCustodyAddress, Known, CallRecords
  <2>5. QED
    BY <1>1, <1>3, <2>4 DEF ResolveCustodyAddress, TypeOK
<1>4. ASSUME NEW c \in Calls, Insert(c) PROVE TypeOK'
  <2> DEFINE row == rows'[call[c].fin][call[c].asset]
  <2>1. call[c] \in CallRecords /\ call[c].fin \in Investors /\ call[c].asset \in Assets /\ call[c].address \in Wallets
    BY <1>0, <1>4 DEF Insert, Known
  <2>2. rows' \in [Investors -> [Assets -> Wallets \cup {None}]] /\ row \in Wallets
    <3>1. PICK f \in Investors, a \in Assets : f = call[c].fin /\ a = call[c].asset
      BY <2>1
    <3>2. rows \in [Investors -> [Assets -> Wallets \cup {None}]]
      BY DEF TypeOK
    <3>3. PICK w \in Wallets : w = IF rows[f][a] = None THEN call[c].address ELSE rows[f][a]
      BY <2>1, <3>2
    <3>4. rows' = [rows EXCEPT ![f][a] = w]
      BY <1>4, <3>1, <3>3 DEF Insert
    <3>5. rows' \in [Investors -> [Assets -> Wallets \cup {None}]] /\ rows'[f][a] = w
      BY <3>2, <3>4
    <3> QED BY <3>1, <3>5
  <2>3. /\ call' = [call EXCEPT ![c] = [call[c] EXCEPT !.pc = Recorded("check"), !.address = row]]
        /\ recorded' = [recorded EXCEPT ![call[c].fin] = @ \cup {row}]
    BY <1>4 DEF Insert
  <2>4. recorded' \in [Investors -> SUBSET Wallets]
    BY <2>1, <2>2, <2>3 DEF TypeOK
  <2>5. Recorded("check") \in {"check", "save"}
    BY DEF Recorded
  <2> HIDE DEF row
  <2>6. [call[c] EXCEPT !.pc = Recorded("check"), !.address = row] \in CallRecords
    BY <2>1, <2>2, <2>5 DEF CallRecords, CallStates
  <2>7. call' \in [Calls -> CallRecords] /\ \A d \in Calls : Known(call'[d])
    BY <1>0, <2>1, <2>2, <2>3, <2>5, <2>6 DEF Known, CallRecords
  <2>8. QED
    BY <1>1, <1>4, <2>2, <2>4, <2>7 DEF Insert, TypeOK
<1>5. ASSUME NEW c \in Calls, NEW pc \in CallStates, At(c, pc), call[c].pc # "none",
             pc # "none", pc # "resolve",
             pc = "rejected" \/ call[c].address \in Wallets
      PROVE  call' \in [Calls -> CallRecords] /\ \A d \in Calls : Known(call'[d])
  BY <1>0, <1>5, AtTypes DEF Known
<1>6. ASSUME NEW c \in Calls, CheckActive(c) \/ PollBalance(c) PROVE TypeOK'
  <2>1. call[c].address \in Wallets
    BY <1>0, <1>6 DEF CheckActive, PollBalance, Known
  <2>2. call' \in [Calls -> CallRecords] /\ \A d \in Calls : Known(call'[d])
    BY <1>5, <1>6, <2>1 DEF CheckActive, PollBalance, CallStates
  <2>3. QED
    BY <1>1, <1>6, <2>2 DEF CheckActive, PollBalance, TypeOK
<1>7. ASSUME NEW c \in Calls, SendActivation(c) PROVE TypeOK'
  <2>1. call[c].address \in Wallets
    BY <1>0, <1>7 DEF SendActivation, Known
  <2>2. call' \in [Calls -> CallRecords] /\ \A d \in Calls : Known(call'[d])
    BY <1>5, <1>7, <2>1 DEF SendActivation, CallStates
  <2>3. sent' \in [Wallets -> Nat]
    BY <1>7, <2>1 DEF SendActivation, TypeOK
  <2>4. QED
    BY <1>1, <1>7, <2>2, <2>3 DEF SendActivation, TypeOK
<1>8. ASSUME NEW c \in Calls, SaveAccount(c) PROVE TypeOK'
  <2>1. call[c].address \in Wallets /\ call[c].vault \in Vaults \cup {None} /\ call[c].fin \in Investors
    BY <1>0, <1>8 DEF SaveAccount, Known, CallRecords
  <2>2. call' \in [Calls -> CallRecords] /\ \A d \in Calls : Known(call'[d])
    BY <1>5, <1>8, <2>1 DEF SaveAccount, CallStates
  <2>3. mapping' \in [Investors -> [ledger : Wallets \cup {None}, custody : Vaults \cup {None}]]
    BY <1>8, <2>1 DEF SaveAccount, TypeOK
  <2>4. QED
    BY <1>1, <1>8, <2>2, <2>3 DEF SaveAccount, TypeOK
<1>9. ASSUME NEW c \in Calls, Fails(c) PROVE TypeOK'
  <2>1. call[c].pc \in {"check", "send", "poll"} => call[c].address \in Wallets
    BY <1>0 DEF Known
  <2>2. call' \in [Calls -> CallRecords] /\ \A d \in Calls : Known(call'[d])
    BY <1>5, <1>9, <2>1 DEF Fails, CallStates
  <2>3. QED
    BY <1>0, <1>1, <1>9, <2>2 DEF Fails, Fault, TypeOK
<1>10. ASSUME NEW f \in Investors, NEW a \in Assets, RemoveAccount(f, a) PROVE TypeOK'
  BY <1>10 DEF RemoveAccount, TypeOK
<1>11. ASSUME NEW w \in Wallets, Mine(w) PROVE TypeOK'
  BY <1>11 DEF Mine, TypeOK
<1>12. CASE UNCHANGED vars
  BY <1>12 DEF vars, TypeOK
<1>13. QED
  BY <1>2, <1>3, <1>4, <1>6, <1>7, <1>8, <1>9, <1>10, <1>11, <1>12 DEF Next, CallStep

-----------------------------------------------------------------------------
(* A call that moves on and touches neither the mapping nor the chain keeps
   the invariant if it enters each state with what that state needs. *)
LEMMA MoveStep ==
  ASSUME Inv, NEW c \in Calls, NEW pc \in CallStates, At(c, pc),
         UNCHANGED <<mapping, balance, sent, recorded>>,
         pc \in {"check", "send", "poll", "save"} => call[c].address \in recorded[call[c].fin],
         Activating /\ pc = "save" => balance[call[c].address] > 0
  PROVE  AddressInv' /\ ActiveInv' /\ MappedIsActive' /\ OnlyWinnersCount'
<1>1. AddressInv'
  BY AtTypes DEF Inv, AddressInv
<1>2. ActiveInv'
  BY AtTypes DEF Inv, ActiveInv
<1>3. MappedIsActive' /\ OnlyWinnersCount'
  BY DEF Inv, MappedIsActive, OnlyWinnersCount
<1>4. QED
  BY <1>1, <1>2, <1>3

LEMMA InsertStep ==
  ASSUME Inv, TypeOK', NEW c \in Calls, Insert(c)
  PROVE  AddressInv' /\ ActiveInv' /\ MappedIsActive' /\ OnlyWinnersCount'
<1> USE DataAssumption
<1> DEFINE row == rows'[call[c].fin][call[c].asset]
<1>1. call[c] \in CallRecords /\ call[c].fin \in Investors /\ call \in [Calls -> CallRecords]
  BY DEF Inv, TypeOK, Insert
<1>2. /\ call' = [call EXCEPT ![c] = [call[c] EXCEPT !.pc = Recorded("check"), !.address = row]]
      /\ recorded' = [recorded EXCEPT ![call[c].fin] = @ \cup {row}]
      /\ UNCHANGED <<mapping, balance, sent>>
  BY DEF Insert
<1> HIDE DEF row
<1>3. /\ \A d \in Calls : d # c => call'[d] = call[d]
      /\ call'[c].fin = call[c].fin /\ call'[c].address = row /\ call'[c].pc = Recorded("check")
  BY <1>1, <1>2 DEF CallRecords
<1>4. recorded \in [Investors -> SUBSET Wallets]
  BY DEF Inv, TypeOK
<1>5. /\ \A f \in Investors : recorded[f] \subseteq recorded'[f]
      /\ row \in recorded'[call[c].fin]
  BY <1>1, <1>2, <1>4
<1>6. AddressInv'
  <2> SUFFICES ASSUME NEW d \in Calls, call'[d].pc \in {"check", "send", "poll", "save"}
               PROVE  call'[d].address \in recorded'[call'[d].fin]
    BY DEF AddressInv
  <2>1. CASE d = c
    BY <2>1, <1>3, <1>5
  <2>2. CASE d # c
    <3>1. call[d].fin \in Investors /\ call[d].address \in recorded[call[d].fin]
      BY <2>2, <1>3 DEF Inv, TypeOK, AddressInv
    <3>2. QED
      BY <2>2, <3>1, <1>3, <1>5
  <2>3. QED
    BY <2>1, <2>2
<1>7. ActiveInv'
  BY <1>2, <1>3 DEF Inv, ActiveInv, Recorded
<1>8. MappedIsActive'
  BY <1>2 DEF Inv, MappedIsActive
<1>9. OnlyWinnersCount'
  BY <1>2, <1>5 DEF Inv, OnlyWinnersCount
<1>10. QED
  BY <1>6, <1>7, <1>8, <1>9

LEMMA SendStep ==
  ASSUME Inv, NEW c \in Calls, SendActivation(c)
  PROVE  AddressInv' /\ ActiveInv' /\ MappedIsActive' /\ OnlyWinnersCount'
<1>1. /\ call[c].pc = "send" /\ call[c].address \in recorded[call[c].fin]
      /\ call[c].fin \in Investors
  BY DEF Inv, TypeOK, AddressInv, SendActivation
<1>2. At(c, "poll") /\ UNCHANGED <<rows, mapping, balance, recorded, faults>>
  BY DEF SendActivation
<1>3. AddressInv' /\ ActiveInv' /\ MappedIsActive'
  <2>1. "poll" \in CallStates
    BY DEF CallStates
  <2>2. TypeOK
    BY DEF Inv
  <2>3. AddressInv'
    BY <1>1, <1>2, <2>1, <2>2, AtTypes DEF Inv, AddressInv
  <2>4. ActiveInv'
    BY <1>2, <2>1, <2>2, AtTypes DEF Inv, ActiveInv
  <2>5. MappedIsActive'
    BY <1>2 DEF Inv, MappedIsActive
  <2>6. QED
    BY <2>3, <2>4, <2>5
<1>4. \A w \in Wallets : sent'[w] > 0 => \E f \in Investors : w \in recorded[f]
  <2> SUFFICES ASSUME NEW w \in Wallets, sent'[w] > 0
               PROVE  \E f \in Investors : w \in recorded[f]
    OBVIOUS
  <2>1. CASE w = call[c].address
    BY <2>1, <1>1
  <2>2. CASE w # call[c].address
    BY <2>2 DEF Inv, TypeOK, SendActivation, OnlyWinnersCount
  <2>3. QED
    BY <2>1, <2>2
<1>5. OnlyWinnersCount'
  BY <1>2, <1>4 DEF Inv, OnlyWinnersCount
<1>6. QED
  BY <1>3, <1>5

LEMMA SaveStep ==
  ASSUME Inv, NEW c \in Calls, SaveAccount(c)
  PROVE  AddressInv' /\ ActiveInv' /\ MappedIsActive' /\ OnlyWinnersCount'
<1>1. /\ call[c].address \in recorded[call[c].fin] /\ call[c].fin \in Investors
      /\ Activating => balance[call[c].address] > 0
  BY DEF Inv, TypeOK, AddressInv, ActiveInv, SaveAccount
<1>2. /\ At(c, "done") /\ UNCHANGED <<rows, balance, sent, recorded, faults>>
      /\ mapping' = [mapping EXCEPT ![call[c].fin] = [ledger |-> call[c].address, custody |-> call[c].vault]]
  BY DEF SaveAccount
<1>3. "done" \in CallStates /\ TypeOK
  BY DEF CallStates, Inv
<1>4. AddressInv' /\ ActiveInv'
  BY <1>2, <1>3, AtTypes DEF Inv, AddressInv, ActiveInv
<1>5. \A f \in Investors :
        \/ mapping'[f] = mapping[f]
        \/ f = call[c].fin /\ mapping'[f].ledger = call[c].address
  BY <1>1, <1>2, <1>3 DEF TypeOK
<1>6. MappedIsActive'
  BY <1>1, <1>2, <1>5 DEF Inv, MappedIsActive
<1>7. OnlyWinnersCount'
  BY <1>1, <1>2, <1>5 DEF Inv, OnlyWinnersCount
<1>8. QED
  BY <1>4, <1>6, <1>7

LEMMA Invariance == ASSUME Inv, [Next]_vars PROVE Inv'
<1>1. TypeOK /\ TypeOK'
  BY TypeStep DEF Inv
<1>2. SUFFICES AddressInv' /\ ActiveInv' /\ MappedIsActive' /\ OnlyWinnersCount'
  BY <1>1 DEF Inv
<1>3. ASSUME NEW c \in Calls, NEW f \in Investors, NEW a \in Assets, NEW bind \in Binds, CreateAccount(c, f, a, bind)
      PROVE  AddressInv' /\ ActiveInv' /\ MappedIsActive' /\ OnlyWinnersCount'
  <2>1. /\ \A d \in Calls : d # c => call'[d] = call[d]
        /\ call'[c].pc \in {"resolve", "insert"}
        /\ UNCHANGED <<mapping, balance, sent, recorded>>
    BY <1>1, <1>3 DEF TypeOK, CreateAccount
  <2>2. AddressInv' /\ ActiveInv'
    BY <2>1 DEF Inv, AddressInv, ActiveInv
  <2>3. QED
    BY <2>1, <2>2 DEF Inv, MappedIsActive, OnlyWinnersCount
<1>4. ASSUME NEW c \in Calls, ResolveCustodyAddress(c)
      PROVE  AddressInv' /\ ActiveInv' /\ MappedIsActive' /\ OnlyWinnersCount'
  <2>1. /\ \A d \in Calls : d # c => call'[d] = call[d]
        /\ call'[c].pc = "insert"
        /\ UNCHANGED <<mapping, balance, sent, recorded>>
    BY <1>1, <1>4 DEF TypeOK, CallRecords, ResolveCustodyAddress
  <2>2. AddressInv' /\ ActiveInv'
    BY <2>1 DEF Inv, AddressInv, ActiveInv
  <2>3. QED
    BY <2>1, <2>2 DEF Inv, MappedIsActive, OnlyWinnersCount
<1>5. ASSUME NEW c \in Calls, CheckActive(c) \/ PollBalance(c)
      PROVE  AddressInv' /\ ActiveInv' /\ MappedIsActive' /\ OnlyWinnersCount'
  <2>1. call[c].address \in recorded[call[c].fin]
    BY <1>5 DEF Inv, AddressInv, CheckActive, PollBalance
  <2>2. CASE CheckActive(c) /\ ~(balance[call[c].address] > 0)
    BY <2>1, <2>2, MoveStep DEF CheckActive, CallStates
  <2>3. CASE balance[call[c].address] > 0
    BY <1>5, <2>1, <2>3, MoveStep DEF CheckActive, PollBalance, CallStates
  <2>4. QED
    BY <1>5, <2>2, <2>3 DEF PollBalance
<1>6. ASSUME NEW c \in Calls, Fails(c)
      PROVE  AddressInv' /\ ActiveInv' /\ MappedIsActive' /\ OnlyWinnersCount'
  BY <1>6, MoveStep DEF Fails, CallStates
<1>7. ASSUME NEW f \in Investors, NEW a \in Assets, RemoveAccount(f, a)
      PROVE  AddressInv' /\ ActiveInv' /\ MappedIsActive' /\ OnlyWinnersCount'
  BY <1>7 DEF RemoveAccount, Inv, AddressInv, ActiveInv, MappedIsActive, OnlyWinnersCount
<1>8. ASSUME NEW w \in Wallets, Mine(w)
      PROVE  AddressInv' /\ ActiveInv' /\ MappedIsActive' /\ OnlyWinnersCount'
  <2>1. /\ \A x \in Wallets : balance[x] > 0 => balance'[x] > 0
        /\ UNCHANGED <<call, mapping, sent, recorded>>
    BY <1>1, <1>8 DEF TypeOK, Mine
  <2>2. AddressInv' /\ OnlyWinnersCount'
    BY <2>1 DEF Inv, AddressInv, OnlyWinnersCount
  <2>3. ActiveInv'
    BY <1>1, <2>1 DEF Inv, ActiveInv, TypeOK
  <2>4. MappedIsActive'
    <3> SUFFICES ASSUME Activating, NEW f \in Investors, mapping[f].ledger # None
                 PROVE  balance'[mapping[f].ledger] > 0
      BY <2>1 DEF MappedIsActive
    <3>1. mapping[f].ledger \in Wallets
      BY <1>1 DEF TypeOK
    <3>2. QED
      BY <2>1, <3>1 DEF Inv, MappedIsActive
  <2>5. QED
    BY <2>2, <2>3, <2>4
<1>9. CASE UNCHANGED vars
  BY <1>9 DEF vars, Inv, AddressInv, ActiveInv, MappedIsActive, OnlyWinnersCount
<1>10. QED
  BY <1>1, <1>3, <1>4, <1>5, <1>6, <1>7, <1>8, <1>9, InsertStep, SendStep, SaveStep DEF Next, CallStep

LEMMA Invariant == Spec => []Inv
<1>1. Init => Inv
  BY InitInv
<1>2. Inv /\ [Next]_vars => Inv'
  BY Invariance
<1>3. QED
  BY <1>1, <1>2, PTL DEF Spec

(* The state of every reachable onboarding is well typed, whatever the number
   of concurrent createAccount calls. *)
THEOREM TypeCorrect == Spec => []TypeOK
<1>1. Inv => TypeOK
  BY DEF Inv
<1>2. QED
  BY <1>1, Invariant, PTL

(* On a network that needs activation no operational resolver ever reads an
   address that holds nothing (network-account-service.ts:71-83). *)
THEOREM ActiveMapped == Spec => []MappedIsActive
<1>1. Inv => MappedIsActive
  BY DEF Inv
<1>2. QED
  BY <1>1, Invariant, PTL

(* Funds are sent to, and mappings name, addresses that won the insert of the
   network-account store only (network-account-service.ts:67-69). *)
THEOREM WinnersOnly == Spec => []OnlyWinnersCount
<1>1. Inv => OnlyWinnersCount
  BY DEF Inv
<1>2. QED
  BY <1>1, Invariant, PTL

(***************************************************************************)
(* Lookups (CustodyWallets).                                               *)
(***************************************************************************)

(* An account that has an asset or an address is one somebody opened, and an
   opened account is listed. *)
ListedInv ==
  /\ \A v \in held \cup ready : made[v] # "no"
  /\ \A v \in Accounts : made[v] # "no" => place[v] > 0
  /\ ready \subseteq held

(* A running scan has every account of its beginning before it or behind. *)
CoverInv ==
  \A v \in scan.began :
    /\ v \in There
    /\ \/ v \in known
       \/ v \in scan.work
       \/ scan.pc = "pages" /\ place[v] > scan.after

(* A call past its scan that could rely on an account has it in the cache. *)
ReliedInv ==
  \A l \in Lookups :
    /\ lookup[l].pc \in {"look", "final"} /\ lookup[l].relied => lookup[l].want \in known
    /\ lookup[l].pc # "done" => lookup[l].answer = "none"
    /\ lookup[l].pc = "new" => ~lookup[l].relied

(* DFNS: no scan and no call that waits; the map has what the process was
   shown and opened. *)
DfnsInv ==
  /\ \A v \in Accounts : made[v] \in {"vault", "addresses"} => provider = "fireblocks"
  /\ provider = "dfns" => Own \subseteq known

WalletsInv == WalletsTypeOK /\ ListedInv /\ CoverInv /\ ReliedInv /\ DfnsInv /\ UnknownHasCause

(* The three kinds of record keep their shape. *)
LEMMA Shapes ==
  /\ Idle \in Scans
  /\ NoCall \in LookupStates /\ Thrown \in LookupStates /\ Found \in LookupStates
  /\ NoCall.pc = "new" /\ NoCall.answer = "none" /\ ~NoCall.relied
  /\ Thrown.pc = "thrown" /\ Thrown.answer = "none"
  /\ Found.pc = "done" /\ Found.answer = "found"
<1>1. Idle \in Scans
  BY SizeAssumption DEF Idle, Scans
<1>2. NoCall \in LookupStates /\ NoCall.pc = "new" /\ NoCall.answer = "none" /\ ~NoCall.relied
  BY DEF NoCall, LookupStates
<1>3. Thrown \in LookupStates /\ Thrown.pc = "thrown" /\ Thrown.answer = "none"
  BY DEF Thrown, NoCall, LookupStates
<1>4. Found \in LookupStates /\ Found.pc = "done" /\ Found.answer = "found"
  BY DEF Found, NoCall, LookupStates
<1>5. QED
  BY <1>1, <1>2, <1>3, <1>4

(* A call's record with other values of its fields. *)
LEMMA CallChange ==
  ASSUME NEW c \in LookupStates, NEW a \in {"none", "found", "unknown"}, NEW b \in BOOLEAN,
         NEW pc \in {"new", "initial", "look", "again", "final", "wallet", "done", "thrown"}
  PROVE  /\ [c EXCEPT !.pc = pc] \in LookupStates
         /\ [c EXCEPT !.pc = pc, !.answer = a] \in LookupStates
         /\ [c EXCEPT !.pc = pc, !.relied = b] \in LookupStates
         /\ [c EXCEPT !.pc = pc, !.answer = a, !.relied = b] \in LookupStates
<1>1. [c EXCEPT !.pc = pc] \in LookupStates
  BY DEF LookupStates
<1>2. [c EXCEPT !.pc = pc, !.answer = a] \in LookupStates
  BY DEF LookupStates
<1>3. [c EXCEPT !.pc = pc, !.relied = b] \in LookupStates
  BY DEF LookupStates
<1>4. [c EXCEPT !.pc = pc, !.answer = a, !.relied = b] \in LookupStates
  BY DEF LookupStates
<1>5. QED
  BY <1>1, <1>2, <1>3, <1>4

(* A scan's record with other values of its fields. *)
LEMMA ScanChange ==
  ASSUME NEW c \in Scans, NEW n \in Nat, NEW W \in SUBSET Accounts, NEW t \in 0..Retries,
         NEW pc \in {"idle", "pages", "vaults"}
  PROVE  /\ [c EXCEPT !.after = n, !.work = W, !.tries = t] \in Scans
         /\ [c EXCEPT !.pc = pc, !.work = W, !.tries = t] \in Scans
         /\ [c EXCEPT !.work = W, !.tries = t] \in Scans
<1>1. [c EXCEPT !.after = n, !.work = W, !.tries = t] \in Scans
  BY DEF Scans
<1>2. [c EXCEPT !.pc = pc, !.work = W, !.tries = t] \in Scans
  BY DEF Scans
<1>3. [c EXCEPT !.work = W, !.tries = t] \in Scans
  BY DEF Scans
<1>4. QED
  BY <1>1, <1>2, <1>3

(* What a page adds to the scan, and what it keeps. *)
LEMMA PageRead ==
  ASSUME scan \in Scans, ReadPage
  PROVE  /\ scan'.began = scan.began
         /\ scan'.work = scan.work \cup (Page(scan.after) \cap held)
         /\ (\E v \in Accounts : place[v] > scan.after + PageSize)
               => scan'.pc = "pages" /\ scan'.after = scan.after + PageSize
<1> DEFINE W == scan.work \cup (Page(scan.after) \cap held)
           more == \E v \in Accounts : place[v] > scan.after + PageSize
<1>1. /\ scan.pc = "pages"
      /\ more => scan' = [scan EXCEPT !.after = scan.after + PageSize, !.work = W, !.tries = 0]
      /\ ~more => scan' = [scan EXCEPT !.pc = "vaults", !.work = W, !.tries = 0]
  BY DEF ReadPage
<1> HIDE DEF W, more
<1>2. CASE more
  <2>1. scan'.began = scan.began /\ scan'.work = W /\ scan'.pc = "pages" /\ scan'.after = scan.after + PageSize
    BY <1>1, <1>2 DEF Scans
  <2>2. QED
    BY <1>2, <2>1 DEF W, more
<1>3. CASE ~more
  <2>1. scan'.began = scan.began /\ scan'.work = W
    BY <1>1, <1>3 DEF Scans
  <2>2. QED
    BY <1>3, <2>1 DEF W, more
<1>4. QED
  BY <1>2, <1>3

(* The initial state satisfies the invariant. *)
LEMMA WalletsBegin == ASSUME WalletsInit PROVE WalletsInv
<1> USE Shapes
<1>1. WalletsTypeOK
  <2>1. Listed \subseteq Accounts /\ FirstWallets \subseteq Accounts
    BY DEF Listed, FirstWallets, Page
  <2>2. place \in [Accounts -> Nat] /\ 0 \in 0..MaxFailures /\ 0 \in 0..MaxRestarts
    BY StartsAssumption, SizeAssumption DEF WalletsInit
  <2>3. QED
    BY <2>1, <2>2 DEF WalletsInit, WalletsTypeOK
<1>2. ListedInv
  BY <1>1 DEF WalletsInit, ListedInv, Listed, WalletsTypeOK
<1>3. CoverInv
  BY DEF WalletsInit, CoverInv, Idle
<1>4. ReliedInv /\ UnknownHasCause
  BY DEF WalletsInit, ReliedInv, UnknownHasCause
<1>5. DfnsInv
  BY DEF WalletsInit, DfnsInv, Own, Listed
<1>6. QED
  BY <1>1, <1>2, <1>3, <1>4, <1>5 DEF WalletsInv

(* Every step keeps the types. *)
LEMMA WalletsTypeStep == ASSUME WalletsTypeOK, [WalletsNext]_walletVars PROVE WalletsTypeOK'
<1> USE Shapes, SizeAssumption DEF WalletsTypeOK, bounds, custodian
<1>1. CASE ReadPage
  <2>1. scan.work \cup (Page(scan.after) \cap held) \in SUBSET Accounts
    BY DEF Page, Scans
  <2>2. ASSUME NEW W \in SUBSET Accounts
        PROVE  /\ [scan EXCEPT !.after = @ + PageSize, !.work = W, !.tries = 0] \in Scans
               /\ [scan EXCEPT !.pc = "vaults", !.work = W, !.tries = 0] \in Scans
    <3>1. 0 \in 0..Retries /\ scan.after + PageSize \in Nat
      BY DEF Scans
    <3>2. QED
      BY <3>1, ScanChange
  <2>3. scan' \in Scans
    BY <1>1, <2>1, <2>2 DEF ReadPage
  <2>4. QED
    BY <1>1, <2>3 DEF ReadPage
<1>2. ASSUME NEW v \in Accounts, ReadVault(v) PROVE WalletsTypeOK'
  <2>1. scan' \in Scans
    <3>1. 0 \in 0..Retries /\ scan.work \ {v} \in SUBSET Accounts
      BY DEF Scans
    <3>2. QED
      BY <1>2, <3>1, ScanChange DEF ReadVault
  <2>2. QED
    BY <1>2, <2>1 DEF ReadVault
<1>3. ASSUME FailScan \/ EndScan PROVE scan' \in Scans /\ lookup' \in [Lookups -> LookupStates]
  <2>1. ASSUME NEW l \in Lookups
        PROVE  [lookup[l] EXCEPT !.pc = IF @ = "initial" THEN "look" ELSE "final",
                               !.relied = lookup[l].want \in scan.began] \in LookupStates
    <3>1. ASSUME NEW b \in BOOLEAN
          PROVE  [lookup[l] EXCEPT !.pc = IF @ = "initial" THEN "look" ELSE "final", !.relied = b] \in LookupStates
      BY CallChange
    <3>2. (lookup[l].want \in scan.began) \in BOOLEAN
      OBVIOUS
    <3>3. QED
      BY <3>1, <3>2, Zenon
  <2>2. CASE EndScan
    BY <2>1, <2>2 DEF EndScan
  <2>3. CASE FailScan
    BY <2>3 DEF FailScan
  <2>4. QED
    BY <1>3, <2>2, <2>3
<1>4. CASE ScanEnds
  BY <1>3, <1>4 DEF ScanEnds
<1>5. CASE RateLimited
  BY <1>3, <1>5 DEF RateLimited, Scans
<1>6. CASE ScanFails
  BY <1>3, <1>6 DEF ScanFails, CallFails
<1>7. ASSUME Rescan PROVE scan' \in Scans
  BY <1>7 DEF Rescan, Idle, Scans, There
<1>8. ASSUME NEW l \in Lookups, NEW v \in Accounts \cup {Stranger}, Ask(l, v) PROVE WalletsTypeOK'
  <2>1. /\ [[NoCall EXCEPT !.want = v] EXCEPT !.pc = "look"] \in LookupStates
        /\ [[NoCall EXCEPT !.want = v] EXCEPT !.pc = "initial"] \in LookupStates
        /\ [[NoCall EXCEPT !.want = v] EXCEPT !.pc = "done", !.answer = "unknown", !.relied = v \in Own] \in LookupStates
    <3>1. [NoCall EXCEPT !.want = v] \in LookupStates
      BY DEF NoCall, LookupStates
    <3>2. (v \in Own) \in BOOLEAN
      OBVIOUS
    <3>3. ASSUME NEW b \in BOOLEAN
          PROVE  [[NoCall EXCEPT !.want = v] EXCEPT !.pc = "done", !.answer = "unknown", !.relied = b] \in LookupStates
      BY <3>1, CallChange
    <3>4. [[NoCall EXCEPT !.want = v] EXCEPT !.pc = "done", !.answer = "unknown", !.relied = v \in Own] \in LookupStates
      BY <3>2, <3>3, Zenon
    <3>5. QED
      BY <3>1, <3>4, CallChange
  <2>2. scan' \in Scans /\ lookup' \in [Lookups -> LookupStates]
    BY <1>7, <1>8, <2>1 DEF Ask
  <2>3. QED
    BY <1>8, <2>2 DEF Ask
<1>9. ASSUME NEW l \in Lookups, Look(l) \/ Final(l) \/ Answer(l) \/ AnswerFails(l) PROVE WalletsTypeOK'
  <2>1. ASSUME NEW pc \in {"wallet", "again", "done"}, NEW a \in {"none", "found", "unknown"}
        PROVE  /\ [lookup[l] EXCEPT !.pc = pc] \in LookupStates
               /\ [lookup[l] EXCEPT !.pc = pc, !.answer = a] \in LookupStates
    BY <2>1, CallChange
  <2>2. CASE Look(l)
    BY <1>7, <2>1, <2>2 DEF Look
  <2>3. CASE Final(l)
    BY <2>1, <2>3 DEF Final
  <2>4. CASE Answer(l) \/ AnswerFails(l)
    BY <2>4 DEF Answer, AnswerFails, CallFails
  <2>5. QED
    BY <1>9, <2>2, <2>3, <2>4
<1>10. ASSUME NEW v \in Accounts,
              \/ CreateVault(v) \/ CreateAsset(v) \/ ReadAddresses(v) \/ CreationFails(v)
              \/ CreateWallet(v) \/ AssignAddress(v) \/ OpenOutside(v)
       PROVE  WalletsTypeOK'
  <2>1. Cardinality(Listed) + 1 \in Nat
    BY AccountsAssumption, FS_Subset, FS_CardinalityType DEF Listed
  <2>2. ASSUME Listing(v) PROVE place' \in [Accounts -> Nat]
    BY <2>1, <2>2 DEF Listing
  <2>3. CASE CreateVault(v) \/ CreateWallet(v) \/ OpenOutside(v)
    BY <2>2, <2>3 DEF CreateVault, CreateWallet, OpenOutside
  <2>4. CASE CreateAsset(v) \/ ReadAddresses(v) \/ CreationFails(v) \/ AssignAddress(v)
    BY <2>4 DEF CreateAsset, ReadAddresses, CreationFails, AssignAddress, CallFails
  <2>5. QED
    BY <1>10, <2>3, <2>4
<1>11. CASE Restart
  <2>1. FirstWallets \subseteq Accounts
    BY DEF FirstWallets, Page
  <2>2. restarts' \in 0..MaxRestarts
    BY <1>11 DEF Restart
  <2>3. lookup' \in [Lookups -> LookupStates]
    BY <1>11 DEF Restart
  <2>4. made' \in [Accounts -> {"no", "vault", "addresses", "returned", "thrown", "outside", "earlier"}]
    BY <1>11 DEF Restart
  <2>5. QED
    BY <1>11, <2>1, <2>2, <2>3, <2>4 DEF Restart
<1>12. CASE UNCHANGED walletVars
  BY <1>12 DEF walletVars
<1>13. QED
  BY <1>1, <1>2, <1>4, <1>5, <1>6, <1>8, <1>9, <1>10, <1>11, <1>12 DEF WalletsNext, ScanStep, LookupStep

(* THEOREM: in every reachable state the cache, the scan and the calls keep to
   their shapes. *)
THEOREM WalletsTypeCorrect == WalletsSpec => []WalletsTypeOK
<1>1. WalletsInit => WalletsTypeOK
  BY WalletsBegin DEF WalletsInv
<1>2. WalletsTypeOK /\ [WalletsNext]_walletVars => WalletsTypeOK'
  BY WalletsTypeStep
<1>3. QED
  BY <1>1, <1>2, PTL DEF WalletsSpec

(* Whoever opens an account lists it before it has an asset or an address. *)
LEMMA ListedStep == ASSUME WalletsTypeOK, ListedInv, [WalletsNext]_walletVars PROVE ListedInv'
<1> USE DEF WalletsTypeOK, ListedInv, bounds, custodian
<1>1. CASE ScanStep
  BY <1>1 DEF ScanStep, ReadPage, ReadVault, ScanEnds
<1>2. CASE RateLimited \/ ScanFails
  BY <1>2 DEF RateLimited, ScanFails
<1>3. ASSUME NEW l \in Lookups, NEW v, Ask(l, v) \/ LookupStep(l) \/ AnswerFails(l) PROVE ListedInv'
  BY <1>3 DEF Ask, LookupStep, Look, Final, Answer, AnswerFails
<1>4. ASSUME NEW v \in Accounts, CreateVault(v) \/ CreateWallet(v) \/ OpenOutside(v) PROVE ListedInv'
  <2>1. Cardinality(Listed) + 1 > 0
    BY AccountsAssumption, FS_Subset, FS_CardinalityType DEF Listed
  <2>2. \A u \in Accounts : place'[u] = IF u = v THEN Cardinality(Listed) + 1 ELSE place[u]
    BY <1>4 DEF CreateVault, CreateWallet, OpenOutside, Listing
  <2>3. \A u \in Accounts : u # v => made'[u] = made[u]
    BY <1>4 DEF CreateVault, CreateWallet, OpenOutside
  <2>4. made'[v] # "no" /\ held' \subseteq held \cup {v} /\ ready' \subseteq ready \cup {v} /\ ready' \subseteq held'
    BY <1>4 DEF CreateVault, CreateWallet, OpenOutside
  <2>5. QED
    BY <2>1, <2>2, <2>3, <2>4
<1>5. ASSUME NEW v \in Accounts, CreateAsset(v) \/ ReadAddresses(v) \/ CreationFails(v) \/ AssignAddress(v)
      PROVE  ListedInv'
  <2>1. /\ UNCHANGED place /\ made[v] # "no"
        /\ \A u \in Accounts : (made[u] = "no") = (made'[u] = "no")
    BY <1>5 DEF CreateAsset, ReadAddresses, CreationFails, AssignAddress
  <2>2. held' \subseteq held \cup {v} /\ ready' \subseteq ready \cup {v} /\ ready' \subseteq held'
    BY <1>5 DEF CreateAsset, ReadAddresses, CreationFails, AssignAddress
  <2>3. QED
    BY <2>1, <2>2
<1>6. CASE Restart
  BY <1>6 DEF Restart
<1>7. CASE UNCHANGED walletVars
  BY <1>7 DEF walletVars
<1>8. QED
  BY <1>1, <1>2, <1>3, <1>4, <1>5, <1>6, <1>7 DEF WalletsNext

(* What was there when the scan began stays before the scan or behind it. *)
LEMMA CoverStep == ASSUME WalletsTypeOK, ListedInv, CoverInv, [WalletsNext]_walletVars PROVE CoverInv'
<1> USE SizeAssumption DEF WalletsTypeOK, CoverInv, There, bounds, custodian
<1>1. scan \in Scans /\ scan.after \in Nat /\ scan.work \subseteq Accounts /\ scan.began \subseteq Accounts
  BY DEF Scans
<1>2. CASE ReadPage
  <2>1. scan'.began = scan.began /\ UNCHANGED <<place, held, ready, known>>
    BY <1>1, <1>2, PageRead DEF ReadPage
  <2>2. scan'.work = scan.work \cup (Page(scan.after) \cap held)
    BY <1>1, <1>2, PageRead
  <2>3. ASSUME NEW v \in scan.began, v \notin known, v \notin scan'.work
        PROVE  scan'.pc = "pages" /\ place[v] > scan'.after
    <3>1. place[v] > scan.after /\ place[v] \in Nat /\ v \in Accounts /\ v \in held
      BY <1>1, <2>2, <2>3
    <3>2. place[v] > scan.after + PageSize
      BY <1>1, <2>2, <2>3, <3>1 DEF Page
    <3>3. \E w \in Accounts : place[w] > scan.after + PageSize
      BY <3>1, <3>2
    <3>4. scan'.pc = "pages" /\ scan'.after = scan.after + PageSize
      BY <1>1, <1>2, <3>3, PageRead
    <3>5. QED
      BY <3>2, <3>4
  <2>4. QED
    BY <2>1, <2>3
<1>3. ASSUME NEW v \in Accounts, ReadVault(v) PROVE CoverInv'
  <2>1. /\ scan'.began = scan.began /\ scan'.work = scan.work \ {v} /\ scan'.pc = "vaults"
        /\ UNCHANGED <<place, held, ready>>
        /\ known' = known \cup ({v} \cap ready)
    BY <1>1, <1>3 DEF ReadVault, Scans
  <2>2. QED
    BY <1>3, <2>1 DEF ReadVault
<1>4. CASE scan' = Idle
  BY <1>4 DEF Idle
<1>5. CASE ScanEnds \/ ScanFails \/ Restart
  BY <1>4, <1>5 DEF ScanEnds, ScanFails, EndScan, FailScan, Restart
<1>6. CASE RateLimited
  <2>1. CASE scan' = [scan EXCEPT !.tries = @ + 1]
    <3>1. /\ scan'.began = scan.began /\ scan'.work = scan.work /\ scan'.pc = scan.pc /\ scan'.after = scan.after
          /\ UNCHANGED <<place, held, ready, known>>
      BY <1>1, <1>6, <2>1 DEF RateLimited, Scans
    <3>2. QED
      BY <3>1
  <2>2. QED
    BY <1>4, <1>6, <2>1 DEF RateLimited, FailScan
<1>7. ASSUME Rescan, UNCHANGED <<place, held, ready, known>> PROVE CoverInv'
  <2>1. CASE scan' = scan
    BY <1>7, <2>1
  <2>2. CASE scan' = [Idle EXCEPT !.pc = "pages", !.began = There]
    <3>1. scan'.began = There /\ scan'.pc = "pages" /\ scan'.after = 0
      BY <2>2 DEF Idle
    <3>2. \A v \in There : place[v] > 0
      BY <1>7 DEF ListedInv
    <3>3. QED
      BY <1>7, <3>1, <3>2
  <2>3. QED
    BY <1>7, <2>1, <2>2 DEF Rescan
<1>8. ASSUME NEW l \in Lookups, NEW v, Ask(l, v) \/ Look(l) \/ Final(l) \/ Answer(l) \/ AnswerFails(l)
      PROVE  CoverInv'
  <2>1. UNCHANGED <<place, held, ready, known>> /\ (Rescan \/ UNCHANGED scan)
    BY <1>8 DEF Ask, Look, Final, Answer, AnswerFails
  <2>2. QED
    BY <1>7, <2>1
<1>9. ASSUME NEW v \in Accounts, CreateVault(v) \/ CreateWallet(v) \/ OpenOutside(v) PROVE CoverInv'
  <2>1. /\ made[v] = "no" /\ Listing(v) /\ UNCHANGED scan
        /\ held \subseteq held' /\ ready \subseteq ready' /\ known \subseteq known'
    BY <1>9 DEF CreateVault, CreateWallet, OpenOutside
  <2>2. \A u \in scan.began : u # v /\ place'[u] = place[u]
    BY <1>1, <2>1 DEF Listing, ListedInv
  <2>3. QED
    BY <2>1, <2>2
<1>10. ASSUME NEW v \in Accounts, CreateAsset(v) \/ ReadAddresses(v) \/ CreationFails(v) \/ AssignAddress(v)
       PROVE  CoverInv'
  <2>1. UNCHANGED <<scan, place, known>> /\ held \subseteq held' /\ ready \subseteq ready'
    BY <1>10 DEF CreateAsset, ReadAddresses, CreationFails, AssignAddress
  <2>2. QED
    BY <2>1
<1>11. CASE UNCHANGED walletVars
  BY <1>11 DEF walletVars
<1>12. QED
  BY <1>2, <1>3, <1>5, <1>6, <1>8, <1>9, <1>10, <1>11 DEF WalletsNext, ScanStep, LookupStep

(* The map of DFNS keeps what the process was shown and opened. *)
LEMMA DfnsStep == ASSUME WalletsTypeOK, DfnsInv, [WalletsNext]_walletVars PROVE DfnsInv'
<1> USE DEF DfnsInv, Own, bounds, custodian, WalletsTypeOK
<1>1. CASE ScanStep \/ RateLimited \/ ScanFails
  <2>1. UNCHANGED <<provider, made, booted>> /\ known \subseteq known'
    BY <1>1 DEF ScanStep, ReadPage, ReadVault, ScanEnds, RateLimited, ScanFails
  <2>2. QED
    BY <2>1
<1>2. ASSUME NEW l \in Lookups, NEW v, Ask(l, v) \/ LookupStep(l) \/ AnswerFails(l) PROVE DfnsInv'
  <2>1. UNCHANGED <<provider, made, booted, known>>
    BY <1>2 DEF Ask, LookupStep, Look, Final, Answer, AnswerFails
  <2>2. QED
    BY <2>1
<1>3. ASSUME NEW v \in Accounts, CreateVault(v) \/ CreateAsset(v) \/ ReadAddresses(v) \/ CreationFails(v)
      PROVE  DfnsInv'
  BY <1>3 DEF CreateVault, CreateAsset, ReadAddresses, CreationFails
<1>4. ASSUME NEW v \in Accounts, CreateWallet(v) \/ AssignAddress(v) \/ OpenOutside(v) PROVE DfnsInv'
  BY <1>4 DEF CreateWallet, AssignAddress, OpenOutside
<1>5. CASE Restart
  BY <1>5 DEF Restart
<1>6. CASE UNCHANGED walletVars
  BY <1>6 DEF walletVars
<1>7. QED
  BY <1>1, <1>2, <1>3, <1>4, <1>5, <1>6 DEF WalletsNext

(* A call that goes on after a scan has what it relied on in the cache, and a
   call that is told otherwise had nothing to rely on. *)
LEMMA ReliedStep ==
  ASSUME WalletsTypeOK, CoverInv, ReliedInv, DfnsInv, UnknownHasCause, [WalletsNext]_walletVars
  PROVE  ReliedInv' /\ UnknownHasCause'
<1> USE Shapes DEF WalletsTypeOK, ReliedInv, UnknownHasCause, bounds, custodian
<1>1. scan \in Scans /\ \A l \in Lookups : lookup[l] \in LookupStates
  OBVIOUS
<1>2. CASE lookup' = lookup /\ known \subseteq known'
  BY <1>2
<1>3. ASSUME FailScan, known \subseteq known' PROVE ReliedInv' /\ UnknownHasCause'
  <2>1. \A l \in Lookups : lookup'[l] = Thrown \/ lookup'[l] = lookup[l]
    BY <1>3 DEF FailScan
  <2>2. QED
    BY <1>3, <2>1
<1>4. CASE ReadPage \/ \E v \in Accounts : ReadVault(v)
  BY <1>2, <1>4 DEF ReadPage, ReadVault
<1>5. CASE ScanEnds
  <2>1. scan.began \subseteq known /\ known' = known
    BY <1>5 DEF ScanEnds, CoverInv
  <2>2. ASSUME NEW l \in Lookups
        PROVE  \/ lookup'[l] = lookup[l]
               \/ /\ lookup'[l].pc \in {"look", "final"}
                  /\ lookup'[l].relied => lookup'[l].want \in scan.began
                  /\ lookup'[l].answer = "none"
    <3>1. CASE Waiting(l)
      <4>1. lookup'[l] = [lookup[l] EXCEPT !.pc = IF @ = "initial" THEN "look" ELSE "final",
                                      !.relied = lookup[l].want \in scan.began]
        BY <1>5, <3>1 DEF ScanEnds, EndScan
      <4>2. /\ lookup'[l].pc = IF lookup[l].pc = "initial" THEN "look" ELSE "final"
            /\ lookup'[l].relied = (lookup[l].want \in scan.began)
            /\ lookup'[l].want = lookup[l].want /\ lookup'[l].answer = lookup[l].answer
        BY <1>1, <4>1 DEF LookupStates
      <4>3. lookup[l].answer = "none"
        BY <3>1 DEF Waiting
      <4>4. QED
        BY <4>2, <4>3
    <3>2. CASE ~Waiting(l)
      BY <1>5, <3>2 DEF ScanEnds, EndScan
    <3>3. QED
      BY <3>1, <3>2
  <2>3. QED
    BY <2>1, <2>2
<1>6. CASE RateLimited \/ ScanFails
  BY <1>2, <1>3, <1>6 DEF RateLimited, ScanFails
<1>7. ASSUME NEW l \in Lookups, NEW v \in Accounts \cup {Stranger}, Ask(l, v) \/ LookupStep(l) \/ AnswerFails(l)
      PROVE  ReliedInv' /\ UnknownHasCause'
  <2>1. known' = known /\ \A k \in Lookups \ {l} : lookup'[k] = lookup[k]
    BY <1>7 DEF Ask, LookupStep, Look, Final, Answer, AnswerFails
  <2>2. SUFFICES /\ lookup'[l].pc \in {"look", "final"} /\ lookup'[l].relied => lookup'[l].want \in known
                 /\ lookup'[l].pc # "done" => lookup'[l].answer = "none"
                 /\ lookup'[l].pc = "new" => ~lookup'[l].relied
                 /\ lookup'[l].answer = "unknown" => ~lookup'[l].relied
    BY <2>1
  <2>3. CASE Ask(l, v)
    <3>1. CASE lookup' = [lookup EXCEPT ![l] = [[NoCall EXCEPT !.want = v] EXCEPT !.pc = "look"]]
      BY <3>1 DEF NoCall
    <3>2. CASE lookup' = [lookup EXCEPT ![l] = [[NoCall EXCEPT !.want = v] EXCEPT !.pc = "initial"]]
      BY <3>2 DEF NoCall
    <3>3. CASE lookup' = [lookup EXCEPT ![l] = Found]
      BY <3>3
    <3>4. CASE /\ lookup' = [lookup EXCEPT ![l] = [[NoCall EXCEPT !.want = v]
                             EXCEPT !.pc = "done", !.answer = "unknown", !.relied = v \in Own]]
               /\ v \notin known /\ provider # "fireblocks"
      <4>1. v \notin Own
        BY <3>4 DEF DfnsInv
      <4>2. lookup'[l].pc = "done" /\ lookup'[l].answer = "unknown" /\ ~lookup'[l].relied
        BY <3>4, <4>1 DEF NoCall
      <4>3. QED
        BY <4>2
    <3>5. QED
      BY <2>3, <3>1, <3>2, <3>3, <3>4 DEF Ask
  <2>4. CASE Look(l)
    <3>1. lookup'[l].pc \in {"wallet", "again"} /\ lookup'[l].answer = "none"
      BY <1>1, <2>4 DEF Look, LookupStates
    <3>2. QED
      BY <3>1
  <2>5. CASE Final(l)
    <3>1. CASE Cached(l)
      <4>1. lookup'[l].pc = "wallet" /\ lookup'[l].answer = "none"
        BY <1>1, <2>5, <3>1 DEF Final, LookupStates
      <4>2. QED
        BY <4>1
    <3>2. CASE ~Cached(l)
      <4>1. lookup'[l].pc = "done" /\ lookup'[l].answer = "unknown" /\ lookup'[l].relied = lookup[l].relied
        BY <1>1, <2>5, <3>2 DEF Final, LookupStates
      <4>2. ~lookup[l].relied
        BY <2>5, <3>2 DEF Final, Cached
      <4>3. QED
        BY <4>1, <4>2
    <3>3. QED
      BY <3>1, <3>2
  <2>6. CASE Answer(l) \/ AnswerFails(l)
    <3>1. lookup'[l] \in {Found, Thrown}
      BY <2>6 DEF Answer, AnswerFails
    <3>2. QED
      BY <3>1
  <2>7. QED
    BY <1>7, <2>3, <2>4, <2>5, <2>6 DEF LookupStep
<1>8. ASSUME NEW v \in Accounts,
             \/ CreateVault(v) \/ CreateAsset(v) \/ ReadAddresses(v) \/ CreationFails(v)
             \/ CreateWallet(v) \/ AssignAddress(v) \/ OpenOutside(v)
      PROVE  ReliedInv' /\ UnknownHasCause'
  <2>1. lookup' = lookup /\ known \subseteq known'
    BY <1>8 DEF CreateVault, CreateAsset, ReadAddresses, CreationFails, CreateWallet, AssignAddress, OpenOutside
  <2>2. QED
    BY <1>2, <2>1
<1>9. CASE Restart
  <2>1. \A l \in Lookups : lookup'[l] = Thrown \/ (lookup'[l] = lookup[l] /\ lookup[l].pc \in {"new", "done"})
    BY <1>9 DEF Restart
  <2>2. QED
    BY <2>1
<1>10. CASE UNCHANGED walletVars
  BY <1>2, <1>10 DEF walletVars
<1>11. QED
  BY <1>4, <1>5, <1>6, <1>7, <1>8, <1>9, <1>10 DEF WalletsNext, ScanStep

(* THEOREM: a call is told that an address is not in custody only when its
   account was not there as the scan it waited for began, or was neither
   shown to the process by DFNS at boot nor opened by it since. *)
THEOREM LookupsSafe == WalletsSpec => []UnknownHasCause
<1>1. WalletsInit => WalletsInv
  BY WalletsBegin
<1>2. WalletsInv /\ [WalletsNext]_walletVars => WalletsInv'
  BY WalletsTypeStep, ListedStep, CoverStep, DfnsStep, ReliedStep DEF WalletsInv
<1>3. WalletsInv => UnknownHasCause
  BY DEF WalletsInv
<1>4. QED
  BY <1>1, <1>2, <1>3, PTL DEF WalletsSpec
=============================================================================
