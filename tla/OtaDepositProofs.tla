--------------------------- MODULE OtaDepositProofs ---------------------------
(***************************************************************************)
(* Safety of OtaDeposit for every set of deposits, every number of         *)
(* overlapping polls and every amount.                                     *)
(*                                                                         *)
(* The inductive invariant adds two facts about running polls to the       *)
(* properties: a poll past its balance read holds an amount worth a sweep, *)
(* and a poll past its transfer has a mined sweep behind it.               *)
(***************************************************************************)
EXTENDS OtaDeposit, FiniteSetTheorems, TLAPS

(* The states of a poll that has marked its deposit in flight. *)
Sweeping(q) == q.pc \notin {"idle", "balance"}

AmountInv ==
  \A p \in Polls :
    Sweeping(poll[p]) => poll[p].amount > 0 /\ poll[p].amount >= Expected[poll[p].dep]

SweptInv == \A p \in Polls : Moved(poll[p]) => poll[p].dep \in swept

ArrivedInv == \A d \in Deposits : balance[d] <= arrived[d]

Inv == TypeOK /\ AmountInv /\ SweptInv /\ ArrivedInv /\ NoStuckInFlight /\ AcceptedIsKept /\ NoShortCredit

(* The initial state satisfies the invariant. *)
LEMMA InitInv == ASSUME Init PROVE Inv
<1> USE DataAssumption, BoundsAssumption
<1>1. TypeOK
  BY DEF Init, TypeOK, PollRecords, PollStates, Idle
<1>2. AmountInv /\ SweptInv
  BY DEF Init, AmountInv, SweptInv, Sweeping, Moved, Idle
<1>3. ArrivedInv /\ NoStuckInFlight /\ AcceptedIsKept /\ NoShortCredit
  BY DEF Init, ArrivedInv, NoStuckInFlight, AcceptedIsKept, NoShortCredit
<1>4. QED
  BY <1>1, <1>2, <1>3 DEF Inv

(* What one poll may do to the polls, the marks and the amounts in a step. *)
LEMMA PollTypes ==
  ASSUME NEW p \in Polls, TypeOK, NEW pc \in PollStates, NEW n \in Nat
  PROVE  /\ [poll EXCEPT ![p] = Idle] \in [Polls -> PollRecords]
         /\ [poll EXCEPT ![p] = [@ EXCEPT !.pc = pc]] \in [Polls -> PollRecords]
         /\ [poll EXCEPT ![p] = [@ EXCEPT !.pc = pc, !.amount = n]] \in [Polls -> PollRecords]
<1>1. poll[p] \in PollRecords /\ poll \in [Polls -> PollRecords]
  BY DEF TypeOK
<1>2. Idle \in PollRecords
  BY DEF Idle, PollRecords, PollStates
<1>3. [poll[p] EXCEPT !.pc = pc] \in PollRecords
  BY <1>1 DEF PollRecords
<1>4. [poll[p] EXCEPT !.pc = pc, !.amount = n] \in PollRecords
  BY <1>1 DEF PollRecords
<1>5. QED
  BY <1>1, <1>2, <1>3, <1>4

(* Every step keeps the types. *)
LEMMA TypeStep == ASSUME TypeOK, ArrivedInv, [Next]_vars PROVE TypeOK'
<1> USE DataAssumption, BoundsAssumption
<1> DEFINE Busy == \A p \in Polls : poll[p].pc # "idle" => poll[p].dep \in Deposits
<1>1. ASSUME NEW d \in Deposits, RequestDeposit(d) \/ AddDeposit(d) \/ ProvisionFails(d) \/ Arrive(d)
      PROVE  TypeOK'
  <2>1. CASE RequestDeposit(d)
    BY <2>1 DEF RequestDeposit, TypeOK, watching, chain, reports, bounds
  <2>2. CASE AddDeposit(d)
    BY <2>2 DEF AddDeposit, TypeOK, chain, reports, bounds
  <2>3. CASE ProvisionFails(d)
    BY <2>3 DEF ProvisionFails, Fault, TypeOK, watching, chain, reports
  <2>4. CASE Arrive(d)
    BY <2>4 DEF Arrive, TypeOK, watching, reports, bounds
  <2>5. QED
    BY <1>1, <2>1, <2>2, <2>3, <2>4
<1>2. ASSUME NEW d \in Deposits, Tick(d) PROVE TypeOK'
  <2>1. PICK p \in Polls : poll' = [poll EXCEPT ![p] = [pc |-> "balance", dep |-> d, amount |-> 0]]
    BY <1>2 DEF Tick
  <2>2. poll' \in [Polls -> PollRecords] /\ Busy'
    BY <2>1 DEF TypeOK, PollRecords, PollStates
  <2>3. QED
    BY <1>2, <2>2 DEF Tick, TypeOK, watching, chain, reports, bounds
<1>3. ASSUME NEW p \in Polls, Finish(p) PROVE poll' \in [Polls -> PollRecords] /\ Busy' /\ inFlight' \subseteq Deposits
  BY <1>3, PollTypes DEF Finish, TypeOK, Idle, PollStates
<1>4. ASSUME NEW p \in Polls, NEW pc \in PollStates, poll[p].pc # "idle",
             poll' = [poll EXCEPT ![p] = [@ EXCEPT !.pc = pc]]
      PROVE  poll' \in [Polls -> PollRecords] /\ Busy'
  <2>1. poll' \in [Polls -> PollRecords]
    BY <1>4, PollTypes
  <2>2. Busy'
    BY <1>4 DEF TypeOK, PollRecords
  <2>3. QED
    BY <2>1, <2>2
<1>5. ASSUME NEW p \in Polls, ReadBalance(p) \/ BalanceFails(p) PROVE TypeOK'
  <2>1. poll[p].dep \in Deposits
    BY <1>5 DEF ReadBalance, BalanceFails, TypeOK
  <2>2. poll' \in [Polls -> PollRecords] /\ Busy' /\ inFlight' \subseteq Deposits
    <3>1. CASE poll' = [poll EXCEPT ![p] = Idle] /\ inFlight' \subseteq inFlight
      BY <3>1, PollTypes DEF TypeOK, Idle, PollStates
    <3>2. CASE /\ poll' = [poll EXCEPT ![p] = [@ EXCEPT !.pc = "gas", !.amount = balance[poll[p].dep]]]
               /\ inFlight' = inFlight \cup {poll[p].dep}
      <4>1. poll' \in [Polls -> PollRecords]
        BY <2>1, <3>2, PollTypes DEF TypeOK, PollStates
      <4>2. Busy'
        BY <2>1, <3>2 DEF TypeOK, PollRecords
      <4>3. QED
        BY <2>1, <3>2, <4>1, <4>2 DEF TypeOK
    <3>3. QED
      BY <1>5, <3>1, <3>2 DEF ReadBalance, BalanceFails, Finish, Fault, watching
  <2>3. /\ UNCHANGED <<gasStation, call, deposits, timers, chain, reports, lost, crashes>>
        /\ faults' \in Nat
    BY <1>5 DEF ReadBalance, BalanceFails, Fault, watching, bounds, TypeOK
  <2>4. QED
    BY <2>2, <2>3 DEF TypeOK, chain, reports
<1>6. ASSUME NEW p \in Polls, EnsureGas(p) PROVE TypeOK'
  BY <1>4, <1>6 DEF EnsureGas, TypeOK, PollStates, watching, chain, reports, bounds
<1>7. ASSUME NEW p \in Polls, Transfer(p) PROVE TypeOK'
  <2> DEFINE d == poll[p].dep
  <2>1. d \in Deposits /\ poll[p].amount \in Nat /\ balance[d] \in Nat
    BY <1>7 DEF Transfer, TypeOK, PollRecords
  <2>2. CASE poll[p].amount <= balance[d]
    <3>1. poll' \in [Polls -> PollRecords] /\ Busy'
      BY <1>4, <1>7, <2>2 DEF Transfer, PollStates
    <3>2. balance[d] - poll[p].amount \in Nat
      BY <2>1, <2>2
    <3>3. /\ balance' = [balance EXCEPT ![d] = @ - poll[p].amount]
          /\ swept' = swept \cup {d}
          /\ UNCHANGED <<gasStation, call, watching, arrived, reports, lost, bounds>>
      BY <1>7, <2>2 DEF Transfer, watching
    <3>4. balance' \in [Deposits -> Nat] /\ swept' \subseteq Deposits
      BY <2>1, <3>2, <3>3 DEF TypeOK
    <3>5. QED
      BY <3>1, <3>3, <3>4 DEF TypeOK, watching, reports, bounds
  <2>3. CASE ~ (poll[p].amount <= balance[d])
    <3>1. Finish(p) /\ UNCHANGED <<gasStation, call, deposits, timers, chain, reports, lost, bounds>>
      BY <1>7, <2>3 DEF Transfer, chain
    <3>2. QED
      BY <1>3, <3>1 DEF TypeOK, chain, reports, bounds
  <2>4. QED
    BY <2>2, <2>3
<1>8. ASSUME NEW p \in Polls, Swept(p) PROVE TypeOK'
  BY <1>4, <1>8 DEF Swept, Stop, TypeOK, PollStates, chain, reports, bounds
<1>9. ASSUME NEW p \in Polls, SweepFails(p) PROVE TypeOK'
  BY <1>3, <1>9 DEF SweepFails, Fault, TypeOK, chain, reports
<1>10. ASSUME NEW p \in Polls, NotifyInboundHook(p) \/ ExportReceipt(p) PROVE TypeOK'
  <2>1. poll[p].pc \in {"hook", "import"} /\ poll[p].dep \in Deposits /\ poll[p].amount \in Nat
    BY <1>10 DEF NotifyInboundHook, ExportReceipt, TypeOK, PollRecords
  <2>2. poll' \in [Polls -> PollRecords] /\ Busy'
    BY <1>4, <1>10, <2>1 DEF NotifyInboundHook, ExportReceipt, PollStates
  <2>3. credited' \in [Deposits -> Nat] /\ exported' \in [Deposits -> Nat]
    BY <1>10, <2>1 DEF NotifyInboundHook, ExportReceipt, Received, TypeOK
  <2>4. UNCHANGED <<gasStation, call, watching, chain, archived, lost, crashes>> /\ faults' \in Nat
    BY <1>10 DEF NotifyInboundHook, ExportReceipt, Fault, TypeOK, bounds
  <2>5. QED
    BY <2>2, <2>3, <2>4 DEF TypeOK, watching, chain
<1>11. ASSUME NEW p \in Polls, ArchiveIfSwept(p) PROVE TypeOK'
  <2>1. poll[p].dep \in Deposits
    BY <1>11 DEF ArchiveIfSwept, TypeOK
  <2>2. poll' \in [Polls -> PollRecords] /\ Busy' /\ inFlight' \subseteq Deposits
    BY <1>3, <1>11 DEF ArchiveIfSwept
  <2>3. /\ UNCHANGED <<gasStation, call, deposits, timers, chain, credited, exported, lost, crashes>>
        /\ faults' \in Nat /\ archived' \subseteq Deposits
    BY <1>11, <2>1 DEF ArchiveIfSwept, Fault, TypeOK, bounds
  <2>4. QED
    BY <2>2, <2>3 DEF TypeOK, chain
<1>12. CASE Crash
  <2>1. poll' \in [Polls -> PollRecords] /\ Busy'
    BY <1>12 DEF Crash, Idle, PollRecords, PollStates
  <2>2. {poll[p].dep : p \in {r \in Polls : Moved(poll[r])}} \subseteq Deposits
    BY DEF TypeOK, Moved
  <2>3. call' \in [Deposits -> {"none", "provisioning", "rejected", "accepted"}]
    BY <1>12 DEF Crash, TypeOK
  <2>4. QED
    BY <1>12, <2>1, <2>2, <2>3 DEF Crash, TypeOK, chain, reports
<1>13. CASE UNCHANGED vars
  BY <1>13 DEF vars, watching, chain, reports, bounds, TypeOK
<1>14. QED
  BY <1>1, <1>2, <1>5, <1>6, <1>7, <1>8, <1>9, <1>10, <1>11, <1>12, <1>13 DEF Next, PollStep

(* What a step does to the polls: one starts, one ends, one moves on past its
   mark, or one leaves its balance read with the amount it saw. *)
Starts(p, d) == poll' = [poll EXCEPT ![p] = [pc |-> "balance", dep |-> d, amount |-> 0]]
Ends(p) == poll' = [poll EXCEPT ![p] = Idle]
Continues(p) ==
  /\ Sweeping(poll[p])
  /\ \E pc \in PollStates : poll' = [poll EXCEPT ![p] = [@ EXCEPT !.pc = pc]]
Marks(p) ==
  /\ Enough(poll[p].dep)
  /\ poll' = [poll EXCEPT ![p] = [@ EXCEPT !.pc = "gas", !.amount = balance[poll[p].dep]]]

LEMMA PollMoves ==
  ASSUME Next
  PROVE  \/ poll' = poll
         \/ poll' = [p \in Polls |-> Idle]
         \/ \E p \in Polls, d \in Deposits : Starts(p, d)
         \/ \E p \in Polls : Ends(p) \/ Continues(p) \/ Marks(p)
<1>1. ASSUME NEW d \in Deposits,
             RequestDeposit(d) \/ AddDeposit(d) \/ ProvisionFails(d) \/ Arrive(d)
      PROVE  poll' = poll
  BY <1>1 DEF RequestDeposit, AddDeposit, ProvisionFails, Arrive
<1>2. ASSUME NEW d \in Deposits, Tick(d) PROVE \E p \in Polls : Starts(p, d)
  BY <1>2 DEF Tick, Starts
<1>3. ASSUME NEW p \in Polls, EnsureGas(p) \/ Swept(p) \/ NotifyInboundHook(p) \/ ExportReceipt(p)
      PROVE  Continues(p)
  BY <1>3 DEF EnsureGas, Swept, NotifyInboundHook, ExportReceipt, Sweeping, PollStates, Continues
<1>4. ASSUME NEW p \in Polls, Transfer(p) PROVE Ends(p) \/ Continues(p)
  BY <1>4 DEF Transfer, Finish, Sweeping, PollStates, Continues, Ends
<1>5. ASSUME NEW p \in Polls, SweepFails(p) \/ ArchiveIfSwept(p) \/ BalanceFails(p) PROVE Ends(p)
  BY <1>5 DEF SweepFails, ArchiveIfSwept, BalanceFails, Finish, Ends
<1>6. ASSUME NEW p \in Polls, ReadBalance(p) PROVE Ends(p) \/ Marks(p)
  BY <1>6 DEF ReadBalance, Finish, Ends, Marks
<1>7. CASE Crash
  BY <1>7 DEF Crash
<1>8. QED
  BY <1>1, <1>2, <1>3, <1>4, <1>5, <1>6, <1>7 DEF Next, PollStep

(* A poll that sweeps has seen enough. *)
LEMMA AmountStep == ASSUME TypeOK, AmountInv, [Next]_vars PROVE AmountInv'
<1>0. poll \in [Polls -> PollRecords]
  BY DEF TypeOK
<1>1. CASE poll' = poll
  BY <1>1 DEF AmountInv, Sweeping
<1>2. CASE poll' = [p \in Polls |-> Idle]
  BY <1>2 DEF Idle, AmountInv, Sweeping
<1>3. ASSUME NEW p \in Polls, NEW d \in Deposits, Starts(p, d) PROVE AmountInv'
  BY <1>0, <1>3 DEF Starts, AmountInv, Sweeping
<1>4. ASSUME NEW p \in Polls, Ends(p) PROVE AmountInv'
  BY <1>0, <1>4 DEF Idle, Ends, AmountInv, Sweeping
<1>5. ASSUME NEW p \in Polls, Continues(p) PROVE AmountInv'
  BY <1>0, <1>5 DEF PollRecords, Continues, AmountInv, Sweeping
<1>6. ASSUME NEW p \in Polls, Marks(p) PROVE AmountInv'
  BY <1>0, <1>6 DEF PollRecords, Enough, Marks, AmountInv, Sweeping
<1>7. CASE Next
  BY <1>1, <1>2, <1>3, <1>4, <1>5, <1>6, <1>7, PollMoves
<1>8. QED
  BY <1>1, <1>7 DEF vars

(* Sweeps are never forgotten by the chain. *)
LEMMA SweepsGrow == ASSUME Next PROVE swept \subseteq swept'
  BY DEF Next, PollStep, RequestDeposit, AddDeposit, ProvisionFails, Tick, Arrive, ReadBalance, EnsureGas,
         Transfer, Swept, NotifyInboundHook, ExportReceipt, ArchiveIfSwept, BalanceFails, SweepFails,
         Crash, chain

(* A poll past its transfer has a mined sweep behind it. *)
LEMMA SweptStep == ASSUME TypeOK, SweptInv, [Next]_vars PROVE SweptInv'
<1>0. poll \in [Polls -> PollRecords]
  BY DEF TypeOK
<1>1. CASE UNCHANGED vars
  BY <1>1 DEF SweptInv, vars, chain, Moved
<1>2. CASE Next
  <2> SUFFICES ASSUME NEW r \in Polls, Moved(poll'[r]) PROVE poll'[r].dep \in swept'
    BY DEF SweptInv, Moved
  <2>0. swept \subseteq swept'
    BY <1>2, SweepsGrow
  <2>1. ASSUME Moved(poll[r]), poll'[r].dep = poll[r].dep PROVE poll'[r].dep \in swept'
    BY <2>0, <2>1 DEF SweptInv
  <2>2. ASSUME NEW p \in Polls, Transfer(p) PROVE poll'[r].dep \in swept'
    <3>1. CASE r = p
      <4>1. /\ poll' = [poll EXCEPT ![p] = [@ EXCEPT !.pc = "wait"]]
            /\ poll[p].dep \in swept'
        BY <1>0, <2>2, <3>1 DEF Transfer, Finish, Moved, Idle
      <4>2. poll'[p].dep = poll[p].dep
        BY <1>0, <4>1 DEF PollRecords
      <4>3. QED
        BY <3>1, <4>1, <4>2
    <3>2. CASE r # p
      BY <1>0, <2>1, <2>2, <3>2 DEF Transfer, Finish
    <3>3. QED
      BY <3>1, <3>2
  <2>3. ASSUME NEW p \in Polls, Swept(p) \/ NotifyInboundHook(p) \/ ExportReceipt(p)
        PROVE  poll'[r].dep \in swept'
    <3>1. /\ Moved(poll[p])
          /\ \E pc \in PollStates : poll' = [poll EXCEPT ![p] = [@ EXCEPT !.pc = pc]]
      BY <2>3 DEF Swept, NotifyInboundHook, ExportReceipt, Moved, PollStates
    <3>2. Moved(poll[r]) /\ poll'[r].dep = poll[r].dep
      BY <1>0, <3>1 DEF PollRecords
    <3>3. QED
      BY <2>1, <3>2
  <2>4. ASSUME NEW p \in Polls,
               EnsureGas(p) \/ ReadBalance(p) \/ BalanceFails(p) \/ SweepFails(p) \/ ArchiveIfSwept(p)
        PROVE  poll'[r].dep \in swept'
    <3>1. /\ \A q \in Polls : q # p => poll'[q] = poll[q]
          /\ poll'[p].pc \in {"idle", "gas", "transfer"}
      <4>1. CASE EnsureGas(p)
        BY <1>0, <4>1 DEF EnsureGas, PollRecords
      <4>2. CASE ReadBalance(p)
        <5>1. Ends(p) \/ Marks(p)
          BY <4>2 DEF ReadBalance, Finish, Ends, Marks
        <5>2. CASE Ends(p)
          BY <1>0, <5>2 DEF Ends, Idle
        <5>3. CASE Marks(p)
          BY <1>0, <5>3 DEF Marks, PollRecords
        <5>4. QED
          BY <5>1, <5>2, <5>3
      <4>3. CASE BalanceFails(p) \/ SweepFails(p) \/ ArchiveIfSwept(p)
        BY <1>0, <4>3 DEF BalanceFails, SweepFails, ArchiveIfSwept, Finish, Idle
      <4>4. QED
        BY <2>4, <4>1, <4>2, <4>3
    <3>2. QED
      BY <2>1, <3>1 DEF Moved
  <2>5. ASSUME NEW d \in Deposits, Tick(d) PROVE poll'[r].dep \in swept'
    <3>1. PICK p \in Polls : poll' = [poll EXCEPT ![p] = [pc |-> "balance", dep |-> d, amount |-> 0]]
      BY <2>5 DEF Tick
    <3>2. QED
      BY <1>0, <2>1, <3>1 DEF Moved
  <2>6. CASE Crash
    BY <2>6 DEF Crash, Moved, Idle
  <2>7. ASSUME poll' = poll PROVE poll'[r].dep \in swept'
    BY <2>1, <2>7
  <2>8. ASSUME NEW d \in Deposits,
               RequestDeposit(d) \/ AddDeposit(d) \/ ProvisionFails(d) \/ Arrive(d)
        PROVE  poll' = poll
    BY <2>8 DEF RequestDeposit, AddDeposit, ProvisionFails, Arrive
  <2>9. QED
    BY <1>2, <2>2, <2>3, <2>4, <2>5, <2>6, <2>7, <2>8 DEF Next, PollStep
<1>3. QED
  BY <1>1, <1>2

(* The in-flight mark never outlives the polls that sweep. *)
LEMMA InFlightStep == ASSUME TypeOK, NoStuckInFlight, [Next]_vars PROVE NoStuckInFlight'
<1>0. poll \in [Polls -> PollRecords] /\ inFlight \subseteq Deposits
  BY DEF TypeOK
<1>1. CASE UNCHANGED vars
  BY <1>1 DEF vars, watching, NoStuckInFlight
<1>2. ASSUME NEW p \in Polls,
             inFlight' \subseteq inFlight \ {poll[p].dep},
             \A q \in Polls : q # p => poll'[q] = poll[q]
      PROVE  NoStuckInFlight'
  BY <1>2 DEF NoStuckInFlight
<1>3. ASSUME NEW p \in Polls, inFlight' \subseteq inFlight \cup {poll[p].dep},
             \A q \in Polls : q # p => poll'[q] = poll[q],
             poll'[p].dep = poll[p].dep, Sweeping(poll'[p])
      PROVE  NoStuckInFlight'
  BY <1>3 DEF NoStuckInFlight, Sweeping
<1>4. ASSUME NEW p \in Polls, inFlight' \subseteq inFlight, ~ Sweeping(poll[p]),
             \A q \in Polls : q # p => poll'[q] = poll[q]
      PROVE  NoStuckInFlight'
  BY <1>4 DEF NoStuckInFlight, Sweeping
<1>5. ASSUME NEW p \in Polls, Finish(p) PROVE NoStuckInFlight'
  BY <1>0, <1>2, <1>5 DEF Finish
<1>6. ASSUME NEW p \in Polls, ReadBalance(p) \/ BalanceFails(p) PROVE NoStuckInFlight'
  <2>1. ~ Sweeping(poll[p]) /\ \A q \in Polls : q # p => poll'[q] = poll[q]
    BY <1>0, <1>6 DEF ReadBalance, BalanceFails, Finish, Sweeping
  <2>2. CASE inFlight' \subseteq inFlight
    BY <1>4, <2>1, <2>2
  <2>3. CASE ~ (inFlight' \subseteq inFlight)
    <3>1. /\ inFlight' = inFlight \cup {poll[p].dep}
          /\ poll' = [poll EXCEPT ![p] = [@ EXCEPT !.pc = "gas", !.amount = balance[poll[p].dep]]]
      BY <1>6, <2>3 DEF ReadBalance, BalanceFails, Finish, watching
    <3>2. poll'[p].dep = poll[p].dep /\ poll'[p].pc = "gas"
      BY <1>0, <3>1 DEF PollRecords
    <3>3. QED
      BY <1>3, <2>1, <3>1, <3>2 DEF Sweeping
  <2>4. QED
    BY <2>2, <2>3
<1>7. ASSUME NEW p \in Polls,
             NEW pc \in PollStates \ {"idle", "balance"},
             inFlight' \subseteq inFlight,
             poll' = [poll EXCEPT ![p] = [@ EXCEPT !.pc = pc]]
      PROVE  NoStuckInFlight'
  <2>1. poll'[p].dep = poll[p].dep /\ poll'[p].pc = pc /\ \A q \in Polls : q # p => poll'[q] = poll[q]
    BY <1>0, <1>7 DEF PollRecords
  <2>2. QED
    BY <1>3, <1>7, <2>1 DEF Sweeping
<1>8. ASSUME NEW p \in Polls, EnsureGas(p) \/ Swept(p) \/ NotifyInboundHook(p) \/ ExportReceipt(p)
      PROVE  NoStuckInFlight'
  BY <1>7, <1>8 DEF EnsureGas, Swept, Stop, NotifyInboundHook, ExportReceipt, watching, PollStates
<1>9. ASSUME NEW p \in Polls, Transfer(p) PROVE NoStuckInFlight'
  BY <1>5, <1>7, <1>9 DEF Transfer, PollStates
<1>10. ASSUME NEW p \in Polls, SweepFails(p) \/ ArchiveIfSwept(p) PROVE NoStuckInFlight'
  BY <1>5, <1>10 DEF SweepFails, ArchiveIfSwept
<1>11. ASSUME NEW d \in Deposits, Tick(d) PROVE NoStuckInFlight'
  <2>1. PICK p \in Polls :
          /\ poll[p].pc = "idle"
          /\ poll' = [poll EXCEPT ![p] = [pc |-> "balance", dep |-> d, amount |-> 0]]
    BY <1>11 DEF Tick
  <2>2. inFlight' = inFlight
    BY <1>11 DEF Tick, watching
  <2>3. QED
    BY <1>0, <1>4, <2>1, <2>2 DEF Sweeping
<1>12. ASSUME NEW d \in Deposits, RequestDeposit(d) \/ AddDeposit(d) \/ ProvisionFails(d) \/ Arrive(d)
       PROVE  NoStuckInFlight'
  BY <1>12 DEF RequestDeposit, AddDeposit, ProvisionFails, Arrive, watching, NoStuckInFlight
<1>13. CASE Crash
  BY <1>13 DEF Crash, NoStuckInFlight
<1>14. QED
  BY <1>1, <1>6, <1>8, <1>9, <1>10, <1>11, <1>12, <1>13 DEF Next, PollStep

(* The chain never holds more at an address than arrived there. *)
LEMMA ArrivedStep == ASSUME TypeOK, ArrivedInv, [Next]_vars PROVE ArrivedInv'
<1>0. balance \in [Deposits -> Nat] /\ arrived \in [Deposits -> Nat] /\ poll \in [Polls -> PollRecords]
  BY DEF TypeOK
<1>1. ASSUME NEW d \in Deposits, Arrive(d) PROVE ArrivedInv'
  BY <1>0, <1>1, DataAssumption DEF Arrive, ArrivedInv
<1>2. ASSUME NEW p \in Polls, Transfer(p) PROVE ArrivedInv'
  BY <1>0, <1>2 DEF Transfer, ArrivedInv, PollRecords
<1>3. CASE UNCHANGED <<balance, arrived>>
  BY <1>3 DEF ArrivedInv
<1>4. QED
  BY <1>1, <1>2, <1>3
  DEF Next, PollStep, RequestDeposit, AddDeposit, ProvisionFails, Tick, ReadBalance, EnsureGas, Swept,
      NotifyInboundHook, ExportReceipt, ArchiveIfSwept, BalanceFails, SweepFails, Crash, chain, vars

(* Nothing smaller than the expected amount is swept or credited. *)
LEMMA ShortStep == ASSUME TypeOK, AmountInv, ArrivedInv, NoShortCredit, [Next]_vars PROVE NoShortCredit'
<1>0. /\ balance \in [Deposits -> Nat] /\ arrived \in [Deposits -> Nat] /\ credited \in [Deposits -> Nat]
      /\ poll \in [Polls -> PollRecords] /\ Expected \in [Deposits -> Nat]
  BY DataAssumption DEF TypeOK
<1>1. ASSUME NEW d \in Deposits, Arrive(d) PROVE NoShortCredit'
  <2>1. credited' = credited /\ \A e \in Deposits : arrived'[e] - balance'[e] = arrived[e] - balance[e]
    BY <1>0, <1>1, DataAssumption DEF Arrive, reports
  <2>2. \A e \in Deposits : arrived'[e] \in Nat /\ balance'[e] \in Nat
    BY <1>0, <1>1, DataAssumption DEF Arrive
  <2>3. QED
    BY <1>0, <2>1, <2>2 DEF NoShortCredit
<1>2. ASSUME NEW p \in Polls, Transfer(p) PROVE NoShortCredit'
  <2>1. /\ poll[p].dep \in Deposits /\ poll[p].amount \in Nat /\ poll[p].amount >= Expected[poll[p].dep]
        /\ credited' = credited /\ arrived' = arrived
    BY <1>0, <1>2 DEF Transfer, TypeOK, AmountInv, Sweeping, PollRecords, reports
  <2>2. CASE balance' = balance
    BY <2>1, <2>2 DEF NoShortCredit
  <2>3. CASE balance' = [balance EXCEPT ![poll[p].dep] = @ - poll[p].amount]
    BY <1>0, <2>1, <2>3 DEF NoShortCredit, ArrivedInv
  <2>4. QED
    BY <1>2, <2>2, <2>3 DEF Transfer
<1>3. ASSUME NEW p \in Polls, NotifyInboundHook(p) PROVE NoShortCredit'
  <2>1. /\ poll[p].dep \in Deposits /\ poll[p].amount \in Nat /\ poll[p].amount >= Expected[poll[p].dep]
        /\ balance' = balance /\ arrived' = arrived
    BY <1>0, <1>3 DEF NotifyInboundHook, TypeOK, AmountInv, Sweeping, PollRecords, chain
  <2>2. credited' = credited \/ credited' = [credited EXCEPT ![poll[p].dep] = @ + poll[p].amount]
    BY <1>3 DEF NotifyInboundHook, Received
  <2>3. QED
    BY <1>0, <2>1, <2>2 DEF NoShortCredit
<1>4. CASE UNCHANGED <<balance, arrived, credited>>
  BY <1>4 DEF NoShortCredit
<1>5. QED
  BY <1>1, <1>2, <1>3, <1>4
  DEF Next, PollStep, RequestDeposit, AddDeposit, ProvisionFails, Tick, ReadBalance, EnsureGas, Swept,
      ExportReceipt, ArchiveIfSwept, BalanceFails, SweepFails, Crash, chain, reports, vars

(* An accepted deposit leaves the map by a sweep or a restart. *)
LEMMA KeptStep == ASSUME TypeOK, SweptInv, AcceptedIsKept, [Next]_vars PROVE AcceptedIsKept'
<1>1. CASE UNCHANGED vars
  BY <1>1 DEF vars, watching, chain, AcceptedIsKept
<1>2. CASE Next
  <2>0. swept \subseteq swept' /\ call \in [Deposits -> {"none", "provisioning", "rejected", "accepted"}]
    BY <1>2, SweepsGrow DEF TypeOK
  <2>1. ASSUME NEW d \in Deposits, AddDeposit(d) PROVE AcceptedIsKept'
    BY <2>0, <2>1 DEF AddDeposit, AcceptedIsKept
  <2>2. ASSUME NEW d \in Deposits, RequestDeposit(d) \/ ProvisionFails(d) PROVE AcceptedIsKept'
    BY <2>0, <2>2 DEF RequestDeposit, ProvisionFails, watching, AcceptedIsKept
  <2>3. ASSUME NEW p \in Polls, Swept(p) PROVE AcceptedIsKept'
    <3>1. poll[p].dep \in swept
      BY <2>3 DEF Swept, SweptInv, Moved
    <3>2. QED
      BY <2>0, <2>3, <3>1 DEF Swept, Stop, AcceptedIsKept
  <2>4. CASE Crash
    BY <2>0, <2>4 DEF Crash, AcceptedIsKept
  <2>5. CASE UNCHANGED <<call, deposits, lost>>
    BY <2>0, <2>5 DEF AcceptedIsKept
  <2>6. QED
    BY <1>2, <2>1, <2>2, <2>3, <2>4, <2>5
    DEF Next, PollStep, Tick, Arrive, ReadBalance, EnsureGas, Transfer, NotifyInboundHook, ExportReceipt,
        ArchiveIfSwept, BalanceFails, SweepFails, watching
<1>3. QED
  BY <1>1, <1>2

(* The invariant is inductive. *)
LEMMA Invariance == Spec => []Inv
<1>1. Init => Inv
  BY InitInv
<1>2. Inv /\ [Next]_vars => Inv'
  BY TypeStep, AmountStep, SweptStep, ArrivedStep, InFlightStep, KeptStep, ShortStep DEF Inv
<1>3. QED
  BY <1>1, <1>2, PTL DEF Spec

(* The types of OtaDeposit hold in every reachable state. *)
THEOREM TypeCorrect == Spec => []TypeOK
<1>1. Inv => TypeOK
  BY DEF Inv
<1>2. QED
  BY <1>1, Invariance, PTL

(* However polls overlap and fail, a deposit marked in flight has a poll that
   will unmark it. *)
THEOREM NeverStuck == Spec => []NoStuckInFlight
<1>1. Inv => NoStuckInFlight
  BY DEF Inv
<1>2. QED
  BY <1>1, Invariance, PTL

(* An accepted deposit is forgotten only after a mined sweep or a restart. *)
THEOREM AcceptedKept == Spec => []AcceptedIsKept
<1>1. Inv => AcceptedIsKept
  BY DEF Inv
<1>2. QED
  BY <1>1, Invariance, PTL

(* No deposit is swept or credited below its expected amount. *)
THEOREM NeverShort == Spec => []NoShortCredit
<1>1. Inv => NoShortCredit
  BY DEF Inv
<1>2. QED
  BY <1>1, Invariance, PTL

-----------------------------------------------------------------------------
(***************************************************************************)
(* The ledgers against the chain                                           *)
(***************************************************************************)
(* The tokens of a deposit that polls in the states S have moved and still have
   to tell one of the ledgers of, each with the poll that moved it. *)
Owed(S, d) ==
  {t \in Polls \X Nat : /\ poll[t[1]].dep = d /\ poll[t[1]].pc \in S
                        /\ t[2] \in 1..poll[t[1]].amount}
Tokens(p) == {p} \X (1..poll[p].amount)

ToCredit == {"wait", "hook"}
ToExport == {"wait", "hook", "import"}

(* What a ledger was told and what it is owed is what was moved, or less once a
   call has failed or the process was gone. *)
BookInv(S, book) ==
  \A d \in Deposits :
    /\ IsFiniteSet(Owed(S, d))
    /\ book[d] + Cardinality(Owed(S, d)) <= arrived[d] - balance[d]
    /\ faults = 0 /\ crashes = 0 => book[d] + Cardinality(Owed(S, d)) = arrived[d] - balance[d]

LEMMA TokensSize ==
  ASSUME TypeOK, NEW p \in Polls
  PROVE  IsFiniteSet(Tokens(p)) /\ Cardinality(Tokens(p)) = poll[p].amount /\ poll[p].amount \in Nat
<1>1. poll[p].amount \in Nat
  BY DEF TypeOK, PollRecords
<1>2. \A n \in Nat : IsFiniteSet(1..n) /\ Cardinality(1..n) = n
  <2> TAKE n \in Nat
  <2>1. IsFiniteSet(1..n) /\ Cardinality(1..n) = IF 1 > n THEN 0 ELSE n - 1 + 1
    BY FS_Interval
  <2> QED BY <2>1
<1>3. IsFiniteSet({p}) /\ Cardinality({p}) = 1
  BY FS_Singleton
<1>4. PICK S, T : S = {p} /\ T = 1..poll[p].amount
  OBVIOUS
<1>5. /\ IsFiniteSet(S) /\ Cardinality(S) = 1
      /\ IsFiniteSet(T) /\ Cardinality(T) = poll[p].amount
      /\ Tokens(p) = S \X T
  BY <1>1, <1>2, <1>3, <1>4 DEF Tokens
<1>6. IsFiniteSet(S \X T) /\ Cardinality(S \X T) = 1 * poll[p].amount
  BY <1>5, FS_Product
<1> QED BY <1>1, <1>5, <1>6

(* A poll that moves neither in nor out of S. *)
LEMMA OwedStays ==
  ASSUME NEW S, \A q \in Polls : /\ poll'[q].pc \in S <=> poll[q].pc \in S
                                 /\ poll[q].pc \in S => /\ poll'[q].dep = poll[q].dep
                                                        /\ poll'[q].amount = poll[q].amount
  PROVE  \A d : Owed(S, d)' = Owed(S, d)
BY DEF Owed

(* A poll that moves into S, and one that moves out of it. *)
LEMMA OwedMore ==
  ASSUME TypeOK, NEW S, NEW p \in Polls, \A q \in Polls : q # p => poll'[q] = poll[q],
         poll[p].pc \notin S, poll'[p].pc \in S,
         poll'[p].dep = poll[p].dep, poll'[p].amount = poll[p].amount
  PROVE  /\ \A d : d # poll[p].dep => Owed(S, d)' = Owed(S, d)
         /\ Owed(S, poll[p].dep) \cap Tokens(p) = {}
         /\ \A d : d = poll[p].dep => Owed(S, d)' = Owed(S, d) \cup Tokens(p)
<1>1. Owed(S, poll[p].dep) \cap Tokens(p) = {}
  BY DEF Owed, Tokens
<1>2. Tokens(p) \subseteq Polls \X Nat
  BY DEF Tokens, TypeOK, PollRecords
<1>3. ASSUME NEW d PROVE Owed(S, d)' = IF d = poll[p].dep THEN Owed(S, d) \cup Tokens(p) ELSE Owed(S, d)
  <2>1. ASSUME NEW q \in Polls, NEW n \in Nat
        PROVE  <<q, n>> \in Owed(S, d)'
                 <=> <<q, n>> \in IF d = poll[p].dep THEN Owed(S, d) \cup Tokens(p) ELSE Owed(S, d)
    BY DEF Owed, Tokens
  <2>2. Owed(S, d)' \subseteq Polls \X Nat /\ Owed(S, d) \subseteq Polls \X Nat
    BY DEF Owed
  <2>3. \A t \in Polls \X Nat : t = <<t[1], t[2]>> /\ t[1] \in Polls /\ t[2] \in Nat
    OBVIOUS
  <2>4. CASE d = poll[p].dep
    BY <1>2, <2>1, <2>2, <2>3, <2>4
  <2>5. CASE d # poll[p].dep
    BY <2>1, <2>2, <2>3, <2>5
  <2> QED BY <2>4, <2>5
<1> QED BY <1>1, <1>3

LEMMA OwedLess ==
  ASSUME TypeOK, NEW S, NEW p \in Polls, \A q \in Polls : q # p => poll'[q] = poll[q],
         poll[p].pc \in S, poll'[p].pc \notin S
  PROVE  /\ \A d : d # poll[p].dep => Owed(S, d)' = Owed(S, d)
         /\ Tokens(p) \subseteq Owed(S, poll[p].dep)
         /\ \A d : d = poll[p].dep => Owed(S, d)' = Owed(S, d) \ Tokens(p)
<1>1. Tokens(p) \subseteq Polls \X Nat
  BY DEF Tokens, TypeOK, PollRecords
<1>2. Tokens(p) \subseteq Owed(S, poll[p].dep)
  BY <1>1 DEF Owed, Tokens
<1>3. ASSUME NEW d PROVE Owed(S, d)' = IF d = poll[p].dep THEN Owed(S, d) \ Tokens(p) ELSE Owed(S, d)
  <2>1. ASSUME NEW q \in Polls, NEW n \in Nat
        PROVE  <<q, n>> \in Owed(S, d)'
                 <=> <<q, n>> \in IF d = poll[p].dep THEN Owed(S, d) \ Tokens(p) ELSE Owed(S, d)
    BY DEF Owed, Tokens
  <2>2. Owed(S, d)' \subseteq Polls \X Nat /\ Owed(S, d) \subseteq Polls \X Nat
    BY DEF Owed
  <2>3. \A t \in Polls \X Nat : t = <<t[1], t[2]>> /\ t[1] \in Polls /\ t[2] \in Nat
    OBVIOUS
  <2>4. CASE d = poll[p].dep
    BY <2>1, <2>2, <2>3, <2>4
  <2>5. CASE d # poll[p].dep
    BY <2>1, <2>2, <2>3, <2>5
  <2> QED BY <2>4, <2>5
<1> QED BY <1>2, <1>3

(* The same for the sizes. *)
LEMMA OwedSizes ==
  ASSUME TypeOK, NEW S, NEW p \in Polls, \A q \in Polls : q # p => poll'[q] = poll[q],
         NEW d, IsFiniteSet(Owed(S, d))
  PROVE  /\ Cardinality(Owed(S, d)) \in Nat
         /\ /\ poll[p].pc \notin S /\ poll'[p].pc \in S
            /\ poll'[p].dep = poll[p].dep /\ poll'[p].amount = poll[p].amount
            => /\ IsFiniteSet(Owed(S, d)')
               /\ Cardinality(Owed(S, d)') =
                    Cardinality(Owed(S, d)) + (IF d = poll[p].dep THEN poll[p].amount ELSE 0)
         /\ poll[p].pc \in S /\ poll'[p].pc \notin S
            => /\ IsFiniteSet(Owed(S, d)')
               /\ Cardinality(Owed(S, d)') =
                    Cardinality(Owed(S, d)) - (IF d = poll[p].dep THEN poll[p].amount ELSE 0)
<1>0. /\ IsFiniteSet(Tokens(p)) /\ Cardinality(Tokens(p)) = poll[p].amount /\ poll[p].amount \in Nat
      /\ Cardinality(Owed(S, d)) \in Nat
  BY TokensSize, FS_CardinalityType
<1>1. ASSUME poll[p].pc \notin S, poll'[p].pc \in S,
             poll'[p].dep = poll[p].dep, poll'[p].amount = poll[p].amount
      PROVE  /\ IsFiniteSet(Owed(S, d)')
             /\ Cardinality(Owed(S, d)') =
                  Cardinality(Owed(S, d)) + (IF d = poll[p].dep THEN poll[p].amount ELSE 0)
  <2>1. CASE d # poll[p].dep
    BY <1>0, <1>1, <2>1, OwedMore
  <2>2. CASE d = poll[p].dep
    <3>1. Owed(S, d)' = Owed(S, d) \cup Tokens(p) /\ Owed(S, d) \cap Tokens(p) = {}
      BY <1>1, <2>2, OwedMore
    <3>2. /\ IsFiniteSet(Owed(S, d) \cup Tokens(p))
          /\ Cardinality(Owed(S, d) \cup Tokens(p))
               = Cardinality(Owed(S, d)) + Cardinality(Tokens(p)) - Cardinality(Owed(S, d) \cap Tokens(p))
      BY <1>0, FS_Union
    <3>3. Cardinality(Owed(S, d) \cap Tokens(p)) = 0
      BY <3>1, FS_EmptySet
    <3> QED BY <1>0, <2>2, <3>1, <3>2, <3>3
  <2> QED BY <2>1, <2>2
<1>2. ASSUME poll[p].pc \in S, poll'[p].pc \notin S
      PROVE  /\ IsFiniteSet(Owed(S, d)')
             /\ Cardinality(Owed(S, d)') =
                  Cardinality(Owed(S, d)) - (IF d = poll[p].dep THEN poll[p].amount ELSE 0)
  <2>1. CASE d # poll[p].dep
    BY <1>0, <1>2, <2>1, OwedLess
  <2>2. CASE d = poll[p].dep
    <3>1. Owed(S, d)' = Owed(S, d) \ Tokens(p) /\ Owed(S, d) \cap Tokens(p) = Tokens(p)
      BY <1>2, <2>2, OwedLess
    <3>2. /\ IsFiniteSet(Owed(S, d) \ Tokens(p))
          /\ Cardinality(Owed(S, d) \ Tokens(p))
               = Cardinality(Owed(S, d)) - Cardinality(Owed(S, d) \cap Tokens(p))
      BY FS_Difference
    <3> QED BY <1>0, <2>2, <3>1, <3>2
  <2> QED BY <2>1, <2>2
<1> QED BY <1>0, <1>1, <1>2

(* BookInv after the step, of a book new.  It stays in balance when nothing it depends on changes; when tokens move
   off the chain and become owed; when what a poll owes is booked; and when a
   call fails with what a poll owes, or not. *)
NoFailure == faults = 0 /\ crashes = 0

BookAfter(S, new) ==
  \A d \in Deposits :
    /\ IsFiniteSet(Owed(S, d)')
    /\ new[d] + Cardinality(Owed(S, d)') <= arrived'[d] - balance'[d]
    /\ faults' = 0 /\ crashes' = 0
         => new[d] + Cardinality(Owed(S, d)') = arrived'[d] - balance'[d]

LEMMA BookStays ==
  ASSUME TypeOK, NEW S, NEW old, NEW new, BookInv(S, old), old \in [Deposits -> Nat],
         \A d \in Deposits : new[d] = old[d],
         \A d : Owed(S, d)' = Owed(S, d),
         \A d \in Deposits : arrived'[d] - balance'[d] = arrived[d] - balance[d],
         NoFailure' => NoFailure
  PROVE  BookAfter(S, new)
<1> SUFFICES ASSUME NEW d \in Deposits
             PROVE  /\ IsFiniteSet(Owed(S, d)')
                    /\ new[d] + Cardinality(Owed(S, d)') <= arrived'[d] - balance'[d]
                    /\ faults' = 0 /\ crashes' = 0
                         => new[d] + Cardinality(Owed(S, d)') = arrived'[d] - balance'[d]
  BY DEF BookAfter
<1>1. /\ IsFiniteSet(Owed(S, d))
      /\ old[d] + Cardinality(Owed(S, d)) <= arrived[d] - balance[d]
      /\ faults = 0 /\ crashes = 0 => old[d] + Cardinality(Owed(S, d)) = arrived[d] - balance[d]
  BY DEF BookInv
<1> QED
  BY <1>1 DEF NoFailure

LEMMA BookOwes ==
  ASSUME TypeOK, NEW S, NEW old, BookInv(S, old), old \in [Deposits -> Nat],
         NEW p \in Polls, \A q \in Polls : q # p => poll'[q] = poll[q],
         poll[p].pc \notin S, poll'[p].pc \in S,
         poll'[p].dep = poll[p].dep, poll'[p].amount = poll[p].amount,
         \A d \in Deposits : arrived'[d] - balance'[d] =
           arrived[d] - balance[d] + (IF d = poll[p].dep THEN poll[p].amount ELSE 0),
         NoFailure' => NoFailure
  PROVE  BookAfter(S, old)
<1> SUFFICES ASSUME NEW d \in Deposits
             PROVE  /\ IsFiniteSet(Owed(S, d)')
                    /\ old[d] + Cardinality(Owed(S, d)') <= arrived'[d] - balance'[d]
                    /\ faults' = 0 /\ crashes' = 0
                         => old[d] + Cardinality(Owed(S, d)') = arrived'[d] - balance'[d]
  BY DEF BookAfter
<1>1. /\ IsFiniteSet(Owed(S, d))
      /\ old[d] + Cardinality(Owed(S, d)) <= arrived[d] - balance[d]
      /\ faults = 0 /\ crashes = 0 => old[d] + Cardinality(Owed(S, d)) = arrived[d] - balance[d]
  BY DEF BookInv
<1>2. /\ old[d] \in Nat /\ arrived[d] \in Nat /\ balance[d] \in Nat /\ poll[p].amount \in Nat
      /\ Cardinality(Owed(S, d)) \in Nat
  BY <1>1, FS_CardinalityType DEF TypeOK, PollRecords
<1> DEFINE n == IF d = poll[p].dep THEN poll[p].amount ELSE 0
<1>3. n \in Nat /\ arrived'[d] - balance'[d] = arrived[d] - balance[d] + n
  BY <1>2
<1>4. IsFiniteSet(Owed(S, d)') /\ Cardinality(Owed(S, d)') = Cardinality(Owed(S, d)) + n
  BY <1>1, OwedSizes
<1> HIDE DEF n
<1> QED BY <1>1, <1>2, <1>3, <1>4 DEF NoFailure

LEMMA BookTells ==
  ASSUME TypeOK, NEW S, NEW old, NEW new, BookInv(S, old), old \in [Deposits -> Nat],
         NEW p \in Polls, \A q \in Polls : q # p => poll'[q] = poll[q],
         poll[p].pc \in S, poll'[p].pc \notin S, arrived' = arrived, balance' = balance,
         \/ /\ \A d \in Deposits : new[d] = old[d] + (IF d = poll[p].dep THEN poll[p].amount ELSE 0)
            /\ NoFailure' => NoFailure
         \/ new = old /\ ~ NoFailure'
  PROVE  BookAfter(S, new)
<1> SUFFICES ASSUME NEW d \in Deposits
             PROVE  /\ IsFiniteSet(Owed(S, d)')
                    /\ new[d] + Cardinality(Owed(S, d)') <= arrived'[d] - balance'[d]
                    /\ faults' = 0 /\ crashes' = 0
                         => new[d] + Cardinality(Owed(S, d)') = arrived'[d] - balance'[d]
  BY DEF BookAfter
<1>1. /\ IsFiniteSet(Owed(S, d))
      /\ old[d] + Cardinality(Owed(S, d)) <= arrived[d] - balance[d]
      /\ faults = 0 /\ crashes = 0 => old[d] + Cardinality(Owed(S, d)) = arrived[d] - balance[d]
  BY DEF BookInv
<1>2. /\ old[d] \in Nat /\ arrived[d] \in Nat /\ balance[d] \in Nat /\ poll[p].amount \in Nat
      /\ Cardinality(Owed(S, d)) \in Nat
  BY <1>1, FS_CardinalityType DEF TypeOK, PollRecords
<1> DEFINE n == IF d = poll[p].dep THEN poll[p].amount ELSE 0
<1>3. /\ n \in Nat
      /\ \/ new[d] = old[d] + n /\ (NoFailure' => NoFailure)
         \/ new[d] = old[d] /\ ~ NoFailure'
  BY <1>2
<1>4. IsFiniteSet(Owed(S, d)') /\ Cardinality(Owed(S, d)') = Cardinality(Owed(S, d)) - n
  BY <1>1, OwedSizes
<1> HIDE DEF n
<1> QED BY <1>1, <1>2, <1>3, <1>4 DEF NoFailure

(* The steps that tell no ledger anything. *)
LEMMA BookOther ==
  ASSUME TypeOK, [Next]_vars, NEW S \in {ToCredit, ToExport},
         \A p \in Polls : ~ NotifyInboundHook(p) /\ ~ ExportReceipt(p),
         NEW old, BookInv(S, old), old \in [Deposits -> Nat]
  PROVE  BookAfter(S, old)
<1> USE DataAssumption, BoundsAssumption DEF vars, chain, bounds
<1>0. /\ poll \in [Polls -> PollRecords] /\ arrived \in [Deposits -> Nat] /\ balance \in [Deposits -> Nat]
      /\ faults \in Nat /\ crashes \in Nat /\ Idle.pc = "idle"
      /\ "wait" \in S /\ "hook" \in S
      /\ "idle" \notin S /\ "balance" \notin S /\ "gas" \notin S /\ "transfer" \notin S /\ "archive" \notin S
  BY DEF TypeOK, Idle, ToCredit, ToExport
<1> DEFINE Others(p) == \A q \in Polls : q # p => poll'[q] = poll[q]
<1>1. ASSUME arrived' = arrived, balance' = balance, NoFailure' => NoFailure, NEW p \in Polls, Others(p),
             \/ poll[p].pc \notin S /\ poll'[p].pc \notin S
             \/ /\ poll[p].pc \in S /\ poll'[p].pc \in S
                /\ poll'[p].dep = poll[p].dep /\ poll'[p].amount = poll[p].amount
      PROVE  BookAfter(S, old)
  <2>1. \A d : Owed(S, d)' = Owed(S, d)
    BY <1>1, OwedStays
  <2> QED BY <1>1, <2>1, BookStays
<1>2. ASSUME poll' = poll, \A d \in Deposits : arrived'[d] - balance'[d] = arrived[d] - balance[d],
             NoFailure' => NoFailure
      PROVE  BookAfter(S, old)
  <2>1. \A d : Owed(S, d)' = Owed(S, d)
    BY <1>2, OwedStays
  <2> QED BY <1>2, <2>1, BookStays
<1>3. ASSUME NEW d \in Deposits, RequestDeposit(d) \/ AddDeposit(d) \/ ProvisionFails(d)
      PROVE  BookAfter(S, old)
  <2>1. poll' = poll /\ arrived' = arrived /\ balance' = balance /\ (NoFailure' => NoFailure)
    BY <1>0, <1>3 DEF RequestDeposit, AddDeposit, ProvisionFails, Fault, NoFailure
  <2> QED BY <1>2, <2>1
<1>4. ASSUME NEW d \in Deposits, Arrive(d) PROVE BookAfter(S, old)
  <2>1. PICK v \in Values : /\ arrived' = [arrived EXCEPT ![d] = @ + v]
                            /\ balance' = [balance EXCEPT ![d] = @ + v]
    BY <1>4 DEF Arrive
  <2>2. \A e \in Deposits : arrived'[e] - balance'[e] = arrived[e] - balance[e]
    BY <1>0, <2>1
  <2> QED BY <1>2, <1>4, <2>2 DEF Arrive, NoFailure
<1>5. ASSUME NEW d \in Deposits, Tick(d) PROVE BookAfter(S, old)
  <2>1. PICK p \in Polls : poll[p].pc = "idle"
                           /\ poll' = [poll EXCEPT ![p] = [pc |-> "balance", dep |-> d, amount |-> 0]]
    BY <1>5 DEF Tick
  <2>2. Others(p) /\ poll'[p].pc = "balance"
    BY <1>0, <2>1
  <2> QED BY <1>0, <1>1, <1>5, <2>1, <2>2 DEF Tick, NoFailure
<1>6. ASSUME NEW p \in Polls, ReadBalance(p) \/ BalanceFails(p) \/ EnsureGas(p) \/ ArchiveIfSwept(p)
      PROVE  BookAfter(S, old)
  <2>1. arrived' = arrived /\ balance' = balance /\ (NoFailure' => NoFailure)
    BY <1>0, <1>6 DEF ReadBalance, BalanceFails, EnsureGas, ArchiveIfSwept, Fault, NoFailure
  <2>2. poll[p].pc \in {"balance", "gas", "archive"}
    BY <1>6 DEF ReadBalance, BalanceFails, EnsureGas, ArchiveIfSwept
  <2>3. Others(p) /\ poll'[p].pc \in {"idle", "gas", "transfer"}
    <3>1. CASE poll' = [poll EXCEPT ![p] = Idle]
      BY <1>0, <3>1
    <3>2. CASE poll' = [poll EXCEPT ![p] = [@ EXCEPT !.pc = "gas", !.amount = balance[poll[p].dep]]]
      BY <1>0, <3>2 DEF PollRecords
    <3>3. CASE poll' = [poll EXCEPT ![p] = [@ EXCEPT !.pc = "transfer"]]
      BY <1>0, <3>3 DEF PollRecords
    <3> QED
      BY <1>6, <3>1, <3>2, <3>3 DEF ReadBalance, BalanceFails, EnsureGas, ArchiveIfSwept, Finish
  <2> QED BY <1>0, <1>1, <2>1, <2>2, <2>3
<1>7. ASSUME NEW p \in Polls, Transfer(p) PROVE BookAfter(S, old)
  <2>0. poll[p].pc = "transfer" /\ poll[p].dep \in Deposits /\ arrived' = arrived
        /\ (NoFailure' => NoFailure)
    BY <1>7 DEF Transfer, TypeOK, NoFailure
  <2>1. CASE poll[p].amount <= balance[poll[p].dep]
    <3>1. /\ balance' = [balance EXCEPT ![poll[p].dep] = @ - poll[p].amount]
          /\ poll' = [poll EXCEPT ![p] = [@ EXCEPT !.pc = "wait"]]
      BY <1>7, <2>1 DEF Transfer
    <3>2. Others(p) /\ poll'[p].pc = "wait" /\ poll'[p].dep = poll[p].dep /\ poll'[p].amount = poll[p].amount
      BY <1>0, <3>1 DEF PollRecords
    <3>3. poll[p].amount \in Nat
      BY <1>0 DEF PollRecords
    <3>4. \A d \in Deposits : arrived'[d] - balance'[d] =
            arrived[d] - balance[d] + (IF d = poll[p].dep THEN poll[p].amount ELSE 0)
      BY <1>0, <2>0, <3>1, <3>3
    <3> QED BY <1>0, <2>0, <3>2, <3>4, BookOwes
  <2>2. CASE ~ (poll[p].amount <= balance[poll[p].dep])
    <3>1. poll' = [poll EXCEPT ![p] = Idle] /\ balance' = balance
      BY <1>7, <2>2 DEF Transfer, Finish
    <3> QED BY <1>0, <1>1, <2>0, <3>1
  <2> QED BY <2>1, <2>2
<1>8. ASSUME NEW p \in Polls, Swept(p) PROVE BookAfter(S, old)
  <2>1. /\ poll[p].pc = "wait" /\ poll' = [poll EXCEPT ![p] = [@ EXCEPT !.pc = "hook"]]
        /\ arrived' = arrived /\ balance' = balance /\ (NoFailure' => NoFailure)
    BY <1>8 DEF Swept, NoFailure
  <2>2. Others(p) /\ poll'[p].pc = "hook" /\ poll'[p].dep = poll[p].dep /\ poll'[p].amount = poll[p].amount
    BY <1>0, <2>1 DEF PollRecords
  <2> QED BY <1>0, <1>1, <2>1, <2>2
<1>9. ASSUME NEW p \in Polls, SweepFails(p) PROVE BookAfter(S, old)
  <2>1. /\ poll' = [poll EXCEPT ![p] = Idle] /\ arrived' = arrived /\ balance' = balance
        /\ ~ NoFailure'
    BY <1>0, <1>9 DEF SweepFails, Finish, Fault, NoFailure
  <2>2. Others(p) /\ poll'[p].pc = "idle"
    BY <1>0, <2>1
  <2>3. CASE poll[p].pc \in S
    BY <1>0, <2>1, <2>2, <2>3, BookTells
  <2>4. CASE poll[p].pc \notin S
    BY <1>0, <1>1, <2>1, <2>2, <2>4
  <2> QED BY <2>3, <2>4
<1>10. CASE Crash
  <2>1. /\ \A q \in Polls : poll'[q].pc = "idle"
        /\ arrived' = arrived /\ balance' = balance /\ ~ NoFailure'
    BY <1>0, <1>10 DEF Crash, NoFailure
  <2>2. \A d : Owed(S, d)' = {}
    BY <1>0, <2>1 DEF Owed
  <2>3. \A d \in Deposits : old[d] <= arrived[d] - balance[d]
    <3> TAKE d \in Deposits
    <3>1. IsFiniteSet(Owed(S, d)) /\ old[d] + Cardinality(Owed(S, d)) <= arrived[d] - balance[d]
      BY DEF BookInv
    <3>2. Cardinality(Owed(S, d)) \in Nat /\ old[d] \in Nat /\ arrived[d] - balance[d] \in Int
      BY <1>0, <3>1, FS_CardinalityType
    <3> QED BY <3>1, <3>2
  <2>4. \A d \in Deposits : old[d] + 0 = old[d]
    OBVIOUS
  <2> QED BY <2>1, <2>2, <2>3, <2>4, FS_EmptySet DEF BookAfter, NoFailure
<1>11. CASE UNCHANGED vars
  BY <1>2, <1>11 DEF NoFailure
<1> QED
  BY <1>3, <1>4, <1>5, <1>6, <1>7, <1>8, <1>9, <1>10, <1>11 DEF Next, PollStep

(* The call that tells a ledger, or fails. *)
LEMMA BookTold ==
  ASSUME TypeOK, NEW p \in Polls, poll[p].pc \in {"hook", "import"},
         NEW S \in {ToCredit, ToExport}, NEW pc \in PollStates, poll[p].pc \in S, pc \notin S,
         NEW old, NEW new, BookInv(S, old), old \in [Deposits -> Nat],
         poll' = [poll EXCEPT ![p] = [@ EXCEPT !.pc = pc]], arrived' = arrived, balance' = balance,
         \/ new = [old EXCEPT ![poll[p].dep] = @ + poll[p].amount] /\ UNCHANGED bounds
         \/ new = old /\ faults' = faults + 1
  PROVE  BookAfter(S, new)
<1>0. poll \in [Polls -> PollRecords] /\ faults \in Nat
  BY DEF TypeOK
<1>1. (\A q \in Polls : q # p => poll'[q] = poll[q]) /\ poll'[p].pc = pc
  BY <1>0 DEF PollRecords
<1>2. CASE new = [old EXCEPT ![poll[p].dep] = @ + poll[p].amount] /\ UNCHANGED bounds
  <2>1. NoFailure' => NoFailure
    BY <1>2 DEF bounds, NoFailure
  <2>2. \A d \in Deposits : new[d] = old[d] + (IF d = poll[p].dep THEN poll[p].amount ELSE 0)
    <3>1. poll[p].amount \in Nat
      BY <1>0 DEF PollRecords
    <3> QED BY <1>2, <3>1
  <2> QED BY <1>1, <2>1, <2>2, BookTells
<1>3. CASE new = old /\ faults' = faults + 1
  <2>1. ~ NoFailure'
    BY <1>0, <1>3 DEF NoFailure
  <2> QED BY <1>1, <1>3, <2>1, BookTells
<1> QED BY <1>2, <1>3

LEMMA BookStep ==
  ASSUME TypeOK, [Next]_vars, BookInv(ToCredit, credited), BookInv(ToExport, exported)
  PROVE  BookInv(ToCredit, credited)' /\ BookInv(ToExport, exported)'
<1> USE DEF chain, reports
<1>0. /\ poll \in [Polls -> PollRecords] /\ faults \in Nat
      /\ credited \in [Deposits -> Nat] /\ exported \in [Deposits -> Nat]
  BY DEF TypeOK
<1>1. SUFFICES BookAfter(ToCredit, credited') /\ BookAfter(ToExport, exported')
  BY DEF BookAfter, BookInv
<1>2. CASE \A p \in Polls : ~ NotifyInboundHook(p) /\ ~ ExportReceipt(p)
  <2>1. credited' = credited /\ exported' = exported
    BY <1>2 DEF Next, PollStep, RequestDeposit, AddDeposit, ProvisionFails, Tick, Arrive, ReadBalance,
                EnsureGas, Transfer, Swept, ArchiveIfSwept, BalanceFails, SweepFails, Crash, vars
  <2>2. BookAfter(ToCredit, credited) /\ BookAfter(ToExport, exported)
    BY <1>0, <1>2, BookOther
  <2> QED BY <2>1, <2>2
<1>3. ASSUME NEW p \in Polls, NotifyInboundHook(p)
      PROVE  BookAfter(ToCredit, credited') /\ BookAfter(ToExport, exported')
  <2>1. /\ poll[p].pc = "hook" /\ poll' = [poll EXCEPT ![p] = [@ EXCEPT !.pc = "import"]]
        /\ arrived' = arrived /\ balance' = balance /\ exported' = exported
        /\ \/ credited' = [credited EXCEPT ![poll[p].dep] = @ + poll[p].amount] /\ UNCHANGED bounds
           \/ credited' = credited /\ faults' = faults + 1
    BY <1>3 DEF NotifyInboundHook, Received, Fault
  <2>2. BookAfter(ToCredit, credited')
    <3>1. PICK new : new = credited'
      OBVIOUS
    <3>2. BookAfter(ToCredit, new)
      BY <1>0, <2>1, <3>1, BookTold DEF ToCredit, ToExport, PollStates
    <3> QED BY <3>1, <3>2
  <2>3. \A d : Owed(ToExport, d)' = Owed(ToExport, d)
    <3>1. (\A q \in Polls : q # p => poll'[q] = poll[q]) /\ poll'[p].pc = "import"
          /\ poll'[p].dep = poll[p].dep /\ poll'[p].amount = poll[p].amount
      BY <1>0, <2>1 DEF PollRecords
    <3>2. poll[p].pc \in ToExport /\ poll'[p].pc \in ToExport
      BY <2>1, <3>1 DEF ToExport
    <3> QED BY <3>1, <3>2, OwedStays
  <2>4. NoFailure' => NoFailure
    BY <1>0, <2>1 DEF bounds, NoFailure
  <2> QED BY <1>0, <2>1, <2>2, <2>3, <2>4, BookStays
<1>4. ASSUME NEW p \in Polls, ExportReceipt(p)
      PROVE  BookAfter(ToCredit, credited') /\ BookAfter(ToExport, exported')
  <2>1. /\ poll[p].pc = "import" /\ poll' = [poll EXCEPT ![p] = [@ EXCEPT !.pc = "archive"]]
        /\ arrived' = arrived /\ balance' = balance /\ credited' = credited
        /\ \/ exported' = [exported EXCEPT ![poll[p].dep] = @ + poll[p].amount] /\ UNCHANGED bounds
           \/ exported' = exported /\ faults' = faults + 1 /\ crashes' = crashes
    BY <1>4 DEF ExportReceipt, Received, Fault
  <2>2. BookAfter(ToExport, exported')
    <3>1. PICK new : new = exported'
      OBVIOUS
    <3>2. BookAfter(ToExport, new)
      BY <1>0, <2>1, <3>1, BookTold DEF ToCredit, ToExport, PollStates
    <3> QED BY <3>1, <3>2
  <2>3. \A d : Owed(ToCredit, d)' = Owed(ToCredit, d)
    <3>1. (\A q \in Polls : q # p => poll'[q] = poll[q]) /\ poll'[p].pc = "archive"
      BY <1>0, <2>1 DEF PollRecords
    <3>2. poll[p].pc \notin ToCredit /\ poll'[p].pc \notin ToCredit
      BY <2>1, <3>1 DEF ToCredit
    <3> QED BY <3>1, <3>2, OwedStays
  <2>4. NoFailure' => NoFailure
    BY <1>0, <2>1 DEF bounds, NoFailure
  <2> QED BY <1>0, <2>1, <2>2, <2>3, <2>4, BookStays
<1> QED BY <1>2, <1>3, <1>4

(* Neither ledger is ever told of more than was swept, and without a failing call
   or a restart both are told of exactly that once the polls of the deposit are
   through, however many polls of it overlap. *)
THEOREM LedgersMatch == Spec => []LedgerMatchesChain
<1>1. Init => BookInv(ToCredit, credited) /\ BookInv(ToExport, exported)
  <2> SUFFICES ASSUME Init PROVE BookInv(ToCredit, credited) /\ BookInv(ToExport, exported)
    OBVIOUS
  <2>1. \A d : Owed(ToCredit, d) = {} /\ Owed(ToExport, d) = {}
    BY DEF Init, Idle, Owed, ToCredit, ToExport
  <2> QED
    BY <2>1, FS_EmptySet DEF Init, BookInv
<1>2. /\ Inv /\ BookInv(ToCredit, credited) /\ BookInv(ToExport, exported) /\ [Next]_vars
      => BookInv(ToCredit, credited)' /\ BookInv(ToExport, exported)'
  BY BookStep DEF Inv
<1>3. Inv /\ BookInv(ToCredit, credited) /\ BookInv(ToExport, exported) => LedgerMatchesChain
  <2> SUFFICES ASSUME TypeOK, BookInv(ToCredit, credited), BookInv(ToExport, exported), NEW d \in Deposits
               PROVE  /\ credited[d] <= arrived[d] - balance[d] /\ exported[d] <= arrived[d] - balance[d]
                      /\ faults = 0 /\ crashes = 0 /\ Quiet(d)
                           => credited[d] = arrived[d] - balance[d] /\ exported[d] = arrived[d] - balance[d]
    BY DEF Inv, LedgerMatchesChain
  <2>1. ASSUME NEW S, NEW book \in [Deposits -> Nat], BookInv(S, book), S = ToCredit \/ S = ToExport
        PROVE  /\ book[d] <= arrived[d] - balance[d]
               /\ faults = 0 /\ crashes = 0 /\ Quiet(d) => book[d] = arrived[d] - balance[d]
    <3>1. /\ IsFiniteSet(Owed(S, d))
          /\ book[d] + Cardinality(Owed(S, d)) <= arrived[d] - balance[d]
          /\ faults = 0 /\ crashes = 0 => book[d] + Cardinality(Owed(S, d)) = arrived[d] - balance[d]
      BY <2>1 DEF BookInv
    <3>2. Cardinality(Owed(S, d)) \in Nat /\ book[d] \in Nat /\ arrived[d] - balance[d] \in Int
      BY <3>1, FS_CardinalityType DEF TypeOK
    <3>3. Quiet(d) => Cardinality(Owed(S, d)) = 0
      <4>1. Quiet(d) => Owed(S, d) = {}
        BY <2>1 DEF Quiet, Moved, Owed, ToCredit, ToExport
      <4> QED BY <4>1, FS_EmptySet
    <3> QED BY <3>1, <3>2, <3>3
  <2> QED
    BY <2>1 DEF TypeOK
<1> QED
  BY <1>1, <1>2, <1>3, Invariance, PTL DEF Spec
=============================================================================
