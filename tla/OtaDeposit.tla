------------------------------ MODULE OtaDeposit ------------------------------
(***************************************************************************)
(* One-time-address deposits: every request gets a fresh custody account,  *)
(* a watcher polls its token balance, sweeps it once it is high enough and *)
(* reports the sweep.                                                      *)
(*                                                                         *)
(* The module follows deposits/ota-deposit/balance-watcher.ts and the      *)
(* parts of plugin.ts around it.  Every await is a step boundary.  Token   *)
(* amounts are in base units on both sides (formatUnits and parseUnits are *)
(* inverse on them).                                                       *)
(***************************************************************************)
EXTENDS Integers, FiniteSets

CONSTANTS
  Deposits,      (* correlation ids, each with an ephemeral address        *)
  Polls,         (* pollOnce calls that can be running at the same time    *)
  None,          (* no deposit                                             *)
  Expected,      (* [Deposits -> Nat], 0 when the amount is not given      *)
  Values,        (* the amounts a depositor sends at once                  *)
  GasStations,   (* is a gas station configured: a set of BOOLEAN          *)
  MayFail,       (* the awaits that can throw, a subset of Awaits          *)
  MaxArrived, MaxFaults, MaxCrashes    (* bounds                           *)

Awaits == {"provision", "balance", "gas", "transfer", "wait", "hook", "import", "archive"}

ASSUME DataAssumption ==
  /\ IsFiniteSet(Deposits)
  /\ None \notin Deposits
  /\ Expected \in [Deposits -> Nat]
  /\ Values \subseteq Nat \ {0}
  /\ GasStations \subseteq BOOLEAN
  /\ MayFail \subseteq Awaits
ASSUME BoundsAssumption ==
  MaxArrived \in Nat /\ MaxFaults \in Nat /\ MaxCrashes \in Nat

VARIABLES
  gasStation,    (* is one configured                                      *)
  call,          (* progress of each plugin.deposit() call                 *)
  deposits,      (* BalanceWatcher.deposits                                *)
  timers,        (* BalanceWatcher.timers                                  *)
  inFlight,      (* BalanceWatcher.inFlight                                *)
  poll,          (* the running pollOnce calls                             *)
  arrived,       (* chain: all that was ever sent to the ephemeral address *)
  balance,       (* chain: what is there now                               *)
  swept,         (* history: deposits with a sweep mined                   *)
  credited,      (* [Deposits -> Nat], what the inbound hook was told      *)
  exported,      (* [Deposits -> Nat], what importTransactions was told    *)
  archived,      (* custody accounts archived                              *)
  lost,          (* history: deposits in memory at a crash                 *)
  faults, crashes

watching == <<deposits, timers, inFlight>>
chain    == <<arrived, balance, swept>>
reports  == <<credited, exported, archived>>
bounds   == <<faults, crashes>>
vars     == <<gasStation, call, watching, poll, chain, reports, lost, bounds>>

PollStates == {"idle", "balance", "gas", "transfer", "wait", "hook", "import", "archive"}

(* The locals of a pollOnce call: its deposit and the balance it read. *)
Idle == [pc |-> "idle", dep |-> None, amount |-> 0]

(* Has the poll's sweep moved the tokens? *)
Moved(q) == q.pc \in {"wait", "hook", "import", "archive"}

(* Operators named Mutant... are plausible slips in the definition they
   precede; no specification uses them. *)

(* An awaited call that throws. *)
Fault(await) ==
  /\ await \in MayFail
  /\ faults < MaxFaults
  /\ faults' = faults + 1
  /\ UNCHANGED crashes

Init ==
  /\ gasStation \in GasStations
  /\ call = [d \in Deposits |-> "none"]
  /\ deposits = {} /\ timers = {} /\ inFlight = {}
  /\ poll = [p \in Polls |-> Idle]
  /\ arrived = [d \in Deposits |-> 0] /\ balance = arrived /\ swept = {}
  /\ credited = arrived /\ exported = arrived /\ archived = {}
  /\ lost = {} /\ faults = 0 /\ crashes = 0

-----------------------------------------------------------------------------
(***************************************************************************)
(* plugin.deposit()                                                        *)
(***************************************************************************)

(* The asset and the sweep target are looked up; without one the operation
   fails and nothing was created. *)
RequestDeposit(d) ==
  /\ call[d] = "none"
  /\ \E next \in {"provisioning", "rejected"} : call' = [call EXCEPT ![d] = next]
  /\ UNCHANGED <<gasStation, watching, poll, chain, reports, lost, bounds>>

(* createCustodyAccount and createWalletForCustodyId answered: addDeposit and
   the response, which discloses the address, follow without another await. *)
AddDeposit(d) ==
  /\ call[d] = "provisioning"
  /\ call' = [call EXCEPT ![d] = "accepted"]
  /\ deposits' = deposits \cup {d}
  /\ timers' = timers \cup {d}
  /\ UNCHANGED <<gasStation, inFlight, poll, chain, reports, lost, bounds>>

ProvisionFails(d) ==
  /\ call[d] = "provisioning"
  /\ Fault("provision")
  /\ call' = [call EXCEPT ![d] = "rejected"]
  /\ UNCHANGED <<gasStation, watching, poll, chain, reports, lost>>

-----------------------------------------------------------------------------
(***************************************************************************)
(* The watcher: pollOnce, sweep and stop.                                  *)
(***************************************************************************)

(* The interval fires.  Both tests happen before the first await. *)
Tick(d) ==
  /\ d \in timers
  /\ d \notin inFlight /\ d \in deposits
  /\ \E p \in Polls :
       /\ poll[p].pc = "idle"
       /\ poll' = [poll EXCEPT ![p] = [pc |-> "balance", dep |-> d, amount |-> 0]]
  /\ UNCHANGED <<gasStation, call, watching, chain, reports, lost, bounds>>

(* The tokens at the address are worth a sweep; the slip ignores the
   expected amount. *)
MutantEnough(d) == balance[d] > 0
Enough(d) == balance[d] > 0 /\ balance[d] >= Expected[d]

(* finally: inFlight.delete, and pollOnce is over; the slip skips the finally
   block when the sweep failed. *)
MutantFinish(p) ==
  /\ poll' = [poll EXCEPT ![p] = Idle]
  /\ inFlight' = IF poll[p].pc = "archive" THEN inFlight \ {poll[p].dep} ELSE inFlight
Finish(p) ==
  /\ poll' = [poll EXCEPT ![p] = Idle]
  /\ inFlight' = inFlight \ {poll[p].dep}

(* balanceOf answered.  Without a gas station sweep() gives up at once. *)
ReadBalance(p) ==
  LET d == poll[p].dep IN
  /\ poll[p].pc = "balance"
  /\ IF Enough(d) /\ gasStation
     THEN /\ inFlight' = inFlight \cup {d}
          /\ poll' = [poll EXCEPT ![p] = [@ EXCEPT !.pc = "gas", !.amount = balance[d]]]
     ELSE IF Enough(d)
     THEN Finish(p)
     ELSE /\ poll' = [poll EXCEPT ![p] = Idle]
          /\ UNCHANGED inFlight
  /\ UNCHANGED <<gasStation, call, deposits, timers, chain, reports, lost, bounds>>

BalanceFails(p) ==
  /\ poll[p].pc = "balance"
  /\ Fault("balance")
  /\ poll' = [poll EXCEPT ![p] = Idle]
  /\ UNCHANGED <<gasStation, call, watching, chain, reports, lost>>

EnsureGas(p) ==
  /\ poll[p].pc = "gas"
  /\ poll' = [poll EXCEPT ![p] = [@ EXCEPT !.pc = "transfer"]]
  /\ UNCHANGED <<gasStation, call, watching, chain, reports, lost, bounds>>

(* transfer(sweepTarget, amount): it moves the amount that was read, or it
   reverts because another poll has swept it. *)
Transfer(p) ==
  LET d == poll[p].dep
      amount == poll[p].amount IN
  /\ poll[p].pc = "transfer"
  /\ IF amount <= balance[d]
     THEN /\ balance' = [balance EXCEPT ![d] = @ - amount]
          /\ swept' = swept \cup {d}
          /\ poll' = [poll EXCEPT ![p] = [@ EXCEPT !.pc = "wait"]]
          /\ UNCHANGED inFlight
     ELSE /\ Finish(p)
          /\ UNCHANGED <<balance, swept>>
  /\ UNCHANGED <<gasStation, call, deposits, timers, arrived, reports, lost, bounds>>

(* stop() *)
Stop(d) ==
  /\ deposits' = deposits \ {d}
  /\ timers' = timers \ {d}
  /\ inFlight' = inFlight \ {d}

(* wait() answered with status 1. *)
Swept(p) ==
  /\ poll[p].pc = "wait"
  /\ Stop(poll[p].dep)
  /\ poll' = [poll EXCEPT ![p] = [@ EXCEPT !.pc = "hook"]]
  /\ UNCHANGED <<gasStation, call, chain, reports, lost, bounds>>

(* ensureGas or transfer threw, or wait() did although the sweep was mined;
   the slip stops the deposit all the same. *)
MutantSweepFails(p) ==
  /\ poll[p].pc \in {"gas", "transfer", "wait"}
  /\ Fault(poll[p].pc)
  /\ Stop(poll[p].dep)
  /\ poll' = [poll EXCEPT ![p] = Idle]
  /\ UNCHANGED <<gasStation, call, chain, reports, lost>>
SweepFails(p) ==
  /\ poll[p].pc \in {"gas", "transfer", "wait"}
  /\ Fault(poll[p].pc)
  /\ Finish(p)
  /\ UNCHANGED <<gasStation, call, deposits, timers, chain, reports, lost>>

-----------------------------------------------------------------------------
(***************************************************************************)
(* onTransferDetected: the three calls are awaited in turn, and a failure  *)
(* of one is logged and forgotten.                                         *)
(***************************************************************************)

(* The receivedAmount; the slip reads the address again. *)
MutantReceived(q) == q.amount + balance[q.dep]
Received(q) == q.amount

NotifyInboundHook(p) ==
  LET q == poll[p] IN
  /\ q.pc = "hook"
  /\ poll' = [poll EXCEPT ![p] = [@ EXCEPT !.pc = "import"]]
  /\ \/ /\ credited' = [credited EXCEPT ![q.dep] = @ + Received(q)]
        /\ UNCHANGED bounds
     \/ /\ Fault("hook")
        /\ UNCHANGED credited
  /\ UNCHANGED <<gasStation, call, watching, chain, exported, archived, lost>>

ExportReceipt(p) ==
  LET q == poll[p] IN
  /\ q.pc = "import"
  /\ poll' = [poll EXCEPT ![p] = [@ EXCEPT !.pc = "archive"]]
  /\ \/ /\ exported' = [exported EXCEPT ![q.dep] = @ + Received(q)]
        /\ UNCHANGED bounds
     \/ /\ Fault("import")
        /\ UNCHANGED exported
  /\ UNCHANGED <<gasStation, call, watching, chain, credited, archived, lost>>

ArchiveIfSwept(p) ==
  LET q == poll[p] IN
  /\ q.pc = "archive"
  /\ Finish(p)
  /\ \/ /\ archived' = archived \cup {q.dep}
        /\ UNCHANGED bounds
     \/ /\ Fault("archive")
        /\ UNCHANGED archived
  /\ UNCHANGED <<gasStation, call, deposits, timers, chain, credited, exported, lost>>

-----------------------------------------------------------------------------
(***************************************************************************)
(* The depositor and the process.                                          *)
(***************************************************************************)

(* Tokens reach the address, which is known once the call was answered. *)
Arrive(d) ==
  /\ call[d] = "accepted"
  /\ \E v \in Values :
       /\ arrived[d] + v <= MaxArrived
       /\ arrived' = [arrived EXCEPT ![d] = @ + v]
       /\ balance' = [balance EXCEPT ![d] = @ + v]
  /\ UNCHANGED <<gasStation, call, watching, poll, swept, reports, lost, bounds>>

(* A restart: the watcher and the running calls live in memory only. *)
Crash ==
  /\ crashes < MaxCrashes
  /\ crashes' = crashes + 1
  /\ lost' = lost \cup deposits \cup {poll[p].dep : p \in {r \in Polls : Moved(poll[r])}}
  /\ call' = [d \in Deposits |-> IF call[d] = "provisioning" THEN "rejected" ELSE call[d]]
  /\ deposits' = {} /\ timers' = {} /\ inFlight' = {}
  /\ poll' = [p \in Polls |-> Idle]
  /\ UNCHANGED <<gasStation, chain, reports, faults>>

PollStep(p) ==
  \/ ReadBalance(p) \/ EnsureGas(p) \/ Transfer(p) \/ Swept(p)
  \/ NotifyInboundHook(p) \/ ExportReceipt(p) \/ ArchiveIfSwept(p)

Next ==
  \/ \E d \in Deposits :
       RequestDeposit(d) \/ AddDeposit(d) \/ ProvisionFails(d) \/ Tick(d) \/ Arrive(d)
  \/ \E p \in Polls : PollStep(p) \/ BalanceFails(p) \/ SweepFails(p)
  \/ Crash

Spec == Init /\ [][Next]_vars

(* The runtime answers every await in the end and never stops an interval
   timer from firing; depositors and crashes owe nothing.  Ticks are strongly
   fair because the deposits share the bounded Polls here, while the runtime
   never runs out of calls. *)
Fairness ==
  /\ \A d \in Deposits : WF_vars(AddDeposit(d)) /\ SF_vars(Tick(d))
  /\ \A p \in Polls : WF_vars(PollStep(p))
FairSpec == Spec /\ Fairness

-----------------------------------------------------------------------------
(***************************************************************************)
(* Properties                                                              *)
(***************************************************************************)

PollRecords == [pc : PollStates, dep : Deposits \cup {None}, amount : Nat]

(* Every variable keeps its type, a poll that runs has a deposit, and a
   deposit is polled by a timer exactly as long as it is in the map. *)
TypeOK ==
  /\ gasStation \in BOOLEAN
  /\ call \in [Deposits -> {"none", "provisioning", "rejected", "accepted"}]
  /\ deposits \subseteq Deposits /\ timers = deposits /\ inFlight \subseteq Deposits
  /\ poll \in [Polls -> PollRecords]
  /\ \A p \in Polls : poll[p].pc # "idle" => poll[p].dep \in Deposits
  /\ arrived \in [Deposits -> Nat] /\ balance \in [Deposits -> Nat]
  /\ swept \subseteq Deposits
  /\ credited \in [Deposits -> Nat] /\ exported \in [Deposits -> Nat]
  /\ archived \subseteq Deposits /\ lost \subseteq Deposits
  /\ faults \in Nat /\ crashes \in Nat

(* A deposit marked in flight has a poll that will unmark it: whatever fails,
   and however two polls of one deposit overlap, the mark never outlives its
   polls (it would silence the timer for good).  pollOnce's try/finally. *)
NoStuckInFlight ==
  \A d \in inFlight :
    \E p \in Polls : poll[p].dep = d /\ poll[p].pc \notin {"idle", "balance"}

(* A deposit the caller was promised is in the map until a sweep of it has been
   mined; only a restart can lose it.  addDeposit, pollOnce and stop. *)
AcceptedIsKept ==
  \A d \in Deposits :
    call[d] = "accepted" => d \in deposits \cup lost \cup swept

(* No sweep of a deposit moves less than the amount it was opened for, and no
   smaller amount is ever credited: pollOnce's comparison with expectedAmount,
   also when two polls of the deposit overlap. *)
NoShortCredit ==
  \A d \in Deposits :
    /\ credited[d] > 0 => credited[d] >= Expected[d]
    /\ balance[d] < arrived[d] => arrived[d] - balance[d] >= Expected[d]

(* The omnibus ledger is never credited, and FinP2P never told of, more than
   was swept, and without faults or a restart exactly that once the reports
   are out, however the polls of a deposit overlap (plugin.ts,
   onTransferDetected; the sums of receivedAmount against the chain). *)
Quiet(d) == \A p \in Polls : poll[p].dep = d => ~ Moved(poll[p])
LedgerMatchesChain ==
  \A d \in Deposits :
    LET moved == arrived[d] - balance[d] IN
    /\ credited[d] <= moved /\ exported[d] <= moved
    /\ faults = 0 /\ crashes = 0 /\ Quiet(d) => credited[d] = moved /\ exported[d] = moved

(* The comment in pollOnce says that the next poll retries: an open deposit with
   enough tokens is swept in the end, although the balance read, the gas top-up
   or the transfer failed before, and credited unless wait() or a report fails
   after that; only a restart ends the watch. *)
FundedIsCredited ==
  \A d \in Deposits :
    (d \in deposits /\ Enough(d) /\ gasStation) ~>
      \/ credited[d] > 0 /\ exported[d] > 0
      \/ faults > 0 /\ balance[d] < arrived[d]
      \/ d \in lost

(* balance-watcher.ts:70-74: when "Sweep didn't succeed" the deposit is kept open
   and "The next poll will retry the sweep with the same balance": an open
   deposit that no poll is sweeping still has its tokens at the address. *)
OpenIsUnswept ==
  \A d \in deposits : Quiet(d) => balance[d] = arrived[d]
=============================================================================
