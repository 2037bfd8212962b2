----------------------------- MODULE PullDeposit -----------------------------
(***************************************************************************)
(* Pull deposits: an investor asks for a deposit, approves the operator on *)
(* the token contract, and the operator's watcher, which polls the chain   *)
(* for Approval logs, runs transferFrom and reports the pull.              *)
(*                                                                         *)
(* The module follows deposits/pull-deposit/approval-watcher.ts and the    *)
(* parts of plugin.ts that drive it, for ONE token contract (the watcher   *)
(* keeps all its state per contract).  Every await is a step boundary, so  *)
(* HTTP requests, timer ticks and polls interleave as they do on the Node  *)
(* event loop; the statements between two awaits are one action.           *)
(***************************************************************************)
EXTENDS Integers, Sequences, FiniteSets

CONSTANTS
  Deposits,      (* correlation ids of the deposit requests                *)
  Owners,        (* external wallets that can approve the operator         *)
  Watchers,      (* ApprovalWatcher instances the process can construct    *)
  Polls,         (* pollOnce calls that can be running at the same time    *)
  None,          (* no watcher yet                                         *)
  Investor,      (* [Deposits -> Owners], whose wallet funds the deposit   *)
  Expected,      (* [Deposits -> Nat], 0 when the amount is not given      *)
  Values,        (* the amounts an owner approves                          *)
  Funds,         (* what every owner holds at the start                    *)
  Discipline,    (* how owners approve, see MayApprove                     *)
  MaxHeight, MaxFaults, MaxCrashes     (* bounds                           *)

ASSUME DataAssumption ==
  /\ IsFiniteSet(Deposits)
  /\ Investor \in [Deposits -> Owners]
  /\ Expected \in [Deposits -> Nat]
  /\ Values \subseteq Nat \ {0}
  /\ Funds \in Nat
  /\ None \notin Watchers
  /\ Discipline \in {"any", "open", "exact"}
ASSUME BoundsAssumption ==
  /\ MaxHeight \in Nat \ {0}
  /\ MaxFaults \in Nat
  /\ MaxCrashes \in Nat

VARIABLES
  watcher,       (* PullDepositPlugin.watcher                              *)
  created,       (* the watchers constructed so far                        *)
  call,          (* progress of each plugin.deposit() call                 *)
  chosen,        (* the watcher each call got from getWatcher              *)
  since,         (* history: the height at which the call was accepted     *)
  open,          (* [Watchers -> SUBSET Deposits], ApprovalWatcher.deposits *)
  createdAt,     (* PullDeposit.createdAt, as the rank of the creation     *)
  timer,         (* is there an entry in ApprovalWatcher.timers            *)
  intervals,     (* setInterval timers that are alive, listed there or not *)
  lastSeen,      (* the cursor; 0 stands for a missing entry as well       *)
  inFlight,      (* ApprovalWatcher.inFlight                               *)
  poll,          (* the running pollOnce calls                             *)
  height, logs, allowance, balance,    (* the chain                        *)
  pulls,         (* history: every transferFrom the chain has executed     *)
  lost,          (* history: deposits open at a crash                      *)
  faults, crashes

plugin  == <<watcher, created, call, chosen, since, createdAt>>
timing  == <<timer, intervals, lastSeen>>
chain   == <<height, logs, allowance, balance>>
vars    == <<plugin, open, timing, inFlight, poll, chain, pulls, lost, faults, crashes>>

Larger(a, b) == IF a > b THEN a ELSE b

PollStates == {"idle", "height", "logs", "allowance", "transfer", "mined", "report"}

(* The locals of a pollOnce call: its watcher, fromBlock and latest, the logs of
   its batch still to handle, the log in hand, the deposit matched with it and
   the transferFrom it executed. *)
Idle == [pc |-> "idle", w |-> None, from |-> 0, latest |-> 0, todo |-> {}, log |-> 0, dep |-> None,
         tx |-> 0]

CallStates == {"none", "creating", "adding", "rejected", "seeding", "failed", "accepted"}

(* Operators named Mutant... are plausible slips in the definition they
   precede; no specification uses them. *)

(* hasOpenDepositFor; the slip asks the timer map instead of the deposits. *)
MutantHasOpen(w) == timer[w]
HasOpen(w) == open[w] # {}

(* findMatchingDeposit *)
Oldest(w) == CHOOSE d \in open[w] : \A e \in open[w] : createdAt[d] <= createdAt[e]

(* deposits.delete; the slip clears the map. *)
MutantRemoveAll(ds, d) == {}
Remove(ds, d) == ds \ {d}

(* ensurePolling has nothing to do; the slip looks at the cursor. *)
MutantPolling(w) == lastSeen[w] > 0
Polling(w) == timer[w]

(* The first cursor, one block back; the slip starts at the current block. *)
MutantSeed == height
Seed == Larger(0, height - 1)

(* An RPC or signing call that throws instead of answering. *)
Fault == faults < MaxFaults /\ faults' = faults + 1

Init ==
  /\ watcher = None /\ created = {}
  /\ call = [d \in Deposits |-> "none"]
  /\ chosen = [d \in Deposits |-> None]
  /\ since = [d \in Deposits |-> 0]
  /\ open = [w \in Watchers |-> {}]
  /\ createdAt = [d \in Deposits |-> 0]
  /\ timer = [w \in Watchers |-> FALSE]
  /\ intervals = [w \in Watchers |-> 0]
  /\ lastSeen = [w \in Watchers |-> 0]
  /\ inFlight = [w \in Watchers |-> FALSE]
  /\ poll = [p \in Polls |-> Idle]
  /\ height = 1 /\ logs = <<>>
  /\ allowance = [o \in Owners |-> 0]
  /\ balance = [o \in Owners |-> Funds]
  /\ pulls = <<>> /\ lost = {} /\ faults = 0 /\ crashes = 0

-----------------------------------------------------------------------------
(***************************************************************************)
(* plugin.deposit(): getWatcher, then addDeposit.                          *)
(***************************************************************************)

(* getWatcher: the field is tested before the await and assigned after it. *)
RequestDeposit(d) ==
  /\ call[d] = "none"
  /\ IF watcher # None
     THEN /\ call' = [call EXCEPT ![d] = "adding"]
          /\ chosen' = [chosen EXCEPT ![d] = watcher]
     ELSE /\ Cardinality({e \in Deposits : call[e] = "creating"})
               < Cardinality(Watchers \ created)
          /\ call' = [call EXCEPT ![d] = "creating"]
          /\ UNCHANGED chosen
  /\ UNCHANGED <<watcher, created, since, createdAt, open, timing, inFlight, poll, chain, pulls, lost, faults, crashes>>

CreateWatcher(d) ==
  /\ call[d] = "creating"
  /\ \E w \in Watchers \ created :
       /\ created' = created \cup {w}
       /\ watcher' = w
       /\ chosen' = [chosen EXCEPT ![d] = w]
  /\ call' = [call EXCEPT ![d] = "adding"]
  /\ UNCHANGED <<since, createdAt, open, timing, inFlight, poll, chain, pulls, lost, faults, crashes>>

(* addDeposit up to its await: the check and the insertion are one step. *)
AddDeposit(d) ==
  LET w == chosen[d] IN
  /\ call[d] = "adding"
  /\ IF HasOpen(w)
     THEN /\ call' = [call EXCEPT ![d] = "rejected"]
          /\ UNCHANGED <<open, since, createdAt>>
     ELSE /\ open' = [open EXCEPT ![w] = @ \cup {d}]
          /\ createdAt' = [createdAt EXCEPT ![d] =
                             Cardinality({e \in Deposits : createdAt[e] > 0}) + 1]
          /\ call' = [call EXCEPT ![d] = IF Polling(w) THEN "accepted" ELSE "seeding"]
          /\ since' = [since EXCEPT ![d] = IF Polling(w) THEN height ELSE 0]
  /\ UNCHANGED <<watcher, created, chosen, timing, inFlight, poll, chain, pulls, lost, faults, crashes>>

(* ensurePolling after getBlockNumber: the new timer replaces an entry that
   appeared meanwhile, whose interval then runs on with nobody to clear it. *)
SeedCursor(d) ==
  LET w == chosen[d] IN
  /\ call[d] = "seeding"
  /\ lastSeen' = [lastSeen EXCEPT ![w] = Seed]
  /\ timer' = [timer EXCEPT ![w] = TRUE]
  /\ intervals' = [intervals EXCEPT ![w] = @ + 1]
  /\ call' = [call EXCEPT ![d] = "accepted"]
  /\ since' = [since EXCEPT ![d] = height]
  /\ UNCHANGED <<watcher, created, chosen, createdAt, open, inFlight, poll, chain, pulls, lost, faults, crashes>>

(* getBlockNumber throws: the caller gets a failed operation. *)
SeedFails(d) ==
  /\ call[d] = "seeding"
  /\ Fault
  /\ call' = [call EXCEPT ![d] = "failed"]
  /\ UNCHANGED <<watcher, created, chosen, since, createdAt, open, timing, inFlight, poll, chain, pulls, lost, crashes>>

-----------------------------------------------------------------------------
(***************************************************************************)
(* pollOnce and handleApproval.                                            *)
(***************************************************************************)

(* stopPolling *)
StopPolling(w) ==
  /\ timer' = [timer EXCEPT ![w] = FALSE]
  /\ intervals' = [intervals EXCEPT ![w] = IF timer[w] THEN @ - 1 ELSE @]
  /\ lastSeen' = [lastSeen EXCEPT ![w] = 0]

Tick(w, p) ==
  /\ intervals[w] > 0
  /\ ~ inFlight[w]
  /\ IF HasOpen(w)
     THEN /\ poll[p] = Idle
          /\ poll' = [poll EXCEPT ![p] =
                        [Idle EXCEPT !.pc = "height", !.w = w, !.from = lastSeen[w] + 1]]
          /\ UNCHANGED timing
     ELSE StopPolling(w) /\ UNCHANGED poll
  /\ UNCHANGED <<plugin, open, inFlight, chain, pulls, lost, faults, crashes>>

GetHeight(p) ==
  /\ poll[p].pc = "height"
  /\ poll' = [poll EXCEPT ![p] =
                IF height < poll[p].from THEN Idle
                ELSE [@ EXCEPT !.pc = "logs", !.latest = height]]
  /\ UNCHANGED <<plugin, open, timing, inFlight, chain, pulls, lost, faults, crashes>>

(* The loop of pollOnce with these logs left, up to its next await: logs that
   find no deposit are ignored, the end of the batch advances the cursor. *)
Proceed(p, todo) ==
  LET w == poll[p].w
      first == CHOOSE n \in todo : \A m \in todo : n <= m
  IN
  IF todo # {} /\ HasOpen(w)
  THEN /\ poll' = [poll EXCEPT ![p] =
                     [@ EXCEPT !.pc = "allowance", !.from = 0, !.log = first, !.todo = todo \ {first},
                               !.dep = Oldest(w), !.tx = 0]]
       /\ inFlight' = [inFlight EXCEPT ![w] = TRUE]
       /\ UNCHANGED lastSeen
  ELSE /\ poll' = [poll EXCEPT ![p] = Idle]
       /\ inFlight' = [inFlight EXCEPT ![w] = IF poll[p].pc = "logs" /\ todo = {} THEN @ ELSE FALSE]
       /\ lastSeen' = [lastSeen EXCEPT ![w] = poll[p].latest]

(* getLogs: the Approval logs of the blocks fromBlock..latest, in chain order. *)
GetLogs(p) ==
  /\ poll[p].pc = "logs"
  /\ Proceed(p, {n \in DOMAIN logs : logs[n].block \in poll[p].from .. poll[p].latest})
  /\ UNCHANGED <<plugin, open, timer, intervals, chain, pulls, lost, faults, crashes>>

(* What handleApproval wants to pull: expectedAmount, else the event's value. *)
Desired(q) == IF Expected[q.dep] > 0 THEN Expected[q.dep] ELSE logs[q.log].value

(* The allowance is read after the deposit was matched and before the gas
   top-up and the transferFrom. *)
ReadAllowance(p) ==
  LET q == poll[p] IN
  /\ q.pc = "allowance"
  /\ IF allowance[logs[q.log].owner] < Desired(q)
     THEN Proceed(p, q.todo)
     ELSE /\ poll' = [poll EXCEPT ![p].pc = "transfer"]
          /\ UNCHANGED <<lastSeen, inFlight>>
  /\ UNCHANGED <<plugin, open, timer, intervals, chain, pulls, lost, faults, crashes>>

(* An exception leaves the loop: the cursor stays, inFlight is cleared. *)
Abort(p) ==
  /\ poll' = [poll EXCEPT ![p] = Idle]
  /\ inFlight' = [inFlight EXCEPT ![poll[p].w] =
                    IF poll[p].pc \in {"height", "logs"} THEN @ ELSE FALSE]

(* The chain executes transferFrom in a block of its own, or reverts it, in
   which case estimateGas or wait() throws. *)
TransferFrom(p) ==
  LET q == poll[p]
      owner == logs[q.log].owner
      amount == Desired(q)
  IN
  /\ q.pc = "transfer"
  /\ IF amount <= allowance[owner] /\ amount <= balance[owner]
     THEN /\ height' = height + 1
          /\ allowance' = [allowance EXCEPT ![owner] = @ - amount]
          /\ balance' = [balance EXCEPT ![owner] = @ - amount]
          /\ pulls' = Append(pulls, [dep |-> q.dep, owner |-> owner, amount |-> amount, told |-> {}])
          /\ poll' = [poll EXCEPT ![p] = [@ EXCEPT !.pc = "mined", !.tx = Len(pulls) + 1]]
          /\ UNCHANGED inFlight
     ELSE /\ Abort(p)
          /\ UNCHANGED <<height, allowance, balance, pulls>>
  /\ UNCHANGED <<plugin, open, timing, logs, lost, faults, crashes>>

(* wait() answered with status 1: the deposit is deleted and, when it was the
   last one, polling stops; then onPullCompleted is awaited.  The slip leaves
   the report to whoever deleted the deposit. *)
MutantSettle(p) ==
  LET q == poll[p] IN
  /\ q.pc = "mined"
  /\ open' = [open EXCEPT ![q.w] = Remove(@, q.dep)]
  /\ IF open'[q.w] = {} THEN StopPolling(q.w) ELSE UNCHANGED timing
  /\ poll' = [poll EXCEPT ![p] = IF open' = open THEN Idle ELSE [@ EXCEPT !.pc = "report"]]
  /\ UNCHANGED <<plugin, inFlight, chain, pulls, lost, faults, crashes>>

Settle(p) ==
  LET q == poll[p]
      left == Remove(open[q.w], q.dep)
  IN
  /\ q.pc = "mined"
  /\ open' = [open EXCEPT ![q.w] = left]
  /\ IF left = {} THEN StopPolling(q.w) ELSE UNCHANGED timing
  /\ poll' = [poll EXCEPT ![p].pc = "report"]
  /\ UNCHANGED <<plugin, inFlight, chain, pulls, lost, faults, crashes>>

(* onPullCompleted: the inbound hook and the import of the transaction, each
   of which swallows its own failure; then the loop goes on. *)
Report(p) ==
  LET q == poll[p] IN
  /\ q.pc = "report"
  /\ \E told \in SUBSET {"hook", "import"} :
       /\ pulls' = [pulls EXCEPT ![q.tx].told = @ \cup told]
       /\ IF told = {"hook", "import"} THEN UNCHANGED faults ELSE Fault
  /\ Proceed(p, q.todo)
  /\ UNCHANGED <<plugin, open, timer, intervals, chain, lost, crashes>>

(* A provider or signer call throws.  In "mined" the transaction is on the
   chain and only its receipt is not obtained. *)
PollFails(p) ==
  /\ poll[p].pc \in {"height", "logs", "allowance", "transfer", "mined"}
  /\ Fault
  /\ Abort(p)
  /\ UNCHANGED <<plugin, open, timing, chain, pulls, lost, crashes>>

-----------------------------------------------------------------------------
(***************************************************************************)
(* The environment.                                                        *)
(***************************************************************************)

Waiting(d) == \E w \in Watchers : d \in open[w]

(* "any": any wallet approves at any time.  "open": an investor approves only
   while a deposit of its own is being opened or is open.  "exact": besides, once
   per deposit and for exactly the amount of the deposit. *)
MayApprove(o, v) ==
  \/ Discipline = "any"
  \/ \E d \in Deposits :
       /\ Investor[d] = o /\ call[d] \in {"seeding", "accepted"} /\ Waiting(d)
       /\ \/ Discipline = "open"
          \/ /\ v = Expected[d]
             /\ ~ \E n \in DOMAIN logs : logs[n].dep = d

(* A block with one approval, or an empty one.  "dep" is history: the deposit
   of its owner that is open when it is mined, if there is one. *)
Approve(o, v) ==
  LET mine == {d \in Deposits : Investor[d] = o /\ Waiting(d)} IN
  /\ height < MaxHeight
  /\ MayApprove(o, v)
  /\ height' = height + 1
  /\ logs' = Append(logs, [block |-> height + 1, owner |-> o, value |-> v,
                           dep |-> IF mine = {} THEN None ELSE CHOOSE d \in mine : TRUE])
  /\ allowance' = [allowance EXCEPT ![o] = v]
  /\ UNCHANGED <<plugin, open, timing, inFlight, poll, balance, pulls, lost, faults, crashes>>

EmptyBlock ==
  /\ height < MaxHeight
  /\ height' = height + 1
  /\ UNCHANGED <<plugin, open, timing, inFlight, poll, logs, allowance, balance, pulls, lost, faults,
                 crashes>>

(* The process dies and starts again: everything it kept was in memory. *)
Crash ==
  /\ crashes < MaxCrashes
  /\ crashes' = crashes + 1
  /\ lost' = lost \cup {d \in Deposits : Waiting(d)}
  /\ call' = [d \in Deposits |->
                IF call[d] \in {"creating", "adding", "seeding"} THEN "failed" ELSE call[d]]
  /\ watcher' = None
  /\ created' = {}
  /\ open' = [w \in Watchers |-> {}]
  /\ timer' = [w \in Watchers |-> FALSE]
  /\ intervals' = [w \in Watchers |-> 0]
  /\ lastSeen' = [w \in Watchers |-> 0]
  /\ inFlight' = [w \in Watchers |-> FALSE]
  /\ poll' = [p \in Polls |-> Idle]
  /\ UNCHANGED <<chosen, since, createdAt, chain, pulls, faults>>

-----------------------------------------------------------------------------
CallStep(d) ==
  RequestDeposit(d) \/ CreateWatcher(d) \/ AddDeposit(d) \/ SeedCursor(d) \/ SeedFails(d)

PollStep(p) ==
  GetHeight(p) \/ GetLogs(p) \/ ReadAllowance(p) \/ TransferFrom(p) \/ Settle(p) \/ Report(p)

Next ==
  \/ \E d \in Deposits : CallStep(d)
  \/ \E w \in Watchers, p \in Polls : Tick(w, p)
  \/ \E p \in Polls : PollStep(p) \/ PollFails(p)
  \/ \E o \in Owners, v \in Values : Approve(o, v)
  \/ EmptyBlock
  \/ Crash

Spec == Init /\ [][Next]_vars

(* The event loop runs what is ready: calls resume, timers fire, awaited
   promises settle.  Nothing is assumed of investors, blocks, faults, crashes. *)
Fairness ==
  /\ \A d \in Deposits : WF_vars(CreateWatcher(d) \/ AddDeposit(d) \/ SeedCursor(d))
  /\ \A w \in Watchers, p \in Polls : WF_vars(Tick(w, p))
  /\ \A p \in Polls : WF_vars(PollStep(p))

FairSpec == Spec /\ Fairness

-----------------------------------------------------------------------------
(***************************************************************************)
(* Properties.                                                             *)
(***************************************************************************)

LogEntries == [block : Nat, owner : Owners, value : Nat, dep : Deposits \cup {None}]
Pulls == [dep : Deposits, owner : Owners, amount : Nat, told : SUBSET {"hook", "import"}]

PollRecords ==
  [pc : PollStates, w : Watchers \cup {None}, from : Nat, latest : Nat, todo : SUBSET Nat, log : Nat,
   dep : Deposits \cup {None}, tx : Nat]

CallsOK ==
  /\ watcher \in Watchers \cup {None}
  /\ created \subseteq Watchers
  /\ call \in [Deposits -> CallStates]
  /\ chosen \in [Deposits -> Watchers \cup {None}]
  /\ since \in [Deposits -> Nat]
  /\ createdAt \in [Deposits -> Nat]
  /\ lost \subseteq Deposits

WatchersOK ==
  /\ open \in [Watchers -> SUBSET Deposits]
  /\ timer \in [Watchers -> BOOLEAN]
  /\ intervals \in [Watchers -> Nat]
  /\ lastSeen \in [Watchers -> Nat]
  /\ inFlight \in [Watchers -> BOOLEAN]

(* What the locals of a running poll refer to exists. *)
PollRefersTo(q) ==
  /\ q.pc # "idle" => q.w \in Watchers
  /\ q.todo \subseteq DOMAIN logs
  /\ q.pc \in {"allowance", "transfer", "mined", "report"} => q.log \in DOMAIN logs /\ q.dep \in Deposits
  /\ q.pc \in {"mined", "report"} => q.tx \in DOMAIN pulls

PollsOK ==
  /\ poll \in [Polls -> PollRecords]
  /\ \A p \in Polls : PollRefersTo(poll[p])

ChainOK ==
  /\ height \in Nat
  /\ logs \in Seq(LogEntries)
  /\ allowance \in [Owners -> Nat]
  /\ balance \in [Owners -> Nat]
  /\ pulls \in Seq(Pulls)
  /\ faults \in Nat
  /\ crashes \in Nat

(* Every variable keeps its type, and a running poll refers to a watcher, to
   logs, to a deposit and to a transferFrom that exist. *)
TypeOK == CallsOK /\ WatchersOK /\ PollsOK /\ ChainOK

(* A watcher never holds two open deposits of the contract, whatever polls,
   requests and failures interleave (addDeposit, approval-watcher.ts:49-58). *)
OneOpenPerWatcher == \A w \in Watchers : \A d, e \in open[w] : d = e

Pulled(d) == \E n \in DOMAIN pulls : pulls[n].dep = d

(* An accepted deposit is never dropped: it is open, or a transferFrom was
   executed for it, or a crash took it. *)
AcceptedIsKept ==
  \A d \in Deposits : call[d] = "accepted" => Waiting(d) \/ Pulled(d) \/ d \in lost

(* An accepted deposit that is open has a live timer: no order of completions,
   restarts of polling and stale polls leaves it with nobody looking. *)
AcceptedIsPolled ==
  \A d \in Deposits :
    call[d] = "accepted" /\ Waiting(d) => intervals[chosen[d]] > 0

(* A request that was answered with a failed operation holds nothing open.
   The code does not keep this: a seed that fails leaves its deposit in the
   map without a timer, where it blocks the contract (README, deviations). *)
FailedHoldsNothing == \A d \in Deposits : call[d] = "failed" => ~ Waiting(d)

(* A deposit is paid by its own investor first: one open deposit per contract
   (approval-watcher.ts:22-27) lets an approval, which names no deposit, fund
   only the deposit it was given for, although approvals are matched when they
   are handled and polls overlap.  Only a deposit that was pulled already may be
   pulled again, and then from another wallet: a poll that matched it before it
   was settled goes on with whatever allowance its log's owner gives next
   (README, deviations). *)
FirstPullIsOwn == \A n \in DOMAIN pulls :
  \/ pulls[n].owner = Investor[pulls[n].dep]
  \/ \E m \in DOMAIN pulls : m < n /\ pulls[m].dep = pulls[n].dep

(* As long as no call fails, every pull is reported to the omnibus hook and to
   the import, also the pulls of polls that overlap: none of them relies on
   another one to do it. *)
SettledIsTold ==
  faults = 0 /\ crashes = 0 => \A n \in DOMAIN pulls :
    \/ pulls[n].told = {"hook", "import"}
    \/ \E p \in Polls : poll[p].pc \in {"mined", "report"} /\ poll[p].tx = n

(* An approval made for the open deposit in the block in which it was accepted
   or a later one, with the allowance and the balance to pull it. *)
Claimable(d) ==
  \E n \in DOMAIN logs :
    LET o == logs[n].owner IN
    /\ logs[n].dep = d /\ logs[n].block >= since[d]
    /\ call[d] = "accepted" /\ Waiting(d)
    /\ Expected[d] > 0
    /\ allowance[o] >= Expected[d] /\ balance[o] >= Expected[d]

(* A claimable deposit does not stay open for ever: the cursor never moves past
   its approval without evaluating it. *)
ClaimableIsPulled == \A d \in Deposits : Claimable(d) ~> (~ Claimable(d) \/ Pulled(d))
=============================================================================
