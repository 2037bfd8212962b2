-------------------------- MODULE PullDepositProofs --------------------------
(***************************************************************************)
(* What holds of the pull-deposit watcher for every number of deposits,    *)
(* owners, watchers and overlapping polls, every discipline of the owners  *)
(* and any faults and crashes.                                             *)
(***************************************************************************)
EXTENDS PullDeposit, FiniteSetTheorems, WellFoundedInduction, TLAPS

(* A call that is past getWatcher knows its watcher, and only the watcher a
   deposit was given to holds it. *)
ChosenInv ==
  /\ \A d \in Deposits : call[d] \in {"adding", "seeding", "accepted"} => chosen[d] \in Watchers
  /\ \A w \in Watchers : \A d \in open[w] :
       chosen[d] = w /\ call[d] \in {"seeding", "failed", "accepted"}

(* An entry of the timer map is an interval that runs, and an accepted deposit
   that is open has one. *)
TimerInv ==
  /\ \A w \in Watchers : timer[w] => intervals[w] > 0
  /\ \A w \in Watchers : \A d \in open[w] : call[d] = "accepted" => timer[w]

(* A poll that waits for its transferFrom, or reports it, holds one that was
   executed for the deposit it matched. *)
TxInv ==
  \A p \in Polls : poll[p].pc \in {"mined", "report"} => pulls[poll[p].tx].dep = poll[p].dep

(* AcceptedIsKept already holds of the calls that still seed their cursor. *)
KeptInv ==
  \A d \in Deposits :
    call[d] \in {"seeding", "accepted"} => Waiting(d) \/ Pulled(d) \/ d \in lost

Inv == TypeOK /\ ChosenInv /\ OneOpenPerWatcher /\ TimerInv /\ TxInv /\ KeptInv

LEMMA InitInv == Init => Inv
<1> SUFFICES ASSUME Init PROVE Inv
  OBVIOUS
<1> USE DataAssumption, BoundsAssumption
<1>1. TypeOK
  BY DEF Init, TypeOK, CallsOK, WatchersOK, PollsOK, ChainOK, PollRefersTo, Idle, PollRecords,
         PollStates, CallStates, LogEntries, Pulls
<1>2. ChosenInv /\ OneOpenPerWatcher /\ TimerInv /\ TxInv /\ KeptInv
  BY DEF Init, ChosenInv, OneOpenPerWatcher, TimerInv, TxInv, KeptInv, Idle
<1>3. QED
  BY <1>1, <1>2 DEF Inv

(* The head of a non-empty set of naturals that CHOOSE picks exists. *)
LEMMA LeastNat ==
  ASSUME NEW S \in SUBSET Nat, S # {}
  PROVE  (CHOOSE n \in S : \A m \in S : n <= m) \in S
<1>1. \E n \in S : \A m \in S : ~ (<<m, n>> \in OpToRel(<, Nat))
  BY NatLessThanWellFounded, WFMin
<1>2. PICK n \in S : \A m \in S : ~ (<<m, n>> \in OpToRel(<, Nat))
  BY <1>1
<1>3. ASSUME NEW m \in S, m < n PROVE FALSE
  <2>1. <<m, n>> \in Nat \X Nat /\ <<m, n>>[1] < <<m, n>>[2]
    BY <1>2, <1>3
  <2>2. <<m, n>> \in OpToRel(<, Nat)
    BY <2>1, Zenon DEF OpToRel
  <2>3. QED
    BY <1>2, <2>2
<1>4. \A m \in S : n <= m
  BY <1>3
<1>5. QED
  BY <1>2, <1>4

(* findMatchingDeposit returns an open deposit when there is one. *)
LEMMA OldestIsOpen ==
  ASSUME Inv, NEW w \in Watchers, HasOpen(w)
  PROVE  Oldest(w) \in open[w]
<1>1. PICK d \in open[w] : TRUE
  BY DEF HasOpen
<1>2. createdAt[d] \in Nat
  BY <1>1 DEF Inv, TypeOK, CallsOK, WatchersOK
<1>3. \A e \in open[w] : createdAt[d] <= createdAt[e]
  BY <1>1, <1>2 DEF Inv, OneOpenPerWatcher
<1>4. QED
  BY <1>1, <1>3 DEF Oldest

(* A poll that moves on within its state space, its references in range,
   leaves the polls well typed. *)
LEMMA PollMoves ==
  ASSUME PollsOK, NEW p \in Polls, NEW r \in PollRecords, poll' = [poll EXCEPT ![p] = r],
         PollRefersTo(r), logs' = logs, DOMAIN pulls \subseteq DOMAIN pulls'
  PROVE  PollsOK'
<1>1. poll' \in [Polls -> PollRecords]
  BY DEF PollsOK
<1>2. ASSUME NEW q \in Polls PROVE PollRefersTo(poll[q])'
  <2>1. PollRefersTo(poll'[q])
    BY DEF PollsOK
  <2> QED
    BY <2>1 DEF PollRefersTo
<1> QED
  BY <1>1, <1>2 DEF PollsOK

(* Recording who was told of a pull keeps it a pull. *)
LEMMA ToldPull ==
  ASSUME NEW r \in Pulls, NEW t \in SUBSET {"hook", "import"}
  PROVE  [r EXCEPT !.told = t] \in Pulls /\ [r EXCEPT !.told = t].dep = r.dep
BY DEF Pulls

(* What the loop of pollOnce leaves behind is well typed. *)
LEMMA ProceedTypes ==
  ASSUME Inv, NEW p \in Polls, poll[p].pc # "idle",
         NEW todo \in SUBSET DOMAIN logs, Proceed(p, todo),
         logs' = logs, DOMAIN pulls' = DOMAIN pulls
  PROVE  /\ PollsOK'
         /\ inFlight' \in [Watchers -> BOOLEAN]
         /\ lastSeen' \in [Watchers -> Nat]
<1> DEFINE w == poll[p].w
           first == CHOOSE n \in todo : \A m \in todo : n <= m
<1>1. /\ poll \in [Polls -> PollRecords] /\ poll[p] \in PollRecords
      /\ \A q \in Polls : PollRefersTo(poll[q])
      /\ w \in Watchers
      /\ inFlight \in [Watchers -> BOOLEAN]
      /\ lastSeen \in [Watchers -> Nat]
      /\ open \in [Watchers -> SUBSET Deposits]
      /\ DOMAIN logs \subseteq Nat
  BY DEF Inv, TypeOK, PollsOK, WatchersOK, ChainOK, PollRefersTo
<1>2. CASE todo # {} /\ HasOpen(w)
  <2>1. first \in todo
    BY <1>1, <1>2, LeastNat
  <2>2. Oldest(w) \in Deposits
    BY <1>1, <1>2, OldestIsOpen
  <2>3. poll' = [poll EXCEPT ![p] =
                   [@ EXCEPT !.pc = "allowance", !.from = 0, !.log = first,
                             !.todo = todo \ {first}, !.dep = Oldest(w), !.tx = 0]]
    BY <1>2 DEF Proceed
  <2>4. inFlight' = [inFlight EXCEPT ![w] = TRUE] /\ lastSeen' = lastSeen
    BY <1>2 DEF Proceed
  <2> HIDE DEF first
  <2>5. QED
    BY <1>1, <2>1, <2>2, <2>3, <2>4 DEF PollsOK, PollRefersTo, PollRecords, PollStates
<1>3. CASE ~ (todo # {} /\ HasOpen(w))
  <2>1. /\ poll' = [poll EXCEPT ![p] = Idle]
        /\ lastSeen' = [lastSeen EXCEPT ![w] = poll[p].latest]
        /\ \E b \in BOOLEAN : inFlight' = [inFlight EXCEPT ![w] = b]
    BY <1>1, <1>3 DEF Proceed
  <2>2. Idle \in PollRecords /\ Idle.pc = "idle" /\ Idle.todo = {}
    BY DEF Idle, PollRecords, PollStates
  <2>3. poll[p].latest \in Nat
    BY <1>1 DEF PollRecords
  <2>4. QED
    BY <1>1, <2>1, <2>2, <2>3 DEF PollsOK, PollRefersTo
<1>4. QED
  BY <1>2, <1>3

(* stopPolling never makes the number of intervals negative. *)
LEMMA StopPollingTypes ==
  ASSUME WatchersOK, TimerInv, NEW w \in Watchers, StopPolling(w)
  PROVE  /\ timer' \in [Watchers -> BOOLEAN]
         /\ intervals' \in [Watchers -> Nat]
         /\ lastSeen' \in [Watchers -> Nat]
<1>1. timer' \in [Watchers -> BOOLEAN]
  BY DEF WatchersOK, StopPolling
<1>2. intervals' \in [Watchers -> Nat]
  <2>1. CASE timer[w]
    <3>1. intervals[w] > 0 /\ intervals \in [Watchers -> Nat]
      BY <2>1 DEF TimerInv, WatchersOK
    <3>2. intervals' = [intervals EXCEPT ![w] = @ - 1]
      BY <2>1 DEF StopPolling
    <3>3. QED
      BY <3>1, <3>2
  <2>2. CASE ~ timer[w]
    BY <2>2 DEF StopPolling, WatchersOK
  <2>3. QED
    BY <2>1, <2>2
<1>3. lastSeen' \in [Watchers -> Nat]
  BY DEF WatchersOK, StopPolling
<1>4. QED
  BY <1>1, <1>2, <1>3

(* Each action proves the parts of the type invariant that it touches. *)
LEMMA TypeStep == Inv /\ [Next]_vars => TypeOK'
<1> SUFFICES ASSUME Inv, [Next]_vars PROVE TypeOK'
  OBVIOUS
<1> USE DataAssumption DEF TypeOK, vars, plugin, timing, chain
<1>0. CallsOK /\ WatchersOK /\ PollsOK /\ ChainOK
  BY DEF Inv
<1>a. ASSUME NEW p \in Polls, poll[p].pc # "idle"
      PROVE  poll[p] \in PollRecords /\ poll[p].w \in Watchers /\ PollRefersTo(poll[p])
  BY <1>0, <1>a DEF PollsOK, PollRefersTo
<1>1. ASSUME NEW d \in Deposits, RequestDeposit(d) PROVE TypeOK'
  <2>1. CallsOK'
    BY <1>0, <1>1 DEF CallsOK, RequestDeposit, CallStates
  <2>2. QED
    BY <1>0, <1>1, <2>1 DEF RequestDeposit, WatchersOK, PollsOK, PollRefersTo, ChainOK
<1>2. ASSUME NEW d \in Deposits, CreateWatcher(d) PROVE TypeOK'
  <2>1. CallsOK'
    BY <1>0, <1>2 DEF CallsOK, CreateWatcher, CallStates
  <2>2. QED
    BY <1>0, <1>2, <2>1 DEF CreateWatcher, WatchersOK, PollsOK, PollRefersTo, ChainOK
<1>3. ASSUME NEW d \in Deposits, AddDeposit(d) PROVE TypeOK'
  <2>1. Cardinality({e \in Deposits : createdAt[e] > 0}) + 1 \in Nat
    BY FS_Subset, FS_CardinalityType
  <2>2. chosen[d] \in Watchers
    BY <1>3 DEF Inv, ChosenInv, AddDeposit
  <2>3. height \in Nat
    BY <1>0 DEF ChainOK
  <2>4. CallsOK'
    BY <1>0, <1>3, <2>1, <2>3 DEF CallsOK, AddDeposit, CallStates
  <2>5. WatchersOK'
    BY <1>0, <1>3, <2>2 DEF WatchersOK, AddDeposit
  <2>6. QED
    BY <1>0, <1>3, <2>4, <2>5 DEF AddDeposit, PollsOK, PollRefersTo, ChainOK
<1>4. ASSUME NEW d \in Deposits, SeedCursor(d) PROVE TypeOK'
  <2>1. chosen[d] \in Watchers
    BY <1>4 DEF Inv, ChosenInv, SeedCursor
  <2>2. Seed \in Nat /\ height \in Nat
    BY <1>0 DEF ChainOK, Seed, Larger
  <2>3. CallsOK'
    BY <1>0, <1>4, <2>2 DEF CallsOK, SeedCursor, CallStates
  <2>4. WatchersOK'
    BY <1>0, <1>4, <2>1, <2>2 DEF WatchersOK, SeedCursor
  <2>5. QED
    BY <1>0, <1>4, <2>3, <2>4 DEF SeedCursor, PollsOK, PollRefersTo, ChainOK
<1>5. ASSUME NEW d \in Deposits, SeedFails(d) PROVE TypeOK'
  <2>1. CallsOK'
    BY <1>0, <1>5 DEF CallsOK, SeedFails, CallStates
  <2>2. QED
    BY <1>0, <1>5, <2>1 DEF SeedFails, Fault, WatchersOK, PollsOK, PollRefersTo, ChainOK
<1>6. ASSUME NEW w \in Watchers, NEW p \in Polls, Tick(w, p) PROVE TypeOK'
  <2>1. CASE HasOpen(w)
    <3> DEFINE q == [Idle EXCEPT !.pc = "height", !.w = w, !.from = lastSeen[w] + 1]
    <3>1. q \in PollRecords /\ PollRefersTo(q)
      <4>1. lastSeen[w] + 1 \in Nat
        BY <1>0 DEF WatchersOK
      <4>2. \A n \in Nat :
              LET r == [Idle EXCEPT !.pc = "height", !.w = w, !.from = n]
              IN  r \in PollRecords /\ PollRefersTo(r)
        BY DEF Idle, PollRecords, PollStates, PollRefersTo
      <4>3. QED
        BY <4>1, <4>2
    <3>2. poll' = [poll EXCEPT ![p] = q]
      BY <1>6, <2>1 DEF Tick
    <3> HIDE DEF q
    <3>3. PollsOK'
      BY <1>0, <1>6, <3>1, <3>2 DEF Tick, PollsOK, PollRefersTo
    <3>4. QED
      BY <1>0, <1>6, <2>1, <3>3 DEF Tick, CallsOK, WatchersOK, ChainOK
  <2>2. CASE ~ HasOpen(w)
    <3>1. WatchersOK'
      <4>1. StopPolling(w)
        BY <1>6, <2>2 DEF Tick
      <4>2. QED
        BY <1>0, <1>6, <4>1, StopPollingTypes DEF Inv, Tick, WatchersOK
    <3>2. QED
      BY <1>0, <1>6, <2>2, <3>1 DEF Tick, CallsOK, PollsOK, PollRefersTo, ChainOK
  <2>3. QED
    BY <2>1, <2>2
<1>7. ASSUME NEW p \in Polls, GetHeight(p) PROVE TypeOK'
  <2>1. height \in Nat
    BY <1>0 DEF ChainOK
  <2>2. PollsOK'
    <3>1. CASE height < poll[p].from
      BY <1>0, <1>7, <3>1 DEF GetHeight, PollsOK, PollRefersTo, Idle, PollRecords, PollStates
    <3>2. CASE ~ (height < poll[p].from)
      <4>1. poll' = [poll EXCEPT ![p] = [@ EXCEPT !.pc = "logs", !.latest = height]]
        BY <1>7, <3>2 DEF GetHeight
      <4>2. poll[p].pc = "height" /\ logs' = logs /\ pulls' = pulls
        BY <1>7 DEF GetHeight
      <4>3. PollsOK /\ poll[p] \in PollRecords /\ PollRefersTo(poll[p])
        BY <1>0 DEF PollsOK
      <4> DEFINE r == [poll[p] EXCEPT !.pc = "logs", !.latest = height]
      <4>4. r \in PollRecords
        BY <2>1, <4>3 DEF PollRecords, PollStates
      <4>5. PollRefersTo(r)
        BY <4>2, <4>3 DEF PollRefersTo, PollRecords
      <4>6. QED
        BY <4>1, <4>2, <4>3, <4>4, <4>5, PollMoves
    <3>3. QED
      BY <3>1, <3>2
  <2>3. QED
    BY <1>0, <1>7, <2>2 DEF GetHeight, CallsOK, WatchersOK, ChainOK
<1>8. ASSUME NEW p \in Polls, GetLogs(p) PROVE TypeOK'
  <2> DEFINE batch == {n \in DOMAIN logs : logs[n].block \in poll[p].from .. poll[p].latest}
  <2>1. batch \in SUBSET DOMAIN logs /\ poll[p].pc # "idle" /\ Proceed(p, batch)
    BY <1>8 DEF GetLogs
  <2> HIDE DEF batch
  <2>2. logs' = logs /\ pulls' = pulls
    BY <1>8 DEF GetLogs
  <2>3. PollsOK' /\ inFlight' \in [Watchers -> BOOLEAN] /\ lastSeen' \in [Watchers -> Nat]
    BY <2>1, <2>2, ProceedTypes
  <2>4. QED
    BY <1>0, <1>8, <2>3 DEF GetLogs, CallsOK, WatchersOK, ChainOK
<1>9. ASSUME NEW p \in Polls, ReadAllowance(p) PROVE TypeOK'
  <2>1. CASE allowance[logs[poll[p].log].owner] < Desired(poll[p])
    <3>1. poll[p].todo \in SUBSET DOMAIN logs /\ poll[p].pc # "idle" /\ Proceed(p, poll[p].todo)
      BY <1>a, <1>9, <2>1 DEF ReadAllowance, PollRefersTo
    <3>2. logs' = logs /\ pulls' = pulls
      BY <1>9 DEF ReadAllowance
    <3>3. PollsOK' /\ inFlight' \in [Watchers -> BOOLEAN] /\ lastSeen' \in [Watchers -> Nat]
      BY <3>1, <3>2, ProceedTypes
    <3>4. QED
      BY <1>0, <1>9, <3>3 DEF ReadAllowance, CallsOK, WatchersOK, ChainOK
  <2>2. CASE ~ (allowance[logs[poll[p].log].owner] < Desired(poll[p]))
    <3>1. PollsOK'
      BY <1>0, <1>9, <2>2 DEF ReadAllowance, PollsOK, PollRefersTo, PollRecords, PollStates
    <3>2. QED
      BY <1>0, <1>9, <2>2, <3>1 DEF ReadAllowance, CallsOK, WatchersOK, ChainOK
  <2>3. QED
    BY <2>1, <2>2
<1>10. ASSUME NEW p \in Polls, TransferFrom(p) PROVE TypeOK'
  <2> DEFINE owner == logs[poll[p].log].owner
             amount == Desired(poll[p])
             entry == [dep |-> poll[p].dep, owner |-> owner, amount |-> amount, told |-> {}]
  <2>1. poll[p].pc = "transfer" /\ poll[p].log \in DOMAIN logs /\ poll[p].dep \in Deposits
    BY <1>a, <1>10 DEF TransferFrom, PollRefersTo
  <2>2. logs[poll[p].log] \in LogEntries
    BY <1>0, <2>1 DEF ChainOK
  <2>3. amount \in Nat /\ entry \in Pulls
    BY <2>1, <2>2 DEF Desired, LogEntries, Pulls
  <2>4. owner \in Owners /\ owner = logs[poll[p].log].owner
    BY <2>2 DEF LogEntries
  <2>5. CASE amount <= allowance[owner] /\ amount <= balance[owner]
    <3>1. /\ height' = height + 1
          /\ allowance' = [allowance EXCEPT ![owner] = @ - amount]
          /\ balance' = [balance EXCEPT ![owner] = @ - amount]
          /\ pulls' = Append(pulls, entry)
          /\ poll' = [poll EXCEPT ![p] = [@ EXCEPT !.pc = "mined", !.tx = Len(pulls) + 1]]
          /\ inFlight' = inFlight
      BY <1>10, <2>5 DEF TransferFrom
    <3> HIDE DEF entry, owner, amount
    <3>2. ChainOK'
      <4>0. allowance[owner] \in Nat /\ balance[owner] \in Nat
        BY <1>0, <2>4 DEF ChainOK
      <4>1. allowance[owner] - amount \in Nat /\ balance[owner] - amount \in Nat
        BY <2>3, <2>5, <4>0
      <4>2. allowance' \in [Owners -> Nat] /\ balance' \in [Owners -> Nat]
        BY <1>0, <3>1, <4>1 DEF ChainOK
      <4>3. pulls' \in Seq(Pulls) /\ height' \in Nat
        BY <1>0, <2>3, <3>1 DEF ChainOK
      <4>4. QED
        BY <1>0, <1>10, <4>2, <4>3 DEF TransferFrom, ChainOK
    <3>3. DOMAIN pulls' = 1 .. Len(pulls) + 1 /\ DOMAIN pulls = 1 .. Len(pulls) /\ Len(pulls) \in Nat
      BY <1>0, <2>3, <3>1 DEF ChainOK
    <3>4. PollsOK'
      <4>1. logs' = logs
        BY <1>10 DEF TransferFrom
      <4>2. poll[p] \in PollRecords /\ PollRefersTo(poll[p])
        BY <1>0 DEF PollsOK
      <4> DEFINE n == Len(pulls) + 1
                 r == poll[p]
      <4>3. poll'[p] = [r EXCEPT !.pc = "mined", !.tx = n] /\ n \in Nat
        <5>1. poll'[p] = [r EXCEPT !.pc = "mined", !.tx = n]
          BY <1>0, <3>1, Zenon DEF PollsOK
        <5>2. QED
          BY <3>3, <5>1
      <4> HIDE DEF n, r
      <4>9. r \in PollRecords /\ r = poll[p]
        BY <4>2 DEF r
      <4>10. /\ poll'[p] \in PollRecords
             /\ poll'[p].pc = "mined" /\ poll'[p].tx = n /\ poll'[p].w = r.w
             /\ poll'[p].todo = r.todo /\ poll'[p].log = r.log /\ poll'[p].dep = r.dep
        BY <4>3, <4>9 DEF PollRecords, PollStates
      <4>4. PollRefersTo(poll[p])'
        <5>1. r.w \in Watchers /\ r.todo \subseteq DOMAIN logs
          BY <2>1, <4>2, <4>9 DEF PollRefersTo
        <5>2. n \in DOMAIN pulls'
          BY <3>3 DEF n
        <5>3. QED
          BY <2>1, <4>1, <4>9, <4>10, <5>1, <5>2 DEF PollRefersTo
      <4>5. \A q \in Polls : q # p => poll'[q] = poll[q]
        BY <1>0, <3>1 DEF PollsOK
      <4>6. \A q \in Polls : PollRefersTo(poll[q])'
        BY <1>0, <3>3, <4>1, <4>4, <4>5 DEF PollsOK, PollRefersTo
      <4>7. poll' \in [Polls -> PollRecords]
        BY <1>0, <3>1, <4>10 DEF PollsOK
      <4>8. QED
        BY <4>6, <4>7 DEF PollsOK
    <3>5. QED
      BY <1>0, <1>10, <3>1, <3>2, <3>4 DEF TransferFrom, CallsOK, WatchersOK
  <2>6. CASE ~ (amount <= allowance[owner] /\ amount <= balance[owner])
    <3>1. Abort(p) /\ UNCHANGED <<height, allowance, balance, pulls>>
      BY <1>10, <2>6 DEF TransferFrom
    <3>2. PollsOK' /\ WatchersOK'
      BY <1>0, <1>a, <1>10, <2>1, <3>1
      DEF TransferFrom, Abort, PollsOK, WatchersOK, PollRefersTo, Idle, PollRecords, PollStates
    <3>3. QED
      BY <1>0, <1>10, <3>1, <3>2 DEF TransferFrom, CallsOK, ChainOK
  <2>7. QED
    BY <2>5, <2>6
<1>11. ASSUME NEW p \in Polls, Settle(p) PROVE TypeOK'
  <2>1. poll[p].w \in Watchers
    BY <1>a, <1>11 DEF Settle
  <2>2. WatchersOK'
    <3> DEFINE left == Remove(open[poll[p].w], poll[p].dep)
    <3>1. left \in SUBSET Deposits
      BY <1>0, <2>1 DEF WatchersOK, Remove
    <3>2. /\ open' = [open EXCEPT ![poll[p].w] = left]
          /\ StopPolling(poll[p].w) \/ UNCHANGED timing
          /\ inFlight' = inFlight
      BY <1>11 DEF Settle
    <3> HIDE DEF left
    <3>3. QED
      BY <1>0, <2>1, <3>1, <3>2, StopPollingTypes DEF Inv, WatchersOK
  <2>3. PollsOK'
    BY <1>0, <1>11 DEF Settle, PollsOK, PollRefersTo, PollRecords, PollStates
  <2>4. QED
    BY <1>0, <1>11, <2>2, <2>3 DEF Settle, CallsOK, ChainOK
<1>12. ASSUME NEW p \in Polls, Report(p) PROVE TypeOK'
  <2>1. /\ poll[p].todo \in SUBSET DOMAIN logs /\ poll[p].pc # "idle"
        /\ poll[p].tx \in DOMAIN pulls /\ Proceed(p, poll[p].todo)
    BY <1>a, <1>12 DEF Report, PollRefersTo
  <2>2. PICK told \in SUBSET {"hook", "import"} :
          /\ pulls' = [pulls EXCEPT ![poll[p].tx].told = @ \cup told]
          /\ IF told = {"hook", "import"} THEN UNCHANGED faults ELSE Fault
    BY <1>12 DEF Report
  <2>3. pulls' \in Seq(Pulls) /\ DOMAIN pulls' = DOMAIN pulls
    <3>1. pulls \in Seq(Pulls)
      BY <1>0 DEF ChainOK
    <3>2. [pulls[poll[p].tx] EXCEPT !.told = @ \cup told] \in Pulls
      <4>1. pulls[poll[p].tx] \in Pulls
        BY <2>1, <3>1
      <4>2. pulls[poll[p].tx].told \cup told \in SUBSET {"hook", "import"}
        BY <2>2, <4>1 DEF Pulls
      <4>3. QED
        BY <4>1, <4>2, ToldPull
    <3>3. pulls' = [pulls EXCEPT ![poll[p].tx] = [pulls[poll[p].tx] EXCEPT !.told = @ \cup told]]
      BY <2>2
    <3>4. QED
      BY <2>1, <3>1, <3>2, <3>3
  <2>4. PollsOK' /\ inFlight' \in [Watchers -> BOOLEAN] /\ lastSeen' \in [Watchers -> Nat]
    BY <1>12, <2>1, <2>3, ProceedTypes DEF Report
  <2>5. faults' \in Nat
    BY <1>0, <2>2 DEF Fault, ChainOK
  <2>6. ChainOK'
    BY <1>0, <1>12, <2>3, <2>5 DEF Report, ChainOK
  <2>7. WatchersOK'
    BY <1>0, <1>12, <2>4 DEF Report, WatchersOK
  <2>8. QED
    BY <1>0, <1>12, <2>4, <2>6, <2>7 DEF Report, CallsOK
<1>13. ASSUME NEW p \in Polls, PollFails(p) PROVE TypeOK'
  <2>1. poll[p].w \in Watchers
    BY <1>a, <1>13 DEF PollFails
  <2>2. PollsOK' /\ WatchersOK'
    BY <1>0, <1>13, <2>1
    DEF PollFails, Abort, PollsOK, WatchersOK, PollRefersTo, Idle, PollRecords, PollStates
  <2>3. QED
    BY <1>0, <1>13, <2>2 DEF PollFails, Fault, CallsOK, ChainOK
<1>14. ASSUME NEW o \in Owners, NEW v \in Values, Approve(o, v) PROVE TypeOK'
  <2> DEFINE mine == {d \in Deposits : Investor[d] = o /\ Waiting(d)}
             entry == [block |-> height + 1, owner |-> o, value |-> v,
                       dep |-> IF mine = {} THEN None ELSE CHOOSE d \in mine : TRUE]
  <2>1. entry \in LogEntries
    BY <1>0 DEF ChainOK, LogEntries
  <2>2. logs' = Append(logs, entry)
    BY <1>14 DEF Approve
  <2> HIDE DEF entry
  <2>3. logs' \in Seq(LogEntries) /\ DOMAIN logs \subseteq DOMAIN logs'
    BY <1>0, <2>1, <2>2 DEF ChainOK
  <2>4. ChainOK'
    BY <1>0, <1>14, <2>3 DEF Approve, ChainOK
  <2>5. PollsOK'
    BY <1>0, <1>14, <2>3 DEF Approve, PollsOK, PollRefersTo
  <2>6. QED
    BY <1>0, <1>14, <2>4, <2>5 DEF Approve, CallsOK, WatchersOK
<1>15. CASE EmptyBlock
  BY <1>0, <1>15 DEF EmptyBlock, CallsOK, WatchersOK, PollsOK, PollRefersTo, ChainOK
<1>16. CASE Crash
  <2>1. CallsOK'
    BY <1>0, <1>16 DEF Crash, CallsOK, CallStates
  <2>2. WatchersOK'
    BY <1>0, <1>16 DEF Crash, WatchersOK
  <2>3. PollsOK'
    BY <1>0, <1>16 DEF Crash, PollsOK, PollRefersTo, Idle, PollRecords, PollStates
  <2>4. ChainOK'
    BY <1>0, <1>16 DEF Crash, ChainOK
  <2>5. QED
    BY <2>1, <2>2, <2>3, <2>4
<1>17. CASE UNCHANGED vars
  BY <1>0, <1>17 DEF CallsOK, WatchersOK, PollsOK, PollRefersTo, ChainOK
<1>18. QED
  BY <1>1, <1>2, <1>3, <1>4, <1>5, <1>6, <1>7, <1>8, <1>9, <1>10, <1>11, <1>12, <1>13, <1>14, <1>15,
     <1>16, <1>17 DEF Next, CallStep, PollStep

-----------------------------------------------------------------------------
(* The other parts of the invariant.  Only an action that writes one of the
   variables it speaks of can disturb a part. *)
LEMMA ChosenStep == Inv /\ [Next]_vars => ChosenInv'
<1> SUFFICES ASSUME Inv, [Next]_vars PROVE ChosenInv'
  OBVIOUS
<1> USE DataAssumption DEF ChosenInv, vars, plugin, timing, chain
<1>0. CallsOK /\ WatchersOK /\ ChosenInv
  BY DEF Inv, TypeOK
<1>1. ASSUME NEW d \in Deposits, RequestDeposit(d) PROVE ChosenInv'
  BY <1>0, <1>1 DEF RequestDeposit, CallsOK, WatchersOK
<1>2. ASSUME NEW d \in Deposits, CreateWatcher(d) PROVE ChosenInv'
  BY <1>0, <1>2 DEF CreateWatcher, CallsOK, WatchersOK
<1>3. ASSUME NEW d \in Deposits, AddDeposit(d) PROVE ChosenInv'
  BY <1>0, <1>3 DEF AddDeposit, CallsOK, WatchersOK
<1>4. ASSUME NEW d \in Deposits, SeedCursor(d) PROVE ChosenInv'
  BY <1>0, <1>4 DEF SeedCursor, CallsOK, WatchersOK
<1>5. ASSUME NEW d \in Deposits, SeedFails(d) PROVE ChosenInv'
  BY <1>0, <1>5 DEF SeedFails, CallsOK, WatchersOK
<1>6. ASSUME NEW p \in Polls, Settle(p) PROVE ChosenInv'
  BY <1>0, <1>6 DEF Settle, Remove, CallsOK, WatchersOK
<1>7. CASE Crash
  BY <1>0, <1>7 DEF Crash, CallsOK, WatchersOK
<1>8. CASE UNCHANGED <<call, chosen, open>>
  BY <1>0, <1>8
<1>9. QED
  BY <1>1, <1>2, <1>3, <1>4, <1>5, <1>6, <1>7, <1>8
  DEF Next, CallStep, PollStep, Tick, GetHeight, GetLogs, ReadAllowance, TransferFrom, Report,
      PollFails, Approve, EmptyBlock

LEMMA OneOpenStep == Inv /\ [Next]_vars => OneOpenPerWatcher'
<1> SUFFICES ASSUME Inv, [Next]_vars PROVE OneOpenPerWatcher'
  OBVIOUS
<1> USE DEF OneOpenPerWatcher, vars, plugin, timing, chain
<1>0. WatchersOK /\ OneOpenPerWatcher
  BY DEF Inv, TypeOK
<1>1. ASSUME NEW d \in Deposits, AddDeposit(d) PROVE OneOpenPerWatcher'
  BY <1>0, <1>1 DEF AddDeposit, HasOpen, WatchersOK
<1>2. ASSUME NEW p \in Polls, Settle(p) PROVE OneOpenPerWatcher'
  BY <1>0, <1>2 DEF Settle, Remove, WatchersOK
<1>3. CASE Crash
  BY <1>3 DEF Crash
<1>4. CASE UNCHANGED open
  BY <1>0, <1>4
<1>5. QED
  BY <1>1, <1>2, <1>3, <1>4
  DEF Next, CallStep, PollStep, RequestDeposit, CreateWatcher, SeedCursor, SeedFails, Tick, GetHeight,
      GetLogs, ReadAllowance, TransferFrom, Report, PollFails, Approve, EmptyBlock

LEMMA TimerStep == Inv /\ [Next]_vars => TimerInv'
<1> SUFFICES ASSUME Inv, [Next]_vars PROVE TimerInv'
  OBVIOUS
<1> USE DataAssumption DEF TimerInv, vars, plugin, timing, chain
<1>0. CallsOK /\ WatchersOK /\ ChosenInv /\ TimerInv
  BY DEF Inv, TypeOK
<1>1. ASSUME NEW d \in Deposits, RequestDeposit(d) PROVE TimerInv'
  BY <1>0, <1>1 DEF RequestDeposit, CallsOK, WatchersOK
<1>2. ASSUME NEW d \in Deposits, CreateWatcher(d) PROVE TimerInv'
  BY <1>0, <1>2 DEF CreateWatcher, CallsOK, WatchersOK
<1>3. ASSUME NEW d \in Deposits, AddDeposit(d) PROVE TimerInv'
  <2>1. chosen[d] \in Watchers /\ \A w \in Watchers : d \in open[w] => call[d] # "adding"
    BY <1>0, <1>3 DEF AddDeposit, ChosenInv
  <2>2. timer' = timer /\ intervals' = intervals
    BY <1>3 DEF AddDeposit
  <2>3. CASE HasOpen(chosen[d])
    <3>1. call' = [call EXCEPT ![d] = "rejected"] /\ open' = open
      BY <1>3, <2>3 DEF AddDeposit
    <3>2. \A e \in Deposits : call'[e] = "accepted" => call[e] = "accepted"
      BY <1>0, <3>1 DEF CallsOK
    <3>3. \A w \in Watchers : open[w] \subseteq Deposits
      BY <1>0 DEF WatchersOK
    <3>4. QED
      BY <1>0, <2>2, <3>1, <3>2, <3>3
  <2>4. CASE ~ HasOpen(chosen[d])
    <3>1. open' = [open EXCEPT ![chosen[d]] = @ \cup {d}]
      BY <1>3, <2>4 DEF AddDeposit
    <3>2. \A e \in Deposits : e # d => call'[e] = call[e]
      BY <1>0, <1>3, <2>4 DEF AddDeposit, CallsOK
    <3>3. call'[d] = "accepted" => timer[chosen[d]]
      BY <1>0, <1>3, <2>4 DEF AddDeposit, Polling, CallsOK
    <3>4. \A w \in Watchers : d \in open'[w] => w = chosen[d]
      BY <1>0, <1>3, <2>1, <3>1 DEF WatchersOK, ChosenInv, AddDeposit
    <3>5. \A w \in Watchers : \A e \in open'[w] : e # d => e \in open[w] /\ e \in Deposits
      BY <1>0, <2>1, <3>1 DEF WatchersOK
    <3>6. QED
      BY <1>0, <2>2, <3>2, <3>3, <3>4, <3>5
  <2>5. QED
    BY <2>3, <2>4
<1>4. ASSUME NEW d \in Deposits, SeedCursor(d) PROVE TimerInv'
  <2>1. chosen[d] \in Watchers /\ \A w \in Watchers : d \in open[w] => w = chosen[d]
    BY <1>0, <1>4 DEF SeedCursor, ChosenInv
  <2>2. /\ timer' = [timer EXCEPT ![chosen[d]] = TRUE]
        /\ intervals' = [intervals EXCEPT ![chosen[d]] = @ + 1]
        /\ call' = [call EXCEPT ![d] = "accepted"]
        /\ open' = open
    BY <1>4 DEF SeedCursor
  <2>3. \A w \in Watchers : timer'[w] => intervals'[w] > 0
    BY <1>0, <2>1, <2>2 DEF WatchersOK
  <2>4. \A w \in Watchers : \A e \in open'[w] : call'[e] = "accepted" => timer'[w]
    BY <1>0, <2>1, <2>2 DEF WatchersOK, CallsOK
  <2>5. QED
    BY <2>3, <2>4
<1>5. ASSUME NEW d \in Deposits, SeedFails(d) PROVE TimerInv'
  BY <1>0, <1>5 DEF SeedFails, CallsOK, WatchersOK
<1>6. ASSUME NEW w \in Watchers, StopPolling(w), open'[w] = {}, call' = call,
             \A v \in Watchers : v # w => open'[v] = open[v]
      PROVE  TimerInv'
  <2>1. \A v \in Watchers : timer'[v] => intervals'[v] > 0
    <3>1. SUFFICES ASSUME NEW v \in Watchers, timer'[v] PROVE intervals'[v] > 0
      OBVIOUS
    <3>2. v # w /\ timer[v]
      BY <1>0, <1>6, <3>1 DEF StopPolling, WatchersOK
    <3>3. QED
      BY <1>0, <1>6, <3>2 DEF StopPolling, WatchersOK
  <2>2. \A v \in Watchers : v # w => timer'[v] = timer[v]
    BY <1>0, <1>6 DEF StopPolling, WatchersOK
  <2>3. \A v \in Watchers : \A e \in open'[v] : call'[e] = "accepted" => timer'[v]
    BY <1>0, <1>6, <2>2
  <2>4. QED
    BY <2>1, <2>3
<1>7. ASSUME NEW w \in Watchers, NEW p \in Polls, Tick(w, p) PROVE TimerInv'
  <2>1. CASE HasOpen(w)
    BY <1>0, <1>7, <2>1 DEF Tick
  <2>2. CASE ~ HasOpen(w)
    BY <1>6, <1>7, <2>2 DEF Tick, HasOpen
  <2>3. QED
    BY <2>1, <2>2
<1>8. ASSUME NEW p \in Polls, Settle(p) PROVE TimerInv'
  <2> DEFINE w == poll[p].w
             left == Remove(open[w], poll[p].dep)
  <2>1. w \in Watchers
    BY <1>8 DEF Inv, TypeOK, PollsOK, PollRefersTo, Settle
  <2>2. open' = [open EXCEPT ![w] = left] /\ call' = call /\ left \subseteq open[w]
    BY <1>8 DEF Settle, Remove
  <2>3. CASE left = {}
    <3>1. StopPolling(w)
      BY <1>8, <2>3 DEF Settle
    <3>2. open'[w] = {} /\ \A v \in Watchers : v # w => open'[v] = open[v]
      BY <1>0, <2>1, <2>2, <2>3 DEF WatchersOK
    <3>3. QED
      BY <1>6, <2>1, <2>2, <3>1, <3>2
  <2>4. CASE left # {}
    <3>1. timer' = timer /\ intervals' = intervals
      BY <1>8, <2>4 DEF Settle
    <3>2. \A v \in Watchers : open'[v] \subseteq open[v]
      BY <1>0, <2>1, <2>2 DEF WatchersOK
    <3>3. QED
      BY <1>0, <2>2, <3>1, <3>2
  <2>5. QED
    BY <2>3, <2>4
<1>9. CASE Crash
  BY <1>9 DEF Crash
<1>10. CASE UNCHANGED <<call, open, timer, intervals>>
  BY <1>0, <1>10
<1>11. QED
  BY <1>1, <1>2, <1>3, <1>4, <1>5, <1>7, <1>8, <1>9, <1>10
  DEF Next, CallStep, PollStep, GetHeight, GetLogs, ReadAllowance, TransferFrom, Report, PollFails,
      Approve, EmptyBlock

LEMMA TxStep == Inv /\ [Next]_vars => TxInv'
<1> SUFFICES ASSUME Inv, [Next]_vars, NEW p \in Polls, poll'[p].pc \in {"mined", "report"}
             PROVE  pulls'[poll'[p].tx].dep = poll'[p].dep
  BY DEF TxInv
<1> USE DEF TxInv, vars, plugin, timing, chain
<1>0. PollsOK /\ ChainOK /\ TxInv
  BY DEF Inv, TypeOK
<1>1. Idle.pc = "idle"
  BY DEF Idle
<1>2. CASE poll'[p] = poll[p]
  <2>1. poll[p].tx \in DOMAIN pulls /\ pulls[poll[p].tx].dep = poll[p].dep
    BY <1>0, <1>2 DEF PollsOK, PollRefersTo
  <2>2. ASSUME NEW q \in Polls, TransferFrom(q)
        PROVE  pulls'[poll[p].tx] = pulls[poll[p].tx]
    <3>1. pulls' = pulls \/ \E e : pulls' = Append(pulls, e)
      BY <2>2 DEF TransferFrom
    <3>2. ASSUME NEW e, pulls' = Append(pulls, e) PROVE pulls'[poll[p].tx] = pulls[poll[p].tx]
      BY <1>0, <2>1, <3>2 DEF ChainOK
    <3>3. QED
      BY <3>1, <3>2
  <2>3. ASSUME NEW q \in Polls, Report(q)
        PROVE  pulls'[poll[p].tx].dep = pulls[poll[p].tx].dep
    <3>1. PICK told : pulls' = [pulls EXCEPT ![poll[q].tx].told = @ \cup told]
      BY <2>3 DEF Report
    <3>2. pulls[poll[p].tx] \in Pulls
      BY <1>0, <2>1 DEF ChainOK
    <3>3. CASE poll[q].tx # poll[p].tx
      BY <2>1, <3>1, <3>3
    <3>4. CASE poll[q].tx = poll[p].tx
      <4>1. pulls'[poll[p].tx] = [pulls[poll[p].tx] EXCEPT !.told = @ \cup told]
        BY <2>1, <3>1, <3>4
      <4> QED
        BY <3>2, <4>1 DEF Pulls
    <3>5. QED
      BY <3>3, <3>4
  <2>4. CASE UNCHANGED pulls
    BY <1>2, <2>1, <2>4
  <2>5. QED
    BY <1>2, <2>1, <2>2, <2>3, <2>4
    DEF Next, CallStep, PollStep, RequestDeposit, CreateWatcher, AddDeposit, SeedCursor, SeedFails,
        Tick, GetHeight, GetLogs, ReadAllowance, Settle, PollFails, Approve, EmptyBlock, Crash
<1>3. CASE poll'[p] # poll[p]
  <2>1. ASSUME NEW w \in Watchers, NEW q \in Polls, Tick(w, q) PROVE FALSE
    BY <1>0, <1>3, <2>1 DEF Tick, Idle, PollsOK
  <2>2. ASSUME NEW q \in Polls, GetHeight(q) PROVE FALSE
    BY <1>0, <1>1, <1>3, <2>2 DEF GetHeight, PollsOK, PollRecords
  <2>3. ASSUME NEW q \in Polls, NEW todo, Proceed(q, todo) PROVE FALSE
    <3>1. PICK r : poll' = [poll EXCEPT ![q] = r] /\ r.pc \notin {"mined", "report"}
      <4>1. CASE todo # {} /\ HasOpen(poll[q].w)
        <5> DEFINE first == CHOOSE n \in todo : \A m \in todo : n <= m
                   r == [poll[q] EXCEPT !.pc = "allowance", !.from = 0, !.log = first, !.todo = todo \ {first},
                                        !.dep = Oldest(poll[q].w), !.tx = 0]
        <5>1. poll' = [poll EXCEPT ![q] = r]
          BY <2>3, <4>1 DEF Proceed
        <5>2. r.pc = "allowance"
          BY <1>0 DEF PollsOK, PollRecords
        <5> QED
          BY <5>1, <5>2
      <4>2. CASE ~(todo # {} /\ HasOpen(poll[q].w))
        BY <1>1, <2>3, <4>2 DEF Proceed
      <4> QED
        BY <4>1, <4>2
    <3>2. q = p => poll'[p] = r
      BY <1>0, <3>1 DEF PollsOK
    <3>3. q # p => poll'[p] = poll[p]
      BY <1>0, <3>1 DEF PollsOK
    <3> QED
      BY <1>3, <3>1, <3>2, <3>3
  <2>4. ASSUME NEW q \in Polls, ReadAllowance(q) PROVE FALSE
    BY <1>0, <1>3, <2>3, <2>4 DEF ReadAllowance, PollsOK, PollRecords
  <2>5. ASSUME NEW q \in Polls, TransferFrom(q) PROVE pulls'[poll'[p].tx].dep = poll'[p].dep
    <3> DEFINE entry == [dep |-> poll[q].dep, owner |-> logs[poll[q].log].owner,
                         amount |-> Desired(poll[q]), told |-> {}]
    <3>1. q = p /\ pulls' = Append(pulls, entry)
            /\ poll' = [poll EXCEPT ![q] = [@ EXCEPT !.pc = "mined", !.tx = Len(pulls) + 1]]
      BY <1>0, <1>1, <1>3, <2>5 DEF TransferFrom, Abort, PollsOK
    <3>2. poll'[p].tx = Len(pulls) + 1 /\ poll'[p].dep = poll[p].dep
      BY <1>0, <3>1 DEF PollsOK, PollRecords
    <3>3. pulls'[Len(pulls) + 1] = entry
      BY <1>0, <3>1 DEF ChainOK
    <3>4. QED
      BY <3>1, <3>2, <3>3
  <2>6. ASSUME NEW q \in Polls, Settle(q) PROVE pulls'[poll'[p].tx].dep = poll'[p].dep
    <3>1. q = p /\ pulls' = pulls /\ poll[q].pc = "mined" /\ poll' = [poll EXCEPT ![q].pc = "report"]
      BY <1>0, <1>3, <2>6 DEF Settle, PollsOK
    <3>2. poll'[p].tx = poll[p].tx /\ poll'[p].dep = poll[p].dep
      BY <1>0, <3>1 DEF PollsOK, PollRecords
    <3>3. QED
      BY <1>0, <3>1, <3>2
  <2>7. ASSUME NEW q \in Polls, PollFails(q) PROVE FALSE
    BY <1>0, <1>1, <1>3, <2>7 DEF PollFails, Abort, PollsOK
  <2>8. CASE Crash
    BY <1>1, <2>8 DEF Crash
  <2>9. QED
    BY <1>3, <2>1, <2>2, <2>3, <2>4, <2>5, <2>6, <2>7, <2>8
    DEF Next, CallStep, PollStep, RequestDeposit, CreateWatcher, AddDeposit, SeedCursor, SeedFails,
        GetLogs, Report, Approve, EmptyBlock
<1>4. QED
  BY <1>2, <1>3

LEMMA KeptStep == Inv /\ [Next]_vars => KeptInv'
<1> SUFFICES ASSUME Inv, [Next]_vars, NEW d \in Deposits, call'[d] \in {"seeding", "accepted"}
             PROVE  (Waiting(d) \/ Pulled(d) \/ d \in lost)'
  BY DEF KeptInv
<1> USE DEF KeptInv, Waiting, Pulled, vars, plugin, timing, chain
<1>0. CallsOK /\ WatchersOK /\ PollsOK /\ ChainOK /\ TxInv /\ KeptInv
  BY DEF Inv, TypeOK
<1>1. ASSUME NEW e \in Deposits, AddDeposit(e) PROVE (Waiting(d) \/ Pulled(d) \/ d \in lost)'
  <2>1. chosen[e] \in Watchers /\ pulls' = pulls /\ lost' = lost
    BY <1>1 DEF Inv, ChosenInv, AddDeposit
  <2>2. \A w \in Watchers : open[w] \subseteq open'[w]
    BY <1>0, <1>1, <2>1 DEF AddDeposit, WatchersOK
  <2>3. CASE d = e /\ ~ HasOpen(chosen[e])
    <3>1. d \in open'[chosen[e]]
      BY <1>0, <1>1, <2>1, <2>3 DEF AddDeposit, WatchersOK
    <3>2. QED
      BY <2>1, <3>1
  <2>4. CASE ~ (d = e /\ ~ HasOpen(chosen[e]))
    <3>1. call[d] \in {"seeding", "accepted"}
      BY <1>0, <1>1, <2>4 DEF AddDeposit, CallsOK
    <3>2. QED
      BY <1>0, <2>1, <2>2, <3>1
  <2>5. QED
    BY <2>3, <2>4
<1>2. ASSUME NEW p \in Polls, Settle(p) PROVE (Waiting(d) \/ Pulled(d) \/ d \in lost)'
  <2>1. /\ call' = call /\ pulls' = pulls /\ lost' = lost
        /\ open' = [open EXCEPT ![poll[p].w] = @ \ {poll[p].dep}]
    BY <1>2 DEF Settle, Remove
  <2>2. poll[p].tx \in DOMAIN pulls /\ pulls[poll[p].tx].dep = poll[p].dep
    BY <1>0, <1>2 DEF Settle, TxInv, PollsOK, PollRefersTo
  <2>3. CASE d = poll[p].dep
    BY <2>1, <2>2, <2>3
  <2>4. CASE d # poll[p].dep
    <3>1. \A w \in Watchers : d \in open[w] => d \in open'[w]
      BY <1>0, <2>1, <2>4 DEF WatchersOK
    <3>2. QED
      BY <1>0, <2>1, <3>1
  <2>5. QED
    BY <2>3, <2>4
<1>3. CASE Crash
  <2>1. call[d] = "accepted" /\ pulls' = pulls /\ lost' = lost \cup {e \in Deposits : Waiting(e)}
    BY <1>0, <1>3 DEF Crash, CallsOK
  <2>2. QED
    BY <1>0, <2>1
<1>4. ASSUME UNCHANGED <<open, lost>>,
             call[d] \in {"seeding", "accepted"},
             \A n \in DOMAIN pulls : n \in DOMAIN pulls' /\ pulls'[n].dep = pulls[n].dep
      PROVE  (Waiting(d) \/ Pulled(d) \/ d \in lost)'
  BY <1>0, <1>4
<1>5. ASSUME NEW p \in Polls, TransferFrom(p) PROVE (Waiting(d) \/ Pulled(d) \/ d \in lost)'
  <2>1. pulls' = pulls \/ \E e : pulls' = Append(pulls, e)
    BY <1>5 DEF TransferFrom
  <2>2. \A n \in DOMAIN pulls : n \in DOMAIN pulls' /\ pulls'[n].dep = pulls[n].dep
    <3>1. ASSUME NEW e, pulls' = Append(pulls, e)
          PROVE  \A n \in DOMAIN pulls : n \in DOMAIN pulls' /\ pulls'[n] = pulls[n]
      <4> DEFINE S == Pulls \cup {e}
      <4>1. pulls \in Seq(S) /\ e \in S
        BY <1>0 DEF ChainOK
      <4> HIDE DEF S
      <4>2. QED
        BY <3>1, <4>1
    <3>2. QED
      BY <2>1, <3>1
  <2>3. QED
    BY <1>4, <1>5, <2>2 DEF TransferFrom
<1>6. ASSUME NEW p \in Polls, Report(p) PROVE (Waiting(d) \/ Pulled(d) \/ d \in lost)'
  <2>1. PICK told : pulls' = [pulls EXCEPT ![poll[p].tx].told = @ \cup told]
    BY <1>6 DEF Report
  <2>2. \A n \in DOMAIN pulls : pulls[n] \in Pulls
    BY <1>0 DEF ChainOK
  <2>3. \A n \in DOMAIN pulls : n \in DOMAIN pulls' /\ pulls'[n].dep = pulls[n].dep
    BY <2>1, <2>2 DEF Pulls
  <2>4. QED
    BY <1>4, <1>6, <2>3 DEF Report
<1>7. ASSUME NEW e \in Deposits, RequestDeposit(e) \/ CreateWatcher(e) \/ SeedCursor(e) \/ SeedFails(e)
      PROVE  (Waiting(d) \/ Pulled(d) \/ d \in lost)'
  <2>1. call[d] \in {"seeding", "accepted"}
    BY <1>0, <1>7 DEF RequestDeposit, CreateWatcher, SeedCursor, SeedFails, CallsOK
  <2>2. QED
    BY <1>4, <1>7, <2>1 DEF RequestDeposit, CreateWatcher, SeedCursor, SeedFails
<1>8. CASE UNCHANGED <<call, open, lost, pulls>>
  BY <1>4, <1>8
<1>9. QED
  BY <1>1, <1>2, <1>3, <1>5, <1>6, <1>7, <1>8
  DEF Next, CallStep, PollStep, Tick, GetHeight, GetLogs, ReadAllowance, PollFails, Approve, EmptyBlock

-----------------------------------------------------------------------------
LEMMA Invariance == Spec => []Inv
<1>1. Inv /\ [Next]_vars => Inv'
  BY TypeStep, ChosenStep, OneOpenStep, TimerStep, TxStep, KeptStep DEF Inv
<1>2. QED
  BY InitInv, <1>1, PTL DEF Spec

(* The variables keep their types, and polls refer to things that exist. *)
THEOREM TypeCorrect == Spec => []TypeOK
<1>1. Inv => TypeOK
  BY DEF Inv
<1>2. QED
  BY Invariance, <1>1, PTL

(* One watcher never has two open deposits of the contract: the check of
   addDeposit (approval-watcher.ts:49-58) is enough, although requests, timers
   and overlapping polls interleave freely between its awaits. *)
THEOREM OneOpen == Spec => []OneOpenPerWatcher
<1>1. Inv => OneOpenPerWatcher
  BY DEF Inv
<1>2. QED
  BY Invariance, <1>1, PTL

(* A deposit the caller was told is accepted stays open until a transferFrom was
   executed for it or the process crashed. *)
THEOREM AcceptedKept == Spec => []AcceptedIsKept
<1>1. Inv => AcceptedIsKept
  BY DEF Inv, KeptInv, AcceptedIsKept
<1>2. QED
  BY Invariance, <1>1, PTL

(* An accepted deposit that is open has a live timer: restarts of the polling
   and stale polls that stop it never leave it unattended. *)
THEOREM AcceptedPolled == Spec => []AcceptedIsPolled
<1>1. Inv => AcceptedIsPolled
  BY DEF Inv, TypeOK, WatchersOK, ChosenInv, TimerInv, AcceptedIsPolled, Waiting
<1>2. QED
  BY Invariance, <1>1, PTL

-----------------------------------------------------------------------------
(***************************************************************************)
(* Reports, and whose wallet pays                                          *)
(***************************************************************************)
(* What a transferFrom does to the pulls: nothing, or one more for the
   deposit in hand, from the owner of the log in hand. *)
LEMMA PullAdded ==
  ASSUME Inv, NEW p \in Polls, TransferFrom(p)
  PROVE  LET owner == logs[poll[p].log].owner
             amount == Desired(poll[p]) IN
         /\ poll[p].log \in DOMAIN logs /\ poll[p].dep \in Deposits /\ owner \in Owners /\ amount \in Nat
         /\ \/ /\ pulls' = pulls /\ allowance' = allowance /\ poll' = [poll EXCEPT ![p] = Idle]
            \/ /\ DOMAIN pulls' = DOMAIN pulls \cup {Len(pulls) + 1}
               /\ Len(pulls) \in Nat /\ DOMAIN pulls = 1..Len(pulls)
               /\ \A n \in DOMAIN pulls : pulls'[n] = pulls[n]
               /\ pulls'[Len(pulls) + 1].dep = poll[p].dep /\ pulls'[Len(pulls) + 1].owner = owner
               /\ allowance[owner] \in Nat /\ amount <= allowance[owner]
               /\ allowance' = [allowance EXCEPT ![owner] = @ - amount]
               /\ poll'[p].pc = "mined" /\ poll'[p].tx = Len(pulls) + 1 /\ poll'[p].dep = poll[p].dep
               /\ \A q \in Polls : q # p => poll'[q] = poll[q]
<1> DEFINE owner == logs[poll[p].log].owner
           amount == Desired(poll[p])
           e == [dep |-> poll[p].dep, owner |-> owner, amount |-> amount, told |-> {}]
<1>1. /\ poll \in [Polls -> PollRecords] /\ poll[p].log \in DOMAIN logs /\ poll[p].dep \in Deposits
      /\ logs \in Seq(LogEntries) /\ pulls \in Seq(Pulls) /\ allowance \in [Owners -> Nat]
  BY DEF Inv, TypeOK, PollsOK, PollRefersTo, ChainOK, TransferFrom
<1>2. logs[poll[p].log] \in LogEntries
  BY <1>1
<1>3. owner \in Owners /\ amount \in Nat
  BY <1>1, <1>2, DataAssumption DEF LogEntries, Desired
<1>4. CASE amount <= allowance[owner] /\ amount <= balance[owner]
  <2>1. /\ pulls' = Append(pulls, e) /\ allowance' = [allowance EXCEPT ![owner] = @ - amount]
        /\ poll' = [poll EXCEPT ![p] = [@ EXCEPT !.pc = "mined", !.tx = Len(pulls) + 1]]
    BY <1>4 DEF TransferFrom
  <2>2. e \in Pulls /\ e.dep = poll[p].dep /\ e.owner = owner
    BY <1>1, <1>3 DEF Pulls
  <2> HIDE DEF e, owner, amount
  <2>3. /\ DOMAIN pulls' = DOMAIN pulls \cup {Len(pulls) + 1}
        /\ Len(pulls) \in Nat /\ DOMAIN pulls = 1..Len(pulls)
        /\ \A n \in DOMAIN pulls : pulls'[n] = pulls[n]
        /\ pulls'[Len(pulls) + 1] = e
    BY <1>1, <2>1, <2>2
  <2>4. poll'[p] = [poll[p] EXCEPT !.pc = "mined", !.tx = Len(pulls) + 1]
        /\ \A q \in Polls : q # p => poll'[q] = poll[q]
    BY <1>1, <2>1
  <2>5. poll'[p].pc = "mined" /\ poll'[p].tx = Len(pulls) + 1 /\ poll'[p].dep = poll[p].dep
    BY <1>1, <2>4 DEF PollRecords
  <2>6. allowance[owner] \in Nat
    BY <1>1, <1>3
  <2> QED
    BY <1>1, <1>3, <1>4, <2>1, <2>2, <2>3, <2>4, <2>5, <2>6 DEF owner, amount
<1>5. CASE ~(amount <= allowance[owner] /\ amount <= balance[owner])
  BY <1>1, <1>3, <1>5 DEF TransferFrom, Abort
<1> QED BY <1>4, <1>5

(* What a report does to the pulls. *)
LEMMA PullTold ==
  ASSUME Inv, NEW p \in Polls, NEW t \in SUBSET {"hook", "import"},
         pulls' = [pulls EXCEPT ![poll[p].tx].told = @ \cup t]
  PROVE  /\ DOMAIN pulls' = DOMAIN pulls
         /\ \A n \in DOMAIN pulls :
              /\ pulls'[n].dep = pulls[n].dep /\ pulls'[n].owner = pulls[n].owner
              /\ pulls'[n].told = IF n = poll[p].tx THEN pulls[n].told \cup t ELSE pulls[n].told
<1> SUFFICES ASSUME NEW n \in DOMAIN pulls
             PROVE  /\ pulls'[n].dep = pulls[n].dep /\ pulls'[n].owner = pulls[n].owner
                    /\ pulls'[n].told = IF n = poll[p].tx THEN pulls[n].told \cup t ELSE pulls[n].told
  BY DEF Inv, TypeOK, ChainOK
<1>1. pulls[n] \in Pulls
  BY DEF Inv, TypeOK, ChainOK
<1> QED
  BY <1>1 DEF Pulls

(* How a poll moves in the loop. *)
LEMMA LoopMoves ==
  ASSUME Inv, NEW p \in Polls, NEW todo, Proceed(p, todo)
  PROVE  /\ \A q \in Polls : q # p => poll'[q] = poll[q]
         /\ poll'[p].pc \in {"idle", "allowance"}
         /\ poll'[p].pc = "allowance" => HasOpen(poll[p].w) /\ poll'[p].dep = Oldest(poll[p].w)
<1>0. poll \in [Polls -> PollRecords]
  BY DEF Inv, TypeOK, PollsOK
<1>1. CASE todo # {} /\ HasOpen(poll[p].w)
  <2> DEFINE first == CHOOSE n \in todo : \A m \in todo : n <= m
             r == [poll[p] EXCEPT !.pc = "allowance", !.from = 0, !.log = first, !.todo = todo \ {first},
                                  !.dep = Oldest(poll[p].w), !.tx = 0]
  <2>1. poll' = [poll EXCEPT ![p] = r]
    BY <1>1 DEF Proceed
  <2>2. r.pc = "allowance" /\ r.dep = Oldest(poll[p].w)
    BY <1>0 DEF PollRecords
  <2> HIDE DEF r
  <2> QED
    BY <1>0, <1>1, <2>1, <2>2
<1>2. CASE ~(todo # {} /\ HasOpen(poll[p].w))
  <2>1. poll' = [poll EXCEPT ![p] = Idle]
    BY <1>2 DEF Proceed
  <2>2. Idle.pc = "idle"
    BY DEF Idle
  <2> QED
    BY <1>0, <2>1, <2>2
<1> QED BY <1>1, <1>2

LEMMA ToldStep == Inv /\ SettledIsTold /\ [Next]_vars => SettledIsTold'
<1> SUFFICES ASSUME Inv, SettledIsTold, [Next]_vars, faults' = 0, crashes' = 0, NEW n \in DOMAIN pulls'
             PROVE  \/ pulls'[n].told = {"hook", "import"}
                    \/ \E p \in Polls : poll'[p].pc \in {"mined", "report"} /\ poll'[p].tx = n
  BY DEF SettledIsTold
<1> USE DEF vars, plugin, timing, chain
<1>0. poll \in [Polls -> PollRecords] /\ faults \in Nat /\ crashes \in Nat /\ pulls \in Seq(Pulls)
  BY DEF Inv, TypeOK, PollsOK, ChainOK
<1>1. ASSUME faults = 0, crashes = 0, n \in DOMAIN pulls
      PROVE  \/ pulls[n].told = {"hook", "import"}
             \/ \E p \in Polls : poll[p].pc \in {"mined", "report"} /\ poll[p].tx = n
  BY <1>1 DEF SettledIsTold
<1>2. ASSUME faults' = faults, crashes' = crashes, pulls' = pulls, NEW p \in Polls,
             poll[p].pc \notin {"mined", "report"}, \A q \in Polls : q # p => poll'[q] = poll[q]
      PROVE  \/ pulls'[n].told = {"hook", "import"}
             \/ \E q \in Polls : poll'[q].pc \in {"mined", "report"} /\ poll'[q].tx = n
  BY <1>1, <1>2
<1>3. ASSUME NEW w \in Watchers, NEW p \in Polls, Tick(w, p)
      PROVE  \/ pulls'[n].told = {"hook", "import"}
             \/ \E q \in Polls : poll'[q].pc \in {"mined", "report"} /\ poll'[q].tx = n
  <2>1. CASE HasOpen(w)
    BY <1>0, <1>2, <1>3, <2>1 DEF Tick, Idle
  <2>2. CASE ~HasOpen(w)
    BY <1>1, <1>3, <2>2 DEF Tick
  <2> QED BY <2>1, <2>2
<1>4. ASSUME NEW p \in Polls, GetHeight(p) \/ GetLogs(p) \/ ReadAllowance(p)
      PROVE  \/ pulls'[n].told = {"hook", "import"}
             \/ \E q \in Polls : poll'[q].pc \in {"mined", "report"} /\ poll'[q].tx = n
  <2>1. poll[p].pc \notin {"mined", "report"} /\ pulls' = pulls /\ faults' = faults /\ crashes' = crashes
    BY <1>4 DEF GetHeight, GetLogs, ReadAllowance
  <2>2. \A q \in Polls : q # p => poll'[q] = poll[q]
    BY <1>0, <1>4, LoopMoves DEF GetHeight, GetLogs, ReadAllowance
  <2> QED BY <1>2, <2>1, <2>2
<1>5. ASSUME NEW p \in Polls, TransferFrom(p)
      PROVE  \/ pulls'[n].told = {"hook", "import"}
             \/ \E q \in Polls : poll'[q].pc \in {"mined", "report"} /\ poll'[q].tx = n
  <2>1. poll[p].pc = "transfer" /\ faults' = faults /\ crashes' = crashes
    BY <1>5 DEF TransferFrom
  <2>2. CASE pulls' = pulls
    BY <1>0, <1>2, <1>5, <2>1, <2>2, PullAdded
  <2>3. CASE pulls' # pulls
    <3>1. /\ DOMAIN pulls' = DOMAIN pulls \cup {Len(pulls) + 1}
          /\ \A m \in DOMAIN pulls : pulls'[m] = pulls[m]
          /\ poll'[p].pc = "mined" /\ poll'[p].tx = Len(pulls) + 1
          /\ \A q \in Polls : q # p => poll'[q] = poll[q]
      BY <1>5, <2>3, PullAdded
    <3> QED
      BY <1>1, <2>1, <3>1
  <2> QED BY <2>2, <2>3
<1>6. ASSUME NEW p \in Polls, Settle(p)
      PROVE  \/ pulls'[n].told = {"hook", "import"}
             \/ \E q \in Polls : poll'[q].pc \in {"mined", "report"} /\ poll'[q].tx = n
  <2>1. /\ pulls' = pulls /\ faults' = faults /\ crashes' = crashes
        /\ poll' = [poll EXCEPT ![p].pc = "report"]
    BY <1>6 DEF Settle
  <2>2. \A q \in Polls : poll'[q].tx = poll[q].tx /\ (poll'[q].pc = "report" \/ poll'[q] = poll[q])
    BY <1>0, <2>1 DEF PollRecords
  <2> QED BY <1>1, <2>1, <2>2
<1>7. ASSUME NEW p \in Polls, Report(p)
      PROVE  \/ pulls'[n].told = {"hook", "import"}
             \/ \E q \in Polls : poll'[q].pc \in {"mined", "report"} /\ poll'[q].tx = n
  <2>1. PICK t \in SUBSET {"hook", "import"} :
          /\ pulls' = [pulls EXCEPT ![poll[p].tx].told = @ \cup t]
          /\ IF t = {"hook", "import"} THEN UNCHANGED faults ELSE Fault
    BY <1>7 DEF Report
  <2>2. t = {"hook", "import"} /\ faults' = faults /\ crashes' = crashes
    BY <1>0, <1>7, <2>1 DEF Report, Fault
  <2>3. /\ n \in DOMAIN pulls
        /\ pulls'[n].told = IF n = poll[p].tx THEN pulls[n].told \cup t ELSE pulls[n].told
        /\ pulls[n] \in Pulls
    <3>1. pulls' = [pulls EXCEPT ![poll[p].tx].told = @ \cup t]
      BY <2>1
    <3>2. n \in DOMAIN pulls
      BY <3>1
    <3>3. pulls'[n].told = IF n = poll[p].tx THEN pulls[n].told \cup t ELSE pulls[n].told
      BY <3>1, <3>2, PullTold
    <3> QED
      BY <1>0, <3>2, <3>3
  <2>4. \A q \in Polls : q # p => poll'[q] = poll[q]
    BY <1>7, LoopMoves DEF Report
  <2>5. CASE n = poll[p].tx
    BY <2>2, <2>3, <2>5 DEF Pulls
  <2>6. CASE n # poll[p].tx
    BY <1>1, <2>2, <2>3, <2>4, <2>6
  <2> QED BY <2>5, <2>6
<1>8. ASSUME \E p \in Polls : PollFails(p) PROVE FALSE
  BY <1>0, <1>8 DEF PollFails, Fault
<1>9. ASSUME Crash PROVE FALSE
  BY <1>0, <1>9 DEF Crash
<1>10. CASE UNCHANGED <<poll, pulls, faults, crashes>>
  BY <1>1, <1>10
<1>11. ASSUME NEW d \in Deposits, SeedFails(d) PROVE FALSE
  BY <1>0, <1>11 DEF SeedFails, Fault
<1> QED
  BY <1>3, <1>4, <1>5, <1>6, <1>7, <1>8, <1>9, <1>10, <1>11
  DEF Next, CallStep, PollStep, RequestDeposit, CreateWatcher, AddDeposit, SeedCursor, Approve, EmptyBlock

(* As long as no call fails and the process lives, a transferFrom is reported to
   the hook and to the import, or the poll that sent it is about to: polls that
   overlap, settle each other's deposit or find it gone never leave one out. *)
THEOREM Told == Spec => []SettledIsTold
<1>1. Init => SettledIsTold
  BY DEF Init, SettledIsTold
<1> QED
  BY Invariance, <1>1, ToldStep, PTL DEF Spec

(* An allowance that is left belongs to the investor of the deposit that waits:
   nobody pulled for it yet, the allowance does not exceed its amount and its one
   approval is in the logs.  A poll pulls for a deposit that waits or that was
   pulled, and only approvals of some amount are in the logs. *)
AllowanceIsFor(o, d) ==
  /\ Waiting(d) /\ Investor[d] = o /\ ~ Pulled(d)
  /\ allowance[o] <= Expected[d]
  /\ \E n \in DOMAIN logs : logs[n].dep = d

OwnInv ==
  /\ \A n \in DOMAIN logs : logs[n].value > 0
  /\ \A o \in Owners : allowance[o] > 0 => \E d \in Deposits : AllowanceIsFor(o, d)
  /\ \A d \in Deposits : Waiting(d) /\ Pulled(d) => \E n \in DOMAIN logs : logs[n].dep = d
  /\ \A d \in Deposits : Pulled(d) => call[d] \in {"seeding", "failed", "accepted"}
  /\ \A p \in Polls, d \in Deposits :
       poll[p].pc \in {"allowance", "transfer"} /\ poll[p].dep = d => Waiting(d) \/ Pulled(d)

(* The process of the code has one watcher and does not crash, and an investor
   approves, once, the amount of its open deposit. *)
OneApprovalEach == Discipline = "exact" /\ MaxCrashes = 0 /\ \A v, w \in Watchers : v = w

LEMMA OwnInit == Init => OwnInv /\ FirstPullIsOwn
<1> SUFFICES ASSUME Init PROVE OwnInv /\ FirstPullIsOwn
  OBVIOUS
<1>1. /\ DOMAIN logs = {} /\ DOMAIN pulls = {}
      /\ \A o \in Owners : allowance[o] = 0
      /\ \A p \in Polls : poll[p].pc = "idle"
  BY DEF Init, Idle
<1> QED
  BY <1>1 DEF OwnInv, FirstPullIsOwn, Pulled

(* With one watcher at most one deposit waits. *)
LEMMA OneWaits ==
  ASSUME Inv, OneApprovalEach, NEW d, NEW e, Waiting(d), Waiting(e)
  PROVE  d = e
BY DEF Inv, OneOpenPerWatcher, OneApprovalEach, Waiting

(* A deposit that waits was given to its caller, or is about to be. *)
LEMMA WaitingCall ==
  ASSUME Inv, NEW d, Waiting(d)
  PROVE  d \in Deposits /\ call[d] \in {"seeding", "failed", "accepted"}
BY DEF Inv, TypeOK, WatchersOK, ChosenInv, Waiting

(* What an allowance that is pulled from tells of the deposit that waits. *)
LEMMA AllowanceOfOwner ==
  ASSUME Inv, OwnInv, OneApprovalEach, NEW o \in Owners, allowance[o] > 0
  PROVE  \E d \in Deposits :
           /\ AllowanceIsFor(o, d)
           /\ \A e : Waiting(e) => e = d
           /\ \A u \in Owners : allowance[u] > 0 => u = o
<1>1. PICK d \in Deposits : AllowanceIsFor(o, d)
  BY DEF OwnInv
<1>2. \A e : Waiting(e) => e = d
  BY <1>1, OneWaits DEF AllowanceIsFor
<1>3. \A u \in Owners : allowance[u] > 0 => u = o
  BY <1>1, <1>2 DEF OwnInv, AllowanceIsFor
<1> QED BY <1>1, <1>2, <1>3

(* A step that sends no transferFrom and adds no approval. *)
LEMMA OwnKept ==
  ASSUME Inv, OwnInv, logs' = logs, allowance' = allowance,
         DOMAIN pulls' = DOMAIN pulls, \A n \in DOMAIN pulls : pulls'[n].dep = pulls[n].dep,
         \A d \in Deposits : Waiting(d) /\ ~ Pulled(d) => Waiting(d)',
         \A d : Waiting(d) /\ ~ Waiting(d)' => Pulled(d),
         \A d \in Deposits : Waiting(d)' /\ ~ Waiting(d) => ~ Pulled(d),
         \A d \in Deposits : call[d] \in {"seeding", "failed", "accepted"}
                               => call'[d] \in {"seeding", "failed", "accepted"},
         \A p \in Polls, d \in Deposits :
           poll'[p].pc \in {"allowance", "transfer"} /\ poll'[p].dep = d
             => \/ poll[p].pc \in {"allowance", "transfer"} /\ poll[p].dep = d
                \/ Waiting(d)' \/ Pulled(d)
  PROVE  OwnInv'
<1>1. \A d : Pulled(d)' <=> Pulled(d)
  BY DEF Pulled
<1>2. \A o \in Owners : \A d \in Deposits : AllowanceIsFor(o, d) => AllowanceIsFor(o, d)'
  BY <1>1 DEF AllowanceIsFor
<1>3. \A o \in Owners : allowance'[o] > 0 => \E d \in Deposits : AllowanceIsFor(o, d)'
  BY <1>2 DEF OwnInv
<1>4. \A d \in Deposits : Waiting(d)' /\ Pulled(d)' => \E n \in DOMAIN logs' : logs'[n].dep = d
  BY <1>1 DEF OwnInv
<1>5. \A d \in Deposits : Pulled(d)' => call'[d] \in {"seeding", "failed", "accepted"}
  BY <1>1 DEF OwnInv
<1>6. \A q \in Polls, e \in Deposits :
         poll'[q].pc \in {"allowance", "transfer"} /\ poll'[q].dep = e => Waiting(e)' \/ Pulled(e)'
  BY <1>1 DEF OwnInv
<1>7. \A n \in DOMAIN logs' : logs'[n].value > 0
  BY DEF OwnInv
<1> QED
  BY <1>3, <1>4, <1>5, <1>6, <1>7 DEF OwnInv

(* transferFrom: the wallet that pays is the investor of the deposit, or the
   deposit was pulled before. *)
LEMMA OwnTransfer ==
  ASSUME Inv, OwnInv, OneApprovalEach, FirstPullIsOwn, NEW p \in Polls, TransferFrom(p)
  PROVE  OwnInv' /\ FirstPullIsOwn'
<1>9. PICK owner, amount, dep :
         owner = logs[poll[p].log].owner /\ amount = Desired(poll[p]) /\ dep = poll[p].dep
  OBVIOUS
<1>0. /\ poll \in [Polls -> PollRecords] /\ logs \in Seq(LogEntries) /\ allowance \in [Owners -> Nat]
      /\ poll[p].pc = "transfer"
      /\ logs' = logs /\ open' = open /\ call' = call
      /\ \A d : Waiting(d)' <=> Waiting(d)
  BY DEF Inv, TypeOK, PollsOK, ChainOK, TransferFrom, plugin, Waiting
<1>1. CASE pulls' = pulls
  <2>1. pulls' = pulls /\ allowance' = allowance /\ poll' = [poll EXCEPT ![p] = Idle]
    BY <1>1, PullAdded
  <2>2. Idle.pc = "idle"
    BY DEF Idle
  <2>3. \A q \in Polls : poll'[q].pc \in {"allowance", "transfer"} => poll'[q] = poll[q]
    BY <1>0, <2>1, <2>2
  <2>4. OwnInv'
    BY <1>0, <2>1, <2>3, OwnKept
  <2> QED
    BY <2>1, <2>4 DEF FirstPullIsOwn
<1>2. CASE pulls' # pulls
  <2>1. /\ poll[p].log \in DOMAIN logs /\ dep \in Deposits /\ owner \in Owners /\ amount \in Nat
        /\ DOMAIN pulls' = DOMAIN pulls \cup {Len(pulls) + 1}
        /\ Len(pulls) \in Nat /\ DOMAIN pulls = 1..Len(pulls)
        /\ \A n \in DOMAIN pulls : pulls'[n] = pulls[n]
        /\ pulls'[Len(pulls) + 1].dep = dep /\ pulls'[Len(pulls) + 1].owner = owner
        /\ allowance[owner] \in Nat /\ amount <= allowance[owner]
        /\ allowance' = [allowance EXCEPT ![owner] = @ - amount]
        /\ poll'[p].pc = "mined"
        /\ \A q \in Polls : q # p => poll'[q] = poll[q]
    BY <1>2, <1>9, PullAdded
  <2>2. amount > 0 /\ (Expected[dep] > 0 => amount = Expected[dep])
    <3>1. logs[poll[p].log].value > 0
      BY <2>1 DEF OwnInv
    <3> QED
      BY <1>9, <2>1, <3>1, DataAssumption DEF Desired
  <2>3. PICK d \in Deposits :
          /\ AllowanceIsFor(owner, d)
          /\ \A e : Waiting(e) => e = d
          /\ \A u \in Owners : allowance[u] > 0 => u = owner
    <3>1. allowance[owner] > 0
      BY <2>1, <2>2
    <3> QED
      BY <2>1, <3>1, AllowanceOfOwner
  <2>4. Waiting(dep) \/ Pulled(dep)
    BY <1>0, <1>9, <2>1 DEF OwnInv
  <2>5. \A e : Pulled(e)' <=> Pulled(e) \/ e = dep
    <3>1. \A e : Pulled(e) => Pulled(e)'
      BY <2>1 DEF Pulled
    <3>2. Pulled(dep)'
      BY <2>1 DEF Pulled
    <3>3. \A e : Pulled(e)' => Pulled(e) \/ e = dep
      BY <2>1 DEF Pulled
    <3> QED BY <3>1, <3>2, <3>3
  <2>6. \A u \in Owners : allowance'[u] = IF u = owner THEN allowance[owner] - amount ELSE allowance[u]
    BY <1>0, <2>1
  <2>7. \A u \in Owners : allowance'[u] > 0 => u = owner /\ dep # d
    <3> SUFFICES ASSUME NEW u \in Owners, allowance'[u] > 0 PROVE u = owner /\ dep # d
      OBVIOUS
    <3>1. u = owner
      BY <2>3, <2>6
    <3>2. ASSUME dep = d PROVE FALSE
      <4>1. allowance[owner] <= Expected[d] /\ Expected[d] \in Nat
        BY <2>3, DataAssumption DEF AllowanceIsFor
      <4>2. amount = Expected[d]
        BY <2>1, <2>2, <3>2, <4>1
      <4> QED
        BY <2>1, <2>6, <3>1, <4>1, <4>2
    <3> QED BY <3>1, <3>2
  <2>8. \A u \in Owners : allowance'[u] > 0 => \E e \in Deposits : AllowanceIsFor(u, e)'
    <3> SUFFICES ASSUME NEW u \in Owners, allowance'[u] > 0 PROVE AllowanceIsFor(u, d)'
      OBVIOUS
    <3>1. u = owner /\ dep # d
      BY <2>7
    <3>2. allowance'[owner] <= Expected[d]
      <4>1. allowance[owner] <= Expected[d] /\ Expected[d] \in Nat
        BY <2>3, DataAssumption DEF AllowanceIsFor
      <4> QED
        BY <2>1, <2>6, <4>1
    <3>3. ~ Pulled(d)'
      BY <2>3, <2>5, <3>1 DEF AllowanceIsFor
    <3> QED
      BY <1>0, <2>3, <3>1, <3>2, <3>3 DEF AllowanceIsFor
  <2>9. \A e \in Deposits : Waiting(e)' /\ Pulled(e)' => \E n \in DOMAIN logs' : logs'[n].dep = e
    BY <1>0, <2>3 DEF AllowanceIsFor
  <2>10. \A e \in Deposits : Pulled(e)' => call'[e] \in {"seeding", "failed", "accepted"}
    <3>1. Waiting(dep) => call[dep] \in {"seeding", "failed", "accepted"}
      BY WaitingCall
    <3> QED
      BY <1>0, <2>4, <2>5, <3>1 DEF OwnInv
  <2>11. \A q \in Polls, e \in Deposits :
           poll'[q].pc \in {"allowance", "transfer"} /\ poll'[q].dep = e => Waiting(e)' \/ Pulled(e)'
    BY <1>0, <2>1, <2>5 DEF OwnInv
  <2>12. \A n \in DOMAIN logs' : logs'[n].value > 0
    BY <1>0 DEF OwnInv
  <2>13. OwnInv'
    BY <2>8, <2>9, <2>10, <2>11, <2>12 DEF OwnInv
  <2>14. FirstPullIsOwn'
    <3> SUFFICES ASSUME NEW n \in DOMAIN pulls'
                 PROVE  \/ pulls'[n].owner = Investor[pulls'[n].dep]
                        \/ \E m \in DOMAIN pulls' : m < n /\ pulls'[m].dep = pulls'[n].dep
      BY DEF FirstPullIsOwn
    <3>1. CASE n \in DOMAIN pulls
      BY <2>1, <3>1 DEF FirstPullIsOwn
    <3>2. CASE n = Len(pulls) + 1 /\ Pulled(dep)
      <4>1. PICK m \in DOMAIN pulls : pulls[m].dep = dep
        BY <3>2 DEF Pulled
      <4>2. m < n /\ m \in DOMAIN pulls' /\ pulls'[m].dep = pulls'[n].dep
        BY <2>1, <3>2, <4>1
      <4> QED BY <4>2
    <3>3. CASE n = Len(pulls) + 1 /\ Waiting(dep)
      BY <2>1, <2>3, <3>3 DEF AllowanceIsFor
    <3> QED
      BY <2>1, <2>4, <3>1, <3>2, <3>3
  <2> QED BY <2>13, <2>14
<1> QED BY <1>1, <1>2

(* An approval: the deposit it is given for is the one that waits. *)
LEMMA OwnApprove ==
  ASSUME Inv, OwnInv, OneApprovalEach, NEW o \in Owners, NEW v \in Values, Approve(o, v)
  PROVE  OwnInv'
<1> DEFINE mine == {e \in Deposits : Investor[e] = o /\ Waiting(e)}
           entry == [block |-> height + 1, owner |-> o, value |-> v,
                     dep |-> IF mine = {} THEN None ELSE CHOOSE e \in mine : TRUE]
<1>0. /\ logs \in Seq(LogEntries) /\ allowance \in [Owners -> Nat] /\ v \in Nat /\ v > 0
      /\ \A d : Waiting(d)' <=> Waiting(d)
      /\ \A d : Pulled(d)' <=> Pulled(d)
      /\ call' = call /\ poll' = poll
  BY DataAssumption DEF Inv, TypeOK, ChainOK, Approve, plugin, Waiting, Pulled
<1>1. PICK d \in Deposits : /\ Investor[d] = o /\ Waiting(d) /\ v = Expected[d]
                            /\ ~ \E n \in DOMAIN logs : logs[n].dep = d
  BY DEF Approve, MayApprove, OneApprovalEach
<1>2. mine = {d}
  <2>1. \A e \in mine : e = d
    BY <1>1, OneWaits
  <2> QED BY <1>1, <2>1
<1>3. logs' = Append(logs, entry) /\ allowance' = [allowance EXCEPT ![o] = v]
  BY DEF Approve
<1>4. entry.dep = d /\ entry.value = v
  BY <1>2
<1> HIDE DEF entry, mine
<1>5. /\ DOMAIN logs' = DOMAIN logs \cup {Len(logs) + 1} /\ logs'[Len(logs) + 1] = entry
      /\ \A n \in DOMAIN logs : logs'[n] = logs[n]
  <2> DEFINE S == LogEntries \cup {entry}
  <2>1. logs \in Seq(S) /\ entry \in S
    BY <1>0
  <2> HIDE DEF S
  <2> QED BY <1>3, <2>1
<1>6. ~ Pulled(d)
  BY <1>1 DEF OwnInv
<1>7. AllowanceIsFor(o, d)'
  BY <1>0, <1>1, <1>3, <1>4, <1>5, <1>6 DEF AllowanceIsFor
<1>8. \A u \in Owners : allowance'[u] > 0 => \E e \in Deposits : AllowanceIsFor(u, e)'
  <2> SUFFICES ASSUME NEW u \in Owners, allowance'[u] > 0 PROVE u = o
    BY <1>7
  <2>1. ASSUME u # o PROVE FALSE
    <3>1. allowance[u] > 0
      BY <1>0, <1>3, <2>1
    <3>2. PICK e \in Deposits : AllowanceIsFor(u, e)
      BY <3>1 DEF OwnInv
    <3>3. e = d
      BY <1>1, <3>2, OneWaits DEF AllowanceIsFor
    <3> QED
      BY <1>1, <2>1, <3>2, <3>3 DEF AllowanceIsFor
  <2> QED BY <2>1
<1>9. \A e \in Deposits : Waiting(e)' /\ Pulled(e)' => \E n \in DOMAIN logs' : logs'[n].dep = e
  BY <1>0, <1>5 DEF OwnInv
<1>10. \A n \in DOMAIN logs' : logs'[n].value > 0
  BY <1>0, <1>4, <1>5 DEF OwnInv
<1>11. /\ \A e \in Deposits : Pulled(e)' => call'[e] \in {"seeding", "failed", "accepted"}
       /\ \A q \in Polls, e \in Deposits :
            poll'[q].pc \in {"allowance", "transfer"} /\ poll'[q].dep = e => Waiting(e)' \/ Pulled(e)'
  BY <1>0 DEF OwnInv
<1> QED
  BY <1>8, <1>9, <1>10, <1>11 DEF OwnInv

LEMMA OwnStep ==
  Inv /\ OwnInv /\ FirstPullIsOwn /\ OneApprovalEach /\ [Next]_vars => OwnInv' /\ FirstPullIsOwn'
<1> SUFFICES ASSUME Inv, OwnInv, FirstPullIsOwn, OneApprovalEach, [Next]_vars
             PROVE  OwnInv' /\ FirstPullIsOwn'
  OBVIOUS
<1> USE DEF vars, plugin, timing, chain
<1>0. /\ poll \in [Polls -> PollRecords] /\ call \in [Deposits -> CallStates]
      /\ open \in [Watchers -> SUBSET Deposits] /\ Idle.pc = "idle"
  BY DEF Inv, TypeOK, PollsOK, CallsOK, WatchersOK, Idle
<1>1. ASSUME NEW d \in Deposits,
             RequestDeposit(d) \/ CreateWatcher(d) \/ SeedCursor(d) \/ SeedFails(d)
      PROVE  OwnInv' /\ FirstPullIsOwn'
  <2>1. /\ open' = open /\ logs' = logs /\ allowance' = allowance /\ pulls' = pulls /\ poll' = poll
        /\ \A e : Waiting(e)' <=> Waiting(e)
    BY <1>1 DEF RequestDeposit, CreateWatcher, SeedCursor, SeedFails, Waiting
  <2>2. \A e \in Deposits : call[e] \in {"seeding", "failed", "accepted"}
                              => call'[e] \in {"seeding", "failed", "accepted"}
    BY <1>0, <1>1 DEF RequestDeposit, CreateWatcher, SeedCursor, SeedFails
  <2> QED
    BY <2>1, <2>2, OwnKept DEF FirstPullIsOwn
<1>2. ASSUME NEW d \in Deposits, AddDeposit(d)
      PROVE  OwnInv' /\ FirstPullIsOwn'
  <2>1. /\ logs' = logs /\ allowance' = allowance /\ pulls' = pulls /\ poll' = poll
        /\ chosen[d] \in Watchers /\ ~ Pulled(d)
    BY <1>2 DEF AddDeposit, Inv, ChosenInv, OwnInv
  <2>2. /\ \A e : Waiting(e) => Waiting(e)'
        /\ \A e : Waiting(e)' => Waiting(e) \/ e = d
    BY <1>0, <1>2, <2>1 DEF AddDeposit, Waiting
  <2>3. \A e \in Deposits : call[e] \in {"seeding", "failed", "accepted"}
                              => call'[e] \in {"seeding", "failed", "accepted"}
    BY <1>0, <1>2 DEF AddDeposit
  <2> QED
    BY <2>1, <2>2, <2>3, OwnKept DEF FirstPullIsOwn
<1>3. ASSUME UNCHANGED <<call, open, logs, allowance, pulls>>, NEW p \in Polls,
             \A q \in Polls : q # p => poll'[q] = poll[q],
             poll'[p].pc \in {"allowance", "transfer"}
               => \/ poll[p].pc \in {"allowance", "transfer"} /\ poll'[p].dep = poll[p].dep
                  \/ \E w \in Watchers : poll'[p].dep \in open[w]
      PROVE  OwnInv' /\ FirstPullIsOwn'
  <2>1. \A e : Waiting(e)' <=> Waiting(e)
    BY <1>3 DEF Waiting
  <2>2. \A q \in Polls, e \in Deposits :
          poll'[q].pc \in {"allowance", "transfer"} /\ poll'[q].dep = e
            => \/ poll[q].pc \in {"allowance", "transfer"} /\ poll[q].dep = e
               \/ Waiting(e)' \/ Pulled(e)
    BY <1>3 DEF Waiting
  <2> QED
    BY <1>3, <2>1, <2>2, OwnKept DEF FirstPullIsOwn
<1>4. ASSUME NEW p \in Polls, NEW todo, Proceed(p, todo), poll[p].w \in Watchers
      PROVE  /\ \A q \in Polls : q # p => poll'[q] = poll[q]
             /\ poll'[p].pc \in {"allowance", "transfer"}
                  => \E w \in Watchers : poll'[p].dep \in open[w]
  BY <1>4, LoopMoves, OldestIsOpen
<1>5. ASSUME NEW w \in Watchers, NEW p \in Polls, Tick(w, p)
      PROVE  OwnInv' /\ FirstPullIsOwn'
  <2>1. /\ UNCHANGED <<call, open, logs, allowance, pulls>>
        /\ \A q \in Polls : q # p => poll'[q] = poll[q]
        /\ poll'[p] = poll[p] \/ poll'[p].pc = "height"
    <3>1. UNCHANGED <<call, open, logs, allowance, pulls>>
      BY <1>5 DEF Tick
    <3>2. \/ poll' = poll
          \/ \E r : poll' = [poll EXCEPT ![p] = r] /\ r.pc = "height"
      <4>1. [Idle EXCEPT !.pc = "height", !.w = w, !.from = lastSeen[w] + 1].pc = "height"
        BY DEF Idle
      <4> QED BY <1>5, <4>1 DEF Tick
    <3> QED BY <1>0, <3>1, <3>2
  <2> QED BY <1>3, <2>1
<1>6. ASSUME NEW p \in Polls, GetHeight(p) \/ GetLogs(p) \/ ReadAllowance(p)
      PROVE  OwnInv' /\ FirstPullIsOwn'
  <2>1. UNCHANGED <<call, open, logs, allowance, pulls>> /\ poll[p].w \in Watchers
    BY <1>6 DEF GetHeight, GetLogs, ReadAllowance, Inv, TypeOK, PollsOK, PollRefersTo
  <2>2. CASE GetHeight(p)
    <3>1. /\ \A q \in Polls : q # p => poll'[q] = poll[q]
          /\ poll'[p].pc \in {"idle", "logs"}
      BY <1>0, <2>2 DEF GetHeight, PollRecords
    <3> QED BY <1>3, <2>1, <3>1
  <2>3. CASE GetLogs(p)
    BY <1>3, <1>4, <2>1, <2>3 DEF GetLogs
  <2>4. CASE ReadAllowance(p) /\ poll' = [poll EXCEPT ![p].pc = "transfer"]
    <3>1. /\ \A q \in Polls : q # p => poll'[q] = poll[q]
          /\ poll[p].pc = "allowance" /\ poll'[p].dep = poll[p].dep
      BY <1>0, <2>4 DEF ReadAllowance, PollRecords
    <3> QED BY <1>3, <2>1, <3>1
  <2>5. CASE ReadAllowance(p) /\ Proceed(p, poll[p].todo)
    BY <1>3, <1>4, <2>1, <2>5
  <2> QED
    BY <1>6, <2>2, <2>3, <2>4, <2>5 DEF ReadAllowance
<1>7. ASSUME NEW p \in Polls, Settle(p)
      PROVE  OwnInv' /\ FirstPullIsOwn'
  <2>1. /\ UNCHANGED <<call, logs, allowance, pulls>>
        /\ open' = [open EXCEPT ![poll[p].w] = @ \ {poll[p].dep}]
        /\ poll' = [poll EXCEPT ![p].pc = "report"]
        /\ poll[p].w \in Watchers /\ Pulled(poll[p].dep)
    <3>1. poll[p].tx \in DOMAIN pulls /\ pulls[poll[p].tx].dep = poll[p].dep /\ poll[p].w \in Watchers
      BY <1>7 DEF Settle, Inv, TypeOK, PollsOK, PollRefersTo, TxInv
    <3> QED
      BY <1>7, <3>1 DEF Settle, Remove, Pulled
  <2>2. /\ \A e : Waiting(e)' => Waiting(e)
        /\ \A e : Waiting(e) /\ ~ Waiting(e)' => e = poll[p].dep
    BY <1>0, <2>1 DEF Waiting
  <2>3. \A q \in Polls : poll'[q].pc \in {"allowance", "transfer"} => poll'[q] = poll[q]
    BY <1>0, <2>1 DEF PollRecords
  <2> QED
    BY <2>1, <2>2, <2>3, OwnKept DEF FirstPullIsOwn
<1>8. ASSUME NEW p \in Polls, Report(p)
      PROVE  OwnInv' /\ FirstPullIsOwn'
  <2>1. PICK t \in SUBSET {"hook", "import"} : pulls' = [pulls EXCEPT ![poll[p].tx].told = @ \cup t]
    BY <1>8 DEF Report
  <2>2. /\ DOMAIN pulls' = DOMAIN pulls
        /\ \A n \in DOMAIN pulls : pulls'[n].dep = pulls[n].dep /\ pulls'[n].owner = pulls[n].owner
    BY <2>1, PullTold
  <2>3. /\ UNCHANGED <<call, open, logs, allowance>> /\ poll[p].w \in Watchers
        /\ Proceed(p, poll[p].todo)
        /\ \A e : Waiting(e)' <=> Waiting(e)
    BY <1>8 DEF Report, Inv, TypeOK, PollsOK, PollRefersTo, Waiting
  <2>4. \A q \in Polls, e \in Deposits :
          poll'[q].pc \in {"allowance", "transfer"} /\ poll'[q].dep = e
            => \/ poll[q].pc \in {"allowance", "transfer"} /\ poll[q].dep = e
               \/ Waiting(e)' \/ Pulled(e)
    BY <1>4, <2>3 DEF Waiting
  <2>5. OwnInv'
    BY <2>2, <2>3, <2>4, OwnKept
  <2> QED
    BY <2>2, <2>5 DEF FirstPullIsOwn
<1>9. ASSUME NEW p \in Polls, PollFails(p)
      PROVE  OwnInv' /\ FirstPullIsOwn'
  <2>1. /\ UNCHANGED <<call, open, logs, allowance, pulls>>
        /\ \A q \in Polls : q # p => poll'[q] = poll[q]
        /\ poll'[p].pc = "idle"
    BY <1>0, <1>9 DEF PollFails, Abort
  <2> QED BY <1>3, <2>1
<1>10. ASSUME NEW p \in Polls, TransferFrom(p)
       PROVE  OwnInv' /\ FirstPullIsOwn'
  BY <1>10, OwnTransfer
<1>11. ASSUME NEW o \in Owners, NEW v \in Values, Approve(o, v)
       PROVE  OwnInv' /\ FirstPullIsOwn'
  <2>1. pulls' = pulls
    BY <1>11 DEF Approve
  <2> QED
    BY <1>11, <2>1, OwnApprove DEF FirstPullIsOwn
<1>12. ASSUME Crash PROVE FALSE
  BY <1>12 DEF Crash, OneApprovalEach, Inv, TypeOK, ChainOK
<1>13. CASE UNCHANGED <<call, open, logs, allowance, pulls, poll>>
  <2>1. \A e : Waiting(e)' <=> Waiting(e)
    BY <1>13 DEF Waiting
  <2> QED
    BY <1>13, <2>1, OwnKept DEF FirstPullIsOwn
<1> QED
  BY <1>1, <1>2, <1>5, <1>6, <1>7, <1>8, <1>9, <1>10, <1>11, <1>12, <1>13
  DEF Next, CallStep, PollStep, EmptyBlock

(* While the process lives and investors approve as they are told to, no
   interleaving of requests, timers, failing calls and overlapping polls makes a
   wallet pay first for the deposit of another investor: the single open deposit
   per contract (approval-watcher.ts:22-27) is enough to tell whose approval it is. *)
THEOREM FirstOwn ==
  ASSUME OneApprovalEach
  PROVE  Spec => []FirstPullIsOwn
<1>1. Init => OwnInv /\ FirstPullIsOwn
  BY OwnInit
<1>2. Inv /\ OwnInv /\ FirstPullIsOwn /\ [Next]_vars => OwnInv' /\ FirstPullIsOwn'
  BY OwnStep, OneApprovalEach
<1> QED
  BY Invariance, <1>1, <1>2, PTL DEF Spec

=============================================================================
