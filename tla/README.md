# Formal models of the FinP2P Ethereum adapter

TLA+ specifications of the stateful parts of the adapter (`src/src`), TLC
configurations that check them on small instances, and TLAPS proofs of their
main safety properties for every instance.

Contents: [the system](#the-system), [the modules](#the-modules),
[what the runs check](#what-the-runs-check), [fairness](#fairness),
[what is proved](#what-is-proved), [deviations](#known-deviations),
[what is not modelled](#what-is-not-modelled), [plan](#plan).

## The system

The adapter is one Node.js process per replica. An orchestrator (the FinP2P
router) calls it over HTTP to create assets, onboard investors, approve plans,
move tokens and take deposits; the adapter answers from a custody provider
(Fireblocks, DFNS or local keys), token contracts on an EVM chain and two
stores in PostgreSQL. Within a process everything runs on one event loop: the
statements between two `await`s are atomic, and every `await` lets requests,
timers and other calls run. That is the granularity of every module here.

| Component (under `src/src`) | State | Operations | Interacts with |
|---|---|---|---|
| Pull deposit, `integrations/deposits/pull-deposit` | open deposits, timers, cursors, in-flight marks, all in memory | `deposit`, `pollOnce`, `handleApproval`, report | token contract, gas station, omnibus hook, FinP2P import |
| OTA deposit, `integrations/deposits/ota-deposit` | open deposits, timers, in-flight marks, in memory; a custody account each | `deposit`, `pollOnce`, `sweep`, report, archive | custody provider, token contract, gas station, hook, import |
| Adoption of migration tables, `legacy-migration.ts` | the catalog of PostgreSQL | `adoptLegacyMigrationTables` at boot, then the migrations | other replicas and other adapters on the database |
| Custody onboarding, `services/custody/network-account-service.ts`, `services/gas-station/wallet-activation.ts` | bindings, account mapping, activation of wallets on chain | create, remove | binding store, mapping store, custody provider, chain |
| Plan approval, `services/plan-approval` | none beyond the running call | `approvePlan` with its options | FinP2P client, account mapping, token whitelists, gas station |
| Gas station, `services/gas-station/gas-station.ts` | native balances on chain | `ensureGas` | funding wallet, chain |
| Investor whitelist service, `services/accounts/investor-whitelist-service.ts` | the tokens' whitelists on chain | whitelist, dewhitelist | token standards |
| Direct custody token service, `services/custody/token-service.ts` | asset records; tokens in investors' wallets and in one shared escrow wallet | create, issue, transfer, redeem, hold, release, rollback | account mapping, custody provider, token standards |
| Omnibus delegate, `services/omnibus` | tokens in the omnibus and escrow wallets | outbound transfer, hold, release, rollback, inbound verification | ledger of the vanilla service, chain |
| On-chain service, `services/onchain` | credential cache, execution details | the same operations on the operator contract, network accounts, mapping routes | contract, FinP2P client |
| Custody lookups, `vaults.ts`, Fireblocks and DFNS providers | caches of addresses, one shared scan | `resolveWallet`, `createCustodyAccount`, balance | the custodian's API |
| Signer pool, `integrations/signer-pool.ts` | one nonce manager per key | `pooledSigner` | token standards, plugins, issuer |
| Operation context, `services/operations` | none (pure) | leg, phase, release type, primary type | callers of the direct token services |
| Start: `index.ts`, `app.ts`, `config.ts`, registrars and registries under `integrations` | role wallets, the payments slot, the registered standards and signers | one start, from the environment to the services served | everything |

What makes them hard:

- **Interleaving on the event loop.** `setInterval` starts a poll whether the
  previous one is done or not, and both watchers set their in-flight mark
  awaits after they tested it, so polls of one deposit overlap. Requests overlap
  with polls and with one another; account mappings and whitelists change under
  the calls that read them party by party.
- **Lost answers.** `tx.wait()` or an RPC call may throw after the transaction
  was mined. The services turn every exception into a failure.
- **Crashes.** Deposits are in memory only; migrations run in a transaction
  that a killed process leaves to the server.
- **Shared pools.** One escrow wallet backs all held operations, one gas
  station funds all wallets, one wallet signs for several plans.
- **Order and atomicity.** Insert, activation and mapping; check and ALTER;
  gate and funding; hold and settlement under two hold models.

What makes each component correct:

| Component | Correctness |
|---|---|
| Pull deposit | an accepted deposit is watched until it is pulled; a pull is reported; an approval that can be claimed is claimed; money of one investor does not pay another's deposit |
| OTA deposit | no mark blocks a deposit for good; nothing is credited short or twice; a funded deposit is credited |
| Migration tables | history is neither lost, doubled nor half-moved; replicas do not make each other fail; every boot ends |
| Onboarding | a mapped wallet is active; only the recorded binding is funded or mapped; a repeated create succeeds; the wallet that signs is the investor's |
| Plan approval | fail closed; no false alarm; a rejected plan costs nothing; a covered signer can pay for its whole plan; every approval ends |
| Whitelist service | a sweep that returns has removed what it says |
| Direct tokens | the shared escrow accounts for every held token; held orders can be settled; nobody pays twice; every call is answered |
| Omnibus | the two wallets never hold less than the ledger promises, and each has the token an operation takes from it; no debt without an arrival; every call is answered |
| On-chain tokens | what the signed template makes the contract move is what the router asked for; both account worlds read a template alike, but for the phase; a registered investor has a wallet |
| Custody lookups | an account that existed when the search began is found; every lookup ends |
| Start | one owner of the payments slot; whatever is served has the wallets, provider, hook and payments owner of its mode; one nonce manager per key |

`PROJECT.json` lists the hazards of the code line by line with the properties
that cover them.

## The modules

Every module states which files it follows. Each `await` of the code is the
end of one action and the start of the next; an action carries the guard of the
code's conditions, early returns included. Operators named `Mutant...` stand
next to the definition they are a slip of; no specification uses them, they
show that the properties can fail. What is outside the repository (chain,
contracts, stores, orchestrator, custody provider) is modelled from how the
code uses it and is marked external in `PROJECT.json`.

**PullDeposit** (`ApprovalWatcher`, `PullDepositPlugin`) follows one token
contract. `call[d]` is a `deposit()` request: `RequestDeposit`, `CreateWatcher`
(the lazy `getWatcher`, whose await lets a second call create a second watcher),
`AddDeposit` (the map entry, and `ensurePolling` up to its await), `SeedCursor`,
`SeedFails`. `poll[p]` is a `pollOnce` call with its locals: `Tick`,
`GetHeight`, `GetLogs`, `ReadAllowance`, `TransferFrom`, `Settle` (deletes the
deposit, stops polling) and `Report`; `Proceed` is the loop over the batch,
`Abort` the `finally` after an exception. `open`, `timer`, `intervals`,
`lastSeen`, `inFlight` are the fields of the watcher; `intervals` counts live
timers so that a leaked one would show. Owners approve as `Discipline` says:
whenever they like, only while their deposit is open, or once and exactly.

**OtaDeposit** (`BalanceWatcher`, `OtaDepositPlugin`): a deposit per ephemeral
address, overlapping polls with the balance they read, the sweep step by step
(`EnsureGas`, `Transfer`, `Swept`, `Stop`), the three reports, `Finish` for the
`finally`. Depositors send at any time, also between read and sweep.

**LegacyMigration** (`adoptLegacyMigrationTables`): every query is a step of a
replica's transaction under READ COMMITTED; `own` is what it renamed and has
not committed, and holds the lock. `Alter` waits, succeeds or fails as the
server decides; a failed ALTER re-reads both names. `Stop` is a kill at any point,
including after a COMMIT whose answer was lost. `Migrate` is the migration run
that `init` (index.ts) starts after the adoption returns.

**CustodyOnboarding** (`CustodyNetworkAccountService`, `WalletActivator`):
`createAccount` from the resolution of a custody id over the atomic
insert-or-replay to activation (check, send, poll, give up) and `Save` of the
mapping. `SourceWallet` is what `resolveSourceWallet` later makes of it.

**PlanApproval** (`ConfigurablePlanApprovalService`, both options,
`GasStation`, `InvestorWhitelistService`): one `approvePlan` per plan, walking
instruction by instruction and party by party, counting signers, topping up one
wallet after the other. Whitelist changes, remappings, the sweep of a
dewhitelisting and the execution of approved plans run beside it. `since`
records what changed during an approval, because the code re-reads mapping and
list for every party and promises nothing about a change behind its back.

**CustodyTokens** (`CustodyTokenService`, the hold model of the registry): an
order is what the orchestrator wants (issue, transfer, redeem, or a hold and
its settlement). A call goes through `FindAsset`, `ResolveSource`,
`ResolveTarget`, `Send` and waits; its transaction lands, falls short or is
refused on its own, whether or not the call still waits (`WaitThrows`).
`Deed` is the branch of `redeem` on the hold model. `Request` asks for a method
of an order once, as a repeated request is answered from the record the workflow
proxy of the skeleton keeps, and settles only what it saw held. One order moves
one token, the operation id is always known, and a custody-id mapping and an
address mapping of an investor are one thing here (`CustodyOnboarding` has
the case where they disagree).

**OmnibusDelegate** (`OmnibusDelegate`) moves tokens between the omnibus wallet,
the escrow wallet and the outside, and verifies arrivals. `FindAsset`, `Resolve`
(where an outbound transfer or a release goes, by the mapping of that moment),
`Send`, the wait; for an inbound transaction `AwaitReceipt`, `AwaitFinal` (with
`requireFinalizedBlock`) and `Verify`. The ledger that calls it belongs to the
vanilla service and is modelled by docs/omnibus-mode.md: it locks, lets the
delegate execute, settles or unlocks by the answer, and credits what was
verified. `avail` and `locked` are its accounts taken together, and it counts an
incoming transaction once (`Fresh`). `shared` is the case of app.ts:231, where
without an escrow wallet of its own the omnibus wallet is the escrow. A block as
deep as the delegate asks for is not undone. Transfers inside the ledger,
issuing and redeeming never reach the delegate.

**TokenPool** is the abstract specification that `CustodyTokens` and
`OmnibusDelegate` both implement: a pool of tokens that never owes more than it
holds. In direct mode the mapping (`Pool`) takes the tokens in escrow, or the
reservations of an asset that is held by them, as what is held; what is owed is
the held orders less those whose settlement has paid and will be answered so. An
asset is closed when the answer to one of its settlements is lost. In omnibus
mode the tokens of both wallets are held; owed is what the ledger promises, plus
tokens released to partners that stayed in the pool, less those that are gone
already and will be answered so. An asset is closed when an answer about it is
lost, or an investor who is no longer mapped is paid outside.

**CustodyWallets** (`createVaultManagementFunctions`, the two providers) is how
an address becomes a signing wallet. `scan` is the scan behind
`activeScanPromise`: it reads the listing page by page (`ReadPage`), then one
vault after the other (`ReadVault`), may be rate limited or fail, and every
lookup that waits for it goes on or throws with it (`EndScan`, `FailScan`).
`Ask` starts the first scan or joins one, `Look` looks into the cache and
rescans, `Final` answers. DFNS answers at once from what it read at boot
(`FirstWallets`) and what it opened itself. `CreateVault`, `CreateAsset`,
`ReadAddresses` and `CreateWallet` open accounts; `OpenOutside` and
`AssignAddress` are what the custodian does meanwhile.

**OnchainTokens** (`OnChainTokenService`, `extractBusinessDetails`,
`validateRequest`, `OnChainNetworkAccountService`, `CredentialsMappingService`)
has the derivation of the contract's parameters as operators (`Leg`, `Phase`,
`ReleaseType`, `Details`, `ValidRequest`) and beside it the one of
operation-context.ts (`DirectLeg` ...), as token-service.ts of the direct
services calls it: `hold` derives the disposition, a transfer keeps the default.
A call is checked (`Submit`), looks up the credentials of its parties one await
after the other (`Ensure`), is mined or reverts, notes its plan and reads its
receipt. What the contract then moved stands in `effect` until the call answers.
Accounts are created, stored and removed and mappings written and deleted
between any two steps.

**AdapterBoot** (`init`, `envVarsToAppConfig`, `createApp`, the registrars) is
one start, in the order of the code: configuration, migrations, custody
provider, role wallets, probe of the contract, omnibus ledger, token standards,
the five deposit registrars, services. Each step has its requirement as a guard;
what does not meet it, or cannot reach what it calls, exits. The environment is
the set of variables that are set (`env.set`), those that do not parse
(`env.bad`) and for each key the account it belongs to and how it is spelt.

The modules share no variables; they meet in the account mapping (written by
onboarding, read by approvals and tokens) and in the execution of approved
plans. Each module takes the others' part as an environment that is free to do
more: `Rebind` changes any mapping at any time, `Execute` spends gas in any
order.

## What the runs check

| Run | Bounds | Shows |
|---|---|---|
| `PullOverlap` | 2 deposits of 2 investors, 2 polls, 1 watcher, 1 fault, 1 crash, height 3 | an accepted deposit is kept and polled; every pull is told |
| `PullServed` | the same without faults, owners approve once and exactly, height 5 | a deposit is first paid by its own investor; a claimable deposit is pulled |
| `OtaDeposits` | 2 deposits (one with an amount, one without), 2 polls, 3 arrivals, any one await fails, 1 crash, with and without gas station | no stuck mark; kept; never short; credits match sweeps; funded is credited |
| `LegacyBoots` | 3 replicas of 2 adapters, 2 tables, 2 start catalogs, 1 failing query | adoption is whole, keeps history, only faults throw, every boot ends |
| `OnboardRaces` | 3 concurrent creates of one investor over 2 vaults, 1 fault | only winners are funded and mapped; mapped is active; creates succeed |
| `PlanApprovals` | 2 plans (one of one kind, one of two), 2 investors, 4 assets, 2 of them whitelisted, 1 change, 1 fault | the gate fails closed and has no false alarm; vetoed plans cost nothing; covered wallets can pay; sweeps and approvals end well |
| `EscrowShared` | 2 orders in 4 combinations over an escrowed and a reserving asset, 1 fault, 1 remapping | the escrow's books; held orders are payable and the escrow implements `TokenPool` until an answer is lost; nobody pays twice; calls end |
| `OmnibusPool` | 2 orders in 6 combinations (outbound, hold and settlement, the same arrival twice, for the wrong asset or amount), pools of 1 or 2 tokens, one or two wallets, 1 fault, 1 remapping | the wallets implement `TokenPool` and no operation finds its wallet short, both until an asset is closed; calls end |
| `WalletLookups` | 3 accounts, 2 of them listed at boot, pages of 1, 2 lookups, 1 retry, 1 fault, 1 restart, both providers | "not in custody" has a cause; every lookup ends |
| `OnchainOperator` | a transfer (`Transfer`, `Loan`, unknown) or a hold (`Transfer`, `Redemption`, `Move`, `Selling` in three forms, two of them ambiguous), 2 investors, 4 named assets, right and wrong parties, amounts and positions, a hold with and without destination, a loan outside a plan, then 8 issues or settlements; 1 joining investor, 1 new asset, 1 fault, 1 restart, both resolution modes | the contract moves what was requested; both readings of a template agree but for the phases the property names; credentials stand behind registrations |
| `AdapterBoot` | every provider, account model and deposit method, with role accounts, endpoint, gas funding, issuer and plugins set or not; each required variable missing and each value malformed in turn; 3 networks | one slot owner; what is served has what its mode needs; one nonce manager per key under custody |
| `OtaLostReceipt` | 1 deposit, 2 polls, 1 failing `wait` | a counterexample, see below |

The type invariants (`TypeOK` of each module) are theorems where there is a
proof module, which holds for every bound; the runs spend their properties on
the rest.

The bounds are the smallest at which the interesting orders exist: two polls
overlap, two requests race, a third replica comes to a lock two others contend
for, two orders share the escrow while one of them is paid twice. One fault is
enough to break off any single call in any state; that a second one breaks
nothing either is what the theorems add, which hold for every number of faults.
Pages of one account let a scan be passed by an account
that is listed behind or before its cursor. In `OnchainOperator` all amounts of
a loan differ, so that a wrong leg or phase moves a wrong amount; the other
sales (`PrimarySale`, `Buying`, `PrivateOffer`) are read like `Selling` and left
out. A template is tried as a transfer or as a hold, which the contract checks
alike; the templates whose hold may burn are tried as holds. In `PlanApprovals` a
sweep covers one whitelisted asset or both, so that one of them may be refused,
or the sweep broken off, after or before the other was removed. `AdapterBoot` is finite as it
is: its bound is the choice of environments in `MCAdapterBoot`.
`MaxHeight`, `MaxArrived`, `MaxSent` and `MaxChanges` cap counters that grow
for ever. Deadlock is not checked where all requests may be served and
the system rests; `LegacyBoots` checks it, as a replica can always boot or stop.
Symmetry is used only in a run without liveness properties.

## Fairness

Liveness is checked under `FairSpec` of each module, which assumes no more than
the runtime gives: a call whose awaits settle resumes, a timer that is set
fires, a submitted transaction is mined in the end where the code waits for it.
Nothing is assumed of investors, of faults, of crashes or of remappings.
Ticks of `OtaDeposit` are strongly fair because its deposits share the bounded
set of polls, which the runtime does not bound; `Adopt` of `LegacyMigration` is
strongly fair because PostgreSQL queues waiters for a lock in order. In
`PlanApproval` the poll for a top-up gives up on its own, so fairness of the call
suffices and none is asked of the chain. `CustodyWallets` asks it of the scan and
of the lookups past their first await, not of the custodian's listing to stand
still: the listing is bounded by the accounts there are. `OnchainTokens` and
`AdapterBoot` have no liveness property; a start that stops is an exit.

## What is proved

Eight `...Proofs` modules hold theorems for all values of the constants, under
the assumptions the modules name. The form is the same everywhere: an inductive
invariant, a lemma per action or group of actions, and a temporal step. The two
modules of the custody accounts share one, as do the two of the start; so that
one module can speak of both, `CustodyWallets` and `AdapterBoot` call their
`Init`, `Next`, `Spec` and `TypeOK` by names of their own (`WalletsInit`,
`BootInit`, ...).

| Module | Theorems | Inductive invariant |
|---|---|---|
| `PullDepositProofs` | `TypeCorrect`, `OneOpen`, `AcceptedKept`, `AcceptedPolled`, `Told`, `FirstOwn` | a call past `getWatcher` has its watcher, and only that one holds the deposit (`ChosenInv`); a live timer belongs to every open deposit past its seed (`TimerInv`); a poll past its transfer points to the pull it made (`TxInv`), which is what keeps a deposit accounted for when an overlapping poll deletes it, and what tells of the pull; an allowance left over belongs to the investor of the deposit that waits unpulled (`OwnInv`) |
| `OtaDepositProofs` | `TypeCorrect`, `NeverStuck`, `AcceptedKept`, `NeverShort`, `LedgersMatch` | a poll past its balance read holds an amount worth a sweep, one past its transfer has a mined sweep behind it, and the balance is never above what arrived; what a ledger was told plus what running polls have yet to tell it is what was moved, or less once a call has failed (`BookInv`) |
| `StartProofs` on `LegacyMigration` | `TypeCorrect`, `Adopted`, `Atomic`, `InOnePlace`, `NotRerun`, `Kept`, `RaceSafe` | what a transaction holds is committed under its legacy name only and held by nobody else; a pair it has passed is held or adopted; a source seen gone stays gone; each history of the start is in one place (`KeptInv`); what a replica met was taken by its own adapter unless another one's name is on it (`ThrowInv`) |
| `CustodyAccountsProofs` on `CustodyOnboarding` | `TypeCorrect`, `ActiveMapped`, `WinnersOnly` | past the insert the call's address is one recorded for its investor, and before the save it is active |
| `PlanApprovalProofs` | `Typed`, `VetoedUnfunded`, `CoveredSuffices`, `FailsClosed`, `VetoesHaveCause`, `SweptOff` | a call before the funding has paid for nothing; every party the walk has passed is clear unless one was removed since the call began; a covered wallet holds the gas of all its plan has left to sign; an asset a sweep took up is still to be looked at, was refused, or has the wallet off its list (`SweepInv`) |
| `CustodyTokensProofs` | `Typed`, `Accounted`, `Payable`, `PaysOnce`, `PoolKept` | a transaction without a receipt belongs to the running call and a success is one that landed (`CallInv`); a reservation is made by a hold and ended by a settlement (`ReservedInv`); a failed receipt that may hide a payment is of an asset marked as lost (`LossInv`) |
| `CustodyAccountsProofs` on `CustodyWallets` | `WalletsTypeCorrect`, `LookupsSafe` | while a scan runs, each account that had its address when the scan began is cached, waits to be read or stands behind the cursor of the listing; what a DFNS process listed or opened is in its table |
| `OmnibusDelegateProofs` | `Typed`, `NeverShort`, `PoolKept` | calls, answers, destinations, locks and arrivals agree; the token of every locked order has one place, told by the transactions that landed (`Where`); of each asset in order, each wallet holds at least the tokens whose place it is, the omnibus wallet also what is available, kept and arrived unclaimed (`Books`) |
| `OnchainTokensProofs` | `MovesRequested`, `ContextsSame`, `CredentialsBehind` | a call that runs holds a request it may send, a trade only one its template accepts; what is held was moved by a trade (`LockInv`); an investor the process takes for registered, or whose account is stored or being stored, has his credential or lost it to a mapping route (`CredentialInv`) |
| `StartProofs` on `AdapterBoot` | `BootTypeCorrect`, `SlotOwned`, `Whole`, `OneManager` | which guards the start has passed and what they leave behind (`RolesInv`); the slot is the plugin's that has a right to it and whose registrar has had its turn, and it is not empty if there was one (`SlotInv`); outside contract mode managers come from the pool only |

`Accounted` is the balance sheet of the shared escrow: backing plus
settlements paid unseen equals held orders plus stray holds. It is kept by
every landing (both sides move) and every receipt (an entry changes its
column). `Payable` follows from it with a pigeonhole argument: while no answer
was lost, settlements paid but not yet answered belong to distinct held orders
other than the one that is pending, so at least one token is left for it.
`CoveredSuffices` counts with cardinalities of the instructions left to sign.

The two `PoolKept` show that the wallets implement `TokenPool`, step by step. In
direct mode the balance sheet gives what is held and owed, and the pigeonhole
argument that a settlement that lands finds a debt. In omnibus mode the tokens
owed are those with a place in a wallet: the locked orders whose token is gone
are matched one to one with the transactions the ledger has yet to hear of, so
that what the ledger promises less those is what the wallets were counted to
hold.

`FirstOwn` assumes what its property is about: one watcher, no restart and one
approval per deposit for its amount (`OneApprovalEach`). Without any of these the
deviations below arise, so it cannot be had for less. `LedgersMatch`
and `Told` hold without such assumptions and say themselves what a failing call
costs. Sums over the polls of a deposit are counted as tokens, sets of pairs of a
poll and a number, since the prover has no induction over data.

Only model-checked: all liveness properties (`ClaimableIsPulled`,
`FundedIsCredited`, `BootEnds`, `CreateSucceeds`, `ApprovalEnds`, `CallEnds`,
`LookupsEnd`), which the prover cannot treat. Every other property of a passing
run is a theorem.

`ContextsSame` and `Whole` show what the runs' tables cannot: where the two
readings of a template agree, and that what a mode needs is there, for every
template, request and environment, not for the ones somebody thought of. The
proof of `ContextsSame` found two cases where the readings part. One asset may
stand on both sides of a trade, or a money symbol on the asset side: the first
side to match differs between helpers.ts and operation-context.ts.
`ContextsAgree` makes them exceptions for the leg, and `OnchainOperator` has
templates of both kinds. The phase is a third case, and there it does not except
but say exactly when the two differ, in both directions: one test that is off by
one instruction, on either side, breaks it. Who repairs the deviation below has
to change the property with the code. `SlotOwned`
rests on the fact that no two registrars have a right to the slot but those of
DTCC and collateral, and the second of these refuses to start beside the first.

The assumptions on constants are few: the timeouts, amounts and bounds are
numbers, names of one kind are not names of another (`None`, `Absent`), accounts
are finite where pages of them are counted, a contract answers the mode probe
with one of its modes or not at all (`ChainsAssumption`), requests are for the
methods the router has, at a numbered step of a plan, and a transfer names a
destination, which both services require (`RequestsAssumption`).

## Known deviations

The run `OtaLostReceipt` (`OpenIsUnswept`) ends in a counterexample to a comment:
if waiting for a mined sweep throws, the next poll finds an empty address, not
"the same balance" (balance-watcher.ts:73-74), and the deposit never completes.

Further ones, found while modelling and without a run of their own:

- An approval pays the oldest deposit open when it is handled, whoever gave it
  (`FirstPullIsOwn` of `PullDeposit` fails with `Discipline = "open"`), and with
  three deposits a poll that matched a deposit before another poll settled it
  goes on and pulls for it again, with the approval another investor gave for the
  next deposit.  approval-watcher.ts:26-27 claims that one open deposit per
  contract eliminates cross-investor mis-credits.
- If `getBlockNumber` throws, a pull deposit is answered as failed while it
  stays in the map without a timer and blocks the contract until a restart
  (`FailedHoldsNothing` of `PullDeposit`).
- A replayed create with another vault stores that vault's id beside the address
  recorded first (`SignerIsLedgerAccount` of `CustodyOnboarding`), so later
  operations sign with a wallet that is not the ledger account.
- A pull whose `wait()` throws after mining leaves the deposit open; with
  allowance left the next poll pulls again, while pull-deposit/models.ts:3-4
  says it is cleared once the transfer succeeds.
- Two first requests for pull deposits create two watchers (plugin.ts:125-138);
  the one-deposit rule then holds for each but not across both.
- A failed hook, import or archive after a pull or a sweep is final; nothing
  retries it (ota-deposit/models.ts:4-6 says a deposit is cleared once the
  receipt is exported).
- Two adapters with different schemas on one database contend for the same
  legacy tables; the first one takes them and the other starts afresh.
- Concurrent creates run activation and gas funding from one wallet, which
  wallet-activation.ts:16-17 tells callers not to do.
- option.ts:15-18 says an option that throws rejects the plan; for options that
  do not gate, the service skips it (configurable-plan-approval-service.ts:54-66).
- Plans that share a signer drain each other's gas, as token-service.ts:43-57
  admits.
- A settlement that was mined but answered as failed is followed by a rollback
  that pays another order's token. `EscrowAccounted` shows exactly this as the
  `Unseen` column, `HeldIsPayable` its consequence.
- omnibus-delegate.ts:205-216 takes a mapped destination of a release for an
  investor of the pool. A partner mapped so that outbound transfers find him has
  his released tokens stay in the omnibus wallet (`Kept`), and an investor
  unmapped since his hold has his leave it although the ledger keeps them.
- vaults.ts:83-88 says an address that is not found makes `fetchAllVaults` run
  again. A lookup that comes while a scan runs joins it instead and is answered
  from a listing that may be older than the vault (`began` in `CustodyWallets`).
- vaults.ts:11 falls back to 1000 ms with `??`, which a missing header never
  reaches: `Number(undefined)` is NaN, and the retries follow at once.
- dfns/provider.ts:39 reads the first page of the wallets only.
- helpers.ts:243-248 takes USD and USDC for one asset, so the contract may move
  another symbol than request and receipt name; the direct services compare by
  name and read the same instruction as the asset leg; where one id stands in both
  terms of a template they may differ too. redeem, release and
  rollback put the request's asset on a receipt although the contract was given
  the operation id only, and a rollback not even the source and the quantity.
- A `createAsset` that fails after deploying or associating leaves the token, or
  the association, behind (token-service.ts:76-103).
- signer-pool.ts:15-19 promises one nonce manager per key; the operator's in
  contract mode is made beside the pool (config.ts:91), so a collateral agent
  with the operator's key has two. collateral/index.ts:16-24 says that the keys
  are separate, nothing enforces it. `OneManagerPerKey` is stated for custody.
- DTCC and collateral plugins in omnibus mode are built without the inbound
  hook; app.ts:343 hands plugins a `finP2PClient!` that is undefined when
  FINP2P_ADDRESS or OSS_URL is not set under a custody provider.
- operation-context.ts:11 says "sequence > 3" where 28-29 test `> 4`, and the
  on-chain service tests `> 3` (helpers.ts:160): a loan's fourth instruction is
  closing for one and opening for the other, and the fifth of any other trade
  closes for the direct services only (`ContextsAgree`);
  docs/omnibus-mode.md says receipts are polled for up to 5 seconds where the
  default is 180000 ms (omnibus-delegate.ts:27).

## What is not modelled

- The nonces behind a nonce manager: they are kept by ethers. The wallet
  resolver, operation status, receipts, balances and health only read.
- The raw signer of Fireblocks, a signing protocol without state of its own;
  `getCollectedAddresses`, `getVaultAssetBalance` and
  `transferAssetFromVaultToVault`, which have no caller; archiving of accounts.
- The operator contract beyond what the service asks of it.
- Amounts in `CustodyTokens` are one token and decimals do not appear;
  conversions between units are exact on the amounts the watchers handle.
- The create-new mode of the network-account service, the account-mapping HTTP
  route, validation of formats, proofs, logging.
- Reorganizations: the code treats a mined transaction as final.
- The ledger of the vanilla service beyond what the delegate is called for;
  the delegate's deposit instructions, balance reads and payout, which change
  nothing.
- Crashes in `PlanApproval`, `CustodyTokens` and `OmnibusDelegate`: the services keep nothing, and
  the record of a request that died belongs to the workflow proxy of the
  skeleton package, which is outside the repository.
- HTTP routing, middleware and log redaction. The adapter-contract package is an
  interface without code, and the scripts are run by hand beside nothing else.

## Plan

In the order of importance; all but the last group are done.

1. `PullDeposit`, `OtaDeposit`: the deposit watchers.
2. `LegacyMigration`: boots of several replicas.
3. `CustodyOnboarding`: bindings, activation, mapping.
4. `PlanApproval`: the gate, funding, whitelists.
5. `CustodyTokens`: the shared escrow.
6. Proofs of the types and the main invariant of each.
7. `OmnibusDelegate` over a ledger, and the `TokenPool` it implements.
8. `CustodyWallets`: shared scans against accounts created meanwhile, with the
   proof that a lookup finds what existed when it began.
9. `OnchainTokens`: requests against signed templates, the credential cache, and
   the operation context of the direct services beside them.
10. `AdapterBoot`: the start under every configuration.

Open: an abstract deposit (`asked`, `accepted`, `settled`, `told`) that both
watchers implement; the composition of `PlanApproval` and `CustodyTokens`, where
the execution of an approved plan is a sequence of orders.
