--------------------------- MODULE CustodyWallets ---------------------------
(***************************************************************************)
(* How a custody provider finds the account behind an on-chain address     *)
(* (resolveWallet, used by the direct token service to find the signer of  *)
(* an instruction) and how it opens new accounts (createCustodyAccount).   *)
(*                                                                         *)
(* Fireblocks (vaults.ts) has no lookup by address: the adapter lists all  *)
(* vaults page by page, reads the deposit addresses of every asset of      *)
(* every vault into a cache and shares one running scan between all the    *)
(* calls that ask for it.  DFNS reads its wallets once at boot and adds    *)
(* the wallets it creates itself.                                          *)
(*                                                                         *)
(* An account stands for its address as well: an EVM account has one       *)
(* address for all its assets.  Between two awaits of a call other calls,  *)
(* other clients of the custodian and a restart may come.                  *)
(***************************************************************************)
EXTENDS Integers, FiniteSets

CONSTANTS
  Accounts,      \* vaults or wallets that may exist at the custodian
  Stranger,      \* an address that is not in custody
  Lookups,       \* calls of resolveWallet
  Starts,        \* listings the custodian may have when the adapter boots
  PageSize,      \* accounts in one page of a listing
  Retries,       \* retries of a call that was rate limited (30 in the code)
  MaxFailures,   \* bound: calls of the custodian that fail
  MaxRestarts    \* bound: restarts of the adapter

ASSUME AccountsAssumption == IsFiniteSet(Accounts)
ASSUME StrangerAssumption == Stranger \notin Accounts
ASSUME SizeAssumption ==
  PageSize \in Nat \ {0} /\ Retries \in Nat /\ MaxFailures \in Nat /\ MaxRestarts \in Nat
ASSUME StartsAssumption == Starts \subseteq [Accounts -> Nat]

VARIABLES
  provider,   \* "fireblocks" or "dfns"
  place,      \* custodian: position of an account in the listing, 0 when it does not exist
  held,       \* custodian: accounts with an asset; without one there is no address
  ready,      \* custodian: accounts whose address has been assigned
  made,       \* createCustodyAccount for an account: how far it got
  known,      \* addressLeafCache, or addressToWalletId of DFNS: accounts found by address
  scan,       \* the scan behind activeScanPromise
  scanned,    \* initialScanComplete
  lookup,     \* the lookups
  booted,     \* history: accounts of the first page with an address at boot
  failures, restarts

custodian == <<place, held, ready>>
bounds == <<failures, restarts>>
walletVars == <<provider, custodian, made, known, scan, scanned, lookup, booted, bounds>>

-----------------------------------------------------------------------------
Listed == {v \in Accounts : place[v] # 0}

(* What can be found: the accounts that have an address. *)
There == held \cap ready

(* No scan is running. *)
Idle == [pc |-> "idle", after |-> 0, work |-> {}, tries |-> 0, began |-> {}]

(* A page of a listing, after the first n accounts. *)
Page(n) == {v \in Accounts : place[v] > n /\ place[v] <= n + PageSize}

(* The wallets DFNS lists without a page token: the first page, and of those
   the ones that have an address. *)
FirstWallets == {v \in Page(0) : v \in ready}

NoCall == [pc |-> "new", want |-> Stranger, answer |-> "none", relied |-> FALSE]
Thrown == [NoCall EXCEPT !.pc = "thrown"]
Found == [NoCall EXCEPT !.pc = "done", !.answer = "found"]

WalletsInit ==
  /\ provider \in {"fireblocks", "dfns"}
  /\ place \in Starts
  /\ ready = Listed
  /\ held = Listed
  /\ made = [v \in Accounts |-> IF v \in Listed THEN "outside" ELSE "no"]
  /\ known = IF provider = "dfns" THEN FirstWallets ELSE {}
  /\ scan = Idle
  /\ scanned = FALSE
  /\ lookup = [l \in Lookups |-> NoCall]
  /\ booted = FirstWallets
  /\ failures = 0
  /\ restarts = 0

CallFails == failures < MaxFailures /\ failures' = failures + 1 /\ UNCHANGED restarts

-----------------------------------------------------------------------------
(***************************************************************************)
(* Scanning the vaults                                                     *)
(***************************************************************************)
(* rescan: the running scan, or a new one when none is running. *)
Rescan ==
  scan' = IF scan.pc = "idle" THEN [Idle EXCEPT !.pc = "pages", !.began = There] ELSE scan

(* The calls that wait for the scan go on when it ends, and throw when it
   fails: `finally` has already forgotten the promise. *)
Waiting(l) == lookup[l].pc \in {"initial", "again"}
EndScan ==
  /\ scan' = Idle
  /\ lookup' = [l \in Lookups |->
                IF Waiting(l)
                THEN [lookup[l] EXCEPT !.pc = IF @ = "initial" THEN "look" ELSE "final",
                                     !.relied = lookup[l].want \in scan.began]
                ELSE lookup[l]]

(* The slip: a failed scan leaves the calls that joined it waiting. *)
MutantFailScan ==
  /\ scan' = Idle
  /\ lookup' = [l \in Lookups |-> IF lookup[l].pc = "initial" THEN Thrown ELSE lookup[l]]

FailScan ==
  /\ scan' = Idle
  /\ lookup' = [l \in Lookups |-> IF Waiting(l) THEN Thrown ELSE lookup[l]]

(* The slip: the cursor of the first page is not followed. *)
MutantReadPage ==
  /\ scan.pc = "pages"
  /\ scan' = [scan EXCEPT !.pc = "vaults", !.work = Page(scan.after) \cap held, !.tries = 0]
  /\ UNCHANGED <<provider, custodian, made, known, scanned, lookup, booted, bounds>>

(* autoPaginate: one page.  A vault's assets are those of the moment its page
   was read; without a cursor the listing is over. *)
ReadPage ==
  /\ scan.pc = "pages"
  /\ LET work == scan.work \cup (Page(scan.after) \cap held)
         more == \E v \in Accounts : place[v] > scan.after + PageSize
     IN IF more
        THEN scan' = [scan EXCEPT !.after = @ + PageSize, !.work = work, !.tries = 0]
        ELSE scan' = [scan EXCEPT !.pc = "vaults", !.work = work, !.tries = 0]
  /\ UNCHANGED <<provider, custodian, made, known, scanned, lookup, booted, bounds>>

(* The deposit addresses of one vault go into the cache, in the order of the
   listing. *)
ReadVault(v) ==
  /\ scan.pc = "vaults" /\ v \in scan.work
  /\ \A w \in scan.work : place[v] <= place[w]
  /\ scan' = [scan EXCEPT !.work = @ \ {v}, !.tries = 0]
  /\ known' = known \cup ({v} \cap ready)
  /\ UNCHANGED <<provider, custodian, made, scanned, lookup, booted, bounds>>

ScanEnds ==
  /\ scan.pc = "vaults" /\ scan.work = {}
  /\ EndScan
  /\ UNCHANGED <<provider, custodian, made, known, scanned, booted, bounds>>

(* A call of the custodian is under way. *)
Reading == scan.pc = "pages" \/ (scan.pc = "vaults" /\ scan.work # {})

(* retryIfRateLimited: the call is made again, up to Retries times. *)
RateLimited ==
  /\ Reading
  /\ IF scan.tries < Retries
     THEN scan' = [scan EXCEPT !.tries = @ + 1] /\ UNCHANGED lookup
     ELSE FailScan
  /\ UNCHANGED <<provider, custodian, made, known, scanned, booted, bounds>>

(* Any other error ends the scan. *)
ScanFails ==
  /\ Reading
  /\ FailScan
  /\ CallFails
  /\ UNCHANGED <<provider, custodian, made, known, scanned, booted>>

-----------------------------------------------------------------------------
(***************************************************************************)
(* resolveWallet                                                           *)
(***************************************************************************)
Cached(l) == lookup[l].want \in known

(* The wallets DFNS was shown at boot, and those this process opened. *)
Own == booted \cup {v \in Accounts : made[v] = "returned"}

(* A call for an address the caller has been given: of an account, whoever
   opened it, or of nobody's. *)
Ask(l, v) ==
  /\ lookup[l].pc = "new"
  /\ v \in ready \cup {Stranger}
  /\ LET asked == [NoCall EXCEPT !.want = v] IN
     IF provider = "fireblocks"
     THEN IF scanned
          THEN /\ lookup' = [lookup EXCEPT ![l] = [asked EXCEPT !.pc = "look"]]
               /\ UNCHANGED scan
          ELSE /\ lookup' = [lookup EXCEPT ![l] = [asked EXCEPT !.pc = "initial"]]
               /\ Rescan
     ELSE /\ lookup' = [lookup EXCEPT ![l] =     \* DFNS: the map decides at once
                IF v \in known THEN Found
                ELSE [asked EXCEPT !.pc = "done", !.answer = "unknown", !.relied = v \in Own]]
          /\ UNCHANGED scan
  /\ UNCHANGED <<provider, custodian, made, known, scanned, booted, bounds>>

(* The cache is filled once: look, and scan again for what is not there. *)
Look(l) ==
  /\ lookup[l].pc = "look"
  /\ scanned' = TRUE
  /\ IF Cached(l)
     THEN lookup' = [lookup EXCEPT ![l].pc = "wallet"] /\ UNCHANGED scan
     ELSE lookup' = [lookup EXCEPT ![l].pc = "again"] /\ Rescan
  /\ UNCHANGED <<provider, custodian, made, known, booted, bounds>>

Final(l) ==
  /\ lookup[l].pc = "final"
  /\ lookup' = [lookup EXCEPT ![l] = IF Cached(l) THEN [@ EXCEPT !.pc = "wallet"]
                                 ELSE [@ EXCEPT !.pc = "done", !.answer = "unknown"]]
  /\ UNCHANGED <<provider, custodian, made, known, scan, scanned, booted, bounds>>

(* createWalletForCustodyId of the vault. *)
Answer(l) ==
  /\ lookup[l].pc = "wallet"
  /\ lookup' = [lookup EXCEPT ![l] = Found]
  /\ UNCHANGED <<provider, custodian, made, known, scan, scanned, booted, bounds>>
AnswerFails(l) ==
  /\ lookup[l].pc = "wallet"
  /\ lookup' = [lookup EXCEPT ![l] = Thrown]
  /\ CallFails
  /\ UNCHANGED <<provider, custodian, made, known, scan, scanned, booted>>

-----------------------------------------------------------------------------
(***************************************************************************)
(* createCustodyAccount                                                    *)
(***************************************************************************)
Listing(v) == place' = [place EXCEPT ![v] = Cardinality(Listed) + 1]

(* Fireblocks: a vault, then the asset in it, whose address may not be there
   at once; then the addresses are read once. *)
CreateVault(v) ==
  /\ provider = "fireblocks" /\ made[v] = "no"
  /\ Listing(v)
  /\ made' = [made EXCEPT ![v] = "vault"]
  /\ UNCHANGED <<provider, held, ready, known, scan, scanned, lookup, booted, bounds>>
CreateAsset(v) ==
  /\ made[v] = "vault"
  /\ held' = held \cup {v}
  /\ \/ ready' = ready \cup {v} /\ made' = [made EXCEPT ![v] = "returned"]
     \/ ready' = ready /\ made' = [made EXCEPT ![v] = "addresses"]
  /\ UNCHANGED <<provider, place, known, scan, scanned, lookup, booted, bounds>>
ReadAddresses(v) ==
  /\ made[v] = "addresses"
  /\ made' = [made EXCEPT ![v] = IF v \in ready THEN "returned" ELSE "thrown"]
  /\ UNCHANGED <<provider, custodian, known, scan, scanned, lookup, booted, bounds>>
CreationFails(v) ==
  /\ made[v] \in {"vault", "addresses"}
  /\ made' = [made EXCEPT ![v] = "thrown"]
  /\ CallFails
  /\ UNCHANGED <<provider, custodian, known, scan, scanned, lookup, booted>>

(* DFNS: one call; without an address the wallet is left out of the map. *)
CreateWallet(v) ==
  /\ provider = "dfns" /\ made[v] = "no"
  /\ Listing(v)
  /\ held' = held \cup {v}
  /\ \/ /\ ready' = ready \cup {v}
        /\ known' = known \cup {v}
        /\ made' = [made EXCEPT ![v] = "returned"]
     \/ /\ made' = [made EXCEPT ![v] = "thrown"]
        /\ UNCHANGED <<ready, known>>
  /\ UNCHANGED <<provider, scan, scanned, lookup, booted, bounds>>

-----------------------------------------------------------------------------
(***************************************************************************)
(* The custodian and the process                                           *)
(***************************************************************************)
(* The custodian assigns the address of an account later than it said. *)
AssignAddress(v) ==
  /\ v \in held \ ready
  /\ ready' = ready \cup {v}
  /\ UNCHANGED <<provider, place, held, made, known, scan, scanned, lookup, booted, bounds>>

(* Another client of the custodian, or its console, opens an account. *)
OpenOutside(v) ==
  /\ made[v] = "no"
  /\ Listing(v)
  /\ held' = held \cup {v}
  /\ ready' = ready \cup {v}
  /\ made' = [made EXCEPT ![v] = "outside"]
  /\ UNCHANGED <<provider, known, scan, scanned, lookup, booted, bounds>>

(* The process restarts: cache, scan and running calls are gone, and DFNS
   lists its wallets anew. *)
Restart ==
  /\ restarts < MaxRestarts
  /\ restarts' = restarts + 1
  /\ known' = IF provider = "dfns" THEN FirstWallets ELSE {}
  /\ scan' = Idle
  /\ scanned' = FALSE
  /\ lookup' = [l \in Lookups |-> IF lookup[l].pc \in {"new", "done"} THEN lookup[l] ELSE Thrown]
  /\ made' = [v \in Accounts |-> IF made[v] \in {"no", "outside"} THEN made[v] ELSE "earlier"]
  /\ booted' = FirstWallets
  /\ UNCHANGED <<provider, custodian, failures>>

ScanStep == ReadPage \/ (\E v \in Accounts : ReadVault(v)) \/ ScanEnds
LookupStep(l) == Look(l) \/ Final(l) \/ Answer(l)

WalletsNext ==
  \/ ScanStep \/ RateLimited \/ ScanFails
  \/ \E l \in Lookups :
       \/ \E v \in Accounts \cup {Stranger} : Ask(l, v)
       \/ LookupStep(l) \/ AnswerFails(l)
  \/ \E v \in Accounts :
       \/ CreateVault(v) \/ CreateAsset(v) \/ ReadAddresses(v) \/ CreationFails(v) \/ CreateWallet(v)
       \/ AssignAddress(v) \/ OpenOutside(v)
  \/ Restart

(* The event loop runs the scan and the calls that wait for it. *)
WalletsSpec == /\ WalletsInit /\ [][WalletsNext]_walletVars
        /\ WF_walletVars(ScanStep)
        /\ \A l \in Lookups : WF_walletVars(LookupStep(l))

-----------------------------------------------------------------------------
(***************************************************************************)
(* Properties                                                              *)
(***************************************************************************)
Scans == [pc : {"idle", "pages", "vaults"}, after : Nat, work : SUBSET Accounts,
          tries : 0..Retries, began : SUBSET Accounts]
LookupStates == [pc : {"new", "initial", "look", "again", "final", "wallet", "done", "thrown"},
          want : Accounts \cup {Stranger}, answer : {"none", "found", "unknown"},
          relied : BOOLEAN]

(* The cache, the scan and the calls keep to their shapes. *)
WalletsTypeOK ==
  /\ provider \in {"fireblocks", "dfns"}
  /\ place \in [Accounts -> Nat]
  /\ held \subseteq Accounts
  /\ ready \subseteq Accounts
  /\ made \in [Accounts -> {"no", "vault", "addresses", "returned", "thrown", "outside", "earlier"}]
  /\ known \subseteq Accounts
  /\ scan \in Scans
  /\ scanned \in BOOLEAN
  /\ lookup \in [Lookups -> LookupStates]
  /\ booted \subseteq Accounts
  /\ failures \in 0..MaxFailures /\ restarts \in 0..MaxRestarts

(* A call is told that an address is not in custody only of an account that
   was not there when the scan it waited for began, however the pages, the
   vaults and the other calls interleave with it; with DFNS, of a wallet that
   was neither in the listing of the boot nor opened by this process. *)
UnknownHasCause == \A l \in Lookups : lookup[l].answer = "unknown" => ~lookup[l].relied

(* Every call is answered or throws: no call waits for a scan that is over,
   whether it ended, failed or was rate limited to the end. *)
LookupsEnd == \A l \in Lookups : lookup[l].pc # "new" ~> lookup[l].pc \in {"done", "thrown"}
=============================================================================
