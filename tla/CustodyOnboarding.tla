-------------------------- MODULE CustodyOnboarding --------------------------
(***************************************************************************)
(* Onboarding of investors in the custody modes: the network-account       *)
(* binding, the one-time activation of its wallet, and the account mapping *)
(* that every later operation signs from.                                  *)
(*                                                                         *)
(* The module follows custody/network-account-service.ts and               *)
(* gas-station/wallet-activation.ts.  createAccount calls run in the       *)
(* handlers of concurrent HTTP requests; every await is a step boundary.   *)
(* The binding store, the mapping store and the chain are modelled from    *)
(* how that code uses them.                                                *)
(***************************************************************************)
EXTENDS Integers, FiniteSets

CONSTANTS
  Investors,     (* finIds                                                 *)
  Assets,        (* assets an investor can be bound for                    *)
  Vaults,        (* custody account ids                                    *)
  Wallets,       (* EVM addresses                                          *)
  AddressOf,     (* [Vaults -> Wallets], resolveAddressFromCustodyId       *)
  Calls,         (* createAccount calls                                    *)
  None,          (* no row, no field, nothing resolved                     *)
  Activating,    (* is there a walletActivator (Hedera-style network)      *)
  MaxSent, MaxFaults                   (* bounds                           *)

ASSUME DataAssumption ==
  /\ AddressOf \in [Vaults -> Wallets]
  /\ \A v, w \in Vaults : AddressOf[v] = AddressOf[w] => v = w
  /\ Vaults \cap Wallets = {}
  /\ None \notin Vaults \cup Wallets \cup Investors \cup Assets
  /\ Activating \in BOOLEAN
ASSUME BoundsAssumption == MaxSent \in Nat /\ MaxFaults \in Nat

VARIABLES
  call,          (* the createAccount calls                                *)
  rows,          (* network-account store: [Investors -> [Assets -> ..]]   *)
  mapping,       (* account mapping: [Investors -> [ledger, custody]]      *)
  balance,       (* chain: native transfers received, per wallet           *)
  sent,          (* chain: native transfers submitted, per wallet          *)
  recorded,      (* history: the addresses each investor was ever bound to *)
  faults

vars == <<call, rows, mapping, balance, sent, recorded, faults>>

(* A bind names a vault (custodialAccount, or the temporary overload of
   walletAccount) or an EVM address. *)
Binds == Vaults \cup Wallets

CallStates == {"none", "resolve", "insert", "check", "send", "poll", "save", "done", "failed", "rejected"}

(* The locals of a createAccount call. *)
Unused == [pc |-> "none", fin |-> None, asset |-> None, vault |-> None, address |-> None]
Unmapped == [ledger |-> None, custody |-> None]

At(c, pc) == call' = [call EXCEPT ![c] = [@ EXCEPT !.pc = pc]]

(* Operators named Mutant... are plausible slips in the definition they
   precede; no specification uses them. *)

Fault == faults < MaxFaults /\ faults' = faults + 1

Init ==
  /\ call = [c \in Calls |-> Unused]
  /\ rows = [f \in Investors |-> [a \in Assets |-> None]]
  /\ mapping = [f \in Investors |-> Unmapped]
  /\ balance = [w \in Wallets |-> 0]
  /\ sent = balance
  /\ recorded = [f \in Investors |-> {}]
  /\ faults = 0

-----------------------------------------------------------------------------
(***************************************************************************)
(* createAccount                                                           *)
(***************************************************************************)

(* A bind to a vault is resolved first, an EVM address is taken as it is. *)
CreateAccount(c, f, a, bind) ==
  /\ call[c].pc = "none"
  /\ call' = [call EXCEPT ![c] =
       IF bind \in Vaults
       THEN [pc |-> "resolve", fin |-> f, asset |-> a, vault |-> bind, address |-> None]
       ELSE [pc |-> "insert", fin |-> f, asset |-> a, vault |-> None, address |-> bind]]
  /\ UNCHANGED <<rows, mapping, balance, sent, recorded, faults>>

ResolveCustodyAddress(c) ==
  /\ call[c].pc = "resolve"
  /\ call' = [call EXCEPT ![c] = [@ EXCEPT !.pc = "insert", !.address = AddressOf[call[c].vault]]]
  /\ UNCHANGED <<rows, mapping, balance, sent, recorded, faults>>

(* What createAccount goes on with after the insert. *)
Recorded(pc) == IF Activating THEN pc ELSE "save"

(* super.createAccount: the insert is atomic and answers with the row that is
   in the store, which an earlier create may have put there.  The slips use
   the requested address, or treat the earlier row as a conflict. *)
MutantInsert(c) ==
  LET q == call[c] IN
  /\ q.pc = "insert"
  /\ rows' = IF rows[q.fin][q.asset] = None
             THEN [rows EXCEPT ![q.fin][q.asset] = q.address] ELSE rows
  /\ recorded' = IF rows[q.fin][q.asset] = None
                 THEN [recorded EXCEPT ![q.fin] = @ \cup {q.address}] ELSE recorded
  /\ At(c, Recorded("check"))
  /\ UNCHANGED <<mapping, balance, sent, faults>>
MutantInsertConflict(c) ==
  LET q == call[c] IN
  /\ q.pc = "insert"
  /\ rows' = [rows EXCEPT ![q.fin][q.asset] = IF @ = None THEN q.address ELSE @]
  /\ recorded' = [recorded EXCEPT ![q.fin] = @ \cup {rows'[q.fin][q.asset]}]
  /\ At(c, IF rows[q.fin][q.asset] = None THEN Recorded("check") ELSE "rejected")
  /\ UNCHANGED <<mapping, balance, sent, faults>>
Insert(c) ==
  LET q == call[c] IN
  /\ q.pc = "insert"
  /\ rows' = [rows EXCEPT ![q.fin][q.asset] = IF @ = None THEN q.address ELSE @]
  /\ LET row == rows'[q.fin][q.asset] IN
     /\ recorded' = [recorded EXCEPT ![q.fin] = @ \cup {row}]
     /\ call' = [call EXCEPT ![c] = [@ EXCEPT !.pc = Recorded("check"), !.address = row]]
  /\ UNCHANGED <<mapping, balance, sent, faults>>

(* ensureActivated: getBalance, sendTransaction, then getBalance until it
   shows the transfer. *)
CheckActive(c) ==
  /\ call[c].pc = "check"
  /\ At(c, IF balance[call[c].address] > 0 THEN "save" ELSE "send")
  /\ UNCHANGED <<rows, mapping, balance, sent, recorded, faults>>

SendActivation(c) ==
  LET w == call[c].address IN
  /\ call[c].pc = "send"
  /\ sent[w] < MaxSent
  /\ sent' = [sent EXCEPT ![w] = @ + 1]
  /\ At(c, "poll")
  /\ UNCHANGED <<rows, mapping, balance, recorded, faults>>

PollBalance(c) ==
  /\ call[c].pc = "poll"
  /\ balance[call[c].address] > 0
  /\ At(c, "save")
  /\ UNCHANGED <<rows, mapping, balance, sent, recorded, faults>>

(* saveAccount, keyed by finId; it replaces the mapping. *)
SaveAccount(c) ==
  LET q == call[c] IN
  /\ q.pc = "save"
  /\ mapping' = [mapping EXCEPT ![q.fin] = [ledger |-> q.address, custody |-> q.vault]]
  /\ At(c, "done")
  /\ UNCHANGED <<rows, balance, sent, recorded, faults>>

(* An awaited call throws.  During the activation (a failed read or send, or
   the timeout of the poll) the operation is reported as failed, anywhere else
   the exception reaches the caller.  The slip logs the failed activation and
   goes on. *)
MutantFails(c) ==
  /\ call[c].pc \in {"check", "send", "poll"}
  /\ Fault
  /\ At(c, "save")
  /\ UNCHANGED <<rows, mapping, balance, sent, recorded>>
Fails(c) ==
  /\ call[c].pc \in {"resolve", "insert", "check", "send", "poll", "save"}
  /\ Fault
  /\ At(c, IF call[c].pc \in {"check", "send", "poll"} THEN "failed" ELSE "rejected")
  /\ UNCHANGED <<rows, mapping, balance, sent, recorded>>

-----------------------------------------------------------------------------
(* removeAccount unbinds one asset; the mapping stays. *)
RemoveAccount(f, a) ==
  /\ rows[f][a] # None
  /\ rows' = [rows EXCEPT ![f][a] = None]
  /\ UNCHANGED <<call, mapping, balance, sent, recorded, faults>>

(* A submitted transfer is mined. *)
Mine(w) ==
  /\ balance[w] < sent[w]
  /\ balance' = [balance EXCEPT ![w] = @ + 1]
  /\ UNCHANGED <<call, rows, mapping, sent, recorded, faults>>

CallStep(c) ==
  \/ ResolveCustodyAddress(c) \/ Insert(c) \/ CheckActive(c) \/ SendActivation(c)
  \/ PollBalance(c) \/ SaveAccount(c)

Next ==
  \/ \E c \in Calls :
       \/ \E f \in Investors, a \in Assets, bind \in Binds : CreateAccount(c, f, a, bind)
       \/ CallStep(c) \/ Fails(c)
  \/ \E f \in Investors, a \in Assets : RemoveAccount(f, a)
  \/ \E w \in Wallets : Mine(w)

Spec == Init /\ [][Next]_vars

(* Awaits are answered and submitted transfers are mined. *)
FairSpec ==
  /\ Spec
  /\ \A c \in Calls : WF_vars(CallStep(c))
  /\ \A w \in Wallets : WF_vars(Mine(w))

(* CustodyTokenService.resolveSourceWallet: the address an operation of f works
   on and the wallet that signs it.  Only a wallet in custody can be found by
   its address. *)
SourceWallet(f) ==
  LET m == mapping[f] IN
  IF m.custody # None THEN [address |-> m.ledger, signer |-> AddressOf[m.custody]]
  ELSE IF \E v \in Vaults : AddressOf[v] = m.ledger THEN [address |-> m.ledger, signer |-> m.ledger]
  ELSE [address |-> None, signer |-> None]

-----------------------------------------------------------------------------
(***************************************************************************)
(* Properties                                                              *)
(***************************************************************************)

CallRecords ==
  [pc : CallStates, fin : Investors \cup {None}, asset : Assets \cup {None},
   vault : Vaults \cup {None}, address : Wallets \cup {None}]

(* Every variable keeps its type, and a call that runs knows its investor, its
   asset and, once resolved, its address. *)
TypeOK ==
  /\ call \in [Calls -> CallRecords]
  /\ \A c \in Calls : call[c].pc # "none" =>
       /\ call[c].fin \in Investors /\ call[c].asset \in Assets
       /\ call[c].pc = "resolve" => call[c].vault \in Vaults
       /\ call[c].pc \notin {"resolve", "rejected"} => call[c].address \in Wallets
  /\ rows \in [Investors -> [Assets -> Wallets \cup {None}]]
  /\ mapping \in [Investors -> [ledger : Wallets \cup {None}, custody : Vaults \cup {None}]]
  /\ balance \in [Wallets -> Nat] /\ sent \in [Wallets -> Nat]
  /\ recorded \in [Investors -> SUBSET Wallets]
  /\ faults \in Nat

(* network-account-service.ts:33-36: "An activation failure fails the onboarding
   before the account mapping is mirrored": where wallets need activation, an
   operation can only ever resolve to a wallet that is active. *)
MappedIsActive ==
  Activating =>
    \A f \in Investors : mapping[f].ledger # None => balance[mapping[f].ledger] > 0

(* network-account-service.ts:33-34: "only the winning binding is ever funded",
   and only it is mirrored: no address that lost the insert is sent native
   funds or becomes the investor's operational wallet. *)
OnlyWinnersCount ==
  /\ \A w \in Wallets : sent[w] > 0 => \E f \in Investors : w \in recorded[f]
  /\ \A f \in Investors : mapping[f].ledger # None => mapping[f].ledger \in recorded[f]

(* network-account-service.ts:36-37: "a repeat create replays the binding and
   re-attempts the idempotent activation": whoever created the row before, and
   however far it got, a create succeeds unless an awaited call fails. *)
CreateSucceeds == \A c \in Calls : call[c].pc = "resolve" ~> (call[c].pc = "done" \/ faults > 0)

(* network-account-service.ts:28-29: "the custody account id is kept on the
   mapping so per-operation signing skips the vault scan": the wallet found that
   way signs for the investor's ledger address.  The code does not keep this: a
   replayed create with another vault mirrors that vault beside the address
   recorded first (README, deviations). *)
SignerIsLedgerAccount == \A f \in Investors : SourceWallet(f).signer = SourceWallet(f).address
=============================================================================
