---------------------------- MODULE AdapterBoot ----------------------------
(***************************************************************************)
(* One start of the adapter (src/src/index.ts, app.ts, config.ts and the   *)
(* registrars under integrations/): what it requires of its environment,   *)
(* which wallets it fabricates for its roles, which token standards,       *)
(* deposit plugin and signers it registers, in which order, and which      *)
(* services it ends up serving.  Every step either passes or throws, and a *)
(* start that throws exits.                                                *)
(***************************************************************************)
EXTENDS Naturals, Sequences

CONSTANTS
  Envs,      \* the environments the process may be started in
  Chains     \* what the network answers: its contract's standard, its mode, its kind

ASSUME ChainsAssumption == \A c \in Chains : c.mode \in {"mapping", "derivation", "unanswered"}

VARIABLES
  env,       \* the variables that are set, those of them that do not parse, the keys
  chain,
  step,        \* the step the start has come to
  custody,   \* a custody provider is active
  wallets,   \* the account each role's wallet is fabricated from
  read,      \* where the read-only provider comes from
  activates, \* the onboarding service holds a wallet activator
  mode,      \* the contract's wallet resolution, as probed
  hook,      \* the omnibus ledger's inbound transfer hook
  standards, \* the token standards registered
  managers,  \* the nonce managers in the process, with the pool entry each is kept under
  slot,      \* the plugins registered for payments, in order
  services   \* what is served

settings == <<env, chain>>
roles == <<custody, wallets, read, activates>>
plugins == <<standards, slot>>
bootVars == <<settings, step, roles, mode, hook, plugins, managers, services>>

None == "none"
Contract == env.type = "finp2p-contract"
Omnibus == env.model = "omnibus"
Given(v) == v \in env.set
Usable(vs) == vs \cap env.bad = {}

(***************************************************************************)
(* The configuration.                                                      *)
(***************************************************************************)
Connected == {"MIGRATION_CONNECTION_STRING", "DB_CONNECTION_STRING", "LEDGER_USER"} \subseteq env.set

Credentials ==
  [type \in {"finp2p-contract", "fireblocks", "dfns", "other"} |->
     CASE type = "finp2p-contract" ->
            {"FINP2P_CONTRACT_ADDRESS", "ORGANIZATION_ID", "FINP2P_ADDRESS", "OSS_URL",
             "NETWORK_HOST", "OPERATOR_PRIVATE_KEY"}
       [] type = "fireblocks" -> {"FIREBLOCKS_API_KEY", "FIREBLOCKS_API_PRIVATE_KEY"}
       [] type = "dfns" ->
            {"DFNS_ORG_ID", "DFNS_AUTH_TOKEN", "DFNS_CRED_ID", "DFNS_PRIVATE_KEY", "NETWORK_HOST"}
       [] type = "other" -> {"NETWORK_HOST"}]

OmnibusAccount ==
  IF Given("OMNIBUS_CUSTODY_ACCOUNT_ID") THEN "OMNIBUS_CUSTODY_ACCOUNT_ID" ELSE None
(* The escrow account, or the omnibus account in its place. *)
EscrowAccount ==
  IF Given("ASSET_ESCROW_CUSTODY_ACCOUNT_ID") THEN "ASSET_ESCROW_CUSTODY_ACCOUNT_ID"
  ELSE OmnibusAccount

AssetStandardRegistered == chain.standard \in {"unchecked", "registered"}

ContractConfigured ==
  /\ Usable({"OPERATOR_PRIVATE_KEY", "TX_CONFIRMATION_TIMEOUT_MS", "TX_GAS_TIER", "DEFAULT_ASSET_STANDARD"})
  /\ AssetStandardRegistered
FireblocksConfigured ==
  IF Given("LOCAL_SUBMIT") THEN Given("NETWORK_HOST") ELSE EscrowAccount # None
DfnsConfigured == EscrowAccount # None

Configured ==
  /\ Usable({"ACCOUNT_MAPPING_TYPE", "ACCOUNT_MODEL"})
  /\ Credentials[env.type] \subseteq env.set
  /\ CASE Contract -> ContractConfigured
       [] env.type = "fireblocks" -> FireblocksConfigured
       [] env.type = "dfns" -> DfnsConfigured
       [] OTHER -> TRUE

(***************************************************************************)
(* The signers: one nonce manager for each key of the pool; the contract's *)
(* own is made beside the pool.                                            *)
(***************************************************************************)
(* The slip: the pool is keyed by the variable's text as it is written. *)
MutantPoolKey(v) == env.key[v]
PoolKey(v) == [account |-> env.key[v].account, form |-> "bare"]
Pooled(vs) == {[account |-> env.key[v].account, entry |-> PoolKey(v)] : v \in vs}
OperatorManager ==
  [account |-> env.key["OPERATOR_PRIVATE_KEY"].account,
   entry |-> [account |-> None, form |-> "own"]]

(***************************************************************************)
(* The steps of index.ts and createApp up to the integrations.             *)
(***************************************************************************)
BootInit ==
  /\ env \in Envs /\ chain \in Chains
  /\ step = "init"
  /\ custody = FALSE
  /\ wallets = [escrow |-> None, gas |-> None, omnibus |-> None]
  /\ read = None /\ activates = FALSE /\ mode = None /\ hook = FALSE
  /\ standards = {} /\ managers = {} /\ slot = <<>>
  /\ services = [model |-> None, payments |-> None]

Start ==
  /\ step = "init" /\ Connected
  /\ step' = "adopt"
  /\ UNCHANGED <<settings, roles, mode, hook, plugins, managers, services>>

AdoptTables ==
  /\ step = "adopt"
  /\ step' = "config"
  /\ UNCHANGED <<settings, roles, mode, hook, plugins, managers, services>>

ReadConfig ==
  /\ step = "config" /\ Configured
  /\ step' = "migrate"
  /\ managers' = IF Contract /\ ~Given("USE_NONCE_MANAGER=no") THEN {OperatorManager} ELSE {}
  /\ UNCHANGED <<settings, roles, mode, hook, plugins, services>>

RunMigrations ==
  /\ step = "migrate"
  /\ step' = "custody"
  /\ UNCHANGED <<settings, roles, mode, hook, plugins, managers, services>>

(* The guard against an environment that still names the custody issuer. *)
IssuerMoved ==
  env.type \in {"fireblocks", "dfns"} /\ Given("ASSET_ISSUER_CUSTODY_ACCOUNT_ID")
    => Given("ASSET_ISSUER_PRIVATE_KEY")

ActivateCustody ==
  /\ step = "custody" /\ IssuerMoved
  /\ step' = "wallets"
  /\ custody' = (env.type \in {"fireblocks", "dfns"})
  /\ UNCHANGED <<settings, wallets, read, activates, mode, hook, plugins, managers, services>>

GasAccount ==
  IF {"GAS_FUNDING_CUSTODY_ACCOUNT_ID", "GAS_FUNDING_AMOUNT"} \subseteq env.set
    THEN "GAS_FUNDING_CUSTODY_ACCOUNT_ID" ELSE None
ReadFrom ==
  IF Given("NETWORK_HOST") THEN "host"
  ELSE IF EscrowAccount # None THEN "transport" ELSE None

FabricateWallets ==
  /\ step = "wallets" /\ custody
  /\ step' = "probe"
  /\ wallets' = [escrow |-> EscrowAccount, gas |-> GasAccount, omnibus |-> OmnibusAccount]
  /\ read' = ReadFrom
  /\ activates' = (ReadFrom # None /\ chain.hedera /\ GasAccount # None)
  /\ UNCHANGED <<settings, custody, mode, hook, plugins, managers, services>>

SkipWallets ==
  /\ step = "wallets" /\ ~custody
  /\ step' = "probe"
  /\ UNCHANGED <<settings, roles, mode, hook, plugins, managers, services>>

(* A contract that does not answer the probe is taken to map wallets. *)
Probe ==
  /\ step = "probe"
  /\ step' = "omnibus"
  /\ mode' = IF ~Contract THEN None
             ELSE IF chain.mode = "unanswered" THEN "mapping" ELSE chain.mode
  /\ UNCHANGED <<settings, roles, hook, plugins, managers, services>>

OmnibusFunded == Omnibus /\ custody => wallets.omnibus # None

BuildOmnibus ==
  /\ step = "omnibus" /\ OmnibusFunded
  /\ step' = "standards"
  /\ hook' = (Omnibus /\ custody)
  /\ UNCHANGED <<settings, roles, mode, plugins, managers, services>>

(***************************************************************************)
(* registerIntegrations: the token standards, then the deposit plugins.    *)
(***************************************************************************)
Collateral == {"COLLATERAL_REGISTRY_ADDRESS", "COLLATERAL_AGENT_PRIVATE_KEY"} \subseteq env.set
Dtcc == Given("DTCC_PLUGIN_ENABLED")

StandardKeys ==
  env.set \cap ({"ASSET_ISSUER_PRIVATE_KEY", "ASSET_CONTROLLER_PRIVATE_KEY", "ASSET_WHITELIST_PRIVATE_KEY"}
                \cup (IF Collateral THEN {"COLLATERAL_AGENT_PRIVATE_KEY"} ELSE {})
                \cup (IF Dtcc THEN {"OPERATOR_PRIVATE_KEY"} ELSE {}))
StandardsUsable ==
  Given("NETWORK_HOST") =>
    /\ Usable(StandardKeys \cup {"HEDERA_ATS_WHITELISTING_MECHANISMS"})
    /\ Dtcc => Given("OPERATOR_PRIVATE_KEY")

RegisterStandards ==
  /\ step = "standards" /\ StandardsUsable
  /\ step' = "wallet"
  /\ IF Given("NETWORK_HOST")
       THEN /\ standards' = {"ERC20", "TREX", "CMTAT", "BENJI", "HEDERA_ATS"}
                            \cup (IF Collateral THEN {"OWNERA_COLLATERAL_REGISTRY"} ELSE {})
                            \cup (IF Dtcc THEN {"DTCC_COLLATERAL_ACCOUNT"} ELSE {})
            /\ managers' = managers \cup Pooled(StandardKeys)
       ELSE UNCHANGED <<standards, managers>>
  /\ UNCHANGED <<settings, roles, mode, hook, slot, services>>

(* The slip: the collateral plugin is forgotten. *)
MutantClaimedExternally == Dtcc
(* Another integration owns the payments slot: the deposit methods stand down. *)
ClaimedExternally == Dtcc \/ Collateral
DepositMethod ==
  IF env.method \in {"wallet", "pull", "ota"} THEN env.method ELSE IF Omnibus THEN "ota" ELSE "wallet"

(* Whether the registrar of a deposit method registers its plugin. *)
Offers(m) ==
  /\ ~ClaimedExternally /\ DepositMethod = m
  /\ custody
  /\ CASE m = "wallet" -> ~Omnibus
       [] m = "pull" -> read # None /\ wallets.escrow # None /\ (Omnibus => wallets.omnibus # None)
       [] OTHER -> Omnibus => wallets.omnibus # None

NextRegistrar == [wallet |-> "pull", pull |-> "ota", ota |-> "dtcc"]

RegisterDeposit(m) ==
  /\ step = m
  /\ step' = NextRegistrar[m]
  /\ slot' = IF Offers(m) THEN Append(slot, [plugin |-> m, hook |-> hook /\ m # "wallet"]) ELSE slot
  /\ UNCHANGED <<settings, roles, mode, hook, standards, managers, services>>

DtccUsable ==
  Dtcc => /\ custody
          /\ {"NETWORK_HOST", "OPERATOR_PRIVATE_KEY", "PROVIDER_PRIVATE_KEY"} \subseteq env.set
          /\ Usable({"OPERATOR_PRIVATE_KEY", "PROVIDER_PRIVATE_KEY"})

RegisterDtcc ==
  /\ step = "dtcc" /\ DtccUsable
  /\ step' = "collateral"
  /\ IF Dtcc
       THEN /\ slot' = Append(slot, [plugin |-> "dtcc", hook |-> FALSE])
            /\ managers' = managers \cup Pooled({"OPERATOR_PRIVATE_KEY", "PROVIDER_PRIVATE_KEY"})
       ELSE UNCHANGED <<slot, managers>>
  /\ UNCHANGED <<settings, roles, mode, hook, standards, services>>

(* The plugin needs the slot to itself and somebody to resolve investors. *)
CollateralUsable ==
  Collateral => /\ ~Dtcc
                /\ Given("NETWORK_HOST") /\ Usable({"COLLATERAL_AGENT_PRIVATE_KEY"})
                /\ custody \/ Contract

RegisterCollateral ==
  /\ step = "collateral" /\ CollateralUsable
  /\ step' = "services"
  /\ IF Collateral
       THEN /\ slot' = Append(slot, [plugin |-> "collateral", hook |-> FALSE])
            /\ managers' = managers \cup Pooled({"COLLATERAL_AGENT_PRIVATE_KEY"})
       ELSE UNCHANGED <<slot, managers>>
  /\ UNCHANGED <<settings, roles, mode, hook, standards, services>>

(***************************************************************************)
(* The services.                                                           *)
(***************************************************************************)
(* The slip: the escrow wallet is not asked for. *)
MutantCustodyServable == custody => read # None /\ (Omnibus => hook)
CustodyServable == custody => /\ read # None /\ wallets.escrow # None
                              /\ Omnibus => hook
ContractServable == ~custody => Contract /\ ~Omnibus

IssuerKeys ==
  IF {"ASSET_ISSUER_PRIVATE_KEY", "NETWORK_HOST"} \subseteq env.set
    THEN {"ASSET_ISSUER_PRIVATE_KEY"} ELSE {}

RegisterCustodyServices ==
  /\ step = "services" /\ custody /\ CustodyServable
  /\ step' = "serving"
  /\ IF Omnibus
       THEN /\ services' = [model |-> "omnibus",
                            payments |-> IF slot = <<>> THEN "delegate" ELSE "plugin"]
            /\ UNCHANGED managers
       ELSE /\ services' = [model |-> "segregated", payments |-> "plugin"]
            /\ managers' = managers \cup Pooled(IssuerKeys)
  /\ UNCHANGED <<settings, roles, mode, hook, plugins>>

RegisterContractServices ==
  /\ step = "services" /\ ~custody /\ ContractServable
  /\ step' = "serving"
  /\ services' = [model |-> "contract", payments |-> "plugin"]
  /\ UNCHANGED <<settings, roles, mode, hook, plugins, managers>>

(***************************************************************************)
(* A requirement that is not met throws, and so may every call that leaves *)
(* the process; the start's rejection exits.                               *)
(***************************************************************************)
Refused ==
  \/ step = "init" /\ ~Connected
  \/ step = "config" /\ ~Configured
  \/ step = "custody" /\ ~IssuerMoved
  \/ step = "omnibus" /\ ~OmnibusFunded
  \/ step = "standards" /\ ~StandardsUsable
  \/ step = "dtcc" /\ ~DtccUsable
  \/ step = "collateral" /\ ~CollateralUsable
  \/ step = "services" /\ ~(CustodyServable /\ ContractServable)

Unreachable == step \in {"adopt", "config", "migrate", "custody", "wallets"}

Exit ==
  /\ Refused \/ Unreachable
  /\ step' = "exited"
  /\ UNCHANGED <<settings, roles, mode, hook, plugins, managers, services>>

BootNext ==
  \/ Start \/ AdoptTables \/ ReadConfig \/ RunMigrations \/ ActivateCustody
  \/ FabricateWallets \/ SkipWallets \/ Probe \/ BuildOmnibus
  \/ RegisterStandards
  \/ \E m \in {"wallet", "pull", "ota"} : RegisterDeposit(m)
  \/ RegisterDtcc \/ RegisterCollateral
  \/ RegisterCustodyServices \/ RegisterContractServices
  \/ Exit

BootSpec == BootInit /\ [][BootNext]_bootVars

(***************************************************************************)
(* Properties                                                              *)
(***************************************************************************)
Accounts == {"ASSET_ESCROW_CUSTODY_ACCOUNT_ID", "OMNIBUS_CUSTODY_ACCOUNT_ID",
             "GAS_FUNDING_CUSTODY_ACCOUNT_ID", None}
Serving == step = "serving"

(* The start keeps to its shape. *)
BootTypeOK ==
  /\ env \in Envs /\ chain \in Chains
  /\ step \in {"init", "adopt", "config", "migrate", "custody", "wallets", "probe", "omnibus",
            "standards", "wallet", "pull", "ota", "dtcc", "collateral", "services", "serving", "exited"}
  /\ custody \in BOOLEAN /\ activates \in BOOLEAN /\ hook \in BOOLEAN
  /\ wallets \in [{"escrow", "gas", "omnibus"} -> Accounts]
  /\ read \in {None, "host", "transport"}
  /\ mode \in {None, "mapping", "derivation"}
  /\ services \in [model : {None, "omnibus", "segregated", "contract"},
                   payments : {None, "delegate", "plugin"}]

(* The single payments slot has at most one owner while the registrars run.
   An adapter that serves with another integration enabled has given it the
   slot (the deposit methods stood down for something that did register), and
   a pull or one-time-address plugin credits the omnibus ledger exactly when
   the adapter keeps one. *)
OneSlotOwner ==
  /\ Len(slot) <= 1
  /\ Serving => \A i \in 1..Len(slot) :
       /\ slot[i].plugin \in {"pull", "ota"} => slot[i].hook = (services.model = "omnibus")
       /\ ClaimedExternally <=> slot[i].plugin \in {"dtcc", "collateral"}
  /\ Serving /\ ClaimedExternally => slot # <<>>

(* An adapter that serves was handed what its mode cannot do without, though
   createApp asserts it with a `!` and lets each registrar decide for itself: a custody adapter has a provider to read from and an
   escrow wallet; an omnibus one also its omnibus wallet, its ledger's hook and
   somebody to take payments; a segregated one a deposit plugin, whatever
   method was asked for; on a network that needs it the onboarding service
   activates wallets when there is a gas station to pay; and no adapter serves
   an account model it was not configured for, or without the issuer it was
   moved to.  The FinP2P client is not on the list: under a custody provider the
   start does not ask for it (app.ts:343). *)
ServedIsWhole ==
  Serving =>
    /\ custody => read # None /\ wallets.escrow # None
    /\ Omnibus <=> services.model = "omnibus"
    /\ Omnibus => /\ hook /\ wallets.omnibus # None
                  /\ services.payments = "plugin" => slot # <<>>
    /\ services.model = "segregated" => slot # <<>>
    /\ services.model = "contract" => mode # None
    /\ custody /\ chain.hedera => (activates <=> wallets.gas # None)
    /\ custody /\ Given("ASSET_ISSUER_CUSTODY_ACCOUNT_ID") => Given("ASSET_ISSUER_PRIVATE_KEY")

(* Under a custody provider no two nonce managers send from one account,
   whichever integrations sign with its key and however each environment
   variable spells it. *)
OneManagerPerKey ==
  custody => \A a, b \in managers : a.account = b.account => a = b
=============================================================================
