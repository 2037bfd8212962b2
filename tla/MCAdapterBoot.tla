--------------------------- MODULE MCAdapterBoot ---------------------------
(***************************************************************************)
(* AdapterBoot for TLC: every provider, account model and deposit method,  *)
(* with the role accounts, the endpoint, the plugins and the issuer set or *)
(* not, then each required variable missing and each value malformed in    *)
(* turn.                                                                   *)
(***************************************************************************)
EXTENDS AdapterBoot, TLC

AllCredentials == UNION {Credentials[t] : t \in DOMAIN Credentials} \ {"NETWORK_HOST", "OPERATOR_PRIVATE_KEY"}
Base == AllCredentials \cup {"MIGRATION_CONNECTION_STRING", "DB_CONNECTION_STRING", "LEDGER_USER"}

KeyNames == {"ASSET_ISSUER_PRIVATE_KEY", "ASSET_CONTROLLER_PRIVATE_KEY", "ASSET_WHITELIST_PRIVATE_KEY",
             "COLLATERAL_AGENT_PRIVATE_KEY", "OPERATOR_PRIVATE_KEY", "PROVIDER_PRIVATE_KEY"}
(* The issuer's key, spelt bare, also serves as agent and provider. *)
OneKey == [v \in KeyNames |->
             [account |-> "k1", form |-> IF v = "ASSET_ISSUER_PRIVATE_KEY" THEN "bare" ELSE "0x"]]
OwnKeys == [v \in KeyNames |-> [account |-> v, form |-> "bare"]]

RoleAccounts == SUBSET {"ASSET_ESCROW_CUSTODY_ACCOUNT_ID", "OMNIBUS_CUSTODY_ACCOUNT_ID"}
Endpoints == {{}, {"NETWORK_HOST"}, {"NETWORK_HOST", "LOCAL_SUBMIT"}, {"LOCAL_SUBMIT"}}
GasFunding == {{}, {"GAS_FUNDING_CUSTODY_ACCOUNT_ID", "GAS_FUNDING_AMOUNT"}}
Issuers == {{}, {"ASSET_ISSUER_CUSTODY_ACCOUNT_ID"}, {"ASSET_ISSUER_CUSTODY_ACCOUNT_ID", "ASSET_ISSUER_PRIVATE_KEY"}}
CollateralPair == {"COLLATERAL_REGISTRY_ADDRESS", "COLLATERAL_AGENT_PRIVATE_KEY"}
DtccKeys == {"DTCC_PLUGIN_ENABLED", "OPERATOR_PRIVATE_KEY", "PROVIDER_PRIVATE_KEY"}
Plugins == {{}, {"OPERATOR_PRIVATE_KEY"}, CollateralPair, CollateralPair \cup {"OPERATOR_PRIVATE_KEY"},
            {"COLLATERAL_REGISTRY_ADDRESS"}, {"DTCC_PLUGIN_ENABLED"}, DtccKeys, DtccKeys \cup CollateralPair}

SetVariables ==
  {Base \cup r \cup n \cup g \cup i \cup p :
     r \in RoleAccounts, n \in Endpoints, g \in GasFunding, i \in Issuers, p \in Plugins}
Configurations ==
  [type : DOMAIN Credentials, model : {"segregated", "omnibus"}, method : {None, "wallet", "pull", "ota"},
   set : SetVariables, bad : {{}}, key : {OneKey}]

Full == Base \cup KeyNames \cup {"NETWORK_HOST", "OMNIBUS_CUSTODY_ACCOUNT_ID", "USE_NONCE_MANAGER=no"}
Incomplete ==
  [type : DOMAIN Credentials, model : {"segregated", "omnibus"}, method : {None},
   set : {Full \ {v} : v \in Full \cup {None}}, bad : {{}}, key : {OwnKeys}]

Checked == {"ACCOUNT_MAPPING_TYPE", "ACCOUNT_MODEL", "TX_CONFIRMATION_TIMEOUT_MS", "TX_GAS_TIER",
            "DEFAULT_ASSET_STANDARD", "HEDERA_ATS_WHITELISTING_MECHANISMS"}
Malformed ==
  [type : DOMAIN Credentials, model : {"segregated"}, method : {None},
   set : {Full \cup p : p \in {{}, {"COLLATERAL_REGISTRY_ADDRESS"}, {"DTCC_PLUGIN_ENABLED"}}},
   bad : {{v} : v \in Checked \cup KeyNames}, key : {OwnKeys}]

MCEnvs == Configurations \cup Incomplete \cup Malformed
MCChains == {[standard |-> "registered", mode |-> "unanswered", hedera |-> TRUE],
             [standard |-> "unchecked", mode |-> "derivation", hedera |-> FALSE],
             [standard |-> "unknown", mode |-> "mapping", hedera |-> FALSE]}
=============================================================================
