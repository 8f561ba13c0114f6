--------------------------- MODULE MCControlPlane ---------------------------
(* The components of the control plane and of the site gateway that share no*)
(* state, checked side by side: focus names the one that runs.              *)
EXTENDS RepositoryCache, OfflineEvidence, ProtocolIngress, OcppGateway, TopologyVersions,
        ModelRegistry, DispatchApproval, EvidenceStore, TwinMaintenance, Assurance, Accounts,
        TopologyCheck, TLC

CONSTANTS c1, c2, c3, p1, p2, m1, m2, m3

MCPointOf == c1 :> p1 @@ c2 :> p1 @@ c3 :> p2

(* An MQTT reading and event, and a charge point's reading without a broker. *)
MCForm ==
    m1 :> [protocol |-> "mqtt", type |-> "telemetry"] @@
    m2 :> [protocol |-> "mqtt", type |-> "event"] @@
    m3 :> [protocol |-> "ocpp16", type |-> "MeterValues"]

VARIABLE focus

edgeVars == <<evidenceVars, ingressVars, gatewayVars>>
decisionVars == <<checkVars, topologyVars, registryVars, dispatchVars>>
recordVars == <<ledgerVars, maintenanceVars, assuranceVars, accountVars>>
vars == <<focus, cacheVars, edgeVars, decisionVars, recordVars>>

Focuses == {"cache", "evidence", "ingress", "gateway", "topology", "registry", "dispatch",
            "ledger", "maintenance", "assurance", "accounts", "check"}

(* A component out of focus keeps one of its initial states.                *)
Init ==
    /\ focus \in Focuses
    /\ CacheInit /\ (focus # "cache" => production)
    /\ TopologyInit /\ (focus # "topology" => table = "twin")
    /\ CheckInit /\ (focus # "check" => contains = {})
    /\ EvidenceInit /\ IngressInit /\ GatewayInit /\ RegistryInit /\ DispatchInit
    /\ LedgerInit /\ MaintenanceInit /\ AssuranceInit /\ AccountsInit

Next ==
    /\ UNCHANGED focus
    /\ \/ focus = "cache" /\ CacheNext /\ UNCHANGED <<edgeVars, decisionVars, recordVars>>
       \/ /\ UNCHANGED <<cacheVars, decisionVars, recordVars>>
          /\ \/ focus = "evidence" /\ EvidenceNext /\ UNCHANGED <<ingressVars, gatewayVars>>
             \/ focus = "ingress" /\ IngressNext /\ UNCHANGED <<evidenceVars, gatewayVars>>
             \/ focus = "gateway" /\ GatewayNext /\ UNCHANGED <<evidenceVars, ingressVars>>
       \/ /\ UNCHANGED <<cacheVars, edgeVars, recordVars>>
          /\ \/ /\ focus = "check" /\ CheckNext
                /\ UNCHANGED <<topologyVars, registryVars, dispatchVars>>
             \/ /\ focus = "topology" /\ TopologyNext
                /\ UNCHANGED <<checkVars, registryVars, dispatchVars>>
             \/ /\ focus = "registry" /\ RegistryNext
                /\ UNCHANGED <<checkVars, topologyVars, dispatchVars>>
             \/ /\ focus = "dispatch" /\ DispatchNext
                /\ UNCHANGED <<checkVars, topologyVars, registryVars>>
       \/ /\ UNCHANGED <<cacheVars, edgeVars, decisionVars>>
          /\ \/ /\ focus = "ledger" /\ LedgerNext
                /\ UNCHANGED <<maintenanceVars, assuranceVars, accountVars>>
             \/ /\ focus = "maintenance" /\ MaintenanceNext
                /\ UNCHANGED <<ledgerVars, assuranceVars, accountVars>>
             \/ /\ focus = "assurance" /\ AssuranceNext
                /\ UNCHANGED <<ledgerVars, maintenanceVars, accountVars>>
             \/ /\ focus = "accounts" /\ AccountsNext
                /\ UNCHANGED <<ledgerVars, maintenanceVars, assuranceVars>>

(* The only fairness is that time passes.                                   *)
Spec == Init /\ [][Next]_vars /\ WF_cacheVars(Tick)

(* The component in focus stays in its types.                               *)
TypeOK ==
    CASE focus = "cache" -> CacheTypeOK
      [] focus = "evidence" -> EvidenceTypeOK
      [] focus = "ingress" -> IngressTypeOK
      [] focus = "gateway" -> GatewayTypeOK
      [] focus = "topology" -> TopologyTypeOK
      [] focus = "registry" -> RegistryTypeOK
      [] focus = "dispatch" -> DispatchTypeOK
      [] focus = "ledger" -> LedgerTypeOK
      [] focus = "maintenance" -> MaintenanceTypeOK
      [] focus = "assurance" -> AssuranceTypeOK
      [] focus = "accounts" -> AccountsTypeOK
      [] focus = "check" -> CheckTypeOK
=============================================================================
