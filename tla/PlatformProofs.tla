--------------------------- MODULE PlatformProofs ---------------------------
(***************************************************************************)
(* The platform around the sync pipeline, as a whole: a behaviour of the   *)
(* composition is one of each of its parts, so that what ControlPlaneProofs *)
(* and ServiceProofs show of the parts holds in it.                        *)
(***************************************************************************)
EXTENDS MCPlatform, ControlPlaneProofs, ServiceProofs

(* A step of the composition is one of a part, and leaves the others alone. *)
LEMMA PartsStep ==
  ASSUME [Next]_allVars
  PROVE  /\ [SchedulerNext]_schVars /\ [ManagersNext]_mgrVars /\ [RouterNext]_rtrVars
         /\ [CatalogNext]_catVars /\ [WorkersNext]_wrkVars /\ [LimitsNext]_limVars
         /\ [EmbeddedNext]_embVars /\ [AuditNext]_audVars /\ [GatewayNext]_gwVars
         /\ [RegistryNext]_regVars /\ [KeyringNext]_keyVars /\ [SecretsNext]_secVars
         /\ [SubscriptionsNext]_subVars
<1> DEFINE EachMoves ==
       /\ [SchedulerNext]_schVars /\ [ManagersNext]_mgrVars /\ [RouterNext]_rtrVars
       /\ [CatalogNext]_catVars /\ [WorkersNext]_wrkVars /\ [LimitsNext]_limVars
       /\ [EmbeddedNext]_embVars /\ [AuditNext]_audVars /\ [GatewayNext]_gwVars
       /\ [RegistryNext]_regVars /\ [KeyringNext]_keyVars /\ [SecretsNext]_secVars
       /\ [SubscriptionsNext]_subVars
<1>1. ASSUME UNCHANGED allVars PROVE EachMoves
  BY <1>1 DEF allVars
<1>2. ASSUME NEW p, Still(p)
      PROVE  /\ p # "scheduler" => UNCHANGED schVars
             /\ p # "managers" => UNCHANGED mgrVars
             /\ p # "router" => UNCHANGED rtrVars
             /\ p # "catalog" => UNCHANGED catVars
             /\ p # "workers" => UNCHANGED wrkVars
             /\ p # "limits" => UNCHANGED limVars
             /\ p # "embedded" => UNCHANGED embVars
             /\ p # "audit" => UNCHANGED audVars
             /\ p # "gateway" => UNCHANGED gwVars
             /\ p # "registry" => UNCHANGED regVars
             /\ p # "keyring" => UNCHANGED keyVars
             /\ p # "secrets" => UNCHANGED secVars
             /\ p # "subscriptions" => UNCHANGED subVars
  BY <1>2, Zenon DEF Still, Unless
<1>3. ASSUME SchedulerNext, Still("scheduler") PROVE EachMoves
  BY <1>2, <1>3
<1>4. ASSUME ManagersNext, Still("managers") PROVE EachMoves
  BY <1>2, <1>4
<1>5. ASSUME RouterNext, Still("router") PROVE EachMoves
  BY <1>2, <1>5
<1>6. ASSUME CatalogNext, Still("catalog") PROVE EachMoves
  BY <1>2, <1>6
<1>7. ASSUME WorkersNext, Still("workers") PROVE EachMoves
  BY <1>2, <1>7
<1>8. ASSUME LimitsNext, Still("limits") PROVE EachMoves
  BY <1>2, <1>8
<1>9. ASSUME EmbeddedNext, Still("embedded") PROVE EachMoves
  BY <1>2, <1>9
<1>10. ASSUME AuditNext, Still("audit") PROVE EachMoves
  BY <1>2, <1>10
<1>11. ASSUME GatewayNext, Still("gateway") PROVE EachMoves
  BY <1>2, <1>11
<1>12. ASSUME RegistryNext, Still("registry") PROVE EachMoves
  BY <1>2, <1>12
<1>13. ASSUME KeyringNext, Still("keyring") PROVE EachMoves
  BY <1>2, <1>13
<1>14. ASSUME SecretsNext, Still("secrets") PROVE EachMoves
  BY <1>2, <1>14
<1>15. ASSUME SubscriptionsNext, Still("subscriptions") PROVE EachMoves
  BY <1>2, <1>15
<1> HIDE DEF EachMoves
<1>16. EachMoves
  BY <1>1, <1>3, <1>4, <1>5, <1>6, <1>7, <1>8, <1>9, <1>10, <1>11, <1>12, <1>13, <1>14, <1>15,
     Zenon DEF Next
<1> QED
  BY <1>16 DEF EachMoves

(* A behaviour of the platform is one of each part: what is proved of the   *)
(* parts holds in it.                                                       *)
THEOREM EveryComponentRuns ==
  Spec => /\ SchedulerSpec /\ ManagersSpec /\ RouterSpec /\ CatalogSpec /\ WorkersSpec
          /\ LimitsSpec /\ EmbeddedSpec /\ AuditSpec /\ GatewaySpec /\ RegistrySpec
          /\ KeyringSpec /\ SecretsSpec /\ SubscriptionsSpec
<1>1. Init => /\ SchedulerInit /\ ManagersInit /\ RouterInit /\ CatalogInit /\ WorkersInit
              /\ LimitsInit /\ EmbeddedInit /\ AuditInit /\ GatewayInit
              /\ RegistryInit /\ KeyringInit /\ SecretsInit /\ SubscriptionsInit
  BY Zenon DEF Init
<1>2. [Next]_allVars =>
         /\ [SchedulerNext]_schVars /\ [ManagersNext]_mgrVars /\ [RouterNext]_rtrVars
         /\ [CatalogNext]_catVars /\ [WorkersNext]_wrkVars /\ [LimitsNext]_limVars
         /\ [EmbeddedNext]_embVars /\ [AuditNext]_audVars /\ [GatewayNext]_gwVars
         /\ [RegistryNext]_regVars /\ [KeyringNext]_keyVars /\ [SecretsNext]_secVars
         /\ [SubscriptionsNext]_subVars
  BY PartsStep
<1> QED
  BY <1>1, <1>2, PTL DEF Spec, SchedulerSpec, ManagersSpec, RouterSpec, CatalogSpec, WorkersSpec,
     LimitsSpec, EmbeddedSpec, AuditSpec, GatewaySpec, RegistrySpec, KeyringSpec, SecretsSpec,
     SubscriptionsSpec

(* Whatever the values of the constants, every component of the platform    *)
(* keeps the types and the limits of what it holds: among them that         *)
(* crossing scalings keep the size of a pool within its configuration, that *)
(* a late health check does not describe an older configuration, and that   *)
(* ciphertexts can be read while their keys are kept and no write of a      *)
(* secret was cut off.                                                      *)
THEOREM PlatformKeepsTypes == Spec => []TypeOK
<1>1. /\ [](SchedulerTypeOK /\ ManagersTypeOK /\ RouterTypeOK /\ CatalogTypeOK /\ WorkersTypeOK
              /\ LimitsTypeOK /\ EmbeddedTypeOK)
      /\ [](AuditTypeOK /\ GatewayTypeOK /\ RegistryTypeOK /\ KeyringTypeOK /\ SecretsTypeOK
              /\ SubscriptionsTypeOK)
      => []TypeOK
  BY PTL DEF TypeOK
<1> QED
  BY <1>1, EveryComponentRuns, SchedulerTypes, ManagersTypes, RouterTypes, CatalogStaysWhole,
     WorkersTyped, LimitsTypes, EmbeddedTypes, AuditTypes, GatewayTypes, HealthIsPresent,
     KeysReadTheirTexts, SecretsAreWhole, SubscriptionsTypes, PTL
=============================================================================
