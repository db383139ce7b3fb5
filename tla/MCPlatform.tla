----------------------------- MODULE MCPlatform -----------------------------
(***************************************************************************)
(* The platform around the sync pipeline: a behaviour is one of Scheduler, *)
(* Managers, TenantRouter, Catalog, Workers, Limits, Embedded, Audit,      *)
(* Gateway, Registry, Keyring, Secrets and Subscriptions, the others stay  *)
(* as they are.  The parts share no state, so one run explores them side   *)
(* by side.  FieldMapper and Partitioner are pure: what they compute is    *)
(* compared with its definition for all small inputs before the run.       *)
(***************************************************************************)
EXTENDS Scheduler, Managers, TenantRouter, Catalog, Workers, Limits, Embedded, Audit,
        Gateway, Registry, Keyring, Secrets, Subscriptions, Partitioner

FM == INSTANCE FieldMapper

VARIABLE part

allVars == <<part, schVars, mgrVars, rtrVars, catVars, wrkVars, limVars, embVars, audVars,
             gwVars, regVars, keyVars, secVars, subVars>>

\* Cron expressions: every minute; every second hour on one weekday; the other hour of
\* every day; months and weekdays listed; and one that is out of range.
Span(lo, hi, step) == {[lo |-> lo, hi |-> hi, step |-> step]}
EveryMinute == <<Span(0, 1, 1), Span(0, 1, 1), Span(1, 1, 1), Span(1, 2, 1), Span(0, 1, 1)>>
SomeHours == <<Span(1, 1, 1), Span(0, 1, 2), Span(1, 1, 1), Span(1, 2, 1), Span(1, 1, 1)>>
Daily == <<Span(1, 1, 1), Span(1, 1, 1), Span(1, 1, 1), Span(1, 2, 1), Span(0, 1, 1)>>
OneMonth == <<Span(0, 0, 1), Span(1, 1, 1), Span(1, 1, 1), Span(2, 2, 1),
              Span(0, 0, 1) \union Span(1, 1, 1)>>
OutOfRange == <<Span(0, 9, 1), Span(0, 1, 1), Span(1, 1, 1), Span(1, 2, 1), Span(0, 1, 1)>>
MCCrons == {EveryMinute, Daily, OneMonth, OutOfRange}
MCRows == {<<"a", SomeHours, TRUE>>, <<"a", EveryMinute, FALSE>>, <<"a", OutOfRange, TRUE>>}

\* A zone west of UTC whose clocks go forward within the bound, and one east of it whose
\* clocks go back; the rows of the repository are those in UTC.
West == [offset |-> -2, shift |-> 2, from |-> 4, until |-> 8]
East == [offset |-> 2, shift |-> 2, from |-> -4, until |-> 4]
MCZones == {West, East}

\* Schemas that differ in a type, in nullability, and in what readers do not see.
MCSchema(types, extra) == <<[f \in {"id"} |-> types], extra>>
MCSchemas == {MCSchema(<<"string">>, 0), MCSchema(<<"string">>, 1),
              MCSchema(<<"null", "string">>, 0)}

MCRequests == {<<"x", "nil">>, <<"", "x">>}

\* The bits of the first three records overlap, so that each is covered by the others.
MCBits == <<{1, 2}, {2, 3}, {1, 3}, {4}>>
MCBatches == <<<<1, 2, 3, 4>>, <<4>>, <<1, 2>>>>

\* Every offset, id and second is in one partition (worker/extract/partitioner.go).
ASSUME PartitionsCorrect == PartitionersTile(0..5, 0..3, -4..3)

\* Records with a number, an object, an array, a null and a missing field.
MCValues == {FM!Str("int", 1), FM!Str("decimal", 3), FM!Str("word", TRUE), FM!Text,
             <<"float", 3>>, <<"float", -4>>, <<"bool", TRUE>>, <<"int", 2>>, <<"time", 1>>}
MCRecords ==
    <<[a |-> <<"float", 3>>, b |-> <<"object", [c |-> FM!Str("int", 1)]>>],
      [a |-> FM!Nil, b |-> <<"array", <<FM!Text, <<"bool", TRUE>>>>>>],
      [b |-> FM!Str("word", FALSE)]>>
MCMaps ==
    [source : {<<<<"name", "a">>>>, <<<<"name", "b">>, <<"name", "c">>>>,
               <<<<"name", "b">>, <<"index", 1>>>>},
     dest : {<<"x">>, <<"x", "y">>, <<"z">>},
     transform : {<<"rename", "">>, <<"default", FM!Text>>, <<"cast", "int">>,
                  <<"cast", "bool">>, <<"expression", "tostring">>}]

\* The two ways a batch is mapped agree, mappings that do not touch each other may be
\* given in any order, and conversions can be undone (worker/transform, pkg/arrow).
ASSUME MappingsCorrect ==
    /\ FM!ColumnarAgrees(MCRecords, MCMaps \X MCMaps, SUBSET {"a", "b"})
    /\ FM!OrderIrrelevant(MCRecords, MCMaps)
    /\ FM!RoundTrips(MCValues)

\* A part that does not move has one initial state.
Init ==
    /\ part \in {"scheduler", "managers", "router", "catalog", "workers", "limits",
                 "embedded", "audit", "gateway", "registry", "keyring", "secrets",
                 "subscriptions"}
    /\ SchedulerInit /\ ManagersInit /\ RouterInit /\ CatalogInit /\ WorkersInit
    /\ LimitsInit /\ EmbeddedInit /\ AuditInit /\ GatewayInit
    /\ RegistryInit /\ KeyringInit /\ SecretsInit /\ SubscriptionsInit
    /\ part = "managers" \/ (mgrKind = (CHOOSE k \in MgrKinds : TRUE) /\ ~mgrKeyed)
    /\ part = "workers" \/ wrkKind = CHOOSE k \in WrkKinds : TRUE
    /\ part = "limits" \/ limKind = CHOOSE k \in LimKinds : TRUE
    /\ part = "embedded" \/ embKind = CHOOSE k \in EmbKinds : TRUE
    /\ part = "gateway" \/ gwKind = CHOOSE k \in GwTransports : TRUE
    /\ part = "secrets" \/ secKind = CHOOSE k \in SecKinds : TRUE
    /\ part = "subscriptions" \/ subKind = CHOOSE k \in SubKinds : TRUE

\* What does not move while the part p does.
Unless(moves, v) == IF moves THEN TRUE ELSE UNCHANGED v
Still(p) ==
    /\ UNCHANGED part
    /\ Unless(p = "scheduler", schVars)
    /\ Unless(p = "managers", mgrVars)
    /\ Unless(p = "router", rtrVars)
    /\ Unless(p = "catalog", catVars)
    /\ Unless(p = "workers", wrkVars)
    /\ Unless(p = "limits", limVars)
    /\ Unless(p = "embedded", embVars)
    /\ Unless(p = "audit", audVars)
    /\ Unless(p = "gateway", gwVars)
    /\ Unless(p = "registry", regVars)
    /\ Unless(p = "keyring", keyVars)
    /\ Unless(p = "secrets", secVars)
    /\ Unless(p = "subscriptions", subVars)

Next ==
    \/ part = "scheduler" /\ SchedulerNext /\ Still("scheduler")
    \/ part = "managers" /\ ManagersNext /\ Still("managers")
    \/ part = "router" /\ RouterNext /\ Still("router")
    \/ part = "catalog" /\ CatalogNext /\ Still("catalog")
    \/ part = "workers" /\ WorkersNext /\ Still("workers")
    \/ part = "limits" /\ LimitsNext /\ Still("limits")
    \/ part = "embedded" /\ EmbeddedNext /\ Still("embedded")
    \/ part = "audit" /\ AuditNext /\ Still("audit")
    \/ part = "gateway" /\ GatewayNext /\ Still("gateway")
    \/ part = "registry" /\ RegistryNext /\ Still("registry")
    \/ part = "keyring" /\ KeyringNext /\ Still("keyring")
    \/ part = "secrets" /\ SecretsNext /\ Still("secrets")
    \/ part = "subscriptions" /\ SubscriptionsNext /\ Still("subscriptions")

Spec == Init /\ [][Next]_allVars

\* The types of all parts; with them that crossing scalings keep the size of a pool
\* within its configuration, that a late health check does not describe an older
\* configuration, and that ciphertexts can be read while their keys are kept and no
\* write of a secret was cut off.
TypeOK ==
    /\ SchedulerTypeOK /\ ManagersTypeOK /\ RouterTypeOK /\ CatalogTypeOK /\ WorkersTypeOK
    /\ LimitsTypeOK /\ EmbeddedTypeOK /\ AuditTypeOK /\ GatewayTypeOK
    /\ RegistryTypeOK /\ KeyringTypeOK /\ SecretsTypeOK /\ SubscriptionsTypeOK
=============================================================================
