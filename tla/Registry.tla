------------------------------ MODULE Registry ------------------------------
(***************************************************************************)
(* The registry of configured connectors: connector/registry/registry.go.  *)
(*                                                                         *)
(* LoadFromConfig replaces the health record of every connector it loads.  *)
(* HealthCheck takes a pointer to the record under the read lock, works    *)
(* out the status without a lock and writes through the pointer, by which  *)
(* time the record may no longer be the one in the map.                    *)
(***************************************************************************)
EXTENDS Integers, Sequences, FiniteSets

CONSTANTS RegNames,     \* names of connectors, as numbers
          RegStatic,    \* the ones compiled in, in the registry of the CDK
          RegBroken,    \* of these, the ones whose Spec fails
          RegProcs,     \* goroutines
          RegMaxLoads,  \* bound: calls of LoadFromConfig
          RegMaxChecks  \* bound: calls of HealthCheck and HealthCheckAll

ASSUME RegistryAssumption ==
    /\ RegBroken \subseteq RegStatic /\ RegStatic \subseteq RegNames /\ RegNames \subseteq Nat
    /\ IsFiniteSet(RegNames)
    /\ RegMaxLoads \in Nat /\ RegMaxChecks \in Nat

VARIABLES regConfigs,  \* configs: name -> Enabled
          regHealth,   \* health: name -> its record, a position in regRecords, 0: none
          regRecords,  \* every record made: Status and CheckCount
          regProcs,    \* of each goroutine where it is in HealthCheck, the names to check
                       \* yet, the name, the pointer, the status found
          regCalls     \* calls so far: of LoadFromConfig, of the checks

regVars == <<regConfigs, regHealth, regRecords, regProcs, regCalls>>

NewRecord == [status |-> "unknown", checks |-> 0]
RegIdle == [pc |-> "idle", todo |-> {}, name |-> CHOOSE n \in RegNames : TRUE, h |-> 0,
            status |-> "unknown"]

RegistryInit ==
    /\ regConfigs = <<>> /\ regHealth = [n \in RegNames |-> 0] /\ regRecords = <<>>
    /\ regProcs = [p \in RegProcs |-> RegIdle] /\ regCalls = <<0, 0>>

\* The files that can be read and parsed and have a name, under the lock.  What has no
\* such file, or no longer, stays as it is.
LoadFromConfig(loaded) ==
    LET new == DOMAIN loaded
        id(n) == Len(regRecords) + Cardinality({m \in new : m < n}) + 1 IN
    /\ regCalls[1] < RegMaxLoads /\ regCalls' = [regCalls EXCEPT ![1] = @ + 1]
    /\ regConfigs' = [n \in new \union DOMAIN regConfigs |->
                        IF n \in new THEN loaded[n] ELSE regConfigs[n]]
    /\ regHealth' = [n \in RegNames |-> IF n \in new THEN id(n) ELSE regHealth[n]]
    /\ regRecords' = regRecords \o [i \in 1..Cardinality(new) |-> NewRecord]
    /\ UNCHANGED regProcs

\* HealthCheckAll gathers the names and checks one after the other.
HealthCheckAll(p) ==
    /\ regProcs[p].pc = "idle" /\ regProcs[p].todo = {}
    /\ regCalls[2] < RegMaxChecks /\ regCalls' = [regCalls EXCEPT ![2] = @ + 1]
    /\ regProcs' = [regProcs EXCEPT ![p].todo = DOMAIN regConfigs \union RegStatic]
    /\ UNCHANGED <<regConfigs, regHealth, regRecords>>

HealthCheck(p, n) ==
    /\ regProcs[p].pc = "idle" /\ regProcs[p].todo = {}
    /\ regCalls[2] < RegMaxChecks /\ regCalls' = [regCalls EXCEPT ![2] = @ + 1]
    /\ regProcs' = [regProcs EXCEPT ![p].todo = {n}]
    /\ UNCHANGED <<regConfigs, regHealth, regRecords>>

\* The pointer under the read lock; a name in neither registry is an error.
HealthCheckFinds(p) ==
    /\ regProcs[p].pc = "idle"
    /\ \E n \in regProcs[p].todo :
          regProcs' = [regProcs EXCEPT ![p] =
             [regProcs[p] EXCEPT !.todo = @ \ {n}, !.name = n, !.h = regHealth[n],
                                 !.pc = IF regHealth[n] # 0 THEN "check"
                                        ELSE IF n \in RegStatic THEN "create" ELSE "idle"]]
    /\ UNCHANGED <<regConfigs, regHealth, regRecords, regCalls>>

\* The record of a connector that is compiled in only, over whatever is there by now.
HealthCheckCreates(p) ==
    /\ regProcs[p].pc = "create"
    /\ regRecords' = Append(regRecords, NewRecord)
    /\ regHealth' = [regHealth EXCEPT ![regProcs[p].name] = Len(regRecords) + 1]
    /\ regProcs' = [regProcs EXCEPT ![p].pc = "check", ![p].h = Len(regRecords) + 1]
    /\ UNCHANGED <<regConfigs, regCalls>>

StatusOf(n) ==
    IF n \in RegStatic THEN IF n \in RegBroken THEN "unhealthy" ELSE "healthy"
    ELSE IF n \in DOMAIN regConfigs /\ regConfigs[n] THEN "unknown" ELSE "unhealthy"

HealthCheckReads(p) ==
    /\ regProcs[p].pc = "check"
    /\ regProcs' = [regProcs EXCEPT ![p].pc = "write", ![p].status = StatusOf(regProcs[p].name)]
    /\ UNCHANGED <<regConfigs, regHealth, regRecords, regCalls>>

HealthCheckWrites(p) ==
    /\ regProcs[p].pc = "write"
    /\ regRecords' = [regRecords EXCEPT ![regProcs[p].h] =
                        [status |-> regProcs[p].status, checks |-> @.checks + 1]]
    /\ regProcs' = [regProcs EXCEPT ![p].pc = "idle"]
    /\ UNCHANGED <<regConfigs, regHealth, regCalls>>

RegistryNext ==
    \/ \E S \in SUBSET RegNames : \E loaded \in [S -> BOOLEAN] : LoadFromConfig(loaded)
    \/ \E p \in RegProcs :
         \/ \E n \in RegNames : HealthCheck(p, n)
         \/ HealthCheckAll(p) \/ HealthCheckFinds(p) \/ HealthCheckCreates(p)
         \/ HealthCheckReads(p) \/ HealthCheckWrites(p)

RegistrySpec == RegistryInit /\ [][RegistryNext]_regVars

-----------------------------------------------------------------------------
\* A check that crosses a reload never shows the status of the old configuration as
\* that of the new one: what the registry reports of a connector is "unknown" or what its
\* present configuration gives, because the late check writes to the record that
\* LoadFromConfig has replaced (registry.go:105, 230).
HealthOfPresentConfig ==
    \A n \in RegNames : regHealth[n] # 0 =>
        regRecords[regHealth[n]].status \in {"unknown", StatusOf(n)}

RegistryTypeOK ==
    /\ DOMAIN regConfigs \subseteq RegNames
    /\ regHealth \in [RegNames -> 0..Len(regRecords)]
    /\ \A p \in RegProcs : regProcs[p].pc \in {"idle", "create", "check", "write"}
    /\ HealthOfPresentConfig
=============================================================================
