---------------------------- MODULE TenantRouter ----------------------------
(***************************************************************************)
(* The router to the tenants' databases (storage/postgres/                 *)
(* tenant_router.go): one connection pool for each tenant, made on first   *)
(* use, shared by all callers, closed when idle, evicted or shut down.     *)
(***************************************************************************)
EXTENDS Integers, FiniteSets, FiniteSetsExt

CONSTANTS RtrTenants, RtrProcs,
          RtrIdle,      \* idleTimeout
          RtrMaxTick,   \* bound: clock
          RtrMaxOpen    \* bound: pools opened

ASSUME RouterAssumption == {RtrIdle, RtrMaxTick, RtrMaxOpen} \subseteq Nat

VARIABLES rtrClock,
          rtrPools,   \* pools: of a tenant its pool and the last access to it
          rtrOpen,    \* pools that are open
          rtrOpened,  \* pools opened so far, which number them
          rtrCalls,   \* of each caller, the call it is in, its tenant, the pool it
                      \* holds and the one it found instead
          rtrSweep,   \* evictIdle: the time it began and the tenants it still has to see
          rtrLoop,    \* cleanupLoop runs
          rtrClosed   \* calls of Close

rtrVars == <<rtrClock, rtrPools, rtrOpen, rtrOpened, rtrCalls, rtrSweep, rtrLoop, rtrClosed>>

NoSweep == [now |-> -1, ids |-> {}]
NotCalling == [pc |-> "idle", tenant |-> CHOOSE t \in RtrTenants : TRUE, db |-> 0, other |-> 0]

RouterInit ==
    /\ rtrClock = 0 /\ rtrPools = <<>> /\ rtrOpen = {} /\ rtrOpened = 0
    /\ rtrCalls = [p \in RtrProcs |-> NotCalling]
    /\ rtrSweep = NoSweep /\ rtrLoop = TRUE /\ rtrClosed = 0

Without(pools, ids) == [t \in DOMAIN pools \ ids |-> pools[t]]
WithPool(pools, t, pool) ==
    [u \in DOMAIN pools \union {t} |-> IF u = t THEN pool ELSE pools[u]]
Call(p, pc, t, db, other) ==
    rtrCalls' = [rtrCalls EXCEPT ![p] = [pc |-> pc, tenant |-> t, db |-> db, other |-> other]]
Done(p) == rtrCalls' = [rtrCalls EXCEPT ![p] = NotCalling]

-----------------------------------------------------------------------------
(* ForTenant.                                                               *)

\* Under the read lock: the pool is there, and its access is noted.
ForTenantFast(p, t) ==
    /\ rtrCalls[p].pc = "idle" /\ t \in DOMAIN rtrPools
    /\ rtrPools' = [rtrPools EXCEPT ![t].last = rtrClock]
    /\ UNCHANGED <<rtrClock, rtrOpen, rtrOpened, rtrCalls, rtrSweep, rtrLoop, rtrClosed>>

ForTenantMiss(p, t) ==
    /\ rtrCalls[p].pc = "idle" /\ t \notin DOMAIN rtrPools
    /\ Call(p, "connect", t, 0, 0)
    /\ UNCHANGED <<rtrClock, rtrPools, rtrOpen, rtrOpened, rtrSweep, rtrLoop, rtrClosed>>

\* ResolveURI, then NewDB; either may fail.
ResolveAndConnect(p) ==
    /\ rtrCalls[p].pc = "connect"
    /\ \/ /\ rtrOpened < RtrMaxOpen
          /\ rtrOpened' = rtrOpened + 1 /\ rtrOpen' = rtrOpen \union {rtrOpened + 1}
          /\ Call(p, "store", rtrCalls[p].tenant, rtrOpened + 1, 0)
       \/ Done(p) /\ UNCHANGED <<rtrOpen, rtrOpened>>
    /\ UNCHANGED <<rtrClock, rtrPools, rtrSweep, rtrLoop, rtrClosed>>

ForTenantStoreUnchecked(p) ==
    /\ rtrCalls[p].pc = "store"
    /\ rtrPools' = WithPool(rtrPools, rtrCalls[p].tenant,
                            [db |-> rtrCalls[p].db, last |-> rtrClock])
    /\ Done(p)
    /\ UNCHANGED <<rtrClock, rtrOpen, rtrOpened, rtrSweep, rtrLoop, rtrClosed>>

\* Under the lock: the double check.
ForTenantStore(p) ==
    LET t == rtrCalls[p].tenant IN
    /\ rtrCalls[p].pc = "store"
    /\ \/ /\ t \in DOMAIN rtrPools
          /\ Call(p, "discard", t, rtrCalls[p].db, rtrPools[t].db) /\ UNCHANGED rtrPools
       \/ /\ t \notin DOMAIN rtrPools
          /\ rtrPools' = WithPool(rtrPools, t, [db |-> rtrCalls[p].db, last |-> rtrClock])
          /\ Done(p)
    /\ UNCHANGED <<rtrClock, rtrOpen, rtrOpened, rtrSweep, rtrLoop, rtrClosed>>

\* Past the lock: its own pool is closed and the access to the other one noted (on
\* an entry that may have left the map since).
ForTenantDiscard(p) ==
    /\ rtrCalls[p].pc = "discard"
    /\ rtrOpen' = rtrOpen \ {rtrCalls[p].db}
    /\ rtrPools' = [u \in DOMAIN rtrPools |->
          IF rtrPools[u].db = rtrCalls[p].other THEN [rtrPools[u] EXCEPT !.last = rtrClock]
                                                ELSE rtrPools[u]]
    /\ Done(p)
    /\ UNCHANGED <<rtrClock, rtrOpened, rtrSweep, rtrLoop, rtrClosed>>

-----------------------------------------------------------------------------
(* Eviction and shutdown.                                                   *)

\* The pool leaves the map under the lock and is closed after it.
EvictTenant(p, t) ==
    /\ rtrCalls[p].pc = "idle" /\ t \in DOMAIN rtrPools
    /\ rtrPools' = Without(rtrPools, {t})
    /\ Call(p, "evict", t, rtrPools[t].db, 0)
    /\ UNCHANGED <<rtrClock, rtrOpen, rtrOpened, rtrSweep, rtrLoop, rtrClosed>>

EvictCloses(p) ==
    /\ rtrCalls[p].pc = "evict"
    /\ rtrOpen' = rtrOpen \ {rtrCalls[p].db}
    /\ Done(p)
    /\ UNCHANGED <<rtrClock, rtrPools, rtrOpened, rtrSweep, rtrLoop, rtrClosed>>

IdleAt(now, t) == t \in DOMAIN rtrPools /\ now - rtrPools[t].last > RtrIdle

\* A tick of cleanupLoop: the idle tenants are listed under the read lock ...
evictIdleLists ==
    /\ rtrLoop /\ rtrSweep = NoSweep
    /\ rtrSweep' = [now |-> rtrClock, ids |-> {t \in RtrTenants : IdleAt(rtrClock, t)}]
    /\ rtrSweep'.ids # {}
    /\ UNCHANGED <<rtrClock, rtrPools, rtrOpen, rtrOpened, rtrCalls, rtrLoop, rtrClosed>>

SweepSees(t) ==
    rtrSweep' = IF rtrSweep.ids = {t} THEN NoSweep ELSE [rtrSweep EXCEPT !.ids = @ \ {t}]

\* ... and each is looked at again under the lock before it is closed.
evictIdle(t) ==
    /\ t \in rtrSweep.ids
    /\ IF IdleAt(rtrSweep.now, t)
         THEN /\ rtrPools' = Without(rtrPools, {t})
              /\ rtrOpen' = rtrOpen \ {rtrPools[t].db}
         ELSE UNCHANGED <<rtrPools, rtrOpen>>
    /\ SweepSees(t)
    /\ UNCHANGED <<rtrClock, rtrOpened, rtrCalls, rtrLoop, rtrClosed>>

cleanupLoopReturns ==
    /\ rtrLoop /\ rtrClosed > 0 /\ rtrSweep = NoSweep
    /\ rtrLoop' = FALSE
    /\ UNCHANGED <<rtrClock, rtrPools, rtrOpen, rtrOpened, rtrCalls, rtrSweep, rtrClosed>>

\* A second Close panics.
RouterClose ==
    /\ rtrClosed = 0 /\ rtrClosed' = 1
    /\ rtrOpen' = rtrOpen \ {rtrPools[t].db : t \in DOMAIN rtrPools}
    /\ rtrPools' = <<>>
    /\ UNCHANGED <<rtrClock, rtrOpened, rtrCalls, rtrSweep, rtrLoop>>

RouterTick ==
    /\ rtrClock < RtrMaxTick /\ rtrClock' = rtrClock + 1
    /\ UNCHANGED <<rtrPools, rtrOpen, rtrOpened, rtrCalls, rtrSweep, rtrLoop, rtrClosed>>

RouterNext ==
    \/ \E p \in RtrProcs :
         \/ \E t \in RtrTenants :
              ForTenantFast(p, t) \/ ForTenantMiss(p, t) \/ EvictTenant(p, t)
         \/ ResolveAndConnect(p) \/ ForTenantStore(p) \/ ForTenantDiscard(p)
         \/ EvictCloses(p)
    \/ evictIdleLists \/ (\E t \in RtrTenants : evictIdle(t)) \/ cleanupLoopReturns
    \/ RouterClose \/ RouterTick

RouterSpec == RouterInit /\ [][RouterNext]_rtrVars

-----------------------------------------------------------------------------
RouterTypeOK ==
    /\ rtrClock \in 0..RtrMaxTick /\ rtrOpened \in 0..RtrMaxOpen /\ rtrClosed \in 0..1
    /\ rtrOpen \subseteq 1..rtrOpened
    /\ DOMAIN rtrPools \subseteq RtrTenants /\ rtrSweep.ids \subseteq RtrTenants

\* No pool is lost and none is closed behind the map: the pools that are open are the
\* ones in the map and the ones a call in progress is about to store or to close,
\* whatever callers miss, store and evict the same tenant at a time.
NoPoolLeaked ==
    rtrOpen = {rtrPools[t].db : t \in DOMAIN rtrPools}
                \union {rtrCalls[p].db : p \in {q \in RtrProcs : rtrCalls[q].db # 0}}
=============================================================================
