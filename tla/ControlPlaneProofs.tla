------------------------- MODULE ControlPlaneProofs -------------------------
(***************************************************************************)
(* Proofs about the control plane for any number of callers, tenants and   *)
(* writes: TenantRouter loses no connection pool, the quota of Managers is *)
(* passed by less than the number of callers, Scheduler starts a sync once *)
(* for each minute its cron expression names, what Keyring and Secrets     *)
(* keep can be read, Registry reports the health of what it has, and no    *)
(* row of Catalog refers to one that is gone.  The bounds of each          *)
(* component's state are here too.                                         *)
(***************************************************************************)
EXTENDS TenantRouter, Managers, Scheduler, Keyring, Secrets, Registry, Catalog,
        NaturalsInduction, WellFoundedInduction, SequenceTheorems, FiniteSetTheorems, TLAPS

(* TenantRouter.  The entries of the map and the calls in progress are      *)
(* well formed: a call carries a pool exactly in the steps between opening  *)
(* or taking it and storing or closing it.                                  *)
PoolCalls == {"idle", "connect", "store", "discard", "evict"}

RouterShape ==
    /\ rtrPools \in [DOMAIN rtrPools -> [db : 1..rtrOpened, last : Nat]]
    /\ DOMAIN rtrPools \subseteq RtrTenants
    /\ rtrCalls \in [RtrProcs -> [pc : PoolCalls, tenant : RtrTenants \cup {NotCalling.tenant},
                                  db : 0..rtrOpened, other : 0..rtrOpened]]
    /\ \A p \in RtrProcs :
          /\ rtrCalls[p].pc \in {"store", "discard", "evict"} <=> rtrCalls[p].db # 0
          /\ rtrCalls[p].pc # "idle" => rtrCalls[p].tenant \in RtrTenants
    /\ rtrClock \in Nat /\ rtrOpened \in Nat

(* No pool has two owners, so closing one's own never closes another's.     *)
OneOwner ==
    /\ \A t, u \in DOMAIN rtrPools : rtrPools[t].db = rtrPools[u].db => t = u
    /\ \A p, q \in RtrProcs : rtrCalls[p].db # 0 /\ rtrCalls[p].db = rtrCalls[q].db => p = q
    /\ \A p \in RtrProcs, t \in DOMAIN rtrPools : rtrCalls[p].db # rtrPools[t].db

RouterIInv == RouterShape /\ OneOwner /\ NoPoolLeaked

-----------------------------------------------------------------------------
(* NoPoolLeaked, pool by pool.                                              *)
LEMMA LeakedIs ==
  NoPoolLeaked <=> \A x : x \in rtrOpen <=>
                      \/ \E t \in DOMAIN rtrPools : x = rtrPools[t].db
                      \/ \E p \in RtrProcs : rtrCalls[p].db # 0 /\ x = rtrCalls[p].db
  BY DEF NoPoolLeaked

(* The same of the state after a step.                                      *)
LEMMA LeakedIsNext ==
  NoPoolLeaked' <=> \A x : x \in rtrOpen' <=>
                      \/ \E t \in DOMAIN rtrPools' : x = rtrPools'[t].db
                      \/ \E p \in RtrProcs : rtrCalls'[p].db # 0 /\ x = rtrCalls'[p].db
  BY DEF NoPoolLeaked

(* A caller that has no pool in its hands.                                  *)
LEMMA NotCallingIs ==
  /\ NotCalling.pc = "idle" /\ NotCalling.db = 0 /\ NotCalling.other = 0
  /\ NotCalling = [pc |-> "idle", tenant |-> NotCalling.tenant, db |-> 0, other |-> 0]
  BY DEF NotCalling

(* The router starts without pools.                                         *)
LEMMA RouterInitIInv == RouterInit => RouterIInv
<1> SUFFICES ASSUME RouterInit PROVE RouterIInv
  OBVIOUS
<1>1. DOMAIN rtrPools = {} /\ rtrPools \in [{} -> [db : 1..rtrOpened, last : Nat]]
  BY DEF RouterInit
<1>2. rtrOpened = 0 /\ rtrClock = 0 /\ rtrOpen = {} /\ rtrCalls = [p \in RtrProcs |-> NotCalling]
  BY DEF RouterInit
<1>3. NotCalling \in [pc : PoolCalls, tenant : RtrTenants \cup {NotCalling.tenant},
                      db : 0..rtrOpened, other : 0..rtrOpened]
  BY <1>2, NotCallingIs DEF PoolCalls
<1>4. RouterShape
  BY <1>1, <1>2, <1>3, NotCallingIs DEF RouterShape
<1>5. OneOwner
  BY <1>1, <1>2, NotCallingIs DEF OneOwner
<1>6. NoPoolLeaked
  BY <1>1, <1>2, NotCallingIs, LeakedIs
<1> QED
  BY <1>4, <1>5, <1>6 DEF RouterIInv

(* An access that is noted changes no pool.                                 *)
LEMMA FastKeeps ==
  ASSUME RouterIInv, NEW p \in RtrProcs, NEW t \in RtrTenants, ForTenantFast(p, t)
  PROVE  RouterIInv'
<1>1. /\ DOMAIN rtrPools' = DOMAIN rtrPools
      /\ \A u \in DOMAIN rtrPools : rtrPools'[u].db = rtrPools[u].db
      /\ rtrPools' \in [DOMAIN rtrPools -> [db : 1..rtrOpened, last : Nat]]
      /\ UNCHANGED <<rtrClock, rtrOpen, rtrOpened, rtrCalls>>
  BY DEF ForTenantFast, RouterIInv, RouterShape
<1>2. RouterShape'
  BY <1>1 DEF RouterIInv, RouterShape, PoolCalls, NotCalling
<1>3. OneOwner'
  BY <1>1 DEF RouterIInv, OneOwner
<1>4. NoPoolLeaked'
  BY <1>1, LeakedIs, LeakedIsNext DEF RouterIInv
<1> QED
  BY <1>2, <1>3, <1>4 DEF RouterIInv

(* A call that ends carries no pool.                                        *)
LEMMA DoneIsCall ==
  ASSUME RouterIInv, NEW p \in RtrProcs, Done(p)
  PROVE  Call(p, "idle", NotCalling.tenant, 0, 0)
  BY NotCallingIs DEF Done, Call

(* The shape of the calls after one has moved on.                           *)
LEMMA CallShape ==
  ASSUME RouterIInv, NEW p \in RtrProcs, NEW pc \in PoolCalls,
         NEW t \in RtrTenants \cup {NotCalling.tenant}, NEW n \in Nat, rtrOpened <= n,
         NEW db \in 0..n, NEW other \in 0..n,
         Call(p, pc, t, db, other),
         pc \in {"store", "discard", "evict"} <=> db # 0,
         pc # "idle" => t \in RtrTenants
  PROVE  /\ rtrCalls' \in [RtrProcs -> [pc : PoolCalls, tenant : RtrTenants \cup {NotCalling.tenant},
                                        db : 0..n, other : 0..n]]
         /\ \A q \in RtrProcs :
              /\ rtrCalls'[q].pc \in {"store", "discard", "evict"} <=> rtrCalls'[q].db # 0
              /\ rtrCalls'[q].pc # "idle" => rtrCalls'[q].tenant \in RtrTenants
<1>1. /\ rtrCalls'[p] = [pc |-> pc, tenant |-> t, db |-> db, other |-> other]
      /\ \A q \in RtrProcs : q # p => rtrCalls'[q] = rtrCalls[q]
      /\ rtrCalls' = [q \in RtrProcs |-> rtrCalls'[q]]
  BY DEF Call, RouterIInv, RouterShape
<1>2. \A q \in RtrProcs : rtrCalls[q] \in
         [pc : PoolCalls, tenant : RtrTenants \cup {NotCalling.tenant}, db : 0..n, other : 0..n]
  BY DEF RouterIInv, RouterShape
<1>3. \A q \in RtrProcs : rtrCalls'[q] \in
         [pc : PoolCalls, tenant : RtrTenants \cup {NotCalling.tenant}, db : 0..n, other : 0..n]
  BY <1>1, <1>2
<1>4. \A q \in RtrProcs :
         /\ rtrCalls'[q].pc \in {"store", "discard", "evict"} <=> rtrCalls'[q].db # 0
         /\ rtrCalls'[q].pc # "idle" => rtrCalls'[q].tenant \in RtrTenants
  BY <1>1 DEF RouterIInv, RouterShape
<1> QED
  BY <1>1, <1>3, <1>4

(* A miss, and a connection: the pool is numbered and in the caller's hands *)
(* or, on an error, nothing was opened.                                     *)
LEMMA ConnectKeeps ==
  ASSUME RouterIInv, NEW p \in RtrProcs,
         (\E t \in RtrTenants : ForTenantMiss(p, t)) \/ ResolveAndConnect(p)
  PROVE  RouterIInv'
<1>1. CASE \E t \in RtrTenants : ForTenantMiss(p, t)
  <2>1. PICK t \in RtrTenants : ForTenantMiss(p, t)
    BY <1>1
  <2>2. /\ rtrCalls[p].pc = "idle" /\ Call(p, "connect", t, 0, 0)
        /\ UNCHANGED <<rtrClock, rtrPools, rtrOpen, rtrOpened>>
    BY <2>1 DEF ForTenantMiss
  <2>3. rtrCalls[p].db = 0
    BY <2>2 DEF RouterIInv, RouterShape
  <2>4. /\ rtrCalls'[p].db = 0
        /\ \A q \in RtrProcs : q # p => rtrCalls'[q] = rtrCalls[q]
    BY <2>2 DEF Call, RouterIInv, RouterShape
  <2>5. RouterShape'
    <3>1. /\ rtrCalls' \in [RtrProcs -> [pc : PoolCalls, tenant : RtrTenants \cup {NotCalling.tenant},
                                         db : 0..rtrOpened, other : 0..rtrOpened]]
          /\ \A q \in RtrProcs :
              /\ rtrCalls'[q].pc \in {"store", "discard", "evict"} <=> rtrCalls'[q].db # 0
              /\ rtrCalls'[q].pc # "idle" => rtrCalls'[q].tenant \in RtrTenants
      BY <2>2, CallShape DEF RouterIInv, RouterShape, PoolCalls
    <3> QED
      BY <2>2, <3>1 DEF RouterIInv, RouterShape, PoolCalls, NotCalling
  <2>6. OneOwner'
    BY <2>2, <2>4 DEF RouterIInv, RouterShape, OneOwner
  <2>7. NoPoolLeaked'
    BY <2>2, <2>3, <2>4, LeakedIs, LeakedIsNext DEF RouterIInv
  <2> QED
    BY <2>5, <2>6, <2>7 DEF RouterIInv
<1>2. CASE ResolveAndConnect(p)
  <2>1. /\ rtrCalls[p].pc = "connect" /\ UNCHANGED <<rtrClock, rtrPools>>
        /\ rtrCalls[p].db = 0 /\ rtrCalls[p].tenant \in RtrTenants /\ rtrOpened \in Nat
    BY <1>2 DEF ResolveAndConnect, RouterIInv, RouterShape
  <2>2. CASE /\ rtrOpened' = rtrOpened + 1 /\ rtrOpen' = rtrOpen \cup {rtrOpened + 1}
             /\ Call(p, "store", rtrCalls[p].tenant, rtrOpened + 1, 0)
    <3>1. /\ rtrCalls'[p].db = rtrOpened + 1
          /\ \A q \in RtrProcs : q # p => rtrCalls'[q] = rtrCalls[q]
      BY <2>2 DEF Call, RouterIInv, RouterShape
    <3>2. /\ \A q \in RtrProcs : rtrCalls[q].db \in 0..rtrOpened
          /\ \A u \in DOMAIN rtrPools : rtrPools[u].db \in 1..rtrOpened
      BY DEF RouterIInv, RouterShape
    <3>3. RouterShape'
      <4>1. /\ rtrCalls' \in [RtrProcs -> [pc : PoolCalls, tenant : RtrTenants \cup {NotCalling.tenant},
                                           db : 0..(rtrOpened + 1), other : 0..(rtrOpened + 1)]]
            /\ \A q \in RtrProcs :
                /\ rtrCalls'[q].pc \in {"store", "discard", "evict"} <=> rtrCalls'[q].db # 0
                /\ rtrCalls'[q].pc # "idle" => rtrCalls'[q].tenant \in RtrTenants
        <5>1. /\ "store" \in PoolCalls /\ rtrOpened + 1 \in Nat /\ rtrOpened <= rtrOpened + 1
              /\ rtrOpened + 1 \in 0..(rtrOpened + 1) /\ 0 \in 0..(rtrOpened + 1)
              /\ rtrOpened + 1 # 0
          BY <2>1 DEF PoolCalls
        <5> QED
          BY <2>1, <2>2, <5>1, CallShape
      <4>2. rtrPools \in [DOMAIN rtrPools -> [db : 1..(rtrOpened + 1), last : Nat]]
        <5>1. \A u \in DOMAIN rtrPools : rtrPools[u] \in [db : 1..(rtrOpened + 1), last : Nat]
          BY DEF RouterIInv, RouterShape
        <5> QED
          BY <5>1 DEF RouterIInv, RouterShape
      <4> QED
        BY <2>1, <2>2, <4>1, <4>2 DEF RouterIInv, RouterShape, PoolCalls, NotCalling
    <3>4. OneOwner'
      BY <2>1, <3>1, <3>2 DEF RouterIInv, OneOwner
    <3>5. NoPoolLeaked'
      BY <2>1, <2>2, <3>1, <3>2, LeakedIs, LeakedIsNext DEF RouterIInv
    <3> QED
      BY <3>3, <3>4, <3>5 DEF RouterIInv
  <2>3. CASE Done(p) /\ UNCHANGED <<rtrOpen, rtrOpened>>
    <3>1. Call(p, "idle", NotCalling.tenant, 0, 0)
      BY <2>3, DoneIsCall
    <3>2. /\ rtrCalls'[p].db = 0
          /\ \A q \in RtrProcs : q # p => rtrCalls'[q] = rtrCalls[q]
      BY <3>1 DEF Call, RouterIInv, RouterShape
    <3>3. RouterShape'
      <4>1. /\ rtrCalls' \in [RtrProcs -> [pc : PoolCalls, tenant : RtrTenants \cup {NotCalling.tenant},
                                           db : 0..rtrOpened, other : 0..rtrOpened]]
            /\ \A q \in RtrProcs :
                /\ rtrCalls'[q].pc \in {"store", "discard", "evict"} <=> rtrCalls'[q].db # 0
                /\ rtrCalls'[q].pc # "idle" => rtrCalls'[q].tenant \in RtrTenants
        <5>1. /\ "idle" \in PoolCalls /\ rtrOpened <= rtrOpened /\ 0 \in 0..rtrOpened
          BY <2>1 DEF PoolCalls
        <5> QED
          BY <2>1, <3>1, <5>1, CallShape
      <4> QED
        BY <2>1, <2>3, <4>1 DEF RouterIInv, RouterShape, PoolCalls, NotCalling
    <3>4. OneOwner'
      BY <2>1, <3>2 DEF RouterIInv, RouterShape, OneOwner
    <3>5. NoPoolLeaked'
      BY <2>1, <2>3, <3>2, LeakedIs, LeakedIsNext DEF RouterIInv
    <3> QED
      BY <3>3, <3>4, <3>5 DEF RouterIInv
  <2> QED
    BY <1>2, <2>2, <2>3 DEF ResolveAndConnect
<1> QED
  BY <1>1, <1>2

(* The calls after one has ended.                                           *)
LEMMA DoneShape ==
  ASSUME RouterIInv, NEW p \in RtrProcs, Done(p)
  PROVE  /\ rtrCalls' \in [RtrProcs -> [pc : PoolCalls, tenant : RtrTenants \cup {NotCalling.tenant},
                                        db : 0..rtrOpened, other : 0..rtrOpened]]
         /\ \A q \in RtrProcs :
              /\ rtrCalls'[q].pc \in {"store", "discard", "evict"} <=> rtrCalls'[q].db # 0
              /\ rtrCalls'[q].pc # "idle" => rtrCalls'[q].tenant \in RtrTenants
         /\ rtrCalls'[p].db = 0
         /\ \A q \in RtrProcs : q # p => rtrCalls'[q] = rtrCalls[q]
<1>1. Call(p, "idle", NotCalling.tenant, 0, 0)
  BY DoneIsCall
<1>2. /\ "idle" \in PoolCalls /\ rtrOpened \in Nat /\ rtrOpened <= rtrOpened /\ 0 \in 0..rtrOpened
  BY DEF PoolCalls, RouterIInv, RouterShape
<1>3. /\ rtrCalls'[p].db = 0
      /\ \A q \in RtrProcs : q # p => rtrCalls'[q] = rtrCalls[q]
  BY <1>1 DEF Call, RouterIInv, RouterShape
<1> QED
  BY <1>1, <1>2, <1>3, CallShape

(* The double check: the caller's pool becomes the tenant's, or stays in    *)
(* the caller's hands to be closed.                                         *)
LEMMA StoreKeeps ==
  ASSUME RouterIInv, NEW p \in RtrProcs, ForTenantStore(p)
  PROVE  RouterIInv'
<1> DEFINE t == rtrCalls[p].tenant
           mine == rtrCalls[p].db
<1>1. /\ rtrCalls[p].pc = "store" /\ mine # 0 /\ mine \in 1..rtrOpened /\ t \in RtrTenants
      /\ rtrOpened \in Nat /\ rtrClock \in Nat
      /\ UNCHANGED <<rtrClock, rtrOpen, rtrOpened>>
  BY DEF ForTenantStore, RouterIInv, RouterShape
<1>2. CASE /\ t \in DOMAIN rtrPools /\ UNCHANGED rtrPools
           /\ Call(p, "discard", t, mine, rtrPools[t].db)
  <2>1. /\ rtrCalls'[p].db = mine
        /\ \A q \in RtrProcs : q # p => rtrCalls'[q] = rtrCalls[q]
    BY <1>2 DEF Call, RouterIInv, RouterShape
  <2>2. RouterShape'
    <3>1. /\ "discard" \in PoolCalls /\ rtrOpened <= rtrOpened
          /\ mine \in 0..rtrOpened /\ rtrPools[t].db \in 0..rtrOpened
      BY <1>1, <1>2 DEF PoolCalls, RouterIInv, RouterShape
    <3>2. /\ rtrCalls' \in [RtrProcs -> [pc : PoolCalls, tenant : RtrTenants \cup {NotCalling.tenant},
                                         db : 0..rtrOpened, other : 0..rtrOpened]]
          /\ \A q \in RtrProcs :
              /\ rtrCalls'[q].pc \in {"store", "discard", "evict"} <=> rtrCalls'[q].db # 0
              /\ rtrCalls'[q].pc # "idle" => rtrCalls'[q].tenant \in RtrTenants
      BY <1>1, <1>2, <3>1, CallShape
    <3> QED
      BY <1>1, <1>2, <3>2 DEF RouterIInv, RouterShape, PoolCalls, NotCalling
  <2>3. OneOwner'
    BY <1>2, <2>1 DEF RouterIInv, OneOwner
  <2>4. NoPoolLeaked'
    BY <1>1, <1>2, <2>1, LeakedIs, LeakedIsNext DEF RouterIInv
  <2> QED
    BY <2>2, <2>3, <2>4 DEF RouterIInv
<1>3. CASE /\ t \notin DOMAIN rtrPools /\ Done(p)
           /\ rtrPools' = WithPool(rtrPools, t, [db |-> mine, last |-> rtrClock])
  <2>1. /\ DOMAIN rtrPools' = DOMAIN rtrPools \cup {t}
        /\ rtrPools'[t] = [db |-> mine, last |-> rtrClock]
        /\ \A u \in DOMAIN rtrPools : rtrPools'[u] = rtrPools[u]
        /\ rtrPools' = [u \in DOMAIN rtrPools \cup {t} |-> rtrPools'[u]]
    BY <1>3 DEF WithPool
  <2>2. /\ rtrCalls'[p].db = 0
        /\ \A q \in RtrProcs : q # p => rtrCalls'[q] = rtrCalls[q]
    BY <1>3, DoneShape
  <2>3. RouterShape'
    <3>1. /\ rtrCalls' \in [RtrProcs -> [pc : PoolCalls, tenant : RtrTenants \cup {NotCalling.tenant},
                                         db : 0..rtrOpened, other : 0..rtrOpened]]
          /\ \A q \in RtrProcs :
              /\ rtrCalls'[q].pc \in {"store", "discard", "evict"} <=> rtrCalls'[q].db # 0
              /\ rtrCalls'[q].pc # "idle" => rtrCalls'[q].tenant \in RtrTenants
      BY <1>3, DoneShape
    <3>2. \A u \in DOMAIN rtrPools' : rtrPools'[u] \in [db : 1..rtrOpened, last : Nat]
      BY <1>1, <2>1 DEF RouterIInv, RouterShape
    <3>3. rtrPools' \in [DOMAIN rtrPools' -> [db : 1..rtrOpened, last : Nat]]
      BY <2>1, <3>2
    <3> QED
      BY <1>1, <2>1, <3>1, <3>3 DEF RouterIInv, RouterShape, PoolCalls, NotCalling
  <2>4. OneOwner'
    <3>1. \A u \in DOMAIN rtrPools : rtrPools[u].db # mine
      BY DEF RouterIInv, OneOwner
    <3>2. \A u, v \in DOMAIN rtrPools' : rtrPools'[u].db = rtrPools'[v].db => u = v
      BY <2>1, <3>1 DEF RouterIInv, OneOwner
    <3>3. \A q, r \in RtrProcs : rtrCalls'[q].db # 0 /\ rtrCalls'[q].db = rtrCalls'[r].db => q = r
      BY <2>2 DEF RouterIInv, OneOwner
    <3>4. \A q \in RtrProcs, u \in DOMAIN rtrPools' : rtrCalls'[q].db # rtrPools'[u].db
      <4>1. \A u \in DOMAIN rtrPools : rtrPools[u].db # 0
        BY DEF RouterIInv, RouterShape
      <4>2. \A q \in RtrProcs : q # p => rtrCalls[q].db # mine
        BY <1>1 DEF RouterIInv, OneOwner
      <4> QED
        BY <1>1, <2>1, <2>2, <4>1, <4>2 DEF RouterIInv, OneOwner
    <3> QED
      BY <3>2, <3>3, <3>4 DEF OneOwner
  <2>5. NoPoolLeaked'
    <3> SUFFICES ASSUME NEW x
                 PROVE  x \in rtrOpen' <=>
                          \/ \E u \in DOMAIN rtrPools' : x = rtrPools'[u].db
                          \/ \E q \in RtrProcs : rtrCalls'[q].db # 0 /\ x = rtrCalls'[q].db
      BY LeakedIsNext
    <3>0. x \in rtrOpen <=> \/ \E u \in DOMAIN rtrPools : x = rtrPools[u].db
                          \/ \E q \in RtrProcs : rtrCalls[q].db # 0 /\ x = rtrCalls[q].db
      BY LeakedIs DEF RouterIInv
    <3>1. (\E u \in DOMAIN rtrPools' : x = rtrPools'[u].db)
                 <=> (x = mine \/ \E u \in DOMAIN rtrPools : x = rtrPools[u].db)
      BY <1>3, <2>1
    <3>2. (\E q \in RtrProcs : rtrCalls[q].db # 0 /\ x = rtrCalls[q].db)
                 <=> (x = mine \/ \E q \in RtrProcs : rtrCalls'[q].db # 0 /\ x = rtrCalls'[q].db)
      BY <1>1, <2>2
    <3> QED
      BY <1>1, <3>0, <3>1, <3>2
  <2> QED
    BY <2>3, <2>4, <2>5 DEF RouterIInv
<1> QED
  BY <1>2, <1>3 DEF ForTenantStore

(* A caller closes the pool in its hands, which is nobody else's.           *)
LEMMA CloseOwnKeeps ==
  ASSUME RouterIInv, NEW p \in RtrProcs, ForTenantDiscard(p) \/ EvictCloses(p)
  PROVE  RouterIInv'
<1>1. /\ rtrCalls[p].db # 0 /\ rtrOpen' = rtrOpen \ {rtrCalls[p].db} /\ Done(p)
      /\ UNCHANGED <<rtrClock, rtrOpened>> /\ rtrClock \in Nat /\ rtrOpened \in Nat
  BY DEF ForTenantDiscard, EvictCloses, RouterIInv, RouterShape
<1>2. /\ rtrCalls'[p].db = 0
      /\ \A q \in RtrProcs : q # p => rtrCalls'[q] = rtrCalls[q]
      /\ rtrCalls' \in [RtrProcs -> [pc : PoolCalls, tenant : RtrTenants \cup {NotCalling.tenant},
                                     db : 0..rtrOpened, other : 0..rtrOpened]]
      /\ \A q \in RtrProcs :
           /\ rtrCalls'[q].pc \in {"store", "discard", "evict"} <=> rtrCalls'[q].db # 0
           /\ rtrCalls'[q].pc # "idle" => rtrCalls'[q].tenant \in RtrTenants
  BY <1>1, DoneShape
<1>3. /\ DOMAIN rtrPools' = DOMAIN rtrPools
      /\ \A u \in DOMAIN rtrPools : /\ rtrPools'[u].db = rtrPools[u].db
                                    /\ rtrPools'[u] \in [db : 1..rtrOpened, last : Nat]
      /\ rtrPools' = [u \in DOMAIN rtrPools |-> rtrPools'[u]]
  <2>1. CASE EvictCloses(p)
    BY <2>1 DEF EvictCloses, RouterIInv, RouterShape
  <2>2. CASE ForTenantDiscard(p)
    <3>1. rtrPools' = [u \in DOMAIN rtrPools |->
             IF rtrPools[u].db = rtrCalls[p].other THEN [rtrPools[u] EXCEPT !.last = rtrClock]
                                                   ELSE rtrPools[u]]
      BY <2>2 DEF ForTenantDiscard
    <3>2. \A u \in DOMAIN rtrPools : rtrPools[u] \in [db : 1..rtrOpened, last : Nat]
      BY DEF RouterIInv, RouterShape
    <3> QED
      BY <1>1, <3>1, <3>2
  <2> QED
    BY <2>1, <2>2
<1>4. RouterShape'
  <2>1. rtrPools' \in [DOMAIN rtrPools' -> [db : 1..rtrOpened, last : Nat]]
    BY <1>3
  <2> QED
    BY <1>1, <1>2, <1>3, <2>1 DEF RouterIInv, RouterShape, PoolCalls, NotCalling
<1>5. OneOwner'
  <2>1. \A u \in DOMAIN rtrPools : rtrPools[u].db # 0
    BY DEF RouterIInv, RouterShape
  <2> QED
    BY <1>2, <1>3, <2>1 DEF RouterIInv, OneOwner
<1>6. NoPoolLeaked'
  <2> SUFFICES ASSUME NEW x
               PROVE  x \in rtrOpen' <=>
                        \/ \E u \in DOMAIN rtrPools' : x = rtrPools'[u].db
                        \/ \E q \in RtrProcs : rtrCalls'[q].db # 0 /\ x = rtrCalls'[q].db
    BY LeakedIsNext
  <2>0. x \in rtrOpen <=> \/ \E u \in DOMAIN rtrPools : x = rtrPools[u].db
                          \/ \E q \in RtrProcs : rtrCalls[q].db # 0 /\ x = rtrCalls[q].db
    BY LeakedIs DEF RouterIInv
  <2>1. /\ \A u \in DOMAIN rtrPools : rtrPools[u].db # rtrCalls[p].db
        /\ \A q \in RtrProcs : q # p => rtrCalls[q].db # rtrCalls[p].db
    BY <1>1 DEF RouterIInv, OneOwner
  <2>2. (\E u \in DOMAIN rtrPools' : x = rtrPools'[u].db)
               <=> (\E u \in DOMAIN rtrPools : x = rtrPools[u].db)
    BY <1>3
  <2>3. (\E q \in RtrProcs : rtrCalls'[q].db # 0 /\ x = rtrCalls'[q].db)
               <=> (\E q \in RtrProcs : rtrCalls[q].db # 0 /\ x = rtrCalls[q].db /\ q # p)
    BY <1>2
  <2> QED
    BY <1>1, <2>0, <2>1, <2>2, <2>3
<1> QED
  BY <1>4, <1>5, <1>6 DEF RouterIInv

(* Eviction by a caller: the pool goes from the map to the caller's hands.  *)
LEMMA EvictKeeps ==
  ASSUME RouterIInv, NEW p \in RtrProcs, NEW t \in RtrTenants, EvictTenant(p, t)
  PROVE  RouterIInv'
<1>1. /\ rtrCalls[p].pc = "idle" /\ t \in DOMAIN rtrPools
      /\ rtrPools' = Without(rtrPools, {t}) /\ Call(p, "evict", t, rtrPools[t].db, 0)
      /\ UNCHANGED <<rtrClock, rtrOpen, rtrOpened>>
  BY DEF EvictTenant
<1>2. rtrCalls[p].db = 0 /\ rtrPools[t].db \in 1..rtrOpened /\ rtrOpened \in Nat
  BY <1>1 DEF RouterIInv, RouterShape
<1>3. /\ rtrCalls'[p].db = rtrPools[t].db
      /\ \A q \in RtrProcs : q # p => rtrCalls'[q] = rtrCalls[q]
  BY <1>1 DEF Call, RouterIInv, RouterShape
<1>4. /\ DOMAIN rtrPools' = DOMAIN rtrPools \ {t}
      /\ \A u \in DOMAIN rtrPools \ {t} : rtrPools'[u] = rtrPools[u]
      /\ rtrPools' = [u \in DOMAIN rtrPools \ {t} |-> rtrPools[u]]
  BY <1>1 DEF Without
<1>5. RouterShape'
  <2>1. /\ "evict" \in PoolCalls /\ rtrOpened <= rtrOpened /\ 0 \in 0..rtrOpened
        /\ rtrPools[t].db \in 0..rtrOpened /\ rtrPools[t].db # 0
    BY <1>2 DEF PoolCalls
  <2>2. /\ rtrCalls' \in [RtrProcs -> [pc : PoolCalls, tenant : RtrTenants \cup {NotCalling.tenant},
                                       db : 0..rtrOpened, other : 0..rtrOpened]]
        /\ \A q \in RtrProcs :
             /\ rtrCalls'[q].pc \in {"store", "discard", "evict"} <=> rtrCalls'[q].db # 0
             /\ rtrCalls'[q].pc # "idle" => rtrCalls'[q].tenant \in RtrTenants
    BY <1>1, <1>2, <2>1, CallShape
  <2>3. rtrPools' \in [DOMAIN rtrPools' -> [db : 1..rtrOpened, last : Nat]]
    BY <1>4 DEF RouterIInv, RouterShape
  <2> QED
    BY <1>1, <1>4, <2>2, <2>3 DEF RouterIInv, RouterShape, PoolCalls, NotCalling
<1>6. OneOwner'
  <2>1. \A u \in DOMAIN rtrPools \ {t} : rtrPools[u].db # rtrPools[t].db
    BY <1>1 DEF RouterIInv, OneOwner
  <2>2. \A q \in RtrProcs : rtrCalls[q].db # rtrPools[t].db
    BY <1>1 DEF RouterIInv, OneOwner
  <2>3. \A u, v \in DOMAIN rtrPools' : rtrPools'[u].db = rtrPools'[v].db => u = v
    BY <1>4 DEF RouterIInv, OneOwner
  <2>4. \A q, r \in RtrProcs : rtrCalls'[q].db # 0 /\ rtrCalls'[q].db = rtrCalls'[r].db => q = r
    BY <1>3, <2>2 DEF RouterIInv, OneOwner
  <2>5. \A q \in RtrProcs, u \in DOMAIN rtrPools' : rtrCalls'[q].db # rtrPools'[u].db
    BY <1>3, <1>4, <2>1 DEF RouterIInv, OneOwner
  <2> QED
    BY <2>3, <2>4, <2>5 DEF OneOwner
<1>7. NoPoolLeaked'
  <2> SUFFICES ASSUME NEW x
               PROVE  x \in rtrOpen' <=>
                        \/ \E u \in DOMAIN rtrPools' : x = rtrPools'[u].db
                        \/ \E q \in RtrProcs : rtrCalls'[q].db # 0 /\ x = rtrCalls'[q].db
    BY LeakedIsNext
  <2>0. x \in rtrOpen <=> \/ \E u \in DOMAIN rtrPools : x = rtrPools[u].db
                          \/ \E q \in RtrProcs : rtrCalls[q].db # 0 /\ x = rtrCalls[q].db
    BY LeakedIs DEF RouterIInv
  <2>1. (\E u \in DOMAIN rtrPools : x = rtrPools[u].db)
               <=> (x = rtrPools[t].db \/ \E u \in DOMAIN rtrPools' : x = rtrPools'[u].db)
    BY <1>1, <1>4
  <2>2. (\E q \in RtrProcs : rtrCalls'[q].db # 0 /\ x = rtrCalls'[q].db)
               <=> (x = rtrPools[t].db
                    \/ \E q \in RtrProcs : rtrCalls[q].db # 0 /\ x = rtrCalls[q].db)
    BY <1>2, <1>3
  <2> QED
    BY <1>1, <2>0, <2>1, <2>2
<1> QED
  BY <1>5, <1>6, <1>7 DEF RouterIInv

(* evictIdle: an idle pool leaves the map and is closed under the lock.     *)
LEMMA SweepKeeps ==
  ASSUME RouterIInv, NEW t \in RtrTenants, evictIdle(t)
  PROVE  RouterIInv'
<1>1. UNCHANGED <<rtrClock, rtrOpened, rtrCalls>>
  BY DEF evictIdle
<1>2. CASE UNCHANGED <<rtrPools, rtrOpen>>
  BY <1>1, <1>2, LeakedIs, LeakedIsNext
  DEF RouterIInv, RouterShape, OneOwner, PoolCalls, NotCalling
<1>3. CASE /\ t \in DOMAIN rtrPools /\ rtrPools' = Without(rtrPools, {t})
           /\ rtrOpen' = rtrOpen \ {rtrPools[t].db}
  <2>1. /\ DOMAIN rtrPools' = DOMAIN rtrPools \ {t}
        /\ \A u \in DOMAIN rtrPools \ {t} : rtrPools'[u] = rtrPools[u]
        /\ rtrPools' = [u \in DOMAIN rtrPools \ {t} |-> rtrPools[u]]
    BY <1>3 DEF Without
  <2>2. RouterShape'
    <3>1. rtrPools' \in [DOMAIN rtrPools' -> [db : 1..rtrOpened, last : Nat]]
      BY <2>1 DEF RouterIInv, RouterShape
    <3> QED
      BY <1>1, <2>1, <3>1 DEF RouterIInv, RouterShape, PoolCalls, NotCalling
  <2>3. OneOwner'
    BY <1>1, <2>1 DEF RouterIInv, OneOwner
  <2>4. NoPoolLeaked'
    <3> SUFFICES ASSUME NEW x
                 PROVE  x \in rtrOpen' <=>
                          \/ \E u \in DOMAIN rtrPools' : x = rtrPools'[u].db
                          \/ \E q \in RtrProcs : rtrCalls'[q].db # 0 /\ x = rtrCalls'[q].db
      BY LeakedIsNext
    <3>1. x \in rtrOpen <=> \/ \E u \in DOMAIN rtrPools : x = rtrPools[u].db
                            \/ \E q \in RtrProcs : rtrCalls[q].db # 0 /\ x = rtrCalls[q].db
      BY LeakedIs DEF RouterIInv
    <3>2. (\E u \in DOMAIN rtrPools' : x = rtrPools'[u].db)
          <=> (x # rtrPools[t].db /\ \E u \in DOMAIN rtrPools : x = rtrPools[u].db)
      BY <1>3, <2>1 DEF RouterIInv, OneOwner
    <3>3. \A q \in RtrProcs : rtrCalls[q].db # rtrPools[t].db
      BY <1>3 DEF RouterIInv, OneOwner
    <3> QED
      BY <1>1, <1>3, <3>1, <3>2, <3>3
  <2> QED
    BY <2>2, <2>3, <2>4 DEF RouterIInv
<1> QED
  BY <1>2, <1>3 DEF evictIdle, IdleAt

(* Close: the pools of the map, and no other, are closed.                   *)
LEMMA RouterCloseKeeps ==
  ASSUME RouterIInv, RouterClose
  PROVE  RouterIInv'
<1>1. /\ UNCHANGED <<rtrClock, rtrOpened, rtrCalls>>
      /\ rtrOpen' = rtrOpen \ {rtrPools[t].db : t \in DOMAIN rtrPools}
      /\ rtrPools' = <<>>
  BY DEF RouterClose
<1>2. DOMAIN rtrPools' = {} /\ rtrPools' \in [{} -> [db : 1..rtrOpened, last : Nat]]
  BY <1>1
<1>3. RouterShape'
  BY <1>1, <1>2 DEF RouterIInv, RouterShape, PoolCalls, NotCalling
<1>4. OneOwner'
  BY <1>1, <1>2 DEF RouterIInv, OneOwner
<1>5. NoPoolLeaked'
  <2> SUFFICES ASSUME NEW x
               PROVE  x \in rtrOpen' <=>
                        \/ \E u \in DOMAIN rtrPools' : x = rtrPools'[u].db
                        \/ \E q \in RtrProcs : rtrCalls'[q].db # 0 /\ x = rtrCalls'[q].db
    BY LeakedIsNext
  <2>1. x \in rtrOpen <=> \/ \E u \in DOMAIN rtrPools : x = rtrPools[u].db
                          \/ \E q \in RtrProcs : rtrCalls[q].db # 0 /\ x = rtrCalls[q].db
    BY LeakedIs DEF RouterIInv
  <2>2. \A q \in RtrProcs, u \in DOMAIN rtrPools : rtrCalls[q].db # rtrPools[u].db
    BY DEF RouterIInv, OneOwner
  <2> QED
    BY <1>1, <1>2, <2>1, <2>2
<1> QED
  BY <1>3, <1>4, <1>5 DEF RouterIInv

(* Every step of the router keeps its invariant.                            *)
LEMMA RouterNextKeeps ==
  ASSUME RouterIInv, [RouterNext]_rtrVars
  PROVE  RouterIInv'
<1>1. CASE \E p \in RtrProcs : \E t \in RtrTenants :
              ForTenantFast(p, t) \/ ForTenantMiss(p, t) \/ EvictTenant(p, t)
  BY <1>1, FastKeeps, ConnectKeeps, EvictKeeps
<1>2. CASE \E p \in RtrProcs : ResolveAndConnect(p) \/ ForTenantStore(p)
                               \/ ForTenantDiscard(p) \/ EvictCloses(p)
  BY <1>2, ConnectKeeps, StoreKeeps, CloseOwnKeeps
<1>3. CASE \E t \in RtrTenants : evictIdle(t)
  BY <1>3, SweepKeeps
<1>4. CASE RouterClose
  BY <1>4, RouterCloseKeeps
<1>5. CASE evictIdleLists \/ cleanupLoopReturns \/ RouterTick \/ UNCHANGED rtrVars
  <2>1. UNCHANGED <<rtrPools, rtrOpen, rtrOpened, rtrCalls>> /\ rtrClock' \in Nat
    BY <1>5 DEF evictIdleLists, cleanupLoopReturns, RouterTick, rtrVars, RouterIInv, RouterShape
  <2>2. RouterShape'
    BY <2>1 DEF RouterIInv, RouterShape, PoolCalls, NotCalling
  <2>3. OneOwner' /\ NoPoolLeaked'
    BY <2>1, LeakedIs, LeakedIsNext DEF RouterIInv, OneOwner
  <2> QED
    BY <2>2, <2>3 DEF RouterIInv
<1> QED
  BY <1>1, <1>2, <1>3, <1>4, <1>5 DEF RouterNext

(* Whoever opens, stores, finds, evicts and closes the pools of whichever   *)
(* tenants at a time, every open pool is in the map or in the hands of one  *)
(* call that will store or close it, and every pool of the map is open.     *)
THEOREM RouterLeaksNoPool == RouterSpec => []NoPoolLeaked
<1>1. RouterIInv /\ [RouterNext]_rtrVars => RouterIInv'
  BY RouterNextKeeps
<1>2. RouterIInv => NoPoolLeaked
  BY DEF RouterIInv
<1> QED
  BY <1>1, <1>2, RouterInitIInv, PTL DEF RouterSpec

(* No pool is ever owned twice: the tenants of the map and the calls in     *)
(* progress hold different pools, so that a call that closes the pool in    *)
(* its hands closes no other's.                                             *)
THEOREM RouterOneOwner == RouterSpec => []OneOwner
<1>1. RouterIInv /\ [RouterNext]_rtrVars => RouterIInv'
  BY RouterNextKeeps
<1>2. RouterIInv => OneOwner
  BY DEF RouterIInv
<1> QED
  BY <1>1, <1>2, RouterInitIInv, PTL DEF RouterSpec

-----------------------------------------------------------------------------
(* The bounds of the router's state.                                        *)

RtrBounded ==
    /\ rtrClock \in 0..RtrMaxTick /\ rtrOpened \in 0..RtrMaxOpen /\ rtrClosed \in 0..1
    /\ rtrSweep = [now |-> rtrSweep.now, ids |-> rtrSweep.ids]
    /\ rtrSweep.ids \subseteq RtrTenants

(* What a step does to the counters and to the sweep.                       *)
LEMMA RouterCounts ==
  ASSUME RtrBounded, [RouterNext]_rtrVars
  PROVE  /\ rtrClock' = rtrClock \/ (rtrClock < RtrMaxTick /\ rtrClock' = rtrClock + 1)
         /\ rtrOpened' = rtrOpened \/ (rtrOpened < RtrMaxOpen /\ rtrOpened' = rtrOpened + 1)
         /\ rtrClosed' \in {rtrClosed, 1}
         /\ \/ rtrSweep' = rtrSweep
            \/ rtrSweep' = NoSweep
            \/ \E ids \in SUBSET RtrTenants, now \in {rtrClock, rtrSweep.now} :
                  rtrSweep' = [now |-> now, ids |-> ids]
<1> DEFINE Counted ==
       /\ rtrClock' = rtrClock \/ (rtrClock < RtrMaxTick /\ rtrClock' = rtrClock + 1)
       /\ rtrOpened' = rtrOpened \/ (rtrOpened < RtrMaxOpen /\ rtrOpened' = rtrOpened + 1)
       /\ rtrClosed' \in {rtrClosed, 1}
       /\ \/ rtrSweep' = rtrSweep
          \/ rtrSweep' = NoSweep
          \/ \E ids \in SUBSET RtrTenants, now \in {rtrClock, rtrSweep.now} :
                rtrSweep' = [now |-> now, ids |-> ids]
<1>1. UNCHANGED rtrVars => Counted
  BY DEF rtrVars
<1>2. ASSUME NEW p \in RtrProcs, NEW t \in RtrTenants
      PROVE  ForTenantFast(p, t) \/ ForTenantMiss(p, t) \/ EvictTenant(p, t) => Counted
  BY DEF ForTenantFast, ForTenantMiss, EvictTenant
<1>3. ASSUME NEW p \in RtrProcs
      PROVE  ResolveAndConnect(p) \/ ForTenantStore(p) \/ ForTenantDiscard(p) \/ EvictCloses(p)
               => Counted
  <2>1. ResolveAndConnect(p) => Counted
    BY DEF ResolveAndConnect
  <2>2. ForTenantStore(p) \/ ForTenantDiscard(p) \/ EvictCloses(p) => Counted
    BY Zenon DEF ForTenantStore, ForTenantDiscard, EvictCloses
  <2> QED
    BY <2>1, <2>2
<1>4. evictIdleLists => Counted
  <2> SUFFICES ASSUME evictIdleLists PROVE Counted
    OBVIOUS
  <2>1. PICK ids : ids = {t \in RtrTenants : IdleAt(rtrClock, t)}
    OBVIOUS
  <2>2. ids \in SUBSET RtrTenants /\ rtrSweep' = [now |-> rtrClock, ids |-> ids]
    BY <2>1 DEF evictIdleLists
  <2>3. UNCHANGED <<rtrClock, rtrOpened, rtrClosed>>
    BY DEF evictIdleLists
  <2> QED
    BY <2>2, <2>3
<1>5. ASSUME NEW t \in RtrTenants PROVE evictIdle(t) => Counted
  <2> SUFFICES ASSUME evictIdle(t) PROVE Counted
    OBVIOUS
  <2>1. UNCHANGED <<rtrClock, rtrOpened, rtrClosed>> /\ SweepSees(t)
    BY DEF evictIdle
  <2>2. PICK n, i : n = rtrSweep.now /\ i = rtrSweep.ids
    OBVIOUS
  <2>3. rtrSweep = [now |-> n, ids |-> i] /\ i \subseteq RtrTenants
    BY <2>2 DEF RtrBounded
  <2>4. [rtrSweep EXCEPT !.ids = @ \ {t}] = [now |-> n, ids |-> i \ {t}]
    BY <2>3
  <2>5. rtrSweep' = NoSweep \/ rtrSweep' = [now |-> n, ids |-> i \ {t}]
    BY <2>1, <2>4 DEF SweepSees
  <2>6. i \ {t} \in SUBSET RtrTenants /\ n \in {rtrClock, rtrSweep.now}
    BY <2>2, <2>3
  <2> QED
    BY <2>1, <2>5, <2>6
<1>6. cleanupLoopReturns \/ RouterClose \/ RouterTick => Counted
  BY DEF cleanupLoopReturns, RouterClose, RouterTick
<1> HIDE DEF Counted
<1>7. Counted
  BY <1>1, <1>2, <1>3, <1>4, <1>5, <1>6 DEF RouterNext
<1> QED
  BY <1>7 DEF Counted

(* The router keeps its types: its pools are of tenants, and the open ones  *)
(* are among those that it opened.                                          *)
LEMMA RouterTypes == RouterSpec => []RouterTypeOK
<1>1. RouterInit => RtrBounded
  <2> SUFFICES ASSUME RouterInit PROVE RtrBounded
    OBVIOUS
  <2>1. rtrClock = 0 /\ rtrOpened = 0 /\ rtrClosed = 0
    BY DEF RouterInit
  <2>2. rtrSweep = [now |-> rtrSweep.now, ids |-> rtrSweep.ids] /\ rtrSweep.ids = {}
    BY DEF RouterInit, NoSweep
  <2> QED
    BY <2>1, <2>2, RouterAssumption DEF RtrBounded
<1>2. RtrBounded /\ [RouterNext]_rtrVars => RtrBounded'
  <2> SUFFICES ASSUME RtrBounded, [RouterNext]_rtrVars PROVE RtrBounded'
    OBVIOUS
  <2>1. /\ rtrClock \in 0..RtrMaxTick /\ rtrOpened \in 0..RtrMaxOpen /\ rtrClosed \in 0..1
        /\ rtrSweep = [now |-> rtrSweep.now, ids |-> rtrSweep.ids]
        /\ rtrSweep.ids \subseteq RtrTenants
    BY DEF RtrBounded
  <2>2. rtrClock' \in 0..RtrMaxTick /\ rtrOpened' \in 0..RtrMaxOpen /\ rtrClosed' \in 0..1
    BY <2>1, RouterCounts, RouterAssumption
  <2>3. \/ rtrSweep' = rtrSweep
        \/ rtrSweep' = NoSweep
        \/ \E ids \in SUBSET RtrTenants, now \in {rtrClock, rtrSweep.now} :
              rtrSweep' = [now |-> now, ids |-> ids]
    BY RouterCounts
  <2>4. /\ rtrSweep' = [now |-> rtrSweep'.now, ids |-> rtrSweep'.ids]
        /\ rtrSweep'.ids \subseteq RtrTenants
    <3>1. CASE rtrSweep' = rtrSweep
      BY <2>1, <3>1
    <3>2. CASE rtrSweep' = NoSweep
      BY <3>2 DEF NoSweep
    <3>3. ASSUME NEW ids \in SUBSET RtrTenants, NEW now, rtrSweep' = [now |-> now, ids |-> ids]
          PROVE  /\ rtrSweep' = [now |-> rtrSweep'.now, ids |-> rtrSweep'.ids]
                 /\ rtrSweep'.ids \subseteq RtrTenants
      BY <3>3
    <3> QED
      BY <2>3, <3>1, <3>2, <3>3
  <2> QED
    BY <2>2, <2>4 DEF RtrBounded
<1>3. RouterIInv /\ RtrBounded => RouterTypeOK
  <2> SUFFICES ASSUME RouterIInv, RtrBounded PROVE RouterTypeOK
    OBVIOUS
  <2>1. ASSUME NEW x \in rtrOpen PROVE x \in 1..rtrOpened
    <3>1. CASE \E t \in DOMAIN rtrPools : x = rtrPools[t].db
      BY <3>1 DEF RouterIInv, RouterShape
    <3>2. ASSUME NEW p \in RtrProcs, rtrCalls[p].db # 0, x = rtrCalls[p].db
          PROVE  x \in 1..rtrOpened
      <4>1. rtrCalls[p].db \in 0..rtrOpened /\ rtrOpened \in Nat
        BY DEF RouterIInv, RouterShape
      <4> QED
        BY <3>2, <4>1
    <3> QED
      BY <3>1, <3>2, LeakedIs DEF RouterIInv
  <2> QED
    BY <2>1 DEF RouterIInv, RouterShape, RtrBounded, RouterTypeOK
<1>4. RouterIInv /\ [RouterNext]_rtrVars => RouterIInv'
  BY RouterNextKeeps
<1> QED
  BY <1>1, <1>2, <1>3, <1>4, RouterInitIInv, PTL DEF RouterSpec

-----------------------------------------------------------------------------
(* Managers.  Every row is a record, a call of one manager is not in the    *)
(* steps of another, and a tenant that has no row yet has no copy.          *)
Filling == {"fill", "quotafill"}
Comparing == {"compare", "version"}
TenantCalls == {"provision", "dbinfo", "update", "quotaload", "quotafill", "count", "add"}
MgrCalls == {"idle", "load", "fill", "invalidate", "compare", "version"} \cup TenantCalls

\* The copies that are cached, or will be by a read in progress.
Copies == {c \in {mgrCache} : c # NoRow}
            \cup {mgrProcs[p].row : p \in {q \in MgrProcs : mgrProcs[q].pc \in Filling}}

MgrShape ==
    /\ mgrKind \in {"config", "schema", "tenant"}
    /\ mgrRow = [val |-> mgrRow.val, db |-> mgrRow.db]
    /\ mgrProcs = [p \in MgrProcs |-> [pc |-> mgrProcs[p].pc, row |-> mgrProcs[p].row]]
    /\ \A p \in MgrProcs :
          /\ mgrProcs[p].pc \in MgrCalls
          /\ mgrProcs[p].pc \in TenantCalls => mgrKind = "tenant"
          /\ mgrProcs[p].pc \in Comparing => mgrKind = "schema"
    /\ mgrKind = "tenant" /\ mgrRow = NoRow => Copies = {}
    /\ mgrAdded \in Nat /\ mgrPeak \in Nat

\* Every quota a check may use is one the tenant has had.
QuotaRow(r) == r = [val |-> r.val, db |-> r.db] /\ r.val # <<>> /\ r.val[1] \in Nat
Quotas ==
    mgrKind = "tenant" =>
        /\ mgrRow # NoRow => QuotaRow(mgrRow) /\ mgrRow.val[1] <= mgrPeak
        /\ \A c \in Copies : QuotaRow(c) /\ c.val[1] <= mgrPeak
        /\ \A p \in MgrProcs : mgrProcs[p].pc = "count" =>
              QuotaRow(mgrProcs[p].row) /\ mgrProcs[p].row.val[1] <= mgrPeak
        /\ \A p \in MgrProcs : mgrProcs[p].pc = "update" => QuotaRow(mgrProcs[p].row)

\* The callers that have been let through and have yet to add count already.
Adding == {p \in MgrProcs : mgrProcs[p].pc = "add"}
Overshoot == mgrAdded + Cardinality(Adding) < mgrPeak + Cardinality(MgrProcs)

\* With no writer left to remove a copy and none that might have missed one, the
\* copies are true.
Removing(p) == mgrProcs[p].pc = "invalidate" \/ mgrProcs[p].pc \in Comparing
CopiesSettled ==
    mgrRisk = {} /\ (\A p \in MgrProcs : ~Removing(p)) => \A c \in Copies : ~Stale(c)

\* Schema discoveries that did not cross and did not fail: one runs at a time, on the
\* stored row; between them the latest version shows the row; and while one compares,
\* a copy shows the row or the latest version, so that "no change" is right to leave it.
VersionsFollow ==
    mgrKind = "schema" /\ "behind" \notin mgrRisk =>
        /\ \A p, q \in MgrProcs :
              mgrProcs[p].pc \in Comparing /\ mgrProcs[q].pc \in Comparing => p = q
        /\ \A p \in MgrProcs : mgrProcs[p].pc \in Comparing =>
              mgrProcs[p].row.val = mgrRow.val
        /\ mgrLatest # NoSchema /\ (\A p \in MgrProcs : mgrProcs[p].pc \notin Comparing) =>
              extractProperties(mgrLatest) = extractProperties(mgrRow.val)
        /\ /\ mgrLatest # NoSchema /\ mgrRisk = {}
           /\ \A p \in MgrProcs : mgrProcs[p].pc # "invalidate"
           /\ \E p \in MgrProcs : mgrProcs[p].pc = "compare"
           => \A c \in Copies : \/ extractProperties(c.val) = extractProperties(mgrLatest)
                                \/ extractProperties(c.val) = extractProperties(mgrRow.val)

ManagersIInv == MgrShape /\ Quotas /\ Overshoot /\ CopiesSettled /\ VersionsFollow

-----------------------------------------------------------------------------
(* The copies, one by one.                                                  *)
LEMMA CopiesAre ==
  \A x : x \in Copies <=>
            \/ x = mgrCache /\ x # NoRow
            \/ \E p \in MgrProcs : mgrProcs[p].pc \in Filling /\ x = mgrProcs[p].row
  BY DEF Copies

(* The same of the state after a step.                                      *)
LEMMA CopiesAreNext ==
  \A x : x \in Copies' <=>
            \/ x = mgrCache' /\ x # NoRow
            \/ \E p \in MgrProcs : mgrProcs'[p].pc \in Filling /\ x = mgrProcs'[p].row
  BY DEF Copies, Filling, NoRow

(* What a caller that moves on changes.                                     *)
LEMMA BecomesFacts ==
  ASSUME MgrShape, NEW p \in MgrProcs, NEW pc, NEW row, Becomes(p, pc, row)
  PROVE  /\ mgrProcs'[p].pc = pc /\ mgrProcs'[p].row = row
         /\ \A q \in MgrProcs : q # p => mgrProcs'[q] = mgrProcs[q]
         /\ mgrProcs' = [q \in MgrProcs |-> [pc |-> mgrProcs'[q].pc, row |-> mgrProcs'[q].row]]
<1>1. mgrProcs = [q \in MgrProcs |-> [pc |-> mgrProcs[q].pc, row |-> mgrProcs[q].row]]
  BY DEF MgrShape
<1>2. mgrProcs' = [mgrProcs EXCEPT ![p] = [pc |-> pc, row |-> row]]
  BY DEF Becomes
<1>3. DOMAIN mgrProcs = MgrProcs
  BY <1>1
<1>4. \A q \in MgrProcs : mgrProcs[q] = [pc |-> mgrProcs[q].pc, row |-> mgrProcs[q].row]
  BY <1>1
<1>5. /\ mgrProcs'[p] = [pc |-> pc, row |-> row]
      /\ \A q \in MgrProcs : q # p => mgrProcs'[q] = mgrProcs[q]
  BY <1>2, <1>3
<1>6. \A q \in MgrProcs : mgrProcs'[q] = [pc |-> mgrProcs'[q].pc, row |-> mgrProcs'[q].row]
  BY <1>4, <1>5
<1>7. mgrProcs' = [q \in MgrProcs |-> mgrProcs'[q]]
  BY <1>2, <1>3
<1> QED
  BY <1>5, <1>6, <1>7

(* A copy is judged by the row alone.                                       *)
LEMMA StaleSame ==
  ASSUME UNCHANGED <<mgrKind, mgrKeyed, mgrRow>>
  PROVE  \A c : Stale(c)' <=> Stale(c)
  BY DEF Stale, Served, Decrypt

(* What is read from the store is true when it is read.                     *)
LEMMA ServedTrue ==
  ASSUME MgrShape
  PROVE  ~Stale(Served(mgrRow)) /\ (mgrKind # "config" => Served(mgrRow) = mgrRow)
  BY DEF MgrShape, Stale, Served

(* A caller that moves on without being let through leaves the sum of the   *)
(* resources and of the callers about to add one no larger.                 *)
LEMMA OvershootKept ==
  ASSUME ManagersIInv, NEW p \in MgrProcs, NEW pc, NEW row, Becomes(p, pc, row), pc # "add",
         mgrAdded' = mgrAdded, mgrPeak' \in Nat, mgrPeak <= mgrPeak'
  PROVE  Overshoot'
<1>1. /\ mgrProcs'[p].pc = pc
      /\ \A q \in MgrProcs : q # p => mgrProcs'[q] = mgrProcs[q]
  BY BecomesFacts DEF ManagersIInv
<1>2. Adding' = Adding \ {p}
  BY <1>1 DEF Adding
<1>3. IsFiniteSet(Adding) /\ Cardinality(Adding) \in Nat
  BY ManagersAssumption, FS_Subset, FS_CardinalityType DEF Adding
<1>4. Cardinality(Adding') \in Nat /\ Cardinality(Adding') <= Cardinality(Adding)
  BY <1>2, <1>3, FS_RemoveElement, FS_CardinalityType
<1>5. Cardinality(MgrProcs) \in Nat
  BY ManagersAssumption, FS_CardinalityType
<1>6. /\ mgrAdded + Cardinality(Adding) < mgrPeak + Cardinality(MgrProcs)
      /\ mgrAdded \in Nat /\ mgrPeak \in Nat
  BY DEF ManagersIInv, Overshoot, MgrShape
<1>7. mgrAdded' + Cardinality(Adding') < mgrPeak' + Cardinality(MgrProcs)
  BY <1>3, <1>4, <1>5, <1>6
<1> QED
  BY <1>7 DEF Overshoot

(* A caller that neither begins nor ends a removal, nor changes the row:    *)
(* the copies stay as true as they were when the step adds none but what    *)
(* the store holds.                                                         *)
LEMMA QuietKeeps ==
  ASSUME ManagersIInv, NEW p \in MgrProcs, NEW pc \in MgrCalls, NEW row, Becomes(p, pc, row),
         UNCHANGED <<mgrKind, mgrKeyed, mgrRow, mgrLatest, mgrRisk, mgrPeak>>,
         mgrProcs[p].pc \notin Comparing, mgrProcs[p].pc # "invalidate",
         pc \notin Comparing, pc # "invalidate",
         pc \in TenantCalls => mgrKind = "tenant",
         mgrKind = "tenant" /\ pc = "count" => QuotaRow(row) /\ row.val[1] <= mgrPeak,
         mgrKind = "tenant" /\ pc = "update" => QuotaRow(row),
         \A c \in Copies' : c \in Copies \/ (c = Served(mgrRow) /\ mgrRow # NoRow),
         mgrAdded' \in Nat, Overshoot'
  PROVE  ManagersIInv'
<1>1. /\ mgrProcs'[p].pc = pc /\ mgrProcs'[p].row = row
      /\ \A q \in MgrProcs : q # p => mgrProcs'[q] = mgrProcs[q]
      /\ mgrProcs' = [q \in MgrProcs |-> [pc |-> mgrProcs'[q].pc, row |-> mgrProcs'[q].row]]
  BY BecomesFacts DEF ManagersIInv
<1>2. \A q \in MgrProcs : /\ mgrProcs'[q].pc \in Comparing <=> mgrProcs[q].pc \in Comparing
                          /\ mgrProcs'[q].pc = "invalidate" <=> mgrProcs[q].pc = "invalidate"
                          /\ mgrProcs'[q].pc = "compare" <=> mgrProcs[q].pc = "compare"
                          /\ mgrProcs[q].pc \in Comparing => mgrProcs'[q] = mgrProcs[q]
  BY <1>1 DEF Comparing
<1>3. MgrShape'
  <2>1. mgrKind = "tenant" /\ mgrRow = NoRow => Copies' = {}
    BY DEF ManagersIInv, MgrShape
  <2>2. \A q \in MgrProcs :
          /\ mgrProcs'[q].pc \in MgrCalls
          /\ mgrProcs'[q].pc \in TenantCalls => mgrKind = "tenant"
          /\ mgrProcs'[q].pc \in Comparing => mgrKind = "schema"
    BY <1>1 DEF ManagersIInv, MgrShape
  <2> QED
    BY <1>1, <2>1, <2>2 DEF ManagersIInv, MgrShape, MgrCalls, TenantCalls, Comparing, NoRow
<1>4. Quotas'
  <2> SUFFICES ASSUME mgrKind = "tenant" PROVE Quotas'
    BY DEF Quotas
  <2>1. Served(mgrRow) = mgrRow
    BY ServedTrue DEF ManagersIInv
  <2>2. \A c \in Copies' : QuotaRow(c) /\ c.val[1] <= mgrPeak
    BY <2>1 DEF ManagersIInv, Quotas
  <2>3. \A q \in MgrProcs : mgrProcs'[q].pc = "count" =>
           QuotaRow(mgrProcs'[q].row) /\ mgrProcs'[q].row.val[1] <= mgrPeak
    BY <1>1 DEF ManagersIInv, Quotas
  <2>4. \A q \in MgrProcs : mgrProcs'[q].pc = "update" => QuotaRow(mgrProcs'[q].row)
    BY <1>1 DEF ManagersIInv, Quotas
  <2> QED
    BY <2>2, <2>3, <2>4 DEF ManagersIInv, Quotas, QuotaRow, NoRow
<1>5. CopiesSettled'
  <2> SUFFICES ASSUME mgrRisk' = {}, \A q \in MgrProcs : ~Removing(q)', NEW c \in Copies'
               PROVE  ~Stale(c)'
    BY DEF CopiesSettled
  <2>1. \A q \in MgrProcs : ~Removing(q)
    BY <1>2 DEF Removing, Comparing
  <2>2. ~Stale(c)
    BY <2>1, ServedTrue DEF ManagersIInv, CopiesSettled
  <2> QED
    BY <2>2, StaleSame
<1>6. VersionsFollow'
  <2> SUFFICES ASSUME mgrKind = "schema", "behind" \notin mgrRisk PROVE VersionsFollow'
    BY DEF VersionsFollow
  <2>1. Served(mgrRow) = mgrRow
    BY ServedTrue DEF ManagersIInv
  <2>2. /\ \A q, r \in MgrProcs :
              mgrProcs'[q].pc \in Comparing /\ mgrProcs'[r].pc \in Comparing => q = r
        /\ \A q \in MgrProcs : mgrProcs'[q].pc \in Comparing =>
              mgrProcs'[q].row.val = mgrRow.val
    BY <1>2 DEF ManagersIInv, VersionsFollow
  <2>3. mgrLatest # NoSchema /\ (\A q \in MgrProcs : mgrProcs'[q].pc \notin Comparing) =>
              extractProperties(mgrLatest) = extractProperties(mgrRow.val)
    BY <1>2 DEF ManagersIInv, VersionsFollow
  <2>4. ASSUME mgrLatest # NoSchema, mgrRisk = {},
               \A q \in MgrProcs : mgrProcs'[q].pc # "invalidate",
               \E q \in MgrProcs : mgrProcs'[q].pc = "compare", NEW c \in Copies'
        PROVE  \/ extractProperties(c.val) = extractProperties(mgrLatest)
               \/ extractProperties(c.val) = extractProperties(mgrRow.val)
    BY <1>2, <2>1, <2>4 DEF ManagersIInv, VersionsFollow
  <2> QED
    BY <2>2, <2>3, <2>4 DEF VersionsFollow, Comparing, NoSchema
<1> QED
  BY <1>3, <1>4, <1>5, <1>6 DEF ManagersIInv

(* A caller that does not go on to fill adds no copy.                       *)
LEMMA CopiesFewer ==
  ASSUME MgrShape, NEW p \in MgrProcs, NEW pc, NEW row, Becomes(p, pc, row), pc \notin Filling,
         \/ mgrCache' = mgrCache
         \/ mgrCache' = NoRow
         \/ mgrProcs[p].pc \in Filling /\ mgrCache' = mgrProcs[p].row
  PROVE  Copies' \subseteq Copies
<1>1. /\ mgrProcs'[p].pc = pc
      /\ \A q \in MgrProcs : q # p => mgrProcs'[q] = mgrProcs[q]
  BY BecomesFacts
<1> QED
  BY <1>1, CopiesAre, CopiesAreNext

(* A caller that goes on to fill adds the copy it has read.                 *)
LEMMA CopiesLoaded ==
  ASSUME MgrShape, NEW p \in MgrProcs, NEW pc, NEW row, Becomes(p, pc, row),
         UNCHANGED mgrCache
  PROVE  \A c \in Copies' : c \in Copies \/ c = row
<1>1. /\ mgrProcs'[p].pc = pc /\ mgrProcs'[p].row = row
      /\ \A q \in MgrProcs : q # p => mgrProcs'[q] = mgrProcs[q]
  BY BecomesFacts
<1> QED
  BY <1>1, CopiesAre, CopiesAreNext

(* What every read leaves alone.                                            *)
LEMMA DataStaysFacts ==
  ASSUME ManagersIInv, DataStays
  PROVE  /\ UNCHANGED <<mgrKind, mgrKeyed, mgrRow, mgrLatest, mgrRisk, mgrPeak, mgrAdded>>
         /\ mgrAdded' \in Nat /\ mgrPeak' \in Nat /\ mgrPeak <= mgrPeak'
  BY DEF ManagersIInv, MgrShape, DataStays

(* A caller that returns, or goes on to the store.                          *)
LEMMA PassKeeps ==
  ASSUME ManagersIInv, NEW p \in MgrProcs,
         mgrProcs[p].pc \notin Comparing, mgrProcs[p].pc # "invalidate",
         NEW pc \in {"idle", "load", "quotaload", "dbinfo"}, Becomes(p, pc, NoRow),
         pc \in TenantCalls => mgrKind = "tenant",
         \/ mgrCache' = mgrCache
         \/ mgrCache' = NoRow
         \/ mgrProcs[p].pc \in Filling /\ mgrCache' = mgrProcs[p].row,
         DataStays
  PROVE  ManagersIInv'
<1>1. /\ UNCHANGED <<mgrKind, mgrKeyed, mgrRow, mgrLatest, mgrRisk, mgrPeak, mgrAdded>>
      /\ mgrAdded' \in Nat /\ mgrPeak' \in Nat /\ mgrPeak <= mgrPeak'
  BY DataStaysFacts
<1>2. /\ pc \in MgrCalls /\ pc \notin Filling /\ pc \notin Comparing /\ pc # "invalidate"
      /\ pc # "add" /\ pc # "count" /\ pc # "update"
  BY DEF MgrCalls, TenantCalls, Filling, Comparing
<1>3. Copies' \subseteq Copies
  BY <1>2, CopiesFewer DEF ManagersIInv
<1>4. Overshoot'
  BY <1>1, <1>2, OvershootKept
<1> QED
  BY <1>1, <1>2, <1>3, <1>4, QuietKeeps

(* The store's answer.                                                      *)
LEMMA LoadKeeps ==
  ASSUME ManagersIInv, NEW p \in MgrProcs, NEW at \in {"load", "quotaload"},
         NEW next \in Filling, StoreRead(p, at, next, Served(mgrRow)),
         next \in TenantCalls => mgrKind = "tenant"
  PROVE  ManagersIInv'
<1>1. mgrProcs[p].pc = at /\ UNCHANGED mgrCache /\ DataStays
  BY DEF StoreRead
<1>2. mgrProcs[p].pc \notin Comparing /\ mgrProcs[p].pc # "invalidate"
  BY <1>1 DEF Comparing
<1>3. CASE mgrRow # NoRow /\ Becomes(p, next, Served(mgrRow))
  <2>1. /\ UNCHANGED <<mgrKind, mgrKeyed, mgrRow, mgrLatest, mgrRisk, mgrPeak, mgrAdded>>
        /\ mgrAdded' \in Nat /\ mgrPeak' \in Nat /\ mgrPeak <= mgrPeak'
    BY <1>1, DataStaysFacts
  <2>2. /\ next \in MgrCalls /\ next \notin Comparing /\ next # "invalidate"
        /\ next # "add" /\ next # "count" /\ next # "update"
    BY DEF MgrCalls, TenantCalls, Filling, Comparing
  <2>3. \A c \in Copies' : c \in Copies \/ (c = Served(mgrRow) /\ mgrRow # NoRow)
    BY <1>1, <1>3, CopiesLoaded DEF ManagersIInv
  <2>4. Overshoot'
    BY <1>3, <2>1, <2>2, OvershootKept
  <2> QED
    BY <1>2, <1>3, <2>1, <2>2, <2>3, <2>4, QuietKeeps
<1>4. CASE Returns(p)
  BY <1>1, <1>2, <1>4, PassKeeps DEF Returns, TenantCalls
<1> QED
  BY <1>3, <1>4 DEF StoreRead

(* GetConnectorConfig, GetSchema and GetTenant.                             *)
LEMMA GetKeeps ==
  ASSUME ManagersIInv, NEW p \in MgrProcs,
         GetConnectorConfig(p) \/ GetSchema(p) \/ GetTenant(p)
  PROVE  ManagersIInv'
<1>1. CASE CacheLookup(p, "load", Returns(p))
  <2>1. mgrProcs[p].pc = "idle" /\ UNCHANGED mgrCache /\ DataStays
    BY <1>1 DEF CacheLookup
  <2>2. Becomes(p, "idle", NoRow) \/ Becomes(p, "load", NoRow)
    BY <1>1 DEF CacheLookup, Returns
  <2> QED
    BY <2>1, <2>2, PassKeeps DEF Comparing, TenantCalls
<1>2. CASE StoreRead(p, "load", "fill", Served(mgrRow))
  BY <1>2, LoadKeeps DEF Filling, TenantCalls
<1>3. CASE StoreRead(p, "load", "idle", NoRow)
  <2>1. mgrProcs[p].pc = "load" /\ UNCHANGED mgrCache /\ DataStays /\ Becomes(p, "idle", NoRow)
    BY <1>3 DEF StoreRead, Returns
  <2> QED
    BY <2>1, PassKeeps DEF Comparing, TenantCalls
<1>4. CASE CacheSet(p, "fill", Returns(p))
  <2>1. /\ mgrProcs[p].pc = "fill" /\ DataStays /\ Becomes(p, "idle", NoRow)
        /\ mgrCache' = mgrProcs[p].row \/ mgrCache' = mgrCache
    BY <1>4 DEF CacheSet, Returns
  <2> QED
    BY <2>1, PassKeeps DEF Comparing, TenantCalls, Filling
<1>5. mgrKind # "config" => Served(mgrRow) = mgrRow
  BY ServedTrue DEF ManagersIInv
<1> QED
  BY <1>1, <1>2, <1>3, <1>4, <1>5 DEF GetConnectorConfig, GetSchema, GetTenant

(* CheckQuota: a caller is let through only below a quota the tenant had.   *)
LEMMA CheckQuotaKeeps ==
  ASSUME ManagersIInv, NEW p \in MgrProcs, CheckQuota(p)
  PROVE  ManagersIInv'
<1>1. mgrKind = "tenant" /\ Served(mgrRow) = mgrRow
  BY ServedTrue DEF CheckQuota, ManagersIInv
<1>2. CASE CacheLookup(p, "quotaload", Becomes(p, "count", mgrCache))
  <2>1. mgrProcs[p].pc = "idle" /\ UNCHANGED mgrCache /\ DataStays
    BY <1>2 DEF CacheLookup
  <2>2. CASE Becomes(p, "quotaload", NoRow)
    BY <1>1, <2>1, <2>2, PassKeeps DEF Comparing
  <2>3. CASE mgrCache # NoRow /\ Becomes(p, "count", mgrCache)
    <3>1. /\ UNCHANGED <<mgrKind, mgrKeyed, mgrRow, mgrLatest, mgrRisk, mgrPeak, mgrAdded>>
          /\ mgrAdded' \in Nat /\ mgrPeak' \in Nat /\ mgrPeak <= mgrPeak'
      BY <2>1, DataStaysFacts
    <3>2. "count" \in MgrCalls /\ "count" \notin Comparing /\ "count" \notin Filling
      BY DEF MgrCalls, TenantCalls, Filling, Comparing
    <3>3. QuotaRow(mgrCache) /\ mgrCache.val[1] <= mgrPeak
      <4>1. mgrCache \in Copies
        BY <2>3, CopiesAre
      <4> QED
        BY <1>1, <4>1 DEF ManagersIInv, Quotas
    <3>4. Copies' \subseteq Copies
      BY <2>1, <2>3, <3>2, CopiesFewer DEF ManagersIInv
    <3>5. Overshoot'
      BY <2>3, <3>1, OvershootKept
    <3>6. mgrProcs[p].pc \notin Comparing /\ mgrProcs[p].pc # "invalidate"
      BY <2>1 DEF Comparing
    <3> QED
      BY <1>1, <2>3, <3>1, <3>2, <3>3, <3>4, <3>5, <3>6, QuietKeeps
  <2> QED
    BY <1>2, <2>2, <2>3 DEF CacheLookup
<1>3. CASE StoreRead(p, "quotaload", "quotafill", mgrRow)
  BY <1>1, <1>3, LoadKeeps DEF Filling
<1>4. CASE CacheSet(p, "quotafill", Becomes(p, "count", mgrProcs[p].row))
  <2>1. /\ mgrProcs[p].pc = "quotafill" /\ DataStays /\ Becomes(p, "count", mgrProcs[p].row)
        /\ mgrCache' = mgrProcs[p].row \/ mgrCache' = mgrCache
    BY <1>4 DEF CacheSet
  <2>2. /\ UNCHANGED <<mgrKind, mgrKeyed, mgrRow, mgrLatest, mgrRisk, mgrPeak, mgrAdded>>
        /\ mgrAdded' \in Nat /\ mgrPeak' \in Nat /\ mgrPeak <= mgrPeak'
    BY <2>1, DataStaysFacts
  <2>3. /\ "count" \in MgrCalls /\ "count" \notin Comparing /\ "count" \notin Filling
        /\ mgrProcs[p].pc \in Filling /\ mgrProcs[p].pc \notin Comparing
    BY <2>1 DEF MgrCalls, TenantCalls, Filling, Comparing
  <2>4. QuotaRow(mgrProcs[p].row) /\ mgrProcs[p].row.val[1] <= mgrPeak
    <3>1. mgrProcs[p].row \in Copies
      BY <2>3, CopiesAre
    <3> QED
      BY <1>1, <3>1 DEF ManagersIInv, Quotas
  <2>5. Copies' \subseteq Copies
    BY <2>1, <2>3, CopiesFewer DEF ManagersIInv
  <2>6. Overshoot'
    BY <2>1, <2>2, OvershootKept
  <2> QED
    BY <1>1, <2>1, <2>2, <2>3, <2>4, <2>5, <2>6, QuietKeeps
<1>5. CASE /\ mgrProcs[p].pc = "count" /\ UNCHANGED mgrCache /\ DataStays
           /\ WithinQuota(mgrAdded, mgrProcs[p].row.val[1]) /\ Becomes(p, "add", NoRow)
  <2>1. /\ UNCHANGED <<mgrKind, mgrKeyed, mgrRow, mgrLatest, mgrRisk, mgrPeak, mgrAdded>>
        /\ mgrAdded' \in Nat
    BY <1>5, DataStaysFacts
  <2>2. /\ "add" \in MgrCalls /\ "add" \notin Comparing /\ "add" \notin Filling
        /\ mgrProcs[p].pc \notin Comparing
    BY <1>5 DEF MgrCalls, TenantCalls, Filling, Comparing
  <2>3. Copies' \subseteq Copies
    BY <1>5, <2>2, CopiesFewer DEF ManagersIInv
  <2>4. Overshoot'
    <3>1. mgrAdded < mgrPeak /\ mgrAdded \in Nat /\ mgrPeak \in Nat
      <4>1. mgrAdded \in Nat /\ mgrPeak \in Nat
        BY DEF ManagersIInv, MgrShape
      <4>2. QuotaRow(mgrProcs[p].row) /\ mgrProcs[p].row.val[1] <= mgrPeak
        BY <1>1, <1>5 DEF ManagersIInv, Quotas
      <4>3. mgrProcs[p].row.val[1] \in Nat
        BY <4>2 DEF QuotaRow
      <4> QED
        BY <1>5, <4>1, <4>2, <4>3 DEF WithinQuota
    <3>2. Adding' \in SUBSET MgrProcs
      BY DEF Adding
    <3>3. Cardinality(Adding') \in Nat /\ Cardinality(Adding') <= Cardinality(MgrProcs)
      BY <3>2, ManagersAssumption, FS_Subset, FS_CardinalityType
    <3>4. Cardinality(MgrProcs) \in Nat
      BY ManagersAssumption, FS_CardinalityType
    <3>5. mgrAdded' + Cardinality(Adding') < mgrPeak' + Cardinality(MgrProcs)
      BY <2>1, <3>1, <3>3, <3>4
    <3> QED
      BY <3>5 DEF Overshoot
  <2> QED
    BY <1>1, <1>5, <2>1, <2>2, <2>3, <2>4, QuietKeeps
<1>6. CASE mgrProcs[p].pc = "count" /\ UNCHANGED mgrCache /\ DataStays /\ Returns(p)
  BY <1>6, PassKeeps DEF Comparing, TenantCalls, Returns
<1> QED
  BY <1>2, <1>3, <1>4, <1>5, <1>6 DEF CheckQuota

(* The higher of two quotas.                                                *)
LEMMA HigherOf ==
  ASSUME NEW a \in Nat, NEW b \in Nat
  PROVE  Max({a, b}) \in Nat /\ a <= Max({a, b}) /\ b <= Max({a, b})
<1>1. \E x \in {a, b} : \A y \in {a, b} : x >= y
  OBVIOUS
<1> QED
  BY <1>1 DEF Max

(* A step that moves no caller and at most drops the copy.                  *)
LEMMA ExpiryKeeps ==
  ASSUME ManagersIInv, UNCHANGED mgrProcs, mgrCache' = mgrCache \/ mgrCache' = NoRow, DataStays
  PROVE  ManagersIInv'
<1>1. /\ UNCHANGED <<mgrKind, mgrKeyed, mgrRow, mgrLatest, mgrRisk, mgrPeak, mgrAdded>>
      /\ mgrAdded' \in Nat /\ mgrPeak' \in Nat
  BY DataStaysFacts
<1>2. Copies' \subseteq Copies
  BY CopiesAre, CopiesAreNext
<1>3. MgrShape'
  BY <1>1, <1>2 DEF ManagersIInv, MgrShape, MgrCalls, TenantCalls, Comparing, NoRow
<1>4. Quotas'
  <2>1. \A c \in Copies' : mgrKind = "tenant" => QuotaRow(c) /\ c.val[1] <= mgrPeak
    BY <1>2 DEF ManagersIInv, Quotas
  <2> QED
    BY <1>1, <2>1 DEF ManagersIInv, Quotas, QuotaRow, NoRow
<1>5. Overshoot'
  <2>1. Adding' = Adding
    BY DEF Adding
  <2> QED
    BY <1>1, <2>1 DEF ManagersIInv, Overshoot
<1>6. CopiesSettled'
  <2>1. \A p \in MgrProcs : Removing(p)' <=> Removing(p)
    BY DEF Removing, Comparing
  <2> QED
    BY <1>1, <1>2, <2>1, StaleSame DEF ManagersIInv, CopiesSettled
<1>7. VersionsFollow'
  BY <1>1, <1>2 DEF ManagersIInv, VersionsFollow, Comparing, NoSchema
<1> QED
  BY <1>3, <1>4, <1>5, <1>6, <1>7 DEF ManagersIInv

(* A row that comes to name its database keeps its quota.                   *)
LEMMA RowNames ==
  ASSUME NEW r, r = [val |-> r.val, db |-> r.db]
  PROVE  [r EXCEPT !.db = TRUE] = [val |-> r.val, db |-> TRUE]
<1>1. PICK e : e = TRUE
  BY Zenon
<1>2. [r EXCEPT !.db = e] = [val |-> r.val, db |-> e]
  OBVIOUS
<1> QED
  BY <1>1, <1>2, Zenon

(* And so it is still a row with a quota.                                   *)
LEMMA QuotaNames ==
  ASSUME NEW r, QuotaRow(r)
  PROVE  QuotaRow([r EXCEPT !.db = TRUE])
<1> DEFINE s == [r EXCEPT !.db = TRUE]
<1>1. r = [val |-> r.val, db |-> r.db] /\ r.val # <<>> /\ r.val[1] \in Nat
  BY DEF QuotaRow
<1>2. s = [val |-> r.val, db |-> TRUE]
  BY <1>1, RowNames
<1> HIDE DEF s
<1>3. PICK e : e = TRUE
  BY Zenon
<1>4. s = [val |-> r.val, db |-> e]
  BY <1>2, <1>3, Zenon
<1>5. s.val = r.val /\ s = [val |-> s.val, db |-> s.db]
  BY <1>4
<1>6. QuotaRow(s)
  BY <1>1, <1>5 DEF QuotaRow
<1> QED
  BY <1>6 DEF s

(* The steps of a tenant's provisioning and of UpdateQuotas that write no   *)
(* row.                                                                     *)
LEMMA ProvisionKeeps ==
  ASSUME ManagersIInv, NEW p \in MgrProcs,
         ProvisionDatabase(p) \/ updateDatabaseInfo(p) \/ \E q \in 0..1 : UpdateQuotas(p, q)
  PROVE  ManagersIInv'
<1>1. CASE ProvisionDatabase(p)
  <2>1. /\ mgrProcs[p].pc = "provision" /\ UNCHANGED mgrCache /\ DataStays
        /\ Becomes(p, "dbinfo", NoRow) \/ Becomes(p, "idle", NoRow)
    BY <1>1 DEF ProvisionDatabase, Returns
  <2>2. mgrKind = "tenant"
    BY <2>1 DEF ManagersIInv, MgrShape, TenantCalls
  <2> QED
    BY <2>1, <2>2, PassKeeps DEF Comparing
<1>2. ASSUME NEW row, Becomes(p, "update", row), QuotaRow(row), mgrKind = "tenant",
             mgrProcs[p].pc \notin Comparing, mgrProcs[p].pc # "invalidate", UNCHANGED mgrCache,
             UNCHANGED <<mgrKind, mgrKeyed, mgrRow, mgrLatest, mgrRisk, mgrPeak, mgrAdded>>
      PROVE  ManagersIInv'
  <2>1. /\ "update" \in MgrCalls /\ "update" \notin Comparing /\ "update" \notin Filling
    BY DEF MgrCalls, TenantCalls, Filling, Comparing
  <2>2. Copies' \subseteq Copies
    BY <1>2, <2>1, CopiesFewer DEF ManagersIInv
  <2>3. mgrAdded' \in Nat /\ mgrPeak' \in Nat /\ mgrPeak <= mgrPeak'
    BY <1>2 DEF ManagersIInv, MgrShape
  <2>4. Overshoot'
    BY <1>2, <2>3, OvershootKept
  <2> QED
    BY <1>2, <2>1, <2>2, <2>3, <2>4, QuietKeeps
<1>3. CASE updateDatabaseInfo(p)
  <2>1. mgrProcs[p].pc = "dbinfo" /\ UNCHANGED mgrCache /\ DataStays
    BY <1>3 DEF updateDatabaseInfo, StoreRead
  <2>2. /\ mgrKind = "tenant" /\ mgrProcs[p].pc \notin Comparing
        /\ mgrProcs[p].pc # "invalidate"
    BY <2>1 DEF ManagersIInv, MgrShape, TenantCalls, Comparing
  <2>3. CASE mgrRow # NoRow /\ Becomes(p, "update", [mgrRow EXCEPT !.db = TRUE])
    <3>1. QuotaRow(mgrRow)
      BY <2>2, <2>3 DEF ManagersIInv, Quotas
    <3>2. QuotaRow([mgrRow EXCEPT !.db = TRUE])
      BY <3>1, QuotaNames
    <3>3. UNCHANGED <<mgrKind, mgrKeyed, mgrRow, mgrLatest, mgrRisk, mgrPeak, mgrAdded>>
      BY <2>1 DEF DataStays
    <3> QED
      BY <1>2, <2>1, <2>2, <2>3, <3>2, <3>3
  <2>4. CASE Returns(p)
    BY <2>1, <2>2, <2>4, PassKeeps DEF Returns, TenantCalls
  <2> QED
    BY <1>3, <2>3, <2>4 DEF updateDatabaseInfo, StoreRead
<1>4. CASE \E q \in 0..1 : UpdateQuotas(p, q)
  <2>1. PICK q \in 0..1 : UpdateQuotas(p, q)
    BY <1>4
  <2>2. /\ mgrKind = "tenant" /\ mgrProcs[p].pc = "idle"
        /\ Becomes(p, "update", [mgrRow EXCEPT !.val = <<q>>])
        /\ UNCHANGED <<mgrKind, mgrKeyed, mgrRow, mgrCache, mgrLatest, mgrAdded, mgrPeak, mgrRisk>>
    BY <2>1 DEF UpdateQuotas, Starts
  <2>3. mgrRow = [val |-> mgrRow.val, db |-> mgrRow.db]
    BY DEF ManagersIInv, MgrShape
  <2>4. [mgrRow EXCEPT !.val = <<q>>] = [val |-> <<q>>, db |-> mgrRow.db]
    BY <2>3
  <2>5. QuotaRow([mgrRow EXCEPT !.val = <<q>>])
    BY <2>4 DEF QuotaRow
  <2>6. mgrProcs[p].pc \notin Comparing /\ mgrProcs[p].pc # "invalidate"
    BY <2>2 DEF Comparing
  <2> QED
    BY <1>2, <2>2, <2>5, <2>6
<1> QED
  BY <1>1, <1>3, <1>4

(* A caller that was let through adds its resource.                         *)
LEMMA AddsKeeps ==
  ASSUME ManagersIInv, NEW p \in MgrProcs, CallerAdds(p)
  PROVE  ManagersIInv'
<1>1. /\ mgrProcs[p].pc = "add" /\ mgrAdded' = mgrAdded + 1 /\ Becomes(p, "idle", NoRow)
      /\ UNCHANGED <<mgrKind, mgrKeyed, mgrRow, mgrCache, mgrLatest, mgrPeak, mgrRisk>>
  BY DEF CallerAdds, Returns
<1>2. /\ "idle" \in MgrCalls /\ "idle" \notin Comparing /\ "idle" \notin Filling
      /\ "idle" \notin TenantCalls /\ mgrProcs[p].pc \notin Comparing
  BY <1>1 DEF MgrCalls, TenantCalls, Filling, Comparing
<1>3. Copies' \subseteq Copies
  BY <1>1, <1>2, CopiesFewer DEF ManagersIInv
<1>4. /\ mgrAdded \in Nat /\ mgrPeak \in Nat
      /\ mgrAdded + Cardinality(Adding) < mgrPeak + Cardinality(MgrProcs)
  BY DEF ManagersIInv, MgrShape, Overshoot
<1>5. Overshoot'
  <2>1. /\ mgrProcs'[p].pc = "idle"
        /\ \A q \in MgrProcs : q # p => mgrProcs'[q] = mgrProcs[q]
    BY <1>1, BecomesFacts DEF ManagersIInv
  <2>2. Adding' = Adding \ {p} /\ p \in Adding
    BY <1>1, <2>1 DEF Adding
  <2>3. IsFiniteSet(Adding) /\ Cardinality(Adding) \in Nat
    BY ManagersAssumption, FS_Subset, FS_CardinalityType DEF Adding
  <2>4. Cardinality(Adding') = Cardinality(Adding) - 1
    BY <2>2, <2>3, FS_RemoveElement
  <2>5. Cardinality(MgrProcs) \in Nat
    BY ManagersAssumption, FS_CardinalityType
  <2>6. mgrAdded' + Cardinality(Adding') < mgrPeak' + Cardinality(MgrProcs)
    BY <1>1, <1>4, <2>3, <2>4, <2>5
  <2> QED
    BY <2>6 DEF Overshoot
<1>6. mgrAdded' \in Nat
  BY <1>1, <1>4
<1> QED
  BY <1>1, <1>2, <1>3, <1>5, <1>6, QuietKeeps

(* A row is written and its writer goes on to remove the copy; not of a     *)
(* schema, whose writer compares first.                                     *)
LEMMA WrittenKeeps ==
  ASSUME ManagersIInv, NEW p \in MgrProcs, Becomes(p, "invalidate", NoRow),
         mgrKind # "schema", NEW row, row = [val |-> row.val, db |-> row.db], mgrRow' = row,
         mgrKind = "tenant" => row # NoRow /\ QuotaRow(row) /\ row.val[1] <= mgrPeak',
         mgrPeak' \in Nat, mgrPeak <= mgrPeak',
         UNCHANGED <<mgrKind, mgrKeyed, mgrCache, mgrLatest, mgrAdded, mgrRisk>>
  PROVE  ManagersIInv'
<1>1. /\ mgrProcs'[p].pc = "invalidate"
      /\ \A q \in MgrProcs : q # p => mgrProcs'[q] = mgrProcs[q]
      /\ mgrProcs' = [q \in MgrProcs |-> [pc |-> mgrProcs'[q].pc, row |-> mgrProcs'[q].row]]
  BY BecomesFacts DEF ManagersIInv
<1>2. /\ "invalidate" \in MgrCalls /\ "invalidate" \notin TenantCalls
      /\ "invalidate" \notin Comparing /\ "invalidate" \notin Filling
  BY DEF MgrCalls, TenantCalls, Comparing, Filling
<1>3. Copies' \subseteq Copies
  BY <1>2, CopiesFewer DEF ManagersIInv
<1>4. MgrShape'
  <2>1. \A q \in MgrProcs :
          /\ mgrProcs'[q].pc \in MgrCalls
          /\ mgrProcs'[q].pc \in TenantCalls => mgrKind = "tenant"
          /\ mgrProcs'[q].pc \in Comparing => mgrKind = "schema"
    BY <1>1, <1>2 DEF ManagersIInv, MgrShape
  <2>2. mgrRow' = [val |-> mgrRow'.val, db |-> mgrRow'.db]
    OBVIOUS
  <2>3. ~(mgrKind' = "tenant" /\ mgrRow' = NoRow)
    OBVIOUS
  <2> QED
    BY <1>1, <2>1, <2>2, <2>3 DEF ManagersIInv, MgrShape, MgrCalls, TenantCalls, Comparing, NoRow
<1>5. Quotas'
  <2> SUFFICES ASSUME mgrKind = "tenant" PROVE Quotas'
    BY DEF Quotas
  <2>1. \A c : QuotaRow(c) /\ c.val[1] <= mgrPeak => c.val[1] <= mgrPeak'
    BY DEF QuotaRow, ManagersIInv, MgrShape
  <2>2. \A c \in Copies' : QuotaRow(c) /\ c.val[1] <= mgrPeak'
    BY <1>3, <2>1 DEF ManagersIInv, Quotas
  <2>3. \A q \in MgrProcs : mgrProcs'[q].pc = "count" =>
           QuotaRow(mgrProcs'[q].row) /\ mgrProcs'[q].row.val[1] <= mgrPeak'
    BY <1>1, <2>1 DEF ManagersIInv, Quotas
  <2>4. \A q \in MgrProcs : mgrProcs'[q].pc = "update" => QuotaRow(mgrProcs'[q].row)
    BY <1>1 DEF ManagersIInv, Quotas
  <2>5. QuotaRow(mgrRow') /\ mgrRow'.val[1] <= mgrPeak'
    OBVIOUS
  <2> QED
    BY <2>2, <2>3, <2>4, <2>5 DEF Quotas, QuotaRow
<1>6. Overshoot'
  BY OvershootKept
<1>7. CopiesSettled'
  <2>1. Removing(p)'
    BY <1>1 DEF Removing
  <2> QED
    BY <2>1 DEF CopiesSettled
<1>8. VersionsFollow'
  BY DEF VersionsFollow
<1> QED
  BY <1>4, <1>5, <1>6, <1>7, <1>8 DEF ManagersIInv

(* SaveConnectorConfig, and the update of a tenant's row.                   *)
LEMMA WriteKeeps ==
  ASSUME ManagersIInv, NEW p \in MgrProcs,
         (\E v \in 0..1 : SaveConnectorConfig(p, v)) \/ TenantUpdate(p)
  PROVE  ManagersIInv'
<1>1. mgrPeak \in Nat /\ mgrRow = [val |-> mgrRow.val, db |-> mgrRow.db]
  BY DEF ManagersIInv, MgrShape
<1>2. CASE \E v \in 0..1 : SaveConnectorConfig(p, v)
  <2>1. PICK v \in 0..1 : SaveConnectorConfig(p, v)
    BY <1>2
  <2> DEFINE val == Encrypt(<<"plain", v>>)
  <2>2. /\ mgrKind = "config" /\ mgrRow' = [mgrRow EXCEPT !.val = val]
        /\ Becomes(p, "invalidate", NoRow)
        /\ UNCHANGED <<mgrKind, mgrKeyed, mgrCache, mgrLatest, mgrAdded, mgrPeak, mgrRisk>>
    BY <2>1 DEF SaveConnectorConfig
  <2> HIDE DEF val
  <2>3. mgrRow' = [val |-> val, db |-> mgrRow.db]
    BY <1>1, <2>2
  <2>4. mgrPeak' \in Nat /\ mgrPeak <= mgrPeak'
    BY <1>1, <2>2
  <2>5. mgrRow' = [val |-> mgrRow'.val, db |-> mgrRow'.db]
    BY <2>3
  <2> QED
    BY <2>2, <2>4, <2>5, WrittenKeeps
<1>3. CASE TenantUpdate(p)
  <2>1. /\ mgrProcs[p].pc = "update"
        /\ UNCHANGED <<mgrKind, mgrKeyed, mgrCache, mgrLatest, mgrAdded, mgrRisk>>
    BY <1>3 DEF TenantUpdate
  <2>2. mgrKind = "tenant"
    BY <2>1 DEF ManagersIInv, MgrShape, TenantCalls
  <2>3. QuotaRow(mgrProcs[p].row)
    BY <2>1, <2>2 DEF ManagersIInv, Quotas
  <2>4. CASE /\ mgrRow' = mgrProcs[p].row
             /\ mgrPeak' = Max({mgrPeak, mgrProcs[p].row.val[1]})
             /\ Becomes(p, "invalidate", NoRow)
    <3>1. mgrPeak' \in Nat /\ mgrPeak <= mgrPeak' /\ mgrProcs[p].row.val[1] <= mgrPeak'
      BY <1>1, <2>3, <2>4, HigherOf DEF QuotaRow
    <3>2. mgrProcs[p].row = [val |-> mgrProcs[p].row.val, db |-> mgrProcs[p].row.db]
      BY <2>3 DEF QuotaRow
    <3>3. mgrProcs[p].row # NoRow
      BY <2>3 DEF QuotaRow, NoRow
    <3> QED
      BY <2>1, <2>2, <2>3, <2>4, <3>1, <3>2, <3>3, WrittenKeeps
  <2>5. CASE Returns(p) /\ UNCHANGED <<mgrRow, mgrPeak>>
    <3>1. DataStays
      BY <1>3, <2>5 DEF TenantUpdate, DataStays
    <3> QED
      BY <2>1, <2>5, <3>1, PassKeeps DEF Returns, Comparing, TenantCalls
  <2> QED
    BY <1>3, <2>4, <2>5 DEF TenantUpdate
<1> QED
  BY <1>2, <1>3

(* CreateTenant: there was no row, so there is no copy of one.              *)
LEMMA CreateKeeps ==
  ASSUME ManagersIInv, NEW p \in MgrProcs, NEW quota \in 0..1, CreateTenant(p, quota)
  PROVE  ManagersIInv'
<1> DEFINE q == IF quota <= 0 THEN MgrDefaultQuota ELSE quota
<1>1. /\ mgrKind = "tenant" /\ mgrRow = NoRow /\ mgrProcs[p].pc = "idle"
      /\ mgrRow' = [val |-> <<q>>, db |-> FALSE]
      /\ mgrPeak' = Max({mgrPeak, mgrRow'.val[1]})
      /\ Becomes(p, "provision", NoRow)
      /\ UNCHANGED <<mgrKind, mgrKeyed, mgrCache, mgrLatest, mgrAdded, mgrRisk>>
  BY DEF CreateTenant, Starts
<1>2. q \in Nat /\ mgrPeak \in Nat
  BY ManagersAssumption DEF ManagersIInv, MgrShape
<1> HIDE DEF q
<1>3. PICK d : d = FALSE
  BY Zenon
<1>4. mgrRow' = [val |-> <<q>>, db |-> d]
  BY <1>1, <1>3, Zenon
<1>5. mgrRow'.val = <<q>> /\ mgrRow' = [val |-> mgrRow'.val, db |-> mgrRow'.db]
  BY <1>4
<1>6. /\ mgrRow'.val[1] = q /\ mgrRow'.val # <<>>
  BY <1>5
<1>7. mgrPeak' \in Nat /\ mgrPeak <= mgrPeak' /\ q <= mgrPeak'
  BY <1>1, <1>2, <1>6, HigherOf
<1>8. mgrRow' # NoRow
  BY <1>6 DEF NoRow
<1>9. /\ mgrProcs'[p].pc = "provision"
      /\ \A r \in MgrProcs : r # p => mgrProcs'[r] = mgrProcs[r]
      /\ mgrProcs' = [r \in MgrProcs |-> [pc |-> mgrProcs'[r].pc, row |-> mgrProcs'[r].row]]
  BY <1>1, BecomesFacts DEF ManagersIInv
<1>10. /\ "provision" \in MgrCalls /\ "provision" \notin Comparing /\ "provision" \notin Filling
  BY DEF MgrCalls, TenantCalls, Comparing, Filling
<1>11. Copies' = {}
  <2>1. Copies' \subseteq Copies
    BY <1>1, <1>10, CopiesFewer DEF ManagersIInv
  <2> QED
    BY <1>1, <2>1 DEF ManagersIInv, MgrShape
<1>12. MgrShape'
  <2>1. \A r \in MgrProcs :
          /\ mgrProcs'[r].pc \in MgrCalls
          /\ mgrProcs'[r].pc \in TenantCalls => mgrKind = "tenant"
          /\ mgrProcs'[r].pc \in Comparing => mgrKind = "schema"
    BY <1>1, <1>9, <1>10 DEF ManagersIInv, MgrShape
  <2> QED
    BY <1>1, <1>5, <1>7, <1>9, <1>11, <2>1
    DEF ManagersIInv, MgrShape, MgrCalls, TenantCalls, Comparing, NoRow
<1>13. Quotas'
  <2>1. QuotaRow(mgrRow') /\ mgrRow'.val[1] <= mgrPeak'
    BY <1>2, <1>5, <1>6, <1>7 DEF QuotaRow
  <2>2. \A r \in MgrProcs : mgrProcs'[r].pc = "count" =>
           QuotaRow(mgrProcs'[r].row) /\ mgrProcs'[r].row.val[1] <= mgrPeak'
    <3>1. \A c : QuotaRow(c) /\ c.val[1] <= mgrPeak => c.val[1] <= mgrPeak'
      BY <1>2, <1>7 DEF QuotaRow
    <3> QED
      BY <1>1, <1>9, <3>1 DEF ManagersIInv, Quotas
  <2>3. \A r \in MgrProcs : mgrProcs'[r].pc = "update" => QuotaRow(mgrProcs'[r].row)
    BY <1>1, <1>9 DEF ManagersIInv, Quotas
  <2> QED
    BY <1>11, <2>1, <2>2, <2>3 DEF Quotas, QuotaRow
<1>14. Overshoot'
  BY <1>1, <1>7, OvershootKept
<1>15. CopiesSettled'
  BY <1>11 DEF CopiesSettled
<1>16. VersionsFollow'
  BY <1>1 DEF VersionsFollow
<1> QED
  BY <1>12, <1>13, <1>14, <1>15, <1>16 DEF ManagersIInv

(* A property is a record of a type and of whether it may be null.          *)
LEMMA PropertyIs ==
  ASSUME NEW t
  PROVE  parsePropertyType(t) = [type |-> parsePropertyType(t).type,
                                 nullable |-> parsePropertyType(t).nullable]
<1> DEFINE named == SelectSeq(t, LAMBDA n : n # "null")
           last == IF named = <<>> THEN "unknown" ELSE Last(named)
<1>1. CASE Len(t) = 1
  <2>1. parsePropertyType(t) = [type |-> t[1], nullable |-> FALSE]
    BY <1>1 DEF parsePropertyType
  <2>2. PICK e : e = FALSE
    BY Zenon
  <2>3. parsePropertyType(t) = [type |-> t[1], nullable |-> e]
    BY <2>1, <2>2, Zenon
  <2> QED
    BY <2>3
<1>2. CASE Len(t) # 1
  <2>1. parsePropertyType(t) = [type |-> last, nullable |-> \E n \in 1..Len(t) : t[n] = "null"]
    BY <1>2, Zenon DEF parsePropertyType
  <2>2. PICK e : e = (\E n \in 1..Len(t) : t[n] = "null")
    BY Zenon
  <2> HIDE DEF last
  <2>3. parsePropertyType(t) = [type |-> last, nullable |-> e]
    BY <2>1, <2>2, Zenon
  <2> QED
    BY <2>3
<1> QED
  BY <1>1, <1>2

(* DetectBreakingChanges sees every difference between two schemas that     *)
(* their readers see.                                                       *)
LEMMA NoChange ==
  ASSUME NEW a, NEW b, DetectBreakingChanges(a, b) = {}
  PROVE  extractProperties(a) = extractProperties(b)
<1> DEFINE old == extractProperties(a)
           new == extractProperties(b)
           both == DOMAIN old \cap DOMAIN new
<1>1. /\ {<<"removed_field", f, TRUE>> : f \in DOMAIN old \ DOMAIN new} = {}
      /\ {<<"added_field", f, FALSE>> : f \in DOMAIN new \ DOMAIN old} = {}
      /\ {<<"type_change", f, TRUE>> : f \in {g \in both : old[g].type # new[g].type}} = {}
      /\ {<<"nullable_change", f, old[f].nullable>> :
              f \in {g \in both : old[g].nullable # new[g].nullable}} = {}
  BY Zenon DEF DetectBreakingChanges
<1>2. /\ old = [f \in DOMAIN a[1] |-> parsePropertyType(a[1][f])]
      /\ new = [f \in DOMAIN b[1] |-> parsePropertyType(b[1][f])]
  BY DEF extractProperties
<1>3. /\ \A f \in DOMAIN old : old[f] = [type |-> old[f].type, nullable |-> old[f].nullable]
      /\ \A f \in DOMAIN new : new[f] = [type |-> new[f].type, nullable |-> new[f].nullable]
      /\ old = [f \in DOMAIN old |-> old[f]] /\ new = [f \in DOMAIN new |-> new[f]]
  BY <1>2, PropertyIs
<1> HIDE DEF old, new
<1>4. DOMAIN old = DOMAIN new
  BY <1>1, Zenon
<1>5. \A f \in DOMAIN old : old[f].type = new[f].type /\ old[f].nullable = new[f].nullable
  BY <1>1, <1>4, Zenon
<1>6. \A f \in DOMAIN old : old[f] = new[f]
  BY <1>3, <1>4, <1>5
<1>7. old = new
  BY <1>3, <1>4, <1>6
<1> QED
  BY <1>7 DEF old, new

(* Invalidate: once the copy is gone, the only stale copies are those the   *)
(* reads in progress hold, and then the risk says so.                       *)
LEMMA InvalidateKeeps ==
  ASSUME ManagersIInv, NEW p \in MgrProcs, Invalidate(p)
  PROVE  ManagersIInv'
<1>1. /\ mgrProcs[p].pc = "invalidate" /\ Becomes(p, "idle", NoRow)
      /\ UNCHANGED <<mgrKind, mgrKeyed, mgrRow, mgrLatest, mgrAdded, mgrPeak>>
      /\ mgrCache' = NoRow \/ mgrCache' = mgrCache
  BY DEF Invalidate, Returns
<1>2. /\ mgrProcs'[p].pc = "idle"
      /\ \A q \in MgrProcs : q # p => mgrProcs'[q] = mgrProcs[q]
      /\ mgrProcs' = [q \in MgrProcs |-> [pc |-> mgrProcs'[q].pc, row |-> mgrProcs'[q].row]]
  BY <1>1, BecomesFacts DEF ManagersIInv
<1>3. /\ "idle" \in MgrCalls /\ "idle" \notin TenantCalls
      /\ "idle" \notin Comparing /\ "idle" \notin Filling
      /\ "invalidate" \notin Comparing /\ "invalidate" \notin Filling
  BY DEF MgrCalls, TenantCalls, Comparing, Filling
<1>4. Copies' \subseteq Copies
  BY <1>1, <1>3, CopiesFewer DEF ManagersIInv
<1>5. MgrShape'
  <2>1. \A q \in MgrProcs :
          /\ mgrProcs'[q].pc \in MgrCalls
          /\ mgrProcs'[q].pc \in TenantCalls => mgrKind = "tenant"
          /\ mgrProcs'[q].pc \in Comparing => mgrKind = "schema"
    BY <1>2, <1>3 DEF ManagersIInv, MgrShape
  <2> QED
    BY <1>1, <1>2, <1>4, <2>1 DEF ManagersIInv, MgrShape, MgrCalls, TenantCalls, Comparing, NoRow
<1>6. Quotas'
  <2> SUFFICES ASSUME mgrKind = "tenant" PROVE Quotas'
    BY <1>1 DEF Quotas
  <2>1. \A c \in Copies' : QuotaRow(c) /\ c.val[1] <= mgrPeak
    BY <1>4 DEF ManagersIInv, Quotas
  <2>2. \A q \in MgrProcs : mgrProcs'[q].pc = "count" =>
           QuotaRow(mgrProcs'[q].row) /\ mgrProcs'[q].row.val[1] <= mgrPeak
    BY <1>2 DEF ManagersIInv, Quotas
  <2>3. \A q \in MgrProcs : mgrProcs'[q].pc = "update" => QuotaRow(mgrProcs'[q].row)
    BY <1>2 DEF ManagersIInv, Quotas
  <2> QED
    BY <1>1, <2>1, <2>2, <2>3 DEF ManagersIInv, Quotas, QuotaRow, NoRow
<1>7. Overshoot'
  <2>1. mgrPeak' \in Nat /\ mgrPeak <= mgrPeak'
    BY <1>1 DEF ManagersIInv, MgrShape
  <2> QED
    BY <1>1, <2>1, OvershootKept
<1>8. "behind" \in mgrRisk' <=> "behind" \in mgrRisk
  BY DEF Invalidate
<1>9. ASSUME mgrRisk' = {}, NEW c \in Copies' PROVE ~Stale(c)
  <2>1. /\ mgrCache' = NoRow
        /\ mgrRisk' = {w \in {"overlap", "behind"} :
              IF w = "behind" THEN w \in mgrRisk
              ELSE \E q \in MgrProcs : /\ mgrProcs[q].pc \in {"fill", "quotafill"}
                                       /\ Stale(mgrProcs[q].row)}
    BY <1>9 DEF Invalidate
  <2>2. "overlap" \notin mgrRisk'
    BY <1>9
  <2>3. \A q \in MgrProcs : mgrProcs[q].pc \in Filling => ~Stale(mgrProcs[q].row)
    BY <2>1, <2>2, Zenon DEF Filling
  <2>4. PICK q \in MgrProcs : mgrProcs'[q].pc \in Filling /\ c = mgrProcs'[q].row
    BY <1>9, <2>1, CopiesAreNext
  <2>5. q # p
    BY <1>2, <1>3, <2>4
  <2> QED
    BY <1>2, <2>3, <2>4, <2>5
<1>10. CopiesSettled'
  BY <1>1, <1>9, StaleSame DEF CopiesSettled
<1>11. VersionsFollow'
  <2> SUFFICES ASSUME mgrKind = "schema", "behind" \notin mgrRisk PROVE VersionsFollow'
    BY <1>1, <1>8 DEF VersionsFollow
  <2>1. \A q \in MgrProcs : /\ mgrProcs'[q].pc \in Comparing <=> mgrProcs[q].pc \in Comparing
                            /\ mgrProcs[q].pc \in Comparing => mgrProcs'[q] = mgrProcs[q]
    BY <1>1, <1>2, <1>3
  <2>2. /\ \A q, r \in MgrProcs :
              mgrProcs'[q].pc \in Comparing /\ mgrProcs'[r].pc \in Comparing => q = r
        /\ \A q \in MgrProcs : mgrProcs'[q].pc \in Comparing =>
              mgrProcs'[q].row.val = mgrRow.val
    BY <2>1 DEF ManagersIInv, VersionsFollow
  <2>3. mgrLatest # NoSchema /\ (\A q \in MgrProcs : mgrProcs'[q].pc \notin Comparing) =>
              extractProperties(mgrLatest) = extractProperties(mgrRow.val)
    BY <2>1 DEF ManagersIInv, VersionsFollow
  <2>4. ASSUME mgrRisk' = {}, NEW c \in Copies'
        PROVE  extractProperties(c.val) = extractProperties(mgrRow.val)
    BY <1>9, <2>4 DEF Stale
  <2> QED
    BY <1>1, <2>2, <2>3, <2>4 DEF VersionsFollow, Comparing, NoSchema
<1> QED
  BY <1>5, <1>6, <1>7, <1>10, <1>11 DEF ManagersIInv

(* What every step of a discovery keeps.                                    *)
LEMMA DiscoveryFacts ==
  ASSUME ManagersIInv, mgrKind = "schema", NEW p \in MgrProcs,
         NEW pc \in {"idle", "compare", "version", "invalidate"}, NEW row, Becomes(p, pc, row),
         UNCHANGED <<mgrKind, mgrCache, mgrAdded, mgrPeak>>,
         mgrRow' = [val |-> mgrRow'.val, db |-> mgrRow'.db]
  PROVE  /\ MgrShape' /\ Quotas' /\ Overshoot' /\ Copies' \subseteq Copies
         /\ mgrProcs'[p].pc = pc /\ mgrProcs'[p].row = row
         /\ \A q \in MgrProcs : q # p => mgrProcs'[q] = mgrProcs[q]
<1>1. /\ mgrProcs'[p].pc = pc /\ mgrProcs'[p].row = row
      /\ \A q \in MgrProcs : q # p => mgrProcs'[q] = mgrProcs[q]
      /\ mgrProcs' = [q \in MgrProcs |-> [pc |-> mgrProcs'[q].pc, row |-> mgrProcs'[q].row]]
  BY BecomesFacts DEF ManagersIInv
<1>2. /\ pc \in MgrCalls /\ pc \notin TenantCalls /\ pc \notin Filling /\ pc # "add"
  BY DEF MgrCalls, TenantCalls, Filling
<1>3. Copies' \subseteq Copies
  BY <1>2, CopiesFewer DEF ManagersIInv
<1>4. MgrShape'
  <2>1. \A q \in MgrProcs :
          /\ mgrProcs'[q].pc \in MgrCalls
          /\ mgrProcs'[q].pc \in TenantCalls => mgrKind = "tenant"
          /\ mgrProcs'[q].pc \in Comparing => mgrKind = "schema"
    BY <1>1, <1>2 DEF ManagersIInv, MgrShape
  <2> QED
    BY <1>1, <2>1 DEF ManagersIInv, MgrShape, MgrCalls, TenantCalls, Comparing
<1>5. Quotas'
  BY DEF Quotas
<1>6. Overshoot'
  <2>1. mgrPeak' \in Nat /\ mgrPeak <= mgrPeak'
    BY DEF ManagersIInv, MgrShape
  <2> QED
    BY <1>2, <2>1, OvershootKept
<1> QED
  BY <1>1, <1>3, <1>4, <1>5, <1>6

(* DiscoverAndStore.                                                        *)
LEMMA DiscoverKeeps ==
  ASSUME ManagersIInv, NEW p \in MgrProcs, DiscoverAndStore(p)
  PROVE  ManagersIInv'
<1>1. /\ mgrKind = "schema" /\ mgrRow = [val |-> mgrRow.val, db |-> mgrRow.db]
      /\ UNCHANGED <<mgrKind, mgrKeyed, mgrCache, mgrAdded, mgrPeak>>
  BY DEF DiscoverAndStore, ManagersIInv, MgrShape
<1>2. ASSUME NEW s \in MgrSchemas, Starts(p), mgrRow' = [mgrRow EXCEPT !.val = s],
             Becomes(p, "compare", [NoRow EXCEPT !.val = s]), UNCHANGED mgrLatest,
             mgrRisk' = mgrRisk \cup
                (IF \E q \in MgrProcs : mgrProcs[q].pc \in {"compare", "version"}
                   THEN {"behind"} ELSE {})
      PROVE  ManagersIInv'
  <2>1. mgrRow' = [val |-> s, db |-> mgrRow.db]
    BY <1>1, <1>2
  <2>2. mgrRow'.val = s /\ mgrRow' = [val |-> mgrRow'.val, db |-> mgrRow'.db]
    BY <2>1
  <2>3. /\ MgrShape' /\ Quotas' /\ Overshoot' /\ Copies' \subseteq Copies
        /\ mgrProcs'[p].pc = "compare" /\ mgrProcs'[p].row = [NoRow EXCEPT !.val = s]
        /\ \A q \in MgrProcs : q # p => mgrProcs'[q] = mgrProcs[q]
    BY <1>1, <1>2, <2>2, DiscoveryFacts
  <2>4. mgrProcs'[p].row.val = s
    BY <2>3 DEF NoRow
  <2>5. "compare" \in Comparing
    BY DEF Comparing
  <2>6. CopiesSettled'
    BY <2>3, <2>5 DEF CopiesSettled, Removing, Comparing
  <2>7. VersionsFollow'
    <3> SUFFICES ASSUME "behind" \notin mgrRisk' PROVE VersionsFollow'
      BY DEF VersionsFollow
    <3>1. /\ \A q \in MgrProcs : mgrProcs[q].pc \notin Comparing
          /\ mgrRisk' = mgrRisk /\ "behind" \notin mgrRisk
      BY <1>2 DEF Comparing
    <3>2. /\ \A q, r \in MgrProcs :
                mgrProcs'[q].pc \in Comparing /\ mgrProcs'[r].pc \in Comparing => q = r
          /\ \A q \in MgrProcs : mgrProcs'[q].pc \in Comparing =>
                mgrProcs'[q].row.val = mgrRow'.val
          /\ ~\A q \in MgrProcs : mgrProcs'[q].pc \notin Comparing
      BY <2>2, <2>3, <2>4, <2>5, <3>1
    <3>3. ASSUME mgrLatest # NoSchema, mgrRisk = {},
                 \A q \in MgrProcs : mgrProcs'[q].pc # "invalidate", NEW c \in Copies'
          PROVE  extractProperties(c.val) = extractProperties(mgrLatest)
      <4>1. \A q \in MgrProcs : ~Removing(q)
        BY <1>2, <2>3, <3>1, <3>3 DEF Removing, Starts
      <4>2. ~Stale(c)
        BY <2>3, <3>3, <4>1 DEF ManagersIInv, CopiesSettled
      <4>3. extractProperties(c.val) = extractProperties(mgrRow.val)
        BY <1>1, <4>2 DEF Stale
      <4>4. extractProperties(mgrLatest) = extractProperties(mgrRow.val)
        BY <1>1, <3>1, <3>3 DEF ManagersIInv, VersionsFollow
      <4> QED
        BY <4>3, <4>4
    <3> QED
      BY <1>2, <3>1, <3>2, <3>3 DEF VersionsFollow, Comparing, NoSchema
  <2> QED
    BY <2>3, <2>6, <2>7 DEF ManagersIInv
<1>3. ASSUME mgrProcs[p].pc = "compare", UNCHANGED <<mgrRow, mgrLatest, mgrRisk>>,
             IF mgrLatest = NoSchema
                  \/ DetectBreakingChanges(mgrLatest, mgrProcs[p].row.val) # {}
               THEN Becomes(p, "version", mgrProcs[p].row) ELSE Becomes(p, "idle", NoRow)
      PROVE  ManagersIInv'
  <2>1. mgrRow' = [val |-> mgrRow'.val, db |-> mgrRow'.db]
    BY <1>1, <1>3
  <2>2. mgrProcs[p].pc \in Comparing /\ "version" \in Comparing /\ "idle" \notin Comparing
    BY <1>3 DEF Comparing
  <2>3. "behind" \notin mgrRisk =>
           /\ \A q \in MgrProcs : mgrProcs[q].pc \in Comparing => q = p
           /\ mgrProcs[p].row.val = mgrRow.val
    BY <1>1, <2>2 DEF ManagersIInv, VersionsFollow
  <2>4. CASE Becomes(p, "version", mgrProcs[p].row)
    <3>1. /\ MgrShape' /\ Quotas' /\ Overshoot' /\ Copies' \subseteq Copies
          /\ mgrProcs'[p].pc = "version" /\ mgrProcs'[p].row = mgrProcs[p].row
          /\ \A q \in MgrProcs : q # p => mgrProcs'[q] = mgrProcs[q]
      BY <1>1, <1>3, <2>1, <2>4, DiscoveryFacts
    <3>2. CopiesSettled'
      BY <2>2, <3>1 DEF CopiesSettled, Removing, Comparing
    <3>3. VersionsFollow'
      <4> SUFFICES ASSUME "behind" \notin mgrRisk PROVE VersionsFollow'
        BY <1>3 DEF VersionsFollow
      <4>1. /\ \A q, r \in MgrProcs :
                  mgrProcs'[q].pc \in Comparing /\ mgrProcs'[r].pc \in Comparing => q = r
            /\ \A q \in MgrProcs : mgrProcs'[q].pc \in Comparing =>
                  mgrProcs'[q].row.val = mgrRow.val
            /\ ~\A q \in MgrProcs : mgrProcs'[q].pc \notin Comparing
            /\ ~\E q \in MgrProcs : mgrProcs'[q].pc = "compare"
        BY <2>2, <2>3, <3>1 DEF Comparing
      <4> QED
        BY <1>3, <4>1 DEF VersionsFollow, Comparing
    <3> QED
      BY <3>1, <3>2, <3>3 DEF ManagersIInv
  <2>5. CASE /\ mgrLatest # NoSchema
             /\ DetectBreakingChanges(mgrLatest, mgrProcs[p].row.val) = {}
             /\ Becomes(p, "idle", NoRow)
    <3>1. /\ MgrShape' /\ Quotas' /\ Overshoot' /\ Copies' \subseteq Copies
          /\ mgrProcs'[p].pc = "idle"
          /\ \A q \in MgrProcs : q # p => mgrProcs'[q] = mgrProcs[q]
      BY <1>1, <1>3, <2>1, <2>5, DiscoveryFacts
    <3>2. extractProperties(mgrLatest) = extractProperties(mgrProcs[p].row.val)
      BY <2>5, NoChange
    <3>3. CopiesSettled'
      <4> SUFFICES ASSUME mgrRisk = {}, \A q \in MgrProcs : ~Removing(q)', NEW c \in Copies'
                   PROVE  ~Stale(c)'
        BY <1>3 DEF CopiesSettled
      <4>1. \A q \in MgrProcs : mgrProcs[q].pc # "invalidate"
        BY <1>3, <3>1 DEF Removing
      <4>2. \/ extractProperties(c.val) = extractProperties(mgrLatest)
            \/ extractProperties(c.val) = extractProperties(mgrRow.val)
        BY <1>1, <1>3, <2>5, <3>1, <4>1 DEF ManagersIInv, VersionsFollow
      <4>3. extractProperties(c.val) = extractProperties(mgrRow.val)
        BY <2>3, <3>2, <4>2
      <4>4. ~Stale(c)
        BY <1>1, <4>3 DEF Stale
      <4> QED
        BY <1>1, <1>3, <4>4, StaleSame
    <3>4. VersionsFollow'
      <4> SUFFICES ASSUME "behind" \notin mgrRisk PROVE VersionsFollow'
        BY <1>3 DEF VersionsFollow
      <4>1. \A q \in MgrProcs : mgrProcs'[q].pc \notin Comparing
        BY <2>2, <2>3, <3>1
      <4>2. extractProperties(mgrLatest) = extractProperties(mgrRow.val)
        BY <2>3, <3>2
      <4>3. ~\E q \in MgrProcs : mgrProcs'[q].pc = "compare"
        BY <4>1 DEF Comparing
      <4> QED
        BY <1>3, <4>1, <4>2, <4>3 DEF VersionsFollow, Comparing, NoSchema
    <3> QED
      BY <3>1, <3>3, <3>4 DEF ManagersIInv
  <2> QED
    BY <1>3, <2>4, <2>5
<1>4. ASSUME mgrProcs[p].pc = "version", mgrLatest' = mgrProcs[p].row.val,
             Becomes(p, "invalidate", NoRow), UNCHANGED <<mgrRow, mgrRisk>>
      PROVE  ManagersIInv'
  <2>1. mgrRow' = [val |-> mgrRow'.val, db |-> mgrRow'.db]
    BY <1>1, <1>4
  <2>2. /\ MgrShape' /\ Quotas' /\ Overshoot' /\ Copies' \subseteq Copies
        /\ mgrProcs'[p].pc = "invalidate"
        /\ \A q \in MgrProcs : q # p => mgrProcs'[q] = mgrProcs[q]
    BY <1>1, <1>4, <2>1, DiscoveryFacts
  <2>3. CopiesSettled'
    BY <2>2 DEF CopiesSettled, Removing
  <2>4. VersionsFollow'
    <3> SUFFICES ASSUME "behind" \notin mgrRisk PROVE VersionsFollow'
      BY <1>4 DEF VersionsFollow
    <3>1. mgrProcs[p].pc \in Comparing /\ "invalidate" \notin Comparing
      BY <1>4 DEF Comparing
    <3>2. /\ \A q \in MgrProcs : mgrProcs[q].pc \in Comparing => q = p
          /\ mgrProcs[p].row.val = mgrRow.val
      BY <1>1, <3>1 DEF ManagersIInv, VersionsFollow
    <3>3. /\ \A q \in MgrProcs : mgrProcs'[q].pc \notin Comparing
          /\ ~\A q \in MgrProcs : mgrProcs'[q].pc # "invalidate"
      BY <2>2, <3>1, <3>2
    <3>4. mgrLatest' = mgrRow'.val
      BY <1>4, <3>2
    <3> QED
      BY <3>3, <3>4 DEF VersionsFollow, Comparing
  <2> QED
    BY <2>2, <2>3, <2>4 DEF ManagersIInv
<1>5. ASSUME mgrRisk' = mgrRisk \cup {"behind"}, Becomes(p, "idle", NoRow),
             UNCHANGED <<mgrRow, mgrLatest>>
      PROVE  ManagersIInv'
  <2>1. mgrRow' = [val |-> mgrRow'.val, db |-> mgrRow'.db]
    BY <1>1, <1>5
  <2>2. MgrShape' /\ Quotas' /\ Overshoot'
    BY <1>1, <1>5, <2>1, DiscoveryFacts
  <2>3. CopiesSettled' /\ VersionsFollow'
    BY <1>5 DEF CopiesSettled, VersionsFollow
  <2> QED
    BY <2>2, <2>3 DEF ManagersIInv
<1> QED
  BY <1>2, <1>3, <1>4, <1>5 DEF DiscoverAndStore, Returns

-----------------------------------------------------------------------------
(* The initial state satisfies the invariant of the managers.               *)
LEMMA ManagersInitIInv == ManagersInit => ManagersIInv
<1> SUFFICES ASSUME ManagersInit PROVE ManagersIInv
  OBVIOUS
<1>1. /\ mgrKind \in {"config", "schema", "tenant"} /\ mgrRow = FirstRow(mgrKind)
      /\ mgrCache = NoRow /\ mgrProcs = [p \in MgrProcs |-> Idle] /\ mgrLatest = NoSchema
      /\ mgrAdded = 0 /\ mgrPeak = 0 /\ mgrRisk = {}
  BY ManagersAssumption DEF ManagersInit
<1>2. \A p \in MgrProcs : mgrProcs[p].pc = "idle"
  BY <1>1 DEF Idle
<1>3. Copies = {}
  BY <1>1, <1>2, CopiesAre DEF Filling
<1>4. /\ mgrRow = [val |-> mgrRow.val, db |-> mgrRow.db]
      /\ mgrKind = "tenant" => mgrRow = NoRow
  <2>1. PICK d : d = FALSE
    BY Zenon
  <2>2. NoRow = [val |-> <<>>, db |-> d]
    BY <2>1, Zenon DEF NoRow
  <2>3. \A v : [NoRow EXCEPT !.val = v] = [val |-> v, db |-> d]
    BY <2>2
  <2>4. \/ mgrRow = NoRow
        \/ \E v : mgrRow = [NoRow EXCEPT !.val = v]
    BY <1>1, Zenon DEF FirstRow
  <2>5. mgrKind = "tenant" => mgrRow = NoRow
    BY <1>1 DEF FirstRow
  <2>6. mgrRow = [val |-> mgrRow.val, db |-> mgrRow.db]
    BY <2>2, <2>3, <2>4
  <2> QED
    BY <2>5, <2>6
<1>5. MgrShape
  <2>1. mgrProcs = [p \in MgrProcs |-> [pc |-> mgrProcs[p].pc, row |-> mgrProcs[p].row]]
    BY <1>1 DEF Idle
  <2> QED
    BY <1>1, <1>2, <1>3, <1>4, <2>1 DEF MgrShape, MgrCalls, TenantCalls, Comparing
<1>6. Quotas
  BY <1>2, <1>3, <1>4 DEF Quotas
<1>7. Overshoot
  <2>1. Adding = {} /\ Cardinality(Adding) = 0
    BY <1>2, FS_EmptySet DEF Adding
  <2>2. Cardinality(MgrProcs) \in Nat /\ Cardinality(MgrProcs) # 0
    BY ManagersAssumption, FS_CardinalityType, FS_EmptySet
  <2> QED
    BY <1>1, <2>1, <2>2 DEF Overshoot
<1>8. CopiesSettled /\ VersionsFollow
  BY <1>1, <1>2, <1>3 DEF CopiesSettled, VersionsFollow, Comparing
<1> QED
  BY <1>5, <1>6, <1>7, <1>8 DEF ManagersIInv

(* Every step of the managers keeps their invariant.                        *)
LEMMA ManagersNextKeeps ==
  ASSUME ManagersIInv, [ManagersNext]_mgrVars
  PROVE  ManagersIInv'
<1>1. CASE UNCHANGED mgrVars
  BY <1>1, ExpiryKeeps DEF mgrVars, DataStays
<1>2. CASE CacheExpires
  BY <1>2, ExpiryKeeps DEF CacheExpires
<1>3. ASSUME NEW p \in MgrProcs,
             \/ GetConnectorConfig(p) \/ GetSchema(p) \/ GetTenant(p)
             \/ Invalidate(p) \/ DiscoverAndStore(p) \/ ProvisionDatabase(p) \/ updateDatabaseInfo(p)
             \/ TenantUpdate(p) \/ CheckQuota(p) \/ CallerAdds(p)
             \/ \E v \in 0..1 : SaveConnectorConfig(p, v)
             \/ \E q \in 0..1 : CreateTenant(p, q) \/ UpdateQuotas(p, q)
      PROVE  ManagersIInv'
  BY <1>3, GetKeeps, InvalidateKeeps, DiscoverKeeps, ProvisionKeeps, WriteKeeps,
     CheckQuotaKeeps, AddsKeeps, CreateKeeps
<1> QED
  BY <1>1, <1>2, <1>3 DEF ManagersNext

(* Every reachable state of a manager satisfies its invariant.              *)
THEOREM ManagersInductive == ManagersSpec => []ManagersIInv
<1>1. ManagersIInv /\ [ManagersNext]_mgrVars => ManagersIInv'
  BY ManagersNextKeeps
<1> QED
  BY <1>1, ManagersInitIInv, PTL DEF ManagersSpec

(* However many callers check a tenant's quota at the same time, through    *)
(* whatever cached or stored quota, together they pass the highest quota    *)
(* the tenant has had by less than their number.                            *)
THEOREM QuotaOvershoot == ManagersSpec => []QuotaOvershootBounded
<1>1. ASSUME ManagersIInv PROVE QuotaOvershootBounded
  <2>1. /\ mgrAdded + Cardinality(Adding) < mgrPeak + Cardinality(MgrProcs)
        /\ mgrAdded \in Nat /\ mgrPeak \in Nat
    BY <1>1 DEF ManagersIInv, MgrShape, Overshoot
  <2>2. Cardinality(Adding) \in Nat /\ Cardinality(MgrProcs) \in Nat
    BY ManagersAssumption, FS_Subset, FS_CardinalityType DEF Adding
  <2> QED
    BY <2>1, <2>2 DEF QuotaOvershootBounded
<1> QED
  BY <1>1, ManagersInductive, PTL

(* A stale copy of a configuration, a schema or a tenant is in the cache    *)
(* only while a writer has yet to remove it, or after one of the recorded   *)
(* risks: a removal that failed, a read that overlapped one, discoveries    *)
(* that crossed or made no version.                                         *)
THEOREM CacheTrueToStore == ManagersSpec => []StaleOnlyAfterOverlap
<1>1. ASSUME ManagersIInv PROVE StaleOnlyAfterOverlap
  <2> SUFFICES ASSUME mgrCache # NoRow, Stale(mgrCache), mgrRisk = {}
               PROVE  \E p \in MgrProcs : mgrProcs[p].pc \in {"invalidate", "compare", "version"}
    BY DEF StaleOnlyAfterOverlap
  <2>1. mgrCache \in Copies
    BY CopiesAre
  <2>2. \E p \in MgrProcs : Removing(p)
    BY <1>1, <2>1 DEF ManagersIInv, CopiesSettled
  <2> QED
    BY <2>2 DEF Removing, Comparing
<1> QED
  BY <1>1, ManagersInductive, PTL

-----------------------------------------------------------------------------
(* The bounds of the managers' state.                                       *)

MgrBounded ==
    /\ mgrKind \in MgrKinds /\ mgrKeyed \in BOOLEAN
    /\ mgrRisk \subseteq {"failed", "overlap", "behind"}
    /\ mgrAdded \in 0..MgrMaxAdded /\ mgrWrites \in 0..MgrMaxWrites

(* What a step does to the counters and to the risks.                       *)
LEMMA ManagersCount ==
  ASSUME [ManagersNext]_mgrVars
  PROVE  /\ UNCHANGED <<mgrKind, mgrKeyed>>
         /\ \/ mgrRisk' = mgrRisk
            \/ mgrRisk' \subseteq {"overlap", "behind"}
            \/ mgrRisk' \in {mgrRisk \union {"failed"}, mgrRisk \union {"behind"}, mgrRisk \union {}}
         /\ mgrAdded' = mgrAdded \/ (mgrAdded < MgrMaxAdded /\ mgrAdded' = mgrAdded + 1)
         /\ mgrWrites' = mgrWrites \/ (mgrWrites < MgrMaxWrites /\ mgrWrites' = mgrWrites + 1)
<1> DEFINE Counted ==
       /\ UNCHANGED <<mgrKind, mgrKeyed>>
       /\ \/ mgrRisk' = mgrRisk
          \/ mgrRisk' \subseteq {"overlap", "behind"}
          \/ mgrRisk' \in {mgrRisk \union {"failed"}, mgrRisk \union {"behind"}, mgrRisk \union {}}
       /\ mgrAdded' = mgrAdded \/ (mgrAdded < MgrMaxAdded /\ mgrAdded' = mgrAdded + 1)
       /\ mgrWrites' = mgrWrites \/ (mgrWrites < MgrMaxWrites /\ mgrWrites' = mgrWrites + 1)
<1>1. DataStays => Counted
  BY DEF DataStays
<1>2. UNCHANGED mgrVars => Counted
  BY DEF mgrVars
<1>3. ASSUME NEW p \in MgrProcs PROVE GetConnectorConfig(p) \/ GetSchema(p) \/ GetTenant(p) => Counted
  BY <1>1, Zenon DEF GetConnectorConfig, GetSchema, GetTenant, CacheLookup, StoreRead, CacheSet
<1>4. ASSUME NEW p \in MgrProcs PROVE Invalidate(p) => Counted
  BY DEF Invalidate
<1>5. ASSUME NEW p \in MgrProcs PROVE DiscoverAndStore(p) => Counted
  <2>1. ASSUME DiscoverAndStore(p)
        PROVE  /\ UNCHANGED <<mgrKind, mgrKeyed, mgrAdded>>
               /\ mgrRisk' \in {mgrRisk, mgrRisk \union {"behind"}, mgrRisk \union {}}
               /\ mgrWrites' = mgrWrites \/ (mgrWrites < MgrMaxWrites /\ mgrWrites' = mgrWrites + 1)
    BY <2>1 DEF DiscoverAndStore, Starts
  <2> QED
    BY <2>1
<1>6. ASSUME NEW p \in MgrProcs
      PROVE  ProvisionDatabase(p) \/ updateDatabaseInfo(p) \/ CheckQuota(p) => Counted
  BY <1>1, Zenon DEF ProvisionDatabase, updateDatabaseInfo, CheckQuota, CacheLookup, StoreRead, CacheSet
<1>7. ASSUME NEW p \in MgrProcs PROVE TenantUpdate(p) \/ CallerAdds(p) => Counted
  BY DEF TenantUpdate, CallerAdds
<1>8. ASSUME NEW p \in MgrProcs, NEW v \in 0..1
      PROVE  SaveConnectorConfig(p, v) \/ CreateTenant(p, v) \/ UpdateQuotas(p, v) => Counted
  BY DEF SaveConnectorConfig, CreateTenant, UpdateQuotas, Starts
<1>9. CacheExpires => Counted
  BY <1>1 DEF CacheExpires
<1> QED
  BY <1>2, <1>3, <1>4, <1>5, <1>6, <1>7, <1>8, <1>9, Zenon DEF ManagersNext

(* The managers keep their types: their counters stay within their bounds.  *)
LEMMA ManagersTypes == ManagersSpec => []ManagersTypeOK
<1>1. ManagersInit => MgrBounded
  <2> SUFFICES ASSUME ManagersInit PROVE MgrBounded
    OBVIOUS
  <2>1. mgrKind \in MgrKinds /\ mgrKeyed \in BOOLEAN
    BY Zenon DEF ManagersInit
  <2>2. mgrAdded = 0 /\ mgrWrites = 0 /\ mgrRisk = {}
    BY DEF ManagersInit
  <2> QED
    BY <2>1, <2>2, ManagersAssumption DEF MgrBounded
<1>2. MgrBounded /\ [ManagersNext]_mgrVars => MgrBounded'
  <2> SUFFICES ASSUME MgrBounded, [ManagersNext]_mgrVars PROVE MgrBounded'
    OBVIOUS
  <2>1. /\ mgrKind \in MgrKinds /\ mgrKeyed \in BOOLEAN
        /\ mgrRisk \subseteq {"failed", "overlap", "behind"}
        /\ mgrAdded \in 0..MgrMaxAdded /\ mgrWrites \in 0..MgrMaxWrites
    BY DEF MgrBounded
  <2>2. mgrKind' \in MgrKinds /\ mgrKeyed' \in BOOLEAN
    BY <2>1, ManagersCount, Zenon
  <2>3. mgrRisk' \subseteq {"failed", "overlap", "behind"}
    BY <2>1, ManagersCount
  <2>4. mgrAdded' \in 0..MgrMaxAdded /\ mgrWrites' \in 0..MgrMaxWrites
    BY <2>1, ManagersCount, ManagersAssumption
  <2> QED
    BY <2>2, <2>3, <2>4 DEF MgrBounded
<1>3. MgrBounded /\ ManagersIInv => ManagersTypeOK
  BY DEF MgrBounded, ManagersIInv, MgrShape, MgrCalls, TenantCalls, ManagersTypeOK
<1> QED
  BY <1>1, <1>2, <1>3, ManagersInductive, PTL DEF ManagersSpec

-----------------------------------------------------------------------------
(* Induction over the numbers, for sets of them: the least number outside   *)
(* such a set would be the successor of one inside.                         *)
Below == {ss \in Nat \X Nat : ss[1] < ss[2]}

(* There is no infinite descent of numbers.                                 *)
LEMMA BelowIs == IsWellFoundedOn(Below, Nat)
  BY NatLessThanWellFounded DEF OpToRel, Below

(* A set of numbers that is not empty has a least one.                      *)
LEMMA LeastIs ==
  ASSUME NEW T, T \subseteq Nat, T # {}
  PROVE  \E x \in T : \A y \in T : x <= y
<1>1. PICK x \in T : \A y \in T : ~(<<y, x>> \in Below)
  BY BelowIs, WFMin, Zenon
<1>2. \A y \in T : x <= y
  <2> SUFFICES ASSUME NEW y \in T
               PROVE  x <= y
    OBVIOUS
  <2>1. x \in Nat /\ y \in Nat
    OBVIOUS
  <2>2. y < x => <<y, x>> \in Below
    BY <2>1, SMT DEF Below
  <2> QED
    BY <1>1, <2>1, <2>2
<1> QED
  BY <1>2

(* What has 0 and the successor of each of its numbers has them all.        *)
LEMMA SetInduction ==
  ASSUME NEW S, 0 \in S, \A n \in Nat : n \in S => n + 1 \in S
  PROVE  Nat \subseteq S
<1> DEFINE T == Nat \ S
<1>1. SUFFICES ASSUME T # {} PROVE FALSE
  OBVIOUS
<1>2. T \subseteq Nat
  OBVIOUS
<1> HIDE DEF T
<1>3. PICK x \in T : \A y \in T : x <= y
  BY <1>1, <1>2, LeastIs
<1>4. x \in Nat /\ x \notin S
  BY DEF T
<1>5. x - 1 \in Nat /\ x = (x - 1) + 1
  BY <1>4
<1>6. x - 1 \notin T
  BY <1>3, <1>4, <1>5
<1>7. x - 1 \in S
  BY <1>5, <1>6 DEF T
<1> QED
  BY <1>4, <1>5, <1>7

-----------------------------------------------------------------------------
(* The scheduler.                                                           *)

(* Integers divided by a positive one.                                      *)
LEMMA DivisionIs ==
  ASSUME NEW a \in Int, NEW l \in Nat, l > 0
  PROVE  /\ a \div l \in Int /\ a % l \in Nat /\ a % l < l
         /\ a = (a \div l) * l + (a % l)
<1>1. a \div l \in Int
  BY SMT
<1>2. a % l \in Nat
  BY SMT
<1>3. a % l < l
  BY SMT
<1>4. a = l * (a \div l) + (a % l)
  BY SMT
<1>5. l * (a \div l) = (a \div l) * l
  BY <1>1
<1> QED
  BY <1>1, <1>2, <1>3, <1>4, <1>5

(* The quotient is the only number of its kind.                             *)
LEMMA QuotientIs ==
  ASSUME NEW a \in Int, NEW l \in Nat, l > 0, NEW q \in Int, NEW r \in Nat, r < l, a = q * l + r
  PROVE  a \div l = q /\ a % l = r
<1>1. PICK p, s : p = a \div l /\ s = a % l
  OBVIOUS
<1>2. p \in Int /\ s \in Nat /\ s < l /\ a = p * l + s
  BY <1>1, DivisionIs
<1>3. CASE p < q
  <2>1. p + 1 <= q
    BY <1>2, <1>3
  <2>2. (p + 1) * l <= q * l /\ (p + 1) * l = p * l + l /\ p * l \in Int /\ q * l \in Int
    BY <1>2, <2>1
  <2> QED
    BY <1>2, <2>2
<1>4. CASE q < p
  <2>1. q + 1 <= p
    BY <1>2, <1>4
  <2>2. (q + 1) * l <= p * l /\ (q + 1) * l = q * l + l /\ p * l \in Int /\ q * l \in Int
    BY <1>2, <2>1
  <2> QED
    BY <1>2, <2>2
<1>5. CASE p = q
  <2>1. q * l \in Int
    OBVIOUS
  <2> QED
    BY <1>1, <1>2, <1>5, <2>1
<1> QED
  BY <1>2, <1>3, <1>4, <1>5

(* Whole multiples of the divisor.                                          *)
LEMMA DivisionPlus ==
  ASSUME NEW a \in Int, NEW l \in Nat, l > 0, NEW c \in Int
  PROVE  (a + c * l) \div l = a \div l + c /\ (a + c * l) % l = a % l
<1>1. PICK p, s : p = a \div l /\ s = a % l
  OBVIOUS
<1>2. p \in Int /\ s \in Nat /\ s < l /\ a = p * l + s
  BY <1>1, DivisionIs
<1>3. c * l \in Int /\ a + c * l \in Int /\ p + c \in Int
  BY <1>2
<1>4. a + c * l = (p + c) * l + s
  BY <1>2
<1>5. (a + c * l) \div l = p + c /\ (a + c * l) % l = s
  BY <1>2, <1>3, <1>4, QuotientIs
<1> QED
  BY <1>1, <1>5

(* The beginning of a block is a number.                                    *)
LEMMA BeginningIs ==
  ASSUME NEW w \in Int, NEW l \in Nat, l > 0
  PROVE  Beginning(w, l) \in Int
<1>1. PICK p : p = w \div l
  OBVIOUS
<1>2. p \in Int
  BY <1>1, DivisionIs
<1>3. (p + 1) * l \in Int
  BY <1>2
<1> QED
  BY <1>1, <1>3 DEF Beginning

(* The numbers of a block of length l.                                      *)
LEMMA BlockIs ==
  ASSUME NEW w \in Int, NEW l \in Nat, l > 0, NEW b \in Int, b = Beginning(w, l)
  PROVE  /\ b \in Int /\ b - l <= w /\ w < b
         /\ \A k \in Int : b - l <= k /\ k < b => k \div l = w \div l
         /\ \E j \in Int : b = j * l
<1>1. PICK p, s : p = w \div l /\ s = w % l
  OBVIOUS
<1>2. p \in Int /\ s \in Nat /\ s < l /\ w = p * l + s
  BY <1>1, DivisionIs
<1>3. (p + 1) * l = p * l + l /\ p * l \in Int
  BY <1>2
<1>4. b = p * l + l
  BY <1>1, <1>3 DEF Beginning
<1>5. b \in Int /\ b - l <= w /\ w < b
  BY <1>2, <1>3, <1>4
<1>6. ASSUME NEW k \in Int, b - l <= k, k < b
      PROVE  k \div l = p
  <2>1. PICK r : r = k - p * l
    OBVIOUS
  <2>2. r \in Nat /\ r < l /\ k = p * l + r
    BY <1>2, <1>3, <1>4, <1>6, <2>1
  <2> QED
    BY <1>2, <2>2, QuotientIs
<1>7. p + 1 \in Int /\ b = (p + 1) * l
  BY <1>2, <1>3, <1>4
<1> QED
  BY <1>1, <1>5, <1>6, <1>7

(* Two multiples of a number are equal or a multiple apart.                 *)
LEMMA MultiplesApart ==
  ASSUME NEW h \in Nat, h > 0, NEW i \in Int, NEW j \in Int
  PROVE  i * h \in Int /\ j * h \in Int
         /\ (i * h = j * h \/ i * h <= j * h - h \/ i * h >= j * h + h)
<1>1. i * h \in Int /\ j * h \in Int
  OBVIOUS
<1>2. CASE i < j
  <2>1. i + 1 <= j
    BY <1>2
  <2>2. (i + 1) * h <= j * h /\ (i + 1) * h = i * h + h
    BY <2>1
  <2> QED
    BY <1>1, <2>2
<1>3. CASE j < i
  <2>1. j + 1 <= i
    BY <1>3
  <2>2. (j + 1) * h <= i * h /\ (j + 1) * h = j * h + h
    BY <2>1
  <2> QED
    BY <1>1, <2>2
<1>4. CASE i = j
  BY <1>1, <1>4
<1> QED
  BY <1>2, <1>3, <1>4

(* The lengths of the calendar.                                             *)
LEMMA CalendarIs ==
  /\ MinutesPerHour \in Nat /\ MinutesPerHour > 0 /\ HoursPerDay \in Nat /\ HoursPerDay > 0
  /\ DaysPerMonth \in Nat /\ DaysPerMonth > 0 /\ MonthsPerYear \in Nat /\ MonthsPerYear > 0
  /\ DaysPerWeek \in Nat /\ DaysPerWeek > 0 /\ SchMaxTick \in Nat
  /\ DayLength \in Nat /\ DayLength > 0 /\ MonthLength \in Nat /\ MonthLength > 0
<1>1. /\ MinutesPerHour \in Nat /\ MinutesPerHour > 0 /\ HoursPerDay \in Nat /\ HoursPerDay > 0
      /\ DaysPerMonth \in Nat /\ DaysPerMonth > 0 /\ MonthsPerYear \in Nat /\ MonthsPerYear > 0
      /\ DaysPerWeek \in Nat /\ DaysPerWeek > 0 /\ SchMaxTick \in Nat
  BY SchedulerAssumption
<1>2. DayLength \in Nat /\ DayLength > 0
  BY <1>1 DEF DayLength
<1>3. MonthLength \in Nat /\ MonthLength > 0
  BY <1>1, <1>2 DEF MonthLength
<1> QED
  BY <1>1, <1>2, <1>3

(* The zones whose searches are looked at.                                  *)
SchUsed == SchZones \union {SchLocal, UTC}

(* UTC does not shift; the others change on the hour.                       *)
LEMMA ZoneIs ==
  ASSUME NEW z \in SchUsed
  PROVE  /\ z.offset \in Int /\ z.shift \in {0, MinutesPerHour} /\ z.from \in Int /\ z.until \in Nat
         /\ z.shift > 0 =>
              /\ z.shift = MinutesPerHour
              /\ (z.from + z.offset) % MinutesPerHour = 0
              /\ (z.until + z.offset) % MinutesPerHour = 0
              /\ z.until >= z.from + 2 * MinutesPerHour /\ z.until > z.from + z.offset
<1>1. CASE z = UTC
  <2>1. z.offset = 0 /\ z.shift = 0 /\ z.from = 0 /\ z.until = 0
    BY <1>1 DEF UTC
  <2> QED
    BY <2>1
<1>2. CASE z \in SchZones \union {SchLocal}
  <2>1. z \in Zones
    BY <1>2, ZonesAssumption
  <2>2. /\ z.offset \in Int /\ z.shift \in {0, MinutesPerHour} /\ z.from \in Int /\ z.until \in Nat
    BY <2>1 DEF Zones
  <2>3. z.shift > 0 =>
              /\ (z.from + z.offset) % MinutesPerHour = 0
              /\ (z.until + z.offset) % MinutesPerHour = 0
              /\ z.until >= z.from + 2 * MinutesPerHour /\ z.until > z.from + z.offset
    BY <1>2, ZonesAssumption
  <2> QED
    BY <2>2, <2>3
<1> QED
  BY <1>1, <1>2 DEF SchUsed

(* The offset of a zone at a minute.                                        *)
LEMMA OffsetIs ==
  ASSUME NEW z \in SchUsed, NEW m \in Int
  PROVE  /\ Offset(z, m) \in Int
         /\ z.from <= m /\ m < z.until => Offset(z, m) = z.offset + z.shift
         /\ ~(z.from <= m /\ m < z.until) => Offset(z, m) = z.offset
         /\ Wall(z, m) = m + Offset(z, m) /\ Wall(z, m) \in Int
<1>1. z.offset \in Int /\ z.shift \in Int
  BY ZoneIs, CalendarIs
<1>2. CASE z.from <= m /\ m < z.until
  BY <1>1, <1>2 DEF Offset, Wall
<1>3. CASE ~(z.from <= m /\ m < z.until)
  BY <1>1, <1>3 DEF Offset, Wall
<1> QED
  BY <1>2, <1>3

(* A zone whose clocks change on the hour: where the search goes on from    *)
(* wall clock w, when it is to skip the block from a to b.  Its minute is   *)
(* later, unless the clocks go forward at b; and in between they show       *)
(* nothing outside the block that they do not show again.                   *)
LEMMA JumpIs ==
  ASSUME NEW o \in Int, NEW h \in Nat, h > 0, NEW from \in Int, NEW until \in Int,
         until >= from + 2 * h, until > from + o,
         NEW a \in Int, NEW b \in Int,
         b = from + o \/ b <= from + o - h \/ b >= from + o + h,
         b = until + o \/ b <= until + o - h \/ b >= until + o + h,
         a <= until + o \/ a >= until + o + h,
         NEW p \in Int, from <= b /\ b < until => p = o + h, ~(from <= b /\ b < until) => p = o,
         NEW q \in Int, from <= b - p /\ b - p < until => q = o + h,
         ~(from <= b - p /\ b - p < until) => q = o,
         NEW n, n = b - q,
         NEW m \in Int, NEW w \in Int, from <= m /\ m < until => w = m + o + h,
         ~(from <= m /\ m < until) => w = m + o, a <= w, w < b
  PROVE  /\ n \in Int /\ (n <= m => o < 0 /\ m < from)
         /\ \A k, v \in Int : /\ m <= k /\ k < n
                              /\ from <= k /\ k < until => v = k + o + h
                              /\ ~(from <= k /\ k < until) => v = k + o
                              => (until - h <= k /\ k < until) \/ (a <= v /\ v < b)
<1>1. n \in Int
  OBVIOUS
<1>2. n <= m => o < 0 /\ m < from
  BY SMTT(30)
<1>3. ASSUME NEW k \in Int, NEW v \in Int, m <= k, k < n,
             from <= k /\ k < until => v = k + o + h, ~(from <= k /\ k < until) => v = k + o
      PROVE  (until - h <= k /\ k < until) \/ (a <= v /\ v < b)
  BY <1>3, SMTT(60)
<1> QED
  BY <1>1, <1>2, <1>3

(* The same of a zone whose clocks do not change.                           *)
LEMMA SteadyJumpIs ==
  ASSUME NEW o \in Int, NEW a \in Int, NEW b \in Int, NEW n, n = b - o,
         NEW m \in Int, NEW w \in Int, w = m + o, a <= w, w < b
  PROVE  /\ n \in Int /\ n > m
         /\ \A k, v \in Int : m <= k /\ k < n /\ v = k + o => a <= v /\ v < b
OBVIOUS

(* The unit that is skipped: no wall clock of it matches.                   *)
LEMMA UnmatchedIs ==
  ASSUME NEW f, NEW w \in Int, ~(Month(w) \in f[4] /\ DayMatches(f, w) /\ Hour(w) \in f[2]),
         NEW l, l = Unmatched(f, w)
  PROVE  /\ l \in Nat /\ l > 0 /\ \E c \in Int : c > 0 /\ l = c * MinutesPerHour
         /\ \A k \in Int : k \div l = w \div l => ~CronMatches(f, k)
<1>1. CASE Month(w) \notin f[4]
  <2>1. l = MonthLength
    BY <1>1 DEF Unmatched
  <2>2. \A k \in Int : k \div l = w \div l => Month(k) = Month(w)
    BY <2>1 DEF Month
  <2>3. PICK c : c = HoursPerDay * DaysPerMonth
    OBVIOUS
  <2>4. c \in Int /\ c > 0 /\ MonthLength = c * MinutesPerHour
    BY <2>3, CalendarIs DEF MonthLength, DayLength
  <2> QED
    BY <1>1, <2>1, <2>2, <2>4, CalendarIs DEF CronMatches
<1>2. CASE Month(w) \in f[4] /\ ~DayMatches(f, w)
  <2>1. l = DayLength
    BY <1>2 DEF Unmatched
  <2>2. \A k \in Int : k \div l = w \div l => Day(k) = Day(w) /\ Weekday(k) = Weekday(w)
    BY <2>1 DEF Day, Weekday
  <2>3. HoursPerDay \in Int /\ HoursPerDay > 0 /\ DayLength = HoursPerDay * MinutesPerHour
    BY CalendarIs DEF DayLength
  <2>4. l \in Nat /\ l > 0 /\ \E c \in Int : c > 0 /\ l = c * MinutesPerHour
    BY <2>1, <2>3, CalendarIs
  <2> QED
    BY <1>2, <2>2, <2>4, Zenon DEF CronMatches, DayMatches
<1>3. CASE Month(w) \in f[4] /\ DayMatches(f, w) /\ Hour(w) \notin f[2]
  <2>1. l = MinutesPerHour
    BY <1>3 DEF Unmatched
  <2>2. \A k \in Int : k \div l = w \div l => Hour(k) = Hour(w)
    BY <2>1 DEF Hour
  <2>3. PICK c : c = 1
    OBVIOUS
  <2>4. c \in Int /\ c > 0 /\ l = c * MinutesPerHour /\ l \in Nat /\ l > 0
    BY <2>1, <2>3, CalendarIs
  <2> QED
    BY <1>3, <2>2, <2>4, Zenon DEF CronMatches
<1> QED
  BY <1>1, <1>2, <1>3

(* The beginning of a unit, and the changes of the clocks, are on the hour. *)
LEMMA UnitIs ==
  ASSUME NEW l \in Nat, l > 0, NEW c \in Int, c > 0, l = c * MinutesPerHour,
         NEW b \in Int, NEW j \in Int, b = j * l, NEW g \in Int, g % MinutesPerHour = 0
  PROVE  /\ b = g \/ b <= g - MinutesPerHour \/ b >= g + MinutesPerHour
         /\ b - l <= g \/ b - l >= g + MinutesPerHour
<1>1. PICK h : h = MinutesPerHour
  OBVIOUS
<1>2. h \in Nat /\ h > 0
  BY <1>1, CalendarIs
<1>4. PICK i : i = g \div h
  OBVIOUS
<1>5. i \in Int /\ g = i * h
  <2>1. g \div h \in Int /\ g = (g \div h) * h + (g % h) /\ g % h = 0
    BY <1>1, <1>2, DivisionIs
  <2>2. i * h \in Int
    BY <1>2, <1>4, <2>1
  <2> QED
    BY <1>4, <2>1, <2>2
<1>6. PICK d, e : d = j * c /\ e = d - c
  OBVIOUS
<1>7. d \in Int /\ e \in Int /\ b = d * h
  BY <1>1, <1>2, <1>6
<1>8. b - l = e * h
  BY <1>1, <1>2, <1>6, <1>7
<1>9. d * h = i * h \/ d * h <= i * h - h \/ d * h >= i * h + h
  BY <1>2, <1>5, <1>7, MultiplesApart
<1>10. e * h = i * h \/ e * h <= i * h - h \/ e * h >= i * h + h
  BY <1>2, <1>5, <1>7, MultiplesApart
<1>11. e * h \in Int /\ i * h \in Int
  BY <1>2, <1>5, <1>7
<1> QED
  BY <1>1, <1>2, <1>5, <1>7, <1>8, <1>9, <1>10, <1>11

(* The clocks of a zone are still to go forward after minute m: where the   *)
(* search may fail.                                                         *)
GapToCome(z, m) == z.offset < 0 /\ z.shift > 0 /\ m < z.from

(* A minute whose reading matches; and one that is the last of its reading. *)
Matches(z, f, k) == CronMatches(f, Wall(z, k))
ShownLast(z, f, k) == Matches(z, f, k) /\ ~ShownAgain(z, k)

(* Where the search goes on is later, unless the clocks are to go forward,  *)
(* and it passes over no minute that matches and is not shown again.        *)
LEMMA CandidateIs ==
  ASSUME NEW z \in SchUsed, NEW f, NEW m \in Int, ~Matches(z, f, m),
         NEW n, n = NextCandidate(z, f, m)
  PROVE  /\ n \in Int /\ (n <= m => GapToCome(z, m))
         /\ \A k \in Int : m <= k /\ k < n => ~ShownLast(z, f, k)
<1>1. PICK w : w = Wall(z, m)
  OBVIOUS
<1>2. w \in Int
  BY <1>1, OffsetIs
<1>3. CASE Month(w) \in f[4] /\ DayMatches(f, w) /\ Hour(w) \in f[2]
  <2>1. n = m + 1
    BY <1>1, <1>3 DEF NextCandidate
  <2>2. n \in Int /\ ~(n <= m) /\ \A k \in Int : m <= k /\ k < n => k = m
    BY <2>1
  <2> QED
    BY <2>2, Zenon DEF ShownLast
<1>4. CASE ~(Month(w) \in f[4] /\ DayMatches(f, w) /\ Hour(w) \in f[2])
  <2>1. PICK l : l = Unmatched(f, w)
    OBVIOUS
  <2>2. /\ l \in Nat /\ l > 0 /\ \E c \in Int : c > 0 /\ l = c * MinutesPerHour
        /\ \A k \in Int : k \div l = w \div l => ~CronMatches(f, k)
    BY <1>2, <1>4, <2>1, UnmatchedIs
  <2>3. PICK b : b = Beginning(w, l)
    OBVIOUS
  <2>17. l \in Nat /\ l > 0
    BY <2>2
  <2>16. b \in Int
    BY <1>2, <2>2, <2>3, BeginningIs
  <2>4. /\ b \in Int /\ b - l <= w /\ w < b
        /\ \A k \in Int : b - l <= k /\ k < b => k \div l = w \div l
    BY <1>2, <2>3, <2>16, <2>17, BlockIs
  <2>18. PICK j \in Int : b = j * l
    BY <1>2, <2>3, <2>16, <2>17, BlockIs
  <2>5. \A k \in Int : b - l <= k /\ k < b => ~CronMatches(f, k)
    BY <2>2, <2>4
  <2>6. PICK a : a = b - l
    OBVIOUS
  <2>7. a \in Int /\ a <= w
    BY <2>2, <2>4, <2>6
  <2>8. n = Date(z, b)
    BY <1>1, <1>4, <2>1, <2>3, Zenon DEF NextCandidate
  <2>9. PICK p : p = Offset(z, b)
    OBVIOUS
  <2>10. PICK q : q = Offset(z, b - p)
    OBVIOUS
  <2>11. p \in Int /\ b - p \in Int /\ q \in Int /\ n = b - q
    BY <2>4, <2>8, <2>9, <2>10, OffsetIs DEF Date
  <2>12. PICK o, from, until, h : /\ o = z.offset /\ from = z.from /\ until = z.until
                                  /\ h = MinutesPerHour
    OBVIOUS
  <2>13. o \in Int /\ from \in Int /\ until \in Int /\ h \in Nat /\ h > 0
         /\ (z.shift = 0 \/ (z.shift = h /\ z.shift > 0))
    BY <2>12, ZoneIs, CalendarIs
  <2>14. CASE z.shift = 0
    <3>1. \A k \in Int : Wall(z, k) \in Int /\ Wall(z, k) = k + o
      BY <2>12, <2>13, <2>14, OffsetIs
    <3>2. q = o /\ w = m + o
      BY <1>1, <2>10, <2>11, <2>12, <2>13, <2>14, OffsetIs
    <3>3. /\ n \in Int /\ n > m
          /\ \A k, v \in Int : m <= k /\ k < n /\ v = k + o => a <= v /\ v < b
      BY <1>2, <2>4, <2>7, <2>11, <2>13, <3>2, SteadyJumpIs
    <3>4. \A k \in Int : m <= k /\ k < n => a <= Wall(z, k) /\ Wall(z, k) < b
      BY <3>1, <3>3
    <3>5. \A k \in Int : m <= k /\ k < n => ~CronMatches(f, Wall(z, k))
      BY <2>5, <2>6, <3>1, <3>4
    <3> QED
      BY <3>3, <3>5 DEF ShownLast, Matches
  <2>15. CASE z.shift = h /\ z.shift > 0
    <3>1. /\ until >= from + 2 * h /\ until > from + o
          /\ (from + o) % h = 0 /\ (until + o) % h = 0
      BY <2>12, <2>15, ZoneIs
    <3>2. PICK g, u : g = from + o /\ u = until + o
      OBVIOUS
    <3>12. g \in Int /\ g % MinutesPerHour = 0 /\ u \in Int /\ u % MinutesPerHour = 0
      BY <2>12, <2>13, <3>1, <3>2
    <3>13. PICK c \in Int : c > 0 /\ l = c * MinutesPerHour
      BY <2>2
    <3>14. /\ b = g \/ b <= g - MinutesPerHour \/ b >= g + MinutesPerHour
           /\ b = u \/ b <= u - MinutesPerHour \/ b >= u + MinutesPerHour
           /\ b - l <= u \/ b - l >= u + MinutesPerHour
      BY <2>16, <2>17, <2>18, <3>12, <3>13, UnitIs
    <3>3. b = from + o \/ b <= from + o - h \/ b >= from + o + h
      BY <2>12, <2>13, <2>16, <3>2, <3>14
    <3>4. /\ b = until + o \/ b <= until + o - h \/ b >= until + o + h
          /\ a <= until + o \/ a >= until + o + h
      BY <2>6, <2>7, <2>12, <2>13, <2>16, <3>2, <3>14
    <3>5. \A k \in Int : /\ Wall(z, k) \in Int
                         /\ from <= k /\ k < until => Wall(z, k) = k + (o + h)
                         /\ ~(from <= k /\ k < until) => Wall(z, k) = k + o
      BY <2>12, <2>15, OffsetIs
    <3>6. \A k \in Int : from <= k /\ k < until => Wall(z, k) = k + o + h
      BY <2>13, <3>5
    <3>7. /\ from <= b /\ b < until => p = o + h
          /\ ~(from <= b /\ b < until) => p = o
      BY <2>4, <2>9, <2>12, <2>15, OffsetIs
    <3>8. /\ from <= b - p /\ b - p < until => q = o + h
          /\ ~(from <= b - p /\ b - p < until) => q = o
      BY <2>10, <2>11, <2>12, <2>15, OffsetIs
    <3>9. /\ from <= m /\ m < until => w = m + o + h
          /\ ~(from <= m /\ m < until) => w = m + o
      BY <1>1, <3>5, <3>6
    <3>10. /\ n \in Int /\ (n <= m => o < 0 /\ m < from)
           /\ \A k, v \in Int : /\ m <= k /\ k < n
                                /\ from <= k /\ k < until => v = k + o + h
                                /\ ~(from <= k /\ k < until) => v = k + o
                                => (until - h <= k /\ k < until) \/ (a <= v /\ v < b)
      BY <1>2, <2>4, <2>7, <2>11, <2>13, <3>1, <3>3, <3>4, <3>7, <3>8, <3>9, JumpIs
    <3>11. ASSUME NEW k \in Int, m <= k, k < n PROVE ~ShownLast(z, f, k)
      <4>1. PICK v : v = Wall(z, k)
        OBVIOUS
      <4>2. /\ v \in Int /\ (from <= k /\ k < until => v = k + o + h)
            /\ ~(from <= k /\ k < until) => v = k + o
        BY <3>5, <3>6, <4>1
      <4>3. (until - h <= k /\ k < until) \/ (a <= v /\ v < b)
        BY <3>10, <3>11, <4>2
      <4>4. CASE until - h <= k /\ k < until
        BY <2>12, <2>15, <4>4 DEF ShownLast, ShownAgain
      <4>5. CASE a <= v /\ v < b
        BY <2>5, <2>6, <4>1, <4>2, <4>5 DEF ShownLast, Matches
      <4> QED
        BY <4>3, <4>4, <4>5
    <3> QED
      BY <2>12, <2>15, <3>10, <3>11 DEF GapToCome
  <2> QED
    BY <2>13, <2>14, <2>15
<1> QED
  BY <1>3, <1>4

(* The span of every combination of the fields.                             *)
CronSpan == MonthLength * MonthsPerYear * DaysPerWeek

(* A reading that matches does so again after each span, and before it.     *)
LEMMA CronRepeats ==
  ASSUME NEW f, NEW m \in Int, NEW j \in Int, CronMatches(f, m)
  PROVE  CronMatches(f, m + j * CronSpan)
<1>1. PICK h, d, o, y, w : /\ h = MinutesPerHour /\ d = HoursPerDay /\ o = DaysPerMonth
                           /\ y = MonthsPerYear /\ w = DaysPerWeek
  OBVIOUS
<1>2. /\ h \in Nat /\ h > 0 /\ d \in Nat /\ d > 0 /\ o \in Nat /\ o > 0 /\ y \in Nat /\ y > 0
      /\ w \in Nat /\ w > 0
  BY <1>1, CalendarIs
<1>3. DayLength = h * d /\ MonthLength = (h * d) * o /\ CronSpan = (((h * d) * o) * y) * w
  BY <1>1 DEF DayLength, MonthLength, CronSpan
<1>4. PICK k : k = m + j * CronSpan
  OBVIOUS
<1>10. h \in Int /\ d \in Int /\ o \in Int /\ y \in Int /\ w \in Int
  BY <1>2
<1>5. Minute(k) = Minute(m)
  <2>1. PICK c : c = j * (((d * o) * y) * w)
    OBVIOUS
  <2>2. c \in Int
    BY <1>2, <2>1
  <2>3. k = m + c * h
    BY <1>2, <1>3, <1>4, <2>1
  <2>4. (m + c * h) % h = m % h
    BY <1>2, <2>2, DivisionPlus
  <2> QED
    BY <1>1, <2>3, <2>4 DEF Minute
<1>6. Hour(k) = Hour(m)
  <2>1. PICK b, c : b = j * ((o * y) * w) /\ c = b * d
    OBVIOUS
  <2>2. b \in Int /\ c \in Int
    BY <1>2, <2>1
  <2>3. k = m + c * h
    BY <1>2, <1>3, <1>4, <2>1
  <2>4. k \div h = m \div h + b * d
    BY <1>2, <2>1, <2>2, <2>3, DivisionPlus
  <2>5. m \div h \in Int
    BY <1>2, DivisionIs
  <2>6. (m \div h + b * d) % d = (m \div h) % d
    BY <1>2, <2>2, <2>5, DivisionPlus
  <2> QED
    BY <1>1, <2>4, <2>6 DEF Hour
<1>7. Day(k) = Day(m) /\ Weekday(k) = Weekday(m)
  <2>1. PICK l : l = h * d
    OBVIOUS
  <2>2. l \in Nat /\ l > 0 /\ l = DayLength
    BY <1>3, <2>1, CalendarIs
  <2>3. PICK b, e, c : b = j * (y * w) /\ e = j * (o * y) /\ c = j * ((o * y) * w)
    OBVIOUS
  <2>4. b \in Int /\ e \in Int /\ c \in Int /\ c = b * o /\ c = e * w
    BY <1>2, <2>3
  <2>5. k = m + c * l
    BY <1>2, <1>3, <1>4, <2>1, <2>2, <2>3
  <2>6. k \div l = m \div l + c
    BY <2>2, <2>4, <2>5, DivisionPlus
  <2>7. m \div l \in Int
    BY <2>2, DivisionIs
  <2>8. (m \div l + b * o) % o = (m \div l) % o /\ (m \div l + e * w) % w = (m \div l) % w
    BY <1>2, <2>4, <2>7, DivisionPlus
  <2> QED
    BY <1>1, <2>2, <2>4, <2>6, <2>8 DEF Day, Weekday
<1>8. Month(k) = Month(m)
  <2>1. PICK l : l = MonthLength
    OBVIOUS
  <2>2. l \in Nat /\ l > 0
    BY <2>1, CalendarIs
  <2>3. PICK b : b = j * w
    OBVIOUS
  <2>4. b \in Int /\ b * y \in Int
    BY <1>2, <2>3
  <2>5. CronSpan = (l * y) * w
    BY <1>1, <2>1 DEF CronSpan
  <2>6. k = m + (b * y) * l
    BY <1>2, <1>4, <2>2, <2>3, <2>5
  <2>7. k \div l = m \div l + b * y
    BY <2>2, <2>4, <2>6, DivisionPlus
  <2>8. m \div l \in Int
    BY <2>2, DivisionIs
  <2>9. (m \div l + b * y) % y = (m \div l) % y
    BY <1>2, <2>4, <2>8, DivisionPlus
  <2> QED
    BY <1>1, <2>1, <2>7, <2>9 DEF Month
<1>9. CronMatches(f, k)
  BY <1>5, <1>6, <1>7, <1>8, Zenon DEF CronMatches, DayMatches
<1> QED
  BY <1>4, <1>9

(* The horizon of a zone is past the clock and its last change by a span.   *)
LEMMA HorizonIs ==
  ASSUME NEW z \in SchUsed
  PROVE  /\ CronSpan \in Nat /\ CronSpan > 0 /\ z.until \in Nat
         /\ CronHorizon(z) = SchMaxTick + z.until + CronSpan
         /\ CronHorizon(z) \in Nat /\ SchMaxTick \in Nat
<1>1. CronSpan \in Nat /\ CronSpan > 0
  <2>1. PICK a : a = MonthLength * MonthsPerYear
    OBVIOUS
  <2>2. a \in Nat /\ a > 0
    BY <2>1, CalendarIs
  <2>3. a * DaysPerWeek \in Nat /\ a * DaysPerWeek > 0
    BY <2>2, CalendarIs
  <2> QED
    BY <2>1, <2>3 DEF CronSpan
<1>2. CronHorizon(z) = SchMaxTick + z.until + CronSpan
  BY DEF CronHorizon, CronSpan
<1>3. z.until \in Nat /\ SchMaxTick \in Nat
  BY ZoneIs, CalendarIs
<1> QED
  BY <1>1, <1>2, <1>3

(* An expression that matches a reading names a minute within the horizon,  *)
(* one that the clocks do not show again.                                   *)
LEMMA SettledExists ==
  ASSUME NEW z \in SchUsed, NEW f, NEW w \in Int, CronMatches(f, w),
         NEW m \in Nat, m <= SchMaxTick + 1
  PROVE  \E i \in m..CronHorizon(z) : ShownLast(z, f, i)
<1>1. PICK o, u, l, t : o = z.offset /\ u = z.until /\ l = CronSpan /\ t = SchMaxTick
  OBVIOUS
<1>2. o \in Int /\ u \in Nat /\ l \in Nat /\ l > 0 /\ t \in Nat /\ m <= t + 1
      /\ CronHorizon(z) = t + u + l
  BY <1>1, ZoneIs, HorizonIs
<1>3. PICK p : p = IF m > u THEN m ELSE u
  OBVIOUS
<1>4. p \in Nat /\ p >= m /\ p >= u /\ p <= t + 1 + u
  BY <1>2, <1>3
<1>5. PICK a : a = w - o - p
  OBVIOUS
<1>6. a \in Int
  BY <1>2, <1>4, <1>5
<1>7. PICK q, r : q = a \div l /\ r = a % l
  OBVIOUS
<1>8. q \in Int /\ r \in Nat /\ r < l /\ a = q * l + r
  BY <1>2, <1>6, <1>7, DivisionIs
<1>9. PICK i, d : i = p + r /\ d = 0 - q
  OBVIOUS
<1>10. i \in Nat /\ i >= p /\ i <= p + l - 1 /\ d \in Int
  BY <1>2, <1>4, <1>8, <1>9
<1>11. i \in m..CronHorizon(z)
  BY <1>2, <1>3, <1>4, <1>10
<1>12. i + o = w + d * l
  <2>1. d * l = 0 - q * l /\ q * l \in Int
    BY <1>2, <1>8, <1>9
  <2> QED
    BY <1>2, <1>4, <1>5, <1>8, <1>9, <2>1
<1>13. Wall(z, i) = i + o
  BY <1>1, <1>2, <1>4, <1>10, OffsetIs
<1>14. CronMatches(f, w + d * CronSpan)
  BY <1>10, CronRepeats
<1>15. ~ShownAgain(z, i)
  BY <1>1, <1>2, <1>4, <1>10 DEF ShownAgain
<1>16. ShownLast(z, f, i)
  BY <1>1, <1>12, <1>13, <1>14, <1>15 DEF ShownLast, Matches
<1> QED
  BY <1>11, <1>16

(* What the search does at minute m, when g is what it finds later.         *)
SearchAt(z, f, g, m) ==
    LET next == NextCandidate(z, f, m) IN
    IF CronMatches(f, Wall(z, m)) THEN 2 * m
    ELSE IF next <= m \/ next > CronHorizon(z) THEN NoTime
    ELSE g[next]

(* A function that satisfies the recursion of the search.                   *)
Searches(g, z, f) == g = [m \in 0..CronHorizon(z) |-> SearchAt(z, f, g, m)]

(* What the search does at a minute depends on later ones alone.            *)
LEMMA SearchLater ==
  ASSUME NEW z \in SchUsed, NEW f, NEW m \in Int, NEW g, NEW d,
         \A k \in (m + 1)..CronHorizon(z) : g[k] = d[k]
  PROVE  SearchAt(z, f, g, m) = SearchAt(z, f, d, m)
<1>1. PICK n, h : n = NextCandidate(z, f, m) /\ h = CronHorizon(z)
  OBVIOUS
<1>2. h \in Int
  BY <1>1, HorizonIs
<1>3. CASE CronMatches(f, Wall(z, m))
  BY <1>3, Zenon DEF SearchAt
<1>4. CASE ~CronMatches(f, Wall(z, m))
  <2>1. n \in Int
    BY <1>1, <1>4, CandidateIs DEF Matches
  <2>2. n <= m \/ n > h \/ n \in (m + 1)..h
    BY <1>2, <2>1
  <2>3. n \in (m + 1)..h => g[n] = d[n]
    BY <1>1
  <2>4. n <= m \/ n > h \/ g[n] = d[n]
    BY <2>2, <2>3
  <2> QED
    BY <1>1, <2>4, Zenon DEF SearchAt
<1> QED
  BY <1>3, <1>4

(* There is one: it is built from the horizon back.                         *)
LEMMA SearchExists ==
  ASSUME NEW z \in SchUsed, NEW f
  PROVE  \E g : Searches(g, z, f)
<1>1. PICK h : h = CronHorizon(z)
  OBVIOUS
<1>2. h \in Nat
  BY <1>1, HorizonIs
<1> DEFINE Part(i) == \E g : g = [m \in i..h |-> SearchAt(z, f, g, m)]
           S == {n \in Nat : \A i \in 0..(h + 1) : h + 1 - i <= n => Part(i)}
<1>3. 0 \in S
  <2> SUFFICES ASSUME NEW i \in 0..(h + 1), h + 1 - i <= 0
               PROVE  Part(i)
    OBVIOUS
  <2>1. i..h = {}
    BY <1>2
  <2>2. PICK g : g = [m \in i..h |-> 0]
    OBVIOUS
  <2>3. g = [m \in i..h |-> SearchAt(z, f, g, m)]
    BY <2>1, <2>2
  <2> QED
    BY <2>3
<1>4. ASSUME NEW n \in Nat, n \in S
      PROVE  n + 1 \in S
  <2> SUFFICES ASSUME NEW i \in 0..(h + 1), h + 1 - i <= n + 1
               PROVE  Part(i)
    OBVIOUS
  <2>1. CASE h + 1 - i <= n
    BY <1>4, <2>1
  <2>2. CASE ~(h + 1 - i <= n)
    <3>1. i + 1 \in 0..(h + 1) /\ h + 1 - (i + 1) <= n /\ i \in Int /\ i \in i..h
      BY <1>2, <2>2
    <3>2. Part(i + 1)
      BY <1>4, <3>1
    <3>3. PICK g : g = [m \in (i + 1)..h |-> SearchAt(z, f, g, m)]
      BY <3>2
    <3>4. PICK d : d = [m \in i..h |-> IF m = i THEN SearchAt(z, f, g, i) ELSE g[m]]
      OBVIOUS
    <3>5. \A m \in (i + 1)..h : m # i /\ m \in i..h /\ m \in Int
      BY <1>2, <3>1
    <3>6. \A m \in (i + 1)..h : d[m] = g[m]
      BY <3>4, <3>5
    <3>7. \A m \in i..h : m = i \/ m \in (i + 1)..h
      BY <1>2, <3>1
    <3>8. ASSUME NEW m \in i..h PROVE d[m] = SearchAt(z, f, d, m)
      <4>1. CASE m = i
        <5>1. SearchAt(z, f, d, m) = SearchAt(z, f, g, m)
          BY <1>1, <3>1, <3>6, <4>1, SearchLater
        <5>2. d[m] = SearchAt(z, f, g, m)
          BY <3>4, <4>1
        <5> QED
          BY <5>1, <5>2
      <4>2. CASE m \in (i + 1)..h
        <5>1. \A k \in (m + 1)..h : k \in (i + 1)..h
          BY <1>2, <3>1, <4>2
        <5>2. m \in Int
          BY <3>5, <4>2
        <5>3. SearchAt(z, f, d, m) = SearchAt(z, f, g, m)
          BY <1>1, <3>6, <5>1, <5>2, SearchLater
        <5>4. g[m] = SearchAt(z, f, g, m)
          BY <3>3, <4>2, Zenon
        <5> QED
          BY <3>6, <4>2, <5>3, <5>4
      <4> QED
        BY <3>7, <4>1, <4>2
    <3>9. d = [m \in i..h |-> d[m]]
      BY <3>4
    <3>10. d = [m \in i..h |-> SearchAt(z, f, d, m)]
      BY <3>8, <3>9, Zenon
    <3> QED
      BY <3>10
  <2> QED
    BY <2>1, <2>2
<1> HIDE DEF S, Part
<1>5. Nat \subseteq S
  BY <1>3, <1>4, SetInduction
<1>6. h + 1 \in Nat /\ 0 \in 0..(h + 1) /\ h + 1 - 0 <= h + 1
  BY <1>2
<1>7. Part(0)
  BY <1>5, <1>6 DEF S
<1> QED
  BY <1>1, <1>7, Zenon DEF Part, Searches

(* CronSearch is one.                                                       *)
LEMMA CronSearchIs ==
  ASSUME NEW z \in SchUsed, NEW f
  PROVE  Searches(CronSearch(z, f), z, f)
<1>1. CronSearch(z, f) = CHOOSE g : g = [m \in 0..CronHorizon(z) |-> SearchAt(z, f, g, m)]
  BY Zenon DEF CronSearch, SearchAt
<1>2. \E g : g = [m \in 0..CronHorizon(z) |-> SearchAt(z, f, g, m)]
  BY SearchExists DEF Searches
<1> QED
  BY <1>1, <1>2, Zenon DEF Searches

(* What the search says of minute m: a minute that matches, with none       *)
(* before it that does and is not shown again; and unless the clocks are    *)
(* still to go forward, it finds one if there is one.                       *)
Found(g, z, f, m) ==
    /\ g[m] # NoTime =>
          \E k \in m..CronHorizon(z) : /\ g[m] = 2 * k /\ Matches(z, f, k)
                                       /\ \A i \in m..(k - 1) : ~ShownLast(z, f, i)
    /\ ~GapToCome(z, m) /\ (\E i \in m..CronHorizon(z) : ShownLast(z, f, i)) => g[m] # NoTime

(* If it is so from every later minute, it is from this one.                *)
LEMMA SearchStep ==
  ASSUME NEW z \in SchUsed, NEW g, NEW f, Searches(g, z, f), NEW m \in 0..CronHorizon(z),
         \A k \in (m + 1)..CronHorizon(z) : Found(g, z, f, k)
  PROVE  Found(g, z, f, m)
<1>1. g[m] = SearchAt(z, f, g, m)
  BY Zenon DEF Searches
<1>2. PICK n, h : n = NextCandidate(z, f, m) /\ h = CronHorizon(z)
  OBVIOUS
<1>3. m \in Nat /\ h \in Nat /\ m \in m..h /\ m \in Int
  BY <1>2, HorizonIs
<1>4. CASE Matches(z, f, m)
  <2>1. g[m] = 2 * m
    BY <1>1, <1>4, Zenon DEF SearchAt, Matches
  <2>2. 2 * m # NoTime /\ \A i \in m..(m - 1) : FALSE
    BY <1>3 DEF NoTime
  <2> QED
    BY <1>2, <1>3, <1>4, <2>1, <2>2 DEF Found
<1>5. CASE ~Matches(z, f, m)
  <2>1. /\ n \in Int /\ (n <= m => GapToCome(z, m))
        /\ \A k \in Int : m <= k /\ k < n => ~ShownLast(z, f, k)
    BY <1>2, <1>3, <1>5, CandidateIs
  <2>2. g[m] = IF n <= m \/ n > h THEN NoTime ELSE g[n]
    BY <1>1, <1>2, <1>5, Zenon DEF SearchAt, Matches
  <2>3. CASE n <= m
    <3>1. g[m] = NoTime /\ GapToCome(z, m)
      BY <2>1, <2>2, <2>3
    <3> QED
      BY <3>1 DEF Found
  <2>4. CASE ~(n <= m) /\ n > h
    <3>1. \A i \in m..h : ~ShownLast(z, f, i)
      BY <1>3, <2>1, <2>4
    <3> QED
      BY <1>2, <2>2, <2>4, <3>1 DEF Found
  <2>5. CASE ~(n <= m) /\ ~(n > h)
    <3>1. n \in (m + 1)..h /\ g[m] = g[n]
      BY <1>3, <2>1, <2>2, <2>5
    <3>2. Found(g, z, f, n)
      BY <1>2, <3>1
    <3>3. ASSUME g[n] # NoTime
          PROVE  \E k \in m..h : /\ g[m] = 2 * k /\ Matches(z, f, k)
                                 /\ \A i \in m..(k - 1) : ~ShownLast(z, f, i)
      <4>1. PICK k \in n..h : /\ g[n] = 2 * k /\ Matches(z, f, k)
                             /\ \A i \in n..(k - 1) : ~ShownLast(z, f, i)
        BY <1>2, <3>2, <3>3 DEF Found
      <4>2. k \in m..h
        BY <1>3, <2>1, <2>5
      <4>3. ASSUME NEW i \in m..(k - 1) PROVE ~ShownLast(z, f, i)
        <5>1. i \in Int /\ m <= i /\ (i < n \/ i \in n..(k - 1))
          BY <1>3, <2>1, <4>2
        <5> QED
          BY <2>1, <4>1, <5>1
      <4> QED
        BY <3>1, <4>1, <4>2, <4>3
    <3>4. ASSUME ~GapToCome(z, m) PROVE ~GapToCome(z, n)
      <4>1. m < z.from => n < z.from \/ n >= z.from
        BY <2>1, ZoneIs
      <4>2. n < z.from => m < z.from
        BY <1>3, <2>1, <2>5, ZoneIs
      <4> QED
        BY <3>4, <4>2 DEF GapToCome
    <3>5. ASSUME NEW i \in m..h, ShownLast(z, f, i) PROVE i \in n..h
      BY <1>3, <2>1, <3>5
    <3> QED
      BY <1>2, <3>1, <3>2, <3>3, <3>4, <3>5 DEF Found
  <2> QED
    BY <2>3, <2>4, <2>5
<1> QED
  BY <1>4, <1>5

(* The search is so from every minute.                                      *)
LEMMA SearchFinds ==
  ASSUME NEW z \in SchUsed, NEW g, NEW f, Searches(g, z, f), NEW m \in 0..CronHorizon(z)
  PROVE  Found(g, z, f, m)
<1> DEFINE S == {n \in Nat :
                   \A i \in 0..CronHorizon(z) : CronHorizon(z) - i <= n => Found(g, z, f, i)}
<1>1. CronHorizon(z) \in Nat
  BY HorizonIs
<1>2. 0 \in S
  <2> SUFFICES ASSUME NEW i \in 0..CronHorizon(z), CronHorizon(z) - i <= 0
               PROVE  Found(g, z, f, i)
    OBVIOUS
  <2>1. \A k \in (i + 1)..CronHorizon(z) : FALSE
    BY <1>1
  <2> QED
    BY <2>1, SearchStep
<1>3. ASSUME NEW n \in Nat, n \in S
      PROVE  n + 1 \in S
  <2> SUFFICES ASSUME NEW i \in 0..CronHorizon(z), CronHorizon(z) - i <= n + 1
               PROVE  Found(g, z, f, i)
    OBVIOUS
  <2>1. \A k \in (i + 1)..CronHorizon(z) : k \in 0..CronHorizon(z) /\ CronHorizon(z) - k <= n
    BY <1>1
  <2>2. \A k \in (i + 1)..CronHorizon(z) : Found(g, z, f, k)
    BY <1>3, <2>1
  <2> QED
    BY <2>2, SearchStep
<1> HIDE DEF S
<1>4. Nat \subseteq S
  BY <1>2, <1>3, SetInduction
<1>5. CronHorizon(z) - m \in Nat /\ CronHorizon(z) - m <= CronHorizon(z) - m
  BY <1>1
<1> QED
  BY <1>4, <1>5 DEF S

(* The slots of an expression in a zone: a time on the minute that it names,*)
(* for the last time the clocks show it.                                    *)
IsSlot(cron, z, t) == \E k \in Nat : t = 2 * k /\ ShownLast(z, parseCronExpr(cron), k)

(* An expression is valid, and names some reading.                          *)
Nameable(cron) ==
    IsValid(parseCronExpr(cron)) /\ \E w \in Int : CronMatches(parseCronExpr(cron), w)

(* NextCronTime passes over no slot; and of an expression that names a      *)
(* reading it fails only where the clocks are to go forward.                *)
LEMMA NextTimeIs ==
  ASSUME NEW cron, NEW z \in SchUsed, NEW after \in 0..SchMaxTick,
         NEW t, t = NextCronTime(cron, z, after)
  PROVE  /\ t # NoTime => /\ Nameable(cron)
                          /\ t \in Nat /\ after < t /\ t <= 2 * CronHorizon(z)
                          /\ \A u \in Nat : IsSlot(cron, z, u) => ~(after < u /\ u < t)
         /\ Nameable(cron) /\ ~GapAhead(z, after) => t # NoTime
<1>1. PICK f, m, g : f = parseCronExpr(cron) /\ m = after \div 2 + 1 /\ g = CronSearch(z, f)
  OBVIOUS
<1>2. t = IF IsValid(f) THEN g[m] ELSE NoTime
  BY <1>1, Zenon DEF NextCronTime
<1>3. m \in Nat /\ m <= SchMaxTick + 1 /\ 2 * m > after /\ 2 * (m - 1) <= after
  BY <1>1, HorizonIs
<1>4. m \in 0..CronHorizon(z)
  BY <1>3, HorizonIs
<1>5. Found(g, z, f, m)
  BY <1>1, <1>4, CronSearchIs, SearchFinds
<1>6. ASSUME t # NoTime
      PROVE  /\ Nameable(cron) /\ t \in Nat /\ after < t /\ t <= 2 * CronHorizon(z)
             /\ \A u \in Nat : IsSlot(cron, z, u) => ~(after < u /\ u < t)
  <2>1. IsValid(f) /\ t = g[m]
    BY <1>2, <1>6
  <2>2. PICK k \in m..CronHorizon(z) : /\ t = 2 * k /\ Matches(z, f, k)
                                       /\ \A i \in m..(k - 1) : ~ShownLast(z, f, i)
    BY <1>5, <1>6, <2>1 DEF Found
  <2>3. k \in Nat /\ k \in Int /\ t \in Nat /\ after < t /\ t <= 2 * CronHorizon(z)
    BY <1>3, <2>2, HorizonIs
  <2>4. ASSUME NEW u \in Nat, IsSlot(cron, z, u), after < u, u < t
        PROVE  FALSE
    <3>1. PICK i \in Nat : u = 2 * i /\ ShownLast(z, f, i)
      BY <1>1, <2>4 DEF IsSlot
    <3>2. i \in m..(k - 1)
      BY <1>3, <2>2, <2>3, <2>4, <3>1
    <3> QED
      BY <2>2, <3>1, <3>2
  <2>5. Wall(z, k) \in Int /\ CronMatches(f, Wall(z, k))
    BY <2>2, <2>3, OffsetIs DEF Matches
  <2>6. Nameable(cron)
    BY <1>1, <2>1, <2>5 DEF Nameable
  <2> QED
    BY <2>3, <2>4, <2>6
<1>7. ASSUME Nameable(cron), ~GapAhead(z, after)
      PROVE  t # NoTime
  <2>1. PICK w \in Int : CronMatches(f, w)
    BY <1>1, <1>7 DEF Nameable
  <2>2. \E i \in m..CronHorizon(z) : ShownLast(z, f, i)
    BY <1>3, <2>1, SettledExists
  <2>3. ~GapToCome(z, m)
    <3>1. z.offset \in Int /\ z.shift \in Int /\ z.from \in Int
      BY ZoneIs, CalendarIs
    <3>2. m < z.from => after < 2 * z.from
      BY <1>3, <3>1, HorizonIs
    <3> QED
      BY <1>7, <3>2 DEF GapToCome, GapAhead
  <2>4. g[m] # NoTime
    BY <1>5, <2>2, <2>3 DEF Found
  <2>5. IsValid(f)
    BY <1>1, <1>7 DEF Nameable
  <2> QED
    BY <1>2, <2>4, <2>5
<1> QED
  BY <1>6, <1>7

SchExprs == SchCrons \union {r[2] : r \in SchRows}

SchEntries == [cron : SchExprs, zone : SchUsed, searched : SchUsed, next : Nat, since : Nat,
               last : Int, slot : Int, failing : BOOLEAN, seen : Int]

(* A next run that was computed at time since, in a zone.                   *)
Fresh(cron, z, next, since) ==
    /\ cron \in SchExprs /\ z \in SchUsed /\ next \in Nat /\ since \in Nat /\ since < next
    /\ Nameable(cron)
    /\ \A u \in Nat : IsSlot(cron, z, u) => ~(since < u /\ u < next)

(* An entry is of an expression that names a reading; no slot is between    *)
(* its last run, or when it was made, and its next run; its last run was    *)
(* for an earlier slot, or for the same when the search for the next        *)
(* failed; and when the loop has seen it due, it was started at that time   *)
(* or the start has failed.                                                 *)
EntryIs(e) ==
    /\ e \in SchEntries /\ Nameable(e.cron)
    /\ \/ e.slot < e.next
       \/ /\ e.slot = e.next /\ e.next <= e.last
          /\ e.searched = e.zone /\ GapAhead(e.searched, e.last)
    /\ \A u \in Nat : IsSlot(e.cron, e.searched, u) =>
          ~((IF e.last = NoTime THEN e.since ELSE e.last) < u /\ u < e.next)
    /\ e.next <= e.seen => e.failing = TRUE \/ e.last = e.seen

SchedulerIInv ==
    /\ schClock \in 0..SchMaxTick /\ schTicker \in {NoTime} \union (0..SchMaxTick)
    /\ schCall # NoCall => Fresh(schCall.cron, schCall.zone, schCall.next, schCall.since)
    /\ \A s \in DOMAIN schEntries : EntryIs(schEntries[s])

(* What a run that an entry records is for: a later slot, or the same when  *)
(* the search failed; and not before it.                                    *)
Runs(e, d) ==
    d.last \notin {e.last, NoTime} =>
       /\ \/ d.slot > e.slot
          \/ d.slot = e.slot /\ GapAhead(e.searched, e.last)
       /\ d.slot <= d.last

SlotStep ==
    \A s \in DOMAIN schEntries \intersect DOMAIN schEntries' :
       Runs(schEntries[s], schEntries'[s])

(* The next run that NextCronTime computes.                                 *)
LEMMA NextIsFresh ==
  ASSUME NEW cron \in SchExprs, NEW z \in SchUsed, NEW since \in 0..SchMaxTick,
         NextCronTime(cron, z, since) # NoTime
  PROVE  Fresh(cron, z, NextCronTime(cron, z, since), since)
<1>1. since \in Nat
  BY HorizonIs
<1> QED
  BY <1>1, NextTimeIs DEF Fresh

(* A new entry.                                                             *)
LEMMA EntryIsFresh ==
  ASSUME NEW cron, NEW z \in SchUsed, NEW searched, NEW next, NEW since,
         Fresh(cron, searched, next, since)
  PROVE  /\ EntryIs(Entry(cron, z, searched, next, since))
         /\ Entry(cron, z, searched, next, since).last = NoTime
<1>1. PICK e : e = Entry(cron, z, searched, next, since)
  OBVIOUS
<1>2. /\ e.cron = cron /\ e.searched = searched /\ e.next = next /\ e.since = since
      /\ e.last = NoTime /\ e.slot = NoTime /\ e.seen = NoTime /\ e \in SchEntries
  BY <1>1 DEF Entry, SchEntries, Fresh, NoTime
<1>3. next \in Nat /\ e.slot < e.next /\ ~(e.next <= e.seen)
  BY <1>2 DEF Fresh, NoTime
<1> QED
  BY <1>1, <1>2, <1>3 DEF EntryIs, Fresh

(* No slot is skipped.                                                      *)
LEMMA NoneSkipped ==
  ASSUME SchedulerIInv
  PROVE  NoSlotSkipped
<1> SUFFICES ASSUME NEW s \in DOMAIN schEntries, NEW e, e = schEntries[s],
                    NEW m \in Slots(e.cron, e.searched, e.since, e.seen)
             PROVE  e.failing \/ e.last >= m
  BY DEF NoSlotSkipped
<1>1. EntryIs(e)
  BY DEF SchedulerIInv
<1>2. e.next \in Nat /\ e.since \in Nat /\ e.last \in Int /\ e.seen \in Int
  BY <1>1 DEF EntryIs, SchEntries
<1>3. PICK k \in 0..SchMaxTick :
         /\ m = 2 * k /\ e.since < 2 * k /\ 2 * k <= e.seen /\ ~ShownAgain(e.searched, k)
         /\ CronMatches(parseCronExpr(e.cron), Wall(e.searched, k))
  BY DEF Slots
<1>4. k \in Nat /\ m \in Nat
  BY <1>3, CalendarIs
<1>5. IsSlot(e.cron, e.searched, m)
  BY <1>3, <1>4 DEF IsSlot, ShownLast, Matches
<1>6. CASE e.last # NoTime /\ e.last >= m
  BY <1>6
<1>7. CASE e.last = NoTime \/ ~(e.last >= m)
  <2>1. (IF e.last = NoTime THEN e.since ELSE e.last) < m
    BY <1>2, <1>3, <1>4, <1>7
  <2>2. ~(m < e.next)
    BY <1>1, <1>4, <1>5, <2>1 DEF EntryIs
  <2>3. e.next <= e.seen /\ m <= e.seen
    BY <1>2, <1>3, <1>4, <2>2
  <2>4. e.failing = TRUE \/ e.last = e.seen
    BY <1>1, <2>3 DEF EntryIs
  <2> QED
    BY <1>2, <1>4, <2>3, <2>4
<1> QED
  BY <1>2, <1>4, <1>6, <1>7

(* What firing does to an entry.                                            *)
LEMMA EntryFired ==
  ASSUME NEW e, EntryIs(e), NEW now \in 0..SchMaxTick, NEW d,
         \/ d = [e EXCEPT !.failing = TRUE, !.seen = now]
         \/ ~(e.next <= now) /\ d = [e EXCEPT !.seen = now]
         \/ /\ e.next <= now
            /\ d = [e EXCEPT !.failing = FALSE, !.seen = now, !.last = now, !.slot = e.next,
                             !.searched = e.zone,
                             !.next = IF NextCronTime(e.cron, e.zone, now) = NoTime THEN @
                                      ELSE NextCronTime(e.cron, e.zone, now)]
  PROVE  /\ EntryIs(d) /\ Runs(e, d)
<1>1. /\ e \in SchEntries /\ e.next \in Nat /\ e.since \in Nat /\ e.last \in Int /\ e.seen \in Int
      /\ e.slot \in Int /\ e.cron \in SchExprs /\ e.zone \in SchUsed /\ e.searched \in SchUsed
  BY DEF EntryIs, SchEntries
<1>2. now \in Nat /\ now \in Int
  BY CalendarIs
<1>3. CASE d = [e EXCEPT !.failing = TRUE, !.seen = now]
  <2>1. /\ d \in SchEntries /\ d.cron = e.cron /\ d.next = e.next /\ d.since = e.since
        /\ d.last = e.last /\ d.slot = e.slot /\ d.failing = TRUE
        /\ d.zone = e.zone /\ d.searched = e.searched
    BY <1>1, <1>2, <1>3 DEF SchEntries
  <2> QED
    BY <2>1 DEF EntryIs, Runs
<1>4. CASE ~(e.next <= now) /\ d = [e EXCEPT !.seen = now]
  <2>1. /\ d \in SchEntries /\ d.cron = e.cron /\ d.next = e.next /\ d.since = e.since
        /\ d.last = e.last /\ d.slot = e.slot /\ d.seen = now
        /\ d.zone = e.zone /\ d.searched = e.searched
    BY <1>1, <1>2, <1>4 DEF SchEntries
  <2> QED
    BY <1>4, <2>1 DEF EntryIs, Runs
<1>5. CASE /\ e.next <= now
           /\ d = [e EXCEPT !.failing = FALSE, !.seen = now, !.last = now, !.slot = e.next,
                            !.searched = e.zone,
                            !.next = IF NextCronTime(e.cron, e.zone, now) = NoTime THEN @
                                     ELSE NextCronTime(e.cron, e.zone, now)]
  <2>1. PICK t : t = NextCronTime(e.cron, e.zone, now)
    OBVIOUS
  <2>2. PICK n : n = IF t = NoTime THEN e.next ELSE t
    OBVIOUS
  <2>3. t # NoTime => Fresh(e.cron, e.zone, t, now)
    BY <1>1, <2>1, NextIsFresh
  <2>4. t = NoTime => GapAhead(e.zone, now)
    <3>1. Nameable(e.cron)
      BY DEF EntryIs
    <3> QED
      BY <1>1, <2>1, <3>1, NextTimeIs
  <2>5. n \in Nat
    BY <1>1, <2>2, <2>3 DEF Fresh
  <2>6. /\ d \in SchEntries /\ d.cron = e.cron /\ d.next = n /\ d.since = e.since
        /\ d.last = now /\ d.slot = e.next /\ d.seen = now /\ d.zone = e.zone
        /\ d.searched = e.zone
    <3>1. PICK a : a = [e EXCEPT !.failing = FALSE, !.seen = now]
      OBVIOUS
    <3>2. PICK b : b = [a EXCEPT !.last = now, !.slot = e.next]
      OBVIOUS
    <3>3. PICK c : c = [b EXCEPT !.searched = e.zone]
      OBVIOUS
    <3>4. /\ a \in SchEntries /\ a.cron = e.cron /\ a.since = e.since /\ a.seen = now
          /\ a.zone = e.zone /\ a.next = e.next
      BY <1>1, <1>2, <3>1 DEF SchEntries
    <3>5. /\ b \in SchEntries /\ b.cron = a.cron /\ b.since = a.since /\ b.seen = a.seen
          /\ b.last = now /\ b.slot = e.next /\ b.zone = a.zone /\ b.next = a.next
      <4>1. now \in Int /\ e.next \in Int
        BY <1>1, <1>2
      <4> QED
        BY <3>2, <3>4, <4>1 DEF SchEntries
    <3>6. /\ c \in SchEntries /\ c.cron = b.cron /\ c.since = b.since /\ c.seen = b.seen
          /\ c.last = b.last /\ c.slot = b.slot /\ c.zone = b.zone /\ c.searched = e.zone
          /\ c.next = b.next
      BY <1>1, <3>3, <3>5 DEF SchEntries
    <3>7. d = [c EXCEPT !.next = n]
      <4>1. d = [e EXCEPT !.failing = FALSE, !.seen = now, !.last = now, !.slot = e.next,
                          !.searched = e.zone, !.next = IF t = NoTime THEN @ ELSE t]
        BY <1>5, <2>1, Zenon
      <4>2. d = [e EXCEPT !.failing = FALSE, !.seen = now, !.last = now, !.slot = e.next,
                          !.searched = e.zone, !.next = n]
        BY <1>1, <2>2, <4>1 DEF SchEntries
      <4> QED
        BY <3>1, <3>2, <3>3, <4>2, Zenon
    <3> QED
      BY <2>5, <3>4, <3>5, <3>6, <3>7 DEF SchEntries
  <2>7. now # NoTime
    BY <1>2 DEF NoTime
  <2>8. Nameable(d.cron) /\ d.slot <= d.last
    BY <1>5, <2>6 DEF EntryIs
  <2>9. /\ \/ d.slot > e.slot
           \/ d.slot = e.slot /\ GapAhead(e.searched, e.last)
    <3>1. e.slot < e.next \/ (e.slot = e.next /\ GapAhead(e.searched, e.last))
      BY DEF EntryIs
    <3> QED
      BY <1>1, <2>6, <3>1
  <2>10. CASE t = NoTime
    <3>1. n = e.next /\ e.next <= now
      BY <1>5, <2>2, <2>10
    <3>2. /\ d.slot = d.next /\ d.next <= d.last /\ d.searched = d.zone
          /\ GapAhead(d.searched, d.last)
      BY <2>4, <2>6, <2>10, <3>1
    <3>3. \A u \in Nat : ~((IF d.last = NoTime THEN d.since ELSE d.last) < u /\ u < d.next)
      BY <1>1, <1>2, <2>6, <2>7, <3>1
    <3> QED
      BY <2>6, <2>8, <2>9, <3>2, <3>3 DEF EntryIs, Runs
  <2>11. CASE t # NoTime
    <3>1. n = t /\ t \in Nat /\ now < t
      BY <2>2, <2>3, <2>11 DEF Fresh
    <3>2. d.slot < d.next /\ ~(d.next <= d.seen)
      BY <1>1, <1>2, <1>5, <2>6, <3>1
    <3>3. \A u \in Nat : IsSlot(d.cron, d.searched, u) =>
             ~((IF d.last = NoTime THEN d.since ELSE d.last) < u /\ u < d.next)
      BY <2>3, <2>6, <2>7, <2>11, <3>1 DEF Fresh
    <3> QED
      BY <2>6, <2>8, <2>9, <3>2, <3>3 DEF EntryIs, Runs
  <2> QED
    BY <2>10, <2>11
<1> QED
  BY <1>3, <1>4, <1>5

(* Every step keeps what is true of the entries.                            *)
LEMMA SchedulerStep ==
  ASSUME SchedulerIInv, [SchedulerNext]_schVars
  PROVE  SchedulerIInv' /\ (SlotStep \/ UNCHANGED schVars)
<1>1. /\ schClock \in 0..SchMaxTick /\ schTicker \in {NoTime} \union (0..SchMaxTick)
      /\ schCall # NoCall => Fresh(schCall.cron, schCall.zone, schCall.next, schCall.since)
      /\ \A s \in DOMAIN schEntries : EntryIs(schEntries[s])
  BY DEF SchedulerIInv
<1>3. CASE UNCHANGED schVars
  BY <1>1, <1>3 DEF schVars, SchedulerIInv
<1>4. ASSUME NEW s \in SchSyncs, NEW cron \in SchCrons, NEW zone \in SchZones,
             ScheduleSyncComputes(s, cron, zone)
      PROVE  SchedulerIInv' /\ SlotStep
  <2>1. PICK next : next = NextCronTime(cron, zone, schClock)
    OBVIOUS
  <2>2. /\ schCall' = IF next = NoTime THEN NoCall
                      ELSE [sync |-> s, cron |-> cron, zone |-> zone, next |-> next,
                            since |-> schClock]
        /\ UNCHANGED <<schClock, schTicker, schEntries>>
    BY <1>4, <2>1 DEF ScheduleSyncComputes
  <2>3. next # NoTime => Fresh(cron, zone, next, schClock)
    BY <1>1, <2>1, NextIsFresh DEF SchExprs, SchUsed
  <2>4. schCall' # NoCall => Fresh(schCall'.cron, schCall'.zone, schCall'.next, schCall'.since)
    <3>1. CASE next = NoTime
      BY <2>2, <3>1
    <3>2. CASE next # NoTime
      <4>1. /\ schCall'.cron = cron /\ schCall'.zone = zone /\ schCall'.next = next
            /\ schCall'.since = schClock
        BY <2>2, <3>2
      <4> QED
        BY <2>3, <3>2, <4>1
    <3> QED
      BY <3>1, <3>2
  <2> QED
    BY <1>1, <2>2, <2>4 DEF SchedulerIInv, SlotStep, Runs
<1>5. CASE ScheduleSync
  <2>1. PICK e, q : /\ e = Entry(schCall.cron, schCall.zone, schCall.zone, schCall.next, schCall.since)
                    /\ q = schCall.sync
    OBVIOUS
  <2>2. /\ schEntries' = [s \in DOMAIN schEntries \union {q} |->
                             IF s = q THEN e ELSE schEntries[s]]
        /\ schCall # NoCall /\ schCall' = NoCall /\ UNCHANGED <<schClock, schTicker>>
    BY <1>5, <2>1 DEF ScheduleSync
  <2>3. EntryIs(e) /\ e.last = NoTime
    <3>1. Fresh(schCall.cron, schCall.zone, schCall.next, schCall.since)
      BY <1>1, <2>2
    <3>2. schCall.zone \in SchUsed
      BY <3>1 DEF Fresh
    <3> QED
      BY <2>1, <3>1, <3>2, EntryIsFresh
  <2>4. \A s \in DOMAIN schEntries' : \/ s \in DOMAIN schEntries /\ schEntries'[s] = schEntries[s]
                                      \/ schEntries'[s] = e
    BY <2>2
  <2>5. \A s \in DOMAIN schEntries' : EntryIs(schEntries'[s])
    BY <1>1, <2>3, <2>4
  <2>6. SlotStep
    BY <2>3, <2>4 DEF SlotStep, Runs
  <2> QED
    BY <1>1, <2>2, <2>5, <2>6 DEF SchedulerIInv
<1>6. ASSUME NEW s \in SchSyncs, UnscheduleSync(s)
      PROVE  SchedulerIInv' /\ SlotStep
  <2>1. /\ schEntries' = [q \in DOMAIN schEntries \ {s} |-> schEntries[q]]
        /\ UNCHANGED <<schClock, schTicker, schCall>>
    BY <1>6 DEF UnscheduleSync
  <2>2. \A q \in DOMAIN schEntries' : q \in DOMAIN schEntries /\ schEntries'[q] = schEntries[q]
    BY <2>1
  <2> QED
    BY <1>1, <2>1, <2>2 DEF SchedulerIInv, SlotStep, Runs
<1>7. CASE SchedulerStart \/ SchedulerStop \/ SchedulerReturns
  <2>1. UNCHANGED <<schClock, schTicker, schEntries, schCall>>
    BY <1>7 DEF SchedulerStart, SchedulerStop, SchedulerReturns
  <2> QED
    BY <1>1, <2>1 DEF SchedulerIInv, SlotStep, Runs
<1>8. CASE loadFromRepo
  <2>1. PICK rows : rows = {r \in SchRows : r[3] /\ NextCronTime(r[2], SchLocal, schClock) # NoTime}
    OBVIOUS
  <2>2. /\ schEntries' = [s \in DOMAIN schEntries \union {r[1] : r \in rows} |->
             IF \E r \in rows : r[1] = s
               THEN LET r == CHOOSE q \in rows : q[1] = s IN
                    Entry(r[2], UTC, SchLocal, NextCronTime(r[2], SchLocal, schClock), schClock)
               ELSE schEntries[s]]
        /\ UNCHANGED <<schClock, schTicker, schCall>>
    BY <1>8, <2>1 DEF loadFromRepo
  <2>3. ASSUME NEW r \in rows
        PROVE  LET e == Entry(r[2], UTC, SchLocal, NextCronTime(r[2], SchLocal, schClock), schClock) IN
               EntryIs(e) /\ e.last = NoTime
    <3>1. /\ r[2] \in SchExprs /\ NextCronTime(r[2], SchLocal, schClock) # NoTime
          /\ SchLocal \in SchUsed /\ UTC \in SchUsed
      BY <2>1 DEF SchExprs, SchUsed
    <3>2. Fresh(r[2], SchLocal, NextCronTime(r[2], SchLocal, schClock), schClock)
      BY <1>1, <3>1, NextIsFresh
    <3> QED
      BY <3>1, <3>2, EntryIsFresh
  <2>4. ASSUME NEW s \in DOMAIN schEntries'
        PROVE  \/ s \in DOMAIN schEntries /\ schEntries'[s] = schEntries[s]
               \/ EntryIs(schEntries'[s]) /\ schEntries'[s].last = NoTime
    <3>1. CASE \E r \in rows : r[1] = s
      <4>1. PICK r : r = CHOOSE q \in rows : q[1] = s
        OBVIOUS
      <4>2. r \in rows
        BY <3>1, <4>1
      <4>3. schEntries'[s] = Entry(r[2], UTC, SchLocal, NextCronTime(r[2], SchLocal, schClock), schClock)
        BY <2>2, <3>1, <4>1
      <4> QED
        BY <2>3, <4>2, <4>3
    <3>2. CASE ~\E r \in rows : r[1] = s
      BY <2>2, <3>2
    <3> QED
      BY <3>1, <3>2
  <2>5. \A s \in DOMAIN schEntries' : EntryIs(schEntries'[s])
    BY <1>1, <2>4
  <2>6. SlotStep
    BY <2>4 DEF SlotStep, Runs
  <2> QED
    BY <1>1, <2>2, <2>5, <2>6 DEF SchedulerIInv
<1>9. CASE SchTick
  <2>1. /\ schClock < SchMaxTick /\ schClock' = schClock + 1
        /\ schTicker' \in {schTicker, schClock + 1}
        /\ UNCHANGED <<schEntries, schCall>>
    BY <1>9 DEF SchTick
  <2>2. schClock' \in 0..SchMaxTick
    BY <1>1, <2>1, CalendarIs
  <2>3. schTicker' \in {NoTime} \union (0..SchMaxTick)
    BY <1>1, <2>1, <2>2
  <2> QED
    BY <1>1, <2>1, <2>2, <2>3 DEF SchedulerIInv, SlotStep, Runs
<1>10. CASE fireDueSyncs
  <2>1. schTicker # NoTime /\ schTicker' = NoTime /\ UNCHANGED <<schClock, schCall>>
    BY <1>10 DEF fireDueSyncs
  <2>2. schTicker \in 0..SchMaxTick
    BY <1>1, <2>1
  <2>3. PICK failed \in SUBSET Due(schTicker) :
           schEntries' = [s \in DOMAIN schEntries |->
               LET e == schEntries[s]
                   next == NextCronTime(e.cron, e.zone, schTicker) IN
               IF s \in failed THEN [e EXCEPT !.failing = TRUE, !.seen = schTicker]
               ELSE IF s \notin Due(schTicker) THEN [e EXCEPT !.seen = schTicker]
               ELSE [e EXCEPT !.failing = FALSE, !.seen = schTicker, !.last = schTicker,
                              !.slot = e.next, !.searched = e.zone,
                              !.next = IF next = NoTime THEN @ ELSE next]]
    BY <1>10 DEF fireDueSyncs
  <2>4. ASSUME NEW s \in DOMAIN schEntries, NEW e, e = schEntries[s], NEW d, d = schEntries'[s]
        PROVE  EntryIs(d) /\ Runs(e, d)
    <3>1. d = IF s \in failed THEN [e EXCEPT !.failing = TRUE, !.seen = schTicker]
              ELSE IF s \notin Due(schTicker) THEN [e EXCEPT !.seen = schTicker]
              ELSE [e EXCEPT !.failing = FALSE, !.seen = schTicker, !.last = schTicker,
                             !.slot = e.next, !.searched = e.zone,
                             !.next = IF NextCronTime(e.cron, e.zone, schTicker) = NoTime THEN @
                                      ELSE NextCronTime(e.cron, e.zone, schTicker)]
      BY <2>3, <2>4
    <3>2. s \in Due(schTicker) <=> e.next <= schTicker
      BY <2>4 DEF Due
    <3>3. EntryIs(e)
      BY <1>1, <2>4
    <3>4. \/ d = [e EXCEPT !.failing = TRUE, !.seen = schTicker]
          \/ ~(e.next <= schTicker) /\ d = [e EXCEPT !.seen = schTicker]
          \/ /\ e.next <= schTicker
             /\ d = [e EXCEPT !.failing = FALSE, !.seen = schTicker, !.last = schTicker,
                              !.slot = e.next, !.searched = e.zone,
                              !.next = IF NextCronTime(e.cron, e.zone, schTicker) = NoTime THEN @
                                       ELSE NextCronTime(e.cron, e.zone, schTicker)]
      BY <3>1, <3>2, Zenon
    <3> QED
      BY <2>2, <3>3, <3>4, EntryFired
  <2>5. DOMAIN schEntries' = DOMAIN schEntries
    BY <2>3
  <2>6. \A s \in DOMAIN schEntries' : EntryIs(schEntries'[s])
    BY <2>4, <2>5
  <2>7. SlotStep
    BY <2>4, <2>5 DEF SlotStep, Runs
  <2> QED
    BY <1>1, <2>1, <2>6, <2>7 DEF SchedulerIInv
<1> QED
  BY <1>3, <1>4, <1>5, <1>6, <1>7, <1>8, <1>9, <1>10 DEF SchedulerNext

(* A schedule is started at most once for each minute its expression names, *)
(* not before that minute, and no such minute is passed over (OncePerSlot), *)
(* for every expression, calendar, time zone and number of syncs.  It is    *)
(* started again for the same minute only where the clocks of a zone west   *)
(* of UTC are still to go forward: elsewhere the search finds a minute      *)
(* within its bound, by the period of the calendar, and it passes over none *)
(* but those the clocks show again, by the months, days and hours it skips  *)
(* whole and by what time.Date answers at the changes of the clocks.        *)
THEOREM EverySlotOnce ==
  SchedulerSpec => OncePerSlot
<1>1. SchedulerInit => SchedulerIInv
  <2>1. 0 \in 0..SchMaxTick
    BY CalendarIs
  <2>2. DOMAIN <<>> = {}
    OBVIOUS
  <2> QED
    BY <2>1, <2>2 DEF SchedulerInit, SchedulerIInv
<1>2. SchedulerIInv /\ [SchedulerNext]_schVars => SchedulerIInv'
  BY SchedulerStep
<1>3. SchedulerIInv => NoSlotSkipped
  BY NoneSkipped
<1>4. SchedulerIInv /\ [SchedulerNext]_schVars =>
         [\A s \in DOMAIN schEntries \intersect DOMAIN schEntries' :
          LET e == schEntries[s] IN
          schEntries'[s].last \notin {e.last, NoTime} =>
              /\ \/ schEntries'[s].slot > e.slot
                 \/ schEntries'[s].slot = e.slot /\ GapAhead(e.searched, e.last)
              /\ schEntries'[s].slot <= schEntries'[s].last]_schVars
  BY SchedulerStep DEF SlotStep, Runs, Runs
<1> QED
  BY <1>1, <1>2, <1>3, <1>4, PTL DEF SchedulerSpec, OncePerSlot

-----------------------------------------------------------------------------
(* The bounds of the scheduler's state.                                     *)

Within(z, t) == t \in 0..(2 * CronHorizon(z))

SchBounded ==
    /\ schTicker \in {NoTime} \union (1..SchMaxTick)
    /\ schLoop \in {"new", "loading", "running", "returned"}
    /\ schCalls \in 0..SchMaxCalls
    /\ schCall # NoCall => schCall.sync \in SchSyncs /\ Within(schCall.zone, schCall.next)
    /\ DOMAIN schEntries \subseteq SchSyncs
    /\ \A s \in DOMAIN schEntries : Within(schEntries[s].searched, schEntries[s].next)

(* A next run lies within what the search spans.                            *)
LEMMA NextInHorizon ==
  ASSUME NEW cron, NEW z \in SchUsed, NEW after \in 0..SchMaxTick,
         NextCronTime(cron, z, after) # NoTime
  PROVE  Within(z, NextCronTime(cron, z, after))
<1>1. PICK t : t = NextCronTime(cron, z, after)
  OBVIOUS
<1>2. t \in Nat /\ t <= 2 * CronHorizon(z)
  BY <1>1, NextTimeIs
<1> QED
  BY <1>1, <1>2, HorizonIs DEF Within

(* Every step keeps them.                                                   *)
LEMMA SchedulerBoundedStep ==
  ASSUME SchedulerIInv, SchBounded, [SchedulerNext]_schVars
  PROVE  SchBounded'
<1>1. /\ schClock \in 0..SchMaxTick /\ schTicker \in {NoTime} \union (1..SchMaxTick)
      /\ schLoop \in {"new", "loading", "running", "returned"}
      /\ schCalls \in 0..SchMaxCalls
      /\ schCall # NoCall => schCall.sync \in SchSyncs /\ Within(schCall.zone, schCall.next)
      /\ DOMAIN schEntries \subseteq SchSyncs
      /\ \A s \in DOMAIN schEntries : Within(schEntries[s].searched, schEntries[s].next)
  BY DEF SchedulerIInv, SchBounded
<1>2. SUFFICES /\ schTicker' \in {NoTime} \union (1..SchMaxTick)
               /\ schLoop' \in {"new", "loading", "running", "returned"}
               /\ schCalls' \in 0..SchMaxCalls
               /\ schCall' # NoCall => schCall'.sync \in SchSyncs /\ Within(schCall'.zone, schCall'.next)
               /\ DOMAIN schEntries' \subseteq SchSyncs
               /\ \A s \in DOMAIN schEntries' : Within(schEntries'[s].searched, schEntries'[s].next)
  BY DEF SchBounded
<1>3. CASE UNCHANGED schVars
  BY <1>1, <1>3 DEF schVars
<1>4. ASSUME NEW s \in SchSyncs, NEW cron \in SchCrons, NEW zone \in SchZones,
             ScheduleSyncComputes(s, cron, zone)
      PROVE  /\ schCalls' \in 0..SchMaxCalls
             /\ schCall' # NoCall => schCall'.sync \in SchSyncs /\ Within(schCall'.zone, schCall'.next)
             /\ UNCHANGED <<schTicker, schEntries, schLoop>>
  <2>1. PICK next : next = NextCronTime(cron, zone, schClock)
    OBVIOUS
  <2>2. /\ schCall' = IF next = NoTime THEN NoCall
                      ELSE [sync |-> s, cron |-> cron, zone |-> zone, next |-> next,
                            since |-> schClock]
        /\ schCalls < SchMaxCalls /\ schCalls' = schCalls + 1
        /\ UNCHANGED <<schTicker, schEntries, schLoop>>
    BY <1>4, <2>1 DEF ScheduleSyncComputes
  <2>3. schCalls' \in 0..SchMaxCalls
    BY <1>1, <2>2, SchedulerAssumption
  <2>4. CASE next = NoTime
    BY <2>2, <2>3, <2>4
  <2>5. CASE next # NoTime
    <3>1. Within(zone, next)
      BY <1>1, <2>1, <2>5, NextInHorizon DEF SchUsed
    <3>2. schCall'.sync = s /\ schCall'.next = next /\ schCall'.zone = zone
      BY <2>2, <2>5
    <3> QED
      BY <2>2, <2>3, <3>1, <3>2
  <2> QED
    BY <2>4, <2>5
<1>5. CASE ScheduleSync
  <2>1. PICK q, e : /\ q = schCall.sync
                    /\ e = Entry(schCall.cron, schCall.zone, schCall.zone, schCall.next, schCall.since)
    OBVIOUS
  <2>2. /\ schEntries' = [s \in DOMAIN schEntries \union {q} |-> IF s = q THEN e ELSE schEntries[s]]
        /\ schCall # NoCall /\ schCall' = NoCall /\ UNCHANGED <<schTicker, schLoop, schCalls>>
    BY <1>5, <2>1 DEF ScheduleSync
  <2>3. q \in SchSyncs /\ Within(e.searched, e.next)
    BY <1>1, <2>1, <2>2 DEF Entry
  <2> QED
    BY <1>1, <2>2, <2>3
<1>6. ASSUME NEW s \in SchSyncs, UnscheduleSync(s)
      PROVE  /\ DOMAIN schEntries' \subseteq SchSyncs
             /\ \A q \in DOMAIN schEntries' : Within(schEntries'[q].searched, schEntries'[q].next)
             /\ UNCHANGED <<schTicker, schLoop, schCall, schCalls>>
  BY <1>1, <1>6 DEF UnscheduleSync
<1>7. CASE SchedulerStart \/ SchedulerStop \/ SchedulerReturns
  BY <1>1, <1>7 DEF SchedulerStart, SchedulerStop, SchedulerReturns
<1>8. CASE loadFromRepo
  <2>1. PICK rows : rows = {r \in SchRows : r[3] /\ NextCronTime(r[2], SchLocal, schClock) # NoTime}
    OBVIOUS
  <2>2. /\ schEntries' = [s \in DOMAIN schEntries \union {r[1] : r \in rows} |->
             IF \E r \in rows : r[1] = s
               THEN LET r == CHOOSE q \in rows : q[1] = s IN
                    Entry(r[2], UTC, SchLocal, NextCronTime(r[2], SchLocal, schClock), schClock)
               ELSE schEntries[s]]
        /\ schLoop' = "running" /\ UNCHANGED <<schTicker, schCall, schCalls>>
    BY <1>8, <2>1 DEF loadFromRepo
  <2>3. \A r \in rows : r[1] \in SchSyncs
    BY <2>1, SchedulerAssumption
  <2>4. DOMAIN schEntries' \subseteq SchSyncs
    BY <1>1, <2>2, <2>3
  <2>5. ASSUME NEW s \in DOMAIN schEntries'
        PROVE  Within(schEntries'[s].searched, schEntries'[s].next)
    <3>1. CASE \E r \in rows : r[1] = s
      <4>1. PICK r : r = CHOOSE q \in rows : q[1] = s
        OBVIOUS
      <4>2. r \in rows
        BY <3>1, <4>1
      <4>3. PICK n : n = NextCronTime(r[2], SchLocal, schClock)
        OBVIOUS
      <4>4. Within(SchLocal, n)
        BY <1>1, <2>1, <4>2, <4>3, NextInHorizon DEF SchUsed
      <4>5. schEntries'[s] = Entry(r[2], UTC, SchLocal, n, schClock)
        BY <2>2, <3>1, <4>1, <4>3
      <4> QED
        BY <4>4, <4>5 DEF Entry
    <3>2. CASE ~\E r \in rows : r[1] = s
      BY <1>1, <2>2, <3>2
    <3> QED
      BY <3>1, <3>2
  <2> QED
    BY <1>1, <2>2, <2>4, <2>5
<1>9. CASE SchTick
  <2>1. /\ schClock < SchMaxTick
        /\ schTicker' \in {schTicker, schClock + 1}
        /\ UNCHANGED <<schEntries, schLoop, schCall, schCalls>>
    BY <1>9 DEF SchTick
  <2>2. schTicker' \in {NoTime} \union (1..SchMaxTick)
    BY <1>1, <2>1, CalendarIs
  <2> QED
    BY <1>1, <2>1, <2>2
<1>10. CASE fireDueSyncs
  <2>1. /\ schTicker # NoTime /\ schTicker' = NoTime
        /\ UNCHANGED <<schLoop, schCall, schCalls>>
    BY <1>10 DEF fireDueSyncs
  <2>2. schTicker \in 0..SchMaxTick
    BY <2>1 DEF SchedulerIInv
  <2>3. PICK failed \in SUBSET Due(schTicker) :
           schEntries' = [s \in DOMAIN schEntries |->
               LET e == schEntries[s]
                   next == NextCronTime(e.cron, e.zone, schTicker) IN
               IF s \in failed THEN [e EXCEPT !.failing = TRUE, !.seen = schTicker]
               ELSE IF s \notin Due(schTicker) THEN [e EXCEPT !.seen = schTicker]
               ELSE [e EXCEPT !.failing = FALSE, !.seen = schTicker, !.last = schTicker,
                              !.slot = e.next, !.searched = e.zone,
                              !.next = IF next = NoTime THEN @ ELSE next]]
    BY <1>10 DEF fireDueSyncs
  <2>4. ASSUME NEW s \in DOMAIN schEntries PROVE Within(schEntries'[s].searched, schEntries'[s].next)
    <3>1. PICK e, d : e = schEntries[s] /\ d = schEntries'[s]
      OBVIOUS
    <3>2. PICK t : t = NextCronTime(e.cron, e.zone, schTicker)
      OBVIOUS
    <3>3. \/ d = [e EXCEPT !.failing = TRUE, !.seen = schTicker]
          \/ d = [e EXCEPT !.seen = schTicker]
          \/ /\ e.next <= schTicker
             /\ d = [e EXCEPT !.failing = FALSE, !.seen = schTicker, !.last = schTicker,
                              !.slot = e.next, !.searched = e.zone,
                              !.next = IF t = NoTime THEN @ ELSE t]
      <4>1. s \in Due(schTicker) <=> e.next <= schTicker
        BY <3>1 DEF Due
      <4> QED
        BY <2>3, <3>1, <3>2, <4>1, Zenon
    <3>4. e \in SchEntries /\ Within(e.searched, e.next) /\ e.zone \in SchUsed /\ e.next \in Nat
      BY <1>1, <3>1 DEF SchedulerIInv, EntryIs, SchEntries
    <3>5. t # NoTime => Within(e.zone, t)
      BY <2>2, <3>2, <3>4, NextInHorizon
    <3>6. CASE d = [e EXCEPT !.failing = TRUE, !.seen = schTicker] \/ d = [e EXCEPT !.seen = schTicker]
      <4>1. d.next = e.next /\ d.searched = e.searched
        BY <3>4, <3>6 DEF SchEntries
      <4> QED
        BY <3>1, <3>4, <4>1
    <3>7. CASE /\ e.next <= schTicker
               /\ d = [e EXCEPT !.failing = FALSE, !.seen = schTicker, !.last = schTicker,
                                !.slot = e.next, !.searched = e.zone,
                                !.next = IF t = NoTime THEN @ ELSE t]
      <4>1. d.next = (IF t = NoTime THEN e.next ELSE t) /\ d.searched = e.zone
        BY <3>4, <3>7 DEF SchEntries
      <4>2. e.next <= 2 * CronHorizon(e.zone)
        <5>1. PICK now \in 0..SchMaxTick : now = schTicker
          BY <2>2
        <5>2. PICK h : h = CronHorizon(e.zone)
          OBVIOUS
        <5>3. h \in Nat /\ SchMaxTick \in Nat /\ h >= SchMaxTick
          BY <3>4, <5>2, HorizonIs
        <5>4. e.next <= now
          BY <3>7, <5>1
        <5> QED
          BY <3>4, <5>2, <5>3, <5>4
      <4>3. CASE t = NoTime
        BY <3>1, <3>4, <4>1, <4>2, <4>3, HorizonIs DEF Within
      <4>4. CASE t # NoTime
        BY <3>1, <3>5, <4>1, <4>4
      <4> QED
        BY <4>3, <4>4
    <3> QED
      BY <3>3, <3>6, <3>7
  <2>5. DOMAIN schEntries' = DOMAIN schEntries
    BY <2>3
  <2> QED
    BY <1>1, <2>1, <2>4, <2>5
<1> QED
  BY <1>1, <1>3, <1>4, <1>5, <1>6, <1>7, <1>8, <1>9, <1>10 DEF SchedulerNext

(* The scheduler keeps its types: the next run of every schedule lies       *)
(* within what the search for it spans.                                     *)
LEMMA SchedulerTypes == SchedulerSpec => []SchedulerTypeOK
<1>1. SchedulerInit => SchedulerIInv /\ SchBounded
  <2>1. 0 \in 0..SchMaxTick /\ 0 \in 0..SchMaxCalls
    BY CalendarIs, SchedulerAssumption
  <2>2. DOMAIN <<>> = {}
    OBVIOUS
  <2> QED
    BY <2>1, <2>2 DEF SchedulerInit, SchedulerIInv, SchBounded
<1>2. SchedulerIInv /\ SchBounded /\ [SchedulerNext]_schVars => (SchedulerIInv /\ SchBounded)'
  BY SchedulerStep, SchedulerBoundedStep
<1>3. SchedulerIInv /\ SchBounded => SchedulerTypeOK
  BY DEF SchedulerIInv, SchBounded, SchedulerTypeOK, Within
<1> QED
  BY <1>1, <1>2, <1>3, PTL DEF SchedulerSpec

-----------------------------------------------------------------------------
(* The key ring and the secrets.                                            *)

(* What was encrypted can be read by the key that is there for its version, *)
(* which the tag names while it fits.                                       *)
KeyringIInv ==
    /\ KeyringTypeOK
    /\ DOMAIN keyKeys \subseteq KeyVersions \ {0}
    /\ \A text \in keyTexts : text[3] \in Nat /\ (text[3] < KeyTags => text[1] = text[3])

(* The versions have keys, and what was encrypted can be read unless its    *)
(* key was removed or replaced or its version did not fit the tag (AddKey,  *)
(* RemoveKey, Encrypt, Decrypt).                                            *)
THEOREM KeysReadTheirTexts == KeyringSpec => []KeyringTypeOK
<1>1. KeyringInit => KeyringIInv
  BY KeyringAssumption DEF KeyringInit, KeyringIInv, KeyringTypeOK
<1>2. KeyringIInv /\ [KeyringNext]_keyVars => KeyringIInv'
  <2> SUFFICES ASSUME KeyringIInv, [KeyringNext]_keyVars
               PROVE  KeyringIInv'
    OBVIOUS
  <2> DEFINE Readable(text) ==
               KeyringDecrypt(text) \/ text[3] \in keyGone \/ text[3] >= KeyTags
  <2>1. ASSUME NEW v \in KeyVersions, NEW k \in KeyMaterials, AddKey(v, k)
        PROVE  KeyringIInv'
    <3>1. /\ v # 0 /\ v \in Nat /\ keyCurrent \in Nat /\ v >= 1
          /\ keyGone' = keyGone \union {w \in {v} \intersect DOMAIN keyKeys : keyKeys[w] # k}
          /\ DOMAIN keyKeys' = DOMAIN keyKeys \union {v}
          /\ keyKeys'[v] = k /\ \A w \in DOMAIN keyKeys \ {v} : keyKeys'[w] = keyKeys[w]
          /\ keyCurrent' \in {v, keyCurrent} /\ keyTexts' = keyTexts
      <4>1. keyKeys' = [w \in DOMAIN keyKeys \union {v} |-> IF w = v THEN k ELSE keyKeys[w]]
        BY <2>1 DEF AddKey
      <4>2. v # 0 /\ v \in Nat /\ keyCurrent \in Nat /\ v >= 1
        <5>1. v \in Nat /\ keyCurrent \in Nat
          BY KeyringAssumption DEF KeyringIInv, KeyringTypeOK
        <5>2. v >= 1
          BY <2>1 DEF AddKey
        <5> QED
          BY <5>1, <5>2
      <4>3. /\ DOMAIN keyKeys' = DOMAIN keyKeys \union {v}
            /\ keyKeys'[v] = k /\ \A w \in DOMAIN keyKeys \ {v} : keyKeys'[w] = keyKeys[w]
        BY <4>1
      <4>4. /\ keyGone' = keyGone \union {w \in {v} \intersect DOMAIN keyKeys : keyKeys[w] # k}
            /\ keyCurrent' \in {v, keyCurrent} /\ keyTexts' = keyTexts
        BY <2>1 DEF AddKey
      <4> QED
        BY <4>2, <4>3, <4>4
    <3>2. ASSUME NEW text \in keyTexts'
          PROVE  Readable(text)'
      <4>1. Readable(text) /\ (text[3] >= KeyTags \/ text[1] = text[3])
        BY <3>1, <3>2, KeyringAssumption DEF KeyringIInv, KeyringTypeOK
      <4>2. CASE text[3] \in keyGone \/ text[3] >= KeyTags
        BY <3>1, <4>2
      <4>3. CASE KeyringDecrypt(text) /\ text[1] # v
        BY <3>1, <4>3 DEF KeyringDecrypt
      <4>4. CASE KeyringDecrypt(text) /\ text[1] = v /\ text[1] = text[3]
        BY <3>1, <4>4 DEF KeyringDecrypt
      <4> QED
        BY <4>1, <4>2, <4>3, <4>4
    <3> QED
      BY <3>1, <3>2 DEF KeyringIInv, KeyringTypeOK
  <2>2. ASSUME NEW v \in KeyVersions, RemoveKey(v)
        PROVE  KeyringIInv'
    <3>1. /\ v # keyCurrent /\ DOMAIN keyKeys' = DOMAIN keyKeys \ {v}
          /\ \A w \in DOMAIN keyKeys \ {v} : keyKeys'[w] = keyKeys[w]
          /\ keyGone' = keyGone \union {v} /\ UNCHANGED <<keyCurrent, keyTexts>>
      BY <2>2 DEF RemoveKey
    <3>2. ASSUME NEW text \in keyTexts'
          PROVE  Readable(text)'
      <4>1. Readable(text) /\ (text[3] >= KeyTags \/ text[1] = text[3])
        BY <3>1, <3>2, KeyringAssumption DEF KeyringIInv, KeyringTypeOK
      <4> QED
        BY <3>1, <4>1 DEF KeyringDecrypt
    <3> QED
      BY <3>1, <3>2 DEF KeyringIInv, KeyringTypeOK
  <2>3. CASE KeyringEncrypt
    <3>0. PICK sealed : sealed = <<keyCurrent % KeyTags, keyKeys[keyCurrent], keyCurrent>>
      OBVIOUS
    <3>1. /\ keyCurrent \in DOMAIN keyKeys /\ keyCurrent \in Nat
          /\ keyTexts' = keyTexts \union {sealed}
          /\ UNCHANGED <<keyKeys, keyCurrent, keyGone>>
      BY <2>3, <3>0, KeyringAssumption DEF KeyringEncrypt, KeyringIInv, KeyringTypeOK
    <3>2. keyCurrent < KeyTags => keyCurrent % KeyTags = keyCurrent
      BY <3>1, KeyringAssumption
    <3>3. Readable(sealed)' /\ sealed[3] \in Nat /\ (sealed[3] < KeyTags => sealed[1] = sealed[3])
      BY <3>0, <3>1, <3>2, KeyringAssumption DEF KeyringDecrypt
    <3>4. ASSUME NEW text \in keyTexts'
          PROVE  /\ Readable(text)'
                 /\ text[3] \in Nat /\ (text[3] < KeyTags => text[1] = text[3])
      <4>1. CASE text = sealed
        BY <3>3, <4>1
      <4>2. CASE text \in keyTexts
        <5>1. Readable(text) /\ text[3] \in Nat /\ (text[3] < KeyTags => text[1] = text[3])
          BY <4>2 DEF KeyringIInv, KeyringTypeOK
        <5> QED
          BY <3>1, <5>1 DEF KeyringDecrypt
      <4> QED
        BY <3>1, <3>4, <4>1, <4>2
    <3> QED
      BY <3>1, <3>4 DEF KeyringIInv, KeyringTypeOK
  <2>4. CASE UNCHANGED keyVars
    BY <2>4 DEF keyVars, KeyringIInv, KeyringTypeOK, KeyringDecrypt
  <2> QED
    BY <2>1, <2>2, <2>3, <2>4 DEF KeyringNext
<1>3. KeyringIInv => KeyringTypeOK
  BY DEF KeyringIInv
<1> QED
  BY <1>1, <1>2, <1>3, PTL DEF KeyringSpec

(* Where a call of the secret manager is, and what it works on.             *)
SecCalls == [pc : {"idle", "write"}, path : SecPaths \union {""},
             data : SecData \union {"none", "torn", "error"}]

(* A file is torn only while it is written or after its write was cut off,  *)
(* and only in files.                                                       *)
SecretsIInv ==
    /\ secKind \in SecKinds /\ secProcs \in [SecProcs -> SecCalls]
    /\ secStored \in [SecPaths -> SecData \union {"none", "torn"}]
    /\ \A path \in SecPaths : secStored[path] = "torn" =>
          /\ secKind = "local"
          /\ path \in secTorn \/ \E p \in SecProcs : secProcs[p].pc = "write" /\ secProcs[p].path = path
    /\ \A p \in SecProcs :
          /\ secProcs[p].data = "error" => secProcs[p].path \in secTorn
          /\ secProcs[p].pc = "write" => /\ secKind = "local" /\ secProcs[p].path \in SecPaths
                                         /\ secProcs[p].data \in SecData

(* What a call leaves when it returns to its caller: the files as they are. *)
LEMMA SecretRead ==
  ASSUME SecretsIInv, NEW p \in SecProcs, secProcs[p].pc = "idle", NEW path \in SecPaths,
         NEW data \in SecData \union {"none", "torn", "error"},
         data = "error" => path \in secTorn, SecReturns(p, path, data),
         UNCHANGED <<secKind, secStored, secTorn>>
  PROVE  SecretsIInv'
<1>1. PICK c : c = [pc |-> "idle", path |-> path, data |-> data]
  OBVIOUS
<1>2. secProcs' = [secProcs EXCEPT ![p] = c]
  BY <1>1 DEF SecReturns
<1>3. c \in SecCalls /\ c.pc = "idle" /\ c.path = path /\ c.data = data
  BY <1>1 DEF SecCalls
<1>4. secProcs' \in [SecProcs -> SecCalls] /\ secProcs'[p] = c
      /\ \A q \in SecProcs \ {p} : secProcs'[q] = secProcs[q]
  BY <1>2, <1>3 DEF SecretsIInv
<1>5. \A q \in SecProcs : secProcs[q].pc = "write" => secProcs'[q] = secProcs[q]
  BY <1>4
<1>6. ASSUME NEW q \in SecProcs
      PROVE  /\ secProcs'[q].data = "error" => secProcs'[q].path \in secTorn
             /\ secProcs'[q].pc = "write" => /\ secKind' = "local" /\ secProcs'[q].path \in SecPaths
                                              /\ secProcs'[q].data \in SecData
  <2>1. CASE q = p
    BY <1>3, <1>4, <2>1
  <2>2. CASE q # p
    BY <1>4, <2>2 DEF SecretsIInv
  <2> QED
    BY <2>1, <2>2
<1> QED
  BY <1>4, <1>5, <1>6 DEF SecretsIInv

(* The data of one path, none of a torn file.                               *)
LEMMA SecretWritten ==
  ASSUME SecretsIInv, NEW path \in SecPaths, NEW data \in SecData \union {"none"},
         Stored(path, data), UNCHANGED <<secKind, secProcs, secTorn>>
  PROVE  SecretsIInv'
<1>1. data # "torn"
  BY SecretsAssumption
<1>2. /\ secStored' \in [SecPaths -> SecData \union {"none", "torn"}]
      /\ \A q \in SecPaths : secStored'[q] = "torn" => secStored[q] = "torn"
  BY <1>1 DEF SecretsIInv, Stored
<1> QED
  BY <1>2 DEF SecretsIInv

(* A reader meets a file that does not decrypt only at a path where a write *)
(* was cut off or failed, never because a write is under way (Store, Get    *)
(* and Delete of the local manager and of the Vault client).                *)
THEOREM SecretsAreWhole == SecretsSpec => []SecretsTypeOK
<1>1. SecretsInit => SecretsIInv
  <2> SUFFICES ASSUME SecretsInit
               PROVE  SecretsIInv
    OBVIOUS
  <2>1. PICK c : c = [pc |-> "idle", path |-> "", data |-> "none"]
    OBVIOUS
  <2>2. c \in SecCalls /\ c.pc = "idle" /\ c.data = "none"
    BY <2>1 DEF SecCalls
  <2>3. secProcs = [p \in SecProcs |-> c] /\ secStored = [path \in SecPaths |-> "none"]
    BY <2>1 DEF SecretsInit
  <2> QED
    BY <2>2, <2>3 DEF SecretsInit, SecretsIInv
<1>2. SecretsIInv /\ [SecretsNext]_secVars => SecretsIInv'
  <2> SUFFICES ASSUME SecretsIInv, [SecretsNext]_secVars
               PROVE  SecretsIInv'
    OBVIOUS
  <2>1. ASSUME NEW p \in SecProcs, NEW path \in SecPaths, NEW data \in SecData,
               LocalStore(p, path, data)
        PROVE  SecretsIInv'
    <3>1. PICK c : c = [pc |-> "write", path |-> path, data |-> data]
      OBVIOUS
    <3>2. /\ secKind = "local" /\ \A q \in SecProcs : secProcs[q].pc = "idle"
          /\ secStored' = [secStored EXCEPT ![path] = "torn"]
          /\ secProcs' = [secProcs EXCEPT ![p] = c] /\ UNCHANGED <<secKind, secTorn>>
      BY <2>1, <3>1 DEF LocalStore, SecUnlocked, Stored
    <3>3. c \in SecCalls /\ c.pc = "write" /\ c.path = path /\ c.data = data /\ c.data # "error"
      BY <3>1, SecretsAssumption DEF SecCalls
    <3>4. secProcs' \in [SecProcs -> SecCalls] /\ secProcs'[p] = c
          /\ \A q \in SecProcs \ {p} : secProcs'[q] = secProcs[q]
      BY <3>2, <3>3 DEF SecretsIInv
    <3>5. /\ secStored' \in [SecPaths -> SecData \union {"none", "torn"}]
          /\ \A q \in SecPaths \ {path} : secStored'[q] = secStored[q]
      BY <3>2 DEF SecretsIInv
    <3>6. ASSUME NEW q \in SecPaths, secStored'[q] = "torn"
          PROVE  q \in secTorn' \/ \E r \in SecProcs : secProcs'[r].pc = "write" /\ secProcs'[r].path = q
      <4>1. CASE q = path
        BY <3>3, <3>4, <4>1
      <4>2. CASE q # path
        BY <3>2, <3>5, <3>6, <4>2 DEF SecretsIInv
      <4> QED
        BY <4>1, <4>2
    <3>7. ASSUME NEW q \in SecProcs
          PROVE  /\ secProcs'[q].data = "error" => secProcs'[q].path \in secTorn'
                 /\ secProcs'[q].pc = "write" => /\ secKind' = "local" /\ secProcs'[q].path \in SecPaths
                                                  /\ secProcs'[q].data \in SecData
      <4>1. CASE q = p
        BY <3>2, <3>3, <3>4, <4>1
      <4>2. CASE q # p
        BY <3>2, <3>4, <4>2 DEF SecretsIInv
      <4> QED
        BY <4>1, <4>2
    <3>8. secKind' = "local" /\ secKind' \in SecKinds
      BY <3>2 DEF SecretsIInv
    <3> QED
      BY <3>4, <3>5, <3>6, <3>7, <3>8 DEF SecretsIInv
  <2>2. ASSUME NEW p \in SecProcs, LocalStoreReturns(p)
        PROVE  SecretsIInv'
    <3>1. PICK path, data : path = secProcs[p].path /\ data = secProcs[p].data
      OBVIOUS
    <3>2. PICK c : c = [pc |-> "idle", path |-> "", data |-> "none"]
      OBVIOUS
    <3>3. /\ secProcs[p].pc = "write" /\ secProcs' = [secProcs EXCEPT ![p] = c]
          /\ secKind' = secKind
          /\ \/ secStored' = [secStored EXCEPT ![path] = data] /\ secTorn' = secTorn
             \/ secTorn' = secTorn \union {path} /\ secStored' = secStored
      BY <2>2, <3>1, <3>2 DEF LocalStoreReturns, Stored, SecReturns
    <3>4. path \in SecPaths /\ data \in SecData /\ data # "torn"
      BY <3>1, <3>3, SecretsAssumption DEF SecretsIInv
    <3>5. c \in SecCalls /\ c.pc = "idle" /\ c.data = "none"
      BY <3>2 DEF SecCalls
    <3>6. secProcs' \in [SecProcs -> SecCalls] /\ secProcs'[p] = c
          /\ \A q \in SecProcs \ {p} : secProcs'[q] = secProcs[q]
      BY <3>3, <3>5 DEF SecretsIInv
    <3>7. /\ secStored' \in [SecPaths -> SecData \union {"none", "torn"}]
          /\ \A q \in SecPaths : secStored'[q] = "torn" =>
                secStored[q] = "torn" /\ (q = path => path \in secTorn')
      BY <3>3, <3>4 DEF SecretsIInv
    <3>8. ASSUME NEW q \in SecPaths, secStored'[q] = "torn"
          PROVE  q \in secTorn' \/ \E r \in SecProcs : secProcs'[r].pc = "write" /\ secProcs'[r].path = q
      <4>1. CASE q = path
        BY <3>7, <3>8, <4>1
      <4>2. CASE q # path
        <5>1. q \in secTorn \/ \E r \in SecProcs : secProcs[r].pc = "write" /\ secProcs[r].path = q
          BY <3>7, <3>8 DEF SecretsIInv
        <5>2. CASE q \in secTorn
          BY <3>3, <5>2
        <5>3. ASSUME NEW r \in SecProcs, secProcs[r].pc = "write", secProcs[r].path = q
              PROVE  secProcs'[r].pc = "write" /\ secProcs'[r].path = q
          BY <3>1, <3>6, <4>2, <5>3
        <5> QED
          BY <5>1, <5>2, <5>3
      <4> QED
        BY <4>1, <4>2
    <3>9. ASSUME NEW q \in SecProcs
          PROVE  /\ secProcs'[q].data = "error" => secProcs'[q].path \in secTorn'
                 /\ secProcs'[q].pc = "write" => /\ secKind' = "local" /\ secProcs'[q].path \in SecPaths
                                                  /\ secProcs'[q].data \in SecData
      <4>1. CASE q = p
        BY <3>5, <3>6, <4>1
      <4>2. CASE q # p
        BY <3>3, <3>6, <4>2 DEF SecretsIInv
      <4> QED
        BY <4>1, <4>2
    <3>10. \A q \in SecPaths : secStored'[q] = "torn" => secKind' = "local"
      BY <3>3, <3>7 DEF SecretsIInv
    <3>11. secKind' \in SecKinds
      BY <3>3 DEF SecretsIInv
    <3> QED
      BY <3>6, <3>7, <3>8, <3>9, <3>10, <3>11 DEF SecretsIInv
  <2>3. ASSUME NEW p \in SecProcs, NEW path \in SecPaths, LocalGet(p, path)
        PROVE  SecretsIInv'
    <3>1. PICK data : data = IF secStored[path] = "torn" THEN "error" ELSE secStored[path]
      OBVIOUS
    <3>2. /\ \A q \in SecProcs : secProcs[q].pc = "idle"
          /\ SecReturns(p, path, data) /\ UNCHANGED <<secKind, secStored, secTorn>>
      BY <2>3, <3>1 DEF LocalGet, SecUnlocked
    <3>3. data \in SecData \union {"none", "torn", "error"}
      BY <3>1 DEF SecretsIInv
    <3>4. data = "error" => secStored[path] = "torn"
      BY <3>1, SecretsAssumption DEF SecretsIInv
    <3>5. data = "error" => path \in secTorn
      BY <3>2, <3>4 DEF SecretsIInv
    <3> QED
      BY <3>2, <3>3, <3>5, SecretRead
  <2>4. ASSUME NEW p \in SecProcs, NEW path \in SecPaths, GetSecret(p, path)
        PROVE  SecretsIInv'
    <3>1. PICK data : data = secStored[path]
      OBVIOUS
    <3>2. /\ secKind = "vault"
          /\ SecReturns(p, path, data) /\ UNCHANGED <<secKind, secStored, secTorn>>
      BY <2>4, <3>1 DEF GetSecret
    <3>3. data \in SecData \union {"none", "torn", "error"} /\ data # "error"
      BY <3>1, SecretsAssumption DEF SecretsIInv
    <3>4. secProcs[p].pc = "idle"
      BY <3>2 DEF SecretsIInv, SecCalls
    <3> QED
      BY <3>2, <3>3, <3>4, SecretRead
  <2>5. ASSUME NEW p \in SecProcs, NEW path \in SecPaths, NEW data \in SecData,
               StoreSecret(p, path, data)
        PROVE  SecretsIInv'
    BY <2>5, SecretWritten DEF StoreSecret
  <2>6. ASSUME NEW p \in SecProcs, NEW path \in SecPaths,
               LocalDelete(p, path) \/ DeleteSecret(p, path)
        PROVE  SecretsIInv'
    BY <2>6, SecretWritten DEF LocalDelete, DeleteSecret
  <2>7. CASE SecCrash
    <3>1. PICK c : c = [pc |-> "idle", path |-> "", data |-> "none"]
      OBVIOUS
    <3>2. c \in SecCalls /\ c.pc = "idle" /\ c.data = "none"
      BY <3>1 DEF SecCalls
    <3>3. /\ secTorn' = secTorn \union {secProcs[p].path : p \in {q \in SecProcs :
                                                          secProcs[q].pc = "write"}}
          /\ secProcs' = [p \in SecProcs |-> c] /\ UNCHANGED <<secKind, secStored>>
      BY <2>7, <3>1 DEF SecCrash
    <3>4. \A path \in SecPaths : secStored[path] = "torn" => path \in secTorn'
      BY <3>3 DEF SecretsIInv
    <3> QED
      BY <3>2, <3>3, <3>4, SecretsAssumption DEF SecretsIInv
  <2>8. CASE UNCHANGED secVars
    BY <2>8 DEF secVars, SecretsIInv
  <2> QED
    BY <2>1, <2>2, <2>3, <2>4, <2>5, <2>6, <2>7, <2>8 DEF SecretsNext
<1>3. SecretsIInv => SecretsTypeOK
  BY DEF SecretsIInv, SecretsTypeOK, SecCalls
<1> QED
  BY <1>1, <1>2, <1>3, PTL DEF SecretsSpec

-----------------------------------------------------------------------------
(* The registry of connectors.                                              *)

RegStatuses == {"unknown", "healthy", "unhealthy"}
RegRecs == [status : RegStatuses, checks : Nat]
RegCallSet == [pc : {"idle", "create", "check", "write"}, todo : SUBSET RegNames,
               name : RegNames \union {CHOOSE n \in RegNames : TRUE}, h : Nat,
               status : RegStatuses]

RegShape ==
    /\ DOMAIN regConfigs \subseteq RegNames
    /\ regRecords \in Seq(RegRecs) /\ regHealth \in [RegNames -> 0..Len(regRecords)]
    /\ regProcs \in [RegProcs -> RegCallSet]

(* A record is of one name, and a check has a record of its name; a status  *)
(* that is about to be written to the record that counts is the present one.*)
RegPoints(c) ==
    /\ c.pc # "idle" => c.name \in RegNames
    /\ c.pc \in {"check", "write"} =>
          c.h \in 1..Len(regRecords) /\ \A n \in RegNames : regHealth[n] = c.h => n = c.name
    /\ c.pc = "write" /\ regHealth[c.name] = c.h => c.status = StatusOf(c.name)

RegistryIInv ==
    /\ RegShape /\ HealthOfPresentConfig
    /\ \A n, m \in RegNames : regHealth[n] # 0 /\ regHealth[n] = regHealth[m] => n = m
    /\ \A p \in RegProcs : RegPoints(regProcs[p])

(* A step of a check that writes nothing.                                   *)
LEMMA RegCallKept ==
  ASSUME RegistryIInv, NEW p \in RegProcs, NEW c \in RegCallSet, RegPoints(c),
         regProcs' = [regProcs EXCEPT ![p] = c], UNCHANGED <<regConfigs, regHealth, regRecords>>
  PROVE  RegistryIInv'
<1>1. /\ regProcs' \in [RegProcs -> RegCallSet] /\ regProcs'[p] = c
      /\ \A q \in RegProcs \ {p} : regProcs'[q] = regProcs[q]
  BY DEF RegistryIInv, RegShape
<1>2. HealthOfPresentConfig'
  BY DEF RegistryIInv, HealthOfPresentConfig, StatusOf
<1>3. ASSUME NEW q \in RegProcs
      PROVE  RegPoints(regProcs[q])'
  <2>1. RegPoints(regProcs'[q])
    BY <1>1 DEF RegistryIInv
  <2> QED
    BY <2>1 DEF RegPoints, StatusOf
<1> QED
  BY <1>1, <1>2, <1>3 DEF RegistryIInv, RegShape

(* The records of a configuration that is loaded are new ones.              *)
LEMMA RegLoadKept ==
  ASSUME RegistryIInv, NEW S \in SUBSET RegNames, NEW loaded \in [S -> BOOLEAN],
         LoadFromConfig(loaded)
  PROVE  RegistryIInv'
<1>1. PICK k, len : k = Cardinality(S) /\ len = Len(regRecords)
  OBVIOUS
<1>2. IsFiniteSet(S) /\ k \in Nat /\ S \subseteq Nat /\ len \in Nat
  <2>1. IsFiniteSet(S)
    BY FS_Subset, RegistryAssumption
  <2>2. k \in Nat
    BY <1>1, <2>1, FS_CardinalityType
  <2> QED
    BY <1>1, <2>1, <2>2, RegistryAssumption DEF RegistryIInv, RegShape
<1>3. PICK below : below = [n \in RegNames |-> {m \in S : m < n}]
  OBVIOUS
<1>4. PICK id : id = [n \in RegNames |-> len + Cardinality(below[n]) + 1]
  OBVIOUS
<1>5. \A n \in RegNames : IsFiniteSet(below[n]) /\ Cardinality(below[n]) \in Nat
  BY <1>2, <1>3, FS_Subset, FS_CardinalityType
<1>6. ASSUME NEW n \in S
      PROVE  Cardinality(below[n]) < k
  <2>1. n \in RegNames /\ below[n] \subseteq S /\ n \notin below[n]
    BY <1>2, <1>3
  <2>2. below[n] # S
    BY <2>1
  <2>3. Cardinality(below[n]) <= k /\ Cardinality(below[n]) # k
    BY <1>1, <1>2, <2>1, <2>2, FS_Subset
  <2> QED
    BY <1>2, <1>5, <2>1, <2>3
<1>7. ASSUME NEW n \in S, NEW m \in S, m < n
      PROVE  Cardinality(below[m]) < Cardinality(below[n])
  <2>1. m \in RegNames /\ n \in RegNames /\ m \in below[n] /\ m \notin below[m]
    <3>1. m \in RegNames /\ n \in RegNames /\ m \in Nat /\ ~(m < m)
      BY <1>2
    <3>2. below[m] = {i \in S : i < m} /\ below[n] = {i \in S : i < n}
      BY <1>3, <3>1
    <3> QED
      BY <1>7, <3>1, <3>2
  <2>2. below[m] \subseteq below[n]
    <3>1. below[m] = {i \in S : i < m} /\ below[n] = {i \in S : i < n}
      BY <1>3, <2>1
    <3>2. ASSUME NEW i \in S, i < m
          PROVE  i < n
      <4>1. i \in Nat /\ m \in Nat /\ n \in Nat
        BY <1>2
      <4> QED
        BY <1>7, <3>2, <4>1
    <3> QED
      BY <3>1, <3>2
  <2>3. Cardinality(below[m]) <= Cardinality(below[n]) /\ Cardinality(below[m]) # Cardinality(below[n])
    BY <1>5, <2>1, <2>2, FS_Subset
  <2> QED
    BY <1>5, <2>1, <2>3
<1>8. \A n \in S : id[n] \in (len + 1)..(len + k)
  <2> TAKE n \in S
  <2>1. PICK b : b = Cardinality(below[n])
    OBVIOUS
  <2>2. b \in Nat /\ b < k /\ id[n] = len + b + 1
    BY <1>4, <1>5, <1>6, <2>1
  <2> QED
    BY <1>2, <2>2
<1>9. \A n, m \in S : id[n] = id[m] => n = m
  <2> SUFFICES ASSUME NEW n \in S, NEW m \in S, n # m PROVE id[n] # id[m]
    OBVIOUS
  <2>1. PICK b, c : b = Cardinality(below[n]) /\ c = Cardinality(below[m])
    OBVIOUS
  <2>2. b \in Nat /\ c \in Nat /\ id[n] = len + b + 1 /\ id[m] = len + c + 1
    BY <1>4, <1>5, <2>1
  <2>3. m < n \/ n < m
    BY <1>2
  <2>4. b # c
    BY <1>7, <2>1, <2>2, <2>3
  <2> QED
    BY <1>2, <2>2, <2>4
<1>10. PICK more : more = [i \in 1..k |-> NewRecord]
  OBVIOUS
<1>11. /\ more \in Seq(RegRecs) /\ Len(more) = k /\ \A i \in 1..k : more[i] = NewRecord
  BY <1>2, <1>10 DEF NewRecord, RegRecs, RegStatuses
<1>12. /\ DOMAIN loaded = S
       /\ regConfigs' = [n \in S \union DOMAIN regConfigs |->
                           IF n \in S THEN loaded[n] ELSE regConfigs[n]]
       /\ regHealth' = [n \in RegNames |->
                          IF n \in S THEN len + Cardinality({m \in S : m < n}) + 1
                                     ELSE regHealth[n]]
       /\ regRecords' = regRecords \o more /\ regProcs' = regProcs
  BY <1>1, <1>10 DEF LoadFromConfig
<1>13. \A n \in RegNames : regHealth'[n] = IF n \in S THEN id[n] ELSE regHealth[n]
  BY <1>3, <1>4, <1>12
<1>14. /\ regRecords' \in Seq(RegRecs) /\ Len(regRecords') = len + k
       /\ \A i \in 1..len : regRecords'[i] = regRecords[i]
       /\ \A i \in (len + 1)..(len + k) : regRecords'[i] = NewRecord
  <2>1. regRecords \in Seq(RegRecs)
    BY DEF RegistryIInv, RegShape
  <2>2. /\ regRecords \o more \in Seq(RegRecs) /\ Len(regRecords \o more) = len + k
        /\ \A i \in 1..(len + k) : (regRecords \o more)[i] =
              IF i <= len THEN regRecords[i] ELSE more[i - len]
    BY <1>1, <1>2, <1>11, <2>1, ConcatProperties
  <2>3. \A i \in (len + 1)..(len + k) : i - len \in 1..k /\ i \in 1..(len + k) /\ ~(i <= len)
    BY <1>2
  <2>4. \A i \in 1..len : i \in 1..(len + k) /\ i <= len
    BY <1>2
  <2> QED
    BY <1>11, <1>12, <2>2, <2>3, <2>4
<1>15. \A n \in RegNames : regHealth[n] \in 0..len /\ (n \notin S => regHealth'[n] = regHealth[n])
                           /\ (n \in S => regHealth'[n] = id[n] /\ regHealth'[n] > len)
  BY <1>1, <1>2, <1>8, <1>13 DEF RegistryIInv, RegShape
<1>16. RegShape'
  <2>1. \A n \in RegNames : regHealth'[n] \in 0..(len + k)
    BY <1>2, <1>8, <1>13, <1>15
  <2>2. regHealth' \in [RegNames -> 0..Len(regRecords')]
    BY <1>12, <1>14, <2>1
  <2>3. DOMAIN regConfigs' \subseteq RegNames
    BY <1>12 DEF RegistryIInv, RegShape
  <2> QED
    BY <1>12, <1>14, <2>2, <2>3 DEF RegistryIInv, RegShape
<1>17. \A n \in RegNames \ S : StatusOf(n)' = StatusOf(n)
  <2> TAKE n \in RegNames \ S
  <2>1. /\ n \in DOMAIN regConfigs' <=> n \in DOMAIN regConfigs
        /\ n \in DOMAIN regConfigs => regConfigs'[n] = regConfigs[n]
    BY <1>12
  <2> QED
    BY <2>1 DEF StatusOf
<1>18. HealthOfPresentConfig'
  <2> SUFFICES ASSUME NEW n \in RegNames, regHealth'[n] # 0
               PROVE  regRecords'[regHealth'[n]].status \in {"unknown", StatusOf(n)'}
    BY DEF HealthOfPresentConfig
  <2>1. CASE n \in S
    <3>1. regRecords'[regHealth'[n]] = NewRecord
      BY <1>8, <1>14, <1>15, <2>1
    <3> QED
      BY <3>1 DEF NewRecord
  <2>2. CASE n \notin S
    <3>1. regHealth'[n] = regHealth[n] /\ regHealth[n] \in 1..len
      BY <1>2, <1>15, <2>2
    <3>2. regRecords'[regHealth'[n]] = regRecords[regHealth[n]]
      BY <1>14, <3>1
    <3>3. regRecords[regHealth[n]].status \in {"unknown", StatusOf(n)}
      BY <3>1 DEF RegistryIInv, HealthOfPresentConfig
    <3> QED
      BY <1>17, <2>2, <3>2, <3>3
  <2> QED
    BY <2>1, <2>2
<1>19. \A n, m \in RegNames : regHealth'[n] # 0 /\ regHealth'[n] = regHealth'[m] => n = m
  <2> SUFFICES ASSUME NEW n \in RegNames, NEW m \in RegNames,
                      regHealth'[n] # 0, regHealth'[n] = regHealth'[m]
               PROVE  n = m
    OBVIOUS
  <2>1. CASE n \in S /\ m \in S
    BY <1>9, <1>15, <2>1
  <2>2. CASE n \notin S /\ m \notin S
    BY <1>15, <2>2 DEF RegistryIInv
  <2>3. n \in S <=> m \in S
    BY <1>2, <1>15
  <2> QED
    BY <2>1, <2>2, <2>3
<1>20. ASSUME NEW p \in RegProcs
       PROVE  RegPoints(regProcs[p])'
  <2>1. PICK c : c = regProcs[p]
    OBVIOUS
  <2>2. RegPoints(c) /\ regProcs'[p] = c
    BY <1>12, <2>1 DEF RegistryIInv
  <2>3. c.pc \in {"check", "write"} =>
           /\ c.h \in 1..len /\ c.h \in 1..Len(regRecords')
           /\ \A n \in RegNames : regHealth'[n] = c.h => regHealth[n] = c.h /\ n \notin S
    BY <1>1, <1>2, <1>14, <1>15, <2>2 DEF RegPoints
  <2>4. c.pc \in {"check", "write"} => c.name \in RegNames
    BY <2>2 DEF RegPoints
  <2>5. c.pc = "write" /\ regHealth'[c.name] = c.h => c.status = StatusOf(c.name)'
    BY <1>17, <2>2, <2>3, <2>4 DEF RegPoints
  <2> QED
    BY <2>2, <2>3, <2>5 DEF RegPoints
<1> QED
  BY <1>16, <1>18, <1>19, <1>20 DEF RegistryIInv

(* A record that a check makes is of its name.                              *)
LEMMA RegCreateKept ==
  ASSUME RegistryIInv, NEW p \in RegProcs, HealthCheckCreates(p)
  PROVE  RegistryIInv'
<1>1. PICK len, name, todo, status :
        /\ len = Len(regRecords) /\ name = regProcs[p].name /\ todo = regProcs[p].todo
        /\ status = regProcs[p].status
  OBVIOUS
<1>2. /\ len \in Nat /\ name \in RegNames /\ todo \subseteq RegNames /\ status \in RegStatuses
      /\ regRecords \in Seq(RegRecs) /\ regProcs[p] \in RegCallSet
  BY <1>1 DEF RegistryIInv, RegShape, RegCallSet, RegPoints, HealthCheckCreates
<1>3. PICK c : c = [regProcs[p] EXCEPT !.pc = "check", !.h = len + 1]
  OBVIOUS
<1>4. c \in RegCallSet /\ c.pc = "check" /\ c.h = len + 1 /\ c.name = name
  <2>1. PICK d, h : d = regProcs[p] /\ h = len + 1
    OBVIOUS
  <2>2. d \in RegCallSet /\ h \in Nat /\ d.name = name
    BY <1>1, <1>2, <2>1
  <2>3. PICK e : e = [d EXCEPT !.pc = "check"]
    OBVIOUS
  <2>4. e \in RegCallSet /\ e.pc = "check" /\ e.name = name
    BY <2>2, <2>3 DEF RegCallSet
  <2>5. c = [e EXCEPT !.h = h]
    BY <1>3, <2>1, <2>3
  <2> QED
    BY <2>1, <2>2, <2>4, <2>5 DEF RegCallSet
<1>5. /\ regRecords' = Append(regRecords, NewRecord)
      /\ regHealth' = [regHealth EXCEPT ![name] = len + 1]
      /\ regProcs' = [regProcs EXCEPT ![p] = c] /\ regConfigs' = regConfigs
  BY <1>1, <1>3 DEF HealthCheckCreates, RegistryIInv, RegShape
<1>6. /\ regRecords' \in Seq(RegRecs) /\ Len(regRecords') = len + 1
      /\ regRecords'[len + 1] = NewRecord /\ \A i \in 1..len : regRecords'[i] = regRecords[i]
  <2>1. NewRecord \in RegRecs
    BY DEF NewRecord, RegRecs, RegStatuses
  <2> QED
    BY <1>1, <1>2, <1>5, <2>1, AppendProperties
<1>7. /\ regHealth'[name] = len + 1 /\ regHealth' \in [RegNames -> 0..(len + 1)]
      /\ \A n \in RegNames \ {name} : regHealth'[n] = regHealth[n]
      /\ \A n \in RegNames : regHealth[n] \in 0..len
  BY <1>1, <1>2, <1>5 DEF RegistryIInv, RegShape
<1>8. /\ regProcs' \in [RegProcs -> RegCallSet] /\ regProcs'[p] = c
      /\ \A q \in RegProcs \ {p} : regProcs'[q] = regProcs[q]
  BY <1>4, <1>5 DEF RegistryIInv, RegShape
<1>9. \A n : StatusOf(n)' = StatusOf(n)
  BY <1>5 DEF StatusOf
<1>10. HealthOfPresentConfig'
  <2> SUFFICES ASSUME NEW n \in RegNames, regHealth'[n] # 0
               PROVE  regRecords'[regHealth'[n]].status \in {"unknown", StatusOf(n)'}
    BY DEF HealthOfPresentConfig
  <2>1. CASE n = name
    BY <1>6, <1>7, <2>1 DEF NewRecord
  <2>2. CASE n # name
    <3>1. regHealth'[n] = regHealth[n] /\ regHealth[n] \in 1..len
      BY <1>2, <1>7, <2>2
    <3>2. regRecords'[regHealth'[n]] = regRecords[regHealth[n]]
      BY <1>6, <3>1
    <3>3. regRecords[regHealth[n]].status \in {"unknown", StatusOf(n)}
      BY <3>1 DEF RegistryIInv, HealthOfPresentConfig
    <3> QED
      BY <1>9, <3>2, <3>3
  <2> QED
    BY <2>1, <2>2
<1>11. \A n, m \in RegNames : regHealth'[n] # 0 /\ regHealth'[n] = regHealth'[m] => n = m
  <2> SUFFICES ASSUME NEW n \in RegNames, NEW m \in RegNames,
                      regHealth'[n] # 0, regHealth'[n] = regHealth'[m], n # m
               PROVE  FALSE
    OBVIOUS
  <2>1. CASE n = name \/ m = name
    BY <1>2, <1>7, <2>1
  <2>2. CASE n # name /\ m # name
    BY <1>7, <2>2 DEF RegistryIInv
  <2> QED
    BY <2>1, <2>2
<1>12. ASSUME NEW q \in RegProcs
       PROVE  RegPoints(regProcs[q])'
  <2>1. CASE q = p
    <3>1. \A n \in RegNames : regHealth'[n] = len + 1 => n = name
      BY <1>2, <1>7
    <3>2. len + 1 \in 1..Len(regRecords')
      BY <1>2, <1>6
    <3>3. regProcs'[q] = c
      BY <1>8, <2>1
    <3> QED
      BY <1>2, <1>4, <3>1, <3>2, <3>3 DEF RegPoints
  <2>2. CASE q # p
    <3>1. PICK d : d = regProcs[q]
      OBVIOUS
    <3>2. RegPoints(d) /\ regProcs'[q] = d
      BY <1>8, <2>2, <3>1 DEF RegistryIInv
    <3>3. d.pc \in {"check", "write"} =>
             /\ d.h \in 1..len /\ d.h \in 1..Len(regRecords') /\ d.name \in RegNames
             /\ \A n \in RegNames : regHealth'[n] = d.h => regHealth[n] = d.h
      BY <1>1, <1>2, <1>6, <1>7, <3>2 DEF RegPoints
    <3> QED
      BY <1>9, <3>2, <3>3 DEF RegPoints
  <2> QED
    BY <2>1, <2>2
<1>13. RegShape'
  BY <1>5, <1>6, <1>7, <1>8 DEF RegistryIInv, RegShape
<1> QED
  BY <1>10, <1>11, <1>12, <1>13 DEF RegistryIInv

(* A status is written to the record that the check found, which may no     *)
(* longer be the one that counts.                                           *)
LEMMA RegWriteKept ==
  ASSUME RegistryIInv, NEW p \in RegProcs, HealthCheckWrites(p)
  PROVE  RegistryIInv'
<1>1. PICK len, c : len = Len(regRecords) /\ c = regProcs[p]
  OBVIOUS
<1>2. PICK checks : checks = regRecords[c.h].checks + 1
  OBVIOUS
<1>3. PICK d : d = [c EXCEPT !.pc = "idle"]
  OBVIOUS
<1>4. PICK record : record = [status |-> c.status, checks |-> checks]
  OBVIOUS
<1>5. /\ c \in RegCallSet /\ c.pc = "write" /\ RegPoints(c) /\ regRecords \in Seq(RegRecs)
      /\ len \in Nat
  BY <1>1 DEF HealthCheckWrites, RegistryIInv, RegShape
<1>6. c.h \in 1..len /\ c.name \in RegNames /\ c.status \in RegStatuses
  BY <1>1, <1>5 DEF RegPoints, RegCallSet
<1>7. regRecords[c.h] \in RegRecs
  BY <1>1, <1>5, <1>6
<1>8. record \in RegRecs /\ record.status = c.status
  BY <1>2, <1>4, <1>6, <1>7 DEF RegRecs
<1>9. /\ regRecords' = [regRecords EXCEPT ![c.h] = record]
      /\ regProcs' = [regProcs EXCEPT ![p] = d] /\ UNCHANGED <<regConfigs, regHealth>>
  BY <1>1, <1>2, <1>3, <1>4 DEF HealthCheckWrites, RegistryIInv, RegShape
<1>10. /\ regRecords' \in Seq(RegRecs) /\ Len(regRecords') = len /\ regRecords'[c.h] = record
       /\ \A i \in 1..len : i # c.h => regRecords'[i] = regRecords[i]
  BY <1>1, <1>5, <1>6, <1>8, <1>9
<1>11. d \in RegCallSet /\ d.pc = "idle"
  BY <1>3, <1>5 DEF RegCallSet
<1>12. /\ regProcs' \in [RegProcs -> RegCallSet] /\ regProcs'[p] = d
       /\ \A q \in RegProcs \ {p} : regProcs'[q] = regProcs[q]
  BY <1>9, <1>11 DEF RegistryIInv, RegShape
<1>13. \A n : StatusOf(n)' = StatusOf(n)
  BY <1>9 DEF StatusOf
<1>14. HealthOfPresentConfig'
  <2> SUFFICES ASSUME NEW n \in RegNames, regHealth'[n] # 0
               PROVE  regRecords'[regHealth'[n]].status \in {"unknown", StatusOf(n)'}
    BY DEF HealthOfPresentConfig
  <2>1. regHealth'[n] = regHealth[n] /\ regHealth[n] \in 1..len
    BY <1>1, <1>5, <1>9 DEF RegistryIInv, RegShape
  <2>2. CASE regHealth[n] = c.h
    <3>1. n = c.name
      BY <1>5, <2>2 DEF RegPoints
    <3>2. c.status = StatusOf(n)
      BY <1>5, <2>2, <3>1 DEF RegPoints
    <3> QED
      BY <1>8, <1>10, <1>13, <2>1, <2>2, <3>2
  <2>3. CASE regHealth[n] # c.h
    <3>1. regRecords'[regHealth'[n]] = regRecords[regHealth[n]]
      BY <1>10, <2>1, <2>3
    <3>2. regRecords[regHealth[n]].status \in {"unknown", StatusOf(n)}
      BY <2>1 DEF RegistryIInv, HealthOfPresentConfig
    <3> QED
      BY <1>13, <3>1, <3>2
  <2> QED
    BY <2>2, <2>3
<1>15. ASSUME NEW q \in RegProcs
       PROVE  RegPoints(regProcs[q])'
  <2>1. CASE q = p
    <3>1. regProcs'[q] = d
      BY <1>12, <2>1
    <3> QED
      BY <1>11, <3>1 DEF RegPoints
  <2>2. CASE q # p
    <3>1. RegPoints(regProcs[q]) /\ regProcs'[q] = regProcs[q]
      BY <1>12, <2>2 DEF RegistryIInv
    <3> QED
      BY <1>1, <1>9, <1>10, <1>13, <3>1 DEF RegPoints
  <2> QED
    BY <2>1, <2>2
<1>16. RegShape'
  BY <1>1, <1>9, <1>10, <1>12 DEF RegistryIInv, RegShape
<1> QED
  BY <1>9, <1>14, <1>15, <1>16 DEF RegistryIInv

(* A check that crosses a reload never shows the status of the old          *)
(* configuration as that of the new one (LoadFromConfig and HealthCheck of  *)
(* the registry), for any number of connectors, goroutines and reloads.     *)
THEOREM HealthIsPresent == RegistrySpec => []RegistryTypeOK
<1>1. RegistryInit => RegistryIInv
  <2> SUFFICES ASSUME RegistryInit
               PROVE  RegistryIInv
    OBVIOUS
  <2>1. RegIdle \in RegCallSet /\ RegIdle.pc = "idle"
    BY DEF RegIdle, RegCallSet, RegStatuses
  <2>2. /\ regConfigs = <<>> /\ regHealth = [n \in RegNames |-> 0] /\ regRecords = <<>>
        /\ regProcs = [p \in RegProcs |-> RegIdle]
    BY DEF RegistryInit
  <2>3. regRecords \in Seq(RegRecs) /\ Len(regRecords) = 0
    BY <2>2, EmptySeq
  <2>4. RegShape
    BY <2>1, <2>2, <2>3 DEF RegShape
  <2> QED
    BY <2>1, <2>2, <2>4 DEF RegistryIInv, HealthOfPresentConfig, RegPoints
<1>2. RegistryIInv /\ [RegistryNext]_regVars => RegistryIInv'
  <2> SUFFICES ASSUME RegistryIInv, [RegistryNext]_regVars
               PROVE  RegistryIInv'
    OBVIOUS
  <2>1. ASSUME NEW S \in SUBSET RegNames, NEW loaded \in [S -> BOOLEAN], LoadFromConfig(loaded)
        PROVE  RegistryIInv'
    BY <2>1, RegLoadKept
  <2>2. ASSUME NEW p \in RegProcs,
               (\E n \in RegNames : HealthCheck(p, n)) \/ HealthCheckAll(p)
        PROVE  RegistryIInv'
    <3>1. PICK todo : /\ todo \subseteq RegNames
                      /\ regProcs' = [regProcs EXCEPT ![p].todo = todo]
                      /\ regProcs[p].pc = "idle" /\ UNCHANGED <<regConfigs, regHealth, regRecords>>
      <4>1. DOMAIN regConfigs \union RegStatic \subseteq RegNames
        BY RegistryAssumption DEF RegistryIInv, RegShape
      <4>2. CASE HealthCheckAll(p)
        BY <4>1, <4>2 DEF HealthCheckAll
      <4>3. ASSUME NEW n \in RegNames, HealthCheck(p, n)
            PROVE  /\ {n} \subseteq RegNames /\ regProcs' = [regProcs EXCEPT ![p].todo = {n}]
                   /\ regProcs[p].pc = "idle" /\ UNCHANGED <<regConfigs, regHealth, regRecords>>
        BY <4>3 DEF HealthCheck
      <4> QED
        BY <2>2, <4>2, <4>3
    <3>2. PICK c : c = [regProcs[p] EXCEPT !.todo = todo]
      OBVIOUS
    <3>3. regProcs[p] \in RegCallSet
      BY DEF RegistryIInv, RegShape
    <3>4. c \in RegCallSet /\ c.pc = "idle"
      BY <3>1, <3>2, <3>3 DEF RegCallSet
    <3>5. regProcs' = [regProcs EXCEPT ![p] = c]
      BY <3>1, <3>2 DEF RegistryIInv, RegShape
    <3>6. RegPoints(c)
      BY <3>4 DEF RegPoints
    <3> QED
      BY <3>1, <3>4, <3>5, <3>6, RegCallKept
  <2>3. ASSUME NEW p \in RegProcs, HealthCheckFinds(p)
        PROVE  RegistryIInv'
    <3>1. PICK n \in regProcs[p].todo :
            regProcs' = [regProcs EXCEPT ![p] =
             [regProcs[p] EXCEPT !.todo = @ \ {n}, !.name = n, !.h = regHealth[n],
                                 !.pc = IF regHealth[n] # 0 THEN "check"
                                        ELSE IF n \in RegStatic THEN "create" ELSE "idle"]]
      BY <2>3 DEF HealthCheckFinds
    <3>2. PICK todo, h, pc : /\ todo = regProcs[p].todo \ {n} /\ h = regHealth[n]
                             /\ pc = IF regHealth[n] # 0 THEN "check"
                                     ELSE IF n \in RegStatic THEN "create" ELSE "idle"
      OBVIOUS
    <3>3. PICK c : c = [regProcs[p] EXCEPT !.todo = todo, !.name = n, !.h = h, !.pc = pc]
      OBVIOUS
    <3>4. regProcs' = [regProcs EXCEPT ![p] = c]
      <4>1. c = [regProcs[p] EXCEPT !.todo = @ \ {n}, !.name = n, !.h = regHealth[n],
                       !.pc = IF regHealth[n] # 0 THEN "check"
                              ELSE IF n \in RegStatic THEN "create" ELSE "idle"]
        BY <3>2, <3>3
      <4> QED
        BY <3>1, <4>1
    <3>5. /\ regProcs[p] \in RegCallSet /\ n \in RegNames /\ todo \subseteq RegNames
          /\ h \in 0..Len(regRecords) /\ Len(regRecords) \in Nat
          /\ pc \in {"idle", "create", "check"} /\ (pc = "check" <=> h # 0)
      BY <3>2 DEF RegistryIInv, RegShape, RegCallSet
    <3>6. c \in RegCallSet /\ c.pc = pc /\ c.name = n /\ c.h = h
      <4>1. PICK d : d = regProcs[p]
        OBVIOUS
      <4>2. PICK e : e = [d EXCEPT !.todo = todo, !.name = n]
        OBVIOUS
      <4>3. d \in RegCallSet /\ h \in Nat
        BY <3>5, <4>1
      <4>4. e \in RegCallSet /\ e.name = n
        BY <3>5, <4>2, <4>3 DEF RegCallSet
      <4>5. c = [e EXCEPT !.h = h, !.pc = pc]
        BY <3>3, <4>1, <4>2
      <4> QED
        BY <3>5, <4>3, <4>4, <4>5 DEF RegCallSet
    <3>7. RegPoints(c)
      <4>1. pc = "check" => h \in 1..Len(regRecords)
        BY <3>5
      <4>2. pc = "check" => \A m \in RegNames : regHealth[m] = h => m = n
        BY <3>2, <3>5 DEF RegistryIInv
      <4> QED
        BY <3>5, <3>6, <4>1, <4>2 DEF RegPoints
    <3>8. UNCHANGED <<regConfigs, regHealth, regRecords>>
      BY <2>3 DEF HealthCheckFinds
    <3> QED
      BY <3>4, <3>6, <3>7, <3>8, RegCallKept
  <2>4. ASSUME NEW p \in RegProcs, HealthCheckReads(p)
        PROVE  RegistryIInv'
    <3>1. PICK status : status = StatusOf(regProcs[p].name)
      OBVIOUS
    <3>2. status \in RegStatuses
      BY <3>1 DEF StatusOf, RegStatuses
    <3>3. PICK c : c = [regProcs[p] EXCEPT !.pc = "write", !.status = status]
      OBVIOUS
    <3>4. regProcs[p] \in RegCallSet /\ regProcs[p].pc = "check" /\ RegPoints(regProcs[p])
      BY <2>4 DEF HealthCheckReads, RegistryIInv, RegShape
    <3>5. /\ c \in RegCallSet /\ c.pc = "write" /\ c.status = status
          /\ c.name = regProcs[p].name /\ c.h = regProcs[p].h
      BY <3>2, <3>3, <3>4 DEF RegCallSet
    <3>6. RegPoints(c)
      BY <3>1, <3>4, <3>5 DEF RegPoints
    <3>7. regProcs' = [regProcs EXCEPT ![p] = c] /\ UNCHANGED <<regConfigs, regHealth, regRecords>>
      BY <2>4, <3>1, <3>3 DEF HealthCheckReads, RegistryIInv, RegShape
    <3> QED
      BY <3>5, <3>6, <3>7, RegCallKept
  <2>5. ASSUME NEW p \in RegProcs, HealthCheckCreates(p) \/ HealthCheckWrites(p)
        PROVE  RegistryIInv'
    BY <2>5, RegCreateKept, RegWriteKept
  <2>6. CASE UNCHANGED regVars
    BY <2>6 DEF regVars, RegistryIInv, RegShape, HealthOfPresentConfig, RegPoints, StatusOf
  <2> QED
    BY <2>1, <2>2, <2>3, <2>4, <2>5, <2>6 DEF RegistryNext
<1>3. RegistryIInv => RegistryTypeOK
  BY DEF RegistryIInv, RegShape, RegistryTypeOK, RegCallSet
<1> QED
  BY <1>1, <1>2, <1>3, PTL DEF RegistrySpec

-----------------------------------------------------------------------------
(* The catalog.                                                             *)

(* A row, and the part of it that no statement changes.                     *)
IsRow(r) == r = Row(r.tbl, r.refs, r.key, r.a, r.b, r.status)
SameRefs(r, s) == r.tbl = s.tbl /\ r.refs = s.refs /\ r.key = s.key

VersionRow(r, s, n) == r.tbl = "versions" /\ r.refs = {s} /\ r.key = <<s, n>>

(* Rows refer to rows that are there, versions to one stream whose versions *)
(* they number without a gap.                                               *)
CatRowsWhole ==
    /\ catNext \in Nat \ {0} /\ DOMAIN catRows \subseteq 1..(catNext - 1)
    /\ \A i \in DOMAIN catRows :
          /\ IsRow(catRows[i]) /\ catRows[i].refs \subseteq DOMAIN catRows
          /\ catRows[i].tbl = "versions" =>
                \E s \in DOMAIN catRows, n \in Nat : VersionRow(catRows[i], s, n)
    /\ \A s \in DOMAIN catRows :
          {catRows[i].key[2] : i \in Versions(s)} = 1..Cardinality(Versions(s))

(* What a request has yet to write: a row as it was read, but for what      *)
(* changes, or a number that was free or is taken by now.                   *)
CatPending(c) ==
    /\ c.pc \in {"idle", "update", "version"}
    /\ c.pc = "update" =>
          /\ IsRow(c.row) /\ c.id \in 1..(catNext - 1)
          /\ c.id \in DOMAIN catRows => SameRefs(c.row, catRows[c.id])
    /\ c.pc = "version" =>
          /\ IsRow(c.row) /\ c.id \in 1..(catNext - 1)
          /\ \E n \in Nat \ {0} :
                /\ VersionRow(c.row, c.id, n)
                /\ c.id \in DOMAIN catRows => n <= Cardinality(Versions(c.id)) + 1

CatalogIInv ==
    /\ CatRowsWhole /\ catWrites \in 0..CatMaxWrites
    /\ catCalls = [p \in CatProcs |-> catCalls[p]] /\ \A p \in CatProcs : CatPending(catCalls[p])

LEMMA RowIs ==
  ASSUME NEW tbl, NEW refs, NEW key, NEW a, NEW b, NEW status
  PROVE  LET r == Row(tbl, refs, key, a, b, status) IN
         /\ IsRow(r) /\ r.tbl = tbl /\ r.refs = refs /\ r.key = key
         /\ r.a = a /\ r.b = b /\ r.status = status
  BY DEF Row, IsRow

(* A row of which two columns, or the status, are changed.                  *)
LEMMA RowChanged ==
  ASSUME NEW r, IsRow(r), NEW a, NEW b, NEW status
  PROVE  /\ IsRow([r EXCEPT !.a = a, !.b = b]) /\ SameRefs([r EXCEPT !.a = a, !.b = b], r)
         /\ IsRow([r EXCEPT !.status = status]) /\ SameRefs([r EXCEPT !.status = status], r)
<1>1. r = [tbl |-> r.tbl, refs |-> r.refs, key |-> r.key, a |-> r.a, b |-> r.b,
           status |-> r.status]
  BY DEF IsRow, Row
<1>2. PICK x, y, z, u, v, w :
        /\ r = [tbl |-> x, refs |-> y, key |-> z, a |-> u, b |-> v, status |-> w]
        /\ x = r.tbl /\ y = r.refs /\ z = r.key
  BY <1>1
<1>3. DOMAIN r = {"tbl", "refs", "key", "a", "b", "status"}
  BY <1>2
<1>4. PICK r1 : r1 = [r EXCEPT !.a = a]
  OBVIOUS
<1>5. r1 = [tbl |-> x, refs |-> y, key |-> z, a |-> a, b |-> v, status |-> w]
  BY <1>2, <1>3, <1>4
<1>6. [r EXCEPT !.a = a, !.b = b] = [r1 EXCEPT !.b = b]
  BY <1>4
<1>7. [r1 EXCEPT !.b = b] = Row(x, y, z, a, b, w)
  BY <1>5 DEF Row
<1>8. [r EXCEPT !.status = status] = Row(x, y, z, u, v, status)
  BY <1>2, <1>3 DEF Row
<1> QED
  BY <1>2, <1>6, <1>7, <1>8, RowIs DEF SameRefs

(* What UPDATE is going to write after a row was read.                      *)
CatReads(p) ==
    /\ catCalls[p].pc = "idle" /\ UNCHANGED <<catRows, catNext, catWrites>>
    /\ \E i \in DOMAIN catRows : \E new :
          /\ IsRow(new) /\ SameRefs(new, catRows[i])
          /\ catCalls' = [catCalls EXCEPT ![p] = [pc |-> "update", id |-> i, row |-> new]]

(* A handler that changes a row keeps what identifies it.                   *)
LEMMA ChangesRead ==
  ASSUME CatalogIInv, NEW p \in CatProcs, NEW a, NEW b,
         \/ UpdateConnection(p, a, b) \/ UpdateSync(p, a, b) \/ UpdateTenant(p, a, b)
         \/ UpdateMapping(p, a, b) \/ UpdateMCPServer(p, a, b)
         \/ MutationUpdateConnection(p, a, b) \/ MutationUpdateSync(p, a, b)
         \/ MutationUpdateTenant(p, a, b) \/ MutationUpdateFieldMapping(p, a, b)
         \/ MutationUpdateMCPServer(p, a, b)
  PROVE  CatReads(p)
<1>1. PICK tbl : \E i \in Of(tbl) : \E u, v :
        /\ catCalls[p].pc = "idle" /\ UNCHANGED <<catRows, catNext, catWrites>>
        /\ catCalls' = [catCalls EXCEPT ![p] = [pc |-> "update", id |-> i,
                           row |-> [catRows[i] EXCEPT !.a = u, !.b = v]]]
  BY DEF UpdateConnection, UpdateSync, UpdateTenant, UpdateMapping, UpdateMCPServer,
         MutationUpdateConnection, MutationUpdateSync, MutationUpdateTenant,
         MutationUpdateFieldMapping, MutationUpdateMCPServer, GetToChange
<1>2. PICK i \in Of(tbl) : \E u, v :
        catCalls' = [catCalls EXCEPT ![p] = [pc |-> "update", id |-> i,
                       row |-> [catRows[i] EXCEPT !.a = u, !.b = v]]]
  BY <1>1
<1>3. PICK u, v :
        catCalls' = [catCalls EXCEPT ![p] = [pc |-> "update", id |-> i,
                       row |-> [catRows[i] EXCEPT !.a = u, !.b = v]]]
  BY <1>2
<1>4. i \in DOMAIN catRows /\ IsRow(catRows[i])
  BY DEF Of, CatalogIInv, CatRowsWhole
<1>5. PICK new : new = [catRows[i] EXCEPT !.a = u, !.b = v]
  OBVIOUS
<1>6. IsRow(new) /\ SameRefs(new, catRows[i])
  BY <1>4, <1>5, RowChanged
<1> QED
  BY <1>1, <1>3, <1>4, <1>5, <1>6 DEF CatReads

(* What a statement does to the rows that were there: it deletes them, or   *)
(* keeps what identifies them, and no version of a stream that stays goes.  *)
CatKept ==
    /\ catNext' \in Nat \ {0} /\ catNext <= catNext'
    /\ \A i \in DOMAIN catRows' : i < catNext =>
          /\ i \in DOMAIN catRows /\ SameRefs(catRows'[i], catRows[i])
          /\ Cardinality(Versions(i)) <= Cardinality(Versions(i)')
          /\ Cardinality(Versions(i)') \in Nat

CatWrote == CatRowsWhole' /\ CatKept /\ catWrites' \in 0..CatMaxWrites

LEMMA VersionsFinite ==
  ASSUME CatRowsWhole, NEW s
  PROVE  IsFiniteSet(Versions(s)) /\ Cardinality(Versions(s)) \in Nat
<1>1. catNext \in Nat /\ Versions(s) \subseteq 1..(catNext - 1)
  BY DEF CatRowsWhole, Versions, Of
<1>2. IsFiniteSet(1..(catNext - 1))
  BY <1>1, FS_Interval
<1>3. IsFiniteSet(Versions(s))
  BY <1>1, <1>2, FS_Subset
<1> QED
  BY <1>3, FS_CardinalityType

(* A statement that leaves the rows what they refer to.                     *)
LEMMA CatSame ==
  ASSUME CatRowsWhole, DOMAIN catRows' = DOMAIN catRows, catNext' = catNext,
         \A i \in DOMAIN catRows : IsRow(catRows'[i]) /\ SameRefs(catRows'[i], catRows[i]),
         catWrites' \in 0..CatMaxWrites
  PROVE  CatWrote
<1>1. Of("versions")' = Of("versions")
  BY DEF Of, SameRefs
<1>2. \A s : Versions(s)' = Versions(s)
  <2> TAKE s
  <2>1. \A i \in Of("versions") : catRows'[i].refs = catRows[i].refs
    BY DEF Of, SameRefs
  <2> QED
    BY <1>1, <2>1 DEF Versions
<1>3. \A s : {catRows'[i].key[2] : i \in Versions(s)'} = {catRows[i].key[2] : i \in Versions(s)}
  <2> TAKE s
  <2>1. \A i \in Versions(s) : catRows'[i].key = catRows[i].key
    BY DEF Versions, Of, SameRefs
  <2> QED
    BY <1>2, <2>1
<1>4. ASSUME NEW i \in DOMAIN catRows
      PROVE  /\ IsRow(catRows'[i]) /\ catRows'[i].refs \subseteq DOMAIN catRows
             /\ catRows'[i].tbl = "versions" =>
                   \E s \in DOMAIN catRows, n \in Nat : VersionRow(catRows'[i], s, n)
  BY DEF CatRowsWhole, SameRefs, VersionRow
<1>5. CatRowsWhole'
  BY <1>2, <1>3, <1>4 DEF CatRowsWhole
<1>6. CatKept
  <2>1. \A s : /\ Cardinality(Versions(s)) <= Cardinality(Versions(s)')
              /\ Cardinality(Versions(s)') \in Nat
    BY <1>2, VersionsFinite
  <2>2. catNext' \in Nat \ {0} /\ catNext <= catNext'
    BY DEF CatRowsWhole
  <2> QED
    BY <2>1, <2>2 DEF CatKept
<1> QED
  BY <1>5, <1>6 DEF CatWrote

(* A version that is inserted has the number after the ones that are there, *)
(* because an insertion of one of these is refused.                         *)
LEMMA InsertWrites ==
  ASSUME CatRowsWhole, catWrites \in 0..CatMaxWrites, NEW row, IsRow(row), Insert(row),
         row.tbl = "versions" =>
            \E s \in DOMAIN catRows, n \in Nat \ {0} :
               VersionRow(row, s, n) /\ n <= Cardinality(Versions(s)) + 1
  PROVE  CatWrote
<1>1. /\ catRows' = [i \in DOMAIN catRows \union {catNext} |->
                        IF i = catNext THEN row ELSE catRows[i]]
      /\ catNext' = catNext + 1 /\ row.refs \subseteq DOMAIN catRows /\ ~KeyTaken(row.key)
  BY DEF Insert, CanInsert
<1>2. catWrites' \in 0..CatMaxWrites
  BY CatalogAssumption DEF Insert, Writes
<1>3. catNext \in Nat /\ DOMAIN catRows \subseteq 1..(catNext - 1) /\ catNext \notin DOMAIN catRows
  <2>1. catNext \in Nat /\ DOMAIN catRows \subseteq 1..(catNext - 1)
    BY DEF CatRowsWhole
  <2>2. catNext \notin 1..(catNext - 1)
    BY <2>1
  <2> QED
    BY <2>1, <2>2
<1>4. /\ DOMAIN catRows' = DOMAIN catRows \union {catNext} /\ catRows'[catNext] = row
      /\ \A i \in DOMAIN catRows : catRows'[i] = catRows[i]
  <2> HIDE DEF Insert
  <2> QED
    BY <1>1, <1>3
<1>5. DOMAIN catRows' \subseteq 1..(catNext' - 1) /\ catNext' \in Nat \ {0} /\ catNext <= catNext'
  <2>1. 1..(catNext - 1) \subseteq 1..catNext /\ catNext' - 1 = catNext
    BY <1>1, <1>3
  <2>2. catNext \in 1..catNext
    <3>1. catNext # 0
      BY DEF CatRowsWhole
    <3> QED
      BY <1>3, <3>1
  <2> QED
    BY <1>1, <1>3, <1>4, <2>1, <2>2
<1>6. \A i \in DOMAIN catRows : catRows[i].refs \subseteq DOMAIN catRows
  BY DEF CatRowsWhole
<1>7. ASSUME NEW i \in DOMAIN catRows'
      PROVE  /\ IsRow(catRows'[i]) /\ catRows'[i].refs \subseteq DOMAIN catRows'
             /\ catRows'[i].tbl = "versions" =>
                   \E s \in DOMAIN catRows', n \in Nat : VersionRow(catRows'[i], s, n)
  <2>1. CASE i = catNext
    BY <1>1, <1>4, <2>1
  <2>2. CASE i # catNext
    <3>1. i \in DOMAIN catRows /\ catRows'[i] = catRows[i]
      BY <1>4, <2>2
    <3>2. /\ IsRow(catRows[i]) /\ catRows[i].refs \subseteq DOMAIN catRows
          /\ catRows[i].tbl = "versions" =>
                \E s \in DOMAIN catRows, n \in Nat : VersionRow(catRows[i], s, n)
      BY <3>1 DEF CatRowsWhole
    <3> QED
      BY <1>4, <3>1, <3>2
  <2> QED
    BY <2>1, <2>2
<1>8. \A s : Versions(s)' = Versions(s) \union
                (IF row.tbl = "versions" /\ s \in row.refs THEN {catNext} ELSE {})
  <2> TAKE s
  <2>1. Versions(s)' = {i \in DOMAIN catRows' : catRows'[i].tbl = "versions" /\ s \in catRows'[i].refs}
    BY DEF Versions, Of
  <2>2. Versions(s) = {i \in DOMAIN catRows : catRows[i].tbl = "versions" /\ s \in catRows[i].refs}
    BY DEF Versions, Of
  <2> QED
    BY <1>3, <1>4, <2>1, <2>2
<1>9. \A s : Versions(s) \subseteq DOMAIN catRows
  BY DEF Versions, Of
<1>10. ASSUME NEW s \in DOMAIN catRows'
       PROVE  /\ {catRows'[i].key[2] : i \in Versions(s)'} = 1..Cardinality(Versions(s)')
              /\ s \in DOMAIN catRows => Cardinality(Versions(s)) <= Cardinality(Versions(s)')
              /\ Cardinality(Versions(s)') \in Nat
  <2>1. PICK k, keys : k = Cardinality(Versions(s)) /\ keys = {catRows[i].key[2] : i \in Versions(s)}
    OBVIOUS
  <2>2. IsFiniteSet(Versions(s)) /\ k \in Nat
    BY <2>1, VersionsFinite
  <2>3. {catRows'[i].key[2] : i \in Versions(s)} = keys
    BY <1>4, <1>9, <2>1
  <2>4. CASE s = catNext
    <3>1. Versions(s)' = {} /\ Versions(s) = {}
      <4>1. s \notin row.refs
        BY <1>1, <1>3, <2>4
      <4>2. Versions(s) = {}
        BY <1>3, <1>6, <2>4 DEF Versions, Of
      <4> QED
        BY <1>8, <4>1, <4>2
    <3>2. Cardinality(Versions(s)') = 0
      BY <3>1, FS_EmptySet
    <3> QED
      BY <1>3, <2>4, <3>1, <3>2
  <2>5. CASE s # catNext /\ ~(row.tbl = "versions" /\ s \in row.refs)
    <3>1. Versions(s)' = Versions(s) /\ s \in DOMAIN catRows
      BY <1>4, <1>8, <2>5
    <3>2. keys = 1..k
      BY <2>1, <3>1 DEF CatRowsWhole
    <3> QED
      BY <2>1, <2>2, <2>3, <3>1, <3>2
  <2>6. CASE s # catNext /\ row.tbl = "versions" /\ s \in row.refs
    <3>1. PICK n \in Nat \ {0} : VersionRow(row, s, n) /\ n <= k + 1
      BY <2>1, <2>6 DEF VersionRow
    <3>2. Versions(s)' = Versions(s) \union {catNext} /\ s \in DOMAIN catRows
      BY <1>4, <1>8, <2>6
    <3>3. keys = 1..k
      BY <2>1, <3>2 DEF CatRowsWhole
    <3>4. n \notin keys
      <4> SUFFICES ASSUME NEW i \in Versions(s), catRows[i].key[2] = n
                   PROVE  FALSE
        BY <2>1
      <4>1. i \in DOMAIN catRows /\ catRows[i].tbl = "versions" /\ s \in catRows[i].refs
        BY DEF Versions, Of
      <4>2. PICK t \in DOMAIN catRows, m \in Nat : VersionRow(catRows[i], t, m)
        BY <4>1 DEF CatRowsWhole
      <4>3. t = s /\ m = n
        BY <4>1, <4>2 DEF VersionRow
      <4>4. catRows[i].key = row.key /\ row.key = <<s, n>>
        BY <3>1, <4>2, <4>3 DEF VersionRow
      <4> QED
        BY <1>1, <4>1, <4>4 DEF KeyTaken, NoKey
    <3>5. n = k + 1
      BY <2>2, <3>1, <3>3, <3>4
    <3>6. Cardinality(Versions(s)') = k + 1
      BY <1>3, <1>9, <2>1, <2>2, <3>2, FS_AddElement
    <3>7. {catRows'[i].key[2] : i \in Versions(s)'} = keys \union {n}
      <4>1. catRows'[catNext].key[2] = n
        BY <1>4, <3>1 DEF VersionRow
      <4> QED
        BY <2>3, <3>2, <4>1
    <3>8. 1..k \union {k + 1} = 1..(k + 1)
      BY <2>2
    <3>9. {catRows'[i].key[2] : i \in Versions(s)'} = 1..(k + 1)
      BY <3>3, <3>5, <3>7, <3>8
    <3>10. k <= k + 1 /\ k + 1 \in Nat
      BY <2>2
    <3> QED
      BY <2>1, <3>6, <3>9, <3>10
  <2> QED
    BY <2>4, <2>5, <2>6
<1>11. CatRowsWhole'
  BY <1>5, <1>7, <1>10 DEF CatRowsWhole
<1>12. CatKept
  <2> SUFFICES ASSUME NEW i \in DOMAIN catRows', i < catNext
               PROVE  /\ i \in DOMAIN catRows /\ SameRefs(catRows'[i], catRows[i])
                      /\ Cardinality(Versions(i)) <= Cardinality(Versions(i)')
                      /\ Cardinality(Versions(i)') \in Nat
    BY <1>5 DEF CatKept
  <2>1. i # catNext
    BY <1>3
  <2> QED
    BY <1>4, <1>10, <2>1 DEF SameRefs
<1> QED
  BY <1>2, <1>11, <1>12 DEF CatWrote

(* An id that goes is the one that is deleted, or refers to one that goes.  *)
LEMMA CascadeIs ==
  ASSUME NEW i, NEW j \in Cascade(i), j # i
  PROVE  j \in DOMAIN catRows /\ catRows[j].refs \intersect Cascade(i) # {}
<1>1. PICK a, b, c : /\ a = WithChildren({i}) /\ b = WithChildren(a) /\ c = WithChildren(b)
                     /\ Cascade(i) = WithChildren(c)
  BY DEF Cascade
<1>2. \A ids : ids \subseteq WithChildren(ids)
  BY DEF WithChildren
<1>3. {i} \subseteq a /\ a \subseteq b /\ b \subseteq c /\ c \subseteq Cascade(i)
  BY <1>1, <1>2
<1>4. \A ids : \A k \in WithChildren(ids) \ ids :
         k \in DOMAIN catRows /\ catRows[k].refs \intersect ids # {}
  BY DEF WithChildren
<1>5. \/ j \in a \ {i} \/ j \in b \ a \/ j \in c \ b \/ j \in Cascade(i) \ c
  BY <1>3
<1>6. ASSUME NEW ids, ids \subseteq Cascade(i), j \in WithChildren(ids) \ ids
      PROVE  j \in DOMAIN catRows /\ catRows[j].refs \intersect Cascade(i) # {}
  BY <1>4, <1>6
<1>7. {i} \subseteq Cascade(i) /\ a \subseteq Cascade(i) /\ b \subseteq Cascade(i)
  BY <1>3
<1> QED
  BY <1>1, <1>3, <1>5, <1>6, <1>7

(* What remains refers to what remains, and the versions of a stream that   *)
(* remains are all there.                                                   *)
LEMMA DeleteWrites ==
  ASSUME CatRowsWhole, catWrites \in 0..CatMaxWrites, NEW i, Delete(i),
         catRows[i].tbl # "versions"
  PROVE  CatWrote
<1>1. PICK gone : gone = Cascade(i)
  OBVIOUS
<1>2. /\ \A c \in DOMAIN catRows : catRows[c].refs \intersect gone # {} => c \in gone
      /\ catRows' = [j \in DOMAIN catRows \ gone |-> catRows[j]] /\ catNext' = catNext
      /\ catWrites' \in 0..CatMaxWrites
  BY <1>1, CatalogAssumption DEF Delete, Writes
<1>3. /\ DOMAIN catRows' = DOMAIN catRows \ gone
      /\ \A j \in DOMAIN catRows \ gone : catRows'[j] = catRows[j]
  BY <1>2
<1>4. catNext \in Nat \ {0} /\ DOMAIN catRows \subseteq 1..(catNext - 1)
  BY DEF CatRowsWhole
<1>5. ASSUME NEW j \in DOMAIN catRows'
      PROVE  catRows'[j].refs \subseteq DOMAIN catRows'
  <2>1. j \in DOMAIN catRows /\ catRows[j].refs \intersect gone = {}
    BY <1>2, <1>3
  <2>2. catRows[j].refs \subseteq DOMAIN catRows
    BY <2>1 DEF CatRowsWhole
  <2> QED
    BY <1>3, <2>1, <2>2
<1>6. ASSUME NEW j \in DOMAIN catRows', catRows'[j].tbl = "versions"
      PROVE  \E s \in DOMAIN catRows', n \in Nat : VersionRow(catRows'[j], s, n)
  <2>1. PICK s \in DOMAIN catRows, n \in Nat : VersionRow(catRows[j], s, n)
    BY <1>3, <1>6 DEF CatRowsWhole
  <2>2. s \in catRows'[j].refs
    BY <1>3, <2>1 DEF VersionRow
  <2> QED
    BY <1>3, <1>5, <2>1, <2>2
<1>7. ASSUME NEW s \in DOMAIN catRows'
      PROVE  Versions(s)' = Versions(s)
  <2>1. ASSUME NEW j \in Versions(s)
        PROVE  j \notin gone
    <3>1. j \in DOMAIN catRows /\ catRows[j].tbl = "versions" /\ s \in catRows[j].refs
      BY DEF Versions, Of
    <3>2. PICK t \in DOMAIN catRows, n \in Nat : VersionRow(catRows[j], t, n)
      BY <3>1 DEF CatRowsWhole
    <3>3. catRows[j].refs = {s} /\ s \notin gone
      BY <1>3, <3>1, <3>2 DEF VersionRow
    <3>4. j # i
      BY <3>1
    <3> QED
      BY <1>1, <3>3, <3>4, CascadeIs
  <2>2. Versions(s)' = {j \in DOMAIN catRows' : catRows'[j].tbl = "versions" /\ s \in catRows'[j].refs}
    BY DEF Versions, Of
  <2>3. Versions(s) = {j \in DOMAIN catRows : catRows[j].tbl = "versions" /\ s \in catRows[j].refs}
    BY DEF Versions, Of
  <2> QED
    BY <1>3, <2>1, <2>2, <2>3
<1>8. ASSUME NEW s \in DOMAIN catRows'
      PROVE  /\ {catRows'[j].key[2] : j \in Versions(s)'} = 1..Cardinality(Versions(s)')
             /\ Cardinality(Versions(s)) <= Cardinality(Versions(s)')
             /\ Cardinality(Versions(s)') \in Nat
  <2>1. Versions(s)' = Versions(s) /\ Versions(s)' \subseteq DOMAIN catRows'
    BY <1>7 DEF Versions, Of
  <2>2. {catRows'[j].key[2] : j \in Versions(s)'} = {catRows[j].key[2] : j \in Versions(s)}
    BY <1>3, <2>1
  <2>3. {catRows[j].key[2] : j \in Versions(s)} = 1..Cardinality(Versions(s))
    BY <1>3 DEF CatRowsWhole
  <2>4. Cardinality(Versions(s)) \in Nat
    BY VersionsFinite
  <2> QED
    BY <2>1, <2>2, <2>3, <2>4
<1>9. \A j \in DOMAIN catRows' : IsRow(catRows'[j])
  BY <1>3 DEF CatRowsWhole
<1>10. CatRowsWhole'
  BY <1>2, <1>3, <1>4, <1>5, <1>6, <1>8, <1>9 DEF CatRowsWhole
<1>11. CatKept
  BY <1>2, <1>3, <1>4, <1>8 DEF CatKept, SameRefs
<1> QED
  BY <1>2, <1>10, <1>11 DEF CatWrote

(* What a request has yet to write stays as it was, or its row is gone.     *)
LEMMA PendingKept ==
  ASSUME CatRowsWhole, CatKept, NEW c, CatPending(c)
  PROVE  CatPending(c)'
<1>1. PICK id : id = c.id
  OBVIOUS
<1>2. catNext \in Nat \ {0} /\ catNext' \in Nat \ {0} /\ catNext <= catNext'
  BY DEF CatRowsWhole, CatKept
<1>3. c.pc # "idle" => id \in 1..(catNext' - 1) /\ id < catNext
  BY <1>1, <1>2 DEF CatPending
<1>4. c.pc # "idle" /\ id \in DOMAIN catRows' =>
         /\ id \in DOMAIN catRows /\ SameRefs(catRows'[id], catRows[id])
         /\ Cardinality(Versions(id)) <= Cardinality(Versions(id)')
         /\ Cardinality(Versions(id)') \in Nat
  BY <1>3 DEF CatKept
<1>5. CASE c.pc = "update"
  BY <1>1, <1>3, <1>4, <1>5 DEF CatPending, SameRefs
<1>6. CASE c.pc = "version"
  <2>1. PICK n \in Nat \ {0} :
           /\ VersionRow(c.row, id, n)
           /\ id \in DOMAIN catRows => n <= Cardinality(Versions(id)) + 1
    BY <1>1, <1>6 DEF CatPending
  <2>2. id \in DOMAIN catRows' => n <= Cardinality(Versions(id)') + 1
    <3> SUFFICES ASSUME id \in DOMAIN catRows'
                 PROVE  n <= Cardinality(Versions(id)') + 1
      OBVIOUS
    <3>1. PICK k, l : k = Cardinality(Versions(id)) /\ l = Cardinality(Versions(id)')
      OBVIOUS
    <3>2. k \in Nat /\ k <= l /\ n <= k + 1
      BY <1>4, <1>6, <2>1, <3>1, VersionsFinite
    <3>3. l \in Nat
      BY <1>4, <1>6, <3>1
    <3> QED
      BY <3>1, <3>2, <3>3
  <2> QED
    BY <1>1, <1>3, <1>6, <2>1, <2>2 DEF CatPending
<1>7. CASE c.pc = "idle"
  BY <1>7 DEF CatPending
<1> QED
  BY <1>5, <1>6, <1>7 DEF CatPending

(* Statements that a handler makes at once.                                 *)
LEMMA InsertedWrites ==
  ASSUME CatalogIInv, NEW tbl, NEW refs, NEW key, NEW a, NEW b, NEW status,
         tbl # "versions", Insert(Row(tbl, refs, key, a, b, status))
  PROVE  CatWrote
<1>1. PICK row : row = Row(tbl, refs, key, a, b, status)
  OBVIOUS
<1>2. IsRow(row) /\ row.tbl # "versions" /\ Insert(row)
  BY <1>1, RowIs
<1> QED
  BY <1>2, InsertWrites DEF CatalogIInv

LEMMA CountedWrites ==
  ASSUME CatalogIInv, Writes, UNCHANGED <<catRows, catNext>>
  PROVE  CatWrote
<1>1. catWrites' \in 0..CatMaxWrites
  BY CatalogAssumption DEF Writes, CatalogIInv
<1>2. \A i \in DOMAIN catRows : IsRow(catRows'[i]) /\ SameRefs(catRows'[i], catRows[i])
  BY DEF CatalogIInv, CatRowsWhole, SameRefs
<1> QED
  BY <1>1, <1>2, CatSame DEF CatalogIInv

LEMMA StatusWrites ==
  ASSUME CatalogIInv, NEW tbl, NEW status, UpdateStatus(tbl, status)
  PROVE  CatWrote
<1>1. PICK i \in Of(tbl) : Writes /\ catRows' = [catRows EXCEPT ![i].status = status]
                           /\ catNext' = catNext
  BY DEF UpdateStatus
<1>2. PICK row : row = [catRows[i] EXCEPT !.status = status]
  OBVIOUS
<1>3. i \in DOMAIN catRows /\ IsRow(catRows[i])
  BY DEF Of, CatalogIInv, CatRowsWhole
<1>4. IsRow(row) /\ SameRefs(row, catRows[i])
  BY <1>2, <1>3, RowChanged
<1>5. catRows' = [catRows EXCEPT ![i] = row]
  BY <1>1, <1>2
<1>6. /\ DOMAIN catRows' = DOMAIN catRows /\ catRows'[i] = row
      /\ \A j \in DOMAIN catRows \ {i} : catRows'[j] = catRows[j]
  BY <1>3, <1>5
<1>7. \A j \in DOMAIN catRows : IsRow(catRows'[j]) /\ SameRefs(catRows'[j], catRows[j])
  BY <1>4, <1>6 DEF CatalogIInv, CatRowsWhole, SameRefs
<1>8. catWrites' \in 0..CatMaxWrites
  BY <1>1, CatalogAssumption DEF Writes, CatalogIInv
<1> QED
  BY <1>1, <1>6, <1>7, <1>8, CatSame DEF CatalogIInv

LEMMA DeletedWrites ==
  ASSUME CatalogIInv, NEW tbl, tbl # "versions", NEW i \in Of(tbl), Delete(i)
  PROVE  CatWrote
<1>1. catRows[i].tbl # "versions"
  BY DEF Of
<1> QED
  BY <1>1, DeleteWrites DEF CatalogIInv

(* A handler of one statement.                                              *)
LEMMA HandlersWrite ==
  ASSUME CatalogIInv, NEW p \in CatProcs, NEW a,
         \/ CreateConnection(p, a) \/ CreateSync(p, a) \/ InsertTenant(p, a)
         \/ CreateMapping(p, a) \/ RegisterMCPServer(p, a)
         \/ MutationCreateConnection(p, a) \/ MutationCreateSync(p, a)
         \/ MutationCreateTenant(p, a) \/ MutationCreateFieldMapping(p, a)
         \/ MutationRegisterMCPServer(p, a)
         \/ DeleteConnection(p) \/ DeleteSync(p) \/ DeleteMCPServer(p)
         \/ TriggerSync(p) \/ PauseSync(p) \/ ResumeSync(p) \/ DiscoverStreams(p)
         \/ \E t \in Of("tenants") : Atomically(p, ConnectorRepoCreate(t, "crm2"))
         \/ \E i \in Of("connectors") \union Of("tenants") : Atomically(p, Delete(i))
         \/ \E s \in Of("syncs") : Atomically(p, SaveState(s))
  PROVE  CatWrote /\ UNCHANGED catCalls
<1>1. CASE CreateConnection(p, a) \/ MutationCreateConnection(p, a)
  BY <1>1, InsertedWrites
  DEF CreateConnection, MutationCreateConnection, Atomically, ConnectionRepoCreate
<1>2. CASE CreateSync(p, a) \/ MutationCreateSync(p, a)
  BY <1>2, InsertedWrites DEF CreateSync, MutationCreateSync, Atomically, SyncRepoCreate
<1>3. CASE InsertTenant(p, a) \/ MutationCreateTenant(p, a)
  BY <1>3, InsertedWrites DEF InsertTenant, MutationCreateTenant, Atomically, TenantRepoCreate
<1>4. CASE CreateMapping(p, a) \/ MutationCreateFieldMapping(p, a)
  BY <1>4, InsertedWrites
  DEF CreateMapping, MutationCreateFieldMapping, Atomically, MappingCreate
<1>5. CASE RegisterMCPServer(p, a) \/ MutationRegisterMCPServer(p, a)
  BY <1>5, InsertedWrites
  DEF RegisterMCPServer, MutationRegisterMCPServer, Atomically, MCPServerCreate
<1>6. CASE DeleteConnection(p) \/ DeleteSync(p) \/ DeleteMCPServer(p)
  BY <1>6, DeletedWrites DEF DeleteConnection, DeleteSync, DeleteMCPServer, Atomically
<1>7. CASE \E i \in Of("connectors") \union Of("tenants") : Atomically(p, Delete(i))
  <2>1. PICK i \in Of("connectors") \union Of("tenants") : Atomically(p, Delete(i))
    BY <1>7
  <2>2. CASE i \in Of("connectors")
    BY <2>1, <2>2, DeletedWrites DEF Atomically
  <2>3. CASE i \in Of("tenants")
    BY <2>1, <2>3, DeletedWrites DEF Atomically
  <2> QED
    BY <2>2, <2>3
<1>8. CASE TriggerSync(p)
  BY <1>8, InsertedWrites DEF TriggerSync, Atomically, CreateRun
<1>9. CASE PauseSync(p) \/ ResumeSync(p)
  BY <1>9, StatusWrites DEF PauseSync, ResumeSync, Atomically
<1>10. CASE DiscoverStreams(p)
  <2>1. PICK c \in Of("connections"), ns \in {"", "public"} : Atomically(p, UpsertBatch(c, ns))
    BY <1>10 DEF DiscoverStreams
  <2>2. PICK key : \/ Insert(Row("streams", {c}, key, "v", "v", ns))
                   \/ Writes /\ UNCHANGED <<catRows, catNext>>
    BY <2>1 DEF Atomically, UpsertBatch
  <2> QED
    BY <2>1, <2>2, InsertedWrites, CountedWrites DEF Atomically
<1>11. CASE \E t \in Of("tenants") : Atomically(p, ConnectorRepoCreate(t, "crm2"))
  BY <1>11, InsertedWrites DEF Atomically, ConnectorRepoCreate
<1>12. CASE \E s \in Of("syncs") : Atomically(p, SaveState(s))
  <2>1. PICK s : \/ Insert(Row("state", {s}, <<s, "contacts">>, "v", "v", ""))
                 \/ Writes /\ UNCHANGED <<catRows, catNext>>
    BY <1>12 DEF Atomically, SaveState
  <2>2. UNCHANGED catCalls
    BY <1>12 DEF Atomically
  <2> QED
    BY <2>1, <2>2, InsertedWrites, CountedWrites
<1> QED
  BY <1>1, <1>2, <1>3, <1>4, <1>5, <1>6, <1>7, <1>8, <1>9, <1>10, <1>11, <1>12

(* A step of a request that keeps the rows whole, with the statement it has *)
(* yet to make.                                                             *)
LEMMA CatalogKept ==
  ASSUME CatalogIInv, CatWrote, NEW p \in CatProcs, NEW c, CatPending(c),
         catCalls' = [catCalls EXCEPT ![p] = c]
  PROVE  CatalogIInv'
<1>1. CatRowsWhole' /\ CatKept /\ catWrites' \in 0..CatMaxWrites /\ CatRowsWhole
  BY DEF CatWrote, CatalogIInv
<1>2. /\ catCalls' = [q \in CatProcs |-> IF q = p THEN c ELSE catCalls[q]]
      /\ catCalls' = [q \in CatProcs |-> catCalls'[q]]
  BY DEF CatalogIInv
<1>3. ASSUME NEW q \in CatProcs
      PROVE  CatPending(catCalls[q])'
  <2>1. PICK d : d = catCalls'[q]
    OBVIOUS
  <2>2. CatPending(d)
    BY <2>1 DEF CatalogIInv
  <2>3. CatPending(d)'
    BY <1>1, <2>2, PendingKept
  <2> QED
    BY <2>1, <2>3
<1> QED
  BY <1>1, <1>2, <1>3 DEF CatalogIInv

LEMMA NothingPending ==
  CatPending(NoStatement)
BY DEF CatPending, NoStatement

(* A step that only changes what a request has yet to write.                *)
LEMMA NothingWritten ==
  ASSUME CatalogIInv, UNCHANGED <<catRows, catNext, catWrites>>
  PROVE  CatWrote
<1>1. \A i \in DOMAIN catRows : IsRow(catRows'[i]) /\ SameRefs(catRows'[i], catRows[i])
  BY DEF CatalogIInv, CatRowsWhole, SameRefs
<1> QED
  BY <1>1, CatSame DEF CatalogIInv

(* The number of the next version, as it is when the statement begins.      *)
LEMMA VersionRead ==
  ASSUME CatalogIInv, NEW p \in CatProcs, NEW s \in Of("streams"), CreateVersionReads(p, s)
  PROVE  CatalogIInv'
<1>1. PICK k : k = Cardinality(Versions(s))
  OBVIOUS
<1>2. s \in DOMAIN catRows /\ k \in Nat /\ {catRows[i].key[2] : i \in Versions(s)} = 1..k
  BY <1>1, VersionsFinite DEF Of, CatalogIInv, CatRowsWhole
<1>3. PICK n : n = Max({0} \union {catRows[i].key[2] : i \in Versions(s)}) + 1
  OBVIOUS
<1>4. n = k + 1
  <2>1. PICK S : S = {0} \union 1..k
    OBVIOUS
  <2>2. k \in S /\ \A x \in S : x \in Int /\ k >= x
    BY <1>2, <2>1
  <2>3. Max(S) = k
    <3>1. PICK m : m = Max(S)
      OBVIOUS
    <3>2. m \in S /\ \A x \in S : m >= x
      BY <2>2, <3>1 DEF Max
    <3> QED
      BY <1>2, <2>2, <3>1, <3>2
  <2> QED
    BY <1>2, <1>3, <2>1, <2>3
<1>5. PICK row, c : row = Row("versions", {s}, <<s, n>>, "v", "v", "")
                    /\ c = [pc |-> "version", id |-> s, row |-> row]
  OBVIOUS
<1>6. IsRow(row) /\ VersionRow(row, s, n)
  BY <1>5 DEF VersionRow, Row, IsRow
<1>7. s \in 1..(catNext - 1) /\ n \in Nat \ {0} /\ n <= k + 1
  BY <1>2, <1>4 DEF CatalogIInv, CatRowsWhole
<1>8. CatPending(c)
  BY <1>1, <1>5, <1>6, <1>7 DEF CatPending
<1>9. /\ catCalls' = [catCalls EXCEPT ![p] = c]
      /\ UNCHANGED <<catRows, catNext, catWrites>>
  BY <1>3, <1>5 DEF CreateVersionReads
<1> QED
  BY <1>8, <1>9, NothingWritten, CatalogKept

LEMMA VersionCreated ==
  ASSUME CatalogIInv, NEW p \in CatProcs, CreateVersion(p)
  PROVE  CatalogIInv'
<1>1. PICK c : c = catCalls[p]
  OBVIOUS
<1>2. /\ c.pc = "version" /\ CatPending(c)
      /\ Insert(c.row) \/ UNCHANGED <<catRows, catNext, catWrites>>
      /\ catCalls' = [catCalls EXCEPT ![p] = NoStatement]
  BY <1>1 DEF CreateVersion, CatalogIInv
<1>3. ASSUME Insert(c.row)
      PROVE  CatWrote
  <2>1. PICK n \in Nat \ {0} :
           /\ VersionRow(c.row, c.id, n)
           /\ c.id \in DOMAIN catRows => n <= Cardinality(Versions(c.id)) + 1
    BY <1>2 DEF CatPending
  <2>2. c.id \in DOMAIN catRows
    BY <1>3, <2>1 DEF Insert, CanInsert, VersionRow
  <2>3. IsRow(c.row)
    BY <1>2 DEF CatPending
  <2> QED
    BY <1>3, <2>1, <2>2, <2>3, InsertWrites DEF CatalogIInv
<1>4. CatWrote
  BY <1>2, <1>3, NothingWritten
<1> QED
  BY <1>2, <1>4, NothingPending, CatalogKept

(* A row that is written back has the references it was read with.          *)
LEMMA RowUpdated ==
  ASSUME CatalogIInv, NEW p \in CatProcs, Update(p)
  PROVE  CatalogIInv'
<1>1. PICK c : c = catCalls[p]
  OBVIOUS
<1>2. /\ c.pc = "update" /\ CatPending(c) /\ catNext' = catNext
      /\ catCalls' = [catCalls EXCEPT ![p] = NoStatement]
      /\ \/ c.id \in DOMAIN catRows /\ Writes /\ catRows' = [catRows EXCEPT ![c.id] = c.row]
         \/ UNCHANGED <<catRows, catWrites>>
  BY <1>1 DEF Update, CatalogIInv
<1>3. ASSUME c.id \in DOMAIN catRows, Writes, catRows' = [catRows EXCEPT ![c.id] = c.row]
      PROVE  CatWrote
  <2>1. /\ DOMAIN catRows' = DOMAIN catRows /\ catRows'[c.id] = c.row
        /\ \A j \in DOMAIN catRows \ {c.id} : catRows'[j] = catRows[j]
    BY <1>3
  <2>2. IsRow(c.row) /\ SameRefs(c.row, catRows[c.id])
    BY <1>2, <1>3 DEF CatPending
  <2>3. \A j \in DOMAIN catRows : IsRow(catRows'[j]) /\ SameRefs(catRows'[j], catRows[j])
    BY <2>1, <2>2 DEF CatalogIInv, CatRowsWhole, SameRefs
  <2>4. catWrites' \in 0..CatMaxWrites
    BY <1>3, CatalogAssumption DEF Writes, CatalogIInv
  <2> QED
    BY <1>2, <2>1, <2>3, <2>4, CatSame DEF CatalogIInv
<1>4. CatWrote
  BY <1>2, <1>3, NothingWritten
<1> QED
  BY <1>2, <1>4, NothingPending, CatalogKept

LEMMA CatalogBegins == CatalogInit => CatalogIInv
<1> SUFFICES ASSUME CatalogInit
             PROVE  CatalogIInv
  OBVIOUS
<1>1. DOMAIN catRows = 1..6 /\ catNext = 7 /\ catRows = FirstRows
  <2>1. PICK r1, r2, r3, r4, r5, r6 : FirstRows = <<r1, r2, r3, r4, r5, r6>>
    BY DEF FirstRows
  <2>2. DOMAIN FirstRows = 1..6
    BY <2>1
  <2> QED
    BY <2>2 DEF CatalogInit
<1>2. /\ catRows[1] = Row("tenants", {}, <<"ns">>, "v", "v", "")
      /\ catRows[2] = Row("connectors", {1}, <<1, "crm">>, "v", "v", "active")
      /\ catRows[3] = Row("connections", {1, 2}, NoKey, "v", "v", "active")
      /\ catRows[4] = Row("streams", {3}, <<3, "contacts", "public">>, "v", "v", "public")
      /\ catRows[5] = Row("syncs", {1, 3}, NoKey, "v", "v", "active")
      /\ catRows[6] = Row("mappings", {5}, NoKey, "v", "v", "")
  BY <1>1 DEF FirstRows
<1>3. \A i \in 1..6 : /\ IsRow(catRows[i]) /\ catRows[i].refs \subseteq 1..6
                      /\ catRows[i].tbl # "versions"
  <2> TAKE i \in 1..6
  <2>1. i \in {1, 2, 3, 4, 5, 6}
    OBVIOUS
  <2>2. ASSUME NEW tbl, NEW refs, NEW key, NEW status, refs \subseteq 1..6, tbl # "versions",
               catRows[i] = Row(tbl, refs, key, "v", "v", status)
        PROVE  /\ IsRow(catRows[i]) /\ catRows[i].refs \subseteq 1..6
               /\ catRows[i].tbl # "versions"
    <3>1. PICK row : row = catRows[i]
      OBVIOUS
    <3>2. IsRow(row) /\ row.refs = refs /\ row.tbl = tbl
      BY <2>2, <3>1 DEF Row, IsRow
    <3> QED
      BY <2>2, <3>1, <3>2
  <2>3. CASE i = 1
    BY <1>2, <2>3, <2>2
  <2>4. CASE i = 2
    <3>1. catRows[i] = Row("connectors", {1}, <<1, "crm">>, "v", "v", "active")
      BY <1>2, <2>4
    <3>2. {1} \subseteq 1..6
      OBVIOUS
    <3> QED
      BY <2>2, <3>1, <3>2
  <2>5. CASE i = 3
    <3>1. catRows[i] = Row("connections", {1, 2}, NoKey, "v", "v", "active")
      BY <1>2, <2>5
    <3>2. {1, 2} \subseteq 1..6
      OBVIOUS
    <3> QED
      BY <2>2, <3>1, <3>2
  <2>6. CASE i = 4
    <3>1. catRows[i] = Row("streams", {3}, <<3, "contacts", "public">>, "v", "v", "public")
      BY <1>2, <2>6
    <3>2. {3} \subseteq 1..6
      OBVIOUS
    <3> QED
      BY <2>2, <3>1, <3>2
  <2>7. CASE i = 5
    <3>1. catRows[i] = Row("syncs", {1, 3}, NoKey, "v", "v", "active")
      BY <1>2, <2>7
    <3>2. {1, 3} \subseteq 1..6
      OBVIOUS
    <3> QED
      BY <2>2, <3>1, <3>2
  <2>8. CASE i = 6
    <3>1. catRows[i] = Row("mappings", {5}, NoKey, "v", "v", "")
      BY <1>2, <2>8
    <3>2. {5} \subseteq 1..6
      OBVIOUS
    <3> QED
      BY <2>2, <3>1, <3>2
  <2> QED
    BY <2>1, <2>3, <2>4, <2>5, <2>6, <2>7, <2>8
<1>4. \A s : {catRows[i].key[2] : i \in Versions(s)} = 1..Cardinality(Versions(s))
  <2> TAKE s
  <2>1. Versions(s) = {}
    BY <1>1, <1>3 DEF Versions, Of
  <2>2. Cardinality(Versions(s)) = 0
    BY <2>1, FS_EmptySet
  <2> QED
    BY <2>1, <2>2
<1>5. CatRowsWhole
  <2>1. catNext \in Nat \ {0} /\ 1..6 \subseteq 1..(catNext - 1)
    BY <1>1
  <2> QED
    BY <1>1, <1>3, <1>4, <2>1 DEF CatRowsWhole
<1>6. /\ catCalls = [p \in CatProcs |-> catCalls[p]]
      /\ \A p \in CatProcs : catCalls[p] = NoStatement
  BY DEF CatalogInit
<1>7. catWrites \in 0..CatMaxWrites
  BY CatalogAssumption DEF CatalogInit
<1> QED
  BY <1>5, <1>6, <1>7, NothingPending DEF CatalogIInv

LEMMA CatalogStep == CatalogIInv /\ [CatalogNext]_catVars => CatalogIInv'
<1> SUFFICES ASSUME CatalogIInv, [CatalogNext]_catVars
             PROVE  CatalogIInv'
  OBVIOUS
<1>1. ASSUME NEW p \in CatProcs, CatWrote, UNCHANGED catCalls
      PROVE  CatalogIInv'
  <2>1. PICK c : c = catCalls[p]
    OBVIOUS
  <2>2. CatPending(c) /\ catCalls' = [catCalls EXCEPT ![p] = c]
    BY <1>1, <2>1 DEF CatalogIInv
  <2> QED
    BY <1>1, <2>2, CatalogKept
<1>2. ASSUME NEW p \in CatProcs, CatReads(p)
      PROVE  CatalogIInv'
  <2>1. PICK i \in DOMAIN catRows : \E new :
           /\ IsRow(new) /\ SameRefs(new, catRows[i])
           /\ catCalls' = [catCalls EXCEPT ![p] = [pc |-> "update", id |-> i, row |-> new]]
    BY <1>2 DEF CatReads
  <2>2. PICK new :
           /\ IsRow(new) /\ SameRefs(new, catRows[i])
           /\ catCalls' = [catCalls EXCEPT ![p] = [pc |-> "update", id |-> i, row |-> new]]
    BY <2>1
  <2>3. PICK c : c = [pc |-> "update", id |-> i, row |-> new]
    OBVIOUS
  <2>4. CatPending(c)
    BY <2>2, <2>3 DEF CatPending, CatalogIInv, CatRowsWhole
  <2> QED
    BY <1>2, <2>2, <2>3, <2>4, NothingWritten, CatalogKept DEF CatReads
<1>3. ASSUME NEW p \in CatProcs, executeMutation(p)
      PROVE  CatalogIInv'
  BY <1>1, <1>2, <1>3, HandlersWrite, ChangesRead
  DEF executeMutation, MutationDeleteSync, MutationTriggerSync, MutationPauseSync,
      MutationResumeSync, MutationDeleteMCPServer, MutationDiscoverStreams,
      MutationDeleteConnection
<1>4. ASSUME NEW p \in CatProcs, NEW a, NEW b,
             \/ CreateConnection(p, a) \/ UpdateConnection(p, a, b)
             \/ CreateSync(p, a) \/ UpdateSync(p, a, b)
             \/ InsertTenant(p, a) \/ UpdateTenant(p, a, b)
             \/ CreateMapping(p, a) \/ UpdateMapping(p, a, b)
             \/ RegisterMCPServer(p, a) \/ UpdateMCPServer(p, a, b)
      PROVE  CatalogIInv'
  BY <1>1, <1>2, <1>4, HandlersWrite, ChangesRead
<1>5. ASSUME NEW p \in CatProcs,
             \/ DeleteConnection(p) \/ DeleteSync(p) \/ DeleteMCPServer(p)
             \/ TriggerSync(p) \/ PauseSync(p) \/ ResumeSync(p) \/ DiscoverStreams(p)
             \/ \E t \in Of("tenants") : Atomically(p, ConnectorRepoCreate(t, "crm2"))
             \/ \E i \in Of("connectors") \union Of("tenants") : Atomically(p, Delete(i))
             \/ \E s \in Of("syncs") : Atomically(p, SaveState(s))
      PROVE  CatalogIInv'
  BY <1>1, <1>5, HandlersWrite
<1>6. CASE UNCHANGED catVars
  <2>1. CatPending(NoStatement) /\ CatWrote
    BY <1>6, NothingPending, NothingWritten DEF catVars
  <2>2. CASE CatProcs = {}
    BY <1>6, <2>1, <2>2 DEF catVars, CatalogIInv, CatWrote
  <2>3. ASSUME NEW p \in CatProcs
        PROVE  CatalogIInv'
    BY <1>1, <1>6, <2>1 DEF catVars
  <2> QED
    BY <2>2, <2>3
<1>7. CASE CatalogNext
  <2>1. PICK p \in CatProcs :
         \/ \E q \in CatRequests : LET a == q[1] b == q[2] IN
              \/ CreateConnection(p, a) \/ UpdateConnection(p, a, b)
              \/ CreateSync(p, a) \/ UpdateSync(p, a, b)
              \/ InsertTenant(p, a) \/ UpdateTenant(p, a, b)
              \/ CreateMapping(p, a) \/ UpdateMapping(p, a, b)
              \/ RegisterMCPServer(p, a) \/ UpdateMCPServer(p, a, b)
         \/ DeleteConnection(p) \/ DeleteSync(p) \/ DeleteMCPServer(p)
         \/ TriggerSync(p) \/ PauseSync(p) \/ ResumeSync(p) \/ DiscoverStreams(p)
         \/ executeMutation(p)
         \/ \E t \in Of("tenants") : Atomically(p, ConnectorRepoCreate(t, "crm2"))
         \/ \E i \in Of("connectors") \union Of("tenants") : Atomically(p, Delete(i))
         \/ \E s \in Of("syncs") : Atomically(p, SaveState(s))
         \/ \E s \in Of("streams") : CreateVersionReads(p, s)
         \/ CreateVersion(p) \/ Update(p)
    BY <1>7, Zenon DEF CatalogNext
  <2> QED
    BY <1>3, <1>4, <1>5, <2>1, VersionRead, VersionCreated, RowUpdated
<1> QED
  BY <1>6, <1>7

(* No row refers to one that is gone, whatever stale rows are written back  *)
(* while others are deleted (Update, Delete), and the versions of a stream  *)
(* are numbered without a gap, although CreateVersion computes the next     *)
(* number from a snapshot.                                                  *)
THEOREM CatalogStaysWhole == CatalogSpec => []CatalogTypeOK
<1>1. CatalogIInv => CatalogTypeOK
  BY DEF CatalogIInv, CatalogTypeOK, CatRowsWhole, CatPending, SchemaVersionsContiguous, Of
<1> QED
  BY CatalogBegins, CatalogStep, <1>1, PTL DEF CatalogSpec
=============================================================================
