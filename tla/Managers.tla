------------------------------ MODULE Managers ------------------------------
(***************************************************************************)
(* The managers of the control plane that keep one row in the store and a  *)
(* copy of it in the Redis cache: connector configurations                 *)
(* (controlplane/config/manager.go), stream schemas                        *)
(* (controlplane/schema/manager.go) and tenants                            *)
(* (controlplane/tenant/manager.go), over storage/redis/cache.go.          *)
(*                                                                         *)
(* Several callers use one manager at a time.  Every call to the store or  *)
(* to the cache is a step of its own and may fail.                         *)
(***************************************************************************)
EXTENDS Integers, Sequences, FiniteSets, SequencesExt, FiniteSetsExt

CONSTANTS MgrProcs,      \* callers
          MgrKinds,      \* managers: among "config", "schema", "tenant"
          MgrSchemas,    \* schemas a source may report
          MgrDefaultQuota,  \* the default of a quota (10 connectors, 20 syncs)
          MgrMaxWrites,  \* bound: calls that write
          MgrMaxAdded    \* bound: resources of the tenant

ASSUME ManagersAssumption ==
    /\ {MgrMaxWrites, MgrMaxAdded, MgrDefaultQuota} \subseteq Nat
    /\ IsFiniteSet(MgrProcs) /\ MgrProcs # {}
    /\ MgrKinds \subseteq {"config", "schema", "tenant"}

VARIABLES mgrKind,    \* the manager
          mgrKeyed,   \* the encryptor has a key
          mgrRow,     \* the stored row: its value, and whether a tenant's row names
                      \* its database
          mgrCache,   \* the cached copy, or NoRow
          mgrProcs,   \* of each caller, the call it is in and the row it holds
          mgrLatest,  \* the latest version of the schema, or NoSchema
          mgrAdded,   \* connectors (or syncs) of the tenant
          mgrWrites,  \* calls that write
          mgrPeak,    \* history: the highest quota so far
          mgrRisk     \* history: why a stale copy may stay, among "failed", "overlap",
                      \* "behind" (see StaleOnlyAfterOverlap)

mgrVars == <<mgrKind, mgrKeyed, mgrRow, mgrCache, mgrProcs, mgrLatest, mgrAdded,
             mgrWrites, mgrPeak, mgrRisk>>

NoRow == [val |-> <<>>, db |-> FALSE]
NoSchema == <<>>
Idle == [pc |-> "idle", row |-> NoRow]

-----------------------------------------------------------------------------
(* Values.                                                                  *)

\* A configuration is a pair of its form and its content.
Encrypt(v) == IF mgrKeyed THEN <<"sealed", v[2]>> ELSE v

\* With a key, what is not sealed cannot be opened (here <<>>).
Decrypt(v) == IF ~mgrKeyed THEN v
              ELSE IF v[1] = "sealed" THEN <<"plain", v[2]>> ELSE <<>>

\* A schema is a pair: of each field the types it names, and whatever else it says.
parsePropertyType(t) ==
    LET named == SelectSeq(t, LAMBDA n : n # "null") IN
    IF Len(t) = 1 THEN [type |-> t[1], nullable |-> FALSE]
    ELSE [type |-> IF named = <<>> THEN "unknown" ELSE Last(named),
          nullable |-> \E n \in 1..Len(t) : t[n] = "null"]

extractProperties(schema) ==
    [f \in DOMAIN schema[1] |-> parsePropertyType(schema[1][f])]

\* The changes between two schemas, each with whether it breaks a reader.
DetectBreakingChanges(oldSchema, newSchema) ==
    LET old == extractProperties(oldSchema)
        new == extractProperties(newSchema)
        both == DOMAIN old \intersect DOMAIN new IN
    {<<"removed_field", f, TRUE>> : f \in DOMAIN old \ DOMAIN new}
      \union {<<"added_field", f, FALSE>> : f \in DOMAIN new \ DOMAIN old}
      \union {<<"type_change", f, TRUE>> :
                  f \in {g \in both : old[g].type # new[g].type}}
      \union {<<"nullable_change", f, old[f].nullable>> :
                  f \in {g \in both : old[g].nullable # new[g].nullable}}

\* What a reader of the row gets.
Served(row) == IF mgrKind = "config" THEN [row EXCEPT !.val = Decrypt(@)] ELSE row

\* A copy differs from the row in what its readers use.
Stale(copy) ==
    IF mgrKind = "schema"
      THEN extractProperties(copy.val) # extractProperties(mgrRow.val)
      ELSE copy # Served(mgrRow)

FirstRow(kind) ==
    CASE kind = "config" -> [NoRow EXCEPT !.val = <<"plain", 0>>]
      [] kind = "schema" -> [NoRow EXCEPT !.val = CHOOSE s \in MgrSchemas : TRUE]
      [] kind = "tenant" -> NoRow

ManagersInit ==
    /\ mgrKind \in MgrKinds
    /\ mgrKeyed \in IF mgrKind = "config" THEN BOOLEAN ELSE {FALSE}
    /\ mgrRow = FirstRow(mgrKind) /\ mgrCache = NoRow
    /\ mgrProcs = [p \in MgrProcs |-> Idle]
    /\ mgrLatest = NoSchema
    /\ mgrAdded = 0 /\ mgrWrites = 0 /\ mgrPeak = 0 /\ mgrRisk = {}

-----------------------------------------------------------------------------
(* Reads: the cache, then the store, then the cache again.                  *)

Becomes(p, pc, row) == mgrProcs' = [mgrProcs EXCEPT ![p] = [pc |-> pc, row |-> row]]
Returns(p) == Becomes(p, "idle", NoRow)
DataStays == UNCHANGED <<mgrKind, mgrKeyed, mgrRow, mgrLatest, mgrAdded, mgrWrites,
                         mgrPeak, mgrRisk>>

\* The lookup: a copy answers the call; a missing one and an error go on.
CacheLookup(p, miss, hit) ==
    /\ mgrProcs[p].pc = "idle"
    /\ \/ mgrCache # NoRow /\ hit
       \/ Becomes(p, miss, NoRow)
    /\ UNCHANGED mgrCache /\ DataStays

\* The store answers, or fails (as for a row that is not there) and so does the call.
StoreRead(p, at, next, row) ==
    /\ mgrProcs[p].pc = at
    /\ (mgrRow # NoRow /\ Becomes(p, next, row)) \/ Returns(p)
    /\ UNCHANGED mgrCache /\ DataStays

\* The copy is made; a failure is only logged.
CacheSet(p, at, done) ==
    /\ mgrProcs[p].pc = at
    /\ mgrCache' \in {mgrProcs[p].row, mgrCache}
    /\ done /\ DataStays

GetConnectorConfig(p) ==
    /\ mgrKind = "config"
    /\ \/ CacheLookup(p, "load", Returns(p))
       \/ Decrypt(mgrRow.val) # <<>> /\ StoreRead(p, "load", "fill", Served(mgrRow))
       \/ Decrypt(mgrRow.val) = <<>> /\ StoreRead(p, "load", "idle", NoRow)
       \/ CacheSet(p, "fill", Returns(p))

GetSchema(p) ==
    /\ mgrKind = "schema"
    /\ \/ CacheLookup(p, "load", Returns(p))
       \/ StoreRead(p, "load", "fill", mgrRow)
       \/ CacheSet(p, "fill", Returns(p))

GetTenant(p) ==
    /\ mgrKind = "tenant"
    /\ \/ CacheLookup(p, "load", Returns(p))
       \/ StoreRead(p, "load", "fill", mgrRow)
       \/ CacheSet(p, "fill", Returns(p))

CacheExpires ==
    /\ mgrCache # NoRow /\ mgrCache' = NoRow
    /\ UNCHANGED mgrProcs /\ DataStays

-----------------------------------------------------------------------------
(* Writes.                                                                  *)

Starts(p) == /\ mgrProcs[p].pc = "idle" /\ mgrWrites < MgrMaxWrites
             /\ mgrWrites' = mgrWrites + 1

\* The copy is removed; an error is only logged.
Invalidate(p) ==
    /\ mgrProcs[p].pc = "invalidate"
    /\ \/ /\ mgrCache' = NoRow
          /\ mgrRisk' = {w \in {"overlap", "behind"} :
                IF w = "behind" THEN w \in mgrRisk
                ELSE \E q \in MgrProcs : /\ mgrProcs[q].pc \in {"fill", "quotafill"}
                                         /\ Stale(mgrProcs[q].row)}
       \/ mgrCache' = mgrCache /\ mgrRisk' = mgrRisk \union {"failed"}
    /\ Returns(p)
    /\ UNCHANGED <<mgrKind, mgrKeyed, mgrRow, mgrLatest, mgrAdded, mgrWrites, mgrPeak>>

SaveConnectorConfigUncached(p, v) ==
    /\ mgrKind = "config" /\ Starts(p)
    /\ mgrRow' = [mgrRow EXCEPT !.val = Encrypt(<<"plain", v>>)]
    /\ UNCHANGED <<mgrKind, mgrKeyed, mgrCache, mgrLatest, mgrAdded, mgrPeak, mgrRisk,
                   mgrProcs>>

\* A configuration that is not valid JSON, and one the store refuses, change nothing.
SaveConnectorConfig(p, v) ==
    /\ mgrKind = "config" /\ Starts(p)
    /\ mgrRow' = [mgrRow EXCEPT !.val = Encrypt(<<"plain", v>>)]
    /\ Becomes(p, "invalidate", NoRow)
    /\ UNCHANGED <<mgrKind, mgrKeyed, mgrCache, mgrLatest, mgrAdded, mgrPeak, mgrRisk>>

\* DiscoverAndStore, for a stream of the catalog: the row is always replaced; a new
\* version is made, and the copy removed, only for a change that DetectBreakingChanges
\* sees between the latest version and the new schema.
DiscoverAndStore(p) ==
    /\ mgrKind = "schema"
    /\ \/ \E s \in MgrSchemas :
            /\ Starts(p)
            /\ mgrRow' = [mgrRow EXCEPT !.val = s]
            /\ Becomes(p, "compare", [NoRow EXCEPT !.val = s])
            /\ mgrRisk' = mgrRisk \union
                  (IF \E q \in MgrProcs : mgrProcs[q].pc \in {"compare", "version"}
                     THEN {"behind"} ELSE {})
            /\ UNCHANGED mgrLatest
       \/ /\ mgrProcs[p].pc = "compare"
          /\ IF mgrLatest = NoSchema
                  \/ DetectBreakingChanges(mgrLatest, mgrProcs[p].row.val) # {}
               THEN Becomes(p, "version", mgrProcs[p].row) ELSE Returns(p)
          /\ UNCHANGED <<mgrRow, mgrLatest, mgrWrites, mgrRisk>>
       \/ /\ mgrProcs[p].pc = "version"
          /\ mgrLatest' = mgrProcs[p].row.val
          /\ Becomes(p, "invalidate", NoRow)
          /\ UNCHANGED <<mgrRow, mgrWrites, mgrRisk>>
       \/ /\ mgrProcs[p].pc = "version"         \* CreateSchemaVersion fails
          /\ mgrRisk' = mgrRisk \union {"behind"} /\ Returns(p)
          /\ UNCHANGED <<mgrRow, mgrLatest, mgrWrites>>
    /\ UNCHANGED <<mgrKind, mgrKeyed, mgrCache, mgrAdded, mgrPeak>>

\* The row, with the default for a quota that is not set.
CreateTenant(p, quota) ==
    /\ mgrKind = "tenant" /\ mgrRow = NoRow /\ Starts(p)
    /\ mgrRow' = [val |-> <<IF quota <= 0 THEN MgrDefaultQuota ELSE quota>>, db |-> FALSE]
    /\ mgrPeak' = Max({mgrPeak, mgrRow'.val[1]})
    /\ Becomes(p, "provision", NoRow)
    /\ UNCHANGED <<mgrKind, mgrKeyed, mgrCache, mgrLatest, mgrAdded, mgrRisk>>

\* The Neon project; CreateTenant returns without one when it cannot be made.
ProvisionDatabase(p) ==
    /\ mgrProcs[p].pc = "provision"
    /\ Becomes(p, "dbinfo", NoRow) \/ Returns(p)
    /\ UNCHANGED mgrCache /\ DataStays

\* The row is read to add the database, or to change the quotas.
updateDatabaseInfo(p) ==
    StoreRead(p, "dbinfo", "update", [mgrRow EXCEPT !.db = TRUE])

UpdateQuotas(p, quota) ==
    /\ mgrKind = "tenant" /\ mgrRow # NoRow /\ Starts(p)
    /\ Becomes(p, "update", [mgrRow EXCEPT !.val = <<quota>>])
    /\ UNCHANGED <<mgrKind, mgrKeyed, mgrRow, mgrCache, mgrLatest, mgrAdded, mgrPeak,
                   mgrRisk>>

\* The whole row is written back.
TenantUpdate(p) ==
    /\ mgrProcs[p].pc = "update"
    /\ \/ /\ mgrRow' = mgrProcs[p].row
          /\ mgrPeak' = Max({mgrPeak, mgrProcs[p].row.val[1]})
          /\ Becomes(p, "invalidate", NoRow)
       \/ Returns(p) /\ UNCHANGED <<mgrRow, mgrPeak>>
    /\ UNCHANGED <<mgrKind, mgrKeyed, mgrCache, mgrLatest, mgrAdded, mgrWrites, mgrRisk>>

WithinQuotaInclusive(count, quota) == count <= quota
WithinQuota(count, quota) == count < quota

\* GetTenant, then the count; the caller then adds its connector or sync.
CheckQuota(p) ==
    /\ mgrKind = "tenant"
    /\ \/ CacheLookup(p, "quotaload", Becomes(p, "count", mgrCache))
       \/ StoreRead(p, "quotaload", "quotafill", mgrRow)
       \/ CacheSet(p, "quotafill", Becomes(p, "count", mgrProcs[p].row))
       \/ /\ mgrProcs[p].pc = "count"
          /\ \/ WithinQuota(mgrAdded, mgrProcs[p].row.val[1]) /\ Becomes(p, "add", NoRow)
             \/ Returns(p)              \* refused, or the count failed
          /\ UNCHANGED mgrCache /\ DataStays

CallerAdds(p) ==
    /\ mgrProcs[p].pc = "add" /\ mgrAdded < MgrMaxAdded
    /\ mgrAdded' = mgrAdded + 1
    /\ Returns(p)
    /\ UNCHANGED <<mgrKind, mgrKeyed, mgrRow, mgrCache, mgrLatest, mgrWrites, mgrPeak,
                   mgrRisk>>

ManagersNext ==
    \/ \E p \in MgrProcs :
         \/ GetConnectorConfig(p) \/ GetSchema(p) \/ GetTenant(p)
         \/ Invalidate(p) \/ DiscoverAndStore(p) \/ ProvisionDatabase(p) \/ updateDatabaseInfo(p)
         \/ TenantUpdate(p) \/ CheckQuota(p) \/ CallerAdds(p)
         \/ \E v \in 0..1 : SaveConnectorConfig(p, v)
         \/ \E q \in 0..1 : CreateTenant(p, q) \/ UpdateQuotas(p, q)
    \/ CacheExpires

ManagersSpec == ManagersInit /\ [][ManagersNext]_mgrVars

-----------------------------------------------------------------------------
ManagersTypeOK ==
    /\ mgrKind \in MgrKinds /\ mgrKeyed \in BOOLEAN
    /\ mgrRisk \subseteq {"failed", "overlap", "behind"}
    /\ \A p \in MgrProcs : mgrProcs[p].pc \in
          {"idle", "load", "fill", "invalidate", "compare", "version", "update",
           "provision", "dbinfo", "quotaload", "quotafill", "count", "add"}
    /\ mgrAdded \in 0..MgrMaxAdded /\ mgrWrites \in 0..MgrMaxWrites

\* Once a write has removed the copy, the cache stays true to the store: a stale copy
\* is there only while a writer has yet to remove it, or after a removal failed, or
\* when a read still held the older row at the removal and may put it back, or after
\* discoveries that crossed, or one that made no version, left the latest version
\* behind the row.
StaleOnlyAfterOverlap ==
    mgrCache # NoRow /\ Stale(mgrCache) =>
        \/ mgrRisk # {}
        \/ \E p \in MgrProcs : mgrProcs[p].pc \in {"invalidate", "compare", "version"}

\* Callers that check the quota at the same time may pass it together, but by no more
\* than their number, whatever quota a cached tenant still shows.
QuotaOvershootBounded == mgrAdded < mgrPeak + Cardinality(MgrProcs)
=============================================================================
