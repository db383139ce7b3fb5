------------------------------ MODULE Catalog -------------------------------
(***************************************************************************)
(* The catalog: the tables of storage/postgres, the REST handlers          *)
(* (api/rest/handlers.go) and the GraphQL resolver (api/graphql/           *)
(* resolver.go) that change them.                                          *)
(*                                                                         *)
(* A statement is one step.  A handler that reads a row, changes it and    *)
(* writes it back takes two, and another request may come between them.    *)
(* The repositories of storage/postgres stand behind the interfaces of the *)
(* handlers; foreign keys and unique keys are those of the migrations.     *)
(***************************************************************************)
EXTENDS Integers, Sequences, FiniteSets, FiniteSetsExt

CONSTANTS CatProcs,      \* requests in progress
          CatRequests,   \* the two fields of a request, each "nil" (missing), "" or "x"
          CatMaxWrites   \* bound: statements that change the tables

ASSUME CatalogAssumption == CatMaxWrites \in Nat

VARIABLES catRows,    \* the rows of all tables, by id
          catNext,    \* the next id
          catCalls,   \* of each request the statement it has yet to make, with its row
          catWrites   \* statements that changed the tables

catVars == <<catRows, catNext, catCalls, catWrites>>

-----------------------------------------------------------------------------
(* Tables.                                                                  *)

\* A row: its table, the rows it refers to, its unique key (NoKey when a column of
\* it is NULL or it is the id), two columns that requests change, and its status.
NoKey == <<>>
Row(tbl, refs, key, a, b, status) ==
    [tbl |-> tbl, refs |-> refs, key |-> key, a |-> a, b |-> b, status |-> status]

Of(tbl) == {i \in DOMAIN catRows : catRows[i].tbl = tbl}

\* A tenant with a connector, a connection, its stream, and a sync with its mapping.
FirstRows ==
    <<Row("tenants", {}, <<"ns">>, "v", "v", ""),
      Row("connectors", {1}, <<1, "crm">>, "v", "v", "active"),
      Row("connections", {1, 2}, NoKey, "v", "v", "active"),
      Row("streams", {3}, <<3, "contacts", "public">>, "v", "v", "public"),
      Row("syncs", {1, 3}, NoKey, "v", "v", "active"),
      Row("mappings", {5}, NoKey, "v", "v", "")>>

NoStatement == [pc |-> "idle", id |-> 0, row |-> FirstRows[1]]

CatalogInit ==
    /\ catRows = FirstRows /\ catNext = 7
    /\ catCalls = [p \in CatProcs |-> NoStatement] /\ catWrites = 0

\* syncs refer to connections ON DELETE RESTRICT, every other reference cascades.
Restricts(child, parent) ==
    catRows[child].tbl = "syncs" /\ catRows[parent].tbl = "connections"

\* The rows that go with row i; the longest chain of references is tenant, connector,
\* connection, stream, version.
WithChildren(ids) ==
    ids \union {c \in DOMAIN catRows :
                   \E r \in catRows[c].refs \intersect ids : ~Restricts(c, r)}
Cascade(i) == WithChildren(WithChildren(WithChildren(WithChildren({i}))))

\* 23505 and 23503
KeyTaken(key) == key # NoKey /\ \E i \in DOMAIN catRows : catRows[i].key = key
CanInsert(row) == row.refs \subseteq DOMAIN catRows /\ ~KeyTaken(row.key)

Writes == catWrites < CatMaxWrites /\ catWrites' = catWrites + 1

\* An INSERT; a violated constraint is an error and changes nothing.
Insert(row) ==
    /\ Writes /\ CanInsert(row)
    /\ catRows' = [i \in DOMAIN catRows \union {catNext} |->
                      IF i = catNext THEN row ELSE catRows[i]]
    /\ catNext' = catNext + 1

\* execExpectOne: no row is ErrNotFound.
Delete(i) ==
    LET gone == Cascade(i) IN
    /\ Writes /\ i \in DOMAIN catRows
    /\ \A c \in DOMAIN catRows : catRows[c].refs \intersect gone # {} => c \in gone
    /\ catRows' = [j \in DOMAIN catRows \ gone |-> catRows[j]]
    /\ UNCHANGED catNext

\* UPDATE ... WHERE id: the whole row; a row that is gone is ErrNotFound.
Update(p) ==
    LET c == catCalls[p] IN
    /\ c.pc = "update"
    /\ \/ c.id \in DOMAIN catRows /\ Writes /\ catRows' = [catRows EXCEPT ![c.id] = c.row]
       \/ c.id \notin DOMAIN catRows /\ UNCHANGED <<catRows, catWrites>>
    /\ catCalls' = [catCalls EXCEPT ![p] = NoStatement]
    /\ UNCHANGED catNext

-----------------------------------------------------------------------------
(* Repositories.                                                            *)

Atomically(p, statement) ==
    catCalls[p].pc = "idle" /\ statement /\ UNCHANGED catCalls

TenantRepoCreate(ns, a) == Insert(Row("tenants", {}, <<ns>>, a, "v", ""))
ConnectorRepoCreate(t, name) ==
    Insert(Row("connectors", {t}, <<t, name>>, "v", "v", "active"))
ConnectionRepoCreate(t, k, a) == Insert(Row("connections", {t, k}, NoKey, a, "v", "active"))
SyncRepoCreate(t, src, dst, a) ==
    Insert(Row("syncs", {t, src, dst}, NoKey, a, "v", "active"))
CreateRun(s) == Insert(Row("runs", {s}, NoKey, "v", "v", "pending"))
MappingCreate(s, a) == Insert(Row("mappings", {s}, NoKey, a, "v", ""))
MCPServerCreate(t, a) == Insert(Row("mcp", {t}, NoKey, a, "v", "active"))

\* ON CONFLICT (sync_id, stream_name)
SaveState(s) ==
    LET row == Row("state", {s}, <<s, "contacts">>, "v", "v", "") IN
    \/ Insert(row)
    \/ /\ KeyTaken(row.key) /\ s \in DOMAIN catRows /\ Writes
       /\ UNCHANGED <<catRows, catNext>>

UpdateStatus(tbl, status) ==
    \E i \in Of(tbl) :
        Writes /\ catRows' = [catRows EXCEPT ![i].status = status] /\ UNCHANGED catNext

\* UpsertBatch, for one stream: an empty namespace is stored as NULL, which ON
\* CONFLICT (connection_id, name, namespace) never matches.
UpsertBatch(c, namespace) ==
    LET key == IF namespace = "" THEN NoKey ELSE <<c, "contacts", namespace>>
        row == Row("streams", {c}, key, "v", "v", namespace) IN
    \/ Insert(row)
    \/ /\ KeyTaken(key) /\ c \in DOMAIN catRows /\ Writes
       /\ UNCHANGED <<catRows, catNext>>

Versions(s) == {i \in Of("versions") : s \in catRows[i].refs}

\* CreateVersion: the statement's snapshot, and then the insertion, which fails when
\* another statement took the number in between.
CreateVersionReads(p, s) ==
    /\ catCalls[p].pc = "idle"
    /\ LET n == Max({0} \union {catRows[i].key[2] : i \in Versions(s)}) + 1 IN
       catCalls' = [catCalls EXCEPT ![p] =
          [pc |-> "version", id |-> s, row |-> Row("versions", {s}, <<s, n>>, "v", "v", "")]]
    /\ UNCHANGED <<catRows, catNext, catWrites>>

CreateVersion(p) ==
    /\ catCalls[p].pc = "version"
    /\ Insert(catCalls[p].row) \/ UNCHANGED <<catRows, catNext, catWrites>>
    /\ catCalls' = [catCalls EXCEPT ![p] = NoStatement]

-----------------------------------------------------------------------------
(* REST handlers: an empty field of a new row is refused, an empty or missing  *)
(* field of a change leaves the column as it is.                               *)

RestText(old, v) == IF v \in {"nil", ""} THEN old ELSE v
RestJSON(old, v) == IF v = "nil" THEN old ELSE v

\* Get, then the change; Update writes it.
GetToChange(p, tbl, change(_)) ==
    /\ catCalls[p].pc = "idle" /\ catWrites < CatMaxWrites
    /\ \E i \in Of(tbl) :
          catCalls' = [catCalls EXCEPT ![p] =
             [pc |-> "update", id |-> i, row |-> change(catRows[i])]]
    /\ UNCHANGED <<catRows, catNext, catWrites>>

CreateConnection(p, a) ==
    a = "x" /\ \E t \in Of("tenants"), k \in Of("connectors") :
                   Atomically(p, ConnectionRepoCreate(t, k, a))
UpdateConnection(p, a, b) ==
    GetToChange(p, "connections",
                LAMBDA r : [r EXCEPT !.a = RestText(@, a), !.b = RestJSON(@, b)])
DeleteConnection(p) == \E i \in Of("connections") : Atomically(p, Delete(i))

\* source and destination are not looked up: the foreign keys refuse what is not there
CreateSync(p, a) ==
    a = "x" /\ \E t \in Of("tenants"), s, d \in Of("connections") :
                   Atomically(p, SyncRepoCreate(t, s, d, a))
UpdateSync(p, a, b) ==
    GetToChange(p, "syncs", LAMBDA r : [r EXCEPT !.a = RestText(@, a), !.b = RestJSON(@, b)])
DeleteSync(p) == \E i \in Of("syncs") : Atomically(p, Delete(i))
TriggerSync(p) == \E s \in Of("syncs") : Atomically(p, CreateRun(s))
PauseSync(p) == Atomically(p, UpdateStatus("syncs", "paused"))
ResumeSync(p) == Atomically(p, UpdateStatus("syncs", "active"))

InsertTenant(p, a) == a = "x" /\ Atomically(p, TenantRepoCreate("ns2", a))
UpdateTenant(p, a, b) ==
    GetToChange(p, "tenants", LAMBDA r : [r EXCEPT !.a = RestText(@, a), !.b = RestJSON(@, b)])
CreateMapping(p, a) == a = "x" /\ \E s \in Of("syncs") : Atomically(p, MappingCreate(s, a))
UpdateMapping(p, a, b) ==
    GetToChange(p, "mappings", LAMBDA r : [r EXCEPT !.a = RestText(@, a), !.b = RestText(@, b)])
RegisterMCPServer(p, a) ==
    a = "x" /\ \E t \in Of("tenants") : Atomically(p, MCPServerCreate(t, a))
UpdateMCPServer(p, a, b) ==
    GetToChange(p, "mcp", LAMBDA r : [r EXCEPT !.a = RestText(@, a), !.b = RestJSON(@, b)])
DeleteMCPServer(p) == \E i \in Of("mcp") : Atomically(p, Delete(i))
DiscoverStreams(p) ==
    \E c \in Of("connections"), ns \in {"", "public"} : Atomically(p, UpsertBatch(c, ns))

-----------------------------------------------------------------------------
(* GraphQL mutations: fields are not checked; only a missing one leaves the    *)
(* column as it is.                                                            *)

GqlText(old, v) == IF v = "nil" THEN old ELSE v
Given(v) == IF v = "nil" THEN "" ELSE v      \* stringVar

MutationCreateConnection(p, a) ==
    \E t \in Of("tenants"), k \in Of("connectors") :
        Atomically(p, ConnectionRepoCreate(t, k, Given(a)))
MutationUpdateConnection(p, a, b) ==
    GetToChange(p, "connections",
                LAMBDA r : [r EXCEPT !.a = GqlText(@, a), !.b = GqlText(@, b)])
MutationDeleteConnection(p) == DeleteConnection(p)
MutationCreateSync(p, a) ==
    \E t \in Of("tenants"), s, d \in Of("connections") :
        Atomically(p, SyncRepoCreate(t, s, d, Given(a)))
MutationUpdateSync(p, a, b) ==
    GetToChange(p, "syncs", LAMBDA r : [r EXCEPT !.a = GqlText(@, a), !.b = GqlText(@, b)])
\* These go to the repositories and services that the REST handlers use.
MutationDeleteSync(p) == DeleteSync(p)
MutationTriggerSync(p) == TriggerSync(p)
MutationPauseSync(p) == PauseSync(p)
MutationResumeSync(p) == ResumeSync(p)
MutationDeleteMCPServer(p) == DeleteMCPServer(p)
MutationDiscoverStreams(p) == DiscoverStreams(p)
MutationCreateTenant(p, a) == Atomically(p, TenantRepoCreate("ns2", Given(a)))
MutationUpdateTenant(p, a, b) ==
    GetToChange(p, "tenants", LAMBDA r : [r EXCEPT !.a = GqlText(@, a), !.b = GqlText(@, b)])
MutationCreateFieldMapping(p, a) ==
    \E s \in Of("syncs") : Atomically(p, MappingCreate(s, Given(a)))
MutationUpdateFieldMapping(p, a, b) ==
    GetToChange(p, "mappings", LAMBDA r : [r EXCEPT !.a = GqlText(@, a), !.b = GqlText(@, b)])
MutationRegisterMCPServer(p, a) ==
    \E t \in Of("tenants") : Atomically(p, MCPServerCreate(t, Given(a)))
MutationUpdateMCPServer(p, a, b) ==
    GetToChange(p, "mcp", LAMBDA r : [r EXCEPT !.a = GqlText(@, a), !.b = GqlText(@, b)])

executeMutation(p) ==
    \/ MutationDeleteSync(p) \/ MutationTriggerSync(p) \/ MutationPauseSync(p)
    \/ MutationResumeSync(p) \/ MutationDeleteMCPServer(p) \/ MutationDiscoverStreams(p)
    \/ \E q \in CatRequests : LET a == q[1] b == q[2] IN
        \/ MutationCreateConnection(p, a) \/ MutationUpdateConnection(p, a, b)
        \/ MutationDeleteConnection(p)
        \/ MutationCreateSync(p, a) \/ MutationUpdateSync(p, a, b)
        \/ MutationCreateTenant(p, a) \/ MutationUpdateTenant(p, a, b)
        \/ MutationCreateFieldMapping(p, a) \/ MutationUpdateFieldMapping(p, a, b)
        \/ MutationRegisterMCPServer(p, a) \/ MutationUpdateMCPServer(p, a, b)

CatalogNext ==
    \/ \E p \in CatProcs :
         \/ \E q \in CatRequests : LET a == q[1] b == q[2] IN
              \/ CreateConnection(p, a) \/ UpdateConnection(p, a, b)
              \/ CreateSync(p, a) \/ UpdateSync(p, a, b)
              \/ InsertTenant(p, a) \/ UpdateTenant(p, a, b)
              \/ CreateMapping(p, a) \/ UpdateMapping(p, a, b)
              \/ RegisterMCPServer(p, a) \/ UpdateMCPServer(p, a, b)
         \/ DeleteConnection(p) \/ DeleteSync(p) \/ DeleteMCPServer(p)
         \/ TriggerSync(p) \/ PauseSync(p) \/ ResumeSync(p) \/ DiscoverStreams(p)
         \/ executeMutation(p)
         \/ \E t \in Of("tenants") : Atomically(p, ConnectorRepoCreate(t, "crm2"))
         \/ \E i \in Of("connectors") \union Of("tenants") : Atomically(p, Delete(i))
         \/ \E s \in Of("syncs") : Atomically(p, SaveState(s))
         \/ \E s \in Of("streams") : CreateVersionReads(p, s)
         \/ CreateVersion(p) \/ Update(p)

CatalogSpec == CatalogInit /\ [][CatalogNext]_catVars

-----------------------------------------------------------------------------
\* The versions of a stream are numbered 1, 2, ... without a gap or a double, although
\* CreateVersion computes the next number from a snapshot.
SchemaVersionsContiguous ==
    \A s \in Of("streams") :
        {catRows[i].key[2] : i \in Versions(s)} = 1..Cardinality(Versions(s))

\* With the types: no row refers to one that is gone, whatever stale rows are written
\* back while others are deleted.
CatalogTypeOK ==
    /\ DOMAIN catRows \subseteq 1..(catNext - 1) /\ catWrites \in 0..CatMaxWrites
    /\ \A p \in CatProcs : catCalls[p].pc \in {"idle", "update", "version"}
    /\ \A i \in DOMAIN catRows : catRows[i].refs \subseteq DOMAIN catRows
    /\ SchemaVersionsContiguous
=============================================================================
