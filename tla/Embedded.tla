------------------------------ MODULE Embedded ------------------------------
(***************************************************************************)
(* Embedded integrations: embedded/lifecycle/manager.go over its in-memory *)
(* repository, embedded/oauth/manager.go, and the handlers of              *)
(* api/rest/oauth_handlers.go.                                             *)
(*                                                                         *)
(* The lifecycle manager reads a copy of a row and writes the whole row    *)
(* back, with no lock between; the OAuth manager calls the provider        *)
(* between two critical sections.  A behaviour is about one of the two.    *)
(***************************************************************************)
EXTENDS Integers, Sequences, FiniteSets

CONSTANTS EmbProcs,     \* goroutines: requests, and syncs that report
          EmbKinds,     \* among "lifecycle", "oauth"
          EmbWindow,    \* ticks a pending flow is good for
          EmbMaxTick,   \* bound: clock
          EmbMaxRows,   \* bound: integrations created
          EmbMaxFlows,  \* bound: flows started
          EmbMaxSyncs   \* bound: SyncCount

ASSUME EmbeddedAssumption == 
    {EmbWindow, EmbMaxTick, EmbMaxRows, EmbMaxFlows, EmbMaxSyncs} \subseteq Nat

VARIABLES embKind, embNow,
          embProcs,    \* of each goroutine: where it is, the id it works on, what it has read
          embRows,     \* integrations, by number
          embIndex,    \* tenantIndex of the tenant
          embFlows,    \* pendingFlows: of a state the time it was made
          embStarted,  \* states made so far
          embTokens,   \* tokens, by connection, which is a state's prefix
          embGrants    \* history: the provider's answers: codes exchanged, by state, and
                       \* the refresh token it honours, by connection

embVars == <<embKind, embNow, embProcs, embRows, embIndex, embFlows, embStarted,
             embTokens, embGrants>>
lifecycleVars == <<embRows, embIndex>>
oauthVars == <<embFlows, embStarted, embTokens, embGrants>>

EmbIdle == [pc |-> "idle", id |-> 0, got |-> <<>>]
Moves(p, pc, id, got) == embProcs' = [embProcs EXCEPT ![p] = [pc |-> pc, id |-> id, got |-> got]]
Ends(p) == embProcs' = [embProcs EXCEPT ![p] = EmbIdle]

EmbeddedInit ==
    /\ embKind \in EmbKinds /\ embNow = 0
    /\ embProcs = [p \in EmbProcs |-> EmbIdle]
    /\ embRows = <<>> /\ embIndex = {}
    /\ embFlows = <<>> /\ embStarted = 0 /\ embTokens = <<>>
    /\ embGrants = [codes |-> <<>>, refresh |-> <<>>]

EmbTick ==
    /\ embKind = "oauth" /\ embNow < EmbMaxTick /\ embNow' = embNow + 1
    /\ UNCHANGED <<embKind, embProcs, lifecycleVars, oauthVars>>

-----------------------------------------------------------------------------
(* The lifecycle of integrations.                                           *)

CreateIntegration ==
    /\ embKind = "lifecycle" /\ Len(embRows) < EmbMaxRows
    /\ embRows' = Append(embRows, [status |-> "created", error |-> FALSE, syncs |-> 0,
                                   config |-> 1])
    /\ embIndex' = embIndex \union {Len(embRows) + 1}
    /\ UNCHANGED <<embKind, embNow, embProcs, oauthVars>>

\* GetByID copies the row; what op makes of it is written later.
Gets(p, id, row, refusesDeleted) ==
    /\ embKind = "lifecycle" /\ embProcs[p].pc = "idle"
    /\ refusesDeleted => embRows[id].status # "deleted"
    /\ Moves(p, "update", id, row)
    /\ UNCHANGED <<embKind, embNow, lifecycleVars, oauthVars>>

EnableIntegration(p, id) ==
    Gets(p, id, [embRows[id] EXCEPT !.status = "enabled", !.error = FALSE], TRUE)
DisableIntegration(p, id) == Gets(p, id, [embRows[id] EXCEPT !.status = "disabled"], TRUE)
UpdateConfig(p, id) == \E c \in 1..2 : Gets(p, id, [embRows[id] EXCEPT !.config = c], TRUE)

\* These two do not look at the status.
RecordSync(p, id) ==
    embRows[id].syncs < EmbMaxSyncs /\ Gets(p, id, [embRows[id] EXCEPT !.syncs = @ + 1], FALSE)
SetError(p, id) ==
    Gets(p, id, [embRows[id] EXCEPT !.status = "error", !.error = TRUE], FALSE)

\* The whole row replaces whatever is there.
InMemoryUpdate(p) ==
    /\ embProcs[p].pc = "update"
    /\ embRows' = [embRows EXCEPT ![embProcs[p].id] = embProcs[p].got]
    /\ Ends(p)
    /\ UNCHANGED <<embKind, embNow, embIndex, oauthVars>>

\* In one critical section: the status, and the id leaves the index, by which the
\* integrations are listed; a row that is written back later does not enter it again.
InMemoryDelete(id) ==
    /\ embKind = "lifecycle"
    /\ embRows' = [embRows EXCEPT ![id].status = "deleted"]
    /\ embIndex' = embIndex \ {id}
    /\ UNCHANGED <<embKind, embNow, embProcs, oauthVars>>

-----------------------------------------------------------------------------
(* OAuth.  The states of flows are numbered: 64 random hex digits.          *)

Flow(state) == embFlows[state].pending

\* Initiate, and Reauthorize of a connection whose tokens still name their connector:
\* that makes a new flow, and in the end a new connection.  cleanupExpiredFlows runs
\* in a goroutine of its own, later.
StartOAuthFlow ==
    /\ embKind = "oauth" /\ embStarted < EmbMaxFlows
    /\ embStarted' = embStarted + 1
    /\ embFlows' = Append(embFlows, [pending |-> TRUE, created |-> embNow])
    /\ embTokens' = Append(embTokens, [stored |-> FALSE, refresh |-> 0, typed |-> FALSE,
                                       sealed |-> FALSE])
    /\ embGrants' = [codes |-> Append(embGrants.codes, 0),
                     refresh |-> Append(embGrants.refresh, 0)]
    /\ UNCHANGED <<embKind, embNow, embProcs, lifecycleVars>>

Reauthorize(conn) == embTokens[conn].stored /\ embTokens[conn].typed /\ StartOAuthFlow

cleanupExpiredFlows ==
    LET old == {s \in 1..embStarted : Flow(s) /\ embFlows[s].created < embNow - EmbWindow} IN
    /\ old # {}
    /\ embFlows' = [s \in 1..embStarted |-> [embFlows[s] EXCEPT !.pending = @ /\ s \notin old]]
    /\ UNCHANGED <<embKind, embNow, embProcs, embStarted, embTokens, embGrants, lifecycleVars>>

HandleCallbackKeepsFlow(p, state) ==
    /\ embKind = "oauth" /\ embProcs[p].pc = "idle" /\ Flow(state)
    /\ IF embNow - embFlows[state].created > EmbWindow THEN Ends(p)
       ELSE Moves(p, "exchange", state, <<>>)
    /\ UNCHANGED <<embKind, embNow, lifecycleVars, oauthVars>>

\* The flow is found and deleted in one critical section; a flow that is too old is
\* gone too, and the caller gets an error, as it does for a state that is not there.
HandleCallback(p, state) ==
    /\ embKind = "oauth" /\ embProcs[p].pc = "idle" /\ Flow(state)
    /\ embFlows' = [embFlows EXCEPT ![state].pending = FALSE]
    /\ IF embNow - embFlows[state].created > EmbWindow THEN Ends(p)
       ELSE Moves(p, "exchange", state, <<>>)
    /\ UNCHANGED <<embKind, embNow, embStarted, embTokens, embGrants, lifecycleVars>>

\* doTokenRequest: the provider gives tokens, with or without one for refreshing, or
\* gives them and the answer is lost, or refuses; an error ends the callback.
exchangeCode(p) ==
    LET s == embProcs[p].id IN
    /\ embProcs[p].pc = "exchange"
    /\ \/ \E refresh \in 0..1 :
            /\ embGrants' = [codes |-> [embGrants.codes EXCEPT ![s] = @ + 1],
                             refresh |-> [embGrants.refresh EXCEPT ![s] = refresh]]
            /\ \/ Moves(p, "store", s, <<refresh>>)
               \/ Ends(p)
       \/ Ends(p) /\ UNCHANGED embGrants
    /\ UNCHANGED <<embKind, embNow, embFlows, embStarted, embTokens, lifecycleVars>>

\* Callback: the access token is encrypted if there is an encryptor and it works, and
\* StoreTokens keeps the tokens under the connection.
StoreTokens(p) ==
    LET s == embProcs[p].id IN
    /\ embProcs[p].pc = "store"
    /\ \E sealed \in BOOLEAN :
         embTokens' = [embTokens EXCEPT ![s] = [stored |-> TRUE, typed |-> TRUE,
                         refresh |-> embProcs[p].got[1], sealed |-> sealed]]
    /\ Ends(p)
    /\ UNCHANGED <<embKind, embNow, embFlows, embStarted, embGrants, lifecycleVars>>

\* RefreshToken reads the tokens; without a refresh token or a connector it gives up.
\* (The connector's configuration, once registered, is not removed.)
RefreshToken(p, conn) ==
    /\ embKind = "oauth" /\ embProcs[p].pc = "idle"
    /\ embTokens[conn].stored /\ embTokens[conn].typed /\ embTokens[conn].refresh # 0
    /\ Moves(p, "refresh", conn, <<embTokens[conn].refresh>>)
    /\ UNCHANGED <<embKind, embNow, lifecycleVars, oauthVars>>

\* A provider that gives a new refresh token no longer honours the old one.
doRefresh(p) ==
    LET s == embProcs[p].id
        old == embProcs[p].got[1] IN
    /\ embProcs[p].pc = "refresh"
    /\ \/ /\ embGrants.refresh[s] = old
          /\ \/ Moves(p, "keep", s, <<old, 0>>) /\ UNCHANGED embGrants
             \/ /\ embGrants' = [embGrants EXCEPT !.refresh[s] = old + 1]
                /\ Moves(p, "keep", s, <<old, old + 1>>)
             \/ embGrants' = [embGrants EXCEPT !.refresh[s] = 0] /\ Ends(p)
       \/ Ends(p) /\ UNCHANGED embGrants
    /\ UNCHANGED <<embKind, embNow, embFlows, embStarted, embTokens, lifecycleVars>>

\* The answer replaces the tokens; the old refresh token stays if there is no new one.
\* The answer names no connector, so these tokens cannot be refreshed again.
RefreshedTokens(p) ==
    LET s == embProcs[p].id
        got == embProcs[p].got IN
    /\ embProcs[p].pc = "keep"
    /\ embTokens' = [embTokens EXCEPT ![s] = [stored |-> TRUE, typed |-> FALSE, sealed |-> FALSE,
                       refresh |-> IF got[2] # 0 THEN got[2] ELSE got[1]]]
    /\ Ends(p)
    /\ UNCHANGED <<embKind, embNow, embFlows, embStarted, embGrants, lifecycleVars>>

EmbeddedNext ==
    \/ EmbTick \/ CreateIntegration \/ StartOAuthFlow \/ cleanupExpiredFlows
    \/ \E id \in 1..Len(embRows) : InMemoryDelete(id)
    \/ \E conn \in 1..Len(embTokens) : Reauthorize(conn)
    \/ \E p \in EmbProcs :
         \/ InMemoryUpdate(p) \/ exchangeCode(p) \/ StoreTokens(p) \/ doRefresh(p)
         \/ RefreshedTokens(p)
         \/ \E id \in 1..Len(embRows) :
              \/ EnableIntegration(p, id) \/ DisableIntegration(p, id)
              \/ UpdateConfig(p, id) \/ RecordSync(p, id) \/ SetError(p, id)
         \/ \E s \in 1..embStarted : HandleCallback(p, s) \/ RefreshToken(p, s)

EmbeddedSpec == EmbeddedInit /\ [][EmbeddedNext]_embVars

-----------------------------------------------------------------------------
EmbeddedTypeOK ==
    /\ embKind \in EmbKinds /\ embNow \in 0..EmbMaxTick /\ embStarted \in 0..EmbMaxFlows
    /\ embIndex \subseteq 1..Len(embRows)
    /\ \A id \in 1..Len(embRows) : embRows[id].syncs \in 0..EmbMaxSyncs
    /\ {Len(embFlows), Len(embTokens), Len(embGrants.codes), Len(embGrants.refresh)}
           = {embStarted}

\* A flow's code is exchanged once, however often and from however many goroutines its
\* callback arrives, and whatever cleanup runs meanwhile.
ExchangedOnce == \A s \in 1..embStarted : embGrants.codes[s] <= 1
=============================================================================
