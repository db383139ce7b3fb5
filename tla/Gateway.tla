------------------------------ MODULE Gateway ------------------------------
(***************************************************************************)
(* The MCP gateway: mcp/gateway/gateway.go, the sandbox of its tools       *)
(* (mcp/security/sandbox.go), and its transports (mcp/gateway/transport:   *)
(* sse.go, websocket.go, stdio.go).                                        *)
(*                                                                         *)
(* A behaviour has one transport.  Requests of several clients are in the  *)
(* sandbox at once, except over stdio, and a tool that was given up goes   *)
(* on in its goroutine.                                                    *)
(***************************************************************************)
EXTENDS Integers, Sequences, FiniteSets

CONSTANTS GwTransports,   \* among "sse", "websocket", "stdio"
          GwClients,
          GwEvents,       \* events a stream of SSE holds
          GwMaxRequests   \* bound: requests

ASSUME GatewayAssumption == GwEvents \in Nat /\ GwMaxRequests \in Nat \ {0}

VARIABLES gwKind,
          gwState,     \* of the gateway and its server: "new", "runs", "stopping" once the
                       \* clients were closed, "stopped" once the server was shut down
          gwMap,       \* clients, or conns: the connections in the map
          gwOpen,      \* connections whose handler runs and that were not closed
          gwQueue,     \* SSE: events waiting, by connection
          gwReqs,      \* requests, in order: client, where it is, whether
                       \* its answer is a success, and whether it called Execute
          gwTools,     \* of each request the goroutine of its tool: "none", "runs", or what
                       \* it put into resultCh
          gwAudit,     \* auditLog: the request, and Success
          gwPushed,    \* history: how often the response of each was put on a stream
          gwAnswered   \* history: how often it was written as the answer of the request

gwVars == <<gwKind, gwState, gwMap, gwOpen, gwQueue, gwReqs, gwTools,
            gwAudit, gwPushed, gwAnswered>>
connVars == <<gwKind, gwState, gwMap, gwOpen, gwQueue>>

Requests == 1..Len(gwReqs)
Busy(r) == gwReqs[r].pc \in {"route", "execute", "answer", "pushed"}

GatewayInit ==
    /\ gwKind \in GwTransports /\ gwState = "new"
    /\ gwMap = {} /\ gwOpen = {} /\ gwQueue = [c \in GwClients |-> 0]
    /\ gwReqs = <<>> /\ gwTools = <<>> /\ gwAudit = <<>>
    /\ gwPushed = <<>> /\ gwAnswered = <<>>

-----------------------------------------------------------------------------
(* The gateway and the server of its transport.                             *)

\* A second Start is refused; so is one without a transport.
GatewayStart ==
    /\ gwState = "new" /\ gwState' = "runs"
    /\ UNCHANGED <<gwKind, gwMap, gwOpen, gwQueue, gwReqs, gwTools, gwAudit,
                   gwPushed, gwAnswered>>

\* Stop, called when the context is done, when a transport failed (the server, or the
\* reading of stdin), or by somebody else: the connections in the map are closed and the
\* map is replaced.  A stdin at its end, or one whose error is missed because the closed
\* channel of lines is seen first, stops nothing.
StopClosesClients ==
    /\ gwState = "runs" /\ gwState' = "stopping"
    /\ gwOpen' = gwOpen \ gwMap /\ gwMap' = {}
    /\ UNCHANGED <<gwKind, gwQueue, gwReqs, gwTools, gwAudit, gwPushed, gwAnswered>>

SSEStop == gwKind = "sse" /\ StopClosesClients
WSStop == gwKind = "websocket" /\ StopClosesClients
StdioStop == gwKind = "stdio" /\ StopClosesClients

\* server.Shutdown, which waits for the handlers for five seconds at most.
StopShutsDown ==
    /\ gwState = "stopping" /\ gwState' = "stopped"
    /\ UNCHANGED <<gwKind, gwMap, gwOpen, gwQueue, gwReqs, gwTools, gwAudit,
                   gwPushed, gwAnswered>>

\* handleSSE, handleWS: also between the closing of the clients and the shutdown.
Connects(c) ==
    /\ gwState \in {"runs", "stopping"} /\ c \notin gwOpen \union gwMap
    /\ gwKind # "stdio" \/ (gwState = "runs" /\ gwOpen = {})
    /\ gwOpen' = gwOpen \union {c}
    /\ gwMap' = IF gwKind = "stdio" THEN gwMap ELSE gwMap \union {c}
    /\ gwQueue' = [gwQueue EXCEPT ![c] = 0]
    /\ UNCHANGED <<gwKind, gwState, gwReqs, gwTools, gwAudit, gwPushed, gwAnswered>>

\* The client leaves, a ping fails, the connection was closed: out of the map, and done.
Disconnects(c) ==
    /\ c \in gwOpen \union gwMap
    /\ gwOpen' = gwOpen \ {c} /\ gwMap' = gwMap \ {c}
    /\ UNCHANGED <<gwKind, gwState, gwQueue, gwReqs, gwTools, gwAudit,
                   gwPushed, gwAnswered>>

\* The loop of handleSSE writes an event.
StreamWrites(c) ==
    /\ gwKind = "sse" /\ c \in gwOpen /\ gwQueue[c] > 0
    /\ gwQueue' = [gwQueue EXCEPT ![c] = @ - 1]
    /\ UNCHANGED <<gwKind, gwState, gwMap, gwOpen, gwReqs, gwTools, gwAudit,
                   gwPushed, gwAnswered>>

-----------------------------------------------------------------------------
(* A request.                                                               *)

\* handleMessage has the request of a client that may have no stream any more; the read
\* loop of a WebSocket starts a goroutine for each; stdio handles one at a time.
RequestArrives(c) ==
    /\ Len(gwReqs) < GwMaxRequests /\ gwState \in {"runs", "stopping"}
    /\ gwKind = "sse" \/ c \in gwOpen
    /\ gwKind = "stdio" => \A r \in Requests : ~Busy(r)
    /\ gwReqs' = Append(gwReqs, [client |-> c, pc |-> "route", ok |-> FALSE,
                                 ran |-> FALSE])
    /\ gwTools' = Append(gwTools, "none")
    /\ gwPushed' = Append(gwPushed, 0) /\ gwAnswered' = Append(gwAnswered, 0)
    /\ UNCHANGED <<connVars, gwAudit>>

\* initialize, the lists and ping answer; a method that there is not is an error.
routeRequest(r) ==
    /\ gwReqs[r].pc = "route"
    /\ \E ok \in BOOLEAN : gwReqs' = [gwReqs EXCEPT ![r].pc = "answer", ![r].ok = ok]
    /\ UNCHANGED <<connVars, gwTools, gwAudit, gwPushed, gwAnswered>>

\* A tool or parameters that there are not; a refusal of the rate limiter, the
\* permissions or the scopes, which an agent without a name does not meet.
handleToolsCallRefuses(r) ==
    /\ gwReqs[r].pc = "route"
    /\ gwReqs' = [gwReqs EXCEPT ![r].pc = "answer", ![r].ok = FALSE]
    /\ UNCHANGED <<connVars, gwTools, gwAudit, gwPushed, gwAnswered>>

\* The end of Execute: the deferred function records the entry, and the caller answers.
recordAudit(r, ok) ==
    /\ gwAudit' = Append(gwAudit, [req |-> r, ok |-> ok])
    /\ gwReqs' = [gwReqs EXCEPT ![r].pc = "answer", ![r].ok = ok]

\* Execute: the tool runs in a goroutine of its own, unless the memory is over its
\* limit; then Execute fails without it.
ExecuteStarts(r) ==
    /\ gwReqs[r].pc = "route"
    /\ gwReqs' = [gwReqs EXCEPT ![r].pc = "execute", ![r].ran = TRUE]
    /\ gwTools' \in {gwTools, [gwTools EXCEPT ![r] = "runs"]}
    /\ UNCHANGED <<connVars, gwAudit, gwPushed, gwAnswered>>

\* The tool returns, fails or panics, perhaps long after its caller has gone; a result
\* larger than the limit counts as an error.
ToolReturns(r) ==
    /\ gwTools[r] = "runs"
    /\ \E result \in {"ok", "error"} : gwTools' = [gwTools EXCEPT ![r] = result]
    /\ UNCHANGED <<connVars, gwReqs, gwAudit, gwPushed, gwAnswered>>

ExecuteGivesUpUnaudited(r) ==
    /\ gwReqs[r].pc = "execute"
    /\ gwReqs' = [gwReqs EXCEPT ![r].pc = "answer", ![r].ok = FALSE]
    /\ UNCHANGED <<connVars, gwTools, gwAudit, gwPushed, gwAnswered>>

\* The deadline of the sandbox, or the end of the request's context, also when the
\* result is there by then; or the memory limit.
ExecuteGivesUp(r) ==
    /\ gwReqs[r].pc = "execute" /\ recordAudit(r, FALSE)
    /\ UNCHANGED <<connVars, gwTools, gwPushed, gwAnswered>>

ExecuteReturns(r) ==
    /\ gwReqs[r].pc = "execute" /\ gwTools[r] \in {"ok", "error"}
    /\ recordAudit(r, gwTools[r] = "ok")
    /\ UNCHANGED <<connVars, gwTools, gwPushed, gwAnswered>>

\* SSE: onto the stream, if the client has one with room; the answer follows all the same.
Push(r) ==
    LET c == gwReqs[r].client
        room == c \in gwMap /\ gwQueue[c] < GwEvents IN
    /\ gwKind = "sse" /\ gwReqs[r].pc = "answer"
    /\ gwReqs' = [gwReqs EXCEPT ![r].pc = "pushed"]
    /\ gwQueue' = IF room THEN [gwQueue EXCEPT ![c] = @ + 1] ELSE gwQueue
    /\ gwPushed' = IF room THEN [gwPushed EXCEPT ![r] = @ + 1] ELSE gwPushed
    /\ UNCHANGED <<gwKind, gwState, gwMap, gwOpen, gwTools, gwAudit, gwAnswered>>

\* SSE: the body of the POST; WebSocket and stdio: written under a lock, or lost with the
\* connection.
Answer(r) ==
    /\ gwReqs[r].pc = IF gwKind = "sse" THEN "pushed" ELSE "answer"
    /\ gwReqs' = [gwReqs EXCEPT ![r].pc = "done"]
    /\ gwAnswered' = [gwAnswered EXCEPT ![r] =
                        IF gwKind = "sse" \/ gwReqs[r].client \in gwOpen THEN @ + 1 ELSE @]
    /\ UNCHANGED <<connVars, gwTools, gwAudit, gwPushed>>

GatewayNext ==
    \/ GatewayStart \/ SSEStop \/ WSStop \/ StdioStop \/ StopShutsDown
    \/ \E c \in GwClients :
         Connects(c) \/ Disconnects(c) \/ StreamWrites(c) \/ RequestArrives(c)
    \/ \E r \in Requests :
         \/ routeRequest(r) \/ handleToolsCallRefuses(r) \/ ExecuteStarts(r)
         \/ ToolReturns(r) \/ ExecuteGivesUp(r) \/ ExecuteReturns(r)
         \/ Push(r) \/ Answer(r)

GatewaySpec == GatewayInit /\ [][GatewayNext]_gwVars

-----------------------------------------------------------------------------
GatewayTypeOK ==
    /\ gwKind \in GwTransports /\ gwState \in {"new", "runs", "stopping", "stopped"}
    /\ gwMap \union gwOpen \subseteq GwClients /\ gwQueue \in [GwClients -> 0..GwEvents]
    /\ Len(gwReqs) <= GwMaxRequests
    /\ {Len(gwTools), Len(gwPushed), Len(gwAnswered)} = {Len(gwReqs)}

\* Every tool call has one entry in the audit log, agreeing with its response and written
\* before anything of it goes out, whichever of the tool, the deadline and the client is
\* first, and although the tool of a call that was given up may still return.  A
\* response goes out once at most as the answer of its request; over SSE it "also" goes
\* onto the client's stream (sse.go:217), so that client can have it twice.
AuditedOnce ==
    \A r \in Requests :
       LET entries == {i \in 1..Len(gwAudit) : gwAudit[i].req = r} IN
       /\ gwAnswered[r] <= 1 /\ gwPushed[r] <= IF gwKind = "sse" THEN 1 ELSE 0
       /\ gwPushed[r] + gwAnswered[r] > 0 => gwReqs[r].pc \in {"pushed", "done"}
       /\ Cardinality(entries) = IF gwReqs[r].ran /\ gwReqs[r].pc # "execute"
                                  THEN 1 ELSE 0
       /\ \A i \in entries : gwAudit[i].ok = gwReqs[r].ok
=============================================================================
