------------------------------ MODULE Runtime ------------------------------
(***************************************************************************)
(* The connector runtime: connector/runtime/runtime.go and sandbox.go.     *)
(*                                                                         *)
(* A behaviour is one ExecuteRead or one ExecuteWrite.  Both put a         *)
(* goroutine, the relay, between two channels: a read relays what the      *)
(* connector sends to the caller's channel, a write relays the caller's    *)
(* input to the connector.  The connector runs in a goroutine that         *)
(* RunInSandbox starts and leaves alone when the context is done first.    *)
(***************************************************************************)
EXTENDS Integers, Sequences, FiniteSets, SequencesExt

CONSTANTS RtKinds,       \* among "read", "write"
          RtMessages,    \* the messages there are to send: "record" or "state"
          RtCapacity,    \* BatchSize: capacity of the channels
          RtMaxRecords   \* MaxRecords of the sandbox

ASSUME RuntimeAssumption ==
    /\ RtMessages \in Seq({"record", "state"}) /\ Len(RtMessages) > 0
    /\ RtCapacity \in Nat \ {0} /\ RtMaxRecords \in Nat
    /\ RtKinds \subseteq {"read", "write"}

VARIABLES rtKind,
          rtCtx,      \* the context: "open", "cancelled", "deadline", "finished"
          rtSender,   \* the sending side: where it is, and how many messages it has sent
          rtIn,       \* connOut, or input: messages by number, and whether it is closed
          rtRelay,    \* the relay: where it is, the message it holds, records counted
          rtOut,      \* out, or tracked
          rtReceiver, \* the receiving side: where it is, and what it has taken
          rtBox,      \* what RunInSandbox returned
          rtActive,   \* the tracker is in activeExecs
          rtCrashed   \* a panic that nothing recovers

rtVars == <<rtKind, rtCtx, rtSender, rtIn, rtRelay, rtOut, rtReceiver, rtBox, rtActive,
            rtCrashed>>

Channel == [buf |-> <<>>, closed |-> FALSE]
HasRoom(ch) == Len(ch.buf) < RtCapacity
Puts(ch, m) == [ch EXCEPT !.buf = Append(@, m)]
CtxDone == rtCtx # "open"

\* startExecution: the tracker and a context with the sandbox's deadline.
RuntimeInit ==
    /\ rtKind \in RtKinds /\ rtCtx = "open" /\ rtActive = TRUE /\ rtCrashed = FALSE
    /\ rtSender = [pc |-> "send", sent |-> 0]
    /\ rtIn = Channel /\ rtOut = Channel
    /\ rtRelay = [pc |-> "receive", msg |-> 0, count |-> 0]
    /\ rtReceiver = [pc |-> "receive", took |-> <<>>]
    /\ rtBox = "running"

\* CancelExecution, Shutdown and the caller cancel; the deadline passes.
ContextEnds ==
    /\ rtCtx = "open" /\ rtCtx' \in {"cancelled", "deadline"}
    /\ UNCHANGED <<rtKind, rtSender, rtIn, rtRelay, rtOut, rtReceiver, rtBox, rtActive, rtCrashed>>

-----------------------------------------------------------------------------
(* The sending side: src.Read of a read, the caller of a write.             *)

\* A send on the channel that was closed meanwhile panics, in a goroutine without a
\* recover: the one in RunInSandbox is in the goroutine that waits.
Sends ==
    LET next == rtSender.sent + 1 IN
    /\ rtSender.pc = "send" /\ next <= Len(RtMessages)
    /\ \/ /\ ~rtIn.closed /\ HasRoom(rtIn)
          /\ rtIn' = Puts(rtIn, next) /\ rtSender' = [rtSender EXCEPT !.sent = next]
          /\ UNCHANGED rtCrashed
       \/ rtIn.closed /\ rtCrashed' = TRUE /\ UNCHANGED <<rtIn, rtSender>>
    /\ UNCHANGED <<rtKind, rtCtx, rtRelay, rtOut, rtReceiver, rtBox, rtActive>>

\* Read returns at the end, or early with an error; the caller of a write closes its
\* channel at the end.
SenderReturns ==
    /\ rtSender.pc = "send"
    /\ \/ rtSender.sent = Len(RtMessages) /\ rtSender' = [rtSender EXCEPT !.pc = "ok"]
       \/ rtKind = "read" /\ rtSender' = [rtSender EXCEPT !.pc = "error"]
    /\ rtIn' = [rtIn EXCEPT !.closed = @ \/ rtKind = "write"]
    /\ UNCHANGED <<rtKind, rtCtx, rtRelay, rtOut, rtReceiver, rtBox, rtActive, rtCrashed>>

-----------------------------------------------------------------------------
(* RunInSandbox.                                                            *)

\* What the function returned, or an error for a context that is done, whichever the
\* select takes.  After a read the channel it sent on is closed; a write is over.
RunInSandbox ==
    LET fn == IF rtKind = "read" THEN rtSender.pc ELSE rtReceiver.pc IN
    /\ rtBox = "running"
    /\ \/ fn \in {"ok", "error"} /\ rtBox' = fn
       \/ CtxDone /\ rtBox' = IF rtCtx = "deadline" THEN "deadline" ELSE "cancelled"
    /\ rtIn' = [rtIn EXCEPT !.closed = @ \/ rtKind = "read"]
    /\ IF rtKind = "write" THEN rtActive' = FALSE /\ rtCtx' = IF CtxDone THEN rtCtx ELSE "finished"
       ELSE UNCHANGED <<rtActive, rtCtx>>
    /\ UNCHANGED <<rtKind, rtSender, rtRelay, rtOut, rtReceiver, rtCrashed>>

-----------------------------------------------------------------------------
(* The relay.                                                               *)

\* A read's relay also ends its execution: finishExecution, then close(out).
RelayEnds(out) ==
    /\ rtRelay' = [rtRelay EXCEPT !.pc = "ended", !.msg = 0]
    /\ rtOut' = [out EXCEPT !.closed = TRUE]
    /\ IF rtKind = "read" THEN rtActive' = FALSE /\ rtCtx' = IF CtxDone THEN rtCtx ELSE "finished"
       ELSE UNCHANGED <<rtActive, rtCtx>>

\* A record is counted; one too many of a read is not passed on.
RelayReceives ==
    LET m == Head(rtIn.buf)
        count == rtRelay.count + IF RtMessages[m] = "record" THEN 1 ELSE 0
        tooMany == rtKind = "read" /\ RtMaxRecords > 0 /\ count > RtMaxRecords IN
    /\ rtRelay.pc = "receive" /\ rtIn.buf # <<>>
    /\ rtIn' = [rtIn EXCEPT !.buf = Tail(@)]
    /\ rtRelay' = [pc |-> IF tooMany /\ RtMessages[m] = "record" THEN "warn" ELSE "forward",
                   msg |-> m, count |-> count]
    /\ UNCHANGED <<rtKind, rtCtx, rtSender, rtOut, rtReceiver, rtBox, rtActive, rtCrashed>>

RelayForwards ==
    /\ rtRelay.pc = "forward"
    /\ \/ /\ HasRoom(rtOut) /\ rtOut' = Puts(rtOut, rtRelay.msg)
          /\ rtRelay' = [rtRelay EXCEPT !.pc = "receive", !.msg = 0]
          /\ UNCHANGED <<rtActive, rtCtx>>
       \/ CtxDone /\ RelayEnds(rtOut)
    /\ UNCHANGED <<rtKind, rtSender, rtIn, rtReceiver, rtBox, rtCrashed>>

\* A warning, sent whether or not anybody receives, cancel and return.
RelayWarns ==
    /\ rtRelay.pc = "warn" /\ HasRoom(rtOut)
    /\ RelayEnds(Puts(rtOut, 0))
    /\ UNCHANGED <<rtKind, rtSender, rtIn, rtReceiver, rtBox, rtCrashed>>

RelayFinishesQuietly ==
    /\ rtRelay.pc = "receive" /\ rtIn.closed /\ rtIn.buf = <<>>
    /\ RelayEnds(rtOut)
    /\ UNCHANGED <<rtKind, rtSender, rtIn, rtReceiver, rtBox, rtCrashed>>

\* The channel is closed and drained: a read's error is sent as a log message.
RelayFinishes ==
    /\ rtRelay.pc = "receive" /\ rtIn.closed /\ rtIn.buf = <<>>
    /\ \/ rtKind = "write" /\ RelayEnds(rtOut)
       \/ rtKind = "read" /\ rtBox = "ok" /\ RelayEnds(rtOut)
       \/ rtKind = "read" /\ rtBox # "ok" /\ HasRoom(rtOut) /\ RelayEnds(Puts(rtOut, 0))
    /\ UNCHANGED <<rtKind, rtSender, rtIn, rtReceiver, rtBox, rtCrashed>>

-----------------------------------------------------------------------------
(* The receiving side: the caller of a read, dst.Write of a write.          *)

ReceiverTakes ==
    /\ rtReceiver.pc = "receive" /\ rtOut.buf # <<>>
    /\ rtReceiver' = [rtReceiver EXCEPT !.took = Append(@, Head(rtOut.buf))]
    /\ rtOut' = [rtOut EXCEPT !.buf = Tail(@)]
    /\ UNCHANGED <<rtKind, rtCtx, rtSender, rtIn, rtRelay, rtBox, rtActive, rtCrashed>>

\* The end of the input, or, of a write, an error before that; the caller of a read
\* may also stop receiving.
ReceiverReturns ==
    /\ rtReceiver.pc = "receive"
    /\ \/ /\ rtOut.closed /\ rtOut.buf = <<>>
          /\ rtReceiver' = [rtReceiver EXCEPT !.pc = "ok"]
       \/ rtReceiver' = [rtReceiver EXCEPT !.pc = "error"]
    /\ UNCHANGED <<rtKind, rtCtx, rtSender, rtIn, rtRelay, rtOut, rtBox, rtActive, rtCrashed>>

RuntimeNext ==
    /\ ~rtCrashed
    /\ \/ ContextEnds \/ Sends \/ SenderReturns \/ RunInSandbox
       \/ RelayReceives \/ RelayForwards \/ RelayWarns \/ RelayFinishes
       \/ ReceiverTakes \/ ReceiverReturns

RuntimeSpec == RuntimeInit /\ [][RuntimeNext]_rtVars

-----------------------------------------------------------------------------
RuntimeTypeOK ==
    /\ rtKind \in RtKinds /\ rtCtx \in {"open", "cancelled", "deadline", "finished"}
    /\ Len(rtIn.buf) <= RtCapacity /\ Len(rtOut.buf) <= RtCapacity
    /\ rtSender.sent \in 0..Len(RtMessages) /\ rtRelay.count \in 0..Len(RtMessages)
    /\ rtBox \in {"running", "ok", "error", "cancelled", "deadline"}
    /\ {rtActive, rtCrashed} \subseteq BOOLEAN

Relayed == rtReceiver.took \o rtOut.buf

\* What comes out is what went in, in order and without a gap; and a channel that was
\* closed with no log message at its end, while nobody cancelled and no deadline
\* passed, has brought everything.  (A context that ends between two messages closes
\* the channel too, runtime.go:234 and 281, and then nothing tells the two apart.)
RelayFaithful ==
    LET n == Cardinality({i \in DOMAIN Relayed : Relayed[i] # 0}) IN
    /\ IsPrefix([i \in 1..n |-> i], Relayed)
    /\ rtOut.closed /\ n = Len(Relayed) /\ rtCtx \in {"open", "finished"}
       => n = Len(RtMessages) \/ (rtKind = "write" /\ rtBox # "running")

\* "RunInSandbox executes fn within a sandboxed context that enforces duration limits
\* and recovers from panics" (sandbox.go:57): a panic of the connector's goroutine does
\* not end the process.
SandboxRecovers == ~rtCrashed
=============================================================================
