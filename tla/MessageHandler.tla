--------------------------- MODULE MessageHandler ---------------------------
(***************************************************************************)
(* The router of protocol messages: connector/protocol/handler.go, with    *)
(* the accumulation of records in batches.                                 *)
(*                                                                         *)
(* Several goroutines route messages to one handler.  A batch is flushed   *)
(* by the goroutine that filled it, by FlushBatch at the end of a channel, *)
(* or by the callback of a timer, outside the mutex in each case.          *)
(***************************************************************************)
EXTENDS Integers, Sequences, FiniteSets, SequencesExt

CONSTANTS MhProcs,       \* goroutines in ProcessChannel
          MhBatchSize,
          MhTimed,       \* batchTimeout is not zero
          MhMaxRecords,  \* bound: records routed
          MhMaxTimers    \* bound: timers and callbacks at one time

ASSUME HandlerAssumption ==
    /\ {MhBatchSize, MhMaxRecords, MhMaxTimers} \subseteq Nat \ {0} /\ MhTimed \in BOOLEAN
    /\ MhProcs \cap 1..MhMaxTimers = {}

VARIABLES mhBuf,      \* batchBuf: records by number
          mhTimer,    \* batchTimer, 0: nil
          mhTimers,   \* the timers there are: "free", "armed", "fired", "flush"
          mhProcs,    \* of each goroutine and of each timer's callback the batch that it
                      \* is flushing
          mhEnded,    \* goroutines whose ProcessChannel has returned
          mhRouted,   \* recordCount
          mhFlushed,  \* history: records given to batchFlush by calls that have returned
          mhErrors    \* errorCount

mhVars == <<mhBuf, mhTimer, mhTimers, mhProcs, mhEnded, mhRouted, mhFlushed, mhErrors>>

Timers == 1..MhMaxTimers
Flushers == MhProcs \union Timers
Routing(p) == p \in MhProcs \ mhEnded /\ mhProcs[p] = {}

MessageHandlerInit ==
    /\ mhBuf = <<>> /\ mhTimer = 0 /\ mhTimers = [t \in Timers |-> "free"]
    /\ mhProcs = [p \in Flushers |-> {}] /\ mhEnded = {}
    /\ mhRouted = 0 /\ mhFlushed = {} /\ mhErrors = 0

\* The timers once batchTimer was stopped: a callback that has begun goes on.
Stopped(timers) ==
    [t \in Timers |-> IF t = mhTimer /\ timers[t] = "armed" THEN "free" ELSE timers[t]]

FlushKeepsTimer(p, buf, timers) ==
    /\ mhProcs' = [mhProcs EXCEPT ![p] = ToSet(buf)] /\ mhBuf' = <<>>
    /\ mhTimers' = Stopped(timers) /\ UNCHANGED mhTimer

\* flushBatchLocked: p has the batch and calls batchFlush without the mutex.
flushBatchLocked(p, buf, timers) ==
    /\ mhProcs' = [mhProcs EXCEPT ![p] = ToSet(buf)] /\ mhBuf' = <<>>
    /\ mhTimers' = Stopped(timers) /\ mhTimer' = 0

handleRecord(p) ==
    LET buf == Append(mhBuf, mhRouted + 1) IN
    /\ Routing(p) /\ mhRouted < MhMaxRecords /\ mhRouted' = mhRouted + 1
    /\ \/ Len(buf) >= MhBatchSize /\ flushBatchLocked(p, buf, mhTimers)
       \/ /\ Len(buf) < MhBatchSize /\ mhBuf' = buf /\ UNCHANGED mhProcs
          /\ IF mhTimer # 0 \/ ~MhTimed THEN UNCHANGED <<mhTimer, mhTimers>>
             ELSE \E t \in Timers :
                    /\ mhTimers[t] = "free" /\ \A s \in 1..(t - 1) : mhTimers[s] # "free"
                    /\ mhTimer' = t /\ mhTimers' = [mhTimers EXCEPT ![t] = "armed"]
    /\ UNCHANGED <<mhEnded, mhFlushed, mhErrors>>

\* A message without its payload, or of a type there is not: ProcessChannel returns the
\* error and flushes nothing.  (A message of another kind goes to its callback, a state
\* also when records before it are still in the buffer: no state of the handler but a
\* counter depends on it.)
RouteMessageFails(p) ==
    /\ Routing(p) /\ mhErrors' = mhErrors + 1 /\ mhEnded' = mhEnded \union {p}
    /\ UNCHANGED <<mhBuf, mhTimer, mhTimers, mhProcs, mhRouted, mhFlushed>>

\* The channel is closed: FlushBatch.
ProcessChannelEnds(p) ==
    /\ Routing(p) /\ mhEnded' = mhEnded \union {p}
    /\ IF mhBuf = <<>> THEN UNCHANGED <<mhBuf, mhTimer, mhTimers, mhProcs>>
       ELSE flushBatchLocked(p, mhBuf, mhTimers)
    /\ UNCHANGED <<mhRouted, mhFlushed, mhErrors>>

TimerFires(t) ==
    /\ mhTimers[t] = "armed" /\ mhTimers' = [mhTimers EXCEPT ![t] = "fired"]
    /\ UNCHANGED <<mhBuf, mhTimer, mhProcs, mhEnded, mhRouted, mhFlushed, mhErrors>>

\* The callback gets the mutex: FlushBatch.
TimerFlushes(t) ==
    /\ mhTimers[t] = "fired"
    /\ IF mhBuf = <<>>
       THEN mhTimers' = [mhTimers EXCEPT ![t] = "free"] /\ UNCHANGED <<mhBuf, mhTimer, mhProcs>>
       ELSE flushBatchLocked(t, mhBuf, [mhTimers EXCEPT ![t] = "flush"])
    /\ UNCHANGED <<mhEnded, mhRouted, mhFlushed, mhErrors>>

BatchFlushReturns(p) ==
    /\ mhProcs[p] # {}
    /\ mhFlushed' = mhFlushed \union mhProcs[p]
    /\ mhProcs' = [mhProcs EXCEPT ![p] = {}]
    /\ mhTimers' = [t \in Timers |-> IF t = p THEN "free" ELSE mhTimers[t]]
    /\ UNCHANGED <<mhBuf, mhTimer, mhEnded, mhRouted, mhErrors>>

MessageHandlerNext ==
    \/ \E p \in MhProcs : handleRecord(p) \/ RouteMessageFails(p) \/ ProcessChannelEnds(p)
    \/ \E t \in Timers : TimerFires(t) \/ TimerFlushes(t)
    \/ \E p \in Flushers : BatchFlushReturns(p)

MessageHandlerSpec == MessageHandlerInit /\ [][MessageHandlerNext]_mhVars

-----------------------------------------------------------------------------
MessageHandlerTypeOK ==
    /\ Len(mhBuf) < MhBatchSize /\ mhTimer \in 0..MhMaxTimers
    /\ mhTimers \in [Timers -> {"free", "armed", "fired", "flush"}]
    /\ mhEnded \subseteq MhProcs /\ mhRouted \in 0..MhMaxRecords
    /\ \A p \in Flushers : Cardinality(mhProcs[p]) <= MhBatchSize

\* Every record is in the buffer, in one flush, or flushed; and while the buffer holds
\* one, a timer will flush it: the timer is armed, or its callback is on its way.  With
\* flushes outside the mutex and callbacks that were stopped too late, this rests on
\* batchTimer being nil whenever the buffer is empty (handler.go:186).
BufferedWillFlush ==
    /\ \A r \in 1..mhRouted :
          Cardinality({p \in Flushers : r \in mhProcs[p]})
            + (IF r \in mhFlushed THEN 1 ELSE 0) + (IF r \in ToSet(mhBuf) THEN 1 ELSE 0) = 1
    /\ MhTimed /\ mhBuf # <<>> => mhTimer # 0 /\ mhTimers[mhTimer] \in {"armed", "fired"}
=============================================================================
