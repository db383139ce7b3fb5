------------------------------- MODULE Audit -------------------------------
(***************************************************************************)
(* The buffered audit log: security/audit/audit.go, over a store that      *)
(* writes a batch in one transaction, as AppendBatch of                    *)
(* storage/postgres/audit_repo.go does.                                    *)
(*                                                                         *)
(* flush takes the buffer under the mutex and writes it without: the       *)
(* flushes of loggers, of queries, of the loop and of Close overlap.       *)
(***************************************************************************)
EXTENDS Integers, Sequences, FiniteSets, SequencesExt

CONSTANTS AudProcs,      \* goroutines that log and query
          AudBatchSize,
          AudCap,        \* events kept after a failure: ten batches
          AudMaxEvents   \* bound: events logged

ASSUME AuditAssumption ==
    /\ {AudBatchSize, AudMaxEvents} \subseteq Nat \ {0}
    /\ AudCap \in Nat /\ AudCap >= AudBatchSize
    /\ {"loop", "close"} \cap AudProcs = {}

VARIABLES audBuf,      \* buffer
          audFlushes,  \* of each goroutine, the loop and Close: where it is, its events
          audLoop,     \* "runs", "stop" once stopCh is closed, "done"
          audClosed,   \* "no", "waits", "flushes", "yes"
          audLogged,   \* events logged so far
          audStored, audDropped  \* history: events stored, events dropped

audVars == <<audBuf, audFlushes, audLoop, audClosed, audLogged, audStored, audDropped>>

AudActors == AudProcs \union {"loop", "close"}
NoFlush == [pc |-> "idle", events |-> <<>>]
Flushing(a, pc, events) == audFlushes' = [audFlushes EXCEPT ![a] = [pc |-> pc, events |-> events]]

\* NewAuditLogger.
AuditInit ==
    /\ audBuf = <<>> /\ audFlushes = [a \in AudActors |-> NoFlush]
    /\ audLoop = "runs" /\ audClosed = "no"
    /\ audLogged = 0 /\ audStored = {} /\ audDropped = {}

\* An event that fills the batch makes its logger flush.  Close does not stop Log.
Log(p) ==
    /\ audFlushes[p].pc = "idle" /\ audLogged < AudMaxEvents
    /\ audLogged' = audLogged + 1 /\ audBuf' = Append(audBuf, audLogged + 1)
    /\ IF Len(audBuf') >= AudBatchSize THEN Flushing(p, "flush", <<>>) ELSE UNCHANGED audFlushes
    /\ UNCHANGED <<audLoop, audClosed, audStored, audDropped>>

\* Query and Flush; a query then reads the store.
Query(p) ==
    /\ audFlushes[p].pc = "idle" /\ audBuf # <<>> /\ Flushing(p, "flush", <<>>)
    /\ UNCHANGED <<audBuf, audLoop, audClosed, audLogged, audStored, audDropped>>

\* flushLoop: a tick, or stopCh.
flushLoop ==
    /\ audFlushes["loop"].pc = "idle" /\ audLoop # "done"
    /\ \/ audBuf # <<>> /\ Flushing("loop", "flush", <<>>) /\ UNCHANGED audLoop
       \/ audLoop = "stop" /\ audLoop' = "done" /\ UNCHANGED audFlushes
    /\ UNCHANGED <<audBuf, audClosed, audLogged, audStored, audDropped>>

\* Close: stopCh, doneCh, and a last flush.
CloseLogger ==
    /\ \/ audClosed = "no" /\ audClosed' = "waits" /\ audLoop' = "stop" /\ UNCHANGED audFlushes
       \/ /\ audClosed = "waits" /\ audLoop = "done" /\ audClosed' = "flushes"
          /\ Flushing("close", "flush", <<>>) /\ UNCHANGED audLoop
       \/ /\ audClosed = "flushes" /\ audFlushes["close"].pc = "idle" /\ audClosed' = "yes"
          /\ UNCHANGED <<audFlushes, audLoop>>
    /\ UNCHANGED <<audBuf, audLogged, audStored, audDropped>>

flushTakes(a) ==
    /\ audFlushes[a].pc = "flush"
    /\ IF audBuf = <<>> THEN Flushing(a, "idle", <<>>) ELSE Flushing(a, "write", audBuf)
    /\ audBuf' = <<>>
    /\ UNCHANGED <<audLoop, audClosed, audLogged, audStored, audDropped>>

\* All of the events are stored, or none; an error may also come after the commit.
WriteEvents(a) ==
    LET events == audFlushes[a].events IN
    /\ audFlushes[a].pc = "write"
    /\ \/ audStored' = audStored \union ToSet(events) /\ Flushing(a, "idle", <<>>)
       \/ audStored' = audStored \union ToSet(events) /\ Flushing(a, "failed", events)
       \/ UNCHANGED audStored /\ Flushing(a, "failed", events)
    /\ UNCHANGED <<audBuf, audLoop, audClosed, audLogged, audDropped>>

RebufferReplaces(a) ==
    /\ audFlushes[a].pc = "failed" /\ audBuf' = audFlushes[a].events
    /\ Flushing(a, "idle", <<>>)
    /\ UNCHANGED <<audLoop, audClosed, audLogged, audStored, audDropped>>

\* The events go back, before those logged since; what is over the cap goes, from the
\* front.
Rebuffer(a) ==
    LET all == audFlushes[a].events \o audBuf
        over == IF Len(all) > AudCap THEN Len(all) - AudCap ELSE 0 IN
    /\ audFlushes[a].pc = "failed"
    /\ audBuf' = SubSeq(all, over + 1, Len(all))
    /\ audDropped' = audDropped \union ToSet(SubSeq(all, 1, over))
    /\ Flushing(a, "idle", <<>>)
    /\ UNCHANGED <<audLoop, audClosed, audLogged, audStored>>

AuditNext ==
    \/ \E p \in AudProcs : Log(p) \/ Query(p)
    \/ \E a \in AudActors : flushTakes(a) \/ WriteEvents(a) \/ Rebuffer(a)
    \/ flushLoop \/ CloseLogger

AuditSpec == AuditInit /\ [][AuditNext]_audVars

-----------------------------------------------------------------------------
AuditTypeOK ==
    /\ audLogged \in 0..AudMaxEvents
    /\ ToSet(audBuf) \union audStored \union audDropped \subseteq 1..audLogged
    /\ audLoop \in {"runs", "stop", "done"} /\ audClosed \in {"no", "waits", "flushes", "yes"}
    /\ \A a \in AudActors : audFlushes[a].pc \in {"idle", "flush", "write", "failed"}

\* An event is in the buffer or in one goroutine's flush until it is stored, whatever
\* flushes overlap and fail, unless the cap of the buffer made a failed flush drop it
\* (audit.go:196).
EventsAccounted ==
    \A e \in 1..audLogged :
       LET places == Cardinality({a \in AudActors : e \in ToSet(audFlushes[a].events)})
                       + Cardinality({i \in DOMAIN audBuf : audBuf[i] = e}) IN
       /\ places <= 1
       /\ e \notin audStored \union audDropped => places = 1
=============================================================================
