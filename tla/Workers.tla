------------------------------ MODULE Workers ------------------------------
(***************************************************************************)
(* The workers behind the pools: worker/extract (ExtractWorker),           *)
(* worker/transform (TransformWorker and its Bloom filter), worker/load    *)
(* (LoadWorker and its dead letters), and worker/pool/supervisor.go.       *)
(*                                                                         *)
(* A behaviour is about one of them, with several goroutines that use it.  *)
(***************************************************************************)
EXTENDS Integers, Sequences, FiniteSets, SequencesExt, FiniteSetsExt

CONSTANTS WrkProcs,      \* goroutines
          WrkKinds,      \* among "extract", "transform", "load", "supervisor"
          WrkBatches,    \* the batches a worker is called with, in this order: sequences
                         \* of records; bound: their number
          WrkBits,       \* of a record the bits of its hashes in the Bloom filter
          WrkBatchSize, WrkConcurrency, WrkMaxRetries,
          WrkMin, WrkMax, WrkUp, WrkDown,  \* ScaleConfig
          WrkMaxDepth    \* bound: items in the pool's queue

Records == UNION {ToSet(b) : b \in ToSet(WrkBatches)}

ASSUME WorkersAssumption ==
    /\ {WrkBatchSize, WrkConcurrency, WrkMin} \subseteq Nat \ {0}
    /\ {WrkMax, WrkUp, WrkDown} \subseteq Int /\ WrkMax >= WrkMin /\ WrkUp >= WrkDown
    /\ {WrkMaxRetries, WrkMaxDepth} \subseteq Nat
    /\ WrkBatches \in Seq(Seq(Records))

VARIABLES wrkKind, wrkCalls,
          wrkProcs,   \* of each goroutine its call: where it is, its records, the ones it
                      \* has yet to take, the ones taken, attempts, errors without a record
          wrkOut,     \* history: how often a record was returned, or stored (two: more)
          wrkBusy,    \* extract: isRunning
          wrkBits,    \* transform: the bits of the filter
          wrkFailed,  \* history: records of a transformation that failed, or not fed to
                      \* a destination because the context was done
          wrkDead,    \* load: the records of the dead letters, and of those drained
          wrkDone,    \* the context of the calls is done
          wrkPool     \* supervisor: running, size and queue of its pool, cooldown over

wrkVars == <<wrkKind, wrkCalls, wrkProcs, wrkOut, wrkBusy, wrkBits, wrkFailed, wrkDead,
             wrkDone, wrkPool>>

Free == [pc |-> "idle", all |-> {}, in |-> <<>>, took |-> <<>>, try |-> 0, errs |-> 0]
Out(S) == wrkOut' = [r \in Records |-> IF r \in S /\ wrkOut[r] < 2 THEN wrkOut[r] + 1
                                                                 ELSE wrkOut[r]]

WorkersInit ==
    /\ wrkKind \in WrkKinds /\ wrkCalls = 0
    /\ wrkProcs = [p \in WrkProcs |-> Free]
    /\ wrkOut = [r \in Records |-> 0] /\ wrkBusy = FALSE /\ wrkBits = {} /\ wrkFailed = {}
    /\ wrkDead = [kept |-> {}, drained |-> {}] /\ wrkDone = FALSE
    /\ wrkPool = [running |-> FALSE, ctx |-> FALSE, size |-> WrkMin, depth |-> 0,
                  cool |-> TRUE]

Goes(p, call) == wrkProcs' = [wrkProcs EXCEPT ![p] = call]
At(p, kind, pc) == wrkKind = kind /\ wrkProcs[p].pc = pc

Begins(p, kind, pc) ==
    /\ At(p, kind, "idle") /\ wrkCalls < Len(WrkBatches)
    /\ wrkCalls' = wrkCalls + 1
    /\ Goes(p, [Free EXCEPT !.pc = pc, !.all = ToSet(WrkBatches[wrkCalls + 1]),
                            !.in = WrkBatches[wrkCalls + 1]])

\* The context is cancelled, or its deadline passes.
CallsCancelled ==
    /\ wrkKind \in {"extract", "load"} /\ ~wrkDone /\ wrkDone' = TRUE
    /\ UNCHANGED <<wrkKind, wrkCalls, wrkProcs, wrkOut, wrkBusy, wrkBits, wrkFailed,
                   wrkDead, wrkPool>>

-----------------------------------------------------------------------------
(* ExtractWorker.  A batch is what the source has to send.                  *)

\* isRunning refuses a second call.
ExtractStarts(p) ==
    /\ ~wrkBusy /\ Begins(p, "extract", "receive")
    /\ wrkBusy' = TRUE
    /\ UNCHANGED <<wrkKind, wrkOut, wrkBits, wrkFailed, wrkDead, wrkDone, wrkPool>>

\* src.Read sends; when the context is done, or on an error, it returns early.
ExtractReceives(p) ==
    LET c == wrkProcs[p] IN
    /\ At(p, "extract", "receive")
    /\ \/ c.in # <<>> /\ Goes(p, [c EXCEPT !.in = Tail(@), !.took = Append(@, Head(c.in))])
       \/ c.in = <<>> /\ Goes(p, [c EXCEPT !.pc = "return"])
       \/ c.in # <<>> /\ Goes(p, [c EXCEPT !.pc = "return", !.errs = 1])
    /\ UNCHANGED <<wrkKind, wrkCalls, wrkOut, wrkBusy, wrkBits, wrkFailed, wrkDead, wrkDone,
                   wrkPool>>

\* The messages are returned, also with the error of the read.
ExtractReturns(p) ==
    /\ At(p, "extract", "return")
    /\ Out(ToSet(wrkProcs[p].took))
    /\ wrkFailed' = wrkFailed \union ToSet(wrkProcs[p].in)
    /\ wrkBusy' = FALSE /\ Goes(p, Free)
    /\ UNCHANGED <<wrkKind, wrkCalls, wrkBits, wrkDead, wrkDone, wrkPool>>

-----------------------------------------------------------------------------
(* TransformWorker.                                                         *)

TransformStarts(p) ==
    /\ Begins(p, "transform", "dedup")
    /\ UNCHANGED <<wrkKind, wrkOut, wrkBusy, wrkBits, wrkFailed, wrkDead, wrkDone, wrkPool>>

IsDuplicateStale(p, r) == wrkOut[r] > 0

\* Under the lock of the filter: were all bits set, which are set either way.
IsDuplicate(p, r) == WrkBits[r] \subseteq wrkBits

deduplicateRecords(p) ==
    LET c == wrkProcs[p]
        r == Head(c.in) IN
    /\ At(p, "transform", "dedup") /\ c.in # <<>>
    /\ wrkBits' = wrkBits \union WrkBits[r]
    /\ Goes(p, [c EXCEPT !.in = Tail(@), !.took = IF IsDuplicate(p, r) THEN @
                                                                     ELSE Append(@, r)])
    /\ UNCHANGED <<wrkKind, wrkCalls, wrkOut, wrkBusy, wrkFailed, wrkDead, wrkDone, wrkPool>>

\* The records are cut in chunks of n / concurrency, at least one, for a goroutine
\* each; fewer than two for each are not cut.
Chunks(s) ==
    LET n == Len(s)
        size == IF WrkConcurrency <= 1 \/ n < 2 * WrkConcurrency THEN Max({n, 1})
                ELSE n \div WrkConcurrency IN
    [i \in 1..((n + size - 1) \div size) |->
        ToSet(SubSeq(s, (i - 1) * size + 1, Min({i * size, n})))]

\* One record that cannot be mapped fails the call, and none is returned.
applyMappingsParallel(p) ==
    LET c == wrkProcs[p] IN
    /\ At(p, "transform", "dedup") /\ c.in = <<>>
    /\ \/ Out(UNION ToSet(Chunks(c.took))) /\ UNCHANGED wrkFailed
       \/ wrkFailed' = wrkFailed \union ToSet(c.took) /\ c.took # <<>> /\ UNCHANGED wrkOut
    /\ Goes(p, Free)
    /\ UNCHANGED <<wrkKind, wrkCalls, wrkBusy, wrkBits, wrkDead, wrkDone, wrkPool>>

DeduplicatorReset ==
    /\ wrkKind = "transform" /\ wrkBits # {} /\ wrkBits' = {}
    /\ \A p \in WrkProcs : wrkProcs[p].pc = "idle"
    /\ wrkOut' = [r \in Records |-> 0] /\ wrkFailed' = {}
    /\ UNCHANGED <<wrkKind, wrkCalls, wrkProcs, wrkBusy, wrkDead, wrkDone, wrkPool>>

-----------------------------------------------------------------------------
(* LoadWorker.                                                              *)

LoadStarts(p) ==
    /\ Begins(p, "load", "batch")
    /\ UNCHANGED <<wrkKind, wrkOut, wrkBusy, wrkBits, wrkFailed, wrkDead, wrkDone, wrkPool>>

addToDeadLetterReplaces(records) == wrkDead' = [wrkDead EXCEPT !.kept = records]
addToDeadLetter(records) == wrkDead' = [wrkDead EXCEPT !.kept = @ \union records]

\* The next batch of the call, or its return.
ProcessBatch(p) ==
    LET c == wrkProcs[p]
        n == Min({WrkBatchSize, Len(c.in)}) IN
    /\ At(p, "load", "batch")
    /\ Goes(p, IF c.in = <<>> THEN [c EXCEPT !.pc = "returned"]
               ELSE [c EXCEPT !.pc = "write", !.took = SubSeq(c.in, 1, n), !.try = 0,
                              !.in = SubSeq(c.in, n + 1, Len(c.in))])
    /\ UNCHANGED <<wrkKind, wrkCalls, wrkOut, wrkBusy, wrkBits, wrkFailed, wrkDead, wrkDone,
                   wrkPool>>

\* dest.Write returns a result: a record is written, or has an error that carries it
\* or not.  Once the context is done the feeder may stop anywhere, and Write sees
\* the end of its input there.
doWrite(p) ==
    LET c == wrkProcs[p] IN
    /\ At(p, "load", "write")
    /\ \E fed \in IF wrkDone THEN 0..Len(c.took) ELSE {Len(c.took)} :
       \E bad \in SUBSET ToSet(SubSeq(c.took, 1, fed)), named \in BOOLEAN :
          /\ Out(ToSet(SubSeq(c.took, 1, fed)) \ bad)
          /\ addToDeadLetter(IF named THEN bad ELSE {})
          /\ wrkFailed' = wrkFailed \union ToSet(SubSeq(c.took, fed + 1, Len(c.took)))
          /\ Goes(p, [c EXCEPT !.pc = "batch",
                               !.errs = IF bad # {} /\ ~named THEN 1 ELSE @])
    /\ UNCHANGED <<wrkKind, wrkCalls, wrkBusy, wrkBits, wrkDone, wrkPool>>

\* dest.Write returns an error; some of the records may be there all the same.  A
\* retryable one is tried again.
writeBatchRetries(p) ==
    LET c == wrkProcs[p] IN
    /\ At(p, "load", "write") /\ c.try < WrkMaxRetries /\ ~wrkDone
    /\ \E done \in SUBSET ToSet(c.took) : Out(done)
    /\ Goes(p, [c EXCEPT !.try = @ + 1])
    /\ UNCHANGED <<wrkKind, wrkCalls, wrkBusy, wrkBits, wrkFailed, wrkDead, wrkDone, wrkPool>>

\* The last attempt, an error that is not retryable, or a context that is done before
\* the attempt or in the wait after it: the batch is dead.
writeBatchFails(p) ==
    /\ At(p, "load", "write")
    /\ addToDeadLetter(ToSet(wrkProcs[p].took))
    /\ Goes(p, [wrkProcs[p] EXCEPT !.pc = "batch"])
    /\ UNCHANGED <<wrkKind, wrkCalls, wrkOut, wrkBusy, wrkBits, wrkFailed, wrkDone, wrkPool>>

DrainDeadLetter ==
    /\ wrkKind = "load" /\ wrkDead.kept # {}
    /\ wrkDead' = [kept |-> {}, drained |-> wrkDead.drained \union wrkDead.kept]
    /\ UNCHANGED <<wrkKind, wrkCalls, wrkProcs, wrkOut, wrkBusy, wrkBits, wrkFailed, wrkDone,
                   wrkPool>>

-----------------------------------------------------------------------------
(* Supervisor of one pool.                                                  *)

PoolBecomes(pool) ==
    /\ wrkKind = "supervisor" /\ wrkPool' = pool
    /\ UNCHANGED <<wrkKind, wrkCalls, wrkOut, wrkBusy, wrkBits, wrkFailed, wrkDead, wrkDone>>

\* A pool's second Start does nothing, so a supervisor started again has no workers.
SupervisorStart ==
    /\ ~wrkPool.running /\ PoolBecomes([wrkPool EXCEPT !.running = TRUE, !.ctx = TRUE])
    /\ UNCHANGED wrkProcs

SupervisorStop ==
    /\ wrkPool.running /\ PoolBecomes([wrkPool EXCEPT !.running = FALSE])
    /\ UNCHANGED wrkProcs

\* Items come and go, and the cooldown passes.
QueueChanges ==
    /\ \E d \in 0..WrkMaxDepth : PoolBecomes([wrkPool EXCEPT !.depth = d, !.cool = TRUE])
    /\ UNCHANGED wrkProcs

\* concurrency() is read before the lock of Resize; lastScale is noted after it.
ScaleUp(p, delta) ==
    /\ At(p, "supervisor", "idle") /\ wrkPool.ctx
    /\ Goes(p, [Free EXCEPT !.pc = "resize", !.try = Min({wrkPool.size + delta, WrkMax})])
    /\ PoolBecomes(wrkPool)

ScaleDownUnbounded(p, delta) ==
    /\ At(p, "supervisor", "idle") /\ wrkPool.ctx
    /\ Goes(p, [Free EXCEPT !.pc = "resize", !.try = wrkPool.size - delta])
    /\ PoolBecomes(wrkPool)

ScaleDown(p, delta) ==
    /\ At(p, "supervisor", "idle") /\ wrkPool.ctx
    /\ Goes(p, [Free EXCEPT !.pc = "resize", !.try = Max({wrkPool.size - delta, WrkMin, 1})])
    /\ PoolBecomes(wrkPool)

\* A tick of autoScaleLoop: by a half up, by a quarter down, at least by one.
evaluateScaling(p) ==
    LET size == wrkPool.size IN
    /\ At(p, "supervisor", "idle") /\ wrkPool.ctx /\ wrkPool.cool
    /\ \/ /\ wrkPool.depth > WrkUp /\ size < WrkMax
          /\ Goes(p, [Free EXCEPT !.pc = "resize",
                                  !.try = Min({size + Max({size \div 2, 1}), WrkMax})])
       \/ /\ wrkPool.depth < WrkDown /\ size > WrkMin
          /\ Goes(p, [Free EXCEPT !.pc = "resize",
                                  !.try = Max({size - Max({size \div 4, 1}), WrkMin})])
    /\ PoolBecomes(wrkPool)

SupervisorResizes(p) ==
    /\ At(p, "supervisor", "resize")
    /\ PoolBecomes([wrkPool EXCEPT !.size = wrkProcs[p].try, !.cool = FALSE])
    /\ Goes(p, Free)

WorkersNext ==
    \/ \E p \in WrkProcs :
         \/ ExtractStarts(p) \/ TransformStarts(p) \/ LoadStarts(p)
         \/ ExtractReceives(p) \/ ExtractReturns(p)
         \/ deduplicateRecords(p) \/ applyMappingsParallel(p)
         \/ ProcessBatch(p) \/ doWrite(p) \/ writeBatchRetries(p) \/ writeBatchFails(p)
         \/ \E delta \in 1..2 : ScaleUp(p, delta) \/ ScaleDown(p, delta)
         \/ evaluateScaling(p) \/ SupervisorResizes(p)
    \/ CallsCancelled \/ DeduplicatorReset \/ DrainDeadLetter
    \/ SupervisorStart \/ SupervisorStop \/ QueueChanges

WorkersSpec == WorkersInit /\ [][WorkersNext]_wrkVars

-----------------------------------------------------------------------------
\* Part of the type is that scalings which cross keep the size of the pool within its
\* configuration, and that isRunning is true exactly while a call of ExtractWorker runs.
WorkersTypeOK ==
    /\ wrkKind \in WrkKinds /\ wrkCalls \in 0..Len(WrkBatches)
    /\ wrkOut \in [Records -> 0..2]
    /\ wrkFailed \union wrkDead.kept \union wrkDead.drained \subseteq Records
    /\ wrkPool.size \in WrkMin..WrkMax
    /\ wrkBusy = \E p \in WrkProcs : wrkProcs[p].pc \in {"receive", "return"}

\* Goroutines that share the filter of a TransformWorker return each record once, and
\* lose none: a record the filter knows was returned, is held by a call, was in a call
\* that failed (whose repetition finds it a duplicate: transform/worker.go:54), or has
\* all its bits set by other records.
DeduplicatedNotLost ==
    wrkKind = "transform" =>
        \A r \in Records :
            /\ wrkOut[r] <= 1
            /\ WrkBits[r] \subseteq wrkBits =>
                  \/ wrkOut[r] = 1 \/ r \in wrkFailed
                  \/ \E p \in WrkProcs : r \in ToSet(wrkProcs[p].took)
                  \/ WrkBits[r] \subseteq UNION {WrkBits[q] : q \in Records \ {r}}

\* Every record of a call of LoadWorker.ProcessBatch that has returned is in the
\* destination, or in the dead letters, or was returned by DrainDeadLetter, or the
\* result has an error without its record: unless the context was done and Write
\* took the end of its input, where the feeder had stopped (load/worker.go:189), for
\* the end of the batch.
LoadedOrDead ==
    \A p \in WrkProcs : wrkProcs[p].pc = "returned" /\ wrkProcs[p].errs = 0 =>
        \A r \in wrkProcs[p].all :
            wrkOut[r] > 0 \/ r \in wrkDead.kept \union wrkDead.drained \union wrkFailed
=============================================================================
