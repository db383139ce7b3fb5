-------------------------------- MODULE Pool --------------------------------
(***************************************************************************)
(* The bounded worker pool of internal/worker/pool/pool.go: submitters,    *)
(* worker goroutines, Resize, Shutdown and WaitIdle, interleaved at every  *)
(* channel operation and every atomic counter update.                      *)
(*                                                                         *)
(* The goroutines that call Submit are identified with the item they       *)
(* submit.  Workers is the supply of goroutine identities; Start and       *)
(* Resize take them from it.  A panic ends the process.                    *)
(***************************************************************************)
EXTENDS Naturals, Sequences, FiniteSets

CONSTANTS Items,        \* the items submitted, one goroutine each
          WithContext,  \* those submitted with SubmitWithContext
          Failing,      \* those whose processor returns an error
          Workers,      \* identities of worker goroutines
          Concurrency,  \* the argument of NewPool
          Sizes,        \* the arguments Resize is called with
          None          \* no item

ASSUME PoolAssumption ==
    /\ IsFiniteSet(Items) /\ WithContext \subseteq Items /\ Failing \subseteq Items
    /\ IsFiniteSet(Workers)
    /\ Concurrency \in Nat \ {0}
    /\ Sizes \subseteq Nat
    /\ None \notin Items

VARIABLES
    input,        \* the buffered channel of items
    inputClosed,  \* close(p.input) happened
    doneClosed,   \* close(p.done) happened
    started, stopped, concurrency,
    launched,     \* Start has launched its goroutines
    ctxDone,      \* contexts that are cancelled: "parent", "pool"
    pending, active, completed, failed,
    submit,       \* where each submitting goroutine is
    worker,       \* where each worker goroutine is
    holds,        \* the item a worker has received
    drains,       \* worker is in the drain loop of its ctx.Done() case
    uses,         \* the context a worker was started with
    shutdown,     \* where the goroutine in Shutdown is
    loads,        \* the counter a goroutine in WaitIdle loads next
    begun,        \* history: workers counted in active since it loaded active
    processed     \* history: items whose processor returned

channel == <<input, inputClosed, doneClosed>>
flags == <<started, launched, stopped, concurrency, ctxDone>>
counters == <<pending, active, completed, failed>>
goroutines == <<worker, holds, drains, uses>>
waiter == <<loads, begun>>
vars == <<channel, flags, counters, submit, goroutines, shutdown, waiter, processed>>

BufSize == Concurrency * 2

Live == {w \in Workers : worker[w] \notin {"none", "exited"}}
Unused == {w \in Workers : worker[w] = "none"}
Accepted == {i \in Items : submit[i] = "accepted"}
Panicked == \E i \in Items : submit[i] = "panicked"
Cancelled(w) == uses[w] \in ctxDone

-----------------------------------------------------------------------------
(* Start and Resize: goroutines are launched.                               *)

Launch(ws, ctx) ==
    /\ worker' = [w \in Workers |-> IF w \in ws THEN "select" ELSE worker[w]]
    /\ uses' = [w \in Workers |-> IF w \in ws THEN ctx ELSE uses[w]]

(* Start: started is set, then the workers are launched on a context        *)
(* derived from the caller's.  Submit may run between the two; Shutdown may *)
(* not: the supervisor holds its mutex in Start, and Stop needs running.    *)
SwapStarted ==
    /\ ~started
    /\ shutdown \in {"idle", "drained", "timed_out"}
    /\ started' = TRUE
    /\ UNCHANGED <<channel, launched, stopped, concurrency, ctxDone, counters,
                   submit, goroutines, shutdown, waiter, processed>>

LaunchWorkers ==
    /\ started /\ ~launched
    /\ launched' = TRUE
    /\ \E ws \in SUBSET Unused :
          /\ Cardinality(ws) = concurrency
          /\ Launch(ws, "pool")
    /\ UNCHANGED <<channel, started, stopped, concurrency, ctxDone, counters,
                   submit, holds, drains, shutdown, waiter, processed>>

(* Resize: more workers are launched on the caller's context, fewer only    *)
(* changes the number.  Its callers, the supervisor's scaling functions,    *)
(* have a context to pass once the supervisor has started the pool.         *)
Resize(n) ==
    LET size == IF n < 1 THEN 1 ELSE n
        delta == IF size > concurrency THEN size - concurrency ELSE 0
    IN  /\ launched
        /\ concurrency' = size
        /\ \E ws \in SUBSET Unused :
              /\ Cardinality(ws) = delta
              /\ Launch(ws, "parent")
        /\ UNCHANGED <<channel, started, launched, stopped, ctxDone, counters,
                       submit, holds, drains, shutdown, waiter, processed>>

(* The caller's context ends; the pool's own context derives from it. *)
CancelParent ==
    /\ ctxDone' = {"parent", "pool"}
    /\ "parent" \notin ctxDone
    /\ UNCHANGED <<channel, started, launched, stopped, concurrency, counters,
                   submit, goroutines, shutdown, waiter, processed>>

-----------------------------------------------------------------------------
(* Submit and SubmitWithContext.                                            *)

SubmitStep(i, from, to) ==
    /\ submit[i] = from
    /\ submit' = [submit EXCEPT ![i] = to]
    /\ UNCHANGED <<flags, goroutines, shutdown, waiter, processed>>

CheckStopped(i) ==
    /\ SubmitStep(i, "called", IF stopped THEN "rejected" ELSE "checked")
    /\ UNCHANGED <<channel, counters>>

CheckStarted(i) ==
    /\ SubmitStep(i, "checked", IF started THEN "counting" ELSE "rejected")
    /\ UNCHANGED <<channel, counters>>

(* Mutant of CountPending: the item is not counted before it is sent. *)
CountPendingSkipped(i) ==
    /\ SubmitStep(i, "counting", "sending")
    /\ UNCHANGED <<channel, counters>>

CountPending(i) ==
    /\ SubmitStep(i, "counting", "sending")
    /\ pending' = pending + 1
    /\ UNCHANGED <<channel, active, completed, failed>>

(* select, case p.input <- item: ready when there is room, and when the     *)
(* channel is closed, which panics.                                         *)
SendItem(i) ==
    /\ \/ /\ ~inputClosed /\ Len(input) < BufSize
          /\ SubmitStep(i, "sending", "accepted")
          /\ input' = Append(input, i)
       \/ /\ inputClosed
          /\ SubmitStep(i, "sending", "panicked")
          /\ UNCHANGED input
    /\ UNCHANGED <<inputClosed, doneClosed, counters>>

(* Mutant of GiveUp: the pending counter is not put back. *)
GiveUpUncounted(i) ==
    /\ doneClosed \/ i \in WithContext
    /\ SubmitStep(i, "sending", "rejected")
    /\ UNCHANGED <<channel, counters>>

(* select, case <-p.done, or <-ctx.Done() of SubmitWithContext, whose       *)
(* context may end at any time.                                             *)
GiveUp(i) ==
    /\ doneClosed \/ i \in WithContext
    /\ SubmitStep(i, "sending", "rejected")
    /\ pending' = pending - 1
    /\ UNCHANGED <<channel, active, completed, failed>>

-----------------------------------------------------------------------------
(* worker and processItem.                                                  *)

WorkerStep(w, from, to) ==
    /\ worker[w] = from
    /\ worker' = [worker EXCEPT ![w] = to]
    /\ UNCHANGED <<flags, inputClosed, doneClosed, submit, uses, shutdown, loads>>

(* Mutant of Receive: the item is read and left in the channel. *)
ReceiveKeeping(w) ==
    /\ input # <<>>
    /\ \/ WorkerStep(w, "select", "received")
       \/ WorkerStep(w, "drain", "received")
    /\ holds' = [holds EXCEPT ![w] = Head(input)]
    /\ UNCHANGED <<input, drains, counters, begun, processed>>

(* case item, ok := <-p.input, in either select. *)
Receive(w) ==
    /\ input # <<>>
    /\ \/ WorkerStep(w, "select", "received")
       \/ WorkerStep(w, "drain", "received")
    /\ holds' = [holds EXCEPT ![w] = Head(input)]
    /\ input' = Tail(input)
    /\ UNCHANGED <<drains, counters, begun, processed>>

(* case <-ctx.Done(). *)
SeeCancel(w) ==
    /\ Cancelled(w)
    /\ WorkerStep(w, "select", "drain")
    /\ drains' = [drains EXCEPT ![w] = TRUE]
    /\ UNCHANGED <<input, holds, counters, begun, processed>>

(* Mutant of Exit: done, not the drained channel, ends a worker. *)
ExitOnDone(w) ==
    /\ doneClosed
    /\ WorkerStep(w, "select", "exited")
    /\ UNCHANGED <<input, holds, drains, counters, begun, processed>>

(* The channel is closed and drained; in the drain loop also: it is empty. *)
Exit(w) ==
    /\ input = <<>>
    /\ \/ inputClosed /\ WorkerStep(w, "select", "exited")
       \/ WorkerStep(w, "drain", "exited")
    /\ UNCHANGED <<input, holds, drains, counters, begun, processed>>

UncountPending(w) ==
    /\ WorkerStep(w, "received", "uncounted")
    /\ pending' = pending - 1
    /\ UNCHANGED <<input, holds, drains, active, completed, failed, begun, processed>>

CountActive(w) ==
    /\ WorkerStep(w, "uncounted", "processing")
    /\ active' = active + 1
    /\ begun' = IF loads = "pending" THEN begun \cup {w} ELSE begun
    /\ UNCHANGED <<input, holds, drains, pending, completed, failed, processed>>

(* The processor returns, with an error or without. *)
ProcessorReturns(w) ==
    /\ WorkerStep(w, "processing", "counted")
    /\ IF holds[w] \in Failing
       THEN failed' = failed + 1 /\ UNCHANGED completed
       ELSE completed' = completed + 1 /\ UNCHANGED failed
    /\ processed' = processed \cup {holds[w]}
    /\ UNCHANGED <<input, holds, drains, pending, active, begun>>

(* The deferred decrement, then back to the loop the item came from. *)
UncountActive(w) ==
    /\ WorkerStep(w, "counted", IF drains[w] THEN "drain" ELSE "select")
    /\ active' = active - 1
    /\ holds' = [holds EXCEPT ![w] = None]
    /\ begun' = begun \ {w}
    /\ UNCHANGED <<input, drains, pending, completed, failed, processed>>

-----------------------------------------------------------------------------
(* Shutdown and WaitIdle.                                                   *)

ShutdownStep(from, to) ==
    /\ shutdown = from
    /\ shutdown' = to
    /\ UNCHANGED <<started, launched, concurrency, counters, submit, goroutines,
                   input, waiter, processed>>

(* Only the first Shutdown gets past the swap; another one returns at once  *)
(* and changes nothing.                                                     *)
SetStopped ==
    /\ started => launched
    /\ ShutdownStep("idle", "stopped")
    /\ stopped' = TRUE
    /\ UNCHANGED <<inputClosed, doneClosed, ctxDone>>

CloseDone ==
    /\ ShutdownStep("stopped", "done_closed")
    /\ doneClosed' = TRUE
    /\ UNCHANGED <<inputClosed, stopped, ctxDone>>

CloseInput ==
    /\ ShutdownStep("done_closed", "waiting")
    /\ inputClosed' = TRUE
    /\ UNCHANGED <<doneClosed, stopped, ctxDone>>

(* Mutant of AllExited: wg.Wait() is satisfied by one worker. *)
OneExited ==
    /\ \E w \in Workers : worker[w] = "exited"
    /\ ShutdownStep("waiting", "drained")
    /\ UNCHANGED <<inputClosed, doneClosed, stopped, ctxDone>>

(* p.wg.Wait() returned. *)
AllExited ==
    /\ Live = {}
    /\ ShutdownStep("waiting", "drained")
    /\ UNCHANGED <<inputClosed, doneClosed, stopped, ctxDone>>

(* Shutdown's context ends first: what Start launched is cancelled. *)
ShutdownTimesOut ==
    /\ ShutdownStep("waiting", "timed_out")
    /\ ctxDone' = IF started THEN ctxDone \cup {"pool"} ELSE ctxDone
    /\ UNCHANGED <<inputClosed, doneClosed, stopped>>

(* WaitIdle loads active and, when that is zero, pending: two loads with    *)
(* steps of the other goroutines between them.                              *)
WaitIdleStep(from, to) ==
    /\ loads = from
    /\ loads' = to
    /\ begun' = {}
    /\ UNCHANGED <<channel, flags, counters, submit, goroutines, shutdown, processed>>

LoadActive == active = 0 /\ WaitIdleStep("active", "pending")

(* It returns, and may be called again, or polls again. *)
LoadPending == WaitIdleStep("pending", "active")

(* The load of pending that ends WaitIdle. *)
WaitIdleReturns == loads = "pending" /\ pending = 0

-----------------------------------------------------------------------------
Init ==
    /\ input = <<>> /\ inputClosed = FALSE /\ doneClosed = FALSE
    /\ started = FALSE /\ launched = FALSE /\ stopped = FALSE
    /\ concurrency = Concurrency
    /\ ctxDone = {}
    /\ pending = 0 /\ active = 0 /\ completed = 0 /\ failed = 0
    /\ submit = [i \in Items |-> "called"]
    /\ worker = [w \in Workers |-> "none"]
    /\ holds = [w \in Workers |-> None]
    /\ drains = [w \in Workers |-> FALSE]
    /\ uses = [w \in Workers |-> "pool"]
    /\ shutdown = "idle"
    /\ loads = "active" /\ begun = {}
    /\ processed = {}

Submitter(i) ==
    CheckStopped(i) \/ CheckStarted(i) \/ CountPending(i) \/ SendItem(i) \/ GiveUp(i)

Worker(w) ==
    \/ Receive(w) \/ SeeCancel(w) \/ Exit(w) \/ UncountPending(w)
    \/ CountActive(w) \/ ProcessorReturns(w) \/ UncountActive(w)

Shutdown == SetStopped \/ CloseDone \/ CloseInput \/ AllExited \/ ShutdownTimesOut

(* What the goroutines of the pool and its callers do, Resize excepted. *)
PoolNext ==
    /\ ~Panicked
    /\ \/ SwapStarted
       \/ LaunchWorkers
       \/ CancelParent
       \/ \E i \in Items : Submitter(i)
       \/ \E w \in Workers : Worker(w)
       \/ Shutdown
       \/ LoadActive
       \/ LoadPending

Next == PoolNext \/ (~Panicked /\ \E n \in Sizes : Resize(n))

Spec == Init /\ [][Next]_vars

(* The Go scheduler runs every goroutine that can run, and processors       *)
(* return; Shutdown and cancellation are the callers' choice.               *)
Fairness ==
    /\ WF_vars(~Panicked /\ LaunchWorkers)
    /\ \A w \in Workers : WF_vars(~Panicked /\ Worker(w))

FairSpec == Spec /\ Fairness

-----------------------------------------------------------------------------
(* Properties.                                                              *)

SubmitStates == {"called", "checked", "counting", "sending", "accepted",
                 "rejected", "panicked"}
WorkerStates == {"none", "select", "drain", "received", "uncounted",
                 "processing", "counted", "exited"}
ShutdownStates == {"idle", "stopped", "done_closed", "waiting", "drained", "timed_out"}

PoolTypes ==
    /\ input \in Seq(Items) /\ Len(input) <= BufSize
    /\ inputClosed \in BOOLEAN /\ doneClosed \in BOOLEAN
    /\ started \in BOOLEAN /\ launched \in BOOLEAN /\ stopped \in BOOLEAN
    /\ concurrency \in Nat \ {0}
    /\ ctxDone \subseteq {"parent", "pool"}
    /\ pending \in Nat /\ active \in Nat /\ completed \in Nat /\ failed \in Nat
    /\ submit \in [Items -> SubmitStates]
    /\ worker \in [Workers -> WorkerStates]
    /\ holds \in [Workers -> Items \cup {None}]
    /\ drains \in [Workers -> BOOLEAN]
    /\ uses \in [Workers -> {"parent", "pool"}]
    /\ shutdown \in ShutdownStates
    /\ processed \subseteq Items

TypeOK ==
    /\ PoolTypes
    /\ loads \in {"active", "pending"} /\ begun \subseteq Workers

Busy == {"received", "uncounted", "processing"}

(* The counters the stats, the autoscaler and WaitIdle read are exact up to *)
(* the steps in progress: pending counts the buffered items and those being *)
(* sent or just received, active the processors that run, completed and     *)
(* failed the items each processed once.  WaitIdle "blocks until all         *)
(* submitted items have been processed" (pool.go:236), but loads active and  *)
(* then pending (line 242): when it returns nothing is in the channel, and   *)
(* an item that is not processed is in the hands of a worker that has yet to  *)
(* add it to active (between lines 100 and 108), or added it after the load   *)
(* of active.  Both can be items submitted long before the call.             *)
CountersExact ==
    /\ pending = Len(input)
                 + Cardinality({i \in Items : submit[i] \in {"sending", "panicked"}})
                 + Cardinality({w \in Workers : worker[w] = "received"})
    /\ active = Cardinality({w \in Workers : worker[w] \in {"processing", "counted"}})
    /\ failed = Cardinality(processed \cap Failing)
    /\ completed = Cardinality(processed \ Failing)
    /\ WaitIdleReturns =>
          \A i \in Accepted \ processed :
             \E w \in Workers : /\ holds[w] = i
                               /\ \/ worker[w] = "uncounted"
                                  \/ worker[w] = "processing" /\ w \in begun

(* Every accepted item is in exactly one place: the channel, one worker's   *)
(* hands, or done; nothing is processed twice and nothing unaccepted is.    *)
NoItemLostOrDuplicated ==
    /\ \A j, k \in DOMAIN input : input[j] = input[k] => j = k
    /\ \A w \in Workers : worker[w] \in Busy =>
         /\ holds[w] \in Accepted \ processed
         /\ \A v \in Workers : worker[v] \in Busy /\ holds[v] = holds[w] => v = w
         /\ \A k \in DOMAIN input : input[k] # holds[w]
    /\ \A k \in DOMAIN input : input[k] \in Accepted \ processed
    /\ processed \subseteq Accepted
    /\ \A i \in Accepted \ processed :
         \/ \E k \in DOMAIN input : input[k] = i
         \/ \E w \in Workers : worker[w] \in Busy /\ holds[w] = i

(* Shutdown returned nil and nobody cancelled the workers' context: every   *)
(* accepted item has been processed.                                        *)
ShutdownDrains ==
    shutdown = "drained" /\ ctxDone = {} => processed = Accepted

(* While nobody cancels the context, what Submit accepted is processed,     *)
(* whatever Resize and Shutdown do meanwhile.                               *)
AcceptedAreProcessed ==
    \A i \in Items : (submit[i] = "accepted" /\ ctxDone = {})
                        ~> (i \in processed \/ ctxDone # {} \/ Panicked)

(* Submit's comment: it "returns an error if the pool has been shut down".  *)
SubmitNeverPanics == ~Panicked
=============================================================================
