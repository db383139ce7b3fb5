----------------------------- MODULE PoolProofs -----------------------------
(***************************************************************************)
(* Proofs of the safety properties of Pool for any number of items and     *)
(* worker goroutines, any initial concurrency and any Resize arguments.    *)
(***************************************************************************)
EXTENDS Pool, SequenceTheorems, FiniteSetTheorems, TLAPS

(* What pending and active count besides the buffered items. *)
Sending == {i \in Items : submit[i] \in {"sending", "panicked"}}
Received == {w \in Workers : worker[w] = "received"}
Running == {w \in Workers : worker[w] \in {"processing", "counted"}}

Counts ==
    /\ pending = Len(input) + Cardinality(Sending) + Cardinality(Received)
    /\ active = Cardinality(Running)
    /\ failed = Cardinality(processed \cap Failing)
    /\ completed = Cardinality(processed \ Failing)

(* The order in which a pool lives: the channel is closed once Shutdown     *)
(* waits; items are sent only to a started pool, and Start is not between   *)
(* its two steps while Shutdown runs; a started pool has had a worker; a    *)
(* worker drains only after a cancellation, and without one it exits only   *)
(* from a closed and empty channel.                                         *)
Lifecycle ==
    /\ inputClosed <=> shutdown \in {"waiting", "drained", "timed_out"}
    /\ launched => started
    /\ shutdown \in {"stopped", "done_closed", "waiting"} /\ started => launched
    /\ launched => \E w \in Workers : worker[w] # "none"
    /\ \A i \in Items :
          submit[i] \in {"counting", "sending", "accepted", "panicked"} => started
    /\ \A w \in Workers : worker[w] = "drain" \/ drains[w] => ctxDone # {}
    /\ \A w \in Workers : worker[w] = "exited" /\ ctxDone = {} =>
          inputClosed /\ input = <<>>
    /\ shutdown = "drained" /\ ctxDone = {} =>
          input = <<>> /\ \A w \in Workers : worker[w] \notin Busy

IInv == PoolTypes /\ Counts /\ NoItemLostOrDuplicated /\ Lifecycle

-----------------------------------------------------------------------------
(* The sets the counters count are finite.                                  *)
LEMMA Finite ==
  ASSUME PoolTypes
  PROVE  /\ IsFiniteSet(Sending) /\ Cardinality(Sending) \in Nat
         /\ IsFiniteSet(Received) /\ Cardinality(Received) \in Nat
         /\ IsFiniteSet(Running) /\ Cardinality(Running) \in Nat
         /\ IsFiniteSet(processed \cap Failing) /\ Cardinality(processed \cap Failing) \in Nat
         /\ IsFiniteSet(processed \ Failing) /\ Cardinality(processed \ Failing) \in Nat
         /\ Len(input) \in Nat
<1>1. /\ Sending \in SUBSET Items /\ (processed \cap Failing) \in SUBSET Items
      /\ (processed \ Failing) \in SUBSET Items
      /\ Received \in SUBSET Workers /\ Running \in SUBSET Workers
  BY DEF PoolTypes, Sending, Received, Running
<1>2. \A T \in SUBSET Items : IsFiniteSet(T) /\ Cardinality(T) \in Nat
  BY PoolAssumption, FS_Subset, FS_CardinalityType
<1>3. \A T \in SUBSET Workers : IsFiniteSet(T) /\ Cardinality(T) \in Nat
  BY PoolAssumption, FS_Subset, FS_CardinalityType
<1> QED
  BY <1>1, <1>2, <1>3 DEF PoolTypes

(* Appending to the channel keeps what is there and adds the item last.     *)
LEMMA Appended ==
  ASSUME PoolTypes, NEW i \in Items, input' = Append(input, i)
  PROVE  /\ input' \in Seq(Items) /\ Len(input') = Len(input) + 1
         /\ DOMAIN input = 1..Len(input) /\ DOMAIN input' = 1..(Len(input) + 1)
         /\ \A k \in 1..Len(input) : input'[k] = input[k]
         /\ input'[Len(input) + 1] = i
  BY AppendProperties DEF PoolTypes

(* Receiving takes the first item off the channel.                          *)
LEMMA HeadTaken ==
  ASSUME PoolTypes, input # <<>>, input' = Tail(input)
  PROVE  /\ input' \in Seq(Items) /\ Len(input') = Len(input) - 1 /\ Len(input) \in Nat \ {0}
         /\ DOMAIN input = 1..Len(input) /\ DOMAIN input' = 1..(Len(input) - 1)
         /\ \A k \in 1..(Len(input) - 1) : input'[k] = input[k + 1]
         /\ Head(input) = input[1] /\ Head(input) \in Items
<1>1. input \in Seq(Items) /\ Len(input) \in Nat \ {0}
  BY EmptySeq DEF PoolTypes
<1>2. /\ input' \in Seq(Items) /\ Len(input') = Len(input) - 1
      /\ \A k \in 1..Len(input') : input'[k] = input[k + 1]
      /\ Head(input) \in Items
  BY <1>1, HeadTailProperties
<1>3. Head(input) = input[1]
  BY <1>1
<1>4. DOMAIN input = 1..Len(input) /\ DOMAIN input' = 1..Len(input')
  BY <1>1, <1>2, LenProperties
<1> QED
  BY <1>1, <1>2, <1>3, <1>4

(* A step that moves no item between the channel, the workers' hands and    *)
(* the processed ones keeps every item in its place.                        *)
LEMMA PlacesKept ==
  ASSUME IInv, UNCHANGED <<input, processed>>, Accepted' = Accepted,
         \A w \in Workers : /\ worker'[w] \in Busy <=> worker[w] \in Busy
                            /\ worker[w] \in Busy => holds'[w] = holds[w]
  PROVE  NoItemLostOrDuplicated'
  BY DEF IInv, NoItemLostOrDuplicated

(* A step that touches no counter and nothing they count keeps them exact.  *)
LEMMA CountsKept ==
  ASSUME IInv, UNCHANGED <<input, counters, processed>>,
         Sending' = Sending, Received' = Received, Running' = Running
  PROVE  Counts'
  BY DEF IInv, Counts, counters

-----------------------------------------------------------------------------
(* The initial state satisfies the inductive invariant.                     *)
LEMMA InitIInv == Init => IInv
<1> SUFFICES ASSUME Init PROVE IInv
  OBVIOUS
<1>1. input = <<>> /\ input \in Seq(Items) /\ Len(input) = 0 /\ DOMAIN input = {}
  BY EmptySeq DEF Init
<1>2. PoolTypes
  <2>1. BufSize \in Nat /\ Len(input) <= BufSize
    BY <1>1, PoolAssumption DEF BufSize
  <2> QED
    BY <1>1, <2>1, PoolAssumption
    DEF Init, PoolTypes, SubmitStates, WorkerStates, ShutdownStates
<1>3. Sending = {} /\ Received = {} /\ Running = {} /\ Accepted = {}
  BY DEF Init, Sending, Received, Running, Accepted
<1>4. processed \cap Failing = {} /\ processed \ Failing = {}
  BY DEF Init
<1>5. Counts
  BY <1>1, <1>3, <1>4, FS_EmptySet DEF Init, Counts
<1>6. NoItemLostOrDuplicated
  BY <1>1, <1>3 DEF Init, NoItemLostOrDuplicated, Busy
<1>7. Lifecycle
  BY DEF Init, Lifecycle
<1> QED
  BY <1>2, <1>5, <1>6, <1>7 DEF IInv

(* Goroutines that are launched are new ones and hold nothing.              *)
LEMMA LaunchKeeps ==
  ASSUME IInv, NEW ws \in SUBSET Unused, NEW ctx \in {"parent", "pool"}, Launch(ws, ctx),
         started, launched' = TRUE, concurrency' \in Nat \ {0},
         launched \/ ws # {},
         UNCHANGED <<channel, started, stopped, ctxDone, counters,
                     submit, holds, drains, shutdown, processed>>
  PROVE  IInv'
<1>1. /\ worker' \in [Workers -> WorkerStates] /\ uses' \in [Workers -> {"parent", "pool"}]
      /\ \A w \in Workers : worker'[w] = IF w \in ws THEN "select" ELSE worker[w]
  BY DEF IInv, PoolTypes, Launch, WorkerStates
<1>2. \A w \in Workers : worker'[w] # worker[w] =>
         worker[w] = "none" /\ worker'[w] = "select"
  BY <1>1 DEF Unused
<1>3. PoolTypes'
  BY <1>1 DEF IInv, PoolTypes, channel, counters
<1>4. Sending' = Sending /\ Received' = Received /\ Running' = Running /\ Accepted' = Accepted
  BY <1>2 DEF Sending, Received, Running, Accepted
<1>5. Counts'
  BY <1>4, CountsKept DEF channel
<1>6. NoItemLostOrDuplicated'
  BY <1>2, <1>4, PlacesKept DEF channel, Busy
<1>7. Lifecycle'
  <2>1. \E w \in Workers : worker'[w] # "none"
    <3>1. CASE launched
      BY <1>2, <3>1 DEF IInv, Lifecycle
    <3>2. CASE ws # {}
      BY <1>1, <3>2 DEF Unused
    <3> QED
      BY <3>1, <3>2
  <2> QED
    BY <1>2, <2>1 DEF IInv, Lifecycle, channel, Busy
<1> QED
  BY <1>3, <1>5, <1>6, <1>7 DEF IInv

(* Start.                                                                   *)
LEMMA StartKeeps ==
  ASSUME IInv, SwapStarted \/ LaunchWorkers
  PROVE  IInv'
<1>1. CASE SwapStarted
  <2>1. /\ started' = TRUE /\ ~started /\ shutdown \in {"idle", "drained", "timed_out"}
        /\ UNCHANGED <<input, inputClosed, doneClosed, launched, stopped, concurrency, ctxDone,
              pending, active, completed, failed, submit, worker, holds, drains, uses,
              shutdown, processed>>
    BY <1>1 DEF SwapStarted, channel, counters, goroutines
  <2>2. PoolTypes'
    BY <2>1 DEF IInv, PoolTypes
  <2>3. Counts'
    BY <2>1, CountsKept DEF counters, Sending, Received, Running
  <2>4. NoItemLostOrDuplicated'
    BY <2>1, PlacesKept DEF Accepted
  <2>5. Lifecycle'
    BY <2>1 DEF IInv, Lifecycle
  <2> QED
    BY <2>2, <2>3, <2>4, <2>5 DEF IInv
<1>2. CASE LaunchWorkers
  <2>1. PICK ws \in SUBSET Unused : Cardinality(ws) = concurrency /\ Launch(ws, "pool")
    BY <1>2 DEF LaunchWorkers
  <2>2. ws # {}
    BY <2>1, FS_EmptySet DEF IInv, PoolTypes
  <2> QED
    BY <1>2, <2>1, <2>2, LaunchKeeps DEF LaunchWorkers, IInv, PoolTypes
<1> QED
  BY <1>1, <1>2

(* Resize.                                                                  *)
LEMMA ResizeKeeps ==
  ASSUME IInv, NEW n \in Sizes, Resize(n)
  PROVE  IInv'
<1> DEFINE size == IF n < 1 THEN 1 ELSE n
           delta == IF size > concurrency THEN size - concurrency ELSE 0
<1>1. n \in Nat /\ size \in Nat \ {0}
  BY PoolAssumption
<1>2. concurrency' = size /\ launched
  BY DEF Resize
<1>3. PICK ws \in SUBSET Unused : Launch(ws, "parent")
  BY DEF Resize
<1>4. started /\ launched' = TRUE
  BY <1>2 DEF Resize, IInv, Lifecycle, PoolTypes
<1> QED
  BY <1>1, <1>2, <1>3, <1>4, LaunchKeeps DEF Resize

(* The end of the caller's context.                                         *)
LEMMA CancelKeeps ==
  ASSUME IInv, CancelParent
  PROVE  IInv'
<1>1. /\ ctxDone' = {"parent", "pool"}
      /\ UNCHANGED <<input, inputClosed, doneClosed, started, launched, stopped, concurrency,
              pending, active, completed, failed, submit, worker, holds, drains, uses,
              shutdown, processed>>
  BY DEF CancelParent, channel, counters, goroutines
<1>2. PoolTypes'
  BY <1>1 DEF IInv, PoolTypes
<1>3. Counts'
  BY <1>1, CountsKept DEF counters, Sending, Received, Running
<1>4. NoItemLostOrDuplicated'
  BY <1>1, PlacesKept DEF Accepted
<1>5. Lifecycle'
  BY <1>1 DEF IInv, Lifecycle
<1> QED
  BY <1>2, <1>3, <1>4, <1>5 DEF IInv

-----------------------------------------------------------------------------
(* What a step of a submitting goroutine leaves alone.                      *)
LEMMA SubmitFacts ==
  ASSUME IInv, NEW i \in Items, NEW from, NEW to \in SubmitStates, SubmitStep(i, from, to)
  PROVE  /\ submit[i] = from /\ submit'[i] = to /\ submit' \in [Items -> SubmitStates]
         /\ \A j \in Items : j # i => submit'[j] = submit[j]
         /\ UNCHANGED <<started, launched, stopped, concurrency, ctxDone, worker, holds,
                        drains, uses, shutdown, processed>>
         /\ Received' = Received /\ Running' = Running
  BY DEF SubmitStep, flags, goroutines, IInv, PoolTypes, Received, Running

(* Submit up to the point where the item is counted.                        *)
LEMMA CheckKeeps ==
  ASSUME IInv, NEW i \in Items, CheckStopped(i) \/ CheckStarted(i)
  PROVE  IInv'
<1>1. PICK from \in {"called", "checked"} : \E to \in {"checked", "counting", "rejected"} :
         SubmitStep(i, from, to) /\ (to = "counting" => started)
  BY DEF CheckStopped, CheckStarted
<1>2. PICK to \in {"checked", "counting", "rejected"} :
         SubmitStep(i, from, to) /\ (to = "counting" => started)
  BY <1>1
<1>3. to \in SubmitStates
  BY DEF SubmitStates
<1>4. /\ submit[i] = from /\ submit'[i] = to /\ submit' \in [Items -> SubmitStates]
      /\ \A j \in Items : j # i => submit'[j] = submit[j]
      /\ UNCHANGED <<started, launched, stopped, concurrency, ctxDone, worker, holds,
                     drains, uses, shutdown, processed>>
      /\ Received' = Received /\ Running' = Running
  BY <1>2, <1>3, SubmitFacts
<1>5. UNCHANGED <<input, inputClosed, doneClosed, pending, active, completed, failed>>
  BY DEF CheckStopped, CheckStarted, channel, counters
<1>6. PoolTypes'
  BY <1>4, <1>5 DEF IInv, PoolTypes
<1>7. Sending' = Sending /\ Accepted' = Accepted
  BY <1>4 DEF Sending, Accepted
<1>8. Counts'
  BY <1>4, <1>5, <1>7, CountsKept DEF counters
<1>9. NoItemLostOrDuplicated'
  BY <1>4, <1>5, <1>7, PlacesKept
<1>10. Lifecycle'
  BY <1>2, <1>4, <1>5 DEF IInv, Lifecycle
<1> QED
  BY <1>6, <1>8, <1>9, <1>10 DEF IInv

(* pending goes up before the item is sent and down when Submit gives up.   *)
LEMMA PendingKeeps ==
  ASSUME IInv, NEW i \in Items, CountPending(i) \/ GiveUp(i)
  PROVE  IInv'
<1>1. PICK from \in {"counting", "sending"} : \E to \in {"sending", "rejected"} :
         /\ SubmitStep(i, from, to)
         /\ \/ from = "counting" /\ to = "sending" /\ pending' = pending + 1
            \/ from = "sending" /\ to = "rejected" /\ pending' = pending - 1
  BY DEF CountPending, GiveUp
<1>2. PICK to \in {"sending", "rejected"} :
         /\ SubmitStep(i, from, to)
         /\ \/ from = "counting" /\ to = "sending" /\ pending' = pending + 1
            \/ from = "sending" /\ to = "rejected" /\ pending' = pending - 1
  BY <1>1
<1>3. to \in SubmitStates
  BY DEF SubmitStates
<1>4. /\ submit[i] = from /\ submit'[i] = to /\ submit' \in [Items -> SubmitStates]
      /\ \A j \in Items : j # i => submit'[j] = submit[j]
      /\ UNCHANGED <<started, launched, stopped, concurrency, ctxDone, worker, holds,
                     drains, uses, shutdown, processed>>
      /\ Received' = Received /\ Running' = Running
  BY <1>2, <1>3, SubmitFacts
<1>5. UNCHANGED <<input, inputClosed, doneClosed, active, completed, failed>>
  BY DEF CountPending, GiveUp, channel
<1>6. Accepted' = Accepted
  BY <1>2, <1>4 DEF Accepted
<1>7. pending' = Len(input) + Cardinality(Sending') + Cardinality(Received)
  <2>1. /\ IsFiniteSet(Sending) /\ Cardinality(Sending) \in Nat
        /\ Len(input) \in Nat /\ Cardinality(Received) \in Nat
        /\ pending = Len(input) + Cardinality(Sending) + Cardinality(Received)
    BY Finite DEF IInv, Counts
  <2>2. CASE from = "counting"
    <3>1. Sending' = Sending \cup {i} /\ i \notin Sending
      BY <1>2, <1>4, <2>2 DEF Sending
    <3>2. Cardinality(Sending') = Cardinality(Sending) + 1
      BY <2>1, <3>1, FS_AddElement
    <3> QED
      BY <1>2, <2>1, <2>2, <3>2
  <2>3. CASE from = "sending"
    <3>1. Sending' = Sending \ {i} /\ i \in Sending
      BY <1>2, <1>4, <2>3 DEF Sending
    <3>2. Cardinality(Sending') = Cardinality(Sending) - 1
      BY <2>1, <3>1, FS_RemoveElement
    <3> QED
      BY <1>2, <2>1, <2>3, <3>2
  <2> QED
    BY <2>2, <2>3
<1>8. Counts'
  BY <1>4, <1>5, <1>7 DEF IInv, Counts, Running
<1>9. pending' \in Nat
  <2>1. IsFiniteSet(Sending')
    BY <1>4, PoolAssumption, FS_Subset DEF Sending
  <2> QED
    BY <1>7, <2>1, Finite, FS_CardinalityType DEF IInv
<1>10. PoolTypes'
  BY <1>4, <1>5, <1>9 DEF IInv, PoolTypes
<1>11. NoItemLostOrDuplicated'
  BY <1>4, <1>5, <1>6, PlacesKept
<1>12. Lifecycle'
  BY <1>2, <1>4, <1>5 DEF IInv, Lifecycle
<1> QED
  BY <1>8, <1>10, <1>11, <1>12 DEF IInv

(* The send: the item joins the channel, or the closed channel panics.      *)
LEMMA SendKeeps ==
  ASSUME IInv, NEW i \in Items, SendItem(i)
  PROVE  IInv'
<1>1. CASE ~inputClosed /\ Len(input) < BufSize /\ SubmitStep(i, "sending", "accepted")
           /\ input' = Append(input, i)
  <2>1. "accepted" \in SubmitStates
    BY DEF SubmitStates
  <2>2. /\ submit[i] = "sending" /\ submit'[i] = "accepted" /\ submit' \in [Items -> SubmitStates]
        /\ \A j \in Items : j # i => submit'[j] = submit[j]
        /\ UNCHANGED <<started, launched, stopped, concurrency, ctxDone, worker, holds,
                       drains, uses, shutdown, processed>>
        /\ Received' = Received /\ Running' = Running
    BY <1>1, <2>1, SubmitFacts
  <2>3. UNCHANGED <<inputClosed, doneClosed, pending, active, completed, failed>>
    BY DEF SendItem, counters
  <2>4. /\ input' \in Seq(Items) /\ Len(input') = Len(input) + 1
        /\ DOMAIN input = 1..Len(input) /\ DOMAIN input' = 1..(Len(input) + 1)
        /\ \A k \in 1..Len(input) : input'[k] = input[k]
        /\ input'[Len(input) + 1] = i
        /\ Len(input) \in Nat
    BY <1>1, Appended, Finite DEF IInv
  <2>5. PoolTypes'
    <3>1. Len(input') <= BufSize
      BY <1>1, <2>4, PoolAssumption DEF BufSize
    <3> QED
      BY <2>2, <2>3, <2>4, <3>1 DEF IInv, PoolTypes, BufSize
  <2>6. Accepted' = Accepted \cup {i} /\ i \notin Accepted
    BY <2>2 DEF Accepted
  <2>7. Sending' = Sending \ {i} /\ i \in Sending
    BY <2>2 DEF Sending
  <2>8. Counts'
    <3>1. /\ IsFiniteSet(Sending) /\ Cardinality(Sending) \in Nat /\ Cardinality(Received) \in Nat
          /\ pending = Len(input) + Cardinality(Sending) + Cardinality(Received)
      BY Finite DEF IInv, Counts
    <3>2. Cardinality(Sending') = Cardinality(Sending) - 1
      BY <2>7, <3>1, FS_RemoveElement
    <3>3. pending' = Len(input') + Cardinality(Sending') + Cardinality(Received')
      BY <2>2, <2>3, <2>4, <3>1, <3>2
    <3> QED
      BY <2>2, <2>3, <3>3 DEF IInv, Counts
  <2>9. /\ \A k \in 1..Len(input) : input[k] \in Accepted \ processed /\ input[k] # i
        /\ i \notin processed
        /\ \A w \in Workers : worker[w] \in Busy => holds[w] # i
    BY <2>4, <2>6 DEF IInv, NoItemLostOrDuplicated
  <2>10. \A k \in DOMAIN input' : k \in 1..Len(input) \/ k = Len(input) + 1
    BY <2>4
  <2>11. NoItemLostOrDuplicated'
    <3>1. \A j, k \in DOMAIN input' : input'[j] = input'[k] => j = k
      BY <2>4, <2>9, <2>10 DEF IInv, NoItemLostOrDuplicated
    <3>2. \A w \in Workers : worker'[w] \in Busy =>
            /\ holds'[w] \in Accepted' \ processed'
            /\ \A v \in Workers : worker'[v] \in Busy /\ holds'[v] = holds'[w] => v = w
            /\ \A k \in DOMAIN input' : input'[k] # holds'[w]
      BY <2>2, <2>4, <2>6, <2>9, <2>10 DEF IInv, NoItemLostOrDuplicated
    <3>3. \A k \in DOMAIN input' : input'[k] \in Accepted' \ processed'
      BY <2>2, <2>4, <2>6, <2>9, <2>10
    <3>4. processed' \subseteq Accepted'
      BY <2>2, <2>6 DEF IInv, NoItemLostOrDuplicated
    <3>5. ASSUME NEW x \in Accepted' \ processed'
          PROVE  \/ \E k \in DOMAIN input' : input'[k] = x
                 \/ \E w \in Workers : worker'[w] \in Busy /\ holds'[w] = x
      <4>1. CASE x = i
        BY <2>4, <4>1
      <4>2. CASE x \in Accepted \ processed
        BY <2>2, <2>4, <4>2 DEF IInv, NoItemLostOrDuplicated
      <4> QED
        BY <2>2, <2>6, <3>5, <4>1, <4>2
    <3> QED
      BY <3>1, <3>2, <3>3, <3>4, <3>5 DEF NoItemLostOrDuplicated, Busy
  <2>12. Lifecycle'
    BY <1>1, <2>2, <2>3 DEF IInv, Lifecycle
  <2> QED
    BY <2>5, <2>8, <2>11, <2>12 DEF IInv
<1>2. CASE inputClosed /\ SubmitStep(i, "sending", "panicked") /\ UNCHANGED input
  <2>1. "panicked" \in SubmitStates
    BY DEF SubmitStates
  <2>2. /\ submit[i] = "sending" /\ submit'[i] = "panicked" /\ submit' \in [Items -> SubmitStates]
        /\ \A j \in Items : j # i => submit'[j] = submit[j]
        /\ UNCHANGED <<started, launched, stopped, concurrency, ctxDone, worker, holds,
                       drains, uses, shutdown, processed>>
        /\ Received' = Received /\ Running' = Running
    BY <1>2, <2>1, SubmitFacts
  <2>3. UNCHANGED <<input, inputClosed, doneClosed, pending, active, completed, failed>>
    BY <1>2 DEF SendItem, counters
  <2>4. PoolTypes'
    BY <2>2, <2>3 DEF IInv, PoolTypes
  <2>5. Sending' = Sending /\ Accepted' = Accepted
    BY <2>2 DEF Sending, Accepted
  <2>6. Counts'
    BY <2>2, <2>3, <2>5, CountsKept DEF counters
  <2>7. NoItemLostOrDuplicated'
    BY <2>2, <2>3, <2>5, PlacesKept
  <2>8. Lifecycle'
    BY <2>2, <2>3 DEF IInv, Lifecycle
  <2> QED
    BY <2>4, <2>6, <2>7, <2>8 DEF IInv
<1> QED
  BY <1>1, <1>2 DEF SendItem

-----------------------------------------------------------------------------
(* What a step of a worker leaves alone.                                    *)
LEMMA WorkerFacts ==
  ASSUME IInv, NEW w \in Workers, NEW from, NEW to \in WorkerStates, WorkerStep(w, from, to)
  PROVE  /\ worker[w] = from /\ worker'[w] = to /\ worker' \in [Workers -> WorkerStates]
         /\ \A v \in Workers : v # w => worker'[v] = worker[v]
         /\ UNCHANGED <<started, launched, stopped, concurrency, ctxDone, inputClosed,
                        doneClosed, submit, uses, shutdown>>
         /\ Sending' = Sending /\ Accepted' = Accepted
  BY DEF WorkerStep, flags, IInv, PoolTypes, Sending, Accepted

(* The first item leaves the channel for the worker's hands.                *)
LEMMA ReceiveKeeps ==
  ASSUME IInv, NEW w \in Workers, Receive(w)
  PROVE  IInv'
<1>1. PICK from \in {"select", "drain"} : WorkerStep(w, from, "received")
  BY DEF Receive
<1>2. "received" \in WorkerStates
  BY DEF WorkerStates
<1>3. /\ worker[w] = from /\ worker'[w] = "received" /\ worker' \in [Workers -> WorkerStates]
      /\ \A v \in Workers : v # w => worker'[v] = worker[v]
      /\ UNCHANGED <<started, launched, stopped, concurrency, ctxDone, inputClosed,
                     doneClosed, submit, uses, shutdown>>
      /\ Sending' = Sending /\ Accepted' = Accepted
  BY <1>1, <1>2, WorkerFacts
<1>4. /\ input # <<>> /\ input' = Tail(input)
      /\ holds' = [holds EXCEPT ![w] = Head(input)]
      /\ UNCHANGED <<drains, pending, active, completed, failed, processed>>
  BY DEF Receive, counters
<1>5. /\ input' \in Seq(Items) /\ Len(input') = Len(input) - 1 /\ Len(input) \in Nat \ {0}
      /\ DOMAIN input = 1..Len(input) /\ DOMAIN input' = 1..(Len(input) - 1)
      /\ \A k \in 1..(Len(input) - 1) : input'[k] = input[k + 1]
      /\ Head(input) = input[1] /\ Head(input) \in Items
  BY <1>4, HeadTaken DEF IInv
<1>6. /\ holds' \in [Workers -> Items \cup {None}] /\ holds'[w] = input[1]
      /\ \A v \in Workers : v # w => holds'[v] = holds[v]
  BY <1>4, <1>5 DEF IInv, PoolTypes
<1>7. PoolTypes'
  <2>1. Len(input') <= BufSize
    BY <1>5, PoolAssumption DEF IInv, PoolTypes, BufSize
  <2> QED
    BY <1>3, <1>4, <1>5, <1>6, <2>1 DEF IInv, PoolTypes, BufSize
<1>8. Counts'
  <2>1. Received' = Received \cup {w} /\ w \notin Received /\ Running' = Running
    BY <1>3 DEF Received, Running
  <2>2. /\ IsFiniteSet(Received) /\ Cardinality(Received) \in Nat /\ Cardinality(Sending) \in Nat
        /\ pending = Len(input) + Cardinality(Sending) + Cardinality(Received)
    BY Finite DEF IInv, Counts
  <2>3. Cardinality(Received') = Cardinality(Received) + 1
    BY <2>1, <2>2, FS_AddElement
  <2>4. pending' = Len(input') + Cardinality(Sending') + Cardinality(Received')
    BY <1>3, <1>4, <1>5, <2>2, <2>3
  <2> QED
    BY <1>4, <2>1, <2>4 DEF IInv, Counts
<1>9. \A k \in DOMAIN input' : k + 1 \in DOMAIN input /\ k + 1 # 1 /\ input'[k] = input[k + 1]
  BY <1>5
<1>10. 1 \in DOMAIN input
  BY <1>5
<1>11. \A k \in DOMAIN input : k = 1 \/ (k - 1 \in DOMAIN input' /\ input'[k - 1] = input[k])
  BY <1>5
<1>12. NoItemLostOrDuplicated'
  <2>1. \A j, k \in DOMAIN input' : input'[j] = input'[k] => j = k
    <3> SUFFICES ASSUME NEW j \in DOMAIN input', NEW k \in DOMAIN input', input'[j] = input'[k]
                 PROVE  j = k
      OBVIOUS
    <3>1. j + 1 = k + 1
      BY <1>9 DEF IInv, NoItemLostOrDuplicated
    <3>2. j \in Nat /\ k \in Nat
      BY <1>5
    <3> QED
      BY <3>1, <3>2
  <2>2. worker[w] \notin Busy
    BY <1>3 DEF Busy
  <2>3. ASSUME NEW v \in Workers, worker'[v] \in Busy
        PROVE  /\ holds'[v] \in Accepted' \ processed'
               /\ \A u \in Workers : worker'[u] \in Busy /\ holds'[u] = holds'[v] => u = v
               /\ \A k \in DOMAIN input' : input'[k] # holds'[v]
    <3>1. CASE v = w
      <4>1. input[1] \in Accepted \ processed
        BY <1>10 DEF IInv, NoItemLostOrDuplicated
      <4>2. \A u \in Workers : worker'[u] \in Busy /\ u # w => holds'[u] # input[1]
        BY <1>3, <1>6, <1>10 DEF IInv, NoItemLostOrDuplicated
      <4>3. \A k \in DOMAIN input' : input'[k] # input[1]
        BY <1>9, <1>10 DEF IInv, NoItemLostOrDuplicated
      <4> QED
        BY <1>3, <1>4, <1>6, <3>1, <4>1, <4>2, <4>3
    <3>2. CASE v # w
      <4>1. worker[v] \in Busy /\ holds'[v] = holds[v]
        BY <1>3, <1>6, <2>3, <3>2
      <4>2. holds'[v] \in Accepted' \ processed'
        BY <1>3, <1>4, <4>1 DEF IInv, NoItemLostOrDuplicated
      <4>3. \A u \in Workers : worker'[u] \in Busy /\ holds'[u] = holds'[v] => u = v
        BY <1>3, <1>6, <1>10, <4>1 DEF IInv, NoItemLostOrDuplicated
      <4>4. \A k \in DOMAIN input' : input'[k] # holds'[v]
        BY <1>9, <4>1 DEF IInv, NoItemLostOrDuplicated
      <4> QED
        BY <4>2, <4>3, <4>4
    <3> QED
      BY <3>1, <3>2
  <2>4. \A k \in DOMAIN input' : input'[k] \in Accepted' \ processed'
    BY <1>3, <1>4, <1>9 DEF IInv, NoItemLostOrDuplicated
  <2>5. processed' \subseteq Accepted'
    BY <1>3, <1>4 DEF IInv, NoItemLostOrDuplicated
  <2>6. ASSUME NEW x \in Accepted' \ processed'
        PROVE  \/ \E k \in DOMAIN input' : input'[k] = x
               \/ \E v \in Workers : worker'[v] \in Busy /\ holds'[v] = x
    <3>1. x \in Accepted \ processed
      BY <1>3, <1>4
    <3>2. CASE \E k \in DOMAIN input : input[k] = x
      <4>1. PICK k \in DOMAIN input : input[k] = x
        BY <3>2
      <4>2. CASE k = 1
        BY <1>3, <1>6, <4>1, <4>2 DEF Busy
      <4>3. CASE k # 1
        BY <1>11, <4>1, <4>3
      <4> QED
        BY <4>2, <4>3
    <3>3. CASE \E v \in Workers : worker[v] \in Busy /\ holds[v] = x
      BY <1>3, <1>6, <2>2, <3>3
    <3> QED
      BY <3>1, <3>2, <3>3 DEF IInv, NoItemLostOrDuplicated
  <2> QED
    BY <2>1, <2>3, <2>4, <2>5, <2>6 DEF NoItemLostOrDuplicated, Busy
<1>13. Lifecycle'
  <2>1. ~(shutdown = "drained" /\ ctxDone = {})
    BY <1>4 DEF IInv, Lifecycle
  <2>2. \A v \in Workers : ~(worker'[v] = "exited" /\ ctxDone = {})
    BY <1>3, <1>4 DEF IInv, Lifecycle
  <2> QED
    BY <1>3, <1>4, <2>1, <2>2 DEF IInv, Lifecycle
<1> QED
  BY <1>7, <1>8, <1>12, <1>13 DEF IInv

(* The worker turns to the drain loop, or leaves.                           *)
LEMMA LeaveKeeps ==
  ASSUME IInv, NEW w \in Workers, SeeCancel(w) \/ Exit(w)
  PROVE  IInv'
<1>1. PICK from \in {"select", "drain"} : \E to \in {"drain", "exited"} :
         /\ WorkerStep(w, from, to)
         /\ to = "drain" => ctxDone # {}
         /\ to = "exited" => /\ input = <<>>
                             /\ inputClosed \/ from = "drain"
                             /\ UNCHANGED drains
  BY DEF SeeCancel, Exit, Cancelled
<1>2. PICK to \in {"drain", "exited"} :
         /\ WorkerStep(w, from, to)
         /\ to = "drain" => ctxDone # {}
         /\ to = "exited" => /\ input = <<>>
                             /\ inputClosed \/ from = "drain"
                             /\ UNCHANGED drains
  BY <1>1
<1>3. to \in WorkerStates
  BY DEF WorkerStates
<1>4. /\ worker[w] = from /\ worker'[w] = to /\ worker' \in [Workers -> WorkerStates]
      /\ \A v \in Workers : v # w => worker'[v] = worker[v]
      /\ UNCHANGED <<started, launched, stopped, concurrency, ctxDone, inputClosed,
                     doneClosed, submit, uses, shutdown>>
      /\ Sending' = Sending /\ Accepted' = Accepted
  BY <1>2, <1>3, WorkerFacts
<1>5. /\ UNCHANGED <<input, holds, pending, active, completed, failed, processed>>
      /\ drains' \in [Workers -> BOOLEAN]
  BY DEF SeeCancel, Exit, counters, IInv, PoolTypes
<1>6. PoolTypes'
  BY <1>4, <1>5 DEF IInv, PoolTypes
<1>7. Received' = Received /\ Running' = Running
  BY <1>4 DEF Received, Running
<1>8. Counts'
  BY <1>4, <1>5, <1>7, CountsKept DEF counters
<1>9. \A v \in Workers : worker'[v] \in Busy <=> worker[v] \in Busy
  BY <1>4 DEF Busy
<1>10. NoItemLostOrDuplicated'
  BY <1>4, <1>5, <1>9, PlacesKept
<1>11. Lifecycle'
  BY <1>2, <1>4, <1>5, <1>9 DEF IInv, Lifecycle
<1> QED
  BY <1>6, <1>8, <1>10, <1>11 DEF IInv

(* The item moves from pending to active.                                   *)
LEMMA CountKeeps ==
  ASSUME IInv, NEW w \in Workers, UncountPending(w) \/ CountActive(w)
  PROVE  IInv'
<1>1. PICK from \in {"received", "uncounted"} : \E to \in {"uncounted", "processing"} :
         /\ WorkerStep(w, from, to)
         /\ \/ from = "received" /\ to = "uncounted" /\ pending' = pending - 1 /\ active' = active
            \/ from = "uncounted" /\ to = "processing" /\ active' = active + 1 /\ pending' = pending
  BY DEF UncountPending, CountActive
<1>2. PICK to \in {"uncounted", "processing"} :
         /\ WorkerStep(w, from, to)
         /\ \/ from = "received" /\ to = "uncounted" /\ pending' = pending - 1 /\ active' = active
            \/ from = "uncounted" /\ to = "processing" /\ active' = active + 1 /\ pending' = pending
  BY <1>1
<1>3. to \in WorkerStates
  BY DEF WorkerStates
<1>4. /\ worker[w] = from /\ worker'[w] = to /\ worker' \in [Workers -> WorkerStates]
      /\ \A v \in Workers : v # w => worker'[v] = worker[v]
      /\ UNCHANGED <<started, launched, stopped, concurrency, ctxDone, inputClosed,
                     doneClosed, submit, uses, shutdown>>
      /\ Sending' = Sending /\ Accepted' = Accepted
  BY <1>2, <1>3, WorkerFacts
<1>5. UNCHANGED <<input, holds, drains, completed, failed, processed>>
  BY DEF UncountPending, CountActive
<1>6. /\ IsFiniteSet(Received) /\ Cardinality(Received) \in Nat
      /\ IsFiniteSet(Running) /\ Cardinality(Running) \in Nat
      /\ Cardinality(Sending) \in Nat /\ Len(input) \in Nat
      /\ pending = Len(input) + Cardinality(Sending) + Cardinality(Received)
      /\ active = Cardinality(Running)
  BY Finite DEF IInv, Counts
<1>7. /\ pending' = Len(input) + Cardinality(Sending) + Cardinality(Received')
      /\ active' = Cardinality(Running')
      /\ Cardinality(Received') \in Nat
  <2>1. CASE from = "received"
    <3>1. Received' = Received \ {w} /\ w \in Received /\ Running' = Running
      BY <1>2, <1>4, <2>1 DEF Received, Running
    <3>2. Cardinality(Received') = Cardinality(Received) - 1
          /\ IsFiniteSet(Received') /\ Cardinality(Received') \in Nat
      BY <1>6, <3>1, FS_RemoveElement, FS_CardinalityType
    <3> QED
      BY <1>2, <1>6, <2>1, <3>1, <3>2
  <2>2. CASE from = "uncounted"
    <3>1. Running' = Running \cup {w} /\ w \notin Running /\ Received' = Received
      BY <1>2, <1>4, <2>2 DEF Received, Running
    <3>2. Cardinality(Running') = Cardinality(Running) + 1
      BY <1>6, <3>1, FS_AddElement
    <3> QED
      BY <1>2, <1>6, <2>2, <3>1, <3>2
  <2> QED
    BY <2>1, <2>2
<1>8. Counts'
  BY <1>4, <1>5, <1>7 DEF IInv, Counts
<1>9. pending' \in Nat /\ active' \in Nat
  BY <1>2, <1>6, <1>7
<1>10. PoolTypes'
  BY <1>4, <1>5, <1>9 DEF IInv, PoolTypes
<1>11. \A v \in Workers : worker'[v] \in Busy <=> worker[v] \in Busy
  BY <1>2, <1>4 DEF Busy
<1>12. NoItemLostOrDuplicated'
  BY <1>4, <1>5, <1>11, PlacesKept
<1>13. Lifecycle'
  BY <1>2, <1>4, <1>5, <1>11 DEF IInv, Lifecycle
<1> QED
  BY <1>8, <1>10, <1>12, <1>13 DEF IInv

(* The processor returns: the item is done, and counted as done once.       *)
LEMMA ReturnKeeps ==
  ASSUME IInv, NEW w \in Workers, ProcessorReturns(w)
  PROVE  IInv'
<1>1. "counted" \in WorkerStates
  BY DEF WorkerStates
<1>2. WorkerStep(w, "processing", "counted")
  BY DEF ProcessorReturns
<1>3. /\ worker[w] = "processing" /\ worker'[w] = "counted"
      /\ worker' \in [Workers -> WorkerStates]
      /\ \A v \in Workers : v # w => worker'[v] = worker[v]
      /\ UNCHANGED <<started, launched, stopped, concurrency, ctxDone, inputClosed,
                     doneClosed, submit, uses, shutdown>>
      /\ Sending' = Sending /\ Accepted' = Accepted
  BY <1>1, <1>2, WorkerFacts
<1> DEFINE i == holds[w]
<1>4. /\ UNCHANGED <<input, holds, drains, pending, active>>
      /\ processed' = processed \cup {i}
      /\ failed' = IF i \in Failing THEN failed + 1 ELSE failed
      /\ completed' = IF i \in Failing THEN completed ELSE completed + 1
  BY DEF ProcessorReturns
<1>5. /\ i \in Accepted \ processed /\ i \in Items
      /\ \A k \in DOMAIN input : input[k] # i
      /\ \A v \in Workers : worker[v] \in Busy /\ v # w => holds[v] # i
  BY <1>3 DEF IInv, NoItemLostOrDuplicated, Busy, Accepted
<1> HIDE DEF i
<1>6. Received' = Received /\ Running' = Running
  BY <1>3 DEF Received, Running
<1>7. /\ IsFiniteSet(processed \cap Failing) /\ Cardinality(processed \cap Failing) \in Nat
      /\ IsFiniteSet(processed \ Failing) /\ Cardinality(processed \ Failing) \in Nat
      /\ failed = Cardinality(processed \cap Failing)
      /\ completed = Cardinality(processed \ Failing)
  BY Finite DEF IInv, Counts
<1>8. failed' = Cardinality(processed' \cap Failing) /\ completed' = Cardinality(processed' \ Failing)
  <2>1. CASE i \in Failing
    <3>1. /\ processed' \cap Failing = (processed \cap Failing) \cup {i}
          /\ i \notin processed \cap Failing
          /\ processed' \ Failing = processed \ Failing
      BY <1>4, <1>5, <2>1
    <3>2. Cardinality(processed' \cap Failing) = Cardinality(processed \cap Failing) + 1
      BY <1>7, <3>1, FS_AddElement
    <3> QED
      BY <1>4, <1>7, <2>1, <3>1, <3>2
  <2>2. CASE i \notin Failing
    <3>1. /\ processed' \ Failing = (processed \ Failing) \cup {i}
          /\ i \notin processed \ Failing
          /\ processed' \cap Failing = processed \cap Failing
      BY <1>4, <1>5, <2>2
    <3>2. Cardinality(processed' \ Failing) = Cardinality(processed \ Failing) + 1
      BY <1>7, <3>1, FS_AddElement
    <3> QED
      BY <1>4, <1>7, <2>2, <3>1, <3>2
  <2> QED
    BY <2>1, <2>2
<1>9. Counts'
  BY <1>3, <1>4, <1>6, <1>8 DEF IInv, Counts
<1>10. PoolTypes'
  <2>1. failed' \in Nat /\ completed' \in Nat
    BY <1>4, <1>7
  <2> QED
    BY <1>3, <1>4, <1>5, <2>1 DEF IInv, PoolTypes
<1>11. NoItemLostOrDuplicated'
  <2>1. \A v \in Workers : worker'[v] \in Busy <=> (worker[v] \in Busy /\ v # w)
    BY <1>3 DEF Busy
  <2>2. \A j, k \in DOMAIN input' : input'[j] = input'[k] => j = k
    BY <1>4 DEF IInv, NoItemLostOrDuplicated
  <2>3. \A v \in Workers : worker'[v] \in Busy =>
          /\ holds'[v] \in Accepted' \ processed'
          /\ \A u \in Workers : worker'[u] \in Busy /\ holds'[u] = holds'[v] => u = v
          /\ \A k \in DOMAIN input' : input'[k] # holds'[v]
    BY <1>3, <1>4, <1>5, <2>1 DEF IInv, NoItemLostOrDuplicated
  <2>4. \A k \in DOMAIN input' : input'[k] \in Accepted' \ processed'
    BY <1>3, <1>4, <1>5 DEF IInv, NoItemLostOrDuplicated
  <2>5. processed' \subseteq Accepted'
    BY <1>3, <1>4, <1>5 DEF IInv, NoItemLostOrDuplicated
  <2>6. ASSUME NEW x \in Accepted' \ processed'
        PROVE  \/ \E k \in DOMAIN input' : input'[k] = x
               \/ \E v \in Workers : worker'[v] \in Busy /\ holds'[v] = x
    <3>1. x \in Accepted \ processed /\ x # i
      BY <1>3, <1>4
    <3>2. CASE \E k \in DOMAIN input : input[k] = x
      BY <1>4, <3>2
    <3>3. CASE \E v \in Workers : worker[v] \in Busy /\ holds[v] = x
      BY <1>4, <2>1, <3>1, <3>3 DEF i
    <3> QED
      BY <3>1, <3>2, <3>3 DEF IInv, NoItemLostOrDuplicated
  <2> QED
    BY <2>2, <2>3, <2>4, <2>5, <2>6 DEF NoItemLostOrDuplicated, Busy
<1>12. Lifecycle'
  BY <1>3, <1>4 DEF IInv, Lifecycle, Busy
<1> QED
  BY <1>9, <1>10, <1>11, <1>12 DEF IInv

(* The deferred decrement.                                                  *)
LEMMA UncountKeeps ==
  ASSUME IInv, NEW w \in Workers, UncountActive(w)
  PROVE  IInv'
<1>1. PICK to \in {"drain", "select"} :
         WorkerStep(w, "counted", to) /\ (to = "drain" => drains[w])
  BY DEF UncountActive
<1>2. to \in WorkerStates
  BY DEF WorkerStates
<1>3. /\ worker[w] = "counted" /\ worker'[w] = to /\ worker' \in [Workers -> WorkerStates]
      /\ \A v \in Workers : v # w => worker'[v] = worker[v]
      /\ UNCHANGED <<started, launched, stopped, concurrency, ctxDone, inputClosed,
                     doneClosed, submit, uses, shutdown>>
      /\ Sending' = Sending /\ Accepted' = Accepted
  BY <1>1, <1>2, WorkerFacts
<1>4. /\ UNCHANGED <<input, drains, pending, completed, failed, processed>>
      /\ active' = active - 1
      /\ holds' \in [Workers -> Items \cup {None}]
      /\ \A v \in Workers : v # w => holds'[v] = holds[v]
  BY DEF UncountActive, IInv, PoolTypes
<1>5. Running' = Running \ {w} /\ w \in Running /\ Received' = Received
  BY <1>3 DEF Received, Running
<1>6. IsFiniteSet(Running) /\ Cardinality(Running) \in Nat /\ active = Cardinality(Running)
  BY Finite DEF IInv, Counts
<1>7. active' = Cardinality(Running') /\ active' \in Nat
  <2>1. /\ Cardinality(Running') = Cardinality(Running) - 1
        /\ IsFiniteSet(Running') /\ Cardinality(Running') \in Nat
    BY <1>5, <1>6, FS_RemoveElement, FS_CardinalityType
  <2> QED
    BY <1>4, <1>6, <2>1
<1>8. Counts'
  BY <1>3, <1>4, <1>5, <1>7 DEF IInv, Counts
<1>9. PoolTypes'
  BY <1>3, <1>4, <1>7 DEF IInv, PoolTypes
<1>10. \A v \in Workers : /\ worker'[v] \in Busy <=> worker[v] \in Busy
                          /\ worker[v] \in Busy => holds'[v] = holds[v]
  BY <1>3, <1>4 DEF Busy
<1>11. NoItemLostOrDuplicated'
  BY <1>3, <1>4, <1>10, PlacesKept
<1>12. Lifecycle'
  BY <1>1, <1>3, <1>4, <1>10 DEF IInv, Lifecycle
<1> QED
  BY <1>8, <1>9, <1>11, <1>12 DEF IInv

-----------------------------------------------------------------------------
(* Shutdown.  When no worker is left and nobody was cancelled, the channel  *)
(* is empty: a worker exited and found it so, or none was ever launched and *)
(* nothing was accepted.                                                    *)
LEMMA ShutdownKeeps ==
  ASSUME IInv, Shutdown
  PROVE  IInv'
<1>1. /\ UNCHANGED <<started, launched, concurrency, pending, active, completed, failed,
                     submit, worker, holds, drains, uses, input, processed>>
      /\ shutdown' \in ShutdownStates
      /\ inputClosed' \in BOOLEAN /\ doneClosed' \in BOOLEAN /\ stopped' \in BOOLEAN
      /\ ctxDone' \subseteq {"parent", "pool"}
  BY DEF Shutdown, SetStopped, CloseDone, CloseInput, AllExited, ShutdownTimesOut,
         ShutdownStep, counters, goroutines, ShutdownStates, IInv, PoolTypes
<1>2. PoolTypes'
  BY <1>1 DEF IInv, PoolTypes
<1>3. Sending' = Sending /\ Received' = Received /\ Running' = Running /\ Accepted' = Accepted
  BY <1>1 DEF Sending, Received, Running, Accepted
<1>4. Counts'
  BY <1>1, <1>3, CountsKept DEF counters
<1>5. NoItemLostOrDuplicated'
  BY <1>1, <1>3, PlacesKept
<1>6. Lifecycle'
  <2>1. CASE SetStopped
    BY <1>1, <2>1 DEF SetStopped, ShutdownStep, IInv, Lifecycle
  <2>2. CASE CloseDone
    BY <1>1, <2>2 DEF CloseDone, ShutdownStep, IInv, Lifecycle
  <2>3. CASE CloseInput
    BY <1>1, <2>3 DEF CloseInput, ShutdownStep, IInv, Lifecycle
  <2>4. CASE ShutdownTimesOut
    <3>1. shutdown = "waiting" /\ shutdown' = "timed_out" /\ UNCHANGED inputClosed
          /\ (ctxDone' = {} => ctxDone = {})
      BY <2>4 DEF ShutdownTimesOut, ShutdownStep
    <3> QED
      BY <1>1, <3>1 DEF IInv, Lifecycle
  <2>5. CASE AllExited
    <3>1. /\ shutdown = "waiting" /\ shutdown' = "drained" /\ UNCHANGED <<inputClosed, ctxDone>>
          /\ \A w \in Workers : worker[w] \in {"none", "exited"}
      BY <2>5 DEF AllExited, ShutdownStep, Live
    <3>2. \A w \in Workers : worker[w] \notin Busy
      BY <3>1 DEF Busy
    <3>3. ASSUME ctxDone = {} PROVE input = <<>>
      <4>1. CASE \E w \in Workers : worker[w] = "exited"
        BY <3>3, <4>1 DEF IInv, Lifecycle
      <4>2. CASE \A w \in Workers : worker[w] = "none"
        <5>1. ~started
          BY <3>1, <4>2 DEF IInv, Lifecycle
        <5>2. Accepted = {}
          BY <5>1 DEF IInv, Lifecycle, Accepted
        <5>3. DOMAIN input = {}
          BY <5>2 DEF IInv, NoItemLostOrDuplicated
        <5>4. Len(input) \in Nat /\ DOMAIN input = 1..Len(input) /\ input \in Seq(Items)
          BY LenProperties DEF IInv, PoolTypes
        <5>5. Len(input) = 0
          BY <5>3, <5>4
        <5> QED
          BY <5>4, <5>5, EmptySeq
      <4> QED
        BY <3>1, <4>1, <4>2
    <3> QED
      BY <1>1, <3>1, <3>2, <3>3 DEF IInv, Lifecycle
  <2> QED
    BY <2>1, <2>2, <2>3, <2>4, <2>5 DEF Shutdown
<1> QED
  BY <1>2, <1>4, <1>5, <1>6 DEF IInv

(* Every step keeps the inductive invariant.                                *)
LEMMA NextKeeps ==
  ASSUME IInv, [Next]_vars
  PROVE  IInv'
<1>1. CASE SwapStarted \/ LaunchWorkers
  BY <1>1, StartKeeps
<1>2. CASE CancelParent
  BY <1>2, CancelKeeps
<1>3. CASE \E i \in Items : Submitter(i)
  BY <1>3, CheckKeeps, PendingKeeps, SendKeeps DEF Submitter
<1>4. CASE \E w \in Workers : Worker(w)
  BY <1>4, ReceiveKeeps, LeaveKeeps, CountKeeps, ReturnKeeps, UncountKeeps DEF Worker
<1>5. CASE Shutdown
  BY <1>5, ShutdownKeeps
<1>6. CASE \E n \in Sizes : Resize(n)
  BY <1>6, ResizeKeeps
<1>7. CASE UNCHANGED vars \/ LoadActive \/ LoadPending
  <2>1. UNCHANGED <<input, inputClosed, doneClosed, started, launched, stopped, concurrency,
            ctxDone, pending, active, completed, failed, submit, worker, holds, drains, uses,
            shutdown, processed>>
    BY <1>7 DEF vars, channel, flags, counters, goroutines, LoadActive, LoadPending, WaitIdleStep
  <2>2. PoolTypes'
    BY <2>1 DEF IInv, PoolTypes
  <2>3. Counts'
    BY <2>1, CountsKept DEF counters, Sending, Received, Running
  <2>4. NoItemLostOrDuplicated'
    BY <2>1, PlacesKept DEF Accepted
  <2>5. Lifecycle'
    BY <2>1 DEF IInv, Lifecycle
  <2> QED
    BY <2>2, <2>3, <2>4, <2>5 DEF IInv
<1> QED
  BY <1>1, <1>2, <1>3, <1>4, <1>5, <1>6, <1>7 DEF Next, PoolNext

(* A worker that runs an item while WaitIdle is between its loads was        *)
(* counted in active after the first of them, which found active zero.       *)
Between ==
    /\ loads \in {"active", "pending"} /\ begun \subseteq Workers
    /\ loads = "pending" => \A w \in Workers : worker[w] = "processing" => w \in begun

(* Every step keeps what WaitIdle knows between its loads.                  *)
LEMMA BetweenKept ==
  ASSUME IInv, Between, [Next]_vars
  PROVE  Between'
<1>1. CASE LoadActive \/ LoadPending
  <2>1. loads' \in {"active", "pending"} /\ begun' = {} /\ worker' = worker
    BY <1>1 DEF LoadActive, LoadPending, WaitIdleStep, goroutines
  <2>2. CASE LoadActive
    <3>1. active = 0 /\ active = Cardinality(Running) /\ IsFiniteSet(Running)
      BY <2>2, Finite DEF LoadActive, IInv, Counts
    <3>2. Running = {}
      BY <3>1, FS_EmptySet
    <3> QED
      BY <2>1, <3>2 DEF Between, Running
  <2>3. CASE LoadPending
    BY <2>1, <2>3 DEF Between, LoadPending, WaitIdleStep
  <2> QED
    BY <1>1, <2>2, <2>3
<1>2. ASSUME NEW w \in Workers, Worker(w)
      PROVE  Between'
  <2>1. CASE CountActive(w)
    <3>1. /\ loads' = loads /\ worker' = [worker EXCEPT ![w] = "processing"]
          /\ begun' = IF loads = "pending" THEN begun \cup {w} ELSE begun
      BY <2>1 DEF CountActive, WorkerStep
    <3> QED
      BY <3>1 DEF Between, IInv, PoolTypes
  <2>2. CASE UncountActive(w)
    <3>1. PICK to \in {"drain", "select"} :
             /\ loads' = loads /\ worker' = [worker EXCEPT ![w] = to]
             /\ begun' = begun \ {w}
      BY <2>2 DEF UncountActive, WorkerStep
    <3> QED
      BY <3>1 DEF Between, IInv, PoolTypes
  <2>3. CASE Receive(w) \/ SeeCancel(w) \/ Exit(w) \/ UncountPending(w) \/ ProcessorReturns(w)
    <3>1. PICK to \in {"received", "drain", "exited", "uncounted", "counted"} :
             loads' = loads /\ begun' = begun /\ worker' = [worker EXCEPT ![w] = to]
      BY <2>3 DEF Receive, SeeCancel, Exit, UncountPending, ProcessorReturns, WorkerStep
    <3> QED
      BY <3>1 DEF Between, IInv, PoolTypes
  <2> QED
    BY <1>2, <2>1, <2>2, <2>3 DEF Worker
<1>3. ASSUME loads' = loads, begun' = begun,
             \A w \in Workers : worker'[w] = "processing" => worker[w] = "processing"
      PROVE  Between'
  BY <1>3 DEF Between
<1>4. CASE SwapStarted \/ CancelParent \/ Shutdown \/ (\E i \in Items : Submitter(i)) \/ UNCHANGED vars
  <2>1. loads' = loads /\ begun' = begun /\ worker' = worker
    <3>1. CASE SwapStarted \/ CancelParent
      BY <3>1 DEF SwapStarted, CancelParent, waiter, goroutines
    <3>2. CASE Shutdown
      BY <3>2 DEF Shutdown, SetStopped, CloseDone, CloseInput, AllExited, ShutdownTimesOut,
                  ShutdownStep, waiter, goroutines
    <3>3. CASE \E i \in Items : Submitter(i)
      BY <3>3 DEF Submitter, CheckStopped, CheckStarted, CountPending, SendItem, GiveUp,
                  SubmitStep, waiter, goroutines
    <3>4. CASE UNCHANGED vars
      BY <3>4 DEF vars, waiter, goroutines
    <3> QED
      BY <1>4, <3>1, <3>2, <3>3, <3>4
  <2> QED
    BY <1>3, <2>1
<1>5. CASE LaunchWorkers \/ \E n \in Sizes : Resize(n)
  <2>1. /\ loads' = loads /\ begun' = begun
        /\ \E ws \in SUBSET Workers, ctx \in {"parent", "pool"} : Launch(ws, ctx)
    BY <1>5 DEF LaunchWorkers, Resize, waiter, Unused
  <2> QED
    BY <1>3, <2>1 DEF Launch
<1> QED
  BY <1>1, <1>2, <1>4, <1>5 DEF Next, PoolNext

(* Every reachable state of the pool satisfies the inductive invariant.     *)
THEOREM Inductive == Spec => [](IInv /\ Between)
<1>1. Init => Between
  BY DEF Init, Between
<1>2. IInv /\ Between /\ [Next]_vars => (IInv /\ Between)'
  BY NextKeeps, BetweenKept
<1> QED
  BY <1>1, <1>2, InitIInv, PTL DEF Spec

(* The pool's variables keep their types: the counters never go below zero  *)
(* and the channel never holds more than twice the initial concurrency.     *)
THEOREM TypeCorrect == Spec => []TypeOK
<1>1. IInv /\ Between => TypeOK
  BY DEF IInv, Between, TypeOK
<1> QED
  BY <1>1, Inductive, PTL

(* However submitters, workers, Resize and Shutdown interleave, an item     *)
(* Submit accepted is in exactly one place: the channel, one worker's       *)
(* hands, or among the processed ones.                                      *)
THEOREM ItemsInOnePlace == Spec => []NoItemLostOrDuplicated
<1>1. IInv => NoItemLostOrDuplicated
  BY DEF IInv
<1> QED
  BY <1>1, Inductive, PTL

(* The counters are exact up to the steps in progress, so when WaitIdle     *)
(* returns, having loaded active and then pending, what is not processed is *)
(* in the hands of a worker between its two counter updates, or of one that *)
(* was counted in active since the load.                                    *)
THEOREM CountersAreExact == Spec => []CountersExact
<1>1. ASSUME IInv, Between PROVE CountersExact
  <2>1. /\ pending = Len(input) + Cardinality(Sending) + Cardinality(Received)
        /\ active = Cardinality(Running)
        /\ failed = Cardinality(processed \cap Failing)
        /\ completed = Cardinality(processed \ Failing)
    BY <1>1 DEF IInv, Counts
  <2>2. ASSUME WaitIdleReturns, NEW i \in Accepted \ processed
        PROVE  \E w \in Workers :
                  /\ holds[w] = i
                  /\ worker[w] = "uncounted" \/ (worker[w] = "processing" /\ w \in begun)
    <3>1. Len(input) = 0 /\ Cardinality(Received) = 0
      BY <1>1, <2>1, <2>2, Finite DEF WaitIdleReturns, IInv
    <3>2. Received = {}
      BY <1>1, <3>1, Finite, FS_EmptySet DEF IInv
    <3>3. DOMAIN input = {}
      <4>1. DOMAIN input = 1..Len(input)
        BY <1>1, LenProperties DEF IInv, PoolTypes
      <4> QED
        BY <3>1, <4>1
    <3>4. PICK w \in Workers : worker[w] \in Busy /\ holds[w] = i
      BY <1>1, <3>3 DEF IInv, NoItemLostOrDuplicated
    <3> QED
      BY <1>1, <2>2, <3>2, <3>4 DEF Received, Busy, Between, WaitIdleReturns
  <2> QED
    BY <2>1, <2>2 DEF CountersExact, Sending, Received, Running
<1> QED
  BY <1>1, Inductive, PTL

(* A Shutdown that returns nil, with no context cancelled, has let the      *)
(* workers process every item that was accepted.                            *)
THEOREM DrainedMeansProcessed == Spec => []ShutdownDrains
<1>1. ASSUME IInv PROVE ShutdownDrains
  <2> SUFFICES ASSUME shutdown = "drained", ctxDone = {} PROVE processed = Accepted
    BY DEF ShutdownDrains
  <2>1. input = <<>> /\ \A w \in Workers : worker[w] \notin Busy
    BY <1>1 DEF IInv, Lifecycle
  <2>2. DOMAIN input = {}
    BY <2>1
  <2> QED
    BY <1>1, <2>1, <2>2 DEF IInv, NoItemLostOrDuplicated
<1> QED
  BY <1>1, Inductive, PTL
=============================================================================
