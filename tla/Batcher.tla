------------------------------ MODULE Batcher ------------------------------
(***************************************************************************)
(* The load batcher of internal/worker/load/batcher.go.  The mutex makes   *)
(* each locked section one step; the flush function runs after the unlock, *)
(* so flushes of several callers overlap, and a timer callback that has    *)
(* been started waits for the mutex while others reset the timer.          *)
(*                                                                         *)
(* Each record is added by a goroutine of its own.  Callers are the        *)
(* goroutines that may be in the flush function: the records' adders, the  *)
(* timer callbacks, the callers of Flush and the caller of Close.          *)
(***************************************************************************)
EXTENDS Naturals, Sequences, FiniteSets

CONSTANTS Records,   \* the records added
          Timers,    \* identities of concurrent timer callbacks (a bound)
          Flushers,  \* the callers of Flush, each calls it once
          Closer,    \* the caller of Close
          MaxSize    \* maxSize, after the default of NewBatcher

ASSUME BatcherAssumption ==
    /\ IsFiniteSet(Records)
    /\ MaxSize \in Nat \ {0}
    /\ Records \cap Timers = {} /\ Records \cap Flushers = {}
    /\ Timers \cap Flushers = {}
    /\ Closer \notin Records \cup Timers \cup Flushers

VARIABLES
    buffer,     \* the records buffered
    closed,     \* b.closed
    lastErr,    \* b.lastErr is set
    timer,      \* b.timer is armed
    add,        \* what became of each record's Add
    fired,      \* timer callbacks started and waiting for the mutex
    flight,     \* the batch each caller has in the flush function
    flushed,    \* callers of Flush that got past its locked section
    delivered, failed   \* history: records the flush function took, refused

vars == <<buffer, closed, lastErr, timer, add, fired, flight, flushed,
          delivered, failed>>

Callers == Records \cup Timers \cup Flushers \cup {Closer}

Elements(s) == {s[k] : k \in DOMAIN s}
Distinct(s) == \A j, k \in DOMAIN s : s[j] = s[k] => j = k
InFlight == UNION {Elements(flight[c]) : c \in Callers}

-----------------------------------------------------------------------------
(* drainLocked: the batch leaves the buffer, the timer is armed again, and  *)
(* the caller goes into the flush function with it.                         *)
drainLocked(c, batch) ==
    /\ buffer' = <<>>
    /\ timer' = TRUE
    /\ flight' = [flight EXCEPT ![c] = batch]

(* Add, when the batcher is closed. *)
AddClosed(r) ==
    /\ add[r] = "todo" /\ closed
    /\ add' = [add EXCEPT ![r] = "closed"]
    /\ UNCHANGED <<buffer, closed, lastErr, timer, fired, flight, flushed,
                   delivered, failed>>

(* Add, when a timer's flush failed before: the error is returned and       *)
(* cleared, the record is not taken.                                        *)
AddSurfaces(r) ==
    /\ add[r] = "todo" /\ ~closed /\ lastErr
    /\ add' = [add EXCEPT ![r] = "dropped"]
    /\ lastErr' = FALSE
    /\ UNCHANGED <<buffer, closed, timer, fired, flight, flushed, delivered, failed>>

(* Mutant of AddBuffers: the size check is off by one. *)
AddBuffersLate(r) ==
    /\ add[r] = "todo" /\ ~closed /\ ~lastErr
    /\ add' = [add EXCEPT ![r] = "accepted"]
    /\ IF Len(buffer) + 1 > MaxSize
       THEN drainLocked(r, Append(buffer, r))
       ELSE buffer' = Append(buffer, r) /\ UNCHANGED <<timer, flight>>
    /\ UNCHANGED <<closed, lastErr, fired, flushed, delivered, failed>>

(* Add, otherwise: the record that fills the buffer flushes it. *)
AddBuffers(r) ==
    /\ add[r] = "todo" /\ ~closed /\ ~lastErr
    /\ add' = [add EXCEPT ![r] = "accepted"]
    /\ IF Len(buffer) + 1 >= MaxSize
       THEN drainLocked(r, Append(buffer, r))
       ELSE buffer' = Append(buffer, r) /\ UNCHANGED <<timer, flight>>
    /\ UNCHANGED <<closed, lastErr, fired, flushed, delivered, failed>>

(* Flush by f, which is called once. *)
Flush(f) ==
    /\ f \notin flushed
    /\ flushed' = flushed \cup {f}
    /\ IF buffer = <<>>
       THEN UNCHANGED <<buffer, timer, flight>>
       ELSE drainLocked(f, buffer)
    /\ UNCHANGED <<closed, lastErr, add, fired, delivered, failed>>

(* Mutant of Close: what is buffered is left to the timer. *)
CloseWithoutFlush ==
    /\ ~closed
    /\ closed' = TRUE
    /\ UNCHANGED <<buffer, timer, flight, lastErr, add, fired, flushed, delivered, failed>>

(* Close: timer.Stop() comes before drainLocked, which arms it again. *)
Close ==
    /\ ~closed
    /\ closed' = TRUE
    /\ IF buffer = <<>>
       THEN timer' = FALSE /\ UNCHANGED <<buffer, flight>>
       ELSE drainLocked(Closer, buffer)
    /\ UNCHANGED <<lastErr, add, fired, flushed, delivered, failed>>

-----------------------------------------------------------------------------
(* The timer fires: its callback starts in a goroutine of its own. *)
Fire(t) ==
    /\ timer
    /\ timer' = FALSE
    /\ t \notin fired /\ flight[t] = <<>>
    /\ fired' = fired \cup {t}
    /\ UNCHANGED <<buffer, closed, lastErr, add, flight, flushed, delivered, failed>>

(* Mutant of timerFlush: nothing buffered, the timer is not armed again. *)
timerFlushOnce(t) ==
    /\ t \in fired
    /\ fired' = fired \ {t}
    /\ IF closed \/ buffer = <<>>
       THEN UNCHANGED <<buffer, timer, flight>>
       ELSE drainLocked(t, buffer)
    /\ UNCHANGED <<closed, lastErr, add, flushed, delivered, failed>>

(* Mutant of timerFlush: the buffer is read and not replaced. *)
timerFlushKeeps(t) ==
    /\ t \in fired
    /\ fired' = fired \ {t}
    /\ IF closed \/ buffer = <<>>
       THEN timer' = (timer \/ ~closed) /\ UNCHANGED <<buffer, flight>>
       ELSE timer' = TRUE /\ flight' = [flight EXCEPT ![t] = buffer]
            /\ UNCHANGED buffer
    /\ UNCHANGED <<closed, lastErr, add, flushed, delivered, failed>>

(* timerFlush, its first locked section. *)
timerFlush(t) ==
    /\ t \in fired
    /\ fired' = fired \ {t}
    /\ IF closed \/ buffer = <<>>
       THEN timer' = (timer \/ ~closed) /\ UNCHANGED <<buffer, flight>>
       ELSE drainLocked(t, buffer)
    /\ UNCHANGED <<closed, lastErr, add, flushed, delivered, failed>>

(* The flush function returns nil to c. *)
flushFnDelivers(c) ==
    /\ flight[c] # <<>>
    /\ flight' = [flight EXCEPT ![c] = <<>>]
    /\ delivered' = delivered \cup Elements(flight[c])
    /\ UNCHANGED <<buffer, closed, lastErr, timer, add, fired, flushed, failed>>

(* It returns an error, which c passes on; a timer callback has nobody to   *)
(* pass it to, takes the mutex again and keeps it in lastErr.               *)
flushFnFails(c) ==
    /\ flight[c] # <<>>
    /\ flight' = [flight EXCEPT ![c] = <<>>]
    /\ failed' = failed \cup Elements(flight[c])
    /\ lastErr' = (lastErr \/ c \in Timers)
    /\ UNCHANGED <<buffer, closed, timer, add, fired, flushed, delivered>>

-----------------------------------------------------------------------------
Init ==
    /\ buffer = <<>> /\ closed = FALSE /\ lastErr = FALSE
    /\ timer = TRUE
    /\ add = [r \in Records |-> "todo"]
    /\ fired = {} /\ flushed = {}
    /\ flight = [c \in Callers |-> <<>>]
    /\ delivered = {} /\ failed = {}

Next ==
    \/ \E r \in Records : AddClosed(r) \/ AddSurfaces(r) \/ AddBuffers(r)
    \/ \E f \in Flushers : Flush(f)
    \/ Close
    \/ \E t \in Timers : Fire(t) \/ timerFlush(t)
    \/ \E c \in Callers : flushFnDelivers(c) \/ flushFnFails(c)

Spec == Init /\ [][Next]_vars

(* An armed timer fires, a started callback gets the mutex, and the flush   *)
(* function returns; nobody has to call Add, Flush or Close.                *)
Fairness ==
    /\ WF_vars(\E t \in Timers : Fire(t))
    /\ \A t \in Timers : WF_vars(timerFlush(t))
    /\ \A c \in Callers : WF_vars(flushFnDelivers(c) \/ flushFnFails(c))

FairSpec == Spec /\ Fairness

-----------------------------------------------------------------------------
(* Properties.                                                              *)

TypeOK ==
    /\ buffer \in Seq(Records) /\ Len(buffer) < MaxSize
    /\ closed \in BOOLEAN /\ lastErr \in BOOLEAN /\ timer \in BOOLEAN
    /\ add \in [Records -> {"todo", "accepted", "closed", "dropped"}]
    /\ fired \subseteq Timers /\ flushed \subseteq Flushers
    /\ flight \in [Callers -> Seq(Records)]
    /\ delivered \subseteq Records /\ failed \subseteq Records

(* No batch given to the flush function is larger than maxSize, whoever     *)
(* drained the buffer: adders race for the last place in it, and the size   *)
(* check of Add, made after the append, is the only one.                    *)
BatchesBounded == \A c \in Callers : Len(flight[c]) <= MaxSize

(* Every record whose Add returned nil is in one place only: the buffer, the*)
(* batch of one caller, or done; a record not accepted is nowhere.          *)
OnePlace ==
    /\ \A r \in Records :
         add[r] = "accepted" <=>
            r \in Elements(buffer) \cup InFlight \cup delivered \cup failed
    /\ Elements(buffer) \cap InFlight = {}
    /\ (Elements(buffer) \cup InFlight) \cap (delivered \cup failed) = {}
    /\ delivered \cap failed = {}
    /\ \A c, d \in Callers : c # d => Elements(flight[c]) \cap Elements(flight[d]) = {}
    /\ Distinct(buffer)
    /\ \A c \in Callers : Distinct(flight[c])

(* While the batcher is open a flush is always coming: the timer is armed   *)
(* or a callback is waiting for the mutex.  After Close the buffer is empty *)
(* for good, so no record is left behind by a late Add or a late callback.  *)
TimerKeepsGoing == IF closed THEN buffer = <<>> ELSE timer \/ fired # {}

(* The stage of each record, as Handoff sees it. *)
StageOf(r) ==
    CASE add[r] = "todo" -> "new"
      [] add[r] \in {"closed", "dropped"} -> "refused"
      [] r \in Elements(buffer) -> "held"
      [] r \in delivered -> "delivered"
      [] r \in failed -> "failed"
      [] OTHER -> "handed"

H == INSTANCE Handoff WITH stage <- [r \in Records |-> StageOf(r)]

(* The batcher implements Handoff: whatever the interleaving of Add, Flush, *)
(* Close and the timer, each accepted record is handed to the flush         *)
(* function once, in a batch of at most maxSize, and no record stays in the *)
(* buffer, because the timer always comes round.                            *)
ImplementsHandoff == H!HandoffSpec
=============================================================================
