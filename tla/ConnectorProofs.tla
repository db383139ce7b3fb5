--------------------------- MODULE ConnectorProofs ---------------------------
(***************************************************************************)
(* Proofs of the safety properties of the destinations, of what runs a     *)
(* connector, the handler of its messages and the relay of the runtime,    *)
(* and of the reads of the sources: for any number of goroutines, timers,  *)
(* records, messages and rows, and any capacity, input and size of a batch *)
(* or of a page.                                                           *)
(***************************************************************************)
EXTENDS MCConnectors, SequenceTheorems, FiniteSetTheorems, NaturalsInduction,
        WellFoundedInduction, TLAPS

-----------------------------------------------------------------------------
(* The handler of messages.                                                 *)

TimerStates == {"free", "armed", "fired", "flush"}

MhShape ==
    /\ mhBuf \in Seq(Nat) /\ mhTimer \in 0..MhMaxTimers /\ mhTimers \in [Timers -> TimerStates]
    /\ mhProcs \in [Flushers -> SUBSET Nat] /\ mhRouted \in Nat /\ mhFlushed \subseteq Nat

(* A record that was routed is in the buffer, in one flush, or flushed; and *)
(* nothing else is anywhere.                                                *)
MhOnce ==
    \A r \in Nat :
       /\ r \in mhFlushed \union ToSet(mhBuf) => r \in 1..mhRouted
       /\ \A p \in Flushers : r \in mhProcs[p] =>
             r \in 1..mhRouted /\ r \notin mhFlushed \union ToSet(mhBuf)
       /\ r \in 1..mhRouted => \/ r \in mhFlushed \union ToSet(mhBuf)
                               \/ \E p \in Flushers : r \in mhProcs[p]
       /\ r \notin mhFlushed \cap ToSet(mhBuf)
       /\ \A p, q \in Flushers : r \in mhProcs[p] /\ r \in mhProcs[q] => p = q

(* batchTimer is nil while the buffer is empty, and is a timer that will    *)
(* flush while it is not; a callback that flushes is not waiting.           *)
MhTimerLive ==
    /\ mhTimer # 0 => mhBuf # <<>> /\ mhTimers[mhTimer] \in {"armed", "fired"}
    /\ MhTimed /\ mhBuf # <<>> => mhTimer # 0
    /\ \A t \in Timers : mhProcs[t] # {} => mhTimers[t] = "flush"

HandlerIInv == MhShape /\ MhOnce /\ MhTimerLive

LEMMA EmptyBuffer == ToSet(<<>>) = {} /\ <<>> \in Seq(Nat)
  BY EmptySeq DEF ToSet

LEMMA RecordAppended ==
  ASSUME NEW s \in Seq(Nat), NEW e \in Nat
  PROVE  /\ Append(s, e) \in Seq(Nat) /\ ToSet(Append(s, e)) = ToSet(s) \union {e}
         /\ Append(s, e) # <<>>
<1>1. /\ Append(s, e) \in Seq(Nat) /\ Len(Append(s, e)) = Len(s) + 1 /\ Len(s) \in Nat
      /\ \A i \in 1..Len(s) : Append(s, e)[i] = s[i]
      /\ Append(s, e)[Len(s) + 1] = e
      /\ DOMAIN s = 1..Len(s) /\ DOMAIN Append(s, e) = 1..(Len(s) + 1)
  BY AppendProperties
<1>2. ToSet(Append(s, e)) = ToSet(s) \union {e}
  BY <1>1 DEF ToSet
<1>3. Append(s, e) # <<>>
  BY <1>1, EmptySeq
<1> QED
  BY <1>1, <1>2, <1>3

LEMMA ToSetOfNat ==
  ASSUME NEW s \in Seq(Nat)
  PROVE  ToSet(s) \subseteq Nat
  BY ElementOfSeq, LenProperties DEF ToSet

(* A flush takes the buffer, and with it the record that filled it: S.      *)
LEMMA MhTakes ==
  ASSUME MhShape, MhOnce, NEW p \in Flushers, mhProcs[p] = {}, NEW S,
         mhProcs' = [mhProcs EXCEPT ![p] = S], mhBuf' = <<>>, mhFlushed' = mhFlushed,
         \/ mhRouted' = mhRouted /\ S = ToSet(mhBuf)
         \/ mhRouted' = mhRouted + 1 /\ S = ToSet(mhBuf) \union {mhRouted + 1}
  PROVE  /\ MhOnce' /\ mhProcs' \in [Flushers -> SUBSET Nat] /\ mhBuf' \in Seq(Nat)
         /\ mhRouted' \in Nat /\ mhFlushed' \subseteq Nat
<1>1. mhRouted \in Nat /\ mhProcs \in [Flushers -> SUBSET Nat] /\ mhBuf \in Seq(Nat)
      /\ mhFlushed \subseteq Nat
  BY DEF MhShape
<1>2. mhRouted' \in Nat /\ S \subseteq Nat /\ ToSet(mhBuf') = {}
  BY <1>1, ToSetOfNat, EmptyBuffer
<1>3. \A q \in Flushers : mhProcs'[q] = IF q = p THEN S ELSE mhProcs[q]
  BY <1>1
<1>4. ASSUME NEW r \in Nat
      PROVE  /\ r \in mhFlushed' \union ToSet(mhBuf') => r \in 1..mhRouted'
             /\ \A q \in Flushers : r \in mhProcs'[q] =>
                  r \in 1..mhRouted' /\ r \notin mhFlushed' \union ToSet(mhBuf')
             /\ r \in 1..mhRouted' => \/ r \in mhFlushed' \union ToSet(mhBuf')
                                      \/ \E q \in Flushers : r \in mhProcs'[q]
             /\ r \notin mhFlushed' \cap ToSet(mhBuf')
             /\ \A q, u \in Flushers : r \in mhProcs'[q] /\ r \in mhProcs'[u] => q = u
  <2>1. /\ r \in mhFlushed \union ToSet(mhBuf) => r \in 1..mhRouted
        /\ \A q \in Flushers : r \in mhProcs[q] =>
             r \in 1..mhRouted /\ r \notin mhFlushed \union ToSet(mhBuf)
        /\ r \in 1..mhRouted => \/ r \in mhFlushed \union ToSet(mhBuf)
                                \/ \E q \in Flushers : r \in mhProcs[q]
        /\ r \notin mhFlushed \cap ToSet(mhBuf)
        /\ \A q, u \in Flushers : r \in mhProcs[q] /\ r \in mhProcs[u] => q = u
    BY DEF MhOnce
  <2>2. r \in S <=> r \in ToSet(mhBuf) \/ (r \in 1..mhRouted' /\ r \notin 1..mhRouted)
    BY <1>1, <2>1
  <2>3. r \in 1..mhRouted => r \in 1..mhRouted'
    BY <1>1
  <2> QED
    BY <1>2, <1>3, <2>1, <2>2, <2>3
<1> QED
  BY <1>1, <1>2, <1>4, EmptyBuffer DEF MhOnce

(* The buffer is empty and batchTimer nil after a flush, whatever becomes   *)
(* of the timers that do not flush.                                         *)
LEMMA MhTimerAfterFlush ==
  ASSUME MhShape, MhTimerLive, NEW p \in Flushers, NEW S, NEW timers \in [Timers -> TimerStates],
         mhProcs' = [mhProcs EXCEPT ![p] = S], mhBuf' = <<>>,
         mhTimers' = Stopped(timers), mhTimer' = 0,
         \A t \in Timers : timers[t] = IF t = p THEN "flush" ELSE mhTimers[t]
  PROVE  MhTimerLive' /\ mhTimers' \in [Timers -> TimerStates] /\ mhTimer' \in 0..MhMaxTimers
<1>1. mhTimers' \in [Timers -> TimerStates]
  BY DEF Stopped, TimerStates
<1>2. \A t \in Timers : mhProcs'[t] # {} => mhTimers'[t] = "flush"
  <2> SUFFICES ASSUME NEW t \in Timers, mhProcs'[t] # {} PROVE mhTimers'[t] = "flush"
    OBVIOUS
  <2>1. timers[t] = "flush"
    BY DEF MhShape, MhTimerLive, Flushers
  <2> QED
    BY <2>1 DEF Stopped
<1> QED
  BY <1>1, <1>2, HandlerAssumption DEF MhTimerLive, MhShape

(* A goroutine flushes: its own call, which no timer is.                    *)
LEMMA MhProcFlushes ==
  ASSUME HandlerIInv, NEW p \in MhProcs, mhProcs[p] = {}, NEW buf,
         flushBatchLocked(p, buf, mhTimers), mhFlushed' = mhFlushed,
         \/ mhRouted' = mhRouted /\ ToSet(buf) = ToSet(mhBuf)
         \/ mhRouted' = mhRouted + 1 /\ ToSet(buf) = ToSet(mhBuf) \union {mhRouted + 1}
  PROVE  HandlerIInv'
<1>1. p \in Flushers /\ MhShape /\ MhOnce /\ MhTimerLive
  BY DEF Flushers, HandlerIInv
<1>2. /\ mhProcs' = [mhProcs EXCEPT ![p] = ToSet(buf)] /\ mhBuf' = <<>>
      /\ mhTimers' = Stopped(mhTimers) /\ mhTimer' = 0
  BY DEF flushBatchLocked
<1>3. /\ MhOnce' /\ mhProcs' \in [Flushers -> SUBSET Nat] /\ mhBuf' \in Seq(Nat)
      /\ mhRouted' \in Nat /\ mhFlushed' \subseteq Nat
  BY <1>1, <1>2, MhTakes
<1>4. \A t \in Timers : mhTimers[t] = IF t = p THEN "flush" ELSE mhTimers[t]
  BY HandlerAssumption DEF Timers
<1>5. mhTimers \in [Timers -> TimerStates]
  BY <1>1 DEF MhShape
<1>6. MhTimerLive' /\ mhTimers' \in [Timers -> TimerStates] /\ mhTimer' \in 0..MhMaxTimers
  BY <1>1, <1>2, <1>4, <1>5, MhTimerAfterFlush
<1> QED
  BY <1>3, <1>6 DEF HandlerIInv, MhShape

LEMMA MhHandles ==
  ASSUME HandlerIInv, NEW p \in MhProcs, handleRecord(p)
  PROVE  HandlerIInv'
<1> DEFINE buf == Append(mhBuf, mhRouted + 1)
<1>1. MhShape /\ MhOnce /\ MhTimerLive /\ mhProcs[p] = {} /\ mhRouted' = mhRouted + 1
      /\ mhFlushed' = mhFlushed
  BY DEF HandlerIInv, handleRecord, Routing
<1>2. mhBuf \in Seq(Nat) /\ mhRouted \in Nat /\ mhRouted + 1 \in Nat
  BY <1>1 DEF MhShape
<1>3. buf \in Seq(Nat) /\ ToSet(buf) = ToSet(mhBuf) \union {mhRouted + 1} /\ buf # <<>>
  BY <1>2, RecordAppended
<1>4. CASE flushBatchLocked(p, buf, mhTimers)
  BY <1>1, <1>3, <1>4, MhProcFlushes
<1>5. CASE mhBuf' = buf /\ mhProcs' = mhProcs
           /\ IF mhTimer # 0 \/ ~MhTimed THEN UNCHANGED <<mhTimer, mhTimers>>
              ELSE \E t \in Timers :
                     /\ mhTimers[t] = "free" /\ \A s \in 1..(t - 1) : mhTimers[s] # "free"
                     /\ mhTimer' = t /\ mhTimers' = [mhTimers EXCEPT ![t] = "armed"]
  <2>1. MhOnce'
    <3>1. \A r \in Nat : r \in 1..mhRouted' <=> r \in 1..mhRouted \/ r = mhRouted + 1
      BY <1>1, <1>2
    <3>2. mhRouted + 1 \notin 1..mhRouted
      BY <1>2
    <3>3. \A r : r \in ToSet(mhBuf') <=> r \in ToSet(mhBuf) \/ r = mhRouted + 1
      BY <1>3, <1>5
    <3> HIDE DEF buf
    <3>4. ASSUME NEW r \in Nat
          PROVE  /\ r \in mhFlushed' \union ToSet(mhBuf') => r \in 1..mhRouted'
                 /\ \A q \in Flushers : r \in mhProcs'[q] =>
                      r \in 1..mhRouted' /\ r \notin mhFlushed' \union ToSet(mhBuf')
                 /\ r \in 1..mhRouted' => \/ r \in mhFlushed' \union ToSet(mhBuf')
                                          \/ \E q \in Flushers : r \in mhProcs'[q]
                 /\ r \notin mhFlushed' \cap ToSet(mhBuf')
                 /\ \A q, u \in Flushers : r \in mhProcs'[q] /\ r \in mhProcs'[u] => q = u
      <4>1. /\ r \in mhFlushed \union ToSet(mhBuf) => r \in 1..mhRouted
            /\ \A q \in Flushers : r \in mhProcs[q] =>
                 r \in 1..mhRouted /\ r \notin mhFlushed \union ToSet(mhBuf)
            /\ r \in 1..mhRouted => \/ r \in mhFlushed \union ToSet(mhBuf)
                                    \/ \E q \in Flushers : r \in mhProcs[q]
            /\ r \notin mhFlushed \cap ToSet(mhBuf)
            /\ \A q, u \in Flushers : r \in mhProcs[q] /\ r \in mhProcs[u] => q = u
        BY <1>1 DEF MhOnce
      <4>2. (r \in 1..mhRouted' <=> r \in 1..mhRouted \/ r = mhRouted + 1)
            /\ (r \in ToSet(mhBuf') <=> r \in ToSet(mhBuf) \/ r = mhRouted + 1)
        BY <3>1, <3>3
      <4> QED
        BY <1>1, <1>5, <3>2, <4>1, <4>2, Zenon
    <3> QED
      BY <3>4 DEF MhOnce
  <2> HIDE DEF buf
  <2>2. CASE UNCHANGED <<mhTimer, mhTimers>> /\ (mhTimer # 0 \/ ~MhTimed)
    BY <1>1, <1>2, <1>3, <1>5, <2>1, <2>2 DEF HandlerIInv, MhShape, MhTimerLive
  <2>3. CASE \E t \in Timers : /\ mhTimers[t] = "free" /\ mhTimer' = t
                               /\ mhTimers' = [mhTimers EXCEPT ![t] = "armed"]
    <3>1. PICK t \in Timers : /\ mhTimers[t] = "free" /\ mhTimer' = t
                              /\ mhTimers' = [mhTimers EXCEPT ![t] = "armed"]
      BY <2>3
    <3>2. mhTimers \in [Timers -> TimerStates] /\ mhTimers'[t] = "armed"
          /\ \A s \in Timers : s # t => mhTimers'[s] = mhTimers[s]
      BY <1>1, <3>1 DEF MhShape
    <3>3. mhTimer' \in 0..MhMaxTimers /\ mhTimer' # 0 /\ mhTimers' \in [Timers -> TimerStates]
      BY <3>1, <3>2, HandlerAssumption DEF Timers, TimerStates
    <3>4. \A s \in Timers : mhProcs'[s] # {} => mhTimers'[s] = "flush"
      BY <1>1, <1>5, <3>1, <3>2 DEF MhTimerLive
    <3>5. MhTimerLive'
      BY <1>3, <1>5, <3>1, <3>2, <3>3, <3>4 DEF MhTimerLive
    <3> QED
      BY <1>1, <1>2, <1>3, <1>5, <2>1, <3>3, <3>5 DEF HandlerIInv, MhShape
  <2> QED
    BY <1>5, <2>2, <2>3
<1> QED
  BY <1>4, <1>5 DEF handleRecord

LEMMA MhEnds ==
  ASSUME HandlerIInv, NEW p \in MhProcs, RouteMessageFails(p) \/ ProcessChannelEnds(p)
  PROVE  HandlerIInv'
<1>1. CASE UNCHANGED <<mhBuf, mhTimer, mhTimers, mhProcs, mhRouted, mhFlushed>>
  BY <1>1 DEF HandlerIInv, MhShape, MhOnce, MhTimerLive
<1>2. CASE mhProcs[p] = {} /\ flushBatchLocked(p, mhBuf, mhTimers)
           /\ UNCHANGED <<mhRouted, mhFlushed>>
  BY <1>2, MhProcFlushes
<1> QED
  BY <1>1, <1>2 DEF RouteMessageFails, ProcessChannelEnds, Routing

(* The timer that fires is the one of the buffer or one that was stopped    *)
(* too late: for the buffer nothing changes.                                *)
LEMMA MhFires ==
  ASSUME HandlerIInv, NEW t \in Timers, TimerFires(t)
  PROVE  HandlerIInv'
<1>1. mhTimers \in [Timers -> TimerStates] /\ mhTimers[t] = "armed"
      /\ mhTimers' = [mhTimers EXCEPT ![t] = "fired"]
      /\ UNCHANGED <<mhBuf, mhTimer, mhProcs, mhEnded, mhRouted, mhFlushed, mhErrors>>
  BY DEF HandlerIInv, MhShape, TimerFires
<1>2. mhTimers' \in [Timers -> TimerStates] /\ mhTimers'[t] = "fired"
      /\ \A s \in Timers : s # t => mhTimers'[s] = mhTimers[s]
  BY <1>1 DEF TimerStates
<1>3. mhTimer # 0 => mhTimer \in Timers
  BY DEF HandlerIInv, MhShape, Timers
<1>4. MhTimerLive'
  BY <1>1, <1>2, <1>3 DEF HandlerIInv, MhTimerLive
<1> QED
  BY <1>1, <1>2, <1>4 DEF HandlerIInv, MhShape, MhOnce

LEMMA MhTimerFlushes ==
  ASSUME HandlerIInv, NEW t \in Timers, TimerFlushes(t)
  PROVE  HandlerIInv'
<1>1. MhShape /\ MhOnce /\ MhTimerLive /\ mhTimers[t] = "fired" /\ t \in Flushers
      /\ mhTimers \in [Timers -> TimerStates] /\ UNCHANGED <<mhEnded, mhRouted, mhFlushed>>
  BY DEF HandlerIInv, MhShape, TimerFlushes, Flushers
<1>2. mhProcs[t] = {}
  BY <1>1 DEF MhTimerLive
<1>3. CASE mhBuf = <<>> /\ mhTimers' = [mhTimers EXCEPT ![t] = "free"]
           /\ UNCHANGED <<mhBuf, mhTimer, mhProcs>>
  <2>1. mhTimers' \in [Timers -> TimerStates] /\ mhTimer = 0
        /\ \A s \in Timers : s # t => mhTimers'[s] = mhTimers[s]
    BY <1>1, <1>3 DEF TimerStates, MhTimerLive
  <2>2. MhTimerLive'
    BY <1>1, <1>2, <1>3, <2>1 DEF MhTimerLive
  <2> QED
    BY <1>1, <1>3, <2>1, <2>2 DEF HandlerIInv, MhShape, MhOnce
<1>4. CASE flushBatchLocked(t, mhBuf, [mhTimers EXCEPT ![t] = "flush"])
  <2> DEFINE timers == [mhTimers EXCEPT ![t] = "flush"]
  <2>1. /\ mhProcs' = [mhProcs EXCEPT ![t] = ToSet(mhBuf)] /\ mhBuf' = <<>>
        /\ mhTimers' = Stopped(timers) /\ mhTimer' = 0
    BY <1>4 DEF flushBatchLocked
  <2>2. timers \in [Timers -> TimerStates]
        /\ \A s \in Timers : timers[s] = IF s = t THEN "flush" ELSE mhTimers[s]
    BY <1>1 DEF TimerStates
  <2> HIDE DEF timers
  <2>3. /\ MhOnce' /\ mhProcs' \in [Flushers -> SUBSET Nat] /\ mhBuf' \in Seq(Nat)
        /\ mhRouted' \in Nat /\ mhFlushed' \subseteq Nat
    BY <1>1, <1>2, <2>1, MhTakes
  <2>4. MhTimerLive' /\ mhTimers' \in [Timers -> TimerStates] /\ mhTimer' \in 0..MhMaxTimers
    BY <1>1, <2>1, <2>2, MhTimerAfterFlush
  <2> QED
    BY <2>3, <2>4 DEF HandlerIInv, MhShape
<1> QED
  BY <1>3, <1>4 DEF TimerFlushes

LEMMA MhFlushReturns ==
  ASSUME HandlerIInv, NEW p \in Flushers, BatchFlushReturns(p)
  PROVE  HandlerIInv'
<1>1. /\ MhShape /\ MhOnce /\ MhTimerLive /\ mhProcs[p] # {}
      /\ mhProcs \in [Flushers -> SUBSET Nat] /\ mhFlushed \subseteq Nat
      /\ mhTimers \in [Timers -> TimerStates]
      /\ mhFlushed' = mhFlushed \union mhProcs[p]
      /\ mhProcs' = [mhProcs EXCEPT ![p] = {}]
      /\ mhTimers' = [t \in Timers |-> IF t = p THEN "free" ELSE mhTimers[t]]
      /\ UNCHANGED <<mhBuf, mhTimer, mhRouted>>
  BY DEF HandlerIInv, MhShape, BatchFlushReturns
<1>2. \A q \in Flushers : mhProcs'[q] = IF q = p THEN {} ELSE mhProcs[q]
  BY <1>1
<1>3. MhShape'
  <2>1. mhFlushed' \subseteq Nat /\ mhProcs' \in [Flushers -> SUBSET Nat]
    BY <1>1
  <2>2. mhTimers' \in [Timers -> TimerStates]
    BY <1>1 DEF TimerStates
  <2> QED
    BY <1>1, <2>1, <2>2 DEF MhShape
<1>4. ASSUME NEW r \in Nat
      PROVE  /\ r \in mhFlushed' \union ToSet(mhBuf') => r \in 1..mhRouted'
             /\ \A q \in Flushers : r \in mhProcs'[q] =>
                  r \in 1..mhRouted' /\ r \notin mhFlushed' \union ToSet(mhBuf')
             /\ r \in 1..mhRouted' => \/ r \in mhFlushed' \union ToSet(mhBuf')
                                      \/ \E q \in Flushers : r \in mhProcs'[q]
             /\ r \notin mhFlushed' \cap ToSet(mhBuf')
             /\ \A q, u \in Flushers : r \in mhProcs'[q] /\ r \in mhProcs'[u] => q = u
  <2>1. /\ r \in mhFlushed \union ToSet(mhBuf) => r \in 1..mhRouted
        /\ \A q \in Flushers : r \in mhProcs[q] =>
             r \in 1..mhRouted /\ r \notin mhFlushed \union ToSet(mhBuf)
        /\ r \in 1..mhRouted => \/ r \in mhFlushed \union ToSet(mhBuf)
                                \/ \E q \in Flushers : r \in mhProcs[q]
        /\ r \notin mhFlushed \cap ToSet(mhBuf)
        /\ \A q, u \in Flushers : r \in mhProcs[q] /\ r \in mhProcs[u] => q = u
    BY <1>1 DEF MhOnce
  <2>2. ToSet(mhBuf') = ToSet(mhBuf) /\ 1..mhRouted' = 1..mhRouted
        /\ (r \in mhFlushed' <=> r \in mhFlushed \/ r \in mhProcs[p])
    BY <1>1
  <2> QED
    BY <1>2, <2>1, <2>2
<1>5. MhTimerLive'
  <2>1. mhTimer # 0 => mhTimer \in Timers /\ mhTimer # p
    BY <1>1 DEF MhShape, Timers, MhTimerLive
  <2>2. mhTimer # 0 => mhTimers'[mhTimer] = mhTimers[mhTimer]
    BY <1>1, <2>1
  <2>3. \A t \in Timers : mhProcs'[t] # {} => mhTimers'[t] = "flush"
    BY <1>1, <1>2 DEF MhTimerLive, Flushers
  <2> QED
    BY <1>1, <2>2, <2>3 DEF MhTimerLive
<1> QED
  BY <1>3, <1>4, <1>5 DEF HandlerIInv, MhOnce

LEMMA MhGives ==
  ASSUME HandlerIInv
  PROVE  BufferedWillFlush
<1>1. MhShape /\ MhOnce /\ MhTimerLive
  BY DEF HandlerIInv
<1>2. ASSUME NEW r \in 1..mhRouted
      PROVE  Cardinality({p \in Flushers : r \in mhProcs[p]})
               + (IF r \in mhFlushed THEN 1 ELSE 0) + (IF r \in ToSet(mhBuf) THEN 1 ELSE 0) = 1
  <2> DEFINE P == {p \in Flushers : r \in mhProcs[p]}
  <2>1. r \in Nat
    BY <1>1 DEF MhShape
  <2>2. /\ P # {} => r \notin mhFlushed \union ToSet(mhBuf)
        /\ P = {} => r \in mhFlushed \union ToSet(mhBuf)
        /\ r \notin mhFlushed \cap ToSet(mhBuf) /\ \A p, q \in P : p = q
    BY <1>1, <2>1 DEF MhOnce
  <2> HIDE DEF P
  <2>3. CASE P = {}
    <3>1. Cardinality(P) = 0
      BY <2>3, FS_EmptySet
    <3> QED
      BY <2>2, <2>3, <3>1 DEF P
  <2>4. CASE P # {}
    <3>1. PICK p : p \in P
      BY <2>4
    <3>2. P = {p}
      BY <2>2, <3>1
    <3>3. Cardinality(P) = 1
      BY <3>2, FS_Singleton
    <3> QED
      BY <2>2, <2>4, <3>3 DEF P
  <2> QED
    BY <2>3, <2>4
<1>3. MhTimed /\ mhBuf # <<>> => mhTimer # 0 /\ mhTimers[mhTimer] \in {"armed", "fired"}
  BY <1>1 DEF MhTimerLive
<1> QED
  BY <1>2, <1>3 DEF BufferedWillFlush

(* The invariant of the handler: initially, and with every step.           *)
LEMMA HandlerInductive == MessageHandlerSpec => []HandlerIInv
<1>1. MessageHandlerInit => HandlerIInv
  <2> SUFFICES ASSUME MessageHandlerInit PROVE HandlerIInv
    OBVIOUS
  <2>1. MhShape
    BY EmptyBuffer, HandlerAssumption DEF MessageHandlerInit, MhShape, TimerStates
  <2>2. MhOnce
    BY EmptyBuffer DEF MessageHandlerInit, MhOnce
  <2>3. MhTimerLive
    BY DEF MessageHandlerInit, MhTimerLive, Flushers
  <2> QED
    BY <2>1, <2>2, <2>3 DEF HandlerIInv
<1>2. HandlerIInv /\ [MessageHandlerNext]_mhVars => HandlerIInv'
  <2> SUFFICES ASSUME HandlerIInv, [MessageHandlerNext]_mhVars PROVE HandlerIInv'
    OBVIOUS
  <2>1. CASE UNCHANGED mhVars
    BY <2>1 DEF mhVars, HandlerIInv, MhShape, MhOnce, MhTimerLive
  <2>2. CASE MessageHandlerNext
    BY <2>2, MhHandles, MhEnds, MhFires, MhTimerFlushes, MhFlushReturns DEF MessageHandlerNext
  <2> QED
    BY <2>1, <2>2
<1> QED
  BY <1>1, <1>2, PTL DEF MessageHandlerSpec

(* However goroutines, full batches, ends of channels and the callbacks of  *)
(* timers overlap, for any number of each and any batch size, a record that *)
(* protocol/handler.go routed is in the buffer, in one flush, or flushed;   *)
(* and while the buffer holds one, batchTimer is a timer that will flush.   *)
THEOREM BatchesWillFlush == MessageHandlerSpec => []BufferedWillFlush
<1>1. HandlerIInv => BufferedWillFlush
  BY MhGives
<1> QED
  BY <1>1, HandlerInductive, PTL

-----------------------------------------------------------------------------
(* The relay of the runtime.                                                *)

RtSenders == [pc : {"send", "ok", "error"}, sent : Nat]
RtChannels == [buf : Seq(Nat), closed : BOOLEAN]
RtRelays == [pc : {"receive", "forward", "warn", "ended"}, msg : Nat, count : Nat]
RtReceivers == [pc : {"receive", "ok", "error"}, took : Seq(Nat)]

RtShape ==
    /\ rtKind \in {"read", "write"} /\ rtSender \in RtSenders /\ rtRelay \in RtRelays
    /\ rtIn \in RtChannels /\ rtOut \in RtChannels /\ rtReceiver \in RtReceivers
    /\ rtCtx \in {"open", "cancelled", "deadline", "finished"}

(* n messages have come out, in order; a log message is after them at most, *)
(* and the relay has then ended.                                            *)
RtCame(n) ==
    /\ Len(Relayed) \in {n, n + 1} /\ \A i \in 1..n : Relayed[i] = i
    /\ Len(Relayed) = n + 1 => rtRelay.pc = "ended" /\ Relayed[n + 1] = 0

(* The ones after them are in the relay and in the channel, up to the last  *)
(* one sent.                                                                *)
RtBehind(n) ==
    /\ rtRelay.pc = "receive" =>
          n + Len(rtIn.buf) = rtSender.sent /\ \A j \in 1..Len(rtIn.buf) : rtIn.buf[j] = n + j
    /\ rtRelay.pc \in {"forward", "warn"} =>
          /\ rtRelay.msg = n + 1 /\ n + 1 + Len(rtIn.buf) = rtSender.sent
          /\ \A j \in 1..Len(rtIn.buf) : rtIn.buf[j] = n + 1 + j

(* A relay that ended quietly has passed on everything, or was stopped.     *)
RtWhole(n) ==
    rtRelay.pc = "ended" /\ Len(Relayed) = n /\ rtCtx \in {"open", "finished"} =>
       n = Len(RtMessages) \/ (rtKind = "write" /\ rtBox # "running")

RtEnds ==
    /\ rtOut.closed <=> rtRelay.pc = "ended"
    /\ rtSender.pc = "ok" => rtSender.sent = Len(RtMessages)
    /\ rtKind = "write" /\ rtIn.closed => rtSender.pc = "ok"
    /\ rtKind = "read" /\ rtBox = "ok" => rtSender.pc = "ok"
    /\ rtCtx = "finished" /\ rtRelay.pc # "ended" => rtKind = "write" /\ rtBox # "running"

RuntimeIInv ==
    /\ RtShape /\ RtEnds
    /\ \E n \in Nat : RtCame(n) /\ RtBehind(n) /\ RtWhole(n)

LEMMA StreamPut ==
  ASSUME NEW s \in Seq(Nat), NEW o \in Seq(Nat), NEW m \in Nat
  PROVE  /\ Append(o, m) \in Seq(Nat)
         /\ Len(s \o o) \in Nat /\ Len(s \o Append(o, m)) = Len(s \o o) + 1
         /\ \A i \in 1..Len(s \o o) : (s \o Append(o, m))[i] = (s \o o)[i]
         /\ (s \o Append(o, m))[Len(s \o o) + 1] = m
<1>1. PICK a : a = Append(o, m)
  OBVIOUS
<1>2. /\ a \in Seq(Nat) /\ Len(a) = Len(o) + 1 /\ Len(o) \in Nat /\ Len(s) \in Nat
      /\ \A i \in 1..Len(o) : a[i] = o[i]
      /\ a[Len(o) + 1] = m
  BY <1>1, AppendProperties, LenProperties
<1>3. /\ Len(s \o a) = Len(s) + Len(a)
      /\ \A i \in 1 .. Len(s) + Len(a) : (s \o a)[i] = IF i <= Len(s) THEN s[i] ELSE a[i - Len(s)]
  BY <1>2, ConcatProperties
<1>4. /\ Len(s \o o) = Len(s) + Len(o)
      /\ \A i \in 1 .. Len(s) + Len(o) : (s \o o)[i] = IF i <= Len(s) THEN s[i] ELSE o[i - Len(s)]
  BY ConcatProperties
<1>5. \A i \in 1..Len(s \o o) : (s \o a)[i] = (s \o o)[i]
  <2> SUFFICES ASSUME NEW i \in 1..(Len(s) + Len(o)) PROVE (s \o a)[i] = (s \o o)[i]
    BY <1>4
  <2>1. CASE i <= Len(s)
    BY <1>2, <1>3, <1>4, <2>1
  <2>2. CASE ~(i <= Len(s))
    <3>1. i - Len(s) \in 1..Len(o) /\ i \in 1..(Len(s) + Len(a))
      BY <1>2, <2>2
    <3>2. (s \o a)[i] = a[i - Len(s)] /\ (s \o o)[i] = o[i - Len(s)]
      BY <1>3, <1>4, <2>2, <3>1
    <3> QED
      BY <1>2, <3>1, <3>2
  <2> QED
    BY <2>1, <2>2
<1>6. (s \o a)[Len(s \o o) + 1] = m
  <2>1. PICK k : k = Len(s) + Len(o) + 1
    OBVIOUS
  <2>2. k \in 1..(Len(s) + Len(a)) /\ ~(k <= Len(s)) /\ k - Len(s) = Len(o) + 1
    BY <1>2, <2>1
  <2> QED
    BY <1>2, <1>3, <1>4, <2>1, <2>2
<1> QED
  BY <1>1, <1>2, <1>3, <1>4, <1>5, <1>6

LEMMA StreamTaken ==
  ASSUME NEW s \in Seq(Nat), NEW o \in Seq(Nat), o # <<>>
  PROVE  /\ Append(s, Head(o)) \in Seq(Nat) /\ Tail(o) \in Seq(Nat)
         /\ Append(s, Head(o)) \o Tail(o) = s \o o
<1>1. PICK a, t, h : a = Append(s, h) /\ t = Tail(o) /\ h = Head(o)
  OBVIOUS
<1>2. /\ h \in Nat /\ t \in Seq(Nat) /\ Len(t) = Len(o) - 1 /\ h = o[1]
      /\ \A i \in 1..Len(t) : t[i] = o[i + 1]
  BY <1>1, HeadTailProperties
<1>3. /\ a \in Seq(Nat) /\ Len(a) = Len(s) + 1 /\ Len(s) \in Nat /\ Len(o) \in Nat
      /\ \A i \in 1..Len(s) : a[i] = s[i]
      /\ a[Len(s) + 1] = h
  BY <1>1, <1>2, AppendProperties, LenProperties
<1>4. /\ a \o t \in Seq(Nat) /\ Len(a \o t) = Len(a) + Len(t)
      /\ \A i \in 1 .. Len(a) + Len(t) : (a \o t)[i] = IF i <= Len(a) THEN a[i] ELSE t[i - Len(a)]
  BY <1>2, <1>3, ConcatProperties
<1>5. /\ s \o o \in Seq(Nat) /\ Len(s \o o) = Len(s) + Len(o)
      /\ \A i \in 1 .. Len(s) + Len(o) : (s \o o)[i] = IF i <= Len(s) THEN s[i] ELSE o[i - Len(s)]
  BY ConcatProperties
<1>6. Len(a \o t) = Len(s \o o)
  BY <1>2, <1>3, <1>4, <1>5
<1>7. \A i \in 1..Len(a \o t) : (a \o t)[i] = (s \o o)[i]
  <2> SUFFICES ASSUME NEW i \in 1..Len(a \o t) PROVE (a \o t)[i] = (s \o o)[i]
    OBVIOUS
  <2>0. PICK n, k : n = Len(s) /\ k = Len(o)
    OBVIOUS
  <2>1. /\ n \in Nat /\ k \in Nat /\ i \in Nat /\ 1 <= i /\ i <= n + k
        /\ Len(a) = n + 1 /\ Len(t) = k - 1
    BY <1>2, <1>3, <1>4, <1>5, <1>6, <2>0
  <2>2. (a \o t)[i] = IF i <= n + 1 THEN a[i] ELSE t[i - (n + 1)]
    BY <1>4, <2>1
  <2>3. (s \o o)[i] = IF i <= n THEN s[i] ELSE o[i - n]
    BY <1>5, <2>0, <2>1
  <2>4. CASE i <= n
    BY <1>3, <2>0, <2>1, <2>2, <2>3, <2>4
  <2>5. CASE i = n + 1
    <3>1. i - n = 1 /\ i <= n + 1 /\ ~(i <= n)
      BY <2>1, <2>5
    <3> QED
      BY <1>2, <1>3, <2>0, <2>2, <2>3, <2>5, <3>1
  <2>6. CASE i > n + 1
    <3>1. i - (n + 1) \in 1..Len(t) /\ (i - (n + 1)) + 1 = i - n /\ ~(i <= n + 1) /\ ~(i <= n)
      BY <2>1, <2>6
    <3> QED
      BY <1>2, <2>2, <2>3, <3>1
  <2>7. i <= n \/ i = n + 1 \/ i > n + 1
    BY <2>1
  <2> QED
    BY <2>4, <2>5, <2>6, <2>7
<1>8. a \o t = s \o o
  BY <1>4, <1>5, <1>6, <1>7, SeqEqual
<1> QED
  BY <1>1, <1>2, <1>3, <1>8

LEMMA RtStreamKept ==
  ASSUME NEW n, RtCame(n), RtBehind(n), Relayed' = Relayed, rtRelay' = rtRelay,
         rtIn'.buf = rtIn.buf, rtSender'.sent = rtSender.sent
  PROVE  RtCame(n)' /\ RtBehind(n)'
  BY DEF RtCame, RtBehind

LEMMA RtContextEnds ==
  ASSUME RuntimeIInv, ContextEnds
  PROVE  RuntimeIInv'
<1>1. /\ rtCtx' \in {"cancelled", "deadline"}
      /\ UNCHANGED <<rtKind, rtSender, rtIn, rtRelay, rtOut, rtReceiver, rtBox>>
  BY DEF ContextEnds
<1>2. PICK n \in Nat : RtCame(n) /\ RtBehind(n) /\ RtWhole(n)
  BY DEF RuntimeIInv
<1>3. Relayed' = Relayed
  BY <1>1 DEF Relayed
<1>4. RtCame(n)' /\ RtBehind(n)'
  BY <1>1, <1>2, <1>3, RtStreamKept
<1>5. RtWhole(n)'
  BY <1>1 DEF RtWhole
<1>6. RtEnds'
  BY <1>1 DEF RuntimeIInv, RtEnds
<1> QED
  BY <1>1, <1>4, <1>5, <1>6 DEF RuntimeIInv, RtShape

LEMMA RtSends ==
  ASSUME RuntimeIInv, Sends
  PROVE  RuntimeIInv'
<1>1. /\ rtSender.pc = "send"
      /\ UNCHANGED <<rtKind, rtCtx, rtRelay, rtOut, rtReceiver, rtBox>>
  BY DEF Sends
<1>2. PICK n \in Nat : RtCame(n) /\ RtBehind(n) /\ RtWhole(n)
  BY DEF RuntimeIInv
<1>3. Relayed' = Relayed
  BY <1>1 DEF Relayed
<1>4. RtShape /\ RtEnds /\ rtSender \in RtSenders /\ rtIn \in RtChannels
  BY DEF RuntimeIInv, RtShape
<1>5. rtIn.buf \in Seq(Nat) /\ rtSender.sent \in Nat /\ Len(rtIn.buf) \in Nat
  BY <1>4 DEF RtSenders, RtChannels
<1>6. RtWhole(n)' /\ RtCame(n)'
  BY <1>1, <1>2, <1>3 DEF RtWhole, RtCame
<1>7. CASE UNCHANGED <<rtIn, rtSender>>
  <2>1. RtCame(n)' /\ RtBehind(n)'
    BY <1>1, <1>2, <1>3, <1>7, RtStreamKept
  <2>2. RtEnds' /\ RtShape'
    BY <1>1, <1>4, <1>7 DEF RtEnds, RtShape
  <2> QED
    BY <1>6, <2>1, <2>2 DEF RuntimeIInv
<1>8. CASE rtIn' = Puts(rtIn, rtSender.sent + 1)
           /\ rtSender' = [rtSender EXCEPT !.sent = rtSender.sent + 1]
  <2>1. PICK m, b : m = rtSender.sent + 1 /\ b = Append(rtIn.buf, m)
    OBVIOUS
  <2>2. m \in Nat
    BY <1>5, <2>1
  <2>3. /\ b \in Seq(Nat) /\ Len(b) = Len(rtIn.buf) + 1 /\ b[Len(rtIn.buf) + 1] = m
        /\ \A j \in 1..Len(rtIn.buf) : b[j] = rtIn.buf[j]
    BY <1>5, <2>1, <2>2, AppendProperties
  <2>4. rtIn' = [rtIn EXCEPT !.buf = b] /\ rtSender' = [rtSender EXCEPT !.sent = m]
    BY <1>8, <2>1 DEF Puts
  <2>5. rtIn'.buf = b /\ rtIn'.closed = rtIn.closed /\ rtIn' \in RtChannels
    BY <1>4, <2>3, <2>4 DEF RtChannels
  <2>6. rtSender'.sent = m /\ rtSender'.pc = "send" /\ rtSender' \in RtSenders
    BY <1>1, <1>4, <2>2, <2>4 DEF RtSenders
  <2>7. RtBehind(n)'
    <3>1. CASE rtRelay.pc = "receive"
      <4>1. n + Len(rtIn.buf) = rtSender.sent /\ \A j \in 1..Len(rtIn.buf) : rtIn.buf[j] = n + j
        BY <1>2, <3>1 DEF RtBehind
      <4>2. n + Len(b) = m /\ \A j \in 1..Len(b) : b[j] = n + j
        <5>1. PICK k : k = Len(rtIn.buf)
          OBVIOUS
        <5>2. k \in Nat /\ Len(b) = k + 1 /\ m = n + (k + 1) /\ b[k + 1] = m
          BY <1>5, <2>1, <2>3, <4>1, <5>1
        <5>3. \A j \in 1..k : b[j] = n + j
          BY <2>3, <4>1, <5>1
        <5>4. \A j \in 1..(k + 1) : j \in 1..k \/ j = k + 1
          BY <5>2
        <5> QED
          BY <5>2, <5>3, <5>4
      <4> QED
        BY <1>1, <2>5, <2>6, <3>1, <4>2 DEF RtBehind
    <3>2. CASE rtRelay.pc \in {"forward", "warn"}
      <4>1. /\ rtRelay.msg = n + 1 /\ n + 1 + Len(rtIn.buf) = rtSender.sent
            /\ \A j \in 1..Len(rtIn.buf) : rtIn.buf[j] = n + 1 + j
        BY <1>2, <3>2 DEF RtBehind
      <4>2. n + 1 + Len(b) = m /\ \A j \in 1..Len(b) : b[j] = n + 1 + j
        <5>1. PICK k : k = Len(rtIn.buf)
          OBVIOUS
        <5>2. k \in Nat /\ Len(b) = k + 1 /\ m = n + 1 + (k + 1) /\ b[k + 1] = m
          <6>1. k \in Nat /\ Len(b) = k + 1 /\ b[k + 1] = m
            BY <1>5, <2>3, <5>1
          <6>2. n + 1 + k = rtSender.sent /\ m = rtSender.sent + 1
            BY <2>1, <4>1, <5>1
          <6> QED
            BY <6>1, <6>2
        <5>3. \A j \in 1..k : b[j] = n + 1 + j
          BY <2>3, <4>1, <5>1
        <5>4. \A j \in 1..(k + 1) : j \in 1..k \/ j = k + 1
          BY <5>2
        <5> QED
          BY <5>2, <5>3, <5>4
      <4> QED
        BY <1>1, <2>5, <2>6, <3>2, <4>1, <4>2 DEF RtBehind
    <3> QED
      BY <1>1, <3>1, <3>2 DEF RtBehind
  <2>8. RtEnds'
    BY <1>1, <1>4, <2>5, <2>6 DEF RtEnds
  <2>9. RtShape'
    BY <1>1, <1>4, <2>5, <2>6 DEF RtShape
  <2> QED
    BY <1>6, <2>7, <2>8, <2>9 DEF RuntimeIInv
<1> QED
  BY <1>7, <1>8 DEF Sends

LEMMA RtSenderReturns ==
  ASSUME RuntimeIInv, SenderReturns
  PROVE  RuntimeIInv'
<1>1. /\ UNCHANGED <<rtKind, rtCtx, rtRelay, rtOut, rtReceiver, rtBox>>
      /\ rtIn' = [rtIn EXCEPT !.closed = @ \/ rtKind = "write"]
  BY DEF SenderReturns
<1>2. PICK n \in Nat : RtCame(n) /\ RtBehind(n) /\ RtWhole(n)
  BY DEF RuntimeIInv
<1>3. Relayed' = Relayed
  BY <1>1 DEF Relayed
<1>4. /\ RtShape /\ RtEnds /\ rtSender \in RtSenders /\ rtIn \in RtChannels
      /\ rtKind \in {"read", "write"}
  BY DEF RuntimeIInv, RtShape
<1>5. PICK c : c = (rtIn.closed \/ rtKind = "write")
  OBVIOUS
<1>6. c \in BOOLEAN /\ rtIn' = [rtIn EXCEPT !.closed = c]
  BY <1>1, <1>5, Zenon
<1>7. rtIn' \in RtChannels /\ rtIn'.buf = rtIn.buf /\ rtIn'.closed = c
  BY <1>4, <1>6 DEF RtChannels
<1>8. /\ rtSender.pc = "send" /\ rtSender' \in RtSenders /\ rtSender'.sent = rtSender.sent
      /\ rtSender'.pc = "ok" => rtSender'.sent = Len(RtMessages)
      /\ rtKind = "write" => rtSender'.pc = "ok"
  BY <1>4 DEF SenderReturns, RtSenders
<1>9. RtCame(n)' /\ RtBehind(n)'
  BY <1>1, <1>2, <1>3, <1>7, <1>8, RtStreamKept
<1>10. RtWhole(n)'
  BY <1>1, <1>2, <1>3 DEF RtWhole
<1>11. RtEnds'
  BY <1>1, <1>4, <1>8 DEF RtEnds
<1>12. RtShape'
  BY <1>1, <1>4, <1>7, <1>8 DEF RtShape
<1> QED
  BY <1>9, <1>10, <1>11, <1>12 DEF RuntimeIInv

LEMMA RtBoxReturns ==
  ASSUME RuntimeIInv, RunInSandbox
  PROVE  RuntimeIInv'
<1>1. /\ UNCHANGED <<rtKind, rtSender, rtRelay, rtOut, rtReceiver>>
      /\ rtIn' = [rtIn EXCEPT !.closed = @ \/ rtKind = "read"]
  BY DEF RunInSandbox
<1>2. PICK n \in Nat : RtCame(n) /\ RtBehind(n) /\ RtWhole(n)
  BY DEF RuntimeIInv
<1>3. Relayed' = Relayed
  BY <1>1 DEF Relayed
<1>4. /\ RtShape /\ RtEnds /\ rtSender \in RtSenders /\ rtIn \in RtChannels
      /\ rtKind \in {"read", "write"}
  BY DEF RuntimeIInv, RtShape
<1>5. PICK c : c = (rtIn.closed \/ rtKind = "read")
  OBVIOUS
<1>6. c \in BOOLEAN /\ rtIn' = [rtIn EXCEPT !.closed = c]
  BY <1>1, <1>5, Zenon
<1>7. rtIn' \in RtChannels /\ rtIn'.buf = rtIn.buf /\ rtIn'.closed = c
  BY <1>4, <1>6 DEF RtChannels
<1>8. RtCame(n)' /\ RtBehind(n)'
  BY <1>1, <1>2, <1>3, <1>7, RtStreamKept
<1>9. /\ rtBox' # "running" /\ (rtKind = "read" => rtCtx' = rtCtx) /\ rtCtx' \in {rtCtx, "finished"}
      /\ rtKind = "read" /\ rtBox' = "ok" => rtSender.pc = "ok"
  BY DEF RunInSandbox
<1>10. RtWhole(n)'
  BY <1>1, <1>2, <1>3, <1>4, <1>9 DEF RtWhole
<1>11. RtEnds'
  <2>1. rtKind = "write" /\ rtIn'.closed => rtIn.closed
    <3>1. rtKind = "write" => ~(rtKind = "read")
      OBVIOUS
    <3> QED
      BY <1>5, <1>7, <3>1, Zenon
  <2>2. rtKind' = "write" /\ rtIn'.closed => rtSender'.pc = "ok"
    BY <1>1, <1>4, <2>1 DEF RtEnds
  <2> QED
    BY <1>1, <1>4, <1>9, <2>2 DEF RtEnds
<1>12. RtShape'
  BY <1>1, <1>4, <1>7, <1>9 DEF RtShape
<1> QED
  BY <1>8, <1>10, <1>11, <1>12 DEF RuntimeIInv

LEMMA RtReceives ==
  ASSUME RuntimeIInv, RelayReceives
  PROVE  RuntimeIInv'
<1>1. /\ rtRelay.pc = "receive" /\ rtIn.buf # <<>> /\ rtIn' = [rtIn EXCEPT !.buf = Tail(@)]
      /\ UNCHANGED <<rtKind, rtCtx, rtSender, rtOut, rtReceiver, rtBox>>
  BY DEF RelayReceives
<1>2. PICK n \in Nat : RtCame(n) /\ RtBehind(n) /\ RtWhole(n)
  BY DEF RuntimeIInv
<1>3. Relayed' = Relayed
  BY <1>1 DEF Relayed
<1>4. /\ RtShape /\ RtEnds /\ rtIn \in RtChannels /\ rtRelay \in RtRelays /\ rtSender \in RtSenders
  BY DEF RuntimeIInv, RtShape
<1>5. rtIn.buf \in Seq(Nat) /\ rtRelay.count \in Nat /\ rtSender.sent \in Nat
  BY <1>4 DEF RtChannels, RtRelays, RtSenders
<1>6. PICK b, t, k : b = rtIn.buf /\ t = Tail(b) /\ k = Len(b)
  OBVIOUS
<1>7. /\ k \in Nat /\ k >= 1 /\ Head(b) = b[1] /\ Head(b) \in Nat /\ t \in Seq(Nat)
      /\ Len(t) = k - 1 /\ \A j \in 1..(k - 1) : t[j] = b[j + 1]
  BY <1>1, <1>5, <1>6, HeadTailProperties, EmptySeq, LenProperties
<1>8. n + k = rtSender.sent /\ \A j \in 1..k : b[j] = n + j
  BY <1>1, <1>2, <1>6 DEF RtBehind
<1>9. Head(b) = n + 1
  BY <1>7, <1>8
<1>10. n + 1 + (k - 1) = rtSender.sent /\ \A j \in 1..(k - 1) : t[j] = n + 1 + j
  <2>1. \A j \in 1..(k - 1) : j + 1 \in 1..k /\ n + (j + 1) = n + 1 + j
    BY <1>7
  <2> QED
    BY <1>7, <1>8, <2>1
<1>11. /\ rtRelay'.pc \in {"forward", "warn"} /\ rtRelay'.msg = Head(b)
       /\ rtRelay'.count \in Nat /\ rtRelay' \in RtRelays
  <2> DEFINE m == Head(b)
             count == rtRelay.count + IF RtMessages[m] = "record" THEN 1 ELSE 0
             tooMany == rtKind = "read" /\ RtMaxRecords > 0 /\ count > RtMaxRecords
             pc == IF tooMany /\ RtMessages[m] = "record" THEN "warn" ELSE "forward"
  <2>1. rtRelay' = [pc |-> pc, msg |-> m, count |-> count]
    BY <1>6 DEF RelayReceives
  <2>2. m \in Nat /\ count \in Nat /\ pc \in {"forward", "warn"}
    BY <1>5, <1>7
  <2> HIDE DEF m, count, pc
  <2>3. rtRelay'.pc = pc /\ rtRelay'.msg = m /\ rtRelay'.count = count /\ rtRelay' \in RtRelays
    BY <2>1, <2>2 DEF RtRelays
  <2> QED
    BY <2>2, <2>3 DEF m
<1>12. rtIn' \in RtChannels /\ rtIn'.buf = t /\ rtIn'.closed = rtIn.closed
  <2>1. rtIn' = [rtIn EXCEPT !.buf = t]
    BY <1>1, <1>6
  <2> QED
    BY <1>4, <1>7, <2>1 DEF RtChannels
<1>13. RtBehind(n)'
  <2>1. rtIn'.buf = t /\ rtSender' = rtSender
    BY <1>1, <1>12
  <2>2. /\ rtRelay'.msg = n + 1 /\ n + 1 + Len(rtIn'.buf) = rtSender'.sent
        /\ \A j \in 1..Len(rtIn'.buf) : rtIn'.buf[j] = n + 1 + j
    BY <1>7, <1>9, <1>10, <1>11, <2>1
  <2> QED
    BY <1>11, <2>2 DEF RtBehind
<1>14. RtCame(n)' /\ RtWhole(n)'
  BY <1>1, <1>2, <1>3, <1>11 DEF RtCame, RtWhole
<1>15. RtEnds'
  BY <1>1, <1>4, <1>11, <1>12 DEF RtEnds
<1> QED
  BY <1>1, <1>4, <1>11, <1>12, <1>13, <1>14, <1>15 DEF RuntimeIInv, RtShape

LEMMA RtTakes ==
  ASSUME RuntimeIInv, ReceiverTakes
  PROVE  RuntimeIInv'
<1>1. /\ rtOut.buf # <<>> /\ rtOut' = [rtOut EXCEPT !.buf = Tail(@)]
      /\ rtReceiver' = [rtReceiver EXCEPT !.took = Append(@, Head(rtOut.buf))]
      /\ UNCHANGED <<rtKind, rtCtx, rtSender, rtIn, rtRelay, rtBox>>
  BY DEF ReceiverTakes
<1>2. PICK n \in Nat : RtCame(n) /\ RtBehind(n) /\ RtWhole(n)
  BY DEF RuntimeIInv
<1>3. RtShape /\ RtEnds /\ rtOut \in RtChannels /\ rtReceiver \in RtReceivers
  BY DEF RuntimeIInv, RtShape
<1>4. rtOut.buf \in Seq(Nat) /\ rtReceiver.took \in Seq(Nat)
  BY <1>3 DEF RtChannels, RtReceivers
<1>5. PICK s, o, a, t : s = rtReceiver.took /\ o = rtOut.buf /\ a = Append(s, Head(o)) /\ t = Tail(o)
  OBVIOUS
<1>6. a \in Seq(Nat) /\ t \in Seq(Nat) /\ a \o t = s \o o
  BY <1>1, <1>4, <1>5, StreamTaken
<1>7. rtOut' = [rtOut EXCEPT !.buf = t] /\ rtReceiver' = [rtReceiver EXCEPT !.took = a]
  BY <1>1, <1>5
<1>8. rtOut' \in RtChannels /\ rtOut'.buf = t /\ rtOut'.closed = rtOut.closed
  BY <1>3, <1>6, <1>7 DEF RtChannels
<1>9. rtReceiver' \in RtReceivers /\ rtReceiver'.took = a
  BY <1>3, <1>6, <1>7 DEF RtReceivers
<1>10. Relayed' = Relayed
  BY <1>5, <1>6, <1>8, <1>9 DEF Relayed
<1>11. RtCame(n)' /\ RtBehind(n)'
  BY <1>1, <1>2, <1>10, RtStreamKept
<1>12. RtWhole(n)' /\ RtEnds'
  BY <1>1, <1>2, <1>3, <1>8, <1>10 DEF RtWhole, RtEnds
<1> QED
  BY <1>1, <1>3, <1>8, <1>9, <1>11, <1>12 DEF RuntimeIInv, RtShape

LEMMA RtReceiverReturns ==
  ASSUME RuntimeIInv, ReceiverReturns
  PROVE  RuntimeIInv'
<1>1. UNCHANGED <<rtKind, rtCtx, rtSender, rtIn, rtRelay, rtOut, rtBox>>
  BY DEF ReceiverReturns
<1>2. PICK n \in Nat : RtCame(n) /\ RtBehind(n) /\ RtWhole(n)
  BY DEF RuntimeIInv
<1>3. RtShape /\ RtEnds /\ rtReceiver \in RtReceivers
  BY DEF RuntimeIInv, RtShape
<1>4. rtReceiver' \in RtReceivers /\ rtReceiver'.took = rtReceiver.took
  BY <1>3 DEF ReceiverReturns, RtReceivers
<1>5. Relayed' = Relayed
  BY <1>1, <1>4 DEF Relayed
<1>6. RtCame(n)' /\ RtBehind(n)'
  BY <1>1, <1>2, <1>5, RtStreamKept
<1>7. RtWhole(n)' /\ RtEnds'
  BY <1>1, <1>2, <1>3, <1>5 DEF RtWhole, RtEnds
<1> QED
  BY <1>1, <1>3, <1>4, <1>6, <1>7 DEF RuntimeIInv, RtShape

(* The relay ends, after a log message or without one: then all has come    *)
(* out, or the context was cancelled, or the write was over.                *)
LEMMA RtRelayEnds ==
  ASSUME RuntimeIInv, NEW n \in Nat, RtCame(n), rtRelay.pc # "ended",
         UNCHANGED <<rtKind, rtSender, rtIn, rtReceiver, rtBox, rtCrashed>>,
         \/ /\ RelayEnds(rtOut)
            /\ \/ rtCtx \in {"cancelled", "deadline"} \/ n = Len(RtMessages)
               \/ rtKind = "write" /\ rtBox # "running"
         \/ RelayEnds(Puts(rtOut, 0))
  PROVE  RuntimeIInv'
<1>1. PICK out : /\ RelayEnds(out)
                 /\ \/ /\ out = rtOut
                       /\ \/ rtCtx \in {"cancelled", "deadline"} \/ n = Len(RtMessages)
                          \/ rtKind = "write" /\ rtBox # "running"
                    \/ out = Puts(rtOut, 0)
  OBVIOUS
<1>2. /\ RtShape /\ RtEnds /\ rtOut \in RtChannels /\ rtRelay \in RtRelays
      /\ rtReceiver \in RtReceivers
  BY DEF RuntimeIInv, RtShape
<1>3. rtOut.buf \in Seq(Nat) /\ rtReceiver.took \in Seq(Nat)
  BY <1>2 DEF RtChannels, RtReceivers
<1>4. rtRelay' = [rtRelay EXCEPT !.pc = "ended", !.msg = 0] /\ rtOut' = [out EXCEPT !.closed = TRUE]
      /\ (rtCtx \in {"cancelled", "deadline"} => rtCtx' = rtCtx)
      /\ rtCtx' \in {rtCtx, "finished"}
  BY <1>1 DEF RelayEnds, CtxDone
<1>5. rtRelay' \in RtRelays /\ rtRelay'.pc = "ended"
  BY <1>2, <1>4 DEF RtRelays
<1>6. out \in RtChannels /\ (out = rtOut \/ out.buf = Append(rtOut.buf, 0))
  <2>1. PICK b : b = Append(rtOut.buf, 0)
    OBVIOUS
  <2>2. b \in Seq(Nat)
    BY <1>3, <2>1, AppendProperties
  <2>3. CASE out = Puts(rtOut, 0)
    <3>1. out = [rtOut EXCEPT !.buf = b]
      BY <2>1, <2>3 DEF Puts
    <3> QED
      BY <1>2, <2>1, <2>2, <3>1 DEF RtChannels
  <2> QED
    BY <1>1, <1>2, <2>3
<1>7. rtOut' \in RtChannels /\ rtOut'.buf = out.buf /\ rtOut'.closed = TRUE
  BY <1>4, <1>6 DEF RtChannels
<1>8. rtOut'.closed <=> rtRelay'.pc = "ended"
  <2>1. rtOut'.closed
    BY <1>7, Zenon
  <2> QED
    BY <1>5, <2>1
<1>9. RtEnds'
  BY <1>2, <1>5, <1>8 DEF RtEnds
<1>10. RtShape' /\ RtBehind(n)'
  BY <1>2, <1>4, <1>5, <1>7 DEF RtShape, RtBehind
<1>11. Len(Relayed) = n /\ \A i \in 1..n : Relayed[i] = i
  BY DEF RtCame
<1>12. CASE out = rtOut
  <2>1. Relayed' = Relayed
    BY <1>7, <1>12 DEF Relayed
  <2>2. rtOut # Puts(rtOut, 0)
    <3>1. Len(rtOut.buf) # Len(Append(rtOut.buf, 0))
      BY <1>3, AppendProperties, LenProperties
    <3>2. Puts(rtOut, 0).buf = Append(rtOut.buf, 0)
      BY <1>2 DEF Puts, RtChannels
    <3> QED
      BY <3>1, <3>2
  <2>3. \/ rtCtx \in {"cancelled", "deadline"} \/ n = Len(RtMessages)
        \/ rtKind = "write" /\ rtBox # "running"
    BY <1>1, <1>12, <2>2
  <2>4. RtCame(n)' /\ RtWhole(n)'
    BY <1>4, <1>11, <2>1, <2>3 DEF RtCame, RtWhole
  <2> QED
    BY <1>9, <1>10, <2>4 DEF RuntimeIInv
<1>13. CASE out.buf = Append(rtOut.buf, 0)
  <2>1. PICK s, o : s = rtReceiver.took /\ o = rtOut.buf
    OBVIOUS
  <2>2. Relayed = s \o o /\ Relayed' = s \o Append(o, 0)
    BY <1>7, <1>13, <2>1 DEF Relayed
  <2>3. /\ Len(Relayed') = Len(Relayed) + 1 /\ Relayed'[Len(Relayed) + 1] = 0
        /\ \A i \in 1..Len(Relayed) : Relayed'[i] = Relayed[i]
    <3>1. s \in Seq(Nat) /\ o \in Seq(Nat) /\ 0 \in Nat
      BY <1>3, <2>1
    <3>2. /\ Append(o, 0) \in Seq(Nat) /\ Len(s \o Append(o, 0)) = Len(s \o o) + 1
          /\ \A i \in 1..Len(s \o o) : (s \o Append(o, 0))[i] = (s \o o)[i]
          /\ (s \o Append(o, 0))[Len(s \o o) + 1] = 0
      BY <3>1, StreamPut
    <3> QED
      BY <2>2, <3>2
  <2>4. Len(Relayed') = n + 1 /\ Relayed'[n + 1] = 0 /\ \A i \in 1..n : Relayed'[i] = i
    BY <1>11, <2>3
  <2>5. n + 1 # n
    OBVIOUS
  <2>6. RtCame(n)' /\ RtWhole(n)'
    BY <1>5, <2>4, <2>5 DEF RtCame, RtWhole
  <2> QED
    BY <1>9, <1>10, <2>6 DEF RuntimeIInv
<1> QED
  BY <1>6, <1>12, <1>13

LEMMA RtForwards ==
  ASSUME RuntimeIInv, RelayForwards
  PROVE  RuntimeIInv'
<1>1. /\ rtRelay.pc = "forward" /\ UNCHANGED <<rtKind, rtSender, rtIn, rtReceiver, rtBox, rtCrashed>>
  BY DEF RelayForwards
<1>2. PICK n \in Nat : RtCame(n) /\ RtBehind(n) /\ RtWhole(n)
  BY DEF RuntimeIInv
<1>3. /\ RtShape /\ RtEnds /\ rtOut \in RtChannels /\ rtRelay \in RtRelays /\ rtIn \in RtChannels
      /\ rtReceiver \in RtReceivers
  BY DEF RuntimeIInv, RtShape
<1>4. CASE CtxDone /\ RelayEnds(rtOut)
  <2>1. CASE rtCtx = "finished"
    <3>1. rtKind = "write" /\ rtBox # "running"
      BY <1>1, <1>3, <2>1 DEF RtEnds
    <3> QED
      BY <1>1, <1>2, <1>4, <3>1, RtRelayEnds
  <2>2. CASE rtCtx # "finished"
    <3>1. CASE rtCtx \in {"cancelled", "deadline"}
      BY <1>1, <1>2, <1>4, <3>1, RtRelayEnds
    <3> QED
      BY <1>3, <1>4, <2>2, <3>1 DEF CtxDone, RtShape
  <2> QED
    BY <2>1, <2>2
<1>5. CASE /\ rtOut' = Puts(rtOut, rtRelay.msg)
           /\ rtRelay' = [rtRelay EXCEPT !.pc = "receive", !.msg = 0]
           /\ UNCHANGED <<rtActive, rtCtx>>
  <2>1. PICK s, o, m, b : s = rtReceiver.took /\ o = rtOut.buf /\ m = rtRelay.msg /\ b = Append(o, m)
    OBVIOUS
  <2>2. s \in Seq(Nat) /\ o \in Seq(Nat) /\ m \in Nat
    <3>1. rtReceiver.took \in Seq(Nat)
      BY <1>3 DEF RtReceivers
    <3>2. rtOut.buf \in Seq(Nat)
      BY <1>3 DEF RtChannels
    <3>3. rtRelay.msg \in Nat
      BY <1>3 DEF RtRelays
    <3> QED
      BY <2>1, <3>1, <3>2, <3>3
  <2>3. /\ b \in Seq(Nat) /\ Len(s \o b) = Len(s \o o) + 1 /\ (s \o b)[Len(s \o o) + 1] = m
        /\ \A i \in 1..Len(s \o o) : (s \o b)[i] = (s \o o)[i]
    <3>1. /\ Append(o, m) \in Seq(Nat) /\ Len(s \o Append(o, m)) = Len(s \o o) + 1
          /\ \A i \in 1..Len(s \o o) : (s \o Append(o, m))[i] = (s \o o)[i]
          /\ (s \o Append(o, m))[Len(s \o o) + 1] = m
      BY <2>2, StreamPut
    <3> QED
      BY <2>1, <3>1
  <2>4. rtOut' \in RtChannels /\ rtOut'.buf = b /\ rtOut'.closed = rtOut.closed
    <3>1. rtOut' = [rtOut EXCEPT !.buf = b]
      BY <1>5, <2>1 DEF Puts
    <3> QED
      BY <1>3, <2>3, <3>1 DEF RtChannels
  <2>5. rtRelay' \in RtRelays /\ rtRelay'.pc = "receive"
    BY <1>3, <1>5 DEF RtRelays
  <2>6. Relayed = s \o o /\ Relayed' = s \o b
    BY <1>1, <2>1, <2>4 DEF Relayed
  <2>7. Len(Relayed) = n /\ \A i \in 1..n : Relayed[i] = i
    BY <1>1, <1>2 DEF RtCame
  <2>8. /\ m = n + 1 /\ n + 1 + Len(rtIn.buf) = rtSender.sent
        /\ \A j \in 1..Len(rtIn.buf) : rtIn.buf[j] = n + 1 + j
    BY <1>1, <1>2, <2>1 DEF RtBehind
  <2>9. Len(Relayed') = n + 1 /\ \A i \in 1..(n + 1) : Relayed'[i] = i
    <3>1. Len(Relayed') = n + 1 /\ Relayed'[n + 1] = n + 1 /\ \A i \in 1..n : Relayed'[i] = i
      BY <2>3, <2>6, <2>7, <2>8
    <3>2. \A i \in 1..(n + 1) : i \in 1..n \/ i = n + 1
      OBVIOUS
    <3> QED
      BY <3>1, <3>2
  <2>10. RtCame(n + 1)'
    <3>1. n + 1 # (n + 1) + 1
      OBVIOUS
    <3> QED
      BY <2>9, <3>1 DEF RtCame
  <2>11. RtBehind(n + 1)' /\ RtWhole(n + 1)'
    BY <1>1, <2>5, <2>8 DEF RtBehind, RtWhole
  <2>12. RtEnds' /\ RtShape'
    BY <1>1, <1>3, <1>5, <2>4, <2>5 DEF RtEnds, RtShape
  <2>13. n + 1 \in Nat
    OBVIOUS
  <2> QED
    BY <2>10, <2>11, <2>12, <2>13 DEF RuntimeIInv
<1> QED
  BY <1>4, <1>5 DEF RelayForwards

LEMMA RtRelayStops ==
  ASSUME RuntimeIInv, RelayWarns \/ RelayFinishes
  PROVE  RuntimeIInv'
<1>1. /\ rtRelay.pc # "ended" /\ UNCHANGED <<rtKind, rtSender, rtIn, rtReceiver, rtBox, rtCrashed>>
  BY DEF RelayWarns, RelayFinishes
<1>2. PICK n \in Nat : RtCame(n) /\ RtBehind(n) /\ RtWhole(n)
  BY DEF RuntimeIInv
<1>3. CASE RelayEnds(Puts(rtOut, 0))
  BY <1>1, <1>2, <1>3, RtRelayEnds
<1>4. CASE /\ RelayEnds(rtOut) /\ rtRelay.pc = "receive" /\ rtIn.closed /\ rtIn.buf = <<>>
           /\ rtKind = "write" \/ (rtKind = "read" /\ rtBox = "ok")
  <2>1. rtSender.pc = "ok" /\ rtSender.sent = Len(RtMessages)
    BY <1>4 DEF RuntimeIInv, RtEnds
  <2>2. n = Len(RtMessages)
    <3>1. Len(rtIn.buf) = 0 /\ n + Len(rtIn.buf) = rtSender.sent
      BY <1>2, <1>4, EmptySeq DEF RtBehind
    <3> QED
      BY <2>1, <3>1
  <2> QED
    BY <1>1, <1>2, <1>4, <2>2, RtRelayEnds
<1> QED
  BY <1>3, <1>4 DEF RelayWarns, RelayFinishes

LEMMA RtGives ==
  ASSUME RuntimeIInv
  PROVE  RelayFaithful
<1>1. PICK n \in Nat : RtCame(n) /\ RtWhole(n)
  BY DEF RuntimeIInv
<1>2. PICK s : s = Relayed
  OBVIOUS
<1>3. s \in Seq(Nat) /\ Len(s) \in Nat /\ DOMAIN s = 1..Len(s)
  <2>1. rtReceiver \in RtReceivers /\ rtOut \in RtChannels
    BY DEF RuntimeIInv, RtShape
  <2>2. rtReceiver.took \in Seq(Nat)
    BY <2>1 DEF RtReceivers
  <2>3. rtOut.buf \in Seq(Nat)
    BY <2>1 DEF RtChannels
  <2>4. s \in Seq(Nat)
    BY <1>2, <2>2, <2>3, ConcatProperties DEF Relayed
  <2> QED
    BY <2>4, LenProperties
<1>4. /\ Len(s) \in {n, n + 1} /\ \A i \in 1..n : s[i] = i
      /\ Len(s) = n + 1 => s[n + 1] = 0
  BY <1>1, <1>2 DEF RtCame
<1>5. {i \in DOMAIN s : s[i] # 0} = 1..n
  <2>1. \A i \in 1..n : i # 0
    OBVIOUS
  <2>2. \A i : i \in 1..Len(s) <=> i \in 1..n \/ (i = n + 1 /\ Len(s) = n + 1)
    BY <1>4
  <2> QED
    BY <1>3, <1>4, <2>1, <2>2
<1>6. Cardinality(1..n) = n
  BY FS_Interval
<1>7. IsPrefix([i \in 1..n |-> i], s)
  <2>1. PICK p : p = [i \in 1..n |-> i]
    OBVIOUS
  <2>2. p \in [1..n -> Nat] /\ \A i \in 1..n : p[i] = i
    BY <2>1
  <2>3. p \in Seq(Nat) /\ Len(p) = n
    BY <2>2
  <2>4. PICK u : u = SubSeq(s, 1, n)
    OBVIOUS
  <2>5. \A i \in 1..n : s[i] \in Nat
    BY <1>4
  <2>6. u \in Seq(Nat) /\ Len(u) = n /\ \A i \in 1..n : u[i] = s[i]
    <3>1. /\ u \in Seq(Nat) /\ Len(u) = IF 1 <= n THEN n - 1 + 1 ELSE 0
          /\ \A i \in 1..(n - 1 + 1) : u[i] = s[1 + i - 1]
      BY <2>4, <2>5, SubSeqProperties
    <3>2. \A i \in 1..n : 1 + i - 1 = i
      OBVIOUS
    <3>3. n - 1 + 1 = n
      OBVIOUS
    <3> QED
      BY <3>1, <3>2, <3>3
  <2>7. \A i \in 1..Len(p) : p[i] = u[i]
    BY <1>4, <2>2, <2>3, <2>6
  <2>8. p = u
    BY <2>3, <2>6, <2>7, SeqEqual
  <2>9. SubSeq(p, 1, n) = p
    BY <2>3, SubSeqFull
  <2>10. n <= Len(s)
    BY <1>4
  <2> QED
    BY <2>1, <2>3, <2>4, <2>8, <2>9, <2>10 DEF IsPrefix
<1>8. rtOut.closed /\ n = Len(s) /\ rtCtx \in {"open", "finished"}
        => n = Len(RtMessages) \/ (rtKind = "write" /\ rtBox # "running")
  BY <1>1, <1>2 DEF RuntimeIInv, RtEnds, RtWhole
<1>9. PICK k : k = Cardinality({i \in DOMAIN Relayed : Relayed[i] # 0})
  OBVIOUS
<1>10. k = n
  BY <1>2, <1>5, <1>6, <1>9
<1> QED
  BY <1>2, <1>7, <1>8, <1>9, <1>10 DEF RelayFaithful

(* The invariant of the runtime: initially, and with every step.           *)
LEMMA RuntimeInductive == RuntimeSpec => []RuntimeIInv
<1>1. RuntimeInit => RuntimeIInv
  <2> SUFFICES ASSUME RuntimeInit PROVE RuntimeIInv
    OBVIOUS
  <2>1. <<>> \in Seq(Nat) /\ Len(<<>>) = 0 /\ <<>> \o <<>> = <<>>
    BY EmptySeq, ConcatEmptySeq
  <2>2. RtShape
    BY <2>1, RuntimeAssumption
       DEF RuntimeInit, RtShape, Channel, RtSenders, RtChannels, RtRelays, RtReceivers
  <2>3. RtEnds
    BY DEF RuntimeInit, RtEnds, Channel
  <2>4. Relayed = <<>>
    BY <2>1 DEF RuntimeInit, Relayed, Channel
  <2>5. RtCame(0) /\ RtBehind(0) /\ RtWhole(0)
    BY <2>1, <2>4 DEF RuntimeInit, RtCame, RtBehind, RtWhole, Channel
  <2> QED
    BY <2>2, <2>3, <2>5 DEF RuntimeIInv
<1>2. RuntimeIInv /\ [RuntimeNext]_rtVars => RuntimeIInv'
  <2> SUFFICES ASSUME RuntimeIInv, [RuntimeNext]_rtVars PROVE RuntimeIInv'
    OBVIOUS
  <2>1. CASE UNCHANGED rtVars
    BY <2>1 DEF rtVars, RuntimeIInv, RtShape, RtEnds, RtCame, RtBehind, RtWhole, Relayed
  <2>2. CASE RuntimeNext
    BY <2>2, RtContextEnds, RtSends, RtSenderReturns, RtBoxReturns, RtReceives, RtForwards,
       RtRelayStops, RtTakes, RtReceiverReturns DEF RuntimeNext
  <2> QED
    BY <2>1, <2>2
<1> QED
  BY <1>1, <1>2, PTL DEF RuntimeSpec

(* For any messages, any capacity of the channels and any limit, and        *)
(* whenever the context ends or the connector returns, the relay of         *)
(* runtime/runtime.go passes the messages on in order and without a gap;    *)
(* and if it closes its channel with no log message while nobody cancelled, *)
(* everything that was sent has come out.                                   *)
THEOREM RelayIsFaithful == RuntimeSpec => []RelayFaithful
<1>1. RuntimeIInv => RelayFaithful
  BY RtGives
<1> QED
  BY <1>1, RuntimeInductive, PTL
-----------------------------------------------------------------------------
(* The destinations.                                                        *)

(* A sequence has at most as many members as places.                        *)
LEMMA MembersAreFew ==
  ASSUME NEW S, NEW s \in Seq(S)
  PROVE  /\ IsFiniteSet(ToSet(s)) /\ Cardinality(ToSet(s)) \in Nat
         /\ Cardinality(ToSet(s)) <= Len(s)
<1>1. Len(s) \in Nat /\ s \in [1..Len(s) -> ToSet(s)] /\ DOMAIN s = 1..Len(s)
  BY DEF ToSet
<1>2. s \in Surjection(1..Len(s), ToSet(s))
  BY <1>1 DEF ToSet, Surjection
<1>3. IsFiniteSet(1..Len(s)) /\ Cardinality(1..Len(s)) = Len(s)
  BY <1>1, FS_Interval
<1>4. IsFiniteSet(ToSet(s)) /\ Cardinality(ToSet(s)) <= Cardinality(1..Len(s))
  BY <1>2, <1>3, FS_Surjection
<1>5. Cardinality(ToSet(s)) \in Nat
  BY <1>4, FS_CardinalityType
<1> QED
  BY <1>3, <1>4, <1>5

(* Two finite sets hold no more together than apart, and as much when they  *)
(* are disjoint.                                                            *)
LEMMA UnionIsFew ==
  ASSUME NEW A, NEW B, IsFiniteSet(A), IsFiniteSet(B)
  PROVE  /\ IsFiniteSet(A \union B)
         /\ Cardinality(A) \in Nat /\ Cardinality(B) \in Nat /\ Cardinality(A \union B) \in Nat
         /\ Cardinality(A \union B) <= Cardinality(A) + Cardinality(B)
         /\ A \intersect B = {} => Cardinality(A \union B) = Cardinality(A) + Cardinality(B)
<1>1. PICK both, common : both = A \union B /\ common = A \intersect B
  OBVIOUS
<1>2. IsFiniteSet(both) /\ Cardinality(both) = Cardinality(A) + Cardinality(B) - Cardinality(common)
  BY <1>1, FS_Union
<1>3. common \in SUBSET A
  BY <1>1
<1>4. IsFiniteSet(common)
  BY <1>3, FS_Subset
<1>5. PICK a, b, u, c : a = Cardinality(A) /\ b = Cardinality(B) /\ u = Cardinality(both)
                        /\ c = Cardinality(common)
  OBVIOUS
<1>6. a \in Nat /\ b \in Nat /\ u \in Nat /\ c \in Nat
  BY <1>2, <1>4, <1>5, FS_CardinalityType
<1>7. u = a + b - c
  BY <1>2, <1>5
<1>8. common = {} => c = 0
  BY <1>5, FS_EmptySet
<1>9. u <= a + b /\ (common = {} => u = a + b)
  BY <1>6, <1>7, <1>8
<1> QED
  BY <1>1, <1>2, <1>5, <1>6, <1>9

(* A finite set and the number of its members.                              *)
LEMMA PartIsFew ==
  ASSUME NEW A, IsFiniteSet(A), NEW B \in SUBSET A
  PROVE  /\ IsFiniteSet(B) /\ Cardinality(A) \in Nat /\ Cardinality(B) \in Nat
         /\ Cardinality(B) <= Cardinality(A)
         /\ Cardinality(A) <= Cardinality(B) => A = B
<1>1. IsFiniteSet(B) /\ Cardinality(B) <= Cardinality(A)
      /\ (Cardinality(A) = Cardinality(B) => A = B)
  BY FS_Subset
<1>2. PICK a, b : a = Cardinality(A) /\ b = Cardinality(B)
  OBVIOUS
<1>3. a \in Nat /\ b \in Nat
  BY <1>1, <1>2, FS_CardinalityType
<1>4. a <= b => a = b
  BY <1>1, <1>2, <1>3
<1> QED
  BY <1>1, <1>2, <1>3, <1>4

DstMessages == DstRecords \union {BadRecord, StateMessage}
ResultFields == {"written", "failed", "errors", "acked", "seen"}
ResultOK(res) ==
    /\ DOMAIN res = ResultFields /\ res.errors \in {0, 1}
    /\ res.failed \subseteq DstRecords /\ res.acked \subseteq DstRecords
    /\ res.seen \subseteq DstRecords

DstShape ==
    /\ dstIn \in Seq(DstMessages) /\ dstBuf \in Seq(DstRecords)
    /\ dstReq \in Seq(SUBSET DstRecords)
    /\ dstPc \in {"idle", "receive", "request", "poll", "done"}
    /\ dstPc \in {"request", "poll"} => dstReq # <<>> /\ dstKind \in Crm
    /\ ResultOK(dstResult)
    /\ dstCopies \in [DstRecords -> Nat] /\ dstMiscounted \subseteq DstRecords
    /\ dstFile \in Nat /\ dstSecond \in Nat
    /\ DOMAIN dstObjects \subseteq Nat \X Nat

(* A record Write is done with: no flush of the call will replace the       *)
(* object it is in, whose file index is one the call has used.              *)
Settled(r) ==
    \/ dstCopies[r] > 0
    \/ \E k \in DOMAIN dstObjects : k[2] < dstFile /\ r \in dstObjects[k]
    \/ r \in dstResult.failed \/ dstResult.errors > 0 \/ r \in dstMiscounted

(* The records Write still has in its hands: in the buffer while it         *)
(* receives, in the jobs that are left while it flushes.                    *)
InHand ==
    IF dstPc \in {"request", "poll"} THEN UNION {dstReq[n] : n \in DOMAIN dstReq}
    ELSE IF dstPc = "receive" THEN ToSet(dstBuf) ELSE {}

(* The records that a result tells of: written, or failed.                  *)
Told(res) == res.written + Cardinality(res.failed)

(* How many records are in hand.                                            *)
HandCount ==
    IF dstPc \in {"request", "poll"}
      THEN Cardinality(dstReq[1]) + IF Len(dstReq) > 1 THEN Cardinality(dstReq[2]) ELSE 0
    ELSE IF dstPc = "receive" THEN Len(dstBuf) ELSE 0

(* The result does not tell of more records than were taken and are no      *)
(* longer in hand.                                                          *)
DstCounted ==
    /\ dstTaken \in Nat /\ dstResult.written \in Nat /\ IsFiniteSet(dstResult.failed)
    /\ dstPc \in {"request", "poll"} =>
          Len(dstReq) <= 2 /\ \A n \in DOMAIN dstReq : IsFiniteSet(dstReq[n])
    /\ Told(dstResult) + HandCount <= dstTaken

(* It falls short of them: a loss that shows in the count.                  *)
Short == Told(dstResult) + HandCount < dstTaken

(* The records of the loops that acknowledge states are settled or in hand  *)
(* until Write returns; those of the others may show in the count alone.    *)
DstKept ==
    /\ \A r \in dstResult.seen : Settled(r) \/ r \in InHand \/ Short
    /\ dstKind \notin Crm /\ dstPc # "done" =>
          \A r \in dstResult.seen : Settled(r) \/ r \in InHand
    /\ \A r \in dstResult.acked : Settled(r)

DestinationsIInv == DstShape /\ DstCounted /\ DstKept

(* What a step may do to what is settled: copies stay, objects with an      *)
(* index of this call stay, errors stay.                                    *)
DstGrows ==
    /\ \A r \in DstRecords : dstCopies[r] > 0 => dstCopies'[r] > 0
    /\ \A k \in DOMAIN dstObjects : k[2] < dstFile =>
          /\ k \in DOMAIN dstObjects' /\ dstObjects'[k] = dstObjects[k] /\ k[2] < dstFile'
    /\ dstResult.failed \subseteq dstResult'.failed
    /\ dstResult.errors > 0 => dstResult'.errors > 0
    /\ dstMiscounted \subseteq dstMiscounted'

(* What is settled stays settled.                                           *)
LEMMA SettledKept ==
  ASSUME DstGrows, NEW r \in DstRecords, Settled(r)
  PROVE  Settled(r)'
<1>1. CASE dstCopies[r] > 0
  BY <1>1 DEF DstGrows, Settled
<1>2. CASE \E k \in DOMAIN dstObjects : k[2] < dstFile /\ r \in dstObjects[k]
  <2>1. PICK k \in DOMAIN dstObjects : k[2] < dstFile /\ r \in dstObjects[k]
    BY <1>2
  <2>2. k \in DOMAIN dstObjects' /\ dstObjects'[k] = dstObjects[k] /\ k[2] < dstFile'
    BY <2>1 DEF DstGrows
  <2> QED
    BY <2>1, <2>2 DEF Settled
<1>3. CASE r \in dstResult.failed \/ dstResult.errors > 0 \/ r \in dstMiscounted
  BY <1>3 DEF DstGrows, Settled
<1> QED
  BY <1>1, <1>2, <1>3 DEF Settled

(* Records are added to the destination.                                    *)
LEMMA AddIs ==
  ASSUME NEW copies \in [DstRecords -> Nat], NEW S
  PROVE  /\ Add(copies, S) \in [DstRecords -> Nat]
         /\ \A r \in DstRecords : (copies[r] > 0 \/ r \in S) => Add(copies, S)[r] > 0
<1>1. PICK f : f = Add(copies, S)
  OBVIOUS
<1>2. f = [r \in DstRecords |-> IF r \in S /\ copies[r] < 2 THEN copies[r] + 1 ELSE copies[r]]
  BY <1>1 DEF Add
<1>3. ASSUME NEW r \in DstRecords
      PROVE  f[r] \in Nat /\ (copies[r] > 0 \/ r \in S => f[r] > 0)
  <2>1. copies[r] \in Nat
    OBVIOUS
  <2>2. f[r] = IF r \in S /\ copies[r] < 2 THEN copies[r] + 1 ELSE copies[r]
    BY <1>2
  <2> QED
    BY <2>1, <2>2
<1>4. f \in [DstRecords -> Nat]
  BY <1>2, <1>3
<1> QED
  BY <1>1, <1>3, <1>4

(* The members of a sequence.                                               *)
LEMMA MembersOf ==
  ASSUME NEW S, NEW s \in Seq(S)
  PROVE  /\ ToSet(s) \subseteq S /\ Len(s) \in Nat /\ DOMAIN s = 1..Len(s)
         /\ s # <<>> <=> Len(s) > 0
         /\ s # <<>> => Head(s) \in S /\ Tail(s) \in Seq(S)
         /\ \A m \in S : Append(s, m) \in Seq(S) /\ ToSet(Append(s, m)) = ToSet(s) \union {m}
<1>1. Len(s) \in Nat /\ DOMAIN s = 1..Len(s) /\ (s # <<>> <=> Len(s) > 0)
  OBVIOUS
<1>2. ToSet(s) \subseteq S
  BY DEF ToSet
<1>3. s # <<>> => Head(s) \in S /\ Tail(s) \in Seq(S)
  OBVIOUS
<1>4. ASSUME NEW m \in S
      PROVE  Append(s, m) \in Seq(S) /\ ToSet(Append(s, m)) = ToSet(s) \union {m}
  <2>1. PICK t : t = Append(s, m)
    OBVIOUS
  <2>2. t \in Seq(S) /\ DOMAIN t = 1..(Len(s) + 1) /\ t[Len(s) + 1] = m
        /\ \A i \in 1..Len(s) : t[i] = s[i]
    BY <2>1
  <2>3. 1..(Len(s) + 1) = 1..Len(s) \union {Len(s) + 1}
    BY <1>1
  <2>4. ToSet(t) = ToSet(s) \union {m}
    BY <1>1, <2>2, <2>3 DEF ToSet
  <2> QED
    BY <2>1, <2>2, <2>4
<1> QED
  BY <1>1, <1>2, <1>3, <1>4

(* What the messages of an input are.                                       *)
LEMMA MessagesAre ==
  /\ DstRecords \subseteq Nat \ {0}
  /\ \A i \in DstInputs : i \in Seq(DstMessages)
  /\ \A m \in DstMessages : m \in Int /\ (m > 0 <=> m \in DstRecords)
  /\ \A m \in DstMessages : m \notin {BadRecord, StateMessage} => m \in DstRecords
<1>1. ASSUME NEW i \in DstInputs, NEW n \in DOMAIN i
      PROVE  i \in Seq(Nat \union {-1}) /\ i[n] \in Nat \union {-1}
  <2>1. i \in Seq(Nat \union {-1})
    BY DestinationsAssumption DEF StateMessage
  <2> QED
    BY <2>1
<1>2. ASSUME NEW r \in DstRecords
      PROVE  r \in Nat \ {0}
  <2>1. PICK i \in DstInputs : r \in ToSet(i) /\ r > 0
    BY DEF DstRecords
  <2>2. PICK n \in DOMAIN i : r = i[n]
    BY <2>1 DEF ToSet
  <2>3. r \in Nat \union {-1}
    BY <1>1, <2>2
  <2> QED
    BY <2>1, <2>3
<1>3. ASSUME NEW i \in DstInputs
      PROVE  i \in Seq(DstMessages)
  <2>1. i \in Seq(Nat \union {-1})
    BY DestinationsAssumption DEF StateMessage
  <2>2. ASSUME NEW n \in 1..Len(i)
        PROVE  i[n] \in DstMessages
    <3>1. i[n] \in Nat \union {-1} /\ n \in DOMAIN i
      BY <2>1
    <3>2. CASE i[n] > 0
      <4>1. i[n] \in ToSet(i)
        BY <3>1 DEF ToSet
      <4> QED
        BY <3>2, <4>1 DEF DstRecords, DstMessages
    <3>3. CASE ~(i[n] > 0)
      BY <3>1, <3>3 DEF DstMessages, BadRecord, StateMessage
    <3> QED
      BY <3>2, <3>3
  <2> QED
    BY <2>1, <2>2
<1>4. ASSUME NEW m \in DstMessages
      PROVE  m \in Int /\ (m > 0 <=> m \in DstRecords)
             /\ (m \notin {BadRecord, StateMessage} => m \in DstRecords)
  BY <1>2 DEF DstMessages, BadRecord, StateMessage
<1> QED
  BY <1>2, <1>3, <1>4

(* The jobs of a buffer hold its records.                                   *)
LEMMA JobsOf ==
  ASSUME NEW buf \in Seq(DstRecords)
  PROVE  /\ Jobs(buf) \in Seq(SUBSET DstRecords) /\ Jobs(buf) # <<>>
         /\ UNION {Jobs(buf)[n] : n \in DOMAIN Jobs(buf)} = ToSet(buf)
<1>1. PICK all : all = ToSet(buf)
  OBVIOUS
<1>2. all \subseteq DstRecords
  BY <1>1, MembersOf
<1>3. PICK creates, updates : /\ creates = {r \in all : r % 2 = 1}
                              /\ updates = {r \in all : r % 2 = 0}
  OBVIOUS
<1>4. DstRecords \subseteq Nat
  BY MessagesAre
<1>5. creates \union updates = all
  <2>1. \A r \in all : r % 2 = 1 \/ r % 2 = 0
    BY <1>2, <1>4
  <2> QED
    BY <1>3, <2>1
<1>6. Jobs(buf) = <<creates, updates>> \/ Jobs(buf) = <<all>>
  BY <1>1, <1>3 DEF Jobs
<1>7. CASE Jobs(buf) = <<creates, updates>>
  <2>1. PICK s : s = Jobs(buf) /\ s = <<creates, updates>>
    BY <1>7
  <2>2. s \in Seq(SUBSET DstRecords) /\ s # <<>> /\ DOMAIN s = 1..2 /\ s[1] = creates /\ s[2] = updates
    BY <1>2, <1>3, <2>1
  <2>3. 1..2 = {1, 2}
    OBVIOUS
  <2>4. UNION {s[n] : n \in DOMAIN s} = creates \union updates
    BY <2>2, <2>3
  <2> QED
    BY <1>1, <1>5, <2>1, <2>2, <2>4
<1>8. CASE Jobs(buf) = <<all>>
  <2>1. PICK s : s = Jobs(buf) /\ s = <<all>>
    BY <1>8
  <2>2. s \in Seq(SUBSET DstRecords) /\ s # <<>> /\ DOMAIN s = 1..1 /\ s[1] = all
    BY <1>2, <2>1
  <2>3. 1..1 = {1}
    OBVIOUS
  <2>4. UNION {s[n] : n \in DOMAIN s} = all
    BY <2>2, <2>3
  <2> QED
    BY <1>1, <2>1, <2>2, <2>4
<1> QED
  BY <1>6, <1>7, <1>8

(* A result after another: errors are added, what is seen and acknowledged  *)
(* is the same.                                                             *)
ResultAfter(q, res, bad) ==
    /\ ResultOK(q) /\ q.seen = res.seen /\ q.acked = res.acked
    /\ q.failed = res.failed \union bad /\ (res.errors > 0 => q.errors > 0)

(* What the flushes make of a result.                                       *)
LEMMA ResultsAre ==
  ASSUME NEW res, ResultOK(res), NEW n, NEW bad \in SUBSET DstRecords
  PROVE  /\ ResultAfter(Wrote(res, n), res, {})
         /\ ResultAfter(OneError(res), res, {}) /\ OneError(res).errors = 1
         /\ ResultAfter([res EXCEPT !.failed = @ \union bad], res, bad)
         /\ ResultAfter([Wrote(res, n) EXCEPT !.failed = @ \union bad], res, bad)
         /\ ResultAfter([Wrote(res, n) EXCEPT !.failed = @ \union bad,
                                              !.errors = IF bad # {} THEN 1 ELSE @], res, bad)
<1>0. /\ DOMAIN res = ResultFields /\ res.errors \in {0, 1}
      /\ res.failed \subseteq DstRecords /\ res.acked \subseteq DstRecords
      /\ res.seen \subseteq DstRecords
  BY DEF ResultOK
<1>1. ResultAfter(Wrote(res, n), res, {})
  BY <1>0 DEF ResultAfter, ResultOK, ResultFields, Wrote
<1>2. ResultAfter(OneError(res), res, {}) /\ OneError(res).errors = 1
  BY <1>0 DEF ResultAfter, ResultOK, ResultFields, OneError
<1>3. ResultAfter([res EXCEPT !.failed = @ \union bad], res, bad)
  BY <1>0 DEF ResultAfter, ResultOK, ResultFields
<1>4. ResultAfter([Wrote(res, n) EXCEPT !.failed = @ \union bad], res, bad)
  BY <1>0 DEF ResultAfter, ResultOK, ResultFields, Wrote
<1>5. ResultAfter([Wrote(res, n) EXCEPT !.failed = @ \union bad,
                                        !.errors = IF bad # {} THEN 1 ELSE @], res, bad)
  BY <1>0 DEF ResultAfter, ResultOK, ResultFields, Wrote
<1> QED
  BY <1>1, <1>2, <1>3, <1>4, <1>5

(* How many records a result tells of after another one.                   *)
Counts(q, res, n) ==
    /\ q.written \in Nat /\ IsFiniteSet(q.failed) /\ Cardinality(q.failed) \in Nat
    /\ Told(q) \in Nat /\ Told(res) \in Nat /\ Told(q) <= Told(res) + n

(* How much more the flushes make a result tell.                            *)
LEMMA ResultsCount ==
  ASSUME NEW res, DOMAIN res = ResultFields, res.written \in Nat, IsFiniteSet(res.failed),
         NEW n \in Nat, NEW bad, IsFiniteSet(bad), NEW k, k = n + Cardinality(bad)
  PROVE  /\ Counts(Wrote(res, n), res, n) /\ Counts(OneError(res), res, 0)
         /\ Counts([res EXCEPT !.failed = @ \union bad], res, Cardinality(bad))
         /\ Counts([Wrote(res, n) EXCEPT !.failed = @ \union bad], res, k)
         /\ Counts([Wrote(res, n) EXCEPT !.failed = @ \union bad,
                                         !.errors = IF bad # {} THEN 1 ELSE @], res, k)
<1>1. PICK w, F : w = res.written /\ F = res.failed
  OBVIOUS
<1>2. PICK U : U = F \union bad
  OBVIOUS
<1>3. IsFiniteSet(U) /\ Cardinality(F) \in Nat /\ Cardinality(bad) \in Nat
      /\ Cardinality(U) \in Nat /\ Cardinality(U) <= Cardinality(F) + Cardinality(bad)
  BY <1>1, <1>2, UnionIsFew
<1>4. PICK f, b, u : f = Cardinality(F) /\ b = Cardinality(bad) /\ u = Cardinality(U)
  OBVIOUS
<1>5. w \in Nat /\ f \in Nat /\ b \in Nat /\ u \in Nat /\ u <= f + b
  BY <1>1, <1>3, <1>4
\* A result is counted by the two fields.
<1>6. ASSUME NEW q, NEW dw \in Nat, NEW G, IsFiniteSet(G), NEW g \in Nat, g = Cardinality(G),
             q.written = w + dw, q.failed = G, NEW m \in Nat, dw + g <= f + m
      PROVE  Counts(q, res, m)
  <2>1. Told(q) = (w + dw) + g /\ Told(res) = w + f
    BY <1>1, <1>4, <1>6 DEF Told
  <2>2. (w + dw) + g <= (w + f) + m /\ w + dw \in Nat /\ (w + dw) + g \in Nat /\ w + f \in Nat
    BY <1>5, <1>6
  <2>3. q.written \in Nat /\ IsFiniteSet(q.failed) /\ Cardinality(q.failed) \in Nat
    BY <1>6, <2>2
  <2> QED
    BY <2>1, <2>2, <2>3 DEF Counts
<1>7. IsFiniteSet(F) /\ 0 \in Nat /\ k = n + b /\ k \in Nat
  BY <1>1, <1>4, <1>5
<1>8. PICK q1 : q1 = Wrote(res, n)
  OBVIOUS
<1>9. DOMAIN q1 = ResultFields /\ q1.written = w + n /\ q1.failed = F
  BY <1>1, <1>8 DEF Wrote, ResultFields
<1>10. Counts(q1, res, n)
  <2>1. n + f <= f + n
    BY <1>5
  <2> QED
    BY <1>4, <1>5, <1>6, <1>7, <1>9, <2>1
<1>11. PICK q2 : q2 = OneError(res)
  OBVIOUS
<1>12. Counts(q2, res, 0)
  <2>1. q2.written = w + 0 /\ q2.failed = F
    BY <1>1, <1>5, <1>11 DEF OneError, ResultFields
  <2>2. 0 + f <= f + 0
    BY <1>5
  <2>3. PICK zero : zero = 0
    OBVIOUS
  <2> QED
    BY <1>4, <1>5, <1>6, <1>7, <2>1, <2>2
<1>13. PICK q3 : q3 = [res EXCEPT !.failed = @ \union bad]
  OBVIOUS
<1>14. Counts(q3, res, b)
  <2>1. q3.written = w + 0 /\ q3.failed = U
    BY <1>1, <1>2, <1>5, <1>13 DEF ResultFields
  <2>2. 0 + u <= f + b
    BY <1>5
  <2> QED
    BY <1>3, <1>4, <1>5, <1>6, <1>7, <2>1, <2>2
<1>15. PICK q4 : q4 = [q1 EXCEPT !.failed = @ \union bad]
  OBVIOUS
<1>16. PICK q5 : q5 = [q1 EXCEPT !.failed = @ \union bad, !.errors = IF bad # {} THEN 1 ELSE @]
  OBVIOUS
<1>17. q4.written = w + n /\ q4.failed = U /\ q5.written = w + n /\ q5.failed = U
  BY <1>2, <1>9, <1>15, <1>16 DEF ResultFields
<1>18. n + u <= f + k
  BY <1>5, <1>7
<1>19. Counts(q4, res, k) /\ Counts(q5, res, k)
  BY <1>3, <1>4, <1>5, <1>6, <1>7, <1>17, <1>18
<1> QED
  BY <1>4, <1>8, <1>10, <1>11, <1>12, <1>13, <1>14, <1>15, <1>16, <1>19

(* What a flush of buf leaves.                                              *)
Flushed(buf, res) ==
    /\ DstGrows /\ ResultOK(dstResult')
    /\ dstResult'.seen = res.seen /\ dstResult'.acked = res.acked
    /\ dstBuf' \in Seq(DstRecords) /\ dstCopies' \in [DstRecords -> Nat]
    /\ dstMiscounted' \subseteq DstRecords
    /\ dstFile' \in Nat /\ DOMAIN dstObjects' \subseteq Nat \X Nat
    /\ \A r \in ToSet(buf) : Settled(r)'

(* A flush that does not make objects is right when each record is stored,  *)
(* has an error, or is miscounted.                                          *)
LEMMA TableFlushed ==
  ASSUME DstShape, NEW buf \in Seq(DstRecords), NEW res, ResultOK(res),
         dstResult.failed \subseteq res.failed, dstResult.errors > 0 => res.errors > 0,
         NEW S, dstCopies' = Add(dstCopies, S), NEW bad, ResultAfter(dstResult', res, bad),
         NEW gone \in SUBSET DstRecords, dstMiscounted' = dstMiscounted \union gone,
         \A r \in ToSet(buf) : r \in S \/ r \in bad \/ r \in gone \/ dstResult'.errors > 0,
         dstBuf' = <<>>, UNCHANGED <<dstObjects, dstFile>>
  PROVE  Flushed(buf, res)
<1>1. dstCopies \in [DstRecords -> Nat]
  BY DEF DstShape
<1>2. /\ dstCopies' \in [DstRecords -> Nat]
      /\ \A r \in DstRecords : (dstCopies[r] > 0 \/ r \in S) => dstCopies'[r] > 0
  BY <1>1, AddIs
<1>3. dstMiscounted \subseteq dstMiscounted' /\ dstMiscounted' \subseteq DstRecords
      /\ gone \subseteq dstMiscounted'
  BY DEF DstShape
<1>4. dstResult.failed \subseteq dstResult'.failed /\ bad \subseteq dstResult'.failed
      /\ (dstResult.errors > 0 => dstResult'.errors > 0)
  BY DEF ResultAfter
<1>5. DstGrows
  BY <1>2, <1>3, <1>4 DEF DstGrows
<1>6. ToSet(buf) \subseteq DstRecords
  BY MembersOf
<1>7. ASSUME NEW r \in ToSet(buf)
      PROVE  Settled(r)'
  BY <1>2, <1>3, <1>4, <1>6 DEF Settled
<1>8. dstBuf' \in Seq(DstRecords) /\ dstFile' \in Nat /\ DOMAIN dstObjects' \subseteq Nat \X Nat
  BY DEF DstShape
<1> QED
  BY <1>2, <1>3, <1>5, <1>7, <1>8 DEF Flushed, ResultAfter

(* Snowflake's INSERT of a small buffer.                                    *)
LEMMA DirectInsertKept ==
  ASSUME DstShape, NEW buf \in Seq(DstRecords), NEW res, ResultOK(res),
         dstResult.failed \subseteq res.failed, dstResult.errors > 0 => res.errors > 0,
         DirectInsert(buf, res)
  PROVE  Flushed(buf, res)
<1>1. PICK insert \in ExecuteStatement :
        /\ dstCopies' = Add(dstCopies, IF insert.effect THEN ToSet(buf) ELSE {})
        /\ dstResult' = IF insert.ok THEN Wrote(res, Len(buf))
                        ELSE [res EXCEPT !.failed = @ \union ToSet(buf)]
  BY DEF DirectInsert
<1>2. insert.ok => insert.effect
  BY DEF ExecuteStatement, PollStatementResult, Outcome
<1>3. ToSet(buf) \in SUBSET DstRecords
  BY MembersOf
<1>4. dstBuf' = <<>> /\ UNCHANGED <<dstMiscounted, dstObjects, dstFile>>
  BY DEF DirectInsert
<1>5. dstMiscounted' = dstMiscounted \union {} /\ {} \in SUBSET DstRecords
  BY <1>4
<1>6. CASE insert.ok
  <2>1. dstCopies' = Add(dstCopies, ToSet(buf)) /\ dstResult' = Wrote(res, Len(buf))
    BY <1>1, <1>2, <1>6
  <2>2. ResultAfter(dstResult', res, {})
    BY <2>1, <1>3, ResultsAre
  <2> QED
    BY <1>4, <1>5, <2>1, <2>2, TableFlushed
<1>7. CASE ~insert.ok
  <2>1. PICK S : dstCopies' = Add(dstCopies, S)
    BY <1>1
  <2>2. dstResult' = [res EXCEPT !.failed = @ \union ToSet(buf)]
    BY <1>1, <1>7
  <2>3. ResultAfter(dstResult', res, ToSet(buf))
    BY <2>2, <1>3, ResultsAre
  <2> QED
    BY <1>4, <1>5, <2>1, <2>3, TableFlushed
<1> QED
  BY <1>6, <1>7

(* Snowflake's transaction: every chunk counted is kept or miscounted, and  *)
(* the call has an error when one is left.                                  *)
LEMMA BulkInsertKept ==
  ASSUME DstShape, NEW buf \in Seq(DstRecords), NEW res, ResultOK(res),
         dstResult.failed \subseteq res.failed, dstResult.errors > 0 => res.errors > 0,
         BulkInsertViaStage(buf, res)
  PROVE  Flushed(buf, res)
<1>1. PICK n \in 1..(Len(buf) + 1), kept \in BOOLEAN, last \in ExecuteStatement :
        LET counted == ToSet(SubSeq(buf, 1, n - 1))
            failed == {buf[i] : i \in {n} \intersect DOMAIN buf}
            effect == counted \union IF last.effect THEN failed ELSE {} IN
        /\ dstCopies' = Add(dstCopies, IF kept THEN effect ELSE {})
        /\ dstMiscounted' = dstMiscounted \union (IF kept THEN {} ELSE counted)
        /\ dstResult' = [Wrote(res, n - 1) EXCEPT
                           !.failed = @ \union failed,
                           !.errors = IF failed # {} THEN 1 ELSE @]
  BY DEF BulkInsertViaStage
<1>2. PICK counted, failed : /\ counted = ToSet(SubSeq(buf, 1, n - 1))
                             /\ failed = {buf[i] : i \in {n} \intersect DOMAIN buf}
  OBVIOUS
<1>3. PICK S, gone :
        /\ S = IF kept THEN counted \union IF last.effect THEN failed ELSE {} ELSE {}
        /\ gone = IF kept THEN {} ELSE counted
  OBVIOUS
<1>4. /\ dstCopies' = Add(dstCopies, S) /\ dstMiscounted' = dstMiscounted \union gone
      /\ dstResult' = [Wrote(res, n - 1) EXCEPT
                         !.failed = @ \union failed, !.errors = IF failed # {} THEN 1 ELSE @]
  BY <1>1, <1>2, <1>3
<1>5. ToSet(buf) \subseteq DstRecords /\ DOMAIN buf = 1..Len(buf) /\ Len(buf) \in Nat
  BY MembersOf
<1>6. \A i \in DOMAIN buf : buf[i] \in DstRecords
  OBVIOUS
<1>7. failed \in SUBSET DstRecords
  BY <1>2, <1>6
<1>8. PICK sub : sub = SubSeq(buf, 1, n - 1)
  OBVIOUS
<1>9. DOMAIN sub = 1..(n - 1) /\ \A i \in 1..(n - 1) : sub[i] = buf[i]
  BY <1>8, <1>5
<1>10. counted = {buf[i] : i \in 1..(n - 1)}
  BY <1>2, <1>8, <1>9 DEF ToSet
<1>11. 1..(n - 1) \subseteq DOMAIN buf
  BY <1>5
<1>12. counted \in SUBSET DstRecords
  BY <1>6, <1>10, <1>11
<1>13. gone \in SUBSET DstRecords
  BY <1>3, <1>12
<1>14. ResultAfter(dstResult', res, failed)
  BY <1>4, <1>7, ResultsAre
<1>15. \A r \in ToSet(buf) : r \in S \/ r \in failed \/ r \in gone \/ dstResult'.errors > 0
  <2>1. CASE n = Len(buf) + 1
    <3>1. 1..(n - 1) = DOMAIN buf
      BY <2>1, <1>5
    <3>2. ToSet(buf) = counted
      BY <1>10, <3>1 DEF ToSet
    <3> QED
      BY <1>3, <3>2
  <2>2. CASE n \in DOMAIN buf
    <3>1. failed # {}
      BY <1>2, <2>2
    <3>2. "errors" \in DOMAIN res /\ "failed" \in DOMAIN res
      BY DEF ResultOK, ResultFields
    <3>3. dstResult'.errors = 1
      BY <1>4, <3>1, <3>2 DEF Wrote
    <3> QED
      BY <3>3
  <2> QED
    BY <1>5, <2>1, <2>2
<1>16. dstBuf' = <<>> /\ UNCHANGED <<dstObjects, dstFile>>
  BY DEF BulkInsertViaStage
<1> QED
  BY <1>4, <1>13, <1>14, <1>15, <1>16, TableFlushed

(* BigQuery's insertAll.                                                    *)
LEMMA BigQueryFlushKept ==
  ASSUME DstShape, NEW buf \in Seq(DstRecords), NEW res, ResultOK(res),
         dstResult.failed \subseteq res.failed, dstResult.errors > 0 => res.errors > 0,
         BigQueryFlush(buf, res)
  PROVE  Flushed(buf, res)
<1>1. dstBuf' = <<>> /\ UNCHANGED <<dstObjects, dstFile>>
  BY DEF BigQueryFlush
<1>2. ToSet(buf) \in SUBSET DstRecords
  BY MembersOf
<1>3. {} \in SUBSET DstRecords
  OBVIOUS
<1>4. CASE /\ dstCopies' = Add(dstCopies, ToSet(buf))
           /\ dstResult' = Wrote(res, Len(buf)) /\ UNCHANGED dstMiscounted
  <2>1. ResultAfter(dstResult', res, {})
    BY <1>2, <1>4, ResultsAre
  <2>2. dstMiscounted' = dstMiscounted \union {}
    BY <1>4
  <2> QED
    BY <1>1, <1>3, <1>4, <2>1, <2>2, TableFlushed
<1>5. ASSUME NEW bad \in SUBSET ToSet(buf), UNCHANGED dstCopies,
             dstMiscounted' = dstMiscounted \union (ToSet(buf) \ bad),
             dstResult' = [Wrote(res, Len(buf) - Cardinality(bad)) EXCEPT !.failed = @ \union bad]
      PROVE  Flushed(buf, res)
  <2>1. bad \in SUBSET DstRecords /\ ToSet(buf) \ bad \in SUBSET DstRecords
    BY <1>2
  <2>2. ResultAfter(dstResult', res, bad)
    BY <1>5, <2>1, ResultsAre
  <2>3. dstCopies' = Add(dstCopies, {})
    <3>1. dstCopies \in [DstRecords -> Nat]
      BY DEF DstShape
    <3> QED
      BY <1>5, <3>1 DEF Add
  <2>4. \A r \in ToSet(buf) : r \in {} \/ r \in bad \/ r \in ToSet(buf) \ bad \/ dstResult'.errors > 0
    OBVIOUS
  <2> QED
    BY <1>1, <1>5, <2>1, <2>2, <2>3, <2>4, TableFlushed
<1>6. ASSUME NEW done, dstCopies' = Add(dstCopies, done), dstResult' = OneError(res),
             UNCHANGED dstMiscounted
      PROVE  Flushed(buf, res)
  <2>1. ResultAfter(dstResult', res, {}) /\ dstResult'.errors = 1
    BY <1>2, <1>6, ResultsAre
  <2>2. dstMiscounted' = dstMiscounted \union {}
    BY <1>6
  <2>3. \A r \in ToSet(buf) : r \in done \/ r \in {} \/ r \in {} \/ dstResult'.errors > 0
    BY <2>1
  <2> QED
    BY <1>1, <1>3, <1>6, <2>1, <2>2, <2>3, TableFlushed
<1> QED
  BY <1>4, <1>5, <1>6 DEF BigQueryFlush

(* S3's object: its key has an index the call has not used.                 *)
LEMMA S3FlushKept ==
  ASSUME DstShape, NEW buf \in Seq(DstRecords), NEW res, ResultOK(res),
         dstResult.failed \subseteq res.failed, dstResult.errors > 0 => res.errors > 0,
         S3Flush(buf, res)
  PROVE  Flushed(buf, res)
<1>1. PICK key : key = <<dstSecond, dstFile>>
  OBVIOUS
<1>2. PICK put : put = [k \in DOMAIN dstObjects \union {key} |->
                          IF k = key THEN ToSet(buf) ELSE dstObjects[k]]
  OBVIOUS
<1>3. /\ \/ /\ dstObjects' = put
            /\ dstResult' = Wrote(res, Len(buf)) /\ dstBuf' = <<>>
         \/ /\ dstObjects' \in {put, dstObjects}
            /\ dstResult' = OneError(res) /\ dstBuf' = buf
      /\ dstFile' = dstFile + 1 /\ UNCHANGED <<dstCopies, dstMiscounted>>
  BY <1>1, <1>2 DEF S3Flush
<1>4. dstFile \in Nat /\ dstSecond \in Nat /\ DOMAIN dstObjects \subseteq Nat \X Nat
      /\ dstCopies \in [DstRecords -> Nat] /\ dstMiscounted \subseteq DstRecords
  BY DEF DstShape
<1>5. key \in Nat \X Nat /\ key[2] = dstFile
  BY <1>1, <1>4
<1>6. DOMAIN put = DOMAIN dstObjects \union {key} /\ put[key] = ToSet(buf)
      /\ \A k \in DOMAIN dstObjects : k # key => put[k] = dstObjects[k]
  BY <1>2
<1>7. dstFile' \in Nat /\ dstFile < dstFile'
  BY <1>3, <1>4
<1>8. ASSUME NEW k \in DOMAIN dstObjects, k[2] < dstFile
      PROVE  /\ k \in DOMAIN dstObjects' /\ dstObjects'[k] = dstObjects[k] /\ k[2] < dstFile'
  <2>1. k # key
    BY <1>4, <1>5, <1>8
  <2>2. k[2] \in Nat
    BY <1>4
  <2>3. k[2] < dstFile'
    BY <1>3, <1>4, <1>8, <2>2
  <2> QED
    BY <1>3, <1>6, <2>1, <2>3
<1>9. ResultAfter(dstResult', res, {}) /\ (dstResult' = OneError(res) => dstResult'.errors = 1)
  <2>1. {} \in SUBSET DstRecords
    OBVIOUS
  <2>2. dstResult' = Wrote(res, Len(buf)) \/ dstResult' = OneError(res)
    BY <1>3, Zenon
  <2>3. /\ ResultAfter(Wrote(res, Len(buf)), res, {}) /\ ResultAfter(OneError(res), res, {})
        /\ OneError(res).errors = 1
    BY <2>1, ResultsAre
  <2> QED
    BY <2>2, <2>3, Zenon
<1>10. DstGrows
  <2>1. dstResult.failed \subseteq dstResult'.failed /\ (dstResult.errors > 0 => dstResult'.errors > 0)
    BY <1>9 DEF ResultAfter
  <2> QED
    BY <1>3, <1>8, <2>1 DEF DstGrows
<1>11. ASSUME NEW r \in ToSet(buf)
       PROVE  Settled(r)'
  <2>1. CASE dstResult' = OneError(res)
    BY <1>9, <2>1 DEF Settled
  <2>2. CASE dstObjects' = put
    BY <1>5, <1>6, <1>7, <2>2 DEF Settled
  <2> QED
    BY <1>3, <2>1, <2>2
<1>12. DOMAIN dstObjects' \subseteq Nat \X Nat
  BY <1>3, <1>4, <1>5, <1>6
<1>13. dstBuf' \in Seq(DstRecords)
  <2>1. dstBuf' = <<>> \/ dstBuf' = buf
    BY <1>3, Zenon
  <2>2. <<>> \in Seq(DstRecords) /\ buf \in Seq(DstRecords)
    OBVIOUS
  <2> QED
    BY <2>1, <2>2, Zenon
<1> QED
  BY <1>3, <1>4, <1>7, <1>9, <1>10, <1>11, <1>12, <1>13 DEF Flushed, ResultAfter

(* Every flush leaves its records stored or behind an error.                *)
LEMMA FlushKept ==
  ASSUME DstShape, NEW buf \in Seq(DstRecords), NEW res, ResultOK(res),
         dstResult.failed \subseteq res.failed, dstResult.errors > 0 => res.errors > 0,
         Flush(buf, res)
  PROVE  Flushed(buf, res)
<1>1. CASE BulkInsertViaStage(buf, res)
  BY <1>1, BulkInsertKept
<1>2. CASE DirectInsert(buf, res)
  BY <1>2, DirectInsertKept
<1>3. CASE BigQueryFlush(buf, res)
  BY <1>3, BigQueryFlushKept
<1>4. CASE S3Flush(buf, res)
  BY <1>4, S3FlushKept
<1> QED
  BY <1>1, <1>2, <1>3, <1>4 DEF Flush, SnowflakeFlush

(* A flush makes the result tell of no more records than it takes out of    *)
(* the buffer.                                                              *)
LEMMA FlushCounts ==
  ASSUME NEW buf \in Seq(DstRecords), NEW res, ResultOK(res), res.written \in Nat,
         IsFiniteSet(res.failed), Flush(buf, res)
  PROVE  /\ Counts(dstResult', res, Len(buf))
         /\ Len(dstBuf') \in Nat /\ Len(buf) \in Nat
         /\ Told(dstResult') + Len(dstBuf') <= Told(res) + Len(buf)
<1>1. DOMAIN res = ResultFields
  BY DEF ResultOK
<1>2. PICK n, all, few : n = Len(buf) /\ all = ToSet(buf) /\ few = Cardinality(all)
  OBVIOUS
<1>3. n \in Nat /\ DOMAIN buf = 1..n /\ IsFiniteSet(all) /\ few \in Nat /\ few <= n
  BY <1>2, MembersAreFew
<1>4. PICK none : none = {}
  OBVIOUS
<1>5. IsFiniteSet(none) /\ Cardinality(none) = 0
  BY <1>4, FS_EmptySet
<1>6. Len(<<>>) = 0
  BY EmptySeq
<1>0. Counts(Wrote(res, n), res, n) /\ Counts(OneError(res), res, 0) /\ n <= n
  <2>1. PICK k : k = n + Cardinality(none)
    OBVIOUS
  <2>2. Counts(Wrote(res, n), res, n) /\ Counts(OneError(res), res, 0)
    BY <1>1, <1>3, <1>5, <2>1, ResultsCount
  <2> QED
    BY <1>3, <2>2
\* What is left to show when the flush empties the buffer.
<1>7. ASSUME dstBuf' = <<>>, NEW k \in Nat, k <= n, Counts(dstResult', res, k)
      PROVE  /\ Counts(dstResult', res, n)
             /\ Len(dstBuf') \in Nat /\ Told(dstResult') + Len(dstBuf') <= Told(res) + n
  <2>1. PICK q : q = dstResult'
    OBVIOUS
  <2>2. PICK t, u : t = Told(q) /\ u = Told(res)
    OBVIOUS
  <2>3. t \in Nat /\ u \in Nat /\ t <= u + k
    BY <1>7, <2>1, <2>2 DEF Counts
  <2>4. t <= u + n /\ t + 0 <= u + n
    BY <1>3, <1>7, <2>3
  <2>5. Counts(q, res, n)
    BY <1>7, <2>1, <2>2, <2>4 DEF Counts
  <2> QED
    BY <1>6, <1>7, <2>1, <2>2, <2>4, <2>5
<1>8. CASE DirectInsert(buf, res)
  <2>1. \/ dstResult' = Wrote(res, n)
        \/ dstResult' = [res EXCEPT !.failed = @ \union all]
    BY <1>2, <1>8 DEF DirectInsert
  <2>2. Counts(Wrote(res, n), res, n)
    BY <1>0
  <2>3. Counts([res EXCEPT !.failed = @ \union all], res, few)
    BY <1>1, <1>2, <1>3, ResultsCount
  <2>4. dstBuf' = <<>>
    BY <1>8 DEF DirectInsert
  <2>5. n <= n
    BY <1>3
  <2> QED
    BY <1>2, <1>3, <1>7, <2>1, <2>2, <2>3, <2>4, <2>5
<1>9. CASE BulkInsertViaStage(buf, res)
  <2>1. PICK m \in 1..(Len(buf) + 1) :
          LET failed == {buf[i] : i \in {m} \intersect DOMAIN buf} IN
          dstResult' = [Wrote(res, m - 1) EXCEPT
                         !.failed = @ \union failed,
                         !.errors = IF failed # {} THEN 1 ELSE @]
    BY <1>9 DEF BulkInsertViaStage
  <2>2. PICK bad : bad = {buf[i] : i \in {m} \intersect DOMAIN buf}
    OBVIOUS
  <2>3. PICK p, c : p = m - 1 /\ c = Cardinality(bad)
    OBVIOUS
  <2>4. dstResult' = [Wrote(res, p) EXCEPT !.failed = @ \union bad,
                                           !.errors = IF bad # {} THEN 1 ELSE @]
    BY <2>1, <2>2, <2>3
  <2>5. p \in Nat /\ (m \in 1..n \/ p = n)
    BY <1>2, <1>3, <2>3
  <2>6. IsFiniteSet(bad) /\ c \in Nat /\ p + c <= n
    <3>1. CASE m \in 1..n
      <4>1. bad = {buf[m]}
        BY <1>3, <2>2, <3>1
      <4>2. IsFiniteSet(bad) /\ c = 1
        BY <2>3, <4>1, FS_Singleton
      <4> QED
        BY <1>3, <2>3, <3>1, <4>2
    <3>2. CASE m \notin 1..n
      <4>1. bad = none
        BY <1>3, <1>4, <2>2, <3>2
      <4>2. p = n
        BY <2>5, <3>2
      <4> QED
        BY <1>3, <1>5, <2>3, <4>1, <4>2
    <3> QED
      BY <3>1, <3>2
  <2>7. PICK k : k = p + c
    OBVIOUS
  <2>8. k \in Nat /\ k <= n
    BY <2>5, <2>6, <2>7
  <2>9. Counts(dstResult', res, k)
    BY <1>1, <2>3, <2>4, <2>5, <2>6, <2>7, ResultsCount
  <2>10. dstBuf' = <<>>
    BY <1>9 DEF BulkInsertViaStage
  <2> QED
    BY <1>2, <1>3, <1>7, <2>8, <2>9, <2>10
<1>10. CASE BigQueryFlush(buf, res)
  <2>1. dstBuf' = <<>>
    BY <1>10 DEF BigQueryFlush
  <2>2. CASE dstResult' = Wrote(res, Len(buf))
    <3>1. Counts(dstResult', res, n) /\ n <= n
      BY <1>0, <1>2, <2>2
    <3> QED
      BY <1>2, <1>3, <1>7, <2>1, <3>1
  <2>3. ASSUME NEW bad \in SUBSET ToSet(buf),
               dstResult' = [Wrote(res, Len(buf) - Cardinality(bad)) EXCEPT
                              !.failed = @ \union bad]
        PROVE  Counts(dstResult', res, n)
    <3>1. PICK c, d : c = Cardinality(bad) /\ d = n - c
      OBVIOUS
    <3>2. IsFiniteSet(bad) /\ c \in Nat /\ c <= few
      BY <1>2, <1>3, <2>3, <3>1, PartIsFew
    <3>3. d \in Nat /\ n = d + c
      BY <1>3, <3>1, <3>2
    <3>4. dstResult' = [Wrote(res, d) EXCEPT !.failed = @ \union bad]
      BY <1>2, <2>3, <3>1
    <3> QED
      BY <1>1, <3>1, <3>2, <3>3, <3>4, ResultsCount
  <2>4. CASE dstResult' = OneError(res)
    <3>1. Counts(dstResult', res, 0) /\ 0 \in Nat /\ 0 <= n
      BY <1>0, <1>3, <2>4
    <3> QED
      BY <1>2, <1>3, <1>7, <2>1, <3>1
  <2>5. n <= n
    BY <1>3
  <2> QED
    BY <1>2, <1>3, <1>7, <1>10, <2>1, <2>2, <2>3, <2>4, <2>5 DEF BigQueryFlush
<1>11. CASE S3Flush(buf, res)
  <2>1. \/ dstResult' = Wrote(res, Len(buf)) /\ dstBuf' = <<>>
        \/ dstResult' = OneError(res) /\ dstBuf' = buf
    BY <1>11 DEF S3Flush
  <2>2. CASE dstResult' = Wrote(res, Len(buf)) /\ dstBuf' = <<>>
    <3>1. Counts(dstResult', res, n) /\ n <= n
      BY <1>0, <1>2, <2>2
    <3> QED
      BY <1>2, <1>3, <1>7, <2>2, <3>1
  <2>3. CASE dstResult' = OneError(res) /\ dstBuf' = buf
    <3>1. Counts(dstResult', res, 0)
      BY <1>0, <2>3
    <3>2. PICK q : q = dstResult'
      OBVIOUS
    <3>3. PICK t, u : t = Told(q) /\ u = Told(res)
      OBVIOUS
    <3>4. t \in Nat /\ u \in Nat /\ t <= u + 0
      BY <3>1, <3>2, <3>3 DEF Counts
    <3>5. t <= u + n /\ t + n <= u + n
      BY <1>3, <3>4
    <3>6. Counts(q, res, n)
      BY <3>1, <3>2, <3>3, <3>5 DEF Counts
    <3> QED
      BY <1>2, <1>3, <2>3, <3>2, <3>3, <3>5, <3>6
  <2> QED
    BY <2>1, <2>2, <2>3
<1> QED
  BY <1>8, <1>9, <1>10, <1>11 DEF Flush, SnowflakeFlush

(* The jobs of a buffer are one or two, and hold no more records than it.   *)
LEMMA JobsCount ==
  ASSUME NEW buf \in Seq(DstRecords), NEW jobs, jobs = Jobs(buf)
  PROVE  /\ Len(jobs) \in Nat /\ Len(jobs) <= 2
         /\ \A n \in DOMAIN jobs : IsFiniteSet(jobs[n])
         /\ Cardinality(jobs[1]) \in Nat
         /\ Len(jobs) > 1 => Cardinality(jobs[2]) \in Nat
         /\ Len(buf) \in Nat
         /\ Cardinality(jobs[1]) + (IF Len(jobs) > 1 THEN Cardinality(jobs[2]) ELSE 0) <= Len(buf)
<1>1. PICK all, n : all = ToSet(buf) /\ n = Len(buf)
  OBVIOUS
<1>2. IsFiniteSet(all) /\ Cardinality(all) \in Nat /\ Cardinality(all) <= n /\ n \in Nat
  BY <1>1, MembersAreFew, MembersOf
<1>3. PICK creates, updates : /\ creates = {r \in all : r % 2 = 1}
                              /\ updates = {r \in all : r % 2 = 0}
  OBVIOUS
<1>4. creates \in SUBSET all /\ updates \in SUBSET all /\ creates \intersect updates = {}
  BY <1>3
<1>5. PICK both : both = creates \union updates
  OBVIOUS
<1>6. IsFiniteSet(creates) /\ IsFiniteSet(updates) /\ both \in SUBSET all
  BY <1>2, <1>4, <1>5, PartIsFew
<1>7. Cardinality(both) <= Cardinality(all)
  BY <1>2, <1>6, PartIsFew
<1>8. PICK c, u, b, a : /\ c = Cardinality(creates) /\ u = Cardinality(updates)
                        /\ b = Cardinality(both) /\ a = Cardinality(all)
  OBVIOUS
<1>9. c \in Nat /\ u \in Nat /\ b = c + u
  BY <1>4, <1>5, <1>6, <1>8, UnionIsFew
<1>10. c + u <= n /\ a <= n /\ a \in Nat
  BY <1>2, <1>7, <1>8, <1>9
<1>11. jobs = <<creates, updates>> \/ jobs = <<all>>
  BY <1>1, <1>3 DEF Jobs
<1>12. CASE jobs = <<creates, updates>>
  <2>1. Len(jobs) = 2 /\ DOMAIN jobs = {1, 2} /\ jobs[1] = creates /\ jobs[2] = updates
    BY <1>12
  <2> QED
    BY <1>1, <1>2, <1>6, <1>8, <1>9, <1>10, <2>1
<1>13. CASE jobs = <<all>>
  <2>1. Len(jobs) = 1 /\ DOMAIN jobs = {1} /\ jobs[1] = all
    BY <1>13
  <2> QED
    BY <1>1, <1>2, <1>8, <1>10, <2>1
<1> QED
  BY <1>11, <1>12, <1>13

(* What is acknowledged stays settled.                                      *)
LEMMA AckedKept ==
  ASSUME DstShape, DstKept, DstGrows, dstResult'.acked \subseteq DstRecords,
         \A r \in dstResult'.acked : r \in dstResult.acked \/ Settled(r)'
  PROVE  \A r \in dstResult'.acked : Settled(r)'
<1>1. dstResult.acked \subseteq DstRecords
  BY DEF DstShape, ResultOK
<1>2. ASSUME NEW r \in dstResult'.acked
      PROVE  Settled(r)'
  <2>1. CASE r \in dstResult.acked
    BY <1>1, <2>1, SettledKept DEF DstKept
  <2> QED
    BY <1>2, <2>1
<1> QED
  BY <1>2

(* A step that grows what is settled and keeps what is acknowledged, and    *)
(* puts no record out of hand that it does not settle: the count then falls *)
(* short afterwards if it did before.                                       *)
LEMMA KeptBy ==
  ASSUME DstShape, DstKept, DstGrows, Short => Short',
         dstResult'.seen \subseteq DstRecords, dstResult'.acked \subseteq DstRecords,
         \A r \in dstResult'.seen : r \in dstResult.seen \/ r \in InHand' \/ Settled(r)',
         \A r \in dstResult'.acked : r \in dstResult.acked \/ Settled(r)',
         \A r \in InHand : r \in InHand' \/ Settled(r)' \/ Short',
         dstKind' = dstKind,
         dstKind \notin Crm /\ dstPc' # "done" =>
            dstPc # "done" /\ \A r \in InHand : r \in InHand' \/ Settled(r)'
  PROVE  DstKept'
<1>1. dstResult.seen \subseteq DstRecords /\ dstResult.acked \subseteq DstRecords
  BY DEF DstShape, ResultOK
<1>2. ASSUME NEW r \in dstResult'.seen
      PROVE  Settled(r)' \/ r \in InHand' \/ Short'
  <2>1. CASE r \in dstResult.seen
    <3>1. Settled(r) \/ r \in InHand \/ Short
      BY <2>1 DEF DstKept
    <3> QED
      BY <1>1, <2>1, <3>1, SettledKept
  <2> QED
    BY <1>2, <2>1
<1>3. ASSUME dstKind' \notin Crm, dstPc' # "done", NEW r \in dstResult'.seen
      PROVE  Settled(r)' \/ r \in InHand'
  <2>1. CASE r \in dstResult.seen
    <3>1. Settled(r) \/ r \in InHand
      BY <1>3, <2>1 DEF DstKept
    <3> QED
      BY <1>1, <1>3, <2>1, <3>1, SettledKept
  <2> QED
    BY <1>3, <2>1
<1>4. \A r \in dstResult'.acked : Settled(r)'
  BY AckedKept
<1> QED
  BY <1>2, <1>3, <1>4 DEF DstKept

(* The jobs of a request and their sizes.                                   *)
LEMMA JobsInHand ==
  ASSUME DstShape, DstCounted, dstPc \in {"request", "poll"}
  PROVE  /\ Job = dstReq[1] /\ Job \in SUBSET DstRecords /\ IsFiniteSet(Job)
         /\ Cardinality(Job) \in Nat /\ Len(dstReq) \in {1, 2} /\ dstReq # <<>>
         /\ Len(dstReq) = 2 => Cardinality(dstReq[2]) \in Nat
         /\ HandCount = Cardinality(Job) +
                          IF Len(dstReq) > 1 THEN Cardinality(dstReq[2]) ELSE 0
<1>1. dstReq \in Seq(SUBSET DstRecords) /\ dstReq # <<>> /\ Len(dstReq) <= 2
      /\ \A n \in DOMAIN dstReq : IsFiniteSet(dstReq[n])
  BY DEF DstShape, DstCounted
<1>2. Len(dstReq) \in {1, 2} /\ DOMAIN dstReq = 1..Len(dstReq) /\ Job = dstReq[1]
  <2>1. PICK jobs, m : jobs = dstReq /\ m = Len(jobs)
    OBVIOUS
  <2>2. m \in Nat /\ m > 0 /\ DOMAIN jobs = 1..m /\ Head(jobs) = jobs[1]
    BY <1>1, <2>1
  <2>3. m <= 2
    BY <1>1, <2>1
  <2>4. m \in {1, 2}
    BY <2>2, <2>3
  <2> QED
    BY <2>1, <2>2, <2>4 DEF Job
<1>3. 1 \in DOMAIN dstReq /\ (Len(dstReq) = 2 => 2 \in DOMAIN dstReq)
  BY <1>2
<1>4. dstReq[1] \in SUBSET DstRecords
  BY <1>1, <1>3
<1>5. IsFiniteSet(dstReq[1]) /\ (Len(dstReq) = 2 => IsFiniteSet(dstReq[2]))
  BY <1>1, <1>3
<1>6. Cardinality(dstReq[1]) \in Nat /\ (Len(dstReq) = 2 => Cardinality(dstReq[2]) \in Nat)
  BY <1>5, FS_CardinalityType
<1> QED
  BY <1>1, <1>2, <1>4, <1>5, <1>6 DEF HandCount

(* The second of two.                                                      *)
LEMMA TailOfTwo ==
  ASSUME NEW S, NEW s \in Seq(S), Len(s) = 2
  PROVE  Len(Tail(s)) = 1 /\ DOMAIN Tail(s) = {1} /\ Tail(s)[1] = s[2]
<1>1. PICK m, t : m = Len(s) /\ t = Tail(s)
  OBVIOUS
<1>2. /\ m = 2 /\ s # <<>> /\ DOMAIN t = 1..(m - 1)
      /\ \A i \in 1..(m - 1) : t[i] = s[i + 1]
  <2>1. m = 2 /\ m \in Nat
    BY <1>1
  <2>2. s # <<>>
    <3>1. s = <<>> => Len(s) = 0
      BY EmptySeq
    <3> QED
      BY <3>1
  <2>3. DOMAIN t = 1..(Len(s) - 1) /\ \A i \in 1..(Len(s) - 1) : t[i] = s[i + 1]
    <3>1. Tail(s) \in Seq(S) /\ Len(Tail(s)) = Len(s) - 1
          /\ \A i \in 1..Len(Tail(s)) : Tail(s)[i] = s[i + 1]
      BY <2>2, HeadTailProperties
    <3>2. DOMAIN t = 1..Len(t)
      BY <1>1, <3>1
    <3> QED
      BY <1>1, <3>1, <3>2
  <2> QED
    BY <1>1, <2>1, <2>2, <2>3
<1>3. 1..(m - 1) = {1} /\ 1 + 1 = 2
  BY <1>2
<1>4. Len(t) = 1
  <2>1. Len(t) = Len(s) - 1
    BY <1>1, <1>2, HeadTailProperties
  <2> QED
    BY <1>1, <1>2, <2>1
<1>5. t[1] = s[2]
  BY <1>2, <1>3
<1> QED
  BY <1>1, <1>2, <1>3, <1>4, <1>5

(* An answer tells of no more records than its job has.                     *)
LEMMA AnsweredCounts ==
  ASSUME DstShape, DstCounted, dstPc \in {"request", "poll"},
         NEW n \in Nat, NEW bad \in SUBSET Job, n + Cardinality(bad) <= Cardinality(Job),
         NEW others \in BOOLEAN, Answered(n, bad, others), dstTaken' = dstTaken
  PROVE  /\ DstCounted' /\ (Short => Short')
         /\ n + Cardinality(bad) < Cardinality(Job) => Short'
<1>1. /\ Job = dstReq[1] /\ IsFiniteSet(Job)
      /\ Cardinality(Job) \in Nat /\ Len(dstReq) \in {1, 2} /\ dstReq # <<>>
      /\ Len(dstReq) = 2 => Cardinality(dstReq[2]) \in Nat
      /\ HandCount = Cardinality(Job) + IF Len(dstReq) > 1 THEN Cardinality(dstReq[2]) ELSE 0
  BY JobsInHand
<1>2. dstTaken \in Nat /\ dstResult.written \in Nat /\ IsFiniteSet(dstResult.failed)
      /\ Told(dstResult) + HandCount <= dstTaken
  BY DEF DstCounted
<1>3. DOMAIN dstResult = ResultFields /\ dstReq \in Seq(SUBSET DstRecords)
  BY DEF DstShape, ResultOK
<1>4. IsFiniteSet(bad)
  BY <1>1, PartIsFew
<1>5. PICK w, F, U : w = dstResult.written /\ F = dstResult.failed /\ U = F \union bad
  OBVIOUS
<1>6. PICK f, b, u, j, s : /\ f = Cardinality(F) /\ b = Cardinality(bad) /\ u = Cardinality(U)
                           /\ j = Cardinality(Job)
                           /\ s = IF Len(dstReq) > 1 THEN Cardinality(dstReq[2]) ELSE 0
  OBVIOUS
<1>7. IsFiniteSet(U) /\ f \in Nat /\ b \in Nat /\ u \in Nat /\ u <= f + b
  BY <1>2, <1>4, <1>5, <1>6, UnionIsFew
<1>8. w \in Nat /\ j \in Nat /\ s \in Nat
  BY <1>1, <1>2, <1>5, <1>6
<1>9. PICK h : h = HandCount
  OBVIOUS
<1>10. h = j + s
  BY <1>1, <1>6, <1>9
<1>11. Told(dstResult) = w + f
  BY <1>5, <1>6 DEF Told
<1>12. (w + f) + (j + s) <= dstTaken
  BY <1>2, <1>9, <1>10, <1>11
<1>13. PICK q : q = dstResult'
  OBVIOUS
<1>14. q = [dstResult EXCEPT !.written = @ + n, !.failed = @ \union bad,
                             !.errors = IF others THEN 1 ELSE @]
  BY <1>13 DEF Answered
<1>15. q.written = w + n /\ q.failed = U
  BY <1>3, <1>5, <1>14 DEF ResultFields
<1>16. Told(q) = (w + n) + u
  BY <1>6, <1>15 DEF Told
<1>17. HandCount' = s /\ (dstPc' \in {"request", "poll"} =>
                           Len(dstReq') <= 2 /\ \A i \in DOMAIN dstReq' : IsFiniteSet(dstReq'[i]))
  <2>1. PICK tail : tail = Tail(dstReq)
    OBVIOUS
  <2>2. dstReq' = tail
    BY <2>1 DEF Answered
  <2>3. CASE Len(dstReq) = 2
    <3>1. dstPc' = "request" /\ DOMAIN dstReq = 1..2
      BY <1>3, <2>3 DEF Answered
    <3>2. Len(tail) = 1 /\ DOMAIN tail = {1} /\ tail[1] = dstReq[2]
      BY <1>1, <1>3, <2>1, <2>3, TailOfTwo
    <3>3. IsFiniteSet(dstReq[2])
      BY <2>3, <3>1 DEF DstCounted
    <3>4. HandCount' = Cardinality(dstReq[2]) + 0
      BY <2>2, <3>1, <3>2 DEF HandCount
    <3>5. s = Cardinality(dstReq[2])
      BY <1>6, <2>3
    <3> QED
      BY <1>8, <2>2, <3>2, <3>3, <3>4, <3>5
  <2>4. CASE Len(dstReq) = 1
    <3>1. dstPc' = "receive" /\ dstBuf' = <<>> /\ s = 0
      BY <1>6, <2>4 DEF Answered
    <3>2. HandCount' = Len(dstBuf')
      BY <3>1 DEF HandCount
    <3>3. Len(<<>>) = 0
      BY EmptySeq
    <3> QED
      BY <3>1, <3>2, <3>3
  <2> QED
    BY <1>1, <2>3, <2>4
<1>18. n + b <= j /\ ((w + n) + u) + s <= (w + f) + (j + s)
       /\ (n + b < j => ((w + n) + u) + s < (w + f) + (j + s))
  <2>1. n + b <= j
    BY <1>6
  <2> QED
    BY <1>7, <1>8, <2>1
<1>19. ((w + n) + u) + s <= dstTaken
       /\ (n + b < j => ((w + n) + u) + s < dstTaken)
       /\ ((w + f) + (j + s) < dstTaken => ((w + n) + u) + s < dstTaken)
  BY <1>2, <1>7, <1>8, <1>12, <1>18
<1>20. Told(dstResult') + HandCount' = ((w + n) + u) + s
  BY <1>13, <1>16, <1>17
<1>21. q.written \in Nat /\ IsFiniteSet(q.failed)
  BY <1>7, <1>8, <1>15
<1>22. DstCounted'
  BY <1>2, <1>13, <1>17, <1>19, <1>20, <1>21 DEF DstCounted
<1>23. (Short => Short') /\ (n + b < j => Short')
  BY <1>9, <1>10, <1>11, <1>19, <1>20 DEF Short
<1> QED
  BY <1>6, <1>22, <1>23

(* A request under way is answered: its records are stored, in error,       *)
(* miscounted or not counted, and the other jobs are still in hand.         *)
LEMMA AnsweredKept ==
  ASSUME DestinationsIInv, dstPc \in {"request", "poll"},
         NEW n \in Nat, NEW bad \in SUBSET Job, n + Cardinality(bad) <= Cardinality(Job),
         NEW others \in BOOLEAN, Answered(n, bad, others),
         NEW S, dstCopies' = Add(dstCopies, S),
         NEW gone \in SUBSET DstRecords, dstMiscounted' = dstMiscounted \union gone,
         \A r \in Job : \/ r \in S \/ r \in bad \/ r \in gone \/ others
                       \/ n + Cardinality(bad) < Cardinality(Job),
         UNCHANGED <<dstKind, dstIn, dstTaken, dstObjects, dstFile, dstSecond>>
  PROVE  DestinationsIInv'
<1>1. /\ dstReq \in Seq(SUBSET DstRecords) /\ dstReq # <<>> /\ ResultOK(dstResult)
      /\ dstCopies \in [DstRecords -> Nat]
  BY DEF DestinationsIInv, DstShape
<1>2. /\ DstShape /\ DstKept /\ dstKind \in Crm /\ DstCounted' /\ (Short => Short')
      /\ n + Cardinality(bad) < Cardinality(Job) => Short'
      /\ Job \in SUBSET DstRecords /\ bad \subseteq DstRecords
  <2>1. DstShape /\ DstCounted /\ DstKept /\ dstKind \in Crm
    BY DEF DestinationsIInv, DstShape
  <2>2. dstTaken' = dstTaken
    OBVIOUS
  <2>3. Job \in SUBSET DstRecords
    BY <2>1, JobsInHand
  <2> QED
    BY <2>1, <2>2, <2>3, AnsweredCounts
<1>3. dstResult' = [dstResult EXCEPT !.written = @ + n, !.failed = @ \union bad,
                                     !.errors = IF others THEN 1 ELSE @]
  BY DEF Answered
<1>4. PICK res : res = dstResult
  OBVIOUS
<1>5. PICK q : q = [res EXCEPT !.written = @ + n, !.failed = @ \union bad,
                               !.errors = IF others THEN 1 ELSE @]
  OBVIOUS
<1>6. dstResult' = q
  BY <1>3, <1>4, <1>5
<1>7. ResultAfter(q, res, bad) /\ (others => q.errors = 1)
  <2>1. /\ DOMAIN res = ResultFields /\ res.errors \in {0, 1}
        /\ res.failed \subseteq DstRecords /\ res.acked \subseteq DstRecords
        /\ res.seen \subseteq DstRecords
    BY <1>1, <1>4 DEF ResultOK
  <2> QED
    BY <2>1, <1>2, <1>5 DEF ResultAfter, ResultOK, ResultFields
<1>8. ResultAfter(dstResult', dstResult, bad) /\ (others => dstResult'.errors = 1)
  BY <1>4, <1>6, <1>7
<1>9. /\ dstCopies' \in [DstRecords -> Nat]
      /\ \A r \in DstRecords : (dstCopies[r] > 0 \/ r \in S) => dstCopies'[r] > 0
  BY <1>1, AddIs
<1>10. dstMiscounted \subseteq dstMiscounted' /\ dstMiscounted' \subseteq DstRecords
       /\ gone \subseteq dstMiscounted'
  BY DEF DestinationsIInv, DstShape
<1>11. dstResult.failed \subseteq dstResult'.failed /\ bad \subseteq dstResult'.failed
       /\ (dstResult.errors > 0 => dstResult'.errors > 0)
  BY <1>8 DEF ResultAfter
<1>12. DstGrows
  BY <1>9, <1>10, <1>11 DEF DstGrows
<1>13. PICK m : m = Len(dstReq)
  OBVIOUS
<1>14. PICK tail : tail = Tail(dstReq)
  OBVIOUS
<1>15. /\ m \in Nat /\ m > 0 /\ DOMAIN dstReq = 1..m
       /\ tail \in Seq(SUBSET DstRecords) /\ DOMAIN tail = 1..(m - 1)
       /\ \A i \in 1..(m - 1) : tail[i] = dstReq[i + 1]
  BY <1>1, <1>13, <1>14
<1>16. Job = dstReq[1] /\ Job \subseteq DstRecords
  BY <1>1, <1>15 DEF Job
<1>17. dstReq' = tail /\ dstPc' = IF m > 1 THEN "request" ELSE "receive"
  BY <1>13, <1>14 DEF Answered
<1>18. dstBuf' = IF m > 1 THEN dstBuf ELSE <<>>
  BY <1>13 DEF Answered
<1>19. ASSUME NEW r \in Job
       PROVE  Settled(r)' \/ Short'
  <2>0. CASE n + Cardinality(bad) < Cardinality(Job)
    BY <1>2, <2>0
  <2>1. CASE others
    BY <1>8, <2>1 DEF Settled
  <2>2. CASE r \in bad
    BY <1>11, <2>2 DEF Settled
  <2>3. CASE r \in S
    BY <1>9, <1>16, <2>3 DEF Settled
  <2>4. CASE r \in gone
    BY <1>10, <2>4 DEF Settled
  <2> QED
    BY <2>0, <2>1, <2>2, <2>3, <2>4
<1>20. ASSUME NEW r \in InHand
       PROVE  r \in InHand' \/ Settled(r)' \/ Short'
  <2>1. PICK i \in DOMAIN dstReq : r \in dstReq[i]
    BY DEF InHand
  <2>2. CASE i = 1
    BY <1>16, <1>19, <2>1, <2>2
  <2>3. CASE i # 1
    <3>1. PICK j : j = i - 1
      OBVIOUS
    <3>2. j \in 1..(m - 1) /\ i = j + 1 /\ m > 1
      BY <1>15, <2>3, <3>1
    <3>3. j \in DOMAIN tail /\ r \in tail[j]
      BY <1>15, <2>1, <3>2
    <3>4. dstPc' = "request" /\ dstReq' = tail
      BY <1>17, <3>2
    <3> QED
      BY <3>3, <3>4 DEF InHand
  <2> QED
    BY <2>2, <2>3
<1>21. DstShape'
  <2>1. dstBuf' \in Seq(DstRecords)
    <3>1. dstBuf \in Seq(DstRecords)
      BY DEF DestinationsIInv, DstShape
    <3> QED
      BY <1>18, <3>1
  <2>2. dstReq' \in Seq(SUBSET DstRecords) /\ (m > 1 => dstReq' # <<>>)
    BY <1>15, <1>17
  <2>3. dstPc' \in {"receive", "request"} /\ (dstPc' = "request" => m > 1)
    BY <1>17
  <2>4. ResultOK(dstResult')
    BY <1>8 DEF ResultAfter
  <2>5. /\ dstIn' \in Seq(DstMessages) /\ dstFile' \in Nat /\ dstSecond' \in Nat
        /\ DOMAIN dstObjects' \subseteq Nat \X Nat
    BY DEF DestinationsIInv, DstShape
  <2> QED
    BY <1>2, <1>9, <1>10, <2>1, <2>2, <2>3, <2>4, <2>5 DEF DstShape
<1>22. dstResult'.seen = dstResult.seen /\ dstResult'.acked = dstResult.acked
  BY <1>8 DEF ResultAfter
<1>23. DstKept'
  <2>1. dstResult'.seen \subseteq DstRecords /\ dstResult'.acked \subseteq DstRecords
    BY <1>1, <1>22 DEF ResultOK
  <2> QED
    BY <1>2, <1>12, <1>20, <1>22, <2>1, KeptBy
<1> QED
  BY <1>2, <1>21, <1>23 DEF DestinationsIInv

(* Sums on both sides of a step.                                            *)
LEMMA NoMoreThan ==
  ASSUME NEW t \in Nat, NEW h \in Nat, NEW u \in Nat, NEW g \in Nat, NEW before \in Nat,
         NEW after \in Nat, t + h <= before, (u + g) + before <= (t + h) + after
  PROVE  /\ u + g <= after /\ (t + h < before => u + g < after)
         /\ (u + g) + before < (t + h) + after => u + g < after
  OBVIOUS

(* A step that tells of no more, and holds no more, than it takes.          *)
LEMMA CountsKept ==
  ASSUME DstCounted, NEW t \in Nat, t = Told(dstResult), NEW h \in Nat, h = HandCount,
         NEW u \in Nat, u = Told(dstResult'), NEW g \in Nat, g = HandCount',
         NEW before \in Nat, before = dstTaken, NEW after \in Nat, after = dstTaken',
         (u + g) + before <= (t + h) + after,
         dstResult'.written \in Nat, IsFiniteSet(dstResult'.failed),
         dstPc' \in {"request", "poll"} =>
            Len(dstReq') <= 2 /\ \A n \in DOMAIN dstReq' : IsFiniteSet(dstReq'[n])
  PROVE  /\ DstCounted' /\ (Short => Short')
         /\ (u + g) + before < (t + h) + after => Short'
<1>1. t + h <= before
  BY DEF DstCounted
<1>2. u + g <= after /\ (t + h < before => u + g < after)
      /\ ((u + g) + before < (t + h) + after => u + g < after)
  BY <1>1, NoMoreThan
<1>3. DstCounted'
  BY <1>2 DEF DstCounted
<1> QED
  BY <1>2, <1>3 DEF Short

(* What is counted while Write receives.                                    *)
LEMMA CountedReceiving ==
  ASSUME DstShape, DstCounted, dstPc = "receive"
  PROVE  /\ HandCount = Len(dstBuf) /\ Len(dstBuf) \in Nat /\ Told(dstResult) \in Nat
         /\ dstTaken \in Nat /\ dstResult.written \in Nat /\ IsFiniteSet(dstResult.failed)
<1>1. dstResult.written \in Nat /\ IsFiniteSet(dstResult.failed) /\ dstTaken \in Nat
  BY DEF DstCounted
<1>2. Cardinality(dstResult.failed) \in Nat
  BY <1>1, FS_CardinalityType
<1>3. Len(dstBuf) \in Nat
  BY DEF DstShape
<1> QED
  BY <1>1, <1>2, <1>3 DEF HandCount, Told

(* The loop of the business applications counts what it takes.              *)
LEMMA BufferedCounts ==
  ASSUME DstShape, DstCounted, dstPc = "receive", BufferedWrite
  PROVE  DstCounted' /\ (Short => Short')
<1>1. /\ dstIn \in Seq(DstMessages) /\ dstBuf \in Seq(DstRecords) /\ DOMAIN dstResult = ResultFields
  BY DEF DstShape, ResultOK
<1>2. PICK t, h : t = Told(dstResult) /\ h = Len(dstBuf)
  OBVIOUS
<1>3. /\ HandCount = h /\ h \in Nat /\ t \in Nat /\ dstTaken \in Nat
      /\ dstResult.written \in Nat /\ IsFiniteSet(dstResult.failed)
  BY <1>2, CountedReceiving
\* What is left to show of each case.
<1>4. ASSUME dstBuf' \in Seq(DstRecords), dstTaken' \in Nat,
             NEW l \in Nat, l = Len(dstBuf'), l + dstTaken <= h + dstTaken',
             dstResult'.written = dstResult.written, dstResult'.failed = dstResult.failed,
             \/ dstPc' = "request" /\ dstReq' = Jobs(dstBuf')
             \/ dstPc' = "receive" \/ dstPc' = "done"
      PROVE  DstCounted' /\ (Short => Short')
  <2>1. Told(dstResult') = t
    BY <1>2, <1>4 DEF Told
  <2>2. /\ HandCount' \in Nat /\ HandCount' <= l
        /\ dstPc' \in {"request", "poll"} =>
              Len(dstReq') <= 2 /\ \A n \in DOMAIN dstReq' : IsFiniteSet(dstReq'[n])
    <3>1. CASE dstPc' = "request" /\ dstReq' = Jobs(dstBuf')
      <4>1. PICK b, jobs : b = dstBuf' /\ jobs = Jobs(b)
        OBVIOUS
      <4>2. /\ Len(jobs) \in Nat /\ Len(jobs) <= 2 /\ \A n \in DOMAIN jobs : IsFiniteSet(jobs[n])
            /\ Cardinality(jobs[1]) \in Nat /\ (Len(jobs) > 1 => Cardinality(jobs[2]) \in Nat)
            /\ Cardinality(jobs[1]) + (IF Len(jobs) > 1 THEN Cardinality(jobs[2]) ELSE 0) <= Len(b)
        BY <1>4, <4>1, JobsCount
      <4>3. dstReq' = jobs
        BY <3>1, <4>1
      <4>4. HandCount' = Cardinality(jobs[1]) + IF Len(jobs) > 1 THEN Cardinality(jobs[2]) ELSE 0
        BY <3>1, <4>3 DEF HandCount
      <4>5. HandCount' \in Nat
        BY <4>2, <4>4
      <4> QED
        BY <1>4, <4>1, <4>2, <4>3, <4>4, <4>5
    <3>2. CASE dstPc' = "receive"
      <4>1. HandCount' = l
        BY <1>4, <3>2 DEF HandCount
      <4> QED
        BY <1>4, <3>2, <4>1
    <3>3. CASE dstPc' = "done"
      <4>1. HandCount' = 0
        BY <3>3 DEF HandCount
      <4> QED
        BY <1>4, <3>3, <4>1
    <3> QED
      BY <1>4, <3>1, <3>2, <3>3
  <2>3. PICK g : g = HandCount'
    OBVIOUS
  <2>4. PICK before, after : before = dstTaken /\ after = dstTaken'
    OBVIOUS
  <2>6. before \in Nat /\ after \in Nat /\ g \in Nat /\ g <= l /\ l + before <= h + after
    BY <1>3, <1>4, <2>2, <2>3, <2>4
  <2>7. (t + g) + before <= (t + h) + after
    BY <1>3, <1>4, <2>6
  <2>5. dstResult'.written \in Nat /\ IsFiniteSet(dstResult'.failed)
    BY <1>3, <1>4
  <2> QED
    BY <1>2, <1>3, <2>1, <2>2, <2>3, <2>4, <2>5, <2>6, <2>7, CountsKept
<1>5. CASE dstIn # <<>>
  <2>1. PICK m : m = Head(dstIn)
    OBVIOUS
  <2>2. m \in DstMessages
    BY <1>1, <1>5, <2>1
  <2>3. IF m = StateMessage THEN UNCHANGED <<dstBuf, dstResult>> ELSE Buffer(m)
    BY <1>5, <2>1 DEF BufferedWrite
  <2>4. \/ dstPc' = "request" /\ dstReq' = Jobs(dstBuf')
        \/ dstPc' = "receive" \/ dstPc' = "done"
    BY <1>5 DEF BufferedWrite
  <2>5. dstTaken' = IF m = StateMessage THEN dstTaken ELSE dstTaken + 1
    BY <1>5, <2>1 DEF BufferedWrite, Counted
  <2>6. dstTaken' \in Nat /\ dstTaken <= dstTaken' /\ h + dstTaken <= h + dstTaken'
    BY <1>3, <2>5
  <2>7. CASE m = StateMessage
    <3>1. dstBuf' = dstBuf /\ dstResult' = dstResult
      BY <2>3, <2>7
    <3> QED
      BY <1>1, <1>2, <1>3, <1>4, <2>4, <2>6, <3>1
  <2>8. CASE m # StateMessage /\ m = BadRecord
    <3>1. dstBuf' = dstBuf /\ dstResult' = [dstResult EXCEPT !.errors = 1]
      BY <2>3, <2>8 DEF Buffer
    <3>2. dstResult'.written = dstResult.written /\ dstResult'.failed = dstResult.failed
      BY <1>1, <3>1 DEF ResultFields
    <3> QED
      BY <1>1, <1>2, <1>3, <1>4, <2>4, <2>6, <3>1, <3>2
  <2>9. CASE m # StateMessage /\ m # BadRecord
    <3>1. dstBuf' = Append(dstBuf, m)
          /\ dstResult' = [dstResult EXCEPT !.seen = @ \union {m}]
      BY <2>3, <2>9 DEF Buffer
    <3>2. m \in DstRecords
      BY <2>2, <2>9, MessagesAre
    <3>3. dstResult'.written = dstResult.written /\ dstResult'.failed = dstResult.failed
      BY <1>1, <3>1 DEF ResultFields
    <3>4. PICK l : l = h + 1
      OBVIOUS
    <3>5. dstBuf' \in Seq(DstRecords) /\ l = Len(dstBuf')
      BY <1>1, <1>2, <3>1, <3>2, <3>4
    <3>6. l \in Nat /\ l + dstTaken <= h + dstTaken'
      BY <1>3, <2>5, <2>9, <3>4
    <3> QED
      BY <1>4, <2>4, <2>6, <3>3, <3>5, <3>6
  <2> QED
    BY <2>7, <2>8, <2>9
<1>6. CASE dstIn = <<>>
  <2>1. UNCHANGED <<dstTaken, dstBuf, dstResult>>
    BY <1>6 DEF BufferedWrite
  <2>2. \/ dstPc' = "request" /\ dstReq' = Jobs(dstBuf')
        \/ dstPc' = "receive" \/ dstPc' = "done"
    BY <1>6, <2>1 DEF BufferedWrite
  <2>3. h + dstTaken <= h + dstTaken' /\ dstTaken' \in Nat
    BY <1>3, <2>1
  <2> QED
    BY <1>1, <1>2, <1>3, <1>4, <2>1, <2>2, <2>3
<1> QED
  BY <1>5, <1>6

(* What a flush leaves of the count: a result of what was in the buffer.    *)
LEMMA FlushedCounts ==
  ASSUME DstShape, DstCounted, dstPc = "receive", dstPc' \in {"receive", "done"},
         NEW buf \in Seq(DstRecords), NEW res, ResultOK(res),
         res.written = dstResult.written, res.failed = dstResult.failed,
         \/ Flush(buf, res)
         \/ dstBuf' = buf /\ dstResult' = res,
         dstTaken' \in Nat, Len(buf) + dstTaken <= Len(dstBuf) + dstTaken'
  PROVE  /\ DstCounted' /\ (Short => Short')
         /\ Len(buf) + dstTaken < Len(dstBuf) + dstTaken' => Short'
<1>1. PICK t, h, l : t = Told(dstResult) /\ h = Len(dstBuf) /\ l = Len(buf)
  OBVIOUS
<1>2. /\ HandCount = h /\ h \in Nat /\ t \in Nat /\ dstTaken \in Nat
      /\ dstResult.written \in Nat /\ IsFiniteSet(dstResult.failed)
  BY <1>1, CountedReceiving
<1>3. Told(res) = t /\ res.written \in Nat /\ IsFiniteSet(res.failed) /\ l \in Nat
  BY <1>1, <1>2 DEF Told
<1>4. PICK u, g, k : u = Told(dstResult') /\ g = HandCount' /\ k = Len(dstBuf')
  OBVIOUS
<1>5. /\ dstResult'.written \in Nat /\ IsFiniteSet(dstResult'.failed)
      /\ u \in Nat /\ k \in Nat /\ u + k <= t + l
  <2>1. CASE Flush(buf, res)
    <3>1. /\ Counts(dstResult', res, Len(buf)) /\ Len(dstBuf') \in Nat
          /\ Told(dstResult') + Len(dstBuf') <= Told(res) + Len(buf)
      BY <1>3, <2>1, FlushCounts
    <3> QED
      BY <1>1, <1>3, <1>4, <3>1 DEF Counts
  <2>2. CASE dstBuf' = buf /\ dstResult' = res
    BY <1>1, <1>2, <1>3, <1>4, <2>2
  <2> QED
    BY <2>1, <2>2
<1>6. g \in Nat /\ g <= k
  <2>1. CASE dstPc' = "receive"
    <3>1. HandCount' = Len(dstBuf')
      BY <2>1 DEF HandCount
    <3> QED
      BY <1>4, <1>5, <3>1
  <2>2. CASE dstPc' = "done"
    <3>1. HandCount' = 0
      BY <2>2 DEF HandCount
    <3> QED
      BY <1>4, <1>5, <3>1
  <2> QED
    BY <2>1, <2>2
<1>7. PICK before, after : before = dstTaken /\ after = dstTaken'
  OBVIOUS
<1>8. before \in Nat /\ after \in Nat /\ l + before <= h + after
  BY <1>1, <1>2, <1>7
<1>9. u + g <= t + l
  BY <1>2, <1>3, <1>5, <1>6
<1>10. (u + g) + before <= (t + h) + after
       /\ (l + before < h + after => (u + g) + before < (t + h) + after)
  BY <1>2, <1>3, <1>5, <1>6, <1>8, <1>9
<1>11. dstPc' \notin {"request", "poll"}
  OBVIOUS
<1>12. /\ DstCounted' /\ (Short => Short')
       /\ (u + g) + before < (t + h) + after => Short'
  BY <1>1, <1>2, <1>4, <1>5, <1>6, <1>7, <1>8, <1>10, <1>11, CountsKept
<1> QED
  BY <1>1, <1>7, <1>10, <1>12

(* The loop of the business applications receives, or sends the buffer.     *)
LEMMA BufferedWriteKept ==
  ASSUME DestinationsIInv, dstPc = "receive", dstKind \in Crm, BufferedWrite
  PROVE  DestinationsIInv'
<1>1. /\ dstIn \in Seq(DstMessages) /\ dstBuf \in Seq(DstRecords)
      /\ dstReq \in Seq(SUBSET DstRecords) /\ ResultOK(dstResult)
      /\ dstFile \in Nat /\ dstSecond \in Nat /\ DOMAIN dstObjects \subseteq Nat \X Nat
      /\ dstCopies \in [DstRecords -> Nat] /\ dstMiscounted \subseteq DstRecords
  BY DEF DestinationsIInv, DstShape
<1>2. UNCHANGED <<dstKind, dstCopies, dstMiscounted, dstObjects, dstFile, dstSecond>>
  BY DEF BufferedWrite
<1>0. DstShape /\ DstKept /\ DstCounted' /\ (Short => Short')
  BY BufferedCounts DEF DestinationsIInv
<1>3. InHand = ToSet(dstBuf)
  BY DEF InHand
<1>4. /\ dstResult.failed \subseteq DstRecords /\ dstResult.acked \subseteq DstRecords
      /\ dstResult.seen \subseteq DstRecords /\ dstResult.errors \in {0, 1}
      /\ DOMAIN dstResult = ResultFields
  BY <1>1 DEF ResultOK
\* What is left to show of each case.
<1>5. ASSUME dstIn' \in Seq(DstMessages), dstBuf' \in Seq(DstRecords),
             ToSet(dstBuf) \subseteq ToSet(dstBuf'), ResultOK(dstResult'),
             dstResult'.failed = dstResult.failed, dstResult'.acked = dstResult.acked,
             dstResult.errors > 0 => dstResult'.errors > 0,
             dstResult'.seen \subseteq dstResult.seen \union ToSet(dstBuf'),
             \/ dstPc' = "request" /\ dstReq' = Jobs(dstBuf')
             \/ dstPc' = "receive" /\ dstReq' = dstReq
             \/ dstPc' = "done" /\ dstReq' = dstReq /\ dstBuf' = <<>>
      PROVE  DestinationsIInv'
  <2>1. PICK b : b = dstBuf'
    OBVIOUS
  <2>2. PICK jobs : jobs = Jobs(b)
    OBVIOUS
  <2>3. /\ jobs \in Seq(SUBSET DstRecords) /\ jobs # <<>>
        /\ UNION {jobs[n] : n \in DOMAIN jobs} = ToSet(b)
    BY <1>5, <2>1, <2>2, JobsOf
  <2>4. \/ dstPc' = "request" /\ dstReq' = jobs
        \/ dstPc' = "receive" /\ dstReq' = dstReq
        \/ dstPc' = "done" /\ dstReq' = dstReq /\ dstBuf' = <<>>
    BY <1>5, <2>1, <2>2
  <2>5. InHand' = ToSet(dstBuf')
    <3>1. CASE dstPc' = "request" /\ dstReq' = jobs
      BY <2>1, <2>3, <3>1 DEF InHand
    <3>2. CASE dstPc' = "receive"
      BY <3>2 DEF InHand
    <3>3. CASE dstPc' = "done" /\ dstBuf' = <<>>
      <4>1. ToSet(dstBuf') = {}
        BY <3>3 DEF ToSet
      <4> QED
        BY <3>3, <4>1 DEF InHand
    <3> QED
      BY <2>4, <3>1, <3>2, <3>3
  <2>6. dstReq' \in Seq(SUBSET DstRecords) /\ (dstPc' \in {"request", "poll"} => dstReq' # <<>>)
        /\ dstPc' \in {"idle", "receive", "request", "poll", "done"}
    BY <1>1, <2>3, <2>4
  <2>7. DstShape'
    BY <1>1, <1>2, <1>5, <2>6 DEF DstShape
  <2>8. DstGrows
    BY <1>2, <1>5 DEF DstGrows
  <2>9. dstResult'.seen \subseteq DstRecords /\ dstResult'.acked \subseteq DstRecords
    BY <1>5 DEF ResultOK
  <2>10. DstKept'
    BY <1>0, <1>2, <1>3, <1>5, <2>5, <2>8, <2>9, KeptBy
  <2> QED
    BY <1>0, <2>7, <2>10 DEF DestinationsIInv
<1>6. CASE dstIn # <<>>
  <2>1. PICK m : m = Head(dstIn)
    OBVIOUS
  <2>2. m \in DstMessages /\ dstIn' \in Seq(DstMessages)
    <3>1. dstIn' = Tail(dstIn)
      BY <1>6 DEF BufferedWrite
    <3> QED
      BY <1>1, <1>6, <2>1, <3>1
  <2>3. IF m = StateMessage THEN UNCHANGED <<dstBuf, dstResult>> ELSE Buffer(m)
    BY <1>6, <2>1 DEF BufferedWrite
  <2>4. \/ dstPc' = "request" /\ dstReq' = Jobs(dstBuf')
        \/ dstPc' = "receive" /\ dstReq' = dstReq
    BY <1>6 DEF BufferedWrite
  <2>5. CASE m = StateMessage
    <3>1. dstBuf' = dstBuf /\ dstResult' = dstResult
      BY <2>3, <2>5
    <3> QED
      BY <1>1, <1>5, <2>2, <2>4, <3>1
  <2>6. CASE m # StateMessage /\ m = BadRecord
    <3>1. dstBuf' = dstBuf /\ dstResult' = [dstResult EXCEPT !.errors = 1]
      BY <2>3, <2>6 DEF Buffer
    <3>2. ResultOK(dstResult') /\ dstResult'.failed = dstResult.failed
          /\ dstResult'.acked = dstResult.acked /\ dstResult'.seen = dstResult.seen
          /\ dstResult'.errors = 1
      BY <1>4, <3>1 DEF ResultOK, ResultFields
    <3> QED
      BY <1>1, <1>5, <2>2, <2>4, <3>1, <3>2
  <2>7. CASE m # StateMessage /\ m # BadRecord
    <3>1. dstBuf' = Append(dstBuf, m)
          /\ dstResult' = [dstResult EXCEPT !.seen = @ \union {m}]
      BY <2>3, <2>7 DEF Buffer
    <3>2. m \in DstRecords
      BY <2>2, <2>7, MessagesAre
    <3>3. dstBuf' \in Seq(DstRecords) /\ ToSet(dstBuf') = ToSet(dstBuf) \union {m}
      BY <1>1, <3>1, <3>2, MembersOf
    <3>4. ResultOK(dstResult') /\ dstResult'.failed = dstResult.failed
          /\ dstResult'.acked = dstResult.acked /\ dstResult'.seen = dstResult.seen \union {m}
          /\ dstResult'.errors = dstResult.errors
      BY <1>4, <3>1, <3>2 DEF ResultOK, ResultFields
    <3>5. ToSet(dstBuf) \subseteq ToSet(dstBuf')
          /\ dstResult'.seen \subseteq dstResult.seen \union ToSet(dstBuf')
      BY <3>3, <3>4
    <3> QED
      BY <1>5, <2>2, <2>4, <3>3, <3>4, <3>5
  <2> QED
    BY <2>5, <2>6, <2>7
<1>7. CASE dstIn = <<>>
  <2>1. UNCHANGED <<dstIn, dstBuf, dstResult>>
    BY <1>7 DEF BufferedWrite
  <2>2. \/ dstPc' = "request" /\ dstReq' = Jobs(dstBuf)
        \/ dstPc' = "done" /\ dstReq' = dstReq /\ dstBuf = <<>>
    BY <1>7 DEF BufferedWrite
  <2>3. \/ dstPc' = "request" /\ dstReq' = Jobs(dstBuf')
        \/ dstPc' = "receive" /\ dstReq' = dstReq
        \/ dstPc' = "done" /\ dstReq' = dstReq /\ dstBuf' = <<>>
    BY <2>1, <2>2
  <2>4. dstIn' \in Seq(DstMessages) /\ dstBuf' \in Seq(DstRecords) /\ ResultOK(dstResult')
    BY <1>1, <2>1
  <2> QED
    BY <1>5, <2>1, <2>3, <2>4
<1> QED
  BY <1>6, <1>7

(* The loop of the warehouses and of the object store.                      *)
LEMMA FlushingWriteKept ==
  ASSUME DestinationsIInv, dstPc = "receive", dstKind \notin Crm, FlushingWrite
  PROVE  DestinationsIInv'
<1>1. /\ dstIn \in Seq(DstMessages) /\ dstBuf \in Seq(DstRecords)
      /\ dstReq \in Seq(SUBSET DstRecords) /\ ResultOK(dstResult)
      /\ dstFile \in Nat /\ dstSecond \in Nat /\ DOMAIN dstObjects \subseteq Nat \X Nat
      /\ dstCopies \in [DstRecords -> Nat] /\ dstMiscounted \subseteq DstRecords
  BY DEF DestinationsIInv, DstShape
<1>2. dstKind' = dstKind /\ dstReq' = dstReq /\ dstSecond' = dstSecond
  BY DEF FlushingWrite
<1>3. InHand = ToSet(dstBuf)
  BY DEF InHand
<1>4. /\ dstResult.failed \subseteq DstRecords /\ dstResult.acked \subseteq DstRecords
      /\ dstResult.seen \subseteq DstRecords /\ dstResult.errors \in {0, 1}
      /\ DOMAIN dstResult = ResultFields
  BY <1>1 DEF ResultOK
<1>5. DstShape /\ DstCounted /\ DstKept
  BY DEF DestinationsIInv
<1>14. /\ \A r \in dstResult.seen : Settled(r) \/ r \in ToSet(dstBuf)
       /\ \A r \in dstResult.acked : Settled(r)
  BY <1>3, <1>5 DEF DstKept
\* A step with a flush, and one without; the message it drops, if any, shows in the count.
<1>6. ASSUME NEW buf \in Seq(DstRecords), NEW res, ResultOK(res), ToSet(dstBuf) \subseteq ToSet(buf),
             res.failed = dstResult.failed, dstResult.errors > 0 => res.errors > 0,
             \A r \in res.seen : r \in dstResult.seen \/ r \in ToSet(buf) \/ Short',
             dstPc' # "done" => res.seen \subseteq dstResult.seen \union ToSet(buf),
             \A r \in res.acked : r \in dstResult.acked \/ r \in dstResult.seen,
             Flush(buf, res), dstIn' \in Seq(DstMessages), dstPc' \in {"receive", "done"},
             DstCounted'
      PROVE  DestinationsIInv'
  <2>1. Flushed(buf, res)
    <3>1. dstResult.failed \subseteq res.failed
      BY <1>6
    <3> QED
      BY <1>5, <1>6, <3>1, FlushKept
  <2>2. DstShape'
    BY <1>1, <1>2, <1>6, <2>1 DEF DstShape, Flushed
  <2>3. DstGrows /\ dstResult'.seen = res.seen /\ dstResult'.acked = res.acked
        /\ \A r \in ToSet(buf) : Settled(r)'
    BY <2>1 DEF Flushed
  <2>4. ASSUME NEW r \in dstResult.seen
        PROVE  Settled(r)'
    BY <1>4, <1>5, <1>6, <1>14, <2>3, SettledKept
  <2>5. ASSUME NEW r \in dstResult.acked
        PROVE  Settled(r)'
    BY <1>4, <1>5, <1>14, <2>3, SettledKept
  <2>6. DstKept'
    BY <1>6, <2>3, <2>4, <2>5 DEF DstKept
  <2> QED
    BY <1>6, <2>2, <2>6 DEF DestinationsIInv
<1>7. ASSUME dstBuf' \in Seq(DstRecords), ResultOK(dstResult'), ToSet(dstBuf) \subseteq ToSet(dstBuf'),
             dstResult'.failed = dstResult.failed, dstResult.errors > 0 => dstResult'.errors > 0,
             \A r \in dstResult'.seen : r \in dstResult.seen \/ r \in ToSet(dstBuf') \/ Short',
             dstPc' # "done" => dstResult'.seen \subseteq dstResult.seen \union ToSet(dstBuf'),
             \/ dstResult'.acked = dstResult.acked
             \/ dstBuf = <<>> /\ dstResult'.acked = dstResult.seen,
             UNCHANGED <<dstCopies, dstMiscounted, dstObjects, dstFile>>,
             dstIn' \in Seq(DstMessages),
             dstPc' = "receive" \/ (dstPc' = "done" /\ dstBuf' = <<>>), DstCounted'
      PROVE  DestinationsIInv'
  <2>1. DstShape'
    BY <1>1, <1>2, <1>7 DEF DstShape
  <2>2. DstGrows
    BY <1>7 DEF DstGrows
  <2>3. InHand' = ToSet(dstBuf')
    <3>1. CASE dstPc' = "receive"
      BY <3>1 DEF InHand
    <3>2. CASE dstPc' = "done" /\ dstBuf' = <<>>
      <4>1. ToSet(dstBuf') = {}
        BY <3>2 DEF ToSet
      <4> QED
        BY <3>2, <4>1 DEF InHand
    <3> QED
      BY <1>7, <3>1, <3>2
  <2>4. ASSUME NEW r \in dstResult.seen
        PROVE  Settled(r)' \/ r \in InHand'
    BY <1>4, <1>5, <1>7, <1>14, <2>2, <2>3, SettledKept
  <2>5. ASSUME NEW r \in dstResult'.acked
        PROVE  Settled(r)'
    <3>1. CASE dstBuf = <<>> /\ dstResult'.acked = dstResult.seen
      <4>1. ToSet(dstBuf) = {}
        BY <3>1 DEF ToSet
      <4>2. Settled(r) /\ r \in DstRecords
        BY <1>4, <1>14, <2>5, <3>1, <4>1
      <4> QED
        BY <2>2, <4>2, SettledKept
    <3>2. CASE dstResult'.acked = dstResult.acked
      BY <1>4, <1>14, <2>2, <2>5, <3>2, SettledKept
    <3> QED
      BY <1>7, <3>1, <3>2
  <2>6. ASSUME NEW r \in dstResult'.seen
        PROVE  Settled(r)' \/ r \in InHand' \/ Short'
    BY <1>7, <2>3, <2>4, <2>6
  <2>7. ASSUME dstPc' # "done", NEW r \in dstResult'.seen
        PROVE  Settled(r)' \/ r \in InHand'
    BY <1>7, <2>3, <2>4, <2>7
  <2>8. DstKept'
    BY <2>5, <2>6, <2>7 DEF DstKept
  <2> QED
    BY <1>7, <2>1, <2>8 DEF DestinationsIInv
<1>8. CASE dstIn # <<>>
  <2>1. PICK m : m = Head(dstIn)
    OBVIOUS
  <2>2. PICK buf : buf = IF m > 0 THEN Append(dstBuf, m) ELSE dstBuf
    OBVIOUS
  <2>3. PICK res : res = [dstResult EXCEPT
                            !.errors = IF m = BadRecord THEN 1 ELSE @,
                            !.seen = SeenWith(m),
                            !.acked = IF m = StateMessage THEN dstResult.seen ELSE @]
    OBVIOUS
  <2>4. /\ dstIn' = Tail(dstIn) /\ dstTaken' = Counted(m)
        /\ IF dstCancelled
             THEN dstPc' = "done" /\ FinalFlush([dstResult EXCEPT !.seen = SeenWith(m)])
             ELSE /\ dstPc' = dstPc
                  /\ IF (m > 0 /\ Full(buf)) \/ (m = StateMessage /\ buf # <<>>)
                       THEN Flush(buf, res)
                       ELSE /\ dstBuf' = buf /\ dstResult' = res
                            /\ UNCHANGED <<dstCopies, dstMiscounted, dstObjects, dstFile>>
    BY <1>8, <2>1, <2>2, <2>3 DEF FlushingWrite
  <2>5. m \in DstMessages /\ dstIn' \in Seq(DstMessages)
    BY <1>1, <1>8, <2>1, <2>4
  <2>6. m \in Int /\ (m > 0 <=> m \in DstRecords)
    BY <2>5, MessagesAre
  <2>7. buf \in Seq(DstRecords) /\ ToSet(buf) = ToSet(dstBuf) \union (IF m > 0 THEN {m} ELSE {})
    <3>1. CASE m > 0
      BY <1>1, <2>2, <2>6, <3>1, MembersOf
    <3>2. CASE ~(m > 0)
      BY <1>1, <2>2, <3>2
    <3> QED
      BY <3>1, <3>2
  <2>8. /\ DOMAIN res = ResultFields /\ res.failed = dstResult.failed
        /\ res.errors = IF m = BadRecord THEN 1 ELSE dstResult.errors
        /\ res.seen = IF m > 0 THEN dstResult.seen \union {m} ELSE dstResult.seen
        /\ res.acked = IF m = StateMessage THEN dstResult.seen ELSE dstResult.acked
        /\ res.written = dstResult.written
    BY <1>4, <2>3 DEF ResultFields, SeenWith
  <2>9. /\ res.errors \in {0, 1} /\ (dstResult.errors > 0 => res.errors > 0)
        /\ res.seen \subseteq DstRecords /\ res.acked \subseteq DstRecords
        /\ res.failed \subseteq DstRecords
    BY <1>4, <2>6, <2>8
  <2>10. ResultOK(res)
    BY <2>8, <2>9 DEF ResultOK
  <2>11. ToSet(dstBuf) \subseteq ToSet(buf) /\ res.seen \subseteq dstResult.seen \union ToSet(buf)
    BY <2>7, <2>8
  <2>12. PICK h, l, before, after : /\ h = Len(dstBuf) /\ l = Len(buf)
                                    /\ before = dstTaken /\ after = dstTaken'
    OBVIOUS
  <2>13. /\ h \in Nat /\ before \in Nat
         /\ after = IF m = StateMessage THEN before ELSE before + 1
         /\ l = IF m > 0 THEN h + 1 ELSE h
    <3>1. h \in Nat /\ before \in Nat
      BY <1>5, <2>12, CountedReceiving
    <3>2. after = IF m = StateMessage THEN before ELSE before + 1
      BY <2>4, <2>12 DEF Counted
    <3>3. l = IF m > 0 THEN h + 1 ELSE h
      <4>1. CASE m > 0
        <5>1. m \in DstRecords
          BY <2>6, <4>1
        <5> QED
          BY <1>1, <2>2, <2>12, <4>1, <5>1
      <4>2. CASE ~(m > 0)
        BY <2>2, <2>12, <4>2
      <4> QED
        BY <4>1, <4>2
    <3> QED
      BY <3>1, <3>2, <3>3
  <2>14. after \in Nat /\ l + before <= h + after
         /\ (m # StateMessage => h + before < h + after) /\ h + before <= h + after
    BY <2>6, <2>13 DEF StateMessage
  <2>15. CASE ~dstCancelled
    <3>1. DstCounted'
      BY <1>5, <2>4, <2>7, <2>8, <2>10, <2>12, <2>14, <2>15, FlushedCounts
    <3>2. CASE (m > 0 /\ Full(buf)) \/ (m = StateMessage /\ buf # <<>>)
      <4>1. Flush(buf, res)
        BY <2>4, <2>15, <3>2
      <4>2. \A r \in res.acked : r \in dstResult.acked \/ r \in dstResult.seen
        BY <2>8
      <4>3. dstPc' \in {"receive", "done"}
        BY <2>4, <2>15
      <4> QED
        BY <1>6, <2>5, <2>7, <2>8, <2>9, <2>10, <2>11, <3>1, <4>1, <4>2, <4>3
    <3>3. CASE ~((m > 0 /\ Full(buf)) \/ (m = StateMessage /\ buf # <<>>))
      <4>1. dstBuf' = buf /\ dstResult' = res
            /\ UNCHANGED <<dstCopies, dstMiscounted, dstObjects, dstFile>>
        BY <2>4, <2>15, <3>3
      <4>2. res.acked = dstResult.acked \/ (dstBuf = <<>> /\ res.acked = dstResult.seen)
        <5>1. CASE m = StateMessage
          BY <2>2, <2>8, <3>3, <5>1 DEF StateMessage
        <5> QED
          BY <2>8, <5>1
      <4>3. dstPc' = "receive"
        BY <2>4, <2>15
      <4>4. /\ dstBuf' \in Seq(DstRecords) /\ ResultOK(dstResult')
            /\ ToSet(dstBuf) \subseteq ToSet(dstBuf') /\ dstResult'.failed = dstResult.failed
            /\ (dstResult.errors > 0 => dstResult'.errors > 0)
            /\ dstResult'.seen \subseteq dstResult.seen \union ToSet(dstBuf')
            /\ \/ dstResult'.acked = dstResult.acked
               \/ dstBuf = <<>> /\ dstResult'.acked = dstResult.seen
        BY <2>7, <2>8, <2>9, <2>10, <2>11, <4>1, <4>2
      <4> QED
        BY <1>7, <2>5, <3>1, <4>1, <4>3, <4>4
    <3> QED
      BY <3>2, <3>3
  <2>16. CASE dstCancelled
    <3>1. PICK q, b : q = [dstResult EXCEPT !.seen = SeenWith(m)] /\ b = dstBuf
      OBVIOUS
    <3>2. /\ DOMAIN q = ResultFields /\ q.failed = dstResult.failed /\ q.errors = dstResult.errors
          /\ q.seen = IF m > 0 THEN dstResult.seen \union {m} ELSE dstResult.seen
          /\ q.acked = dstResult.acked /\ q.written = dstResult.written
      BY <1>4, <3>1 DEF ResultFields, SeenWith
    <3>3. ResultOK(q)
      BY <1>4, <2>6, <3>2 DEF ResultOK
    <3>4. dstPc' = "done" /\ FinalFlush(q)
      BY <2>4, <2>16, <3>1
    <3>5. \/ Flush(b, q)
          \/ dstBuf' = b /\ dstResult' = q
      BY <3>1, <3>4 DEF FinalFlush
    <3>6. b \in Seq(DstRecords) /\ h = Len(b)
      BY <1>1, <2>12, <3>1
    <3>7. DstCounted' /\ (h + before < h + after => Short')
      BY <1>5, <2>12, <2>14, <3>2, <3>3, <3>4, <3>5, <3>6, FlushedCounts
    <3>8. \A r \in q.seen : r \in dstResult.seen \/ r \in ToSet(b) \/ Short'
      BY <2>6, <2>14, <3>2, <3>7 DEF StateMessage
    <3>9. CASE Flush(b, q)
      <4>1. ToSet(dstBuf) \subseteq ToSet(b)
        BY <3>1
      <4> QED
        BY <1>6, <2>5, <3>2, <3>3, <3>4, <3>6, <3>7, <3>8, <3>9, <4>1
    <3>10. CASE ~Flush(b, q)
      <4>1. dstBuf = <<>> /\ dstBuf' = dstBuf /\ dstResult' = q
            /\ UNCHANGED <<dstCopies, dstMiscounted, dstObjects, dstFile>>
        BY <3>1, <3>4, <3>10 DEF FinalFlush
      <4>2. /\ dstBuf' \in Seq(DstRecords) /\ ResultOK(dstResult') /\ dstBuf' = <<>>
            /\ ToSet(dstBuf) \subseteq ToSet(dstBuf') /\ dstResult'.failed = dstResult.failed
            /\ dstResult'.errors = dstResult.errors /\ dstResult'.acked = dstResult.acked
            /\ \A r \in dstResult'.seen : r \in dstResult.seen \/ r \in ToSet(dstBuf') \/ Short'
        BY <1>1, <3>1, <3>2, <3>3, <3>8, <4>1
      <4> QED
        BY <1>7, <2>5, <3>4, <3>7, <4>1, <4>2
    <3> QED
      BY <3>9, <3>10
  <2> QED
    BY <2>15, <2>16
<1>9. CASE dstIn = <<>>
  <2>1. /\ dstPc' = "done" /\ dstIn' = dstIn /\ dstTaken' = dstTaken
        /\ FinalFlush(dstResult)
    BY <1>9 DEF FlushingWrite
  <2>2. PICK buf, res : buf = dstBuf /\ res = dstResult
    OBVIOUS
  <2>3. buf \in Seq(DstRecords) /\ ResultOK(res) /\ FinalFlush(res)
    BY <1>1, <2>1, <2>2
  <2>4. ToSet(dstBuf) \subseteq ToSet(buf) /\ res.failed = dstResult.failed
        /\ res.written = dstResult.written /\ (dstResult.errors > 0 => res.errors > 0)
        /\ res.seen \subseteq dstResult.seen \union ToSet(buf)
        /\ \A r \in res.acked : r \in dstResult.acked \/ r \in dstResult.seen
    BY <2>2
  <2>5. \/ Flush(buf, res)
        \/ dstBuf' = buf /\ dstResult' = res
    BY <2>2, <2>3 DEF FinalFlush
  <2>6. DstCounted'
    <3>1. PICK h, before, after : h = Len(buf) /\ before = dstTaken /\ after = dstTaken'
      OBVIOUS
    <3>2. h \in Nat /\ before \in Nat /\ after = before /\ h = Len(dstBuf)
      BY <1>5, <2>1, <2>2, <3>1, CountedReceiving
    <3>3. after \in Nat /\ h + before <= h + after
      BY <3>2
    <3> QED
      BY <1>5, <2>1, <2>3, <2>4, <2>5, <3>1, <3>2, <3>3, FlushedCounts
  <2>7. dstIn' \in Seq(DstMessages) /\ dstPc' \in {"receive", "done"}
    BY <1>1, <2>1
  <2>8. CASE Flush(buf, res)
    BY <1>6, <2>3, <2>4, <2>6, <2>7, <2>8
  <2>9. CASE ~Flush(buf, res)
    <3>1. dstBuf = <<>> /\ dstBuf' = dstBuf /\ dstResult' = dstResult
          /\ UNCHANGED <<dstCopies, dstMiscounted, dstObjects, dstFile>>
      BY <2>2, <2>3, <2>9 DEF FinalFlush
    <3>2. dstBuf' \in Seq(DstRecords) /\ ResultOK(dstResult') /\ dstBuf' = <<>>
      BY <1>1, <3>1
    <3>3. ToSet(dstBuf) \subseteq ToSet(dstBuf') /\ dstResult'.failed = dstResult.failed
          /\ (dstResult.errors > 0 => dstResult'.errors > 0)
          /\ dstResult'.seen \subseteq dstResult.seen \union ToSet(dstBuf')
          /\ dstResult'.acked = dstResult.acked
      BY <3>1
    <3> QED
      BY <1>7, <2>1, <2>6, <2>7, <3>1, <3>2, <3>3
  <2> QED
    BY <2>8, <2>9
<1> QED
  BY <1>8, <1>9

(* A new call of Write starts with an empty result.                         *)
LEMMA DstCallKept ==
  ASSUME DestinationsIInv, NEW input \in DstInputs, DstCall(input)
  PROVE  DestinationsIInv'
<1>1. /\ dstIn' = input /\ dstTaken' = 0 /\ dstBuf' = <<>> /\ dstPc' = "receive"
      /\ dstResult' = NoResult /\ dstFile' = 0 /\ dstMiscounted' = {}
      /\ UNCHANGED <<dstKind, dstReq, dstCopies, dstObjects, dstSecond>>
  BY DEF DstCall
<1>2. input \in Seq(DstMessages)
  BY MessagesAre
<1>3. ResultOK(NoResult) /\ NoResult.seen = {} /\ NoResult.acked = {}
      /\ NoResult.written = 0 /\ NoResult.failed = {}
  BY DEF ResultOK, ResultFields, NoResult
<1>4. ResultOK(dstResult') /\ dstResult'.seen = {} /\ dstResult'.acked = {}
      /\ dstResult'.written = 0 /\ dstResult'.failed = {}
  BY <1>1, <1>3
<1>5. /\ dstReq' \in Seq(SUBSET DstRecords) /\ dstCopies' \in [DstRecords -> Nat]
      /\ DOMAIN dstObjects' \subseteq Nat \X Nat /\ dstSecond' \in Nat
  BY <1>1 DEF DestinationsIInv, DstShape
<1>6. <<>> \in Seq(DstRecords) /\ {} \subseteq DstRecords /\ 0 \in Nat
  OBVIOUS
<1>7. DstShape'
  BY <1>1, <1>2, <1>4, <1>5, <1>6 DEF DstShape
<1>8. DstKept'
  BY <1>4 DEF DstKept
<1>9. DstCounted'
  <2>1. IsFiniteSet({}) /\ Cardinality({}) = 0
    BY FS_EmptySet
  <2>2. Told(dstResult') = 0
    BY <1>4, <2>1 DEF Told
  <2>3. HandCount' = 0
    <3>1. Len(<<>>) = 0
      BY EmptySeq
    <3> QED
      BY <1>1, <3>1 DEF HandCount
  <2>4. Told(dstResult') + HandCount' <= dstTaken'
    BY <1>1, <2>2, <2>3
  <2> QED
    BY <1>1, <1>4, <2>1, <2>4 DEF DstCounted
<1> QED
  BY <1>7, <1>8, <1>9 DEF DestinationsIInv

(* A step that leaves what the invariant is about alone, but for the copies *)
(* a lost request may have made.                                            *)
LEMMA QuietKept ==
  ASSUME DestinationsIInv,
         UNCHANGED <<dstKind, dstIn, dstTaken, dstBuf, dstReq, dstResult, dstMiscounted,
                     dstObjects, dstFile>>,
         dstPc' = dstPc \/ (dstPc = "request" /\ dstPc' = "poll"),
         dstSecond' \in Nat,
         dstCopies' \in [DstRecords -> Nat],
         \A r \in DstRecords : dstCopies[r] > 0 => dstCopies'[r] > 0
  PROVE  DestinationsIInv'
<1>1. DstGrows
  BY DEF DstGrows
<1>2. DstShape'
  BY DEF DestinationsIInv, DstShape
<1>3. InHand' = InHand
  BY DEF InHand
<1>4. dstResult'.seen \subseteq DstRecords /\ dstResult'.acked \subseteq DstRecords
  BY <1>2 DEF DstShape, ResultOK
<1>5. HandCount' = HandCount
  BY DEF HandCount
<1>6. Told(dstResult') = Told(dstResult)
  OBVIOUS
<1>7. PICK t, h : t = Told(dstResult) /\ h = HandCount
  OBVIOUS
<1>8. Told(dstResult') = t /\ HandCount' = h /\ dstTaken' = dstTaken
  BY <1>5, <1>6, <1>7
<1>9. DstCounted
  BY DEF DestinationsIInv
<1>10. DstCounted'
  BY <1>7, <1>8, <1>9 DEF DstCounted
<1>11. Short => Short'
  BY <1>7, <1>8 DEF Short
<1>12. DstShape /\ DstKept /\ (dstPc' # "done" => dstPc # "done")
  BY DEF DestinationsIInv
<1>13. DstKept'
  BY <1>1, <1>3, <1>4, <1>11, <1>12, KeptBy
<1> QED
  BY <1>2, <1>10, <1>13 DEF DestinationsIInv

(* The numbers an answer can give: all of a job, none, or part of it.       *)
LEMMA JobNumbers ==
  ASSUME DestinationsIInv, dstPc \in {"request", "poll"}
  PROVE  /\ Job \in SUBSET DstRecords /\ IsFiniteSet(Job) /\ Cardinality(Job) \in Nat
         /\ {} \in SUBSET Job /\ Cardinality({}) = 0
         /\ Cardinality(Job) + Cardinality({}) <= Cardinality(Job)
         /\ 0 + Cardinality(Job) <= Cardinality(Job)
         /\ 0 + Cardinality({}) <= Cardinality(Job)
<1>1. DstShape /\ DstCounted
  BY DEF DestinationsIInv
<1>2. PICK j, e : j = Cardinality(Job) /\ e = Cardinality({})
  OBVIOUS
<1>3. Job \in SUBSET DstRecords /\ IsFiniteSet(Job) /\ j \in Nat
  BY <1>1, <1>2, JobsInHand
<1>4. e = 0
  BY <1>2, FS_EmptySet
<1>5. j + e <= j /\ 0 + j <= j /\ 0 + e <= j
  BY <1>3, <1>4
<1> QED
  BY <1>2, <1>3, <1>4, <1>5

(* A request that is given up, or answered with an error for all.           *)
LEMMA ErrorKept ==
  ASSUME DestinationsIInv, dstPc \in {"request", "poll"}, NEW S, dstCopies' = Add(dstCopies, S),
         Answered(0, {}, TRUE), dstMiscounted' = dstMiscounted,
         UNCHANGED <<dstKind, dstIn, dstTaken, dstObjects, dstFile, dstSecond>>
  PROVE  DestinationsIInv'
<1>1. PICK none, zero : none = {} /\ zero = 0
  OBVIOUS
<1>2. none \in SUBSET Job /\ none \in SUBSET DstRecords /\ zero \in Nat
      /\ zero + Cardinality(none) <= Cardinality(Job)
  BY <1>1, JobNumbers
<1>3. PICK others \in BOOLEAN : others = TRUE
  OBVIOUS
<1>4. Answered(zero, none, others) /\ others
  BY <1>1, <1>3
<1>5. dstMiscounted' = dstMiscounted \union none
  BY <1>1
<1> QED
  BY <1>2, <1>4, <1>5, AnsweredKept

(* A request that counts all of its job, though only done may be stored.    *)
LEMMA AllKept ==
  ASSUME DestinationsIInv, dstPc \in {"request", "poll"}, NEW done,
         dstCopies' = Add(dstCopies, done), Answered(Cardinality(Job), {}, FALSE),
         dstMiscounted' = dstMiscounted \union (Job \ done),
         UNCHANGED <<dstKind, dstIn, dstTaken, dstObjects, dstFile, dstSecond>>
  PROVE  DestinationsIInv'
<1>1. PICK none, all, gone : none = {} /\ all = Cardinality(Job) /\ gone = Job \ done
  OBVIOUS
<1>2. Job \in SUBSET DstRecords /\ none \in SUBSET Job /\ all \in Nat
      /\ all + Cardinality(none) <= Cardinality(Job)
  BY <1>1, JobNumbers
<1>3. PICK others \in BOOLEAN : others = FALSE
  OBVIOUS
<1>4. Answered(all, none, others) /\ dstMiscounted' = dstMiscounted \union gone
  BY <1>1, <1>3
<1>5. gone \in SUBSET DstRecords /\ \A r \in Job : r \in done \/ r \in gone
  BY <1>1, <1>2
<1> QED
  BY <1>2, <1>4, <1>5, AnsweredKept

(* The composite answer of Salesforce: who has no result is not counted.    *)
LEMMA SalesforceBatchKept ==
  ASSUME DestinationsIInv, SalesforceFlushBatch
  PROVE  DestinationsIInv'
<1>1. dstPc \in {"request", "poll"} /\ dstMiscounted' = dstMiscounted
      /\ UNCHANGED <<dstKind, dstIn, dstTaken, dstObjects, dstFile, dstSecond>>
  BY DEF SalesforceFlushBatch
<1>2. PICK ok \in SUBSET Job :
        /\ dstCopies' = Add(dstCopies, ok)
        /\ \/ Answered(0, {}, TRUE)
           \/ \E n \in 0..Cardinality(ok), bad \in SUBSET (Job \ ok) : Answered(n, bad, FALSE)
  BY DEF SalesforceFlushBatch
<1>3. CASE Answered(0, {}, TRUE)
  BY <1>1, <1>2, <1>3, ErrorKept
<1>4. ASSUME NEW n, n \in 0..Cardinality(ok), NEW bad, bad \in SUBSET (Job \ ok),
             Answered(n, bad, FALSE)
      PROVE  DestinationsIInv'
  <2>1. PICK others \in BOOLEAN : others = FALSE
    OBVIOUS
  <2>2. PICK none : none = {}
    OBVIOUS
  <2>3. Answered(n, bad, others) /\ none \in SUBSET DstRecords
        /\ dstMiscounted' = dstMiscounted \union none
    BY <1>1, <1>4, <2>1, <2>2
  <2>4. IsFiniteSet(Job) /\ bad \in SUBSET Job
    BY <1>1, <1>4, JobNumbers
  <2>5. PICK both : both = ok \union bad
    OBVIOUS
  <2>6. both \in SUBSET Job /\ ok \intersect bad = {}
    BY <1>2, <1>4, <2>5
  <2>7. IsFiniteSet(ok) /\ IsFiniteSet(bad) /\ IsFiniteSet(both)
    BY <2>4, <2>6, PartIsFew
  <2>8. PICK j, k, b, c : /\ j = Cardinality(Job) /\ k = Cardinality(ok)
                          /\ b = Cardinality(bad) /\ c = Cardinality(both)
    OBVIOUS
  <2>9. j \in Nat /\ k \in Nat /\ b \in Nat /\ c = k + b
    BY <2>4, <2>5, <2>6, <2>7, <2>8, UnionIsFew, FS_CardinalityType
  <2>10. c <= j /\ (j <= c => Job = both)
    BY <2>4, <2>6, <2>8, PartIsFew
  <2>11. n \in Nat /\ n <= k
    BY <1>4, <2>8, <2>9
  <2>12. n + b <= j /\ (n + b < j \/ j <= c)
    BY <2>9, <2>10, <2>11
  <2>13. n + Cardinality(bad) <= Cardinality(Job)
    BY <2>8, <2>12
  <2>14. \A r \in Job : r \in ok \/ r \in bad \/ n + Cardinality(bad) < Cardinality(Job)
    BY <2>5, <2>8, <2>10, <2>12
  <2> QED
    BY <1>1, <1>2, <2>3, <2>4, <2>11, <2>13, <2>14, AnsweredKept
<1> QED
  BY <1>2, <1>3, <1>4

(* HubSpot's number of results: all, none, or those of the stored records.  *)
LEMMA HubspotBatchKept ==
  ASSUME DestinationsIInv, HubspotFlushBatch
  PROVE  DestinationsIInv'
<1>1. dstPc \in {"request", "poll"}
      /\ UNCHANGED <<dstKind, dstIn, dstTaken, dstObjects, dstFile, dstSecond>>
  BY DEF HubspotFlushBatch
<1>2. PICK ok \in SUBSET Job :
        /\ dstCopies' = Add(dstCopies, ok)
        /\ \/ /\ \E n \in {0, Cardinality(ok)}, others \in BOOLEAN : Answered(n, {}, others)
              /\ UNCHANGED dstMiscounted
           \/ /\ Answered(Cardinality(Job), {}, FALSE)
              /\ dstMiscounted' = dstMiscounted \union (Job \ ok)
  BY DEF HubspotFlushBatch
<1>3. CASE /\ Answered(Cardinality(Job), {}, FALSE)
           /\ dstMiscounted' = dstMiscounted \union (Job \ ok)
  BY <1>1, <1>2, <1>3, AllKept
<1>4. ASSUME NEW n \in {0, Cardinality(ok)}, NEW others \in BOOLEAN, Answered(n, {}, others),
             dstMiscounted' = dstMiscounted
      PROVE  DestinationsIInv'
  <2>1. PICK none : none = {}
    OBVIOUS
  <2>2. none \in SUBSET Job /\ none \in SUBSET DstRecords /\ Cardinality(none) = 0
        /\ IsFiniteSet(Job) /\ Answered(n, none, others)
        /\ dstMiscounted' = dstMiscounted \union none
    BY <1>1, <1>4, <2>1, JobNumbers
  <2>3. PICK j, k, e : j = Cardinality(Job) /\ k = Cardinality(ok) /\ e = Cardinality(none)
    OBVIOUS
  <2>4. j \in Nat /\ k \in Nat /\ k <= j /\ (j <= k => Job = ok)
    BY <1>2, <2>2, <2>3, PartIsFew
  <2>5. n \in Nat /\ n <= k /\ e = 0
    BY <1>4, <2>2, <2>3, <2>4
  <2>6. n + e <= j /\ (n + e < j \/ j <= k)
    BY <2>4, <2>5
  <2>7. n + Cardinality(none) <= Cardinality(Job)
    BY <2>3, <2>6
  <2>8. \A r \in Job : r \in ok \/ n + Cardinality(none) < Cardinality(Job)
    BY <2>3, <2>4, <2>6
  <2> QED
    BY <1>1, <1>2, <2>2, <2>5, <2>7, <2>8, AnsweredKept
<1> QED
  BY <1>2, <1>3, <1>4

(* The total of a completed job of Zendesk.                                 *)
LEMMA ZendeskJobKept ==
  ASSUME DestinationsIInv, ZendeskSubmitJob
  PROVE  DestinationsIInv'
<1>1. dstPc \in {"request", "poll"}
      /\ UNCHANGED <<dstKind, dstIn, dstTaken, dstObjects, dstFile, dstSecond>>
  BY DEF ZendeskSubmitJob
<1>2. PICK done \in SUBSET Job :
        /\ dstCopies' = Add(dstCopies, done)
        /\ \/ Answered(0, {}, TRUE) /\ UNCHANGED dstMiscounted
           \/ \E total \in 0..Cardinality(Job) :
                 /\ ~dstCancelled /\ Answered(total, {}, FALSE)
                 /\ dstMiscounted' = dstMiscounted \union
                      IF total > Cardinality(done) THEN Job \ done ELSE {}
  BY DEF ZendeskSubmitJob
<1>3. CASE Answered(0, {}, TRUE) /\ UNCHANGED dstMiscounted
  BY <1>1, <1>2, <1>3, ErrorKept
<1>4. ASSUME NEW total, total \in 0..Cardinality(Job), Answered(total, {}, FALSE),
             dstMiscounted' = dstMiscounted \union
                IF total > Cardinality(done) THEN Job \ done ELSE {}
      PROVE  DestinationsIInv'
  <2>1. PICK none, gone : none = {} /\ gone = IF total > Cardinality(done) THEN Job \ done ELSE {}
    OBVIOUS
  <2>2. PICK others \in BOOLEAN : others = FALSE
    OBVIOUS
  <2>3. Job \in SUBSET DstRecords /\ none \in SUBSET Job /\ Cardinality(none) = 0
        /\ IsFiniteSet(Job) /\ Answered(total, none, others)
        /\ dstMiscounted' = dstMiscounted \union gone
    BY <1>1, <1>4, <2>1, <2>2, JobNumbers
  <2>4. gone \in SUBSET DstRecords
    BY <2>1, <2>3
  <2>5. PICK j, k, e : j = Cardinality(Job) /\ k = Cardinality(done) /\ e = Cardinality(none)
    OBVIOUS
  <2>6. j \in Nat /\ k \in Nat /\ (j <= k => Job = done)
    BY <1>2, <2>3, <2>5, PartIsFew
  <2>7. total \in Nat /\ total <= j /\ e = 0
    BY <1>4, <2>3, <2>5, <2>6
  <2>8. total + e <= j /\ (total + e < j \/ total > k \/ j <= k)
    BY <2>6, <2>7
  <2>9. total + Cardinality(none) <= Cardinality(Job)
    BY <2>5, <2>8
  <2>10. \A r \in Job : \/ r \in done \/ r \in gone
                        \/ total + Cardinality(none) < Cardinality(Job)
    <3>1. total > k => gone = Job \ done
      BY <2>1, <2>5
    <3> QED
      BY <2>5, <2>6, <2>8, <3>1
  <2> QED
    BY <1>1, <1>2, <2>3, <2>4, <2>7, <2>9, <2>10, AnsweredKept
<1> QED
  BY <1>2, <1>3, <1>4

(* The steps of the request: retried, given up, or answered.                *)
LEMMA RequestKept ==
  ASSUME DestinationsIInv,
         \/ HttpRetry \/ HttpGivesUp \/ SalesforceFlushBatch \/ HubspotFlushBatch
         \/ ZendeskFlushBatch \/ ZendeskSubmitJob \/ IntercomFlushContactBatch
         \/ IntercomWriteIndividual
  PROVE  DestinationsIInv'
<1>1. dstCopies \in [DstRecords -> Nat] /\ dstSecond \in Nat
  BY DEF DestinationsIInv, DstShape
<1>2. CASE HttpRetry
  <2>1. PICK done \in {{}, Job} : dstCopies' = Add(dstCopies, done)
    BY <1>2 DEF HttpRetry
  <2>2. /\ dstCopies' \in [DstRecords -> Nat]
        /\ \A r \in DstRecords : dstCopies[r] > 0 => dstCopies'[r] > 0
    BY <1>1, <2>1, AddIs
  <2>3. UNCHANGED <<dstKind, dstIn, dstTaken, dstBuf, dstReq, dstPc, dstResult, dstMiscounted,
                    dstObjects, dstFile, dstSecond>>
    BY <1>2 DEF HttpRetry
  <2> QED
    BY <1>1, <2>2, <2>3, QuietKept
<1>3. CASE HttpGivesUp
  <2>1. PICK done : dstCopies' = Add(dstCopies, done)
    BY <1>3 DEF HttpGivesUp
  <2>2. PICK job, zero, none : job = Job /\ zero = 0 /\ none = {}
    OBVIOUS
  <2>3. PICK others \in BOOLEAN : others = FALSE
    OBVIOUS
  <2>4. dstPc \in {"request", "poll"} /\ Answered(zero, job, others)
        /\ dstMiscounted' = dstMiscounted \union none
        /\ UNCHANGED <<dstKind, dstIn, dstTaken, dstObjects, dstFile, dstSecond>>
    BY <1>3, <2>2, <2>3 DEF HttpGivesUp, Rejected
  <2>5. job \in SUBSET Job /\ none \in SUBSET DstRecords /\ zero \in Nat
        /\ \A r \in Job : r \in job
    BY <2>2
  <2>6. zero + Cardinality(job) <= Cardinality(Job)
    BY <2>2, <2>4, JobNumbers
  <2> QED
    BY <2>1, <2>4, <2>5, <2>6, AnsweredKept
<1>4. CASE ZendeskFlushBatch
  <2>1. /\ dstPc = "request"
        /\ UNCHANGED <<dstKind, dstIn, dstTaken, dstObjects, dstFile, dstSecond>>
        /\ \/ /\ dstPc' = "poll"
              /\ UNCHANGED <<dstBuf, dstReq, dstResult, dstCopies, dstMiscounted>>
           \/ \E done \in SUBSET Job :
                 /\ dstCopies' = Add(dstCopies, done)
                 /\ Answered(Cardinality(Job), {}, FALSE)
                 /\ dstMiscounted' = dstMiscounted \union (Job \ done)
    BY <1>4 DEF ZendeskFlushBatch
  <2>2. CASE /\ dstPc' = "poll"
             /\ UNCHANGED <<dstBuf, dstReq, dstResult, dstCopies, dstMiscounted>>
    BY <1>1, <2>1, <2>2, QuietKept
  <2>3. ASSUME NEW done \in SUBSET Job, dstCopies' = Add(dstCopies, done),
               Answered(Cardinality(Job), {}, FALSE),
               dstMiscounted' = dstMiscounted \union (Job \ done)
        PROVE  DestinationsIInv'
    <3>1. dstPc \in {"request", "poll"}
      BY <2>1
    <3> QED
      BY <2>1, <2>3, <3>1, AllKept
  <2> QED
    BY <2>1, <2>2, <2>3
<1>5. CASE IntercomFlushContactBatch
  <2>1. dstPc \in {"request", "poll"}
        /\ UNCHANGED <<dstKind, dstIn, dstTaken, dstObjects, dstFile, dstSecond>>
    BY <1>5 DEF IntercomFlushContactBatch
  <2>2. ASSUME NEW done \in SUBSET Job, dstCopies' = Add(dstCopies, done),
               Answered(Cardinality(Job), {}, FALSE),
               dstMiscounted' = dstMiscounted \union (Job \ done)
        PROVE  DestinationsIInv'
    BY <2>1, <2>2, AllKept
  <2>3. CASE UNCHANGED <<dstCopies, dstMiscounted>> /\ Answered(0, {}, TRUE)
    <3>1. dstCopies' = Add(dstCopies, {})
      BY <1>1, <2>3 DEF Add
    <3> QED
      BY <2>1, <2>3, <3>1, ErrorKept
  <2> QED
    BY <1>5, <2>2, <2>3 DEF IntercomFlushContactBatch
<1>6. CASE IntercomWriteIndividual
  <2>1. dstPc \in {"request", "poll"} /\ dstMiscounted' = dstMiscounted
        /\ UNCHANGED <<dstKind, dstIn, dstTaken, dstObjects, dstFile, dstSecond>>
    BY <1>6 DEF IntercomWriteIndividual
  <2>2. dstCopies' = Add(dstCopies, Job) /\ Answered(Cardinality(Job), {}, FALSE)
    BY <1>6 DEF IntercomWriteIndividual
  <2>3. dstMiscounted' = dstMiscounted \union (Job \ Job)
    BY <2>1
  <2> QED
    BY <2>1, <2>2, <2>3, AllKept
<1> QED
  BY <1>2, <1>3, <1>4, <1>5, <1>6, SalesforceBatchKept, HubspotBatchKept, ZendeskJobKept

(* What is settled is accounted for, and with nothing left in hand the      *)
(* count is the one that ConfirmWriteActivity sees.                         *)
LEMMA KeptIsNotLost ==
  ASSUME DestinationsIInv
  PROVE  NoSilentLoss
<1>1. ASSUME NEW r, Settled(r)
      PROVE  Accounted(r)
  BY <1>1 DEF Settled, Accounted, Stored
<1>2. \A r \in dstResult.acked : Accounted(r)
  BY <1>1 DEF DestinationsIInv, DstKept
<1>3. ASSUME dstPc = "done", NEW r \in dstResult.seen
      PROVE  \/ Accounted(r)
             \/ dstResult.written + Cardinality(dstResult.failed) < dstTaken
  <2>1. InHand = {} /\ HandCount = 0
    BY <1>3 DEF InHand, HandCount
  <2>2. Settled(r) \/ Short
    BY <1>3, <2>1 DEF DestinationsIInv, DstKept
  <2>3. CASE Settled(r)
    BY <1>1, <2>3
  <2>4. CASE Short
    <3>1. PICK w, f : w = dstResult.written /\ f = Cardinality(dstResult.failed)
      OBVIOUS
    <3>2. w \in Nat /\ f \in Nat
      BY <3>1, FS_CardinalityType DEF DestinationsIInv, DstCounted
    <3>3. (w + f) + 0 < dstTaken
      BY <2>1, <2>4, <3>1 DEF Short, Told
    <3>4. w + f < dstTaken
      BY <3>2, <3>3
    <3> QED
      BY <3>1, <3>4
  <2> QED
    BY <2>2, <2>3, <2>4
<1> QED
  BY <1>2, <1>3 DEF NoSilentLoss

(* The invariant of the destinations: initially, and with every step.      *)
LEMMA DestinationsInductive == DestinationsSpec => []DestinationsIInv
<1>1. DestinationsInit => DestinationsIInv
  <2> SUFFICES ASSUME DestinationsInit
               PROVE  DestinationsIInv
    OBVIOUS
  <2>1. ResultOK(dstResult) /\ dstResult.seen = {} /\ dstResult.acked = {}
    BY DEF DestinationsInit, ResultOK, ResultFields, NoResult
  <2>2. dstCopies \in [DstRecords -> Nat] /\ dstMiscounted \subseteq DstRecords
        /\ dstFile \in Nat /\ dstSecond \in Nat /\ dstPc = "idle"
    BY DEF DestinationsInit
  <2>3. DOMAIN dstObjects \subseteq Nat \X Nat
    <3>1. dstObjects = <<>>
      BY DEF DestinationsInit
    <3>2. DOMAIN dstObjects = {}
      BY <3>1
    <3> QED
      BY <3>2
  <2>4. dstIn = <<>> /\ dstBuf = <<>> /\ dstReq = <<>>
    BY DEF DestinationsInit
  <2>5. dstIn \in Seq(DstMessages) /\ dstBuf \in Seq(DstRecords)
        /\ dstReq \in Seq(SUBSET DstRecords)
    BY <2>4
  <2>6. DstCounted
    <3>1. dstTaken = 0 /\ dstResult.written = 0 /\ dstResult.failed = {} /\ dstPc = "idle"
      BY DEF DestinationsInit, NoResult
    <3>2. IsFiniteSet({}) /\ Cardinality({}) = 0
      BY FS_EmptySet
    <3>3. Told(dstResult) = 0 /\ HandCount = 0
      BY <3>1, <3>2 DEF Told, HandCount
    <3> QED
      BY <3>1, <3>2, <3>3 DEF DstCounted
  <2> QED
    BY <2>1, <2>2, <2>3, <2>5, <2>6 DEF DestinationsIInv, DstShape, DstKept
<1>2. DestinationsIInv /\ [DestinationsNext]_dstVars => DestinationsIInv'
  <2> SUFFICES ASSUME DestinationsIInv, [DestinationsNext]_dstVars
               PROVE  DestinationsIInv'
    OBVIOUS
  <2>1. CASE \E input \in DstInputs : DstCall(input)
    BY <2>1, DstCallKept
  <2>2. CASE DstTick \/ DstCancel \/ UNCHANGED dstVars
    <3>1. /\ UNCHANGED <<dstKind, dstIn, dstTaken, dstBuf, dstReq, dstPc, dstResult, dstCopies, dstMiscounted,
                         dstObjects, dstFile>>
          /\ dstSecond' = dstSecond \/ dstSecond' = dstSecond + 1
      BY <2>2 DEF DstTick, DstCancel, dstVars
    <3>2. dstSecond \in Nat /\ dstCopies \in [DstRecords -> Nat]
      BY DEF DestinationsIInv, DstShape
    <3>3. dstSecond' \in Nat /\ dstCopies' \in [DstRecords -> Nat]
      BY <3>1, <3>2
    <3> QED
      BY <3>1, <3>3, QuietKept
  <2>3. CASE SalesforceWrite \/ HubspotWrite \/ ZendeskWrite \/ IntercomWrite
    <3>1. dstPc = "receive" /\ dstKind \in Crm /\ BufferedWrite
      BY <2>3 DEF SalesforceWrite, HubspotWrite, ZendeskWrite, IntercomWrite, Receives, Crm
    <3> QED
      BY <3>1, BufferedWriteKept
  <2>4. CASE SnowflakeWrite \/ BigQueryWrite \/ S3Write
    <3>1. dstPc = "receive" /\ dstKind \notin Crm /\ FlushingWrite
      BY <2>4 DEF SnowflakeWrite, BigQueryWrite, S3Write, Receives, Crm
    <3> QED
      BY <3>1, FlushingWriteKept
  <2>5. CASE \/ HttpRetry \/ HttpGivesUp \/ SalesforceFlushBatch \/ HubspotFlushBatch
             \/ ZendeskFlushBatch \/ ZendeskSubmitJob \/ IntercomFlushContactBatch
             \/ IntercomWriteIndividual
    BY <2>5, RequestKept
  <2> QED
    BY <2>1, <2>2, <2>3, <2>4, <2>5 DEF DestinationsNext
<1> QED
  BY <1>1, <1>2, PTL DEF DestinationsSpec

(* Nothing disappears inside Write unseen, whatever the destination, the    *)
(* input and the batch size: what a state it acknowledges stands for, and   *)
(* when Write returns each record it has taken, is stored, behind an error  *)
(* or counted on an answer that did not say so; or the result tells of      *)
(* fewer records than Write has taken, which ConfirmWriteActivity compares. *)
THEOREM WritesLoseNone == DestinationsSpec => []NoSilentLoss
<1>1. DestinationsIInv => NoSilentLoss
  BY KeptIsNotLost
<1> QED
  BY <1>1, DestinationsInductive, PTL

-----------------------------------------------------------------------------
(* The reads of a source: nothing is lost between two syncs.                *)

Moments == Nat \X Nat

SrcReadings ==
    [pc : {"idle", "reading", "done", "failed", "stuck"}, first : BOOLEAN, from : Moments,
     there : SUBSET Moments, rest : SUBSET Moments, at : Moments, offset : Nat,
     max : Nat, got : SUBSET Moments, touched : SUBSET SrcRows, missed : BOOLEAN]

(* Nothing is later than the clock of the source.                           *)
SrcShape ==
    /\ srcKind \in SrcKinds
    /\ srcTime \in [SrcRows -> Nat] /\ srcNow \in Nat \ {0}
    /\ \A r \in SrcRows : srcTime[r] <= srcNow
    /\ srcState \in Moments /\ srcState[1] <= srcNow
    /\ srcRead \in SrcReadings /\ srcQuiet \in BOOLEAN
    /\ srcRead.from[1] <= srcNow /\ srcRead.at[1] <= srcNow /\ srcRead.max <= srcNow
    /\ \A v \in srcRead.got \union srcRead.rest : v[1] <= srcNow
    /\ IsFiniteSet(srcRead.rest) /\ \A v \in srcRead.rest : v[2] \in SrcRows

(* The kinds that skip rows, and the listings that go on from a row.         *)
SkipKinds == {"s3", "snowflake", "snowflakeFull"}
RowKinds == FullKinds \ {"zoomSub", "snowflakeFull", "pagesOffset", "pagesRoot"}

(* What the history variables and the locals of a read say of each other.   *)
SrcHistory ==
    /\ srcKind \notin FragileKinds => srcQuiet
    /\ srcKind \in StrictKinds => srcState[1] \in srcTicks \union {0}
    /\ srcRead.pc = "reading" =>
         /\ srcQuiet /\ srcKind \in FragileKinds => srcRead.touched = {}
         /\ srcKind \notin FullKinds \union {"zoom"} => srcRead.from = srcState
         /\ srcQuiet /\ srcKind \notin FullKinds => srcRead.got \subseteq srcDelivered
         /\ srcRead.missed => srcKind = "zoomSub" \/ (srcKind \in SkipKinds /\ ~srcQuiet)
         /\ srcKind \in FullKinds => srcRead.from = NoState
         /\ srcRead.first => srcRead.got = {}
         /\ srcKind \in {"salesforce", "bigquery"} =>
              srcRead.max \in {0} \union {v[1] : v \in srcRead.got}
         /\ srcRead.at[1] = srcNow => srcRead.at[1] \in srcTicks \/ srcKind \in FullKinds
         /\ \A v \in srcRead.there : v[2] \notin srcRead.touched => v \in Versions

(* A version that was not delivered is one the read under way asked for, or *)
(* the next one will ask for.                                               *)
SrcSince == IF srcRead.pc = "reading" THEN srcRead.from ELSE srcState

SrcCovered ==
    srcKind \notin FullKinds /\ srcQuiet =>
        \A v \in Versions \ srcDelivered : Selects(SrcSince, v) \/ v[1] \in srcTicks

(* How far the read under way has come with what it asked for: by a result  *)
(* that was fixed with its first request,                                   *)
SrcQueried ==
    srcKind \in {"salesforce", "bigquery"} /\ ~srcRead.first =>
        \A v \in Versions : Selects(srcRead.from, v) =>
            \/ v \in srcRead.got \union srcRead.rest
            \/ /\ v[2] \in srcRead.touched
               /\ \A w \in srcRead.got \union srcRead.rest : w[1] <= v[1]

(* by a list of what to fetch,                                              *)
SrcFetched ==
    srcKind \in {"s3", "zoom", "zoomSub"} /\ ~srcRead.first /\ ~srcRead.missed =>
        \A v \in Versions : Selects(srcRead.from, v) =>
            v \in srcRead.got \union srcRead.rest \/ v[2] \in srcRead.touched

(* by a place in an order of time,                                          *)
SrcPassed ==
    srcKind \in {"hubspot", "intercom", "gong", "zendesk"} =>
        \A v \in Versions : Selects(srcRead.from, v) =>
            \/ v \in srcRead.got
            \/ Before(srcRead.at, v)
            \/ v[2] \in srcRead.touched /\ v[1] \in srcTicks

(* by a place in an order of rows,                                          *)
SrcListed ==
    srcKind \in RowKinds =>
        \A v \in Versions :
            v \in srcRead.got \/ Before(srcRead.at, <<0, v[2]>>) \/ v[2] \in srcRead.touched

(* by an offset in a listing that did not change,                           *)
SrcCounted ==
    srcRead.touched = {} =>
        /\ srcKind = "chorus" =>
             LET L == {v \in Versions : v[1] > srcRead.from[1]} IN
             \A v \in L : Ahead(L, v) < srcRead.offset => v \in srcRead.got
        /\ srcKind = "pagesOffset" =>
             \A v \in Versions :
                Ahead(RowKeys, <<0, v[2]>>) < srcRead.offset => v \in srcRead.got

(* or by how many rows there are in front of the rest.                      *)
InFront(L, D) == \A v \in D, w \in L \ D : ~InOrder(w, v)

SrcSorted ==
    srcRead.touched = {} /\ ~srcRead.missed /\ srcKind \in {"snowflake", "snowflakeFull"} =>
        LET L == {v \in Versions : v[1] > srcRead.from[1]}
            D == {v \in L : v \in srcRead.got} IN
        Cardinality(D) = srcRead.offset /\ InFront(L, D)

SrcProgress ==
    srcRead.pc = "reading" =>
        SrcQueried /\ SrcFetched /\ SrcPassed /\ SrcListed /\ SrcCounted /\ SrcSorted

SourcesIInv == SrcShape /\ SrcHistory /\ SrcCovered /\ SrcProgress /\ CleanReadIsComplete

-----------------------------------------------------------------------------
(* The order of a listing, and its pages.                                   *)

Fewer == {ss \in Nat \X Nat : ss[1] < ss[2]}

(* There is no infinite descent of numbers.                                 *)
LEMMA FewerIs == IsWellFoundedOn(Fewer, Nat)
  BY NatLessThanWellFounded DEF OpToRel, Fewer

(* A set of numbers that is not empty has a least one.                      *)
LEMMA FewestIs ==
  ASSUME NEW T, T \subseteq Nat, T # {}
  PROVE  \E x \in T : \A y \in T : x <= y
<1>1. PICK x \in T : \A y \in T : ~(<<y, x>> \in Fewer)
  BY FewerIs, WFMin, Zenon
<1>2. \A y \in T : x <= y
  <2> SUFFICES ASSUME NEW y \in T
               PROVE  x <= y
    OBVIOUS
  <2>1. x \in Nat /\ y \in Nat
    OBVIOUS
  <2>2. y < x => <<y, x>> \in Fewer
    BY <2>1, SMT DEF Fewer
  <2> QED
    BY <1>1, <2>1, <2>2
<1> QED
  BY <1>2

(* Before orders the moments, and any two of them.                          *)
LEMMA BeforeOrders ==
  ASSUME NEW u \in Moments, NEW v \in Moments, NEW w \in Moments
  PROVE  /\ ~Before(v, v)
         /\ Before(u, v) /\ Before(v, w) => Before(u, w)
         /\ v = w \/ Before(v, w) \/ Before(w, v)
<1>1. PICK u1, u2 \in Nat : u = <<u1, u2>>
  BY DEF Moments
<1>2. PICK v1, v2 \in Nat : v = <<v1, v2>>
  BY DEF Moments
<1>3. PICK w1, w2 \in Nat : w = <<w1, w2>>
  BY DEF Moments
<1> QED
  BY <1>1, <1>2, <1>3, SMT DEF Before

(* What is ahead of an element of a listing, in number.                     *)
LEMMA AheadIs ==
  ASSUME NEW S, IsFiniteSet(S), NEW v
  PROVE  Ahead(S, v) \in Nat /\ IsFiniteSet({w \in S : Before(w, v)})
<1>1. {w \in S : Before(w, v)} \in SUBSET S
  OBVIOUS
<1> QED
  BY <1>1, FS_Subset, FS_CardinalityType, Zenon DEF Ahead

(* The number grows along the listing.                                      *)
LEMMA AheadGrows ==
  ASSUME NEW S, IsFiniteSet(S), S \subseteq Moments, NEW v \in S, NEW w \in S, Before(v, w)
  PROVE  Ahead(S, v) < Ahead(S, w)
<1> DEFINE A == {u \in S : Before(u, v)}
           B == {u \in S : Before(u, w)}
<1>1. A \subseteq B
  BY BeforeOrders
<1>2. v \in B /\ v \notin A
  BY BeforeOrders
<1>3. A \in SUBSET B /\ IsFiniteSet(B)
  BY <1>1, AheadIs, Zenon
<1>4. Ahead(S, v) = Cardinality(A) /\ Ahead(S, w) = Cardinality(B)
  BY DEF Ahead
<1>5. Ahead(S, v) \in Nat /\ Ahead(S, w) \in Nat
  BY AheadIs
<1> HIDE DEF A, B
<1>6. Cardinality(A) <= Cardinality(B) /\ (Cardinality(B) = Cardinality(A) => B = A)
  BY <1>3, FS_Subset, Zenon
<1>7. B # A
  BY <1>2
<1> QED
  BY <1>4, <1>5, <1>6, <1>7, SMT

(* What the number says of the order.                                       *)
LEMMA AheadOrders ==
  ASSUME NEW S, IsFiniteSet(S), S \subseteq Moments, NEW v \in S, NEW w \in S,
         Ahead(S, v) < Ahead(S, w)
  PROVE  Before(v, w)
<1>1. Ahead(S, v) \in Nat /\ Ahead(S, w) \in Nat
  BY AheadIs
<1>2. v # w
  BY <1>1
<1>3. ~Before(w, v)
  BY <1>1, AheadGrows, SMT
<1>4. v \in Moments /\ w \in Moments
  OBVIOUS
<1> QED
  BY <1>2, <1>3, <1>4, BeforeOrders, Zenon

(* Of the elements with some property one has the fewest ahead.             *)
LEMMA FirstIs ==
  ASSUME NEW S, IsFiniteSet(S), NEW T, T \subseteq S, T # {}
  PROVE  \E v \in T : \A w \in T : Ahead(S, v) <= Ahead(S, w)
<1> DEFINE N == {Ahead(S, v) : v \in T}
<1>1. N \subseteq Nat /\ N # {}
  BY AheadIs
<1> HIDE DEF N
<1>2. PICK x \in N : \A y \in N : x <= y
  BY <1>1, FewestIs
<1> QED
  BY <1>2 DEF N

(* A listing has a last element.                                            *)
LEMMA LastIs ==
  ASSUME NEW S, IsFiniteSet(S), S \subseteq Moments, S # {}
  PROVE  /\ LastOf(S) \in S
         /\ \A w \in S : w = LastOf(S) \/ Before(w, LastOf(S))
<1> DEFINE After(v) == {u \in S : Before(v, u)}
           N == {Cardinality(After(v)) : v \in S}
<1>1. \A v \in S : IsFiniteSet(After(v)) /\ Cardinality(After(v)) \in Nat
  <2> TAKE v \in S
  <2>1. After(v) \in SUBSET S
    OBVIOUS
  <2> HIDE DEF After
  <2> QED
    BY <2>1, FS_Subset, FS_CardinalityType, Zenon
<1>2. N \subseteq Nat /\ N # {}
  BY <1>1
<1>3. PICK n \in N : \A y \in N : n <= y
  <2> HIDE DEF N
  <2> QED
    BY <1>2, FewestIs
<1>4. PICK v \in S : n = Cardinality(After(v))
  BY <1>3
<1>5. \A w \in S : Cardinality(After(v)) <= Cardinality(After(w))
  BY <1>3, <1>4
<1>6. \A w \in S : ~Before(v, w)
  <2> SUFFICES ASSUME NEW w \in S, Before(v, w)
               PROVE  FALSE
    OBVIOUS
  <2>1. After(w) \subseteq After(v)
    BY BeforeOrders
  <2>2. w \in After(v) /\ w \notin After(w)
    BY BeforeOrders
  <2>3. After(w) \in SUBSET After(v) /\ IsFiniteSet(After(v)) /\ After(v) # After(w)
    BY <1>1, <2>1, <2>2
  <2>4. Cardinality(After(v)) \in Nat /\ Cardinality(After(w)) \in Nat
    BY <1>1
  <2>5. Cardinality(After(v)) <= Cardinality(After(w))
    BY <1>5
  <2> HIDE DEF After
  <2>6. /\ Cardinality(After(w)) <= Cardinality(After(v))
        /\ Cardinality(After(v)) = Cardinality(After(w)) => After(v) = After(w)
    BY <2>3, FS_Subset, Zenon
  <2> QED
    BY <2>3, <2>4, <2>5, <2>6, SMT
<1>7. LastOf(S) \in S /\ \A w \in S : ~Before(LastOf(S), w)
  BY <1>6, Zenon DEF LastOf
<1> QED
  BY <1>7, BeforeOrders

(* The first page: it is not empty, and what is not on it comes after it.   *)
LEMMA PageIs ==
  ASSUME NEW S, IsFiniteSet(S), S \subseteq Moments
  PROVE  /\ Page(S) \subseteq S /\ IsFiniteSet(Page(S))
         /\ S # {} => Page(S) # {}
         /\ \A v \in S \ Page(S) : Before(LastOf(Page(S)), v)
<1>0. SrcPageSize \in Nat \ {0}
  BY SourcesAssumption
<1>1. \A v \in S : Ahead(S, v) \in Nat /\ (v \in Page(S) <=> Ahead(S, v) < SrcPageSize)
  <2> TAKE v \in S
  <2>1. v \in Page(S) <=> Ahead(S, v) >= 0 /\ Ahead(S, v) < 0 + SrcPageSize
    BY Zenon DEF Page, PageAt
  <2>2. Ahead(S, v) \in Nat
    BY AheadIs
  <2> QED
    BY <1>0, <2>1, <2>2, SMT
<1>2. Page(S) \in SUBSET S
  BY DEF Page, PageAt
<1>3. IsFiniteSet(Page(S))
  BY <1>2, FS_Subset, Zenon
<1>4. S # {} => Page(S) # {}
  <2> SUFFICES ASSUME S # {}
               PROVE  Page(S) # {}
    OBVIOUS
  <2>1. PICK v \in S : \A w \in S : Ahead(S, v) <= Ahead(S, w)
    BY FirstIs, Zenon
  <2>2. \A w \in S : ~Before(w, v)
    BY <2>1, <1>1, AheadGrows, SMT
  <2>3. {w \in S : Before(w, v)} = {}
    BY <2>2
  <2>4. Ahead(S, v) = 0
    BY <2>3, FS_EmptySet, Zenon DEF Ahead
  <2> QED
    BY <1>0, <1>1, <2>4
<1>5. \A v \in S \ Page(S) : Before(LastOf(Page(S)), v)
  <2> SUFFICES ASSUME NEW v \in S, v \notin Page(S)
               PROVE  Before(LastOf(Page(S)), v)
    OBVIOUS
  <2>1. LastOf(Page(S)) \in Page(S)
    BY <1>2, <1>3, <1>4, LastIs
  <2>2. PICK w \in S : w = LastOf(Page(S)) /\ w \in Page(S)
    BY <2>1, <1>2
  <2>3. Ahead(S, w) < Ahead(S, v)
    BY <1>0, <1>1, <2>2
  <2> QED
    BY <2>2, <2>3, AheadOrders
<1> QED
  BY <1>2, <1>3, <1>4, <1>5

(* No more than k elements have fewer than k ahead of them.                 *)
LEMMA FirstFew ==
  ASSUME NEW S, IsFiniteSet(S), S \subseteq Moments, NEW k \in Nat
  PROVE  /\ IsFiniteSet({v \in S : Ahead(S, v) < k})
         /\ Cardinality({v \in S : Ahead(S, v) < k}) \in Nat
         /\ Cardinality({v \in S : Ahead(S, v) < k}) <= k
<1> DEFINE A == {v \in S : Ahead(S, v) < k}
<1>1. A \in SUBSET S
  OBVIOUS
<1>a. \A v \in A : v \in S /\ Ahead(S, v) < k /\ Ahead(S, v) \in Nat
  BY AheadIs
<1> HIDE DEF A
<1>2. IsFiniteSet(A) /\ Cardinality(A) \in Nat
  BY <1>1, FS_Subset, FS_CardinalityType, Zenon
<1>3. CASE A = {}
  BY <1>3, <1>2, FS_EmptySet DEF A
<1>4. CASE A # {}
  <2>1. PICK m \in A : \A w \in A : w = m \/ Before(w, m)
    BY <1>1, <1>2, <1>4, LastIs
  <2> DEFINE B == {w \in S : Before(w, m)}
  <2>2. IsFiniteSet(B) /\ Cardinality(B) = Ahead(S, m) /\ m \notin B
    <3>1. m \in Moments
      BY <1>1
    <3> QED
      BY <3>1, AheadIs, BeforeOrders DEF Ahead
  <2>3. A \in SUBSET (B \union {m})
    BY <1>1, <2>1
  <2> HIDE DEF B
  <2>4. IsFiniteSet(B \union {m}) /\ Cardinality(B \union {m}) = Cardinality(B) + 1
    BY <2>2, FS_AddElement, Zenon
  <2>5. Cardinality(A) <= Cardinality(B \union {m})
    BY <2>3, <2>4, FS_Subset, Zenon
  <2>6. Ahead(S, m) \in Nat /\ Ahead(S, m) < k
    BY <1>a
  <2>7. Cardinality(A) <= k
    BY <1>2, <2>2, <2>4, <2>5, <2>6, SMT
  <2> QED
    BY <1>2, <2>7 DEF A
<1> QED
  BY <1>3, <1>4

(* A page at an offset that is not full is the last: nothing comes after it.*)
LEMMA ShortPageIsLast ==
  ASSUME NEW S, IsFiniteSet(S), S \subseteq Moments, NEW offset \in Nat,
         ~(Cardinality(PageAt(S, offset)) >= SrcPageSize), NEW v \in S
  PROVE  Ahead(S, v) < offset \/ v \in PageAt(S, offset)
<1> DEFINE k == offset + SrcPageSize
           A == {w \in S : Ahead(S, w) < offset}
           B == {w \in S : Ahead(S, w) < k}
           P == PageAt(S, offset)
           T == S \ B
<1>1. \A w \in S : Ahead(S, w) \in Nat
  BY AheadIs
<1>2. k \in Nat
  BY SourcesAssumption
<1>3. /\ IsFiniteSet(A) /\ Cardinality(A) \in Nat /\ Cardinality(A) <= offset
  BY FirstFew, Zenon
<1>4. \A w \in S : w \in A <=> Ahead(S, w) < offset
  OBVIOUS
<1>5. \A w \in S : w \in B <=> Ahead(S, w) < k
  OBVIOUS
<1>6. \A w \in S : w \in P <=> Ahead(S, w) >= offset /\ Ahead(S, w) < k
  BY Zenon DEF PageAt
<1>7. P \in SUBSET S /\ A \in SUBSET S /\ B \in SUBSET S
  BY DEF PageAt
<1>8. ~(Cardinality(P) >= SrcPageSize)
  OBVIOUS
<1>9. SUFFICES ASSUME v \in T
               PROVE  FALSE
  BY <1>1, <1>2, <1>5, <1>6, SMT
<1> HIDE DEF A, B, P
<1>10. PICK u \in T : \A w \in T : Ahead(S, u) <= Ahead(S, w)
  <2>1. T \subseteq S /\ T # {}
    BY <1>9
  <2> HIDE DEF T
  <2> QED
    BY <2>1, FirstIs, Zenon
<1>11. u \in S /\ Ahead(S, u) >= k /\ Ahead(S, u) \in Nat
  BY <1>1, <1>2, <1>5, <1>10
<1> DEFINE C == {w \in S : Before(w, u)}
<1>12. IsFiniteSet(C) /\ Cardinality(C) = Ahead(S, u)
  BY AheadIs DEF Ahead
<1>13. C \subseteq B
  <2> SUFFICES ASSUME NEW w \in S, Before(w, u), w \notin B
               PROVE  FALSE
    OBVIOUS
  <2>1. Ahead(S, w) < Ahead(S, u)
    BY <1>11, AheadGrows
  <2> QED
    BY <2>1, <1>1, <1>10, <1>11
<1>14. B \subseteq A \union P
  BY <1>1, <1>2, <1>4, <1>5, <1>6, <1>7
<1>15. C \in SUBSET (A \union P)
  BY <1>13, <1>14
<1> HIDE DEF C
<1>16. IsFiniteSet(P) /\ Cardinality(P) \in Nat
  BY <1>7, FS_Subset, FS_CardinalityType, Zenon
<1>17. /\ IsFiniteSet(A \union P)
       /\ Cardinality(A \union P) = Cardinality(A) + Cardinality(P) - Cardinality(A \cap P)
  BY <1>3, <1>16, FS_Union, Zenon
<1>18. Cardinality(A \cap P) \in Nat
  BY <1>3, FS_Intersection, FS_CardinalityType, Zenon
<1>19. Cardinality(C) <= Cardinality(A \union P)
  BY <1>15, <1>17, FS_Subset, Zenon
<1> QED
  BY <1>2, <1>3, <1>8, <1>11, <1>12, <1>16, <1>17, <1>18, <1>19, SourcesAssumption, SMT

(* The page at an offset, and the elements it has passed.                   *)
LEMMA PageAtIs ==
  ASSUME NEW S, IsFiniteSet(S), S \subseteq Moments, NEW offset \in Nat, NEW v \in S,
         Ahead(S, v) < offset + SrcPageSize
  PROVE  Ahead(S, v) < offset \/ v \in PageAt(S, offset)
<1>1. v \in PageAt(S, offset) <=> Ahead(S, v) >= offset /\ Ahead(S, v) < offset + SrcPageSize
  BY Zenon DEF PageAt
<1>2. Ahead(S, v) \in Nat
  BY AheadIs
<1> QED
  BY <1>1, <1>2, SMT

(* The greatest time is one of the times, or the one it began with.         *)
LEMMA SrcMaxIs ==
  ASSUME NEW S, IsFiniteSet(S), S \subseteq Moments, NEW m \in Nat
  PROVE  SrcMax(m, S) \in {m} \union {v[1] : v \in S}
<1>1. CASE S = {}
  BY <1>1, Zenon DEF SrcMax
<1>2. CASE S # {}
  <2>1. PICK l \in S : \A w \in S : w = l \/ Before(w, l)
    BY <1>2, LastIs
  <2>2. \A w \in S : l[1] >= w[1] /\ w[1] \in Nat
    BY <2>1 DEF Before, Moments
  <2>3. l[1] \in Nat
    BY <2>2
  <2>4. CASE m >= l[1]
    <3>1. \A v \in S : m >= m /\ m >= v[1]
      BY <2>2, <2>3, <2>4
    <3> QED
      BY <3>1, Zenon DEF SrcMax
  <2>5. CASE ~(m >= l[1])
    <3>1. \A v \in S : l[1] >= m /\ l[1] >= v[1]
      BY <2>2, <2>3, <2>5
    <3>2. l[1] \in {m} \union {v[1] : v \in S}
      OBVIOUS
    <3> QED
      BY <3>1, <3>2, Zenon DEF SrcMax
  <2> QED
    BY <2>4, <2>5
<1> QED
  BY <1>1, <1>2

-----------------------------------------------------------------------------
(* The rows of the source and the locals of a read.                         *)

(* Each row has at most one version.                                        *)
LEMMA VersionsAre ==
  ASSUME SrcShape
  PROVE  /\ Versions \subseteq Moments /\ IsFiniteSet(Versions)
         /\ \A v \in Versions :
              /\ v[1] \in Nat \ {0} /\ v[1] <= srcNow /\ v[2] \in SrcRows
              /\ v = <<srcTime[v[2]], v[2]>>
<1>1. \A v \in Versions : \E r \in SrcRows : srcTime[r] > 0 /\ v = <<srcTime[r], r>>
  BY DEF Versions
<1>2. \A r \in SrcRows : srcTime[r] \in Nat /\ srcTime[r] <= srcNow /\ r \in Nat
  BY SourcesAssumption DEF SrcShape
<1>3. srcNow \in Nat
  BY DEF SrcShape
<1>4. \A v \in Versions :
         /\ v \in Moments /\ v \in (0..srcNow) \X SrcRows
         /\ v[1] \in Nat \ {0} /\ v[1] <= srcNow /\ v[2] \in SrcRows
         /\ v = <<srcTime[v[2]], v[2]>>
  BY <1>1, <1>2, <1>3 DEF Moments
<1>5. IsFiniteSet(0..srcNow)
  BY <1>3, FS_Interval, SMT
<1>6. IsFiniteSet((0..srcNow) \X SrcRows)
  BY <1>5, SourcesAssumption, FS_Product, Zenon
<1>7. Versions \in SUBSET ((0..srcNow) \X SrcRows)
  BY <1>4
<1>8. IsFiniteSet(Versions)
  BY <1>6, <1>7, FS_Subset, Zenon
<1> QED
  BY <1>4, <1>8

(* Their keys are the rows.                                                 *)
LEMMA KeysAre ==
  ASSUME SrcShape
  PROVE  /\ RowKeys \subseteq Moments /\ IsFiniteSet(RowKeys)
         /\ \A v \in Versions : <<0, v[2]>> \in RowKeys
         /\ \A k \in RowKeys : k[1] = 0
<1>1. \A k \in RowKeys : \E v \in Versions : k = <<0, v[2]>>
  BY DEF RowKeys
<1>2. \A v \in Versions : v[2] \in SrcRows /\ v[2] \in Nat
  BY VersionsAre, SourcesAssumption
<1>3. RowKeys \in SUBSET ({0} \X SrcRows)
  BY <1>1, <1>2
<1>4. IsFiniteSet({0})
  BY FS_Singleton, Zenon
<1>5. IsFiniteSet({0} \X SrcRows)
  BY <1>4, SourcesAssumption, FS_Product, Zenon
<1>6. IsFiniteSet(RowKeys)
  BY <1>3, <1>5, FS_Subset, Zenon
<1>7. \A v \in Versions : <<0, v[2]>> \in RowKeys
  BY DEF RowKeys
<1> QED
  BY <1>1, <1>2, <1>6, <1>7 DEF Moments

(* What a request may answer.                                               *)
Listed(S) ==
    S \subseteq Moments /\ IsFiniteSet(S) /\ \A v \in S : v[1] <= srcNow /\ v[2] \in SrcRows

(* A part of what was listed is finite too.                                 *)
LEMMA PartIs ==
  ASSUME SrcShape, NEW S, S \subseteq Versions
  PROVE  S \subseteq Moments /\ IsFiniteSet(S) /\ Listed(S)
<1>1. S \in SUBSET Versions
  OBVIOUS
<1>2. IsFiniteSet(S)
  BY <1>1, VersionsAre, FS_Subset, Zenon
<1> QED
  BY <1>2, VersionsAre DEF Listed

(* And so is a part of what a read has kept.                                *)
LEMMA RestIs ==
  ASSUME NEW T, Listed(T), NEW S, S \subseteq T
  PROVE  S \subseteq Moments /\ IsFiniteSet(S) /\ Listed(S)
<1>1. S \in SUBSET T
  OBVIOUS
<1>2. IsFiniteSet(S)
  BY <1>1, FS_Subset, Zenon DEF Listed
<1> QED
  BY <1>2 DEF Listed

(* The locals of a read that is not under way.                              *)
LEMMA NotReadingIs ==
  ASSUME NEW pc \in {"idle", "reading", "done", "failed", "stuck"}
  PROVE  /\ NotReading(pc) \in SrcReadings
         /\ NotReading(pc).pc = pc /\ NotReading(pc).got = {} /\ NotReading(pc).rest = {}
         /\ NotReading(pc).from = NoState /\ NotReading(pc).at = NoState
         /\ NotReading(pc).max = 0 /\ NotReading(pc).there = {} /\ NotReading(pc).missed = FALSE
         /\ NotReading(pc).touched = {} /\ NotReading(pc).first = TRUE
         /\ NotReading(pc).offset = 0
  BY DEF NotReading, SrcReadings, Moments, NoState

(* The locals that are kept of a read that is over.                         *)
LEMMA EndedIs ==
  ASSUME NEW n \in SrcReadings
  PROVE  /\ Ended(n) \in SrcReadings /\ Ended(n).pc = "done"
         /\ Ended(n).rest = {} /\ Ended(n).at = NoState /\ Ended(n).max = 0
         /\ Ended(n).missed = n.missed
         /\ n.missed => Ended(n).got = {} /\ Ended(n).from = NoState
         /\ ~n.missed => /\ Ended(n).from = n.from /\ Ended(n).there = n.there
                         /\ Ended(n).got = n.got /\ Ended(n).touched = n.touched
<1>1. PICK d : d = NotReading("done")
  OBVIOUS
<1>2. /\ d \in SrcReadings /\ d.pc = "done" /\ d.got = {} /\ d.rest = {} /\ d.at = NoState
      /\ d.max = 0 /\ d.from = NoState /\ d.missed = FALSE
  BY <1>1, NotReadingIs
<1>3. CASE n.missed
  <2>1. Ended(n) = [d EXCEPT !.missed = TRUE]
    BY <1>1, <1>3 DEF Ended
  <2>2. n.missed = TRUE
    BY <1>3 DEF SrcReadings
  <2> QED
    BY <1>2, <1>3, <2>1, <2>2 DEF SrcReadings
<1>4. CASE ~n.missed
  <2>1. PICK e : e = [d EXCEPT !.from = n.from, !.there = n.there]
    OBVIOUS
  <2>2. /\ e \in SrcReadings /\ e.pc = "done" /\ e.got = {} /\ e.rest = {} /\ e.at = NoState
        /\ e.max = 0 /\ e.from = n.from /\ e.missed = FALSE /\ e.there = n.there
    BY <1>2, <2>1 DEF SrcReadings
  <2>3. Ended(n) = [e EXCEPT !.got = n.got, !.touched = n.touched]
    BY <1>1, <1>4, <2>1 DEF Ended
  <2>4. n.missed = FALSE
    BY <1>4 DEF SrcReadings
  <2> QED
    BY <1>4, <2>2, <2>3, <2>4 DEF SrcReadings
<1> QED
  BY <1>3, <1>4

(* A read goes on: what the invariant asks of the locals it goes on with.   *)
LEMMA ReadGoesOn ==
  ASSUME SourcesIInv, srcRead.pc = "reading",
         NEW page, Listed(page), Delivered(page),
         UNCHANGED <<srcKind, srcTime, srcNow>>,
         srcRead' \in SrcReadings, srcRead'.pc = "reading", srcRead'.first = FALSE,
         srcRead'.from = srcRead.from, srcRead'.there = srcRead.there,
         srcRead'.touched = srcRead.touched, srcRead'.got = srcRead.got \union page,
         srcQuiet' \in BOOLEAN, srcQuiet' => srcQuiet, srcKind \notin FragileKinds => srcQuiet',
         srcRead'.missed => srcKind = "zoomSub" \/ (srcKind \in SkipKinds /\ ~srcQuiet'),
         srcTicks \subseteq srcTicks',
         srcRead'.at[1] <= srcNow,
         srcRead'.at[1] = srcNow => srcRead'.at[1] \in srcTicks' \/ srcKind \in FullKinds,
         srcRead'.max <= srcNow,
         srcKind \in {"salesforce", "bigquery"} =>
            srcRead'.max \in {0} \union {v[1] : v \in srcRead'.got},
         IsFiniteSet(srcRead'.rest),
         \A v \in srcRead'.rest : v[1] <= srcNow /\ v[2] \in SrcRows,
         srcState' \in Moments, srcState'[1] <= srcNow,
         srcState' = srcState \/ srcKind = "zoom",
         SrcProgress'
  PROVE  SourcesIInv'
<1>1. SrcShape /\ SrcHistory /\ SrcCovered
  BY DEF SourcesIInv
<1>2. srcKind' = srcKind /\ srcTime' = srcTime /\ srcNow' = srcNow
  OBVIOUS
<1>3. Versions' = Versions
  BY <1>2 DEF Versions
<1>4. \A v \in page : v[1] <= srcNow
  BY DEF Listed
<1>5. \A v \in srcRead'.got \union srcRead'.rest : v[1] <= srcNow
  BY <1>1, <1>4 DEF SrcShape
<1>6. SrcShape'
  BY <1>1, <1>2, <1>5 DEF SrcShape
<1>7. srcKind \notin FullKinds /\ srcQuiet' => srcDelivered' = srcDelivered \union page
  BY DEF Delivered
<1>8. srcKind \in StrictKinds => srcKind # "zoom"
  BY DEF StrictKinds
<1>9. SrcHistory'
  <2>1. srcKind' \in StrictKinds => srcState'[1] \in srcTicks' \union {0}
    BY <1>1, <1>2, <1>8 DEF SrcHistory
  <2>2. srcQuiet' /\ srcKind' \in FragileKinds => srcRead'.touched = {}
    BY <1>1, <1>2 DEF SrcHistory
  <2>3. srcKind' \notin FullKinds \union {"zoom"} => srcRead'.from = srcState'
    BY <1>1, <1>2 DEF SrcHistory
  <2>4. srcQuiet' /\ srcKind' \notin FullKinds => srcRead'.got \subseteq srcDelivered'
    BY <1>1, <1>2, <1>7 DEF SrcHistory
  <2>5. \A v \in srcRead'.there : v[2] \notin srcRead'.touched => v \in Versions'
    BY <1>1, <1>3 DEF SrcHistory
  <2>6. srcKind' \in FullKinds => srcRead'.from = NoState
    BY <1>1, <1>2 DEF SrcHistory
  <2> QED
    BY <1>2, <2>1, <2>2, <2>3, <2>4, <2>5, <2>6 DEF SrcHistory
<1>10. SrcCovered'
  <2> SUFFICES ASSUME srcKind \notin FullKinds, srcQuiet',
                      NEW v \in Versions, v \notin srcDelivered'
               PROVE  Selects(srcRead.from, v) \/ v[1] \in srcTicks'
    BY <1>2, <1>3, Zenon DEF SrcCovered, SrcSince, Selects
  <2>1. v \notin srcDelivered
    BY <1>7
  <2> QED
    BY <1>1, <2>1 DEF SrcCovered, SrcSince
<1>11. CleanReadIsComplete'
  BY DEF CleanReadIsComplete
<1> QED
  BY <1>6, <1>9, <1>10, <1>11 DEF SourcesIInv

(* A read ends: by then it must have what is needed of what it asked for.   *)
LEMMA ReadEnds ==
  ASSUME SourcesIInv, srcRead.pc = "reading",
         NEW page, Listed(page), Delivered(page),
         UNCHANGED <<srcKind, srcTime, srcNow>>,
         srcRead' \in SrcReadings, srcRead'.pc \in {"done", "failed", "stuck"},
         srcRead'.rest = {}, srcRead'.at = NoState, srcRead'.max = 0,
         srcRead'.pc = "done" /\ ~srcRead'.missed =>
            /\ srcRead'.from = srcRead.from /\ srcRead'.there = srcRead.there
            /\ srcRead'.touched = srcRead.touched /\ srcRead'.got = srcRead.got \union page
            /\ srcKind # "pagesRoot" /\ (srcKind \in OffsetKinds => srcRead.touched = {}) =>
                  \A v \in Versions :
                     v[2] \notin srcRead.touched /\ Selects(srcRead.from, v) =>
                        v \in srcRead.got \union page,
         srcRead'.pc # "done" \/ srcRead'.missed => srcRead'.got = {} /\ srcRead'.from = NoState,
         srcQuiet' \in BOOLEAN, srcQuiet' => srcQuiet, srcKind \notin FragileKinds => srcQuiet',
         srcTicks \subseteq srcTicks',
         srcState' \in Moments, srcState'[1] <= srcNow,
         srcKind \in StrictKinds => srcState'[1] \in srcTicks' \union {0},
         srcKind \notin FullKinds /\ srcQuiet' =>
            \A v \in Versions :
               \/ v \in srcDelivered \union page
               \/ Selects(srcState', v) \/ v[1] \in srcTicks'
  PROVE  SourcesIInv'
<1>1. SrcShape /\ SrcHistory
  BY DEF SourcesIInv
<1>2. srcKind' = srcKind /\ srcTime' = srcTime /\ srcNow' = srcNow
  OBVIOUS
<1>3. Versions' = Versions
  BY <1>2 DEF Versions
<1>4. \A v \in page : v[1] <= srcNow
  BY DEF Listed
<1>5. IsFiniteSet(srcRead'.rest)
  BY FS_EmptySet
<1>6. NoState[1] = 0 /\ 0 <= srcNow /\ srcNow \in Nat
  BY <1>1 DEF NoState, SrcShape
<1>7. SrcShape'
  <2>1. \A v \in srcRead'.got \union srcRead'.rest : v[1] <= srcNow
    BY <1>1, <1>4 DEF SrcShape
  <2>2. srcRead'.from[1] <= srcNow
    BY <1>1, <1>6 DEF SrcShape
  <2>3. srcRead'.at[1] <= srcNow /\ srcRead'.max <= srcNow
    BY <1>6
  <2> QED
    BY <1>1, <1>2, <1>5, <2>1, <2>2, <2>3 DEF SrcShape
<1>8. SrcHistory'
  BY <1>2 DEF SrcHistory
<1>9. SrcCovered'
  <2> SUFFICES ASSUME srcKind \notin FullKinds, srcQuiet',
                      NEW v \in Versions, v \notin srcDelivered'
               PROVE  Selects(srcState', v) \/ v[1] \in srcTicks'
    BY <1>2, <1>3, Zenon DEF SrcCovered, SrcSince, Selects
  <2>1. v \notin srcDelivered \union page
    BY DEF Delivered
  <2> QED
    BY <2>1
<1>10. SrcProgress'
  BY DEF SrcProgress
<1>11. CleanReadIsComplete'
  <2> SUFFICES ASSUME srcRead'.pc = "done", ~srcRead'.missed,
                      srcKind # "pagesRoot", srcKind \in OffsetKinds => srcRead.touched = {},
                      NEW v \in srcRead.there, v[2] \notin srcRead.touched,
                      Selects(srcRead.from, v)
               PROVE  v \in srcRead.got \union page
    BY <1>2 DEF CleanReadIsComplete, Selects
  <2>1. v \in Versions
    BY <1>1 DEF SrcHistory
  <2> QED
    BY <2>1
<1> QED
  BY <1>7, <1>8, <1>9, <1>10, <1>11 DEF SourcesIInv

(* Initially nothing was read and there is no row.                          *)
LEMMA SourcesStart ==
  ASSUME SourcesInit
  PROVE  SourcesIInv
<1>1. /\ srcRead \in SrcReadings /\ srcRead.pc = "idle" /\ srcRead.got = {}
      /\ srcRead.rest = {} /\ srcRead.from = NoState /\ srcRead.at = NoState
      /\ srcRead.max = 0
  BY NotReadingIs DEF SourcesInit
<1>2. \A r \in SrcRows : srcTime[r] = 0
  BY DEF SourcesInit
<1>3. Versions = {}
  BY <1>2 DEF Versions
<1>4. IsFiniteSet(srcRead.rest)
  BY <1>1, FS_EmptySet
<1>5. SrcShape
  <2>1. srcTime \in [SrcRows -> Nat]
    BY DEF SourcesInit
  <2>2. srcNow = 1 /\ srcState = NoState /\ srcQuiet = TRUE /\ srcKind \in SrcKinds
    BY DEF SourcesInit
  <2> QED
    BY <1>1, <1>2, <1>4, <2>1, <2>2 DEF SrcShape, NoState, Moments
<1>6. SrcHistory
  BY <1>1 DEF SourcesInit, SrcHistory, NoState
<1> QED
  BY <1>1, <1>3, <1>5, <1>6 DEF SourcesIInv, SrcCovered, SrcProgress, CleanReadIsComplete

(* The clock of the source moves.                                           *)
LEMMA TickKept ==
  ASSUME SourcesIInv, SrcTick
  PROVE  SourcesIInv'
<1>1. SrcShape /\ SrcHistory /\ SrcCovered /\ SrcProgress
  BY DEF SourcesIInv
<1>2. /\ srcNow' = srcNow + 1 /\ srcKind' = srcKind /\ srcTime' = srcTime
      /\ srcState' = srcState /\ srcTicks' = srcTicks /\ srcQuiet' = srcQuiet
      /\ srcDelivered' = srcDelivered
  BY DEF SrcTick
<1>3. Versions' = Versions
  BY <1>2 DEF Versions
<1>a. \A t \in Nat : t <= srcNow => t <= srcNow' /\ t # srcNow'
  BY <1>1, <1>2 DEF SrcShape
<1>b. srcNow' \in Nat \ {0}
  BY <1>1, <1>2 DEF SrcShape
<1>c. /\ \A r \in SrcRows : srcTime'[r] <= srcNow'
      /\ srcState' \in Moments /\ srcState'[1] <= srcNow'
  <2>1. srcState[1] \in Nat /\ \A r \in SrcRows : srcTime[r] \in Nat
    BY <1>1 DEF SrcShape, Moments
  <2> QED
    BY <1>1, <1>2, <1>a, <2>1 DEF SrcShape
<1>4. CASE srcRead.pc = "reading"
  <2>1. srcRead' = srcRead
    BY <1>4 DEF SrcTick
  <2>2. /\ srcRead.from[1] \in Nat /\ srcRead.at[1] \in Nat /\ srcRead.max \in Nat
        /\ \A v \in srcRead.got \union srcRead.rest : v[1] \in Nat
    BY <1>1 DEF SrcShape, SrcReadings, Moments
  <2>3. SrcShape'
    <3>1. /\ srcRead'.from[1] <= srcNow' /\ srcRead'.at[1] <= srcNow' /\ srcRead'.max <= srcNow'
      BY <1>1, <1>a, <2>1, <2>2 DEF SrcShape
    <3>2. \A v \in srcRead'.got \union srcRead'.rest : v[1] <= srcNow'
      BY <1>1, <1>a, <2>1, <2>2 DEF SrcShape
    <3> QED
      BY <1>1, <1>2, <1>b, <1>c, <2>1, <3>1, <3>2 DEF SrcShape
  <2>4. SrcHistory'
    <3>1. srcRead'.at[1] # srcNow'
      BY <1>1, <1>a, <2>1, <2>2 DEF SrcShape
    <3> QED
      BY <1>1, <1>2, <1>3, <2>1, <3>1 DEF SrcHistory
  <2>5. SrcCovered'
    BY <1>1, <1>2, <1>3, <2>1 DEF SrcCovered, SrcSince, Selects
  <2>6. SrcProgress'
    <3>1. SrcQueried' /\ SrcFetched' /\ SrcPassed'
      BY <1>1, <1>2, <1>3, <1>4, <2>1
      DEF SrcProgress, SrcQueried, SrcFetched, SrcPassed, Selects
    <3>2. SrcListed' /\ SrcCounted' /\ SrcSorted'
      <4>1. SrcListed /\ SrcCounted /\ SrcSorted
        BY <1>1, <1>4 DEF SrcProgress
      <4>2. SrcListed'
        BY <1>2, <1>3, <2>1, <4>1 DEF SrcListed
      <4>3. RowKeys' = RowKeys
        BY <1>3 DEF RowKeys
      <4>4. SrcCounted'
        BY <1>2, <1>3, <2>1, <4>1, <4>3 DEF SrcCounted, Ahead
      <4>5. SrcSorted'
        BY <1>2, <1>3, <2>1, <4>1 DEF SrcSorted, InFront, InOrder
      <4> QED
        BY <4>2, <4>4, <4>5
    <3> QED
      BY <3>1, <3>2 DEF SrcProgress
  <2>7. CleanReadIsComplete'
    BY <1>4, <2>1 DEF CleanReadIsComplete
  <2> QED
    BY <2>3, <2>4, <2>5, <2>6, <2>7 DEF SourcesIInv
<1>5. CASE srcRead.pc # "reading"
  <2>1. srcRead' = NotReading("idle")
    BY <1>5 DEF SrcTick
  <2>2. /\ srcRead' \in SrcReadings /\ srcRead'.pc = "idle" /\ srcRead'.got = {}
        /\ srcRead'.rest = {} /\ srcRead'.from = NoState /\ srcRead'.at = NoState
        /\ srcRead'.max = 0 /\ IsFiniteSet(srcRead'.rest)
    BY <2>1, NotReadingIs, FS_EmptySet
  <2>3. SrcShape'
    BY <1>1, <1>2, <1>b, <1>c, <2>2 DEF SrcShape, NoState
  <2>4. SrcHistory'
    BY <1>1, <1>2, <2>2 DEF SrcHistory
  <2>5. SrcCovered'
    BY <1>1, <1>2, <1>3, <1>5, <2>2 DEF SrcCovered, SrcSince, Selects
  <2> QED
    BY <2>2, <2>3, <2>4, <2>5 DEF SourcesIInv, SrcProgress, CleanReadIsComplete
<1> QED
  BY <1>4, <1>5

(* A read begins where the last state message says.                         *)
LEMMA BeginKept ==
  ASSUME SourcesIInv, SrcBegin
  PROVE  SourcesIInv'
<1>1. SrcShape /\ SrcHistory /\ SrcCovered
  BY DEF SourcesIInv
<1>2. /\ srcNow' = srcNow /\ srcKind' = srcKind /\ srcTime' = srcTime
      /\ srcState' = srcState /\ srcTicks' = srcTicks /\ srcQuiet' = srcQuiet
      /\ srcDelivered' = srcDelivered /\ srcRead.pc # "reading"
  BY DEF SrcBegin
<1>3. Versions' = Versions
  BY <1>2 DEF Versions
<1>4. PICK n : n = NotReading("reading")
  OBVIOUS
<1>5. PICK f : f = IF srcKind \in FullKinds THEN NoState ELSE srcState
  OBVIOUS
<1>6. PICK a : a = IF srcKind = "zendesk" THEN srcState ELSE NoState
  OBVIOUS
<1>7. srcRead' = [n EXCEPT !.from = f, !.at = a, !.there = Versions]
  BY <1>4, <1>5, <1>6 DEF SrcBegin
<1>8. /\ n \in SrcReadings /\ n.pc = "reading" /\ n.got = {} /\ n.rest = {} /\ n.max = 0
      /\ n.missed = FALSE /\ n.touched = {} /\ n.first = TRUE /\ n.offset = 0
  BY <1>4, NotReadingIs
<1>9. NoState \in Moments /\ NoState[1] = 0
  BY DEF NoState, Moments
<1>10. f \in Moments /\ a \in Moments /\ Versions \subseteq Moments
  BY <1>1, <1>5, <1>6, <1>9, VersionsAre DEF SrcShape
<1>11. /\ srcRead' \in SrcReadings /\ srcRead'.pc = "reading" /\ srcRead'.got = {}
       /\ srcRead'.rest = {} /\ srcRead'.from = f /\ srcRead'.at = a /\ srcRead'.max = 0
       /\ srcRead'.there = Versions /\ srcRead'.touched = {} /\ srcRead'.first = TRUE
       /\ srcRead'.missed = FALSE /\ srcRead'.offset = 0
  BY <1>7, <1>8, <1>10 DEF SrcReadings
<1>12. SrcShape'
  <2>1. IsFiniteSet(srcRead'.rest)
    BY <1>11, FS_EmptySet
  <2>2. f[1] <= srcNow /\ a[1] <= srcNow /\ 0 <= srcNow
    BY <1>1, <1>5, <1>6, <1>9 DEF SrcShape
  <2> QED
    BY <1>1, <1>2, <1>11, <2>1, <2>2 DEF SrcShape
<1>13. SrcHistory'
  <2>1. a[1] = srcNow => a[1] \in srcTicks
    <3>1. srcNow \in Nat \ {0}
      BY <1>1 DEF SrcShape
    <3>2. srcKind = "zendesk" => srcState[1] \in srcTicks \union {0}
      BY <1>1 DEF SrcHistory, StrictKinds
    <3> QED
      BY <1>6, <1>9, <3>1, <3>2
  <2> QED
    BY <1>1, <1>2, <1>3, <1>5, <1>11, <2>1 DEF SrcHistory
<1>14. SrcCovered'
  <2>1. srcKind \notin FullKinds => f = srcState
    BY <1>5
  <2> QED
    BY <1>1, <1>2, <1>3, <1>11, <2>1 DEF SrcCovered, SrcSince, Selects
<1>15. SrcProgress'
  <2>1. SrcQueried' /\ SrcFetched'
    BY <1>11 DEF SrcQueried, SrcFetched
  <2>2. SrcPassed'
    <3> SUFFICES ASSUME srcKind \in {"hubspot", "intercom", "gong", "zendesk"},
                        NEW v \in Versions, Selects(f, v)
                 PROVE  Before(a, v)
      BY <1>2, <1>3, <1>11 DEF SrcPassed, Selects
    <3>1. CASE srcKind = "zendesk"
      BY <3>1, <1>5, <1>6 DEF Selects, FullKinds, StrictKinds
    <3>2. CASE srcKind # "zendesk"
      BY <3>2, <1>1, <1>6, VersionsAre DEF Before, NoState
    <3> QED
      BY <3>1, <3>2
  <2>3. SrcListed'
    <3> SUFFICES ASSUME srcKind \in FullKinds, NEW v \in Versions
                 PROVE  Before(a, <<0, v[2]>>)
      BY <1>2, <1>3, <1>11 DEF SrcListed, RowKinds
    <3>1. a = NoState
      BY <1>6 DEF FullKinds
    <3>2. v[2] \in Nat \ {0}
      BY <1>1, VersionsAre, SourcesAssumption
    <3> QED
      BY <3>1, <3>2 DEF Before, NoState
  <2>4. SrcCounted'
    <3>1. \A S, v : IsFiniteSet(S) => ~(Ahead(S, v) < 0)
      <4> TAKE S, v
      <4> HAVE IsFiniteSet(S)
      <4>1. Ahead(S, v) \in Nat
        BY AheadIs
      <4> QED
        BY <4>1
    <3>2. \A S : S \subseteq Versions => IsFiniteSet(S)
      BY <1>1, PartIs
    <3>3. IsFiniteSet(RowKeys)
      BY <1>1, KeysAre
    <3>4. RowKeys' = RowKeys
      BY <1>3 DEF RowKeys
    <3> QED
      BY <1>2, <1>3, <1>11, <3>1, <3>2, <3>3, <3>4 DEF SrcCounted, Ahead
  <2>5. SrcSorted'
    <3>1. {v \in Versions' : v[1] > srcRead'.from[1] /\ v \in srcRead'.got} = {}
      BY <1>11
    <3> QED
      BY <1>11, <3>1, FS_EmptySet DEF SrcSorted, InFront
  <2> QED
    BY <2>1, <2>2, <2>3, <2>4, <2>5 DEF SrcProgress
<1>16. CleanReadIsComplete'
  BY <1>11 DEF CleanReadIsComplete
<1> QED
  BY <1>12, <1>13, <1>14, <1>15, <1>16 DEF SourcesIInv

(* A read that fails leaves the state where it was.                         *)
LEMMA FailKept ==
  ASSUME SourcesIInv, srcRead.pc = "reading", NEW pc \in {"failed", "stuck"},
         srcRead' = NotReading(pc), srcQuiet' \in BOOLEAN, srcQuiet' => srcQuiet,
         srcKind \notin FragileKinds => srcQuiet', Delivered({}),
         srcKind \in FragileKinds => ~srcQuiet',
         UNCHANGED <<srcKind, srcTime, srcNow, srcState, srcTicks>>
  PROVE  SourcesIInv'
<1>1. SrcShape /\ SrcHistory /\ SrcCovered
  BY DEF SourcesIInv
<1>2. /\ srcRead' \in SrcReadings /\ srcRead'.pc = pc /\ srcRead'.got = {}
      /\ srcRead'.rest = {} /\ srcRead'.from = NoState /\ srcRead'.at = NoState
      /\ srcRead'.max = 0
  BY NotReadingIs
<1>3. srcState' \in Moments /\ srcState'[1] <= srcNow
  BY <1>1 DEF SrcShape
<1>4. srcKind \in StrictKinds => srcState'[1] \in srcTicks' \union {0}
  BY <1>1 DEF SrcHistory
<1>5. srcKind \notin FullKinds /\ srcQuiet' =>
         \A v \in Versions :
            \/ v \in srcDelivered \union {}
            \/ Selects(srcState', v) \/ v[1] \in srcTicks'
  <2> SUFFICES ASSUME srcKind \notin FullKinds, srcQuiet', NEW v \in Versions, v \notin srcDelivered
               PROVE  Selects(srcState, v) \/ v[1] \in srcTicks
    OBVIOUS
  <2>1. srcKind # "zoom"
    BY DEF FragileKinds
  <2>2. srcRead.from = srcState
    BY <1>1, <2>1 DEF SrcHistory
  <2> QED
    BY <1>1, <2>2 DEF SrcCovered, SrcSince
<1>6. Listed({})
  BY FS_EmptySet DEF Listed
<1> QED
  BY <1>2, <1>3, <1>4, <1>5, <1>6, ReadEnds

(* A row changes: it is the latest, and no longer what a read has found.    *)
LEMMA ChangedVersions ==
  ASSUME SrcShape, NEW r \in SrcRows, srcTime' = [srcTime EXCEPT ![r] = srcNow]
  PROVE  /\ \A v \in Versions' : v = <<srcNow, r>> \/ (v \in Versions /\ v[2] # r)
         /\ \A v \in Versions : v[2] # r => v \in Versions'
<1>1. \A q \in SrcRows : srcTime'[q] = IF q = r THEN srcNow ELSE srcTime[q]
  BY DEF SrcShape
<1>2. \A v \in Versions' : v = <<srcNow, r>> \/ (v \in Versions /\ v[2] # r)
  BY <1>1 DEF Versions
<1>3. \A v \in Versions : v[2] # r => v \in Versions'
  BY <1>1 DEF Versions
<1> QED
  BY <1>2, <1>3

(* A change is asked for by the next read, unless the state names its time. *)
LEMMA ChangeIsSelected ==
  ASSUME SrcShape, SrcHistory, NEW st \in Moments, st[1] <= srcNow, NEW r \in SrcRows,
         srcKind \in StrictKinds => st[1] \in srcTicks \union {0}
  PROVE  Selects(st, <<srcNow, r>>) \/ srcNow \in srcTicks
<1>1. srcNow \in Nat \ {0} /\ st[1] \in Nat
  BY DEF SrcShape, Moments
<1>2. PICK v : v = <<srcNow, r>>
  OBVIOUS
<1>3. v[1] = srcNow
  BY <1>2
<1>4. \/ srcKind \in FullKinds \/ srcKind = "zendesk"
      \/ srcKind \in StrictKinds \ {"zendesk"} \/ srcKind \in {"hubspot", "gong", "zoom"}
  BY SourcesAssumption DEF SrcShape
<1>5. CASE st[1] = srcNow
  <2>1. srcKind \in StrictKinds => srcNow \in srcTicks
    BY <1>1, <1>5
  <2>2. "zendesk" \in StrictKinds
    BY DEF StrictKinds
  <2>3. v[1] >= st[1]
    BY <1>1, <1>3, <1>5
  <2> QED
    BY <1>2, <1>4, <2>1, <2>2, <2>3 DEF Selects
<1>6. CASE st[1] < srcNow
  <2>1. Before(st, v) /\ v[1] > st[1] /\ v[1] >= st[1]
    BY <1>1, <1>3, <1>6 DEF Before
  <2> QED
    BY <1>2, <1>4, <2>1 DEF Selects
<1> QED
  BY <1>1, <1>5, <1>6

(* A row changes while no read is under way.                                *)
LEMMA IdleChangeKept ==
  ASSUME SourcesIInv, NEW r \in SrcRows, SrcModify(r), srcRead.pc # "reading"
  PROVE  SourcesIInv'
<1>1. SrcShape /\ SrcHistory /\ SrcCovered
  BY DEF SourcesIInv
<1>2. /\ srcTime' = [srcTime EXCEPT ![r] = srcNow] /\ srcNow' = srcNow /\ srcKind' = srcKind
      /\ srcState' = srcState /\ srcTicks' = srcTicks /\ srcQuiet' = srcQuiet
      /\ srcRead' = NotReading("idle") /\ Delivered({})
  BY DEF SrcModify
<1>3. /\ srcRead' \in SrcReadings /\ srcRead'.pc = "idle" /\ srcRead'.got = {}
      /\ srcRead'.rest = {} /\ srcRead'.from = NoState /\ srcRead'.at = NoState
      /\ srcRead'.max = 0 /\ IsFiniteSet(srcRead'.rest)
  BY <1>2, NotReadingIs, FS_EmptySet
<1>4. SrcShape'
  <2>1. srcTime' \in [SrcRows -> Nat] /\ \A q \in SrcRows : srcTime'[q] <= srcNow
    BY <1>1, <1>2 DEF SrcShape
  <2>2. NoState[1] <= srcNow /\ 0 <= srcNow
    BY <1>1 DEF SrcShape, NoState
  <2> QED
    BY <1>1, <1>2, <1>3, <2>1, <2>2 DEF SrcShape
<1>5. SrcHistory'
  BY <1>1, <1>2, <1>3 DEF SrcHistory
<1>6. SrcCovered'
  <2> SUFFICES ASSUME srcKind \notin FullKinds, srcQuiet,
                      NEW v \in Versions', v \notin srcDelivered'
               PROVE  Selects(srcState, v) \/ v[1] \in srcTicks
    BY <1>2, <1>3 DEF SrcCovered, SrcSince, Selects
  <2>1. v \notin srcDelivered
    BY <1>2 DEF Delivered
  <2>2. v = <<srcNow, r>> \/ v \in Versions
    BY <1>1, <1>2, ChangedVersions
  <2>3. Selects(srcState, <<srcNow, r>>) \/ srcNow \in srcTicks
    BY <1>1, ChangeIsSelected DEF SrcShape, SrcHistory
  <2>4. v \in Versions => Selects(srcState, v) \/ v[1] \in srcTicks
    BY <1>1, <2>1 DEF SrcCovered, SrcSince
  <2> QED
    BY <2>2, <2>3, <2>4
<1> QED
  BY <1>3, <1>4, <1>5, <1>6 DEF SourcesIInv, SrcProgress, CleanReadIsComplete

(* A row changes during a read.                                             *)
LEMMA ReadChangeKept ==
  ASSUME SourcesIInv, NEW r \in SrcRows, SrcModify(r), srcRead.pc = "reading"
  PROVE  SourcesIInv'
<1>1. SrcShape /\ SrcHistory /\ SrcCovered /\ SrcProgress
  BY DEF SourcesIInv
<1>2. /\ srcTime' = [srcTime EXCEPT ![r] = srcNow] /\ srcNow' = srcNow /\ srcKind' = srcKind
      /\ srcState' = srcState /\ srcTicks' = srcTicks /\ Delivered({})
      /\ srcRead' = [srcRead EXCEPT !.touched = @ \union {r}]
      /\ srcQuiet' = (srcKind \notin FragileKinds)
  BY DEF SrcModify
<1>3. /\ srcRead' \in SrcReadings /\ srcRead'.pc = srcRead.pc /\ srcRead'.first = srcRead.first
      /\ srcRead'.from = srcRead.from /\ srcRead'.there = srcRead.there
      /\ srcRead'.rest = srcRead.rest /\ srcRead'.at = srcRead.at
      /\ srcRead'.offset = srcRead.offset /\ srcRead'.max = srcRead.max
      /\ srcRead'.got = srcRead.got /\ srcRead'.missed = srcRead.missed
      /\ srcRead'.touched = srcRead.touched \union {r}
  BY <1>1, <1>2 DEF SrcShape, SrcReadings
<1>4. srcQuiet' \in BOOLEAN /\ (srcQuiet' => srcQuiet) /\ (srcKind \notin FragileKinds <=> srcQuiet')
  BY <1>1, <1>2 DEF SrcHistory
<1>5. /\ \A v \in Versions' : v = <<srcNow, r>> \/ (v \in Versions /\ v[2] # r)
      /\ \A v \in Versions : v[2] # r => v \in Versions'
  BY <1>1, <1>2, ChangedVersions
<1>6. SrcShape'
  <2>1. srcTime' \in [SrcRows -> Nat] /\ \A q \in SrcRows : srcTime'[q] <= srcNow
    BY <1>1, <1>2 DEF SrcShape
  <2> QED
    BY <1>1, <1>2, <1>3, <1>4, <2>1 DEF SrcShape
<1>7. srcKind \notin FullKinds /\ srcQuiet' => srcDelivered' = srcDelivered
  BY <1>2 DEF Delivered
<1>8. SrcHistory'
  <2>1. \A v \in srcRead'.there : v[2] \notin srcRead'.touched => v \in Versions'
    BY <1>1, <1>3, <1>5 DEF SrcHistory
  <2>2. srcQuiet' /\ srcKind' \notin FullKinds => srcRead'.got \subseteq srcDelivered'
    BY <1>1, <1>2, <1>3, <1>4, <1>7 DEF SrcHistory
  <2>3. srcRead'.missed => srcKind = "zoomSub" \/ (srcKind \in SkipKinds /\ ~srcQuiet')
    BY <1>1, <1>3, <1>4 DEF SrcHistory
  <2>4. ~(srcQuiet' /\ srcKind' \in FragileKinds)
    BY <1>2, <1>4
  <2> QED
    BY <1>1, <1>2, <1>3, <1>4, <2>1, <2>2, <2>3, <2>4 DEF SrcHistory
<1>9. SrcCovered'
  <2> SUFFICES ASSUME srcKind \notin FullKinds, srcQuiet',
                      NEW v \in Versions', v \notin srcDelivered'
               PROVE  Selects(srcRead.from, v) \/ v[1] \in srcTicks
    BY <1>2, <1>3 DEF SrcCovered, SrcSince, Selects
  <2>1. v \notin srcDelivered /\ srcQuiet
    BY <1>4, <1>7
  <2>2. srcKind \in StrictKinds => srcRead.from = srcState
    BY <1>1 DEF SrcHistory, StrictKinds, FullKinds
  <2>3. Selects(srcRead.from, <<srcNow, r>>) \/ srcNow \in srcTicks
    <3>1. srcRead.from \in Moments /\ srcRead.from[1] <= srcNow
      BY <1>1 DEF SrcShape, SrcReadings
    <3>2. srcKind \in StrictKinds => srcRead.from[1] \in srcTicks \union {0}
      BY <1>1, <2>2 DEF SrcHistory
    <3> QED
      BY <1>1, <3>1, <3>2, ChangeIsSelected
  <2>4. v \in Versions => Selects(srcRead.from, v) \/ v[1] \in srcTicks
    BY <1>1, <2>1 DEF SrcCovered, SrcSince
  <2> QED
    BY <1>5, <2>3, <2>4
<1>10. r \in srcRead'.touched /\ srcRead'.touched # {}
  BY <1>3
<1>a. <<srcNow, r>>[1] = srcNow /\ <<srcNow, r>>[2] = r
  OBVIOUS
<1>11. SrcProgress'
  <2>1. SrcQueried /\ SrcFetched /\ SrcPassed /\ SrcListed
    BY <1>1 DEF SrcProgress
  <2>2. SrcQueried'
    <3> SUFFICES ASSUME srcKind \in {"salesforce", "bigquery"}, ~srcRead.first,
                        NEW v \in Versions', Selects(srcRead.from, v)
                 PROVE  \/ v \in srcRead.got \union srcRead.rest
                        \/ /\ v[2] \in srcRead'.touched
                           /\ \A w \in srcRead.got \union srcRead.rest : w[1] <= v[1]
      BY <1>2, <1>3 DEF SrcQueried, Selects
    <3>1. CASE v = <<srcNow, r>>
      BY <1>1, <1>10, <1>a, <3>1 DEF SrcShape
    <3>2. CASE v \in Versions
      BY <1>3, <2>1, <3>2 DEF SrcQueried
    <3> QED
      BY <1>5, <3>1, <3>2
  <2>3. SrcFetched'
    <3> SUFFICES ASSUME srcKind \in {"s3", "zoom", "zoomSub"}, ~srcRead.first, ~srcRead.missed,
                        NEW v \in Versions', Selects(srcRead.from, v)
                 PROVE  v \in srcRead.got \union srcRead.rest \/ v[2] \in srcRead'.touched
      BY <1>2, <1>3 DEF SrcFetched, Selects
    <3>1. CASE v = <<srcNow, r>>
      BY <1>10, <1>a, <3>1
    <3>2. CASE v \in Versions
      BY <1>3, <2>1, <3>2 DEF SrcFetched
    <3> QED
      BY <1>5, <3>1, <3>2
  <2>4. SrcPassed'
    <3> SUFFICES ASSUME srcKind \in {"hubspot", "intercom", "gong", "zendesk"},
                        NEW v \in Versions', Selects(srcRead.from, v)
                 PROVE  \/ v \in srcRead.got
                        \/ Before(srcRead.at, v)
                        \/ v[2] \in srcRead'.touched /\ v[1] \in srcTicks
      BY <1>2, <1>3 DEF SrcPassed, Selects
    <3>1. CASE v = <<srcNow, r>>
      <4>1. srcRead.at[1] \in Nat /\ srcRead.at[1] <= srcNow /\ srcNow \in Nat
        BY <1>1 DEF SrcShape, SrcReadings, Moments
      <4>2. CASE srcRead.at[1] = srcNow
        <5>1. srcKind \notin FullKinds
          BY DEF FullKinds
        <5>2. srcNow \in srcTicks
          BY <1>1, <4>2, <5>1 DEF SrcHistory
        <5> QED
          BY <1>10, <1>a, <3>1, <5>2
      <4>3. CASE srcRead.at[1] < srcNow
        BY <1>a, <3>1, <4>3 DEF Before
      <4> QED
        BY <4>1, <4>2, <4>3
    <3>2. CASE v \in Versions
      BY <1>3, <2>1, <3>2 DEF SrcPassed
    <3> QED
      BY <1>5, <3>1, <3>2
  <2>5. SrcListed'
    <3> SUFFICES ASSUME srcKind \in RowKinds,
                        NEW v \in Versions'
                 PROVE  \/ v \in srcRead.got \/ Before(srcRead.at, <<0, v[2]>>)
                        \/ v[2] \in srcRead'.touched
      BY <1>2, <1>3 DEF SrcListed
    <3>1. CASE v = <<srcNow, r>>
      BY <1>10, <1>a, <3>1
    <3>2. CASE v \in Versions
      BY <1>3, <2>1, <3>2 DEF SrcListed
    <3> QED
      BY <1>5, <3>1, <3>2
  <2>6. SrcCounted' /\ SrcSorted'
    BY <1>10 DEF SrcCounted, SrcSorted
  <2> QED
    BY <2>2, <2>3, <2>4, <2>5, <2>6 DEF SrcProgress
<1>12. CleanReadIsComplete'
  BY <1>3 DEF CleanReadIsComplete
<1> QED
  BY <1>6, <1>8, <1>9, <1>11, <1>12 DEF SourcesIInv

(* The read that goes on with the locals n after the records of a page.     *)
Continues(n) ==
    /\ n \in SrcReadings /\ n.pc = "reading" /\ n.from = srcRead.from
    /\ n.there = srcRead.there /\ n.touched = srcRead.touched /\ n.got = srcRead.got
    /\ n.missed = srcRead.missed /\ n.at[1] <= srcNow /\ n.max <= srcNow
    /\ IsFiniteSet(n.rest) /\ \A v \in n.rest : v[1] <= srcNow /\ v[2] \in SrcRows

(* What is known of the locals after a page.                                *)
LEMMA EmitIs ==
  ASSUME SourcesIInv, srcRead.pc = "reading", NEW page, Listed(page),
         NEW n, Continues(n), Emit(page, n)
  PROVE  /\ UNCHANGED <<srcKind, srcTime, srcNow, srcState, srcQuiet>> /\ Versions' = Versions
         /\ srcRead' \in SrcReadings /\ srcRead'.pc = "reading" /\ srcRead'.first = FALSE
         /\ srcRead'.from = srcRead.from /\ srcRead'.there = srcRead.there
         /\ srcRead'.touched = srcRead.touched /\ srcRead'.got = srcRead.got \union page
         /\ srcRead'.missed = srcRead.missed /\ srcRead'.at = n.at /\ srcRead'.rest = n.rest
         /\ srcRead'.offset = n.offset
         /\ srcTicks \subseteq srcTicks' /\ (n.at[1] = srcNow => n.at[1] \in srcTicks')
         /\ srcRead'.max \in {n.max} \union {v[1] : v \in page}
<1>1. SrcShape
  BY DEF SourcesIInv
<1>2. page \subseteq Moments /\ IsFiniteSet(page)
  BY DEF Listed
<1>3. PICK m : m = SrcMax(n.max, page)
  OBVIOUS
<1>4. n \in SrcReadings /\ n.max \in Nat
  BY DEF Continues, SrcReadings
<1>5. m \in {n.max} \union {v[1] : v \in page}
  BY <1>2, <1>3, <1>4, SrcMaxIs
<1>6. m \in Nat
  BY <1>2, <1>4, <1>5 DEF Moments
<1>7. srcRead' = [n EXCEPT !.first = FALSE, !.got = @ \union page, !.max = m]
  BY <1>3 DEF Emit
<1>8. /\ srcRead' \in SrcReadings /\ srcRead'.pc = n.pc /\ srcRead'.from = n.from
      /\ srcRead'.there = n.there /\ srcRead'.touched = n.touched
      /\ srcRead'.missed = n.missed /\ srcRead'.rest = n.rest /\ srcRead'.at = n.at
      /\ srcRead'.offset = n.offset /\ srcRead'.first = FALSE
      /\ srcRead'.got = n.got \union page /\ srcRead'.max = m
  BY <1>2, <1>4, <1>6, <1>7 DEF SrcReadings
<1>9. UNCHANGED <<srcKind, srcTime, srcNow, srcState, srcQuiet>>
  BY DEF Emit
<1>10. Versions' = Versions
  BY <1>9 DEF Versions
<1>11. srcTicks \subseteq srcTicks' /\ (n.at[1] = srcNow => n.at[1] \in srcTicks')
  BY DEF Emit
<1> QED
  BY <1>5, <1>8, <1>9, <1>10, <1>11 DEF Continues

(* A page keeps the invariant if the read has come as far as it should.     *)
LEMMA EmitKept ==
  ASSUME SourcesIInv, srcRead.pc = "reading", NEW page, Listed(page),
         NEW n, Continues(n), Emit(page, n), n.max = srcRead.max,
         SrcProgress'
  PROVE  SourcesIInv'
<1>1. SrcShape /\ SrcHistory
  BY DEF SourcesIInv
<1>2. /\ UNCHANGED <<srcKind, srcTime, srcNow, srcState, srcQuiet>> /\ Versions' = Versions
      /\ srcRead' \in SrcReadings /\ srcRead'.pc = "reading" /\ srcRead'.first = FALSE
      /\ srcRead'.from = srcRead.from /\ srcRead'.there = srcRead.there
      /\ srcRead'.touched = srcRead.touched /\ srcRead'.got = srcRead.got \union page
      /\ srcRead'.missed = srcRead.missed /\ srcRead'.at = n.at /\ srcRead'.rest = n.rest
      /\ srcRead'.offset = n.offset
      /\ srcTicks \subseteq srcTicks' /\ (n.at[1] = srcNow => n.at[1] \in srcTicks')
      /\ srcRead'.max \in {n.max} \union {v[1] : v \in page}
  BY EmitIs
<1>3. Delivered(page)
  BY DEF Emit
<1>4. n.at[1] <= srcNow /\ n.max <= srcNow /\ IsFiniteSet(n.rest) /\ \A v \in n.rest : v[1] <= srcNow /\ v[2] \in SrcRows
  BY DEF Continues
<1>5. srcRead'.max <= srcNow
  BY <1>2, <1>4 DEF Listed
<1>6. srcKind \in {"salesforce", "bigquery"} =>
         srcRead'.max \in {0} \union {v[1] : v \in srcRead'.got}
  BY <1>1, <1>2 DEF SrcHistory
<1>7. srcQuiet' \in BOOLEAN /\ (srcQuiet' => srcQuiet) /\ (srcKind \notin FragileKinds => srcQuiet')
  BY <1>1, <1>2 DEF SrcShape, SrcHistory
<1>8. srcRead'.missed => srcKind = "zoomSub" \/ (srcKind \in SkipKinds /\ ~srcQuiet')
  BY <1>1, <1>2 DEF SrcHistory
<1>9. srcState' \in Moments /\ srcState'[1] <= srcNow /\ srcState' = srcState
  BY <1>1, <1>2 DEF SrcShape
<1>10. UNCHANGED <<srcKind, srcTime, srcNow>>
  BY <1>2
<1> QED
  BY <1>2, <1>3, <1>4, <1>5, <1>6, <1>7, <1>8, <1>9, <1>10, ReadGoesOn

(* The last page keeps it if all that was asked for is read by then, apart  *)
(* from rows that changed, and the state is one from which to go on.        *)
LEMMA EmitLastKept ==
  ASSUME SourcesIInv, srcRead.pc = "reading", NEW page, Listed(page),
         NEW state, state \in Moments, state[1] <= srcNow, EmitLast(page, state),
         ~srcRead.missed /\ srcKind # "pagesRoot"
         /\ (srcKind \in OffsetKinds => srcRead.touched = {}) =>
            \A v \in Versions :
               v[2] \notin srcRead.touched /\ Selects(srcRead.from, v) =>
                  v \in srcRead.got \union page,
         srcKind \notin FullKinds /\ srcQuiet =>
            \A v \in Versions :
               Selects(srcRead.from, v) =>
                  \/ v \in srcRead.got \union page
                  \/ Selects(state, v) \/ v[1] \in srcTicks
                  \/ srcKind \in StrictKinds /\ v[1] = state[1]
  PROVE  SourcesIInv'
<1>1. SrcShape /\ SrcHistory /\ SrcCovered
  BY DEF SourcesIInv
<1>2. /\ UNCHANGED <<srcKind, srcTime, srcNow>> /\ srcQuiet' = srcQuiet /\ Delivered(page)
      /\ srcState' = state
      /\ srcTicks' = srcTicks \union (IF srcKind \in StrictKinds THEN {state[1]} ELSE {})
  BY DEF EmitLast
<1>3. PICK n : n = [srcRead EXCEPT !.got = @ \union page]
  OBVIOUS
<1>4. page \subseteq Moments
  BY DEF Listed
<1>5. /\ n \in SrcReadings /\ n.from = srcRead.from /\ n.there = srcRead.there
      /\ n.touched = srcRead.touched /\ n.missed = srcRead.missed
      /\ n.got = srcRead.got \union page
  BY <1>1, <1>3, <1>4 DEF SrcShape, SrcReadings
<1>6. srcRead' = Ended(n)
  BY <1>3 DEF EmitLast
<1>7. /\ srcRead' \in SrcReadings /\ srcRead'.pc = "done"
      /\ srcRead'.rest = {} /\ srcRead'.at = NoState /\ srcRead'.max = 0
      /\ srcRead'.missed = srcRead.missed
      /\ srcRead.missed => srcRead'.got = {} /\ srcRead'.from = NoState
      /\ ~srcRead.missed => /\ srcRead'.from = srcRead.from /\ srcRead'.there = srcRead.there
                            /\ srcRead'.got = srcRead.got \union page
                            /\ srcRead'.touched = srcRead.touched
  BY <1>5, <1>6, EndedIs
<1>8. srcQuiet' \in BOOLEAN /\ (srcQuiet' => srcQuiet) /\ (srcKind \notin FragileKinds => srcQuiet')
  BY <1>1, <1>2 DEF SrcShape, SrcHistory
<1>9. srcTicks \subseteq srcTicks' /\ (srcKind \in StrictKinds => srcState'[1] \in srcTicks' \union {0})
  BY <1>2
<1>10. srcKind \notin FullKinds /\ srcQuiet' =>
          \A v \in Versions :
             \/ v \in srcDelivered \union page
             \/ Selects(srcState', v) \/ v[1] \in srcTicks'
  <2> SUFFICES ASSUME srcKind \notin FullKinds, srcQuiet, NEW v \in Versions,
                      v \notin srcDelivered, v \notin page
               PROVE  Selects(state, v) \/ v[1] \in srcTicks'
    BY <1>2
  <2>1. srcRead.got \subseteq srcDelivered
    BY <1>1 DEF SrcHistory
  <2>2. Selects(srcRead.from, v) \/ v[1] \in srcTicks
    BY <1>1 DEF SrcCovered, SrcSince
  <2> QED
    BY <1>2, <2>1, <2>2
<1>11. srcState' \in Moments /\ srcState'[1] <= srcNow
  BY <1>2
<1> QED
  BY <1>2, <1>7, <1>8, <1>9, <1>10, <1>11, ReadEnds

(* Each connector has come as far as its way to read says.                  *)
LEMMA ProgressBy ==
  ASSUME srcKind' = srcKind,
         srcKind \in {"salesforce", "bigquery"} => SrcQueried',
         srcKind \in {"s3", "zoom", "zoomSub"} => SrcFetched',
         srcKind \in {"hubspot", "intercom", "gong", "zendesk"} => SrcPassed',
         srcKind \in RowKinds => SrcListed',
         srcKind \in {"chorus", "pagesOffset"} => SrcCounted',
         srcKind \in {"snowflake", "snowflakeFull"} => SrcSorted'
  PROVE  SrcProgress'
<1>1. SrcQueried' /\ SrcFetched' /\ SrcPassed' /\ SrcListed'
  BY DEF SrcQueried, SrcFetched, SrcPassed, SrcListed
<1>2. SrcCounted' /\ SrcSorted'
  BY DEF SrcCounted, SrcSorted
<1> QED
  BY <1>1, <1>2 DEF SrcProgress

-----------------------------------------------------------------------------
(* The connectors that ask for a result once.                               *)

(* What the two kinds of filters select.                                    *)
LEMMA SelectsIs ==
  ASSUME NEW st, NEW v
  PROVE  /\ srcKind \in FullKinds => Selects(st, v)
         /\ srcKind \in {"salesforce", "intercom", "chorus", "snowflake", "bigquery", "s3"} =>
              (Selects(st, v) <=> v[1] > st[1])
         /\ srcKind \in {"hubspot", "gong", "zoom"} => (Selects(st, v) <=> v[1] >= st[1])
         /\ srcKind = "zendesk" => (Selects(st, v) <=> Before(st, v))
<1>1. srcKind \in {"salesforce", "intercom", "chorus", "snowflake", "bigquery", "s3"} =>
        /\ srcKind \notin FullKinds /\ srcKind # "zendesk" /\ srcKind \in StrictKinds
        /\ srcKind \notin {"hubspot", "gong", "zoom"}
  BY DEF FullKinds, StrictKinds
<1>2. srcKind \in {"hubspot", "gong", "zoom"} =>
        srcKind \notin FullKinds /\ srcKind # "zendesk" /\ srcKind \notin StrictKinds
  BY DEF FullKinds, StrictKinds
<1>3. srcKind = "zendesk" =>
        /\ srcKind \notin FullKinds /\ srcKind \notin {"hubspot", "gong", "zoom"}
  BY DEF FullKinds
<1> QED
  BY <1>1, <1>2, <1>3 DEF Selects

(* The state of the greatest time read.                                     *)
LEMMA MaxStateIs ==
  ASSUME SourcesIInv, NEW page, Listed(page)
  PROVE  /\ MaxState(page) \in Moments /\ MaxState(page)[1] <= srcNow
         /\ \/ MaxState(page) = srcState
            \/ \E x \in {srcRead.max} \union {v[1] : v \in page} :
                  x > 0 /\ MaxState(page) = <<x, 0>>
<1>1. SrcShape
  BY DEF SourcesIInv
<1>2. PICK m : m = SrcMax(srcRead.max, page)
  OBVIOUS
<1>3. srcRead.max \in Nat /\ srcRead.max <= srcNow
  BY <1>1 DEF SrcShape, SrcReadings
<1>4. m \in {srcRead.max} \union {v[1] : v \in page}
  BY <1>2, <1>3, SrcMaxIs DEF Listed
<1>5. m \in Nat /\ m <= srcNow
  BY <1>3, <1>4 DEF Listed, Moments
<1>6. MaxState(page) = IF m > 0 THEN <<m, 0>> ELSE srcState
  BY <1>2 DEF MaxState
<1> QED
  BY <1>1, <1>4, <1>5, <1>6 DEF SrcShape, Moments

(* What is left of a result, or all of it.                                  *)
QueryResult(result) ==
    result = IF srcRead.first THEN {v \in Versions : v[1] > srcRead.from[1]} ELSE srcRead.rest

(* All that was asked for is read, or in the result, or changed since.      *)
LEMMA QueryResultIs ==
  ASSUME SourcesIInv, srcRead.pc = "reading", srcKind \in {"salesforce", "bigquery"},
         NEW result, QueryResult(result)
  PROVE  /\ Listed(result)
         /\ \A v \in Versions : Selects(srcRead.from, v) =>
              \/ v \in srcRead.got \union result
              \/ /\ v[2] \in srcRead.touched
                 /\ \A w \in srcRead.got \union result : w[1] <= v[1]
<1>1. SrcShape /\ SrcHistory /\ SrcProgress
  BY DEF SourcesIInv
<1>2. CASE srcRead.first
  <2>1. result = {v \in Versions : v[1] > srcRead.from[1]}
    BY <1>2 DEF QueryResult
  <2>2. Listed(result)
    BY <1>1, <2>1, PartIs
  <2> QED
    BY <2>1, <2>2, SelectsIs
<1>3. CASE ~srcRead.first
  <2>1. result = srcRead.rest
    BY <1>3 DEF QueryResult
  <2>2. Listed(result)
    BY <1>1, <2>1 DEF Listed, SrcShape, SrcReadings
  <2> QED
    BY <1>1, <1>3, <2>1, <2>2 DEF SrcProgress, SrcQueried
<1> QED
  BY <1>2, <1>3

(* The locals with another rest.                                            *)
LEMMA RestReplaced ==
  ASSUME SourcesIInv, srcRead.pc = "reading", NEW rest, Listed(rest), NEW n,
         n = [srcRead EXCEPT !.rest = rest]
  PROVE  /\ Continues(n) /\ n.rest = rest /\ n.max = srcRead.max
<1>1. srcRead \in SrcReadings /\ SrcShape
  BY DEF SourcesIInv, SrcShape
<1>2. /\ n \in SrcReadings /\ n.pc = srcRead.pc /\ n.from = srcRead.from
      /\ n.there = srcRead.there /\ n.touched = srcRead.touched /\ n.got = srcRead.got
      /\ n.missed = srcRead.missed /\ n.at = srcRead.at /\ n.max = srcRead.max /\ n.rest = rest
  BY <1>1 DEF SrcReadings, Listed
<1> QED
  BY <1>1, <1>2 DEF Continues, Listed, SrcShape

(* A page of a result that was fixed.                                       *)
LEMMA QueryPageKept ==
  ASSUME SourcesIInv, srcRead.pc = "reading", srcKind \in {"salesforce", "bigquery"},
         NEW result, QueryResult(result), NEW page, page \subseteq result,
         Emit(page, [srcRead EXCEPT !.rest = result \ page])
  PROVE  SourcesIInv'
<1>1. /\ Listed(result)
      /\ \A v \in Versions : Selects(srcRead.from, v) =>
           \/ v \in srcRead.got \union result
           \/ /\ v[2] \in srcRead.touched
              /\ \A w \in srcRead.got \union result : w[1] <= v[1]
  BY QueryResultIs
<1>2. Listed(page) /\ Listed(result \ page)
  BY <1>1, RestIs
<1>3. PICK n : n = [srcRead EXCEPT !.rest = result \ page]
  OBVIOUS
<1>4. Continues(n) /\ n.rest = result \ page /\ n.max = srcRead.max
  BY <1>2, <1>3, RestReplaced
<1>5. Emit(page, n)
  BY <1>3
<1>6. /\ srcKind' = srcKind /\ Versions' = Versions /\ srcRead'.from = srcRead.from
      /\ srcRead'.touched = srcRead.touched /\ srcRead'.got = srcRead.got \union page
      /\ srcRead'.rest = n.rest
  BY <1>2, <1>4, <1>5, EmitIs
<1>7. srcRead'.got \union srcRead'.rest = srcRead.got \union result
  BY <1>4, <1>6
<1>8. SrcQueried'
  <2> SUFFICES ASSUME NEW v \in Versions, Selects(srcRead.from, v)
               PROVE  \/ v \in srcRead'.got \union srcRead'.rest
                      \/ /\ v[2] \in srcRead'.touched
                         /\ \A w \in srcRead'.got \union srcRead'.rest : w[1] <= v[1]
    BY <1>6 DEF SrcQueried, Selects
  <2> QED
    BY <1>1, <1>6, <1>7
<1>9. SrcProgress'
  BY <1>6, <1>8, ProgressBy DEF RowKinds, FullKinds
<1> QED
  BY <1>2, <1>4, <1>5, <1>9, EmitKept

(* The last page, and a state with the time of a record that was read.      *)
LEMMA QueryLastKept ==
  ASSUME SourcesIInv, srcRead.pc = "reading", srcKind \in {"salesforce", "bigquery"},
         NEW result, QueryResult(result), NEW state,
         \/ state = srcState
         \/ \E w \in srcRead.got \union result : state = <<w[1], 0>>,
         EmitLast(result, state)
  PROVE  SourcesIInv'
<1>1. /\ Listed(result)
      /\ \A v \in Versions : Selects(srcRead.from, v) =>
           \/ v \in srcRead.got \union result
           \/ /\ v[2] \in srcRead.touched
              /\ \A w \in srcRead.got \union result : w[1] <= v[1]
  BY QueryResultIs
<1>2. SrcShape /\ SrcHistory
  BY DEF SourcesIInv
<1>3. srcKind \in StrictKinds /\ srcKind \notin FullKinds /\ srcKind # "zoom"
  BY DEF StrictKinds, FullKinds
<1>4. \A w \in srcRead.got \union result : w[1] \in Nat /\ w[1] <= srcNow
  BY <1>1, <1>2 DEF Listed, SrcShape, SrcReadings, Moments
<1>5. state \in Moments /\ state[1] <= srcNow
  BY <1>2, <1>4 DEF SrcShape, Moments
<1>6. \A v \in Versions :
         Selects(srcRead.from, v) =>
            \/ v \in srcRead.got \union result
            \/ Selects(state, v) \/ v[1] \in srcTicks
            \/ srcKind \in StrictKinds /\ v[1] = state[1]
  <2> SUFFICES ASSUME NEW v \in Versions, Selects(srcRead.from, v),
                      v \notin srcRead.got \union result
               PROVE  Selects(state, v) \/ v[1] = state[1]
    BY <1>3
  <2>1. \A w \in srcRead.got \union result : w[1] <= v[1]
    BY <1>1
  <2>2. v[1] \in Nat
    BY <1>2, VersionsAre
  <2>3. CASE state = srcState
    BY <1>2, <1>3, <2>3 DEF SrcHistory
  <2>4. CASE \E w \in srcRead.got \union result : state = <<w[1], 0>>
    <3>1. PICK w \in srcRead.got \union result : state = <<w[1], 0>>
      BY <2>4
    <3>2. state[1] = w[1] /\ w[1] <= v[1] /\ w[1] \in Nat
      BY <1>4, <2>1, <3>1
    <3>3. v[1] > state[1] \/ v[1] = state[1]
      BY <2>2, <3>2
    <3> QED
      BY <3>3, SelectsIs
  <2> QED
    BY <2>3, <2>4
<1> QED
  BY <1>1, <1>5, <1>6, EmitLastKept

(* Salesforce reads the pages of one query.                                 *)
LEMMA SalesforceKept ==
  ASSUME SourcesIInv, SalesforceReadStream
  PROVE  SourcesIInv'
<1>1. srcRead.pc = "reading" /\ srcKind = "salesforce"
  BY DEF SalesforceReadStream, Reading
<1>2. PICK result : QueryResult(result)
  BY DEF QueryResult
<1>3. IF result # Page(result)
        THEN Emit(Page(result), [srcRead EXCEPT !.rest = result \ Page(result)])
        ELSE EmitLast(Page(result), MaxState(Page(result)))
  BY <1>2 DEF SalesforceReadStream, QueryResult
<1>4. Listed(result)
  BY <1>1, <1>2, QueryResultIs
<1>5. CASE result # Page(result)
  <2>1. Page(result) \subseteq result
    BY <1>4, PageIs DEF Listed
  <2> QED
    BY <1>1, <1>2, <1>3, <1>5, <2>1, QueryPageKept
<1>6. CASE result = Page(result)
  <2>1. EmitLast(result, MaxState(result))
    BY <1>3, <1>6
  <2>2. \/ MaxState(result) = srcState
        \/ \E w \in srcRead.got \union result : MaxState(result) = <<w[1], 0>>
    <3>1. srcRead.max \in {0} \union {v[1] : v \in srcRead.got}
      BY <1>1 DEF SourcesIInv, SrcHistory
    <3>2. CASE MaxState(result) = srcState
      BY <3>2
    <3>3. CASE MaxState(result) # srcState
      <4>1. PICK x \in {srcRead.max} \union {v[1] : v \in result} :
               x > 0 /\ MaxState(result) = <<x, 0>>
        BY <1>4, <3>3, MaxStateIs
      <4>2. x # 0
        BY <4>1
      <4>3. \E w \in srcRead.got \union result : x = w[1]
        BY <3>1, <4>1, <4>2
      <4> QED
        BY <4>1, <4>3
    <3> QED
      BY <3>2, <3>3
  <2>3. PICK state : state = MaxState(result)
    OBVIOUS
  <2> QED
    BY <1>1, <1>2, <2>1, <2>2, <2>3, QueryLastKept
<1> QED
  BY <1>5, <1>6

(* BigQuery reads the pages of one job; of a slow one none.                 *)
LEMMA BigQueryKept ==
  ASSUME SourcesIInv, BigQueryReadStream
  PROVE  SourcesIInv'
<1>1. srcRead.pc = "reading" /\ srcKind = "bigquery"
  BY DEF BigQueryReadStream, Reading
<1>2. PICK result : QueryResult(result)
  BY DEF QueryResult
<1>3. PICK Pages :
        /\ Pages = IF srcRead.from = NoState
                     THEN {p \in SUBSET result : Cardinality(p) =
                              IF Cardinality(result) < SrcPageSize
                                THEN Cardinality(result) ELSE SrcPageSize}
                     ELSE {Page(result)}
  OBVIOUS
<1>4. Listed(result)
  BY <1>1, <1>2, QueryResultIs
<1>5. \A page \in Pages : page \subseteq result
  BY <1>3, <1>4, PageIs DEF Listed
<1>6. \/ \E page \in Pages :
           IF result # page THEN Emit(page, [srcRead EXCEPT !.rest = result \ page])
           ELSE \E last \in IF page = {} THEN {srcState}
                            ELSE IF srcRead.from = NoState THEN page
                            ELSE {LastOf(page)} :
                   EmitLast(page, IF page = {} THEN srcState ELSE <<last[1], 0>>)
      \/ \E job \in WaitForJob :
         /\ srcRead.first
         /\ srcRead' = IF job = "done" THEN Ended([srcRead EXCEPT !.missed = TRUE])
                                       ELSE NotReading("failed")
         /\ UNCHANGED <<srcKind, srcTime, srcNow, srcState, srcTicks, srcReads,
                        srcQuiet, srcDelivered>>
  BY <1>2, <1>3 DEF BigQueryReadStream, QueryResult
<1>7. ASSUME NEW page \in Pages, result # page,
             Emit(page, [srcRead EXCEPT !.rest = result \ page])
      PROVE  SourcesIInv'
  BY <1>1, <1>2, <1>5, <1>7, QueryPageKept
<1>8. ASSUME NEW page \in Pages, result = page,
             NEW last \in IF page = {} THEN {srcState}
                          ELSE IF srcRead.from = NoState THEN page
                          ELSE {LastOf(page)},
             EmitLast(page, IF page = {} THEN srcState ELSE <<last[1], 0>>)
      PROVE  SourcesIInv'
  <2>1. PICK state : state = IF page = {} THEN srcState ELSE <<last[1], 0>>
    OBVIOUS
  <2>2. page # {} => last \in page
    BY <1>4, <1>8, LastIs DEF Listed
  <2>3. state = srcState \/ \E w \in srcRead.got \union result : state = <<w[1], 0>>
    BY <1>8, <2>1, <2>2
  <2>4. EmitLast(result, state)
    BY <1>8, <2>1
  <2> QED
    BY <1>1, <1>2, <2>3, <2>4, QueryLastKept
<1>9. ASSUME NEW job \in WaitForJob,
             srcRead' = IF job = "done" THEN Ended([srcRead EXCEPT !.missed = TRUE])
                                        ELSE NotReading("failed"),
             UNCHANGED <<srcKind, srcTime, srcNow, srcState, srcTicks, srcReads,
                         srcQuiet, srcDelivered>>
      PROVE  SourcesIInv'
  <2>1. SrcShape /\ SrcHistory /\ SrcCovered
    BY DEF SourcesIInv
  <2>2. /\ srcRead' \in SrcReadings /\ srcRead'.pc \in {"done", "failed"}
        /\ srcRead'.got = {} /\ srcRead'.rest = {} /\ srcRead'.from = NoState
        /\ srcRead'.at = NoState /\ srcRead'.max = 0
        /\ srcRead'.pc = "done" => srcRead'.missed
    <3>1. PICK n : n = [srcRead EXCEPT !.missed = TRUE]
      OBVIOUS
    <3>2. n \in SrcReadings /\ n.missed = TRUE
      BY <2>1, <3>1 DEF SrcShape, SrcReadings
    <3>3. CASE job = "done"
      <4>1. srcRead' = Ended(n)
        BY <1>9, <3>1, <3>3
      <4> QED
        BY <3>2, <4>1, EndedIs
    <3>4. CASE job # "done"
      BY <1>9, <3>4, NotReadingIs
    <3> QED
      BY <3>3, <3>4
  <2>3. srcKind \notin FullKinds /\ srcKind \notin FragileKinds /\ srcKind # "zoom"
    BY <1>1 DEF FullKinds, FragileKinds
  <2>4. srcQuiet = TRUE /\ srcQuiet' = srcQuiet
    BY <1>9, <2>1, <2>3 DEF SrcShape, SrcHistory
  <2>5. Delivered({})
    BY <1>9, <2>3, <2>4 DEF Delivered
  <2>6. Listed({})
    BY FS_EmptySet DEF Listed
  <2>7. \A v \in Versions :
           v \in srcDelivered \union {} \/ Selects(srcState', v) \/ v[1] \in srcTicks'
    BY <1>1, <1>9, <2>1, <2>3, <2>4 DEF SrcCovered, SrcSince, SrcHistory
  <2>8. srcState' \in Moments /\ srcState'[1] <= srcNow
    BY <1>9, <2>1 DEF SrcShape
  <2>9. srcKind \in StrictKinds => srcState'[1] \in srcTicks' \union {0}
    BY <1>9, <2>1 DEF SrcHistory
  <2>10. srcTicks \subseteq srcTicks' /\ UNCHANGED <<srcKind, srcTime, srcNow>>
    BY <1>9
  <2> QED
    BY <1>1, <2>2, <2>4, <2>5, <2>6, <2>7, <2>8, <2>9, <2>10, ReadEnds
<1> QED
  BY <1>6, <1>7, <1>8, <1>9

-----------------------------------------------------------------------------
(* The connectors that go on from a place in an order.                      *)

(* The locals with another place.                                           *)
LEMMA PlaceReplaced ==
  ASSUME SourcesIInv, srcRead.pc = "reading", NEW at \in Moments, at[1] <= srcNow, NEW n,
         n = [srcRead EXCEPT !.at = at]
  PROVE  Continues(n) /\ n.at = at /\ n.max = srcRead.max
<1>1. srcRead \in SrcReadings /\ SrcShape
  BY DEF SourcesIInv, SrcShape
<1>2. /\ n \in SrcReadings /\ n.pc = srcRead.pc /\ n.from = srcRead.from
      /\ n.there = srcRead.there /\ n.touched = srcRead.touched /\ n.got = srcRead.got
      /\ n.missed = srcRead.missed /\ n.at = at /\ n.max = srcRead.max /\ n.rest = srcRead.rest
  BY <1>1 DEF SrcReadings
<1> QED
  BY <1>1, <1>2 DEF Continues, SrcShape

(* What is to come in the order of time, of all that was asked for.         *)
Todo(todo) ==
    /\ todo \subseteq Versions
    /\ \A v \in Versions : Selects(srcRead.from, v) /\ Before(srcRead.at, v) => v \in todo

TimeKinds == {"hubspot", "intercom", "gong", "zendesk"}

(* A page in the order of time.                                             *)
LEMMA PlacePageKept ==
  ASSUME SourcesIInv, srcRead.pc = "reading", srcKind \in TimeKinds,
         NEW todo, Todo(todo), Page(todo) # todo,
         Emit(Page(todo), [srcRead EXCEPT !.at = LastOf(Page(todo))])
  PROVE  SourcesIInv'
<1>1. SrcShape /\ SrcProgress
  BY DEF SourcesIInv
<1>2. todo \subseteq Moments /\ IsFiniteSet(todo) /\ Listed(todo)
  BY <1>1, PartIs DEF Todo
<1>3. PICK page : page = Page(todo)
  OBVIOUS
<1>4. /\ page \subseteq todo /\ IsFiniteSet(page) /\ page # {}
      /\ \A v \in todo \ page : Before(LastOf(page), v)
  BY <1>2, <1>3, PageIs
<1>5. Listed(page)
  BY <1>2, <1>4, RestIs
<1>6. LastOf(page) \in page
  BY <1>4, <1>5, LastIs DEF Listed
<1>7. LastOf(page) \in Moments /\ LastOf(page)[1] <= srcNow
  BY <1>5, <1>6 DEF Listed
<1>8. PICK n : n = [srcRead EXCEPT !.at = LastOf(page)]
  OBVIOUS
<1>9. Continues(n) /\ n.at = LastOf(page) /\ n.max = srcRead.max
  BY <1>7, <1>8, PlaceReplaced
<1>10. Emit(page, n)
  BY <1>3, <1>8
<1>11. /\ srcKind' = srcKind /\ Versions' = Versions /\ srcRead'.from = srcRead.from
       /\ srcRead'.touched = srcRead.touched /\ srcRead'.got = srcRead.got \union page
       /\ srcRead'.at = n.at /\ srcTicks \subseteq srcTicks'
  BY <1>5, <1>9, <1>10, EmitIs
<1>12. SrcPassed'
  <2> SUFFICES ASSUME NEW v \in Versions, Selects(srcRead.from, v)
               PROVE  \/ v \in srcRead.got \union page
                      \/ Before(LastOf(page), v)
                      \/ v[2] \in srcRead.touched /\ v[1] \in srcTicks
    BY <1>9, <1>11 DEF SrcPassed, Selects
  <2>1. \/ v \in srcRead.got \/ Before(srcRead.at, v)
        \/ v[2] \in srcRead.touched /\ v[1] \in srcTicks
    BY <1>1 DEF SrcProgress, SrcPassed, TimeKinds
  <2>2. Before(srcRead.at, v) => v \in todo
    BY DEF Todo
  <2> QED
    BY <1>4, <2>1, <2>2
<1>13. SrcProgress'
  BY <1>11, <1>12, ProgressBy DEF RowKinds, FullKinds, TimeKinds
<1> QED
  BY <1>5, <1>9, <1>10, <1>13, EmitKept

(* The last page in the order of time.                                      *)
LEMMA PlaceLastKept ==
  ASSUME SourcesIInv, srcRead.pc = "reading", srcKind \in TimeKinds,
         NEW todo, Todo(todo), NEW state \in Moments, state[1] <= srcNow,
         EmitLast(todo, state)
  PROVE  SourcesIInv'
<1>1. SrcShape /\ SrcProgress
  BY DEF SourcesIInv
<1>2. Listed(todo)
  BY <1>1, PartIs DEF Todo
<1>3. \A v \in Versions : Selects(srcRead.from, v) =>
         \/ v \in srcRead.got \union todo
         \/ v[2] \in srcRead.touched /\ v[1] \in srcTicks
  <2> SUFFICES ASSUME NEW v \in Versions, Selects(srcRead.from, v)
               PROVE  \/ v \in srcRead.got \union todo
                      \/ v[2] \in srcRead.touched /\ v[1] \in srcTicks
    OBVIOUS
  <2>1. \/ v \in srcRead.got \/ Before(srcRead.at, v)
        \/ v[2] \in srcRead.touched /\ v[1] \in srcTicks
    BY <1>1 DEF SrcProgress, SrcPassed, TimeKinds
  <2> QED
    BY <2>1 DEF Todo
<1> QED
  BY <1>2, <1>3, EmitLastKept

(* A listing paged by a token for the place.                                *)
LEMMA KeysetKept ==
  ASSUME SourcesIInv, srcRead.pc = "reading", srcKind \in TimeKinds,
         NEW selected, selected \subseteq Versions,
         \A v \in Versions : Selects(srcRead.from, v) => v \in selected,
         Keyset(selected)
  PROVE  SourcesIInv'
<1>1. PICK todo : todo = {v \in selected : Before(srcRead.at, v)}
  OBVIOUS
<1>2. Todo(todo)
  BY <1>1 DEF Todo
<1>3. IF Page(todo) # todo
        THEN Emit(Page(todo), [srcRead EXCEPT !.at = LastOf(Page(todo))])
        ELSE EmitLast(Page(todo), MaxState(Page(todo)))
  BY <1>1 DEF Keyset
<1>4. CASE Page(todo) # todo
  BY <1>2, <1>3, <1>4, PlacePageKept
<1>5. CASE Page(todo) = todo
  <2>1. EmitLast(todo, MaxState(todo))
    BY <1>3, <1>5
  <2>2. Listed(todo)
    BY <1>2, PartIs DEF Todo, SourcesIInv
  <2>3. MaxState(todo) \in Moments /\ MaxState(todo)[1] <= srcNow
    BY <2>2, MaxStateIs
  <2> QED
    BY <1>2, <2>1, <2>3, PlaceLastKept
<1> QED
  BY <1>4, <1>5

(* HubSpot, Intercom and Gong search from the state on.                     *)
LEMMA SearchKept ==
  ASSUME SourcesIInv, HubspotReadViaSearch \/ IntercomReadViaSearch \/ GongReadViaPOST
  PROVE  SourcesIInv'
<1>1. CASE HubspotReadViaSearch
  <2>1. srcRead.pc = "reading" /\ srcKind = "hubspot"
    BY <1>1 DEF HubspotReadViaSearch, Reading
  <2>2. PICK S : S = {v \in Versions : v[1] >= srcRead.from[1]}
    OBVIOUS
  <2>3. Keyset(S) /\ S \subseteq Versions
    BY <1>1, <2>2 DEF HubspotReadViaSearch
  <2>4. \A v \in Versions : Selects(srcRead.from, v) => v \in S
    BY <2>1, <2>2, SelectsIs
  <2> QED
    BY <2>1, <2>3, <2>4, KeysetKept DEF TimeKinds
<1>2. CASE IntercomReadViaSearch
  <2>1. srcRead.pc = "reading" /\ srcKind = "intercom"
    BY <1>2 DEF IntercomReadViaSearch, Reading
  <2>2. PICK S : S = {v \in Versions : v[1] > srcRead.from[1]}
    OBVIOUS
  <2>3. Keyset(S) /\ S \subseteq Versions
    BY <1>2, <2>2 DEF IntercomReadViaSearch
  <2>4. \A v \in Versions : Selects(srcRead.from, v) => v \in S
    BY <2>1, <2>2, SelectsIs
  <2> QED
    BY <2>1, <2>3, <2>4, KeysetKept DEF TimeKinds
<1>3. CASE GongReadViaPOST
  <2>1. srcRead.pc = "reading" /\ srcKind = "gong"
    BY <1>3 DEF GongReadViaPOST, Reading
  <2>2. PICK S : S = {v \in Versions : v[1] >= srcRead.from[1] /\ v[1] <= srcNow}
    OBVIOUS
  <2>3. Keyset(S) /\ S \subseteq Versions
    BY <1>3, <2>2 DEF GongReadViaPOST
  <2>4. \A v \in Versions : v[1] <= srcNow
    BY VersionsAre DEF SourcesIInv
  <2>5. \A v \in Versions : Selects(srcRead.from, v) => v \in S
    BY <2>1, <2>2, <2>4, SelectsIs
  <2> QED
    BY <2>1, <2>3, <2>5, KeysetKept DEF TimeKinds
<1> QED
  BY <1>1, <1>2, <1>3

(* Zendesk goes on from the cursor of the last page.                        *)
LEMMA ZendeskKept ==
  ASSUME SourcesIInv, ZendeskReadIncremental
  PROVE  SourcesIInv'
<1>1. srcRead.pc = "reading" /\ srcKind = "zendesk" /\ srcKind \in TimeKinds
  BY DEF ZendeskReadIncremental, Reading, TimeKinds
<1>2. PICK todo : todo = {v \in Versions : Before(srcRead.at, v)}
  OBVIOUS
<1>3. PICK after : after = IF Page(todo) = {} THEN srcRead.at ELSE LastOf(Page(todo))
  OBVIOUS
<1>4. IF Page(todo) # todo THEN Emit(Page(todo), [srcRead EXCEPT !.at = after])
                           ELSE EmitLast(Page(todo), after)
  BY <1>2, <1>3 DEF ZendeskReadIncremental
<1>5. Todo(todo)
  BY <1>2 DEF Todo
<1>6. Listed(todo) /\ SrcShape
  BY <1>5, PartIs DEF Todo, SourcesIInv
<1>7. CASE Page(todo) # todo
  <2>1. Page(todo) # {}
    BY <1>6, <1>7, PageIs DEF Listed
  <2> QED
    BY <1>1, <1>3, <1>4, <1>5, <1>7, <2>1, PlacePageKept
<1>8. CASE Page(todo) = todo
  <2>1. after \in Moments /\ after[1] <= srcNow
    <3>1. srcRead.at \in Moments /\ srcRead.at[1] <= srcNow
      BY <1>6 DEF SrcShape, SrcReadings
    <3>2. todo # {} => LastOf(todo) \in todo
      BY <1>6, LastIs DEF Listed
    <3> QED
      BY <1>3, <1>6, <1>8, <3>1, <3>2 DEF Listed
  <2>2. EmitLast(todo, after)
    BY <1>4, <1>8
  <2> QED
    BY <1>1, <1>5, <2>1, <2>2, PlaceLastKept
<1> QED
  BY <1>7, <1>8

(* The keys that are to come, and their page.                               *)
LEMMA KeysToCome ==
  ASSUME SourcesIInv, srcRead.pc = "reading", srcKind \in RowKinds,
         NEW todo, todo = {k \in RowKeys : Before(srcRead.at, k)}
  PROVE  /\ Page(todo) \subseteq todo /\ Listed(OfKeys(Page(todo)))
         /\ Page(todo) # todo => LastOf(Page(todo)) \in Moments /\ LastOf(Page(todo))[1] = 0
         /\ \A v \in Versions :
              \/ v \in srcRead.got \union OfKeys(Page(todo))
              \/ Page(todo) # todo /\ Before(LastOf(Page(todo)), <<0, v[2]>>)
              \/ v[2] \in srcRead.touched
<1>1. SrcShape /\ SrcProgress
  BY DEF SourcesIInv
<1>2. /\ RowKeys \subseteq Moments /\ IsFiniteSet(RowKeys)
      /\ \A v \in Versions : <<0, v[2]>> \in RowKeys
      /\ \A k \in RowKeys : k[1] = 0
  BY <1>1, KeysAre
<1>3. todo \in SUBSET RowKeys
  OBVIOUS
<1>4. IsFiniteSet(todo) /\ todo \subseteq Moments
  BY <1>2, <1>3, FS_Subset
<1>5. PICK page : page = Page(todo)
  OBVIOUS
<1>6. /\ page \subseteq todo /\ IsFiniteSet(page) /\ (todo # {} => page # {})
      /\ \A v \in todo \ page : Before(LastOf(page), v)
  BY <1>4, <1>5, PageIs
<1>7. page # todo => LastOf(page) \in page
  BY <1>4, <1>6, LastIs
<1>8. Listed(OfKeys(page))
  BY <1>1, PartIs DEF OfKeys
<1>9. ASSUME NEW v \in Versions
      PROVE  \/ v \in srcRead.got \union OfKeys(page)
             \/ page # todo /\ Before(LastOf(page), <<0, v[2]>>)
             \/ v[2] \in srcRead.touched
  <2>1. PICK k : k = <<0, v[2]>>
    OBVIOUS
  <2>2. v \in srcRead.got \/ Before(srcRead.at, k) \/ v[2] \in srcRead.touched
    BY <1>1, <2>1 DEF SrcProgress, SrcListed, RowKinds
  <2>3. k \in RowKeys
    BY <1>2, <2>1
  <2>4. k \in page => v \in OfKeys(page)
    BY <2>1 DEF OfKeys
  <2> QED
    BY <1>6, <2>1, <2>2, <2>3, <2>4
<1> QED
  BY <1>2, <1>3, <1>4, <1>5, <1>6, <1>7, <1>8, <1>9

(* A page in the order of rows; or the listing begins again.                *)
LEMMA RowPageKept ==
  ASSUME SourcesIInv, srcRead.pc = "reading", srcKind \in RowKinds,
         NEW todo, todo = {k \in RowKeys : Before(srcRead.at, k)},
         NEW at, at = IF Page(todo) # todo THEN LastOf(Page(todo)) ELSE NoState,
         NEW n, Continues(n), n.at = at, n.max = srcRead.max,
         Emit(OfKeys(Page(todo)), n)
  PROVE  SourcesIInv'
<1>1. SrcShape
  BY DEF SourcesIInv
<1>2. PICK page : page = OfKeys(Page(todo))
  OBVIOUS
<1>3. Listed(page) /\ Emit(page, n)
  BY <1>2, KeysToCome
<1>4. /\ srcKind' = srcKind /\ Versions' = Versions
      /\ srcRead'.touched = srcRead.touched /\ srcRead'.got = srcRead.got \union page
      /\ srcRead'.at = at
  BY <1>3, EmitIs
<1>5. SrcListed'
  <2> SUFFICES ASSUME NEW v \in Versions
               PROVE  \/ v \in srcRead.got \union page \/ Before(at, <<0, v[2]>>)
                      \/ v[2] \in srcRead.touched
    BY <1>4 DEF SrcListed
  <2>1. \/ v \in srcRead.got \union page
        \/ Page(todo) # todo /\ Before(LastOf(Page(todo)), <<0, v[2]>>)
        \/ v[2] \in srcRead.touched
    BY <1>2, KeysToCome
  <2>2. Before(NoState, <<0, v[2]>>)
    <3>1. v[2] \in Nat \ {0}
      BY <1>1, VersionsAre, SourcesAssumption
    <3> QED
      BY <3>1 DEF Before, NoState
  <2> QED
    BY <2>1, <2>2
<1>6. /\ srcKind \notin {"chorus", "pagesOffset"}
      /\ srcKind \notin {"snowflake", "snowflakeFull"}
      /\ srcKind \notin {"salesforce", "bigquery"}
      /\ srcKind \notin {"s3", "zoom", "zoomSub"}
      /\ srcKind \notin {"hubspot", "intercom", "gong", "zendesk"}
  BY DEF RowKinds, FullKinds
<1>7. SrcProgress'
  BY <1>4, <1>5, <1>6, ProgressBy
<1> QED
  BY <1>3, <1>7, EmitKept

(* The last page in the order of rows.                                      *)
LEMMA RowLastKept ==
  ASSUME SourcesIInv, srcRead.pc = "reading", srcKind \in RowKinds,
         NEW todo, todo = {k \in RowKeys : Before(srcRead.at, k)}, Page(todo) = todo,
         EmitLast(OfKeys(Page(todo)), srcState)
  PROVE  SourcesIInv'
<1>1. PICK page : page = OfKeys(Page(todo))
  OBVIOUS
<1>2. /\ Listed(page)
      /\ \A v \in Versions : v \in srcRead.got \union page \/ v[2] \in srcRead.touched
  BY <1>1, KeysToCome
<1>3. srcKind \in FullKinds
  BY DEF RowKinds
<1>4. srcState \in Moments /\ srcState[1] <= srcNow
  BY DEF SourcesIInv, SrcShape
<1>5. EmitLast(page, srcState)
  BY <1>1
<1> QED
  BY <1>2, <1>3, <1>4, <1>5, EmitLastKept

(* A listing by rows.                                                       *)
LEMMA ListKept ==
  ASSUME SourcesIInv, srcRead.pc = "reading", srcKind \in RowKinds, ListPage
  PROVE  SourcesIInv'
<1>1. PICK todo : todo = {k \in RowKeys : Before(srcRead.at, k)}
  OBVIOUS
<1>2. IF Page(todo) # todo
        THEN Emit(OfKeys(Page(todo)), [srcRead EXCEPT !.at = LastOf(Page(todo))])
        ELSE EmitLast(OfKeys(Page(todo)), srcState)
  BY <1>1 DEF ListPage
<1>3. CASE Page(todo) # todo
  <2>1. PICK n : n = [srcRead EXCEPT !.at = LastOf(Page(todo))]
    OBVIOUS
  <2>2. LastOf(Page(todo)) \in Moments /\ LastOf(Page(todo))[1] <= srcNow
    <3>1. LastOf(Page(todo)) \in Moments /\ LastOf(Page(todo))[1] = 0
      BY <1>1, <1>3, KeysToCome
    <3>2. srcNow \in Nat
      BY DEF SourcesIInv, SrcShape
    <3> QED
      BY <3>1, <3>2
  <2>3. Continues(n) /\ n.at = LastOf(Page(todo)) /\ n.max = srcRead.max
    BY <2>1, <2>2, PlaceReplaced
  <2>4. Emit(OfKeys(Page(todo)), n)
    BY <1>2, <1>3, <2>1
  <2> QED
    BY <1>1, <1>3, <2>3, <2>4, RowPageKept
<1>4. CASE Page(todo) = todo
  BY <1>1, <1>2, <1>4, RowLastKept
<1> QED
  BY <1>3, <1>4

(* A scroll parameter that repeats ends the read, which knows it missed rows.*)
LEMMA ScrollRepeatKept ==
  ASSUME SourcesIInv, IntercomReadViaScroll, ~ListPage
  PROVE  SourcesIInv'
<1>1. /\ srcRead.pc = "reading" /\ srcKind = "intercomScroll"
      /\ srcRead' = Ended([srcRead EXCEPT !.missed = TRUE])
      /\ UNCHANGED <<srcKind, srcTime, srcNow, srcState, srcTicks, srcQuiet, srcDelivered>>
  BY DEF IntercomReadViaScroll, Reading
<1>2. SrcShape /\ SrcHistory
  BY DEF SourcesIInv
<1>3. PICK n : n = [srcRead EXCEPT !.missed = TRUE]
  OBVIOUS
<1>4. n \in SrcReadings /\ n.missed = TRUE
  BY <1>2, <1>3 DEF SrcShape, SrcReadings
<1>5. srcRead' = Ended(n)
  BY <1>1, <1>3
<1>6. /\ srcRead' \in SrcReadings /\ srcRead'.pc = "done" /\ srcRead'.missed
      /\ srcRead'.got = {} /\ srcRead'.rest = {} /\ srcRead'.from = NoState
      /\ srcRead'.at = NoState /\ srcRead'.max = 0
  BY <1>4, <1>5, EndedIs
<1>7. srcKind \in FullKinds /\ srcKind \notin StrictKinds
  BY <1>1 DEF FullKinds, StrictKinds
<1>8. srcDelivered' = srcDelivered /\ UNCHANGED <<srcKind, srcTime, srcNow>>
  BY <1>1
<1>9. Versions' = Versions
  BY <1>8 DEF Versions
<1>10. SrcShape'
  <2>1. /\ IsFiniteSet(srcRead'.rest) /\ srcRead'.from[1] <= srcNow /\ srcRead'.at[1] <= srcNow
        /\ srcRead'.max <= srcNow
    BY <1>2, <1>6, FS_EmptySet DEF NoState, SrcShape
  <2> QED
    BY <1>1, <1>2, <1>6, <2>1 DEF SrcShape
<1>11. SrcHistory'
  BY <1>1, <1>2, <1>6, <1>7 DEF SrcHistory
<1> QED
  BY <1>1, <1>6, <1>7, <1>10, <1>11 DEF SourcesIInv, SrcCovered, SrcProgress,
     CleanReadIsComplete

(* The listings of the connectors, and the pages of links.                  *)
LEMMA ListingsKept ==
  ASSUME SourcesIInv,
         \/ ZendeskReadFullRefresh \/ IntercomReadViaScroll
         \/ IntercomReadViaCursorPagination \/ GongReadViaGET \/ HubspotReadViaList
         \/ LinkPages
  PROVE  SourcesIInv'
<1>1. /\ srcRead.pc = "reading"
      /\ srcKind \in {"zendeskFull", "intercomScroll", "intercomList", "gongGet",
                      "hubspotList", "pagesLink"}
      /\ ListPage \/ (IntercomReadViaScroll /\ ~ListPage)
  BY DEF ZendeskReadFullRefresh, IntercomReadViaScroll, IntercomReadViaCursorPagination,
         GongReadViaGET, HubspotReadViaList, LinkPages, Reading
<1> QED
  BY <1>1, ListKept, ScrollRepeatKept DEF RowKinds, FullKinds

(* The pages of a cursor.                                                   *)
LEMMA CursorKept ==
  ASSUME SourcesIInv, NEW end \in {"absent", "null"}, CursorPages(end)
  PROVE  SourcesIInv'
<1>1. srcRead.pc = "reading" /\ srcKind \in RowKinds
  BY DEF CursorPages, Reading, RowKinds, FullKinds
<1>2. PICK todo : todo = {k \in RowKeys : Before(srcRead.at, k)}
  OBVIOUS
<1>3. PICK at : at = IF Page(todo) # todo THEN LastOf(Page(todo)) ELSE NoState
  OBVIOUS
<1>4. IF CursorNextPage(IF Page(todo) # todo THEN "next" ELSE end)
        THEN Emit(OfKeys(Page(todo)), [srcRead EXCEPT !.at = at])
        ELSE EmitLast(OfKeys(Page(todo)), srcState)
  BY <1>2, <1>3 DEF CursorPages, StreamPages
<1>5. CASE CursorNextPage(IF Page(todo) # todo THEN "next" ELSE end)
  <2>1. PICK n : n = [srcRead EXCEPT !.at = at]
    OBVIOUS
  <2>2. at \in Moments /\ at[1] <= srcNow
    <3>1. Page(todo) # todo => LastOf(Page(todo)) \in Moments /\ LastOf(Page(todo))[1] = 0
      BY <1>1, <1>2, KeysToCome
    <3>2. srcNow \in Nat /\ NoState \in Moments /\ NoState[1] = 0
      BY DEF SourcesIInv, SrcShape, NoState, Moments
    <3> QED
      BY <1>3, <3>1, <3>2
  <2>3. Continues(n) /\ n.at = at /\ n.max = srcRead.max
    BY <1>1, <2>1, <2>2, PlaceReplaced
  <2>4. Emit(OfKeys(Page(todo)), n)
    BY <1>4, <1>5, <2>1
  <2> QED
    BY <1>1, <1>2, <1>3, <2>3, <2>4, RowPageKept
<1>6. CASE ~CursorNextPage(IF Page(todo) # todo THEN "next" ELSE end)
  <2>1. Page(todo) = todo
    <3>1. CursorNextPage("next")
      BY DEF CursorNextPage, extractNestedString
    <3> QED
      BY <1>6, <3>1
  <2> QED
    BY <1>1, <1>2, <1>4, <1>6, <2>1, RowLastKept
<1> QED
  BY <1>5, <1>6

(* The pages of a cursor in the body of a request.                          *)
LEMMA PostKept ==
  ASSUME SourcesIInv, NEW end \in {"absent", "null"}, FetchAllPagesPost(end)
  PROVE  SourcesIInv'
<1>1. srcRead.pc = "reading" /\ srcKind \in RowKinds
  BY DEF FetchAllPagesPost, Reading, RowKinds, FullKinds
<1>2. PICK todo : todo = {k \in RowKeys : Before(srcRead.at, k)}
  OBVIOUS
<1>3. PICK at : at = IF Page(todo) # todo THEN LastOf(Page(todo)) ELSE NoState
  OBVIOUS
<1>4. PICK offset : offset = IF Page(todo) # todo THEN 0 ELSE 1
  OBVIOUS
<1>5. PICK cursor : cursor = extractNestedString(IF Page(todo) # todo THEN "next" ELSE end)
  OBVIOUS
<1>6. IF cursor = "" \/ (cursor = "<nil>" /\ srcRead.offset = 1)
        THEN EmitLast(OfKeys(Page(todo)), srcState)
        ELSE Emit(OfKeys(Page(todo)), [srcRead EXCEPT !.offset = offset, !.at = at])
  BY <1>2, <1>3, <1>4, <1>5 DEF FetchAllPagesPost
<1>7. Page(todo) # todo => cursor = "next"
  BY <1>5 DEF extractNestedString
<1>8. CASE ~(cursor = "" \/ (cursor = "<nil>" /\ srcRead.offset = 1))
  <2>1. PICK n : n = [srcRead EXCEPT !.offset = offset, !.at = at]
    OBVIOUS
  <2>2. at \in Moments /\ at[1] <= srcNow
    <3>1. Page(todo) # todo => LastOf(Page(todo)) \in Moments /\ LastOf(Page(todo))[1] = 0
      BY <1>1, <1>2, KeysToCome
    <3>2. srcNow \in Nat /\ NoState \in Moments /\ NoState[1] = 0
      BY DEF SourcesIInv, SrcShape, NoState, Moments
    <3> QED
      BY <1>3, <3>1, <3>2
  <2>3. Continues(n) /\ n.at = at /\ n.max = srcRead.max
    <3>1. srcRead \in SrcReadings /\ SrcShape /\ offset \in Nat
      BY <1>4 DEF SourcesIInv, SrcShape
    <3>2. /\ n \in SrcReadings /\ n.pc = srcRead.pc /\ n.from = srcRead.from
          /\ n.there = srcRead.there /\ n.touched = srcRead.touched /\ n.got = srcRead.got
          /\ n.missed = srcRead.missed /\ n.at = at /\ n.max = srcRead.max
          /\ n.rest = srcRead.rest
      BY <2>1, <2>2, <3>1 DEF SrcReadings
    <3> QED
      BY <1>1, <2>2, <3>1, <3>2 DEF Continues, SrcShape
  <2>4. Emit(OfKeys(Page(todo)), n)
    BY <1>6, <1>8, <2>1
  <2> QED
    BY <1>1, <1>2, <1>3, <2>3, <2>4, RowPageKept
<1>9. CASE cursor = "" \/ (cursor = "<nil>" /\ srcRead.offset = 1)
  <2>1. Page(todo) = todo
    BY <1>7, <1>9
  <2> QED
    BY <1>1, <1>2, <1>6, <1>9, <2>1, RowLastKept
<1> QED
  BY <1>8, <1>9

-----------------------------------------------------------------------------
(* The connectors that page by offset.                                      *)

(* The locals with another offset, and greatest time.                       *)
LEMMA OffsetReplaced ==
  ASSUME SourcesIInv, srcRead.pc = "reading", NEW max \in Nat, max <= srcNow, NEW n,
         n = [srcRead EXCEPT !.offset = @ + SrcPageSize, !.max = max]
  PROVE  Continues(n) /\ n.offset = srcRead.offset + SrcPageSize /\ n.max = max
<1>1. srcRead \in SrcReadings /\ SrcShape
  BY DEF SourcesIInv, SrcShape
<1>2. PICK o : o = srcRead.offset + SrcPageSize
  OBVIOUS
<1>3. o \in Nat
  BY <1>1, <1>2, SourcesAssumption DEF SrcReadings
<1>4. n = [srcRead EXCEPT !.offset = o, !.max = max]
  BY <1>2
<1>5. /\ n \in SrcReadings /\ n.pc = srcRead.pc /\ n.from = srcRead.from
      /\ n.there = srcRead.there /\ n.touched = srcRead.touched /\ n.got = srcRead.got
      /\ n.missed = srcRead.missed /\ n.at = srcRead.at /\ n.max = max
      /\ n.rest = srcRead.rest /\ n.offset = o
  BY <1>1, <1>3, <1>4 DEF SrcReadings
<1> QED
  BY <1>1, <1>2, <1>5 DEF Continues, SrcShape

(* Chorus asks for the same listing again, from an offset on: a full page.  *)
LEMMA OffsetPageKept ==
  ASSUME SourcesIInv, srcRead.pc = "reading", srcKind = "chorus",
         NEW L, L = {v \in Versions : v[1] > srcRead.from[1]},
         NEW page, page = PageAt(L, srcRead.offset),
         NEW n, Continues(n), n.offset = srcRead.offset + SrcPageSize,
         n.max = srcRead.max, Emit(page, n)
  PROVE  SourcesIInv'
<1>1. SrcShape /\ SrcProgress
  BY DEF SourcesIInv
<1>2. page \subseteq L /\ Listed(page)
  BY <1>1, PartIs DEF PageAt
<1>3. L \subseteq Moments /\ IsFiniteSet(L)
  BY <1>1, PartIs
<1>4. /\ srcKind' = srcKind /\ Versions' = Versions /\ srcRead'.from = srcRead.from
      /\ srcRead'.touched = srcRead.touched /\ srcRead'.got = srcRead.got \union page
      /\ srcRead'.offset = n.offset
  BY <1>2, EmitIs
<1>5. {v \in Versions' : v[1] > srcRead'.from[1]} = L
  BY <1>4
<1>6. srcRead.offset \in Nat
  BY <1>1 DEF SrcShape, SrcReadings
<1>7. ASSUME srcRead.touched = {}, NEW v \in L, Ahead(L, v) < srcRead.offset + SrcPageSize
      PROVE  v \in srcRead.got \union page
  <2>1. Ahead(L, v) < srcRead.offset => v \in srcRead.got
    BY <1>1, <1>7 DEF SrcProgress, SrcCounted
  <2>2. Ahead(L, v) < srcRead.offset \/ v \in page
    BY <1>3, <1>6, <1>7, PageAtIs
  <2> QED
    BY <2>1, <2>2
<1>8. srcKind # "pagesOffset"
  OBVIOUS
<1>9. SrcCounted'
  <2>1. PICK LL : LL = {v \in Versions' : v[1] > srcRead'.from[1]}
    OBVIOUS
  <2>2. srcRead'.touched = {} =>
          \A v \in LL : Ahead(LL, v) < srcRead'.offset => v \in srcRead'.got
    BY <1>4, <1>5, <1>7, <2>1
  <2> QED
    BY <1>4, <1>8, <2>1, <2>2 DEF SrcCounted, Ahead
<1>10. SrcProgress'
  BY <1>4, <1>9, ProgressBy DEF RowKinds, FullKinds
<1> QED
  BY <1>2, <1>10, EmitKept

(* A page that is not full.                                                 *)
LEMMA OffsetLastKept ==
  ASSUME SourcesIInv, srcRead.pc = "reading", srcKind = "chorus",
         NEW L, L = {v \in Versions : v[1] > srcRead.from[1]},
         NEW page, page = PageAt(L, srcRead.offset), ~(Cardinality(page) >= SrcPageSize),
         NEW state \in Moments, state[1] <= srcNow, EmitLast(page, state)
  PROVE  SourcesIInv'
<1>1. SrcShape /\ SrcProgress /\ SrcHistory
  BY DEF SourcesIInv
<1>2. page \subseteq L /\ Listed(page)
  BY <1>1, PartIs DEF PageAt
<1>3. L \subseteq Moments /\ IsFiniteSet(L)
  BY <1>1, PartIs
<1>4. srcRead.offset \in Nat
  BY <1>1 DEF SrcShape, SrcReadings
<1>5. ASSUME srcRead.touched = {}, NEW v \in Versions, Selects(srcRead.from, v)
      PROVE  v \in srcRead.got \union page
  <2>1. v \in L
    BY <1>5, SelectsIs
  <2>2. Ahead(L, v) < srcRead.offset => v \in srcRead.got
    BY <1>1, <1>5, <2>1 DEF SrcProgress, SrcCounted
  <2>3. Ahead(L, v) < srcRead.offset \/ v \in page
    BY <1>3, <1>4, <2>1, ShortPageIsLast
  <2> QED
    BY <2>2, <2>3
<1>6. srcKind \in OffsetKinds /\ (srcQuiet => srcRead.touched = {})
  BY <1>1 DEF SrcHistory, OffsetKinds, FragileKinds
<1> QED
  BY <1>2, <1>5, <1>6, EmitLastKept

(* Chorus.                                                                  *)
LEMMA ChorusKept ==
  ASSUME SourcesIInv, ChorusReadStream
  PROVE  SourcesIInv'
<1>1. srcRead.pc = "reading" /\ srcKind = "chorus"
  BY DEF ChorusReadStream, Reading
<1>2. PICK L : L = {v \in Versions : v[1] > srcRead.from[1]}
  OBVIOUS
<1>3. PICK page : page = PageAt(L, srcRead.offset)
  OBVIOUS
<1>4. IF Cardinality(page) >= SrcPageSize
        THEN Emit(page, [srcRead EXCEPT !.offset = @ + SrcPageSize])
        ELSE EmitLast(page, MaxState(page))
  BY <1>2, <1>3 DEF ChorusReadStream
<1>5. SrcShape
  BY DEF SourcesIInv
<1>6. CASE Cardinality(page) >= SrcPageSize
  <2>1. PICK n : n = [srcRead EXCEPT !.offset = @ + SrcPageSize]
    OBVIOUS
  <2>2. srcRead.max \in Nat /\ srcRead.max <= srcNow
    BY <1>5 DEF SrcShape, SrcReadings
  <2>3. n = [srcRead EXCEPT !.offset = @ + SrcPageSize, !.max = srcRead.max]
    BY <1>5, <2>1 DEF SrcShape, SrcReadings
  <2>4. Continues(n) /\ n.offset = srcRead.offset + SrcPageSize /\ n.max = srcRead.max
    BY <1>1, <2>2, <2>3, OffsetReplaced
  <2>5. Emit(page, n)
    BY <1>4, <1>6, <2>1
  <2> QED
    BY <1>1, <1>2, <1>3, <2>4, <2>5, OffsetPageKept
<1>7. CASE ~(Cardinality(page) >= SrcPageSize)
  <2>1. Listed(page)
    BY <1>2, <1>3, <1>5, PartIs DEF PageAt
  <2>2. MaxState(page) \in Moments /\ MaxState(page)[1] <= srcNow
    BY <2>1, MaxStateIs
  <2>3. EmitLast(page, MaxState(page))
    BY <1>4, <1>7
  <2> QED
    BY <1>1, <1>2, <1>3, <1>7, <2>2, <2>3, OffsetLastKept
<1> QED
  BY <1>6, <1>7

(* What is in front of the rest of a listing is known by its size.          *)
LEMMA FrontIs ==
  ASSUME NEW L, IsFiniteSet(L), NEW D, D \subseteq L, NEW ahead, ahead \subseteq L,
         NEW k \in Nat, Cardinality(D) = k, InFront(L, D),
         Cardinality(ahead) = k \/ (ahead = L /\ Cardinality(L) < k),
         \A v \in ahead, w \in L \ ahead : InOrder(v, w)
  PROVE  ahead = D
<1>1. /\ D \in SUBSET L /\ ahead \in SUBSET L
  OBVIOUS
<1>2. /\ IsFiniteSet(D) /\ Cardinality(D) <= Cardinality(L)
      /\ IsFiniteSet(ahead) /\ Cardinality(L) \in Nat
  BY <1>1, FS_Subset, FS_CardinalityType, Zenon
<1>3. Cardinality(ahead) = k
  BY <1>2
<1>4. CASE D \subseteq ahead
  <2>1. D \in SUBSET ahead
    BY <1>4
  <2> QED
    BY <1>2, <1>3, <2>1, FS_Subset, Zenon
<1>5. CASE ahead \subseteq D
  <2>1. ahead \in SUBSET D
    BY <1>5
  <2> QED
    BY <1>2, <1>3, <2>1, FS_Subset, Zenon
<1>6. CASE ~(D \subseteq ahead) /\ ~(ahead \subseteq D)
  <2>1. PICK v \in D : v \notin ahead
    BY <1>6
  <2>2. PICK w \in ahead : w \notin D
    BY <1>6
  <2>3. InOrder(w, v)
    BY <2>1, <2>2
  <2>4. ~InOrder(w, v)
    BY <2>1, <2>2 DEF InFront
  <2> QED
    BY <2>3, <2>4
<1> QED
  BY <1>4, <1>5, <1>6

(* What a page of Snowflake's answers is.                                   *)
SnowflakePage(L, ahead, rows) ==
    /\ L = {v \in Versions : v[1] > srcRead.from[1]}
    /\ ahead \subseteq L /\ rows \subseteq L \ ahead
    /\ Skipped(ahead, L) /\ FirstPartition(rows, L \ ahead)

(* Of a listing that did not change, the rows in front of it were read.     *)
LEMMA SnowflakeFront ==
  ASSUME SourcesIInv, srcRead.pc = "reading", srcKind \in {"snowflake", "snowflakeFull"},
         NEW L, NEW ahead, NEW rows, SnowflakePage(L, ahead, rows),
         srcRead.touched = {}, ~srcRead.missed,
         NEW D, D = {v \in L : v \in srcRead.got}
  PROVE  /\ ahead = D /\ InFront(L, D) /\ Cardinality(D) = srcRead.offset
         /\ IsFiniteSet(D) /\ IsFiniteSet(rows)
<1>1. SrcShape /\ SrcSorted
  BY DEF SourcesIInv, SrcProgress
<1>2. IsFiniteSet(L) /\ D \subseteq L /\ ahead \subseteq L /\ rows \subseteq L
  BY <1>1, PartIs DEF SnowflakePage
<1>3. Cardinality(D) = srcRead.offset /\ InFront(L, D)
  BY <1>1 DEF SrcSorted, SnowflakePage
<1>4. srcRead.offset \in Nat
  BY <1>1 DEF SrcShape, SrcReadings
<1>5. PICK k \in Nat : k = srcRead.offset
  BY <1>4
<1>6. /\ Cardinality(ahead) = k \/ (ahead = L /\ Cardinality(L) < k)
      /\ \A v \in ahead, w \in L \ ahead : InOrder(v, w)
  BY <1>5 DEF SnowflakePage, Skipped
<1>7. ahead = D
  BY <1>2, <1>3, <1>5, <1>6, FrontIs
<1>8. D \in SUBSET L /\ rows \in SUBSET L
  BY <1>2
<1>9. IsFiniteSet(D) /\ IsFiniteSet(rows)
  BY <1>2, <1>8, FS_Subset, Zenon
<1> QED
  BY <1>3, <1>7, <1>9

(* The rows behind a page that was not cut are later than the state.        *)
LEMMA SnowflakeStateKept ==
  ASSUME SourcesIInv, srcRead.pc = "reading", srcKind = "snowflake", srcQuiet,
         NEW L, NEW ahead, NEW rows, SnowflakePage(L, ahead, rows),
         ~CutBehind(rows, (L \ ahead) \ rows),
         NEW last, last = LastCursor(rows),
         NEW state, state = IF last > 0 THEN <<last, 0>> ELSE srcState,
         NEW v \in Versions, v \notin srcDelivered, v \notin rows, v[1] \notin srcTicks
  PROVE  Selects(state, v)
<1>1. SrcShape /\ SrcHistory /\ SrcCovered
  BY DEF SourcesIInv
<1>2. srcKind \notin FullKinds /\ srcKind \in FragileKinds
  BY DEF FullKinds, FragileKinds
<1>3. /\ srcRead.touched = {} /\ ~srcRead.missed /\ srcRead.from = srcState
      /\ srcRead.got \subseteq srcDelivered
  BY <1>1, <1>2 DEF SrcHistory
<1>4. Selects(srcState, v)
  BY <1>1, <1>2, <1>3 DEF SrcCovered, SrcSince
<1>5. \A st : Selects(st, v) <=> v[1] > st[1]
  BY SelectsIs
<1>6. v \in L
  BY <1>3, <1>4, <1>5 DEF SnowflakePage
<1>7. PICK D : D = {u \in L : u \in srcRead.got}
  OBVIOUS
<1>8. ahead = D
  BY <1>3, <1>7, SnowflakeFront
<1>9. v \notin ahead
  BY <1>3, <1>7, <1>8
<1>10. v \in (L \ ahead) \ rows /\ rows # {}
  <2>1. L \ ahead # {}
    BY <1>6, <1>9
  <2>2. Cardinality(rows) \in 1..SrcSnowflakePage
    BY <2>1 DEF SnowflakePage, FirstPartition
  <2>3. Cardinality(rows) # 0
    BY <2>2, SourcesAssumption
  <2> QED
    BY <1>6, <1>9, <2>3, FS_EmptySet
<1>11. CASE ~(last > 0)
  BY <1>4, <1>11
<1>12. CASE last > 0
  <2>0. last = SrcMax(0, rows)
    BY <1>10 DEF LastCursor
  <2>1. IsFiniteSet(rows) /\ rows \subseteq Moments
    BY <1>1, PartIs DEF SnowflakePage
  <2>2. SrcMax(0, rows) \in {0} \union {u[1] : u \in rows}
    BY <2>1, SrcMaxIs
  <2>3. PICK u \in rows : u[1] = last
    BY <1>10, <1>12, <2>0, <2>2
  <2>4. ~(v[1] <= u[1])
    BY <1>10, <2>3 DEF InOrder, CutBehind
  <2>5. v[1] \in Nat /\ u[1] \in Nat
    BY <1>1, <2>1, VersionsAre DEF Moments
  <2>6. v[1] > last
    BY <2>3, <2>4, <2>5
  <2>7. state[1] = last
    BY <1>12
  <2> QED
    BY <1>5, <2>6, <2>7
<1> QED
  BY <1>11, <1>12

(* A page that is full: the read goes on behind it.                         *)
LEMMA SnowflakeSorted ==
  ASSUME SourcesIInv, srcRead.pc = "reading", srcKind \in {"snowflake", "snowflakeFull"},
         NEW L, NEW ahead, NEW rows, SnowflakePage(L, ahead, rows),
         Cardinality(rows) >= SrcSnowflakePage,
         srcKind' = srcKind, Versions' = Versions, srcRead'.from = srcRead.from,
         srcRead'.touched = srcRead.touched, srcRead'.got = srcRead.got \union rows,
         srcRead'.offset = srcRead.offset + SrcSnowflakePage,
         ~srcRead'.missed =>
            /\ ~srcRead.missed
            /\ ~CutBehind(rows, (L \ ahead) \ rows)
  PROVE  SrcSorted'
<1> SUFFICES ASSUME srcRead.touched = {}, ~srcRead'.missed
             PROVE  SrcSorted'
  BY DEF SrcSorted
<1>1. PICK D : D = {v \in L : v \in srcRead.got}
  OBVIOUS
<1>2. /\ ahead = D /\ InFront(L, D) /\ Cardinality(D) = srcRead.offset
      /\ IsFiniteSet(D) /\ IsFiniteSet(rows)
  BY <1>1, SnowflakeFront
<1>3. L = {v \in Versions' : v[1] > srcRead'.from[1]}
  BY DEF SnowflakePage
<1>4. D \union rows = {v \in L : v \in srcRead'.got}
  BY <1>1 DEF SnowflakePage
<1>5. Cardinality(D \union rows) = srcRead'.offset
  <2>1. rows # {}
    <3>1. SrcSnowflakePage \in Nat \ {0}
      BY SourcesAssumption
    <3>2. ~(0 >= SrcSnowflakePage)
      BY <3>1
    <3> QED
      BY <3>2, FS_EmptySet, Zenon
  <2>2. Cardinality(rows) \in 1..SrcSnowflakePage
    BY <2>1 DEF SnowflakePage, FirstPartition
  <2>3. Cardinality(rows) = SrcSnowflakePage
    BY <2>2, SourcesAssumption
  <2>4. D \cap rows = {}
    BY <1>2 DEF SnowflakePage
  <2>5. Cardinality(D \union rows) = Cardinality(D) + Cardinality(rows) - Cardinality({})
    BY <1>2, <2>4, FS_Union
  <2>6. Cardinality({}) = 0 /\ srcRead.offset \in Nat
    BY FS_EmptySet DEF SourcesIInv, SrcShape, SrcReadings
  <2> QED
    BY <1>2, <2>3, <2>5, <2>6, SourcesAssumption
<1>6. \A v \in D \union rows, w \in L \ (D \union rows) : ~InOrder(w, v)
  BY <1>2 DEF InFront, CutBehind
<1>7. PICK DD : DD = D \union rows
  OBVIOUS
<1>8. \A v \in DD, w \in L \ DD : ~(srcKind' = "snowflakeFull" \/ w[1] <= v[1])
  BY <1>6, <1>7 DEF InOrder
<1> QED
  BY <1>3, <1>4, <1>5, <1>7, <1>8 DEF SrcSorted, InFront, InOrder

(* A step of a read from Snowflake.                                         *)
LEMMA SnowflakeKept ==
  ASSUME SourcesIInv, ReadSnowflakeStream
  PROVE  SourcesIInv'
<1>1. srcRead.pc = "reading" /\ srcKind \in {"snowflake", "snowflakeFull"}
  BY DEF ReadSnowflakeStream, Reading
<1>2. PICK L : L = {v \in Versions : v[1] > srcRead.from[1]}
  OBVIOUS
<1>a. PICK ahead \in SUBSET L :
         \E rows \in SUBSET (L \ ahead) :
            /\ Skipped(ahead, L) /\ FirstPartition(rows, L \ ahead)
            /\ SendRows(rows, (L \ ahead) \ rows)
  BY <1>2, Zenon DEF ReadSnowflakeStream
<1>3. PICK rows \in SUBSET (L \ ahead) :
         /\ Skipped(ahead, L) /\ FirstPartition(rows, L \ ahead)
         /\ SendRows(rows, (L \ ahead) \ rows)
  BY <1>a
<1>4. SnowflakePage(L, ahead, rows)
  BY <1>2, <1>3 DEF SnowflakePage
<1>6. PICK last : last = LastCursor(rows)
  OBVIOUS
<1> DEFINE Rest == (L \ ahead) \ rows
           Cut == CutBehind(rows, Rest)
           WholePage == Cardinality(rows) >= SrcSnowflakePage
<1>7. PICK missed : missed = (srcRead.missed \/ Cut
                              \/ (Cardinality(rows) < SrcSnowflakePage /\ Rest # {}))
  OBVIOUS
<1>8. PICK offset : offset = srcRead.offset + SrcSnowflakePage
  OBVIOUS
<1>9. PICK next : next = [srcRead EXCEPT !.first = FALSE, !.got = @ \union rows, !.max = last,
                                        !.offset = offset, !.missed = missed]
  OBVIOUS
<1>10. next = RowsRead(rows, Rest)
  BY <1>6, <1>7, <1>8, <1>9 DEF RowsRead
<1>11. /\ srcQuiet' = (srcQuiet /\ ~Cut) /\ Delivered(rows)
       /\ WholePage => srcRead' = next /\ UNCHANGED <<srcState, srcTicks>>
       /\ ~WholePage => /\ srcRead' = Ended(next)
                        /\ srcState' = IF srcKind = "snowflake" /\ last > 0
                                         THEN <<last, 0>> ELSE srcState
                        /\ srcTicks' = srcTicks \union
                                         (IF srcKind = "snowflake" THEN {srcState'[1]} ELSE {})
  BY <1>3, <1>6, <1>10, Zenon DEF SendRows
<1>5. UNCHANGED <<srcKind, srcTime, srcNow>>
  BY <1>3 DEF SendRows
<1>12. SrcShape /\ SrcHistory
  BY DEF SourcesIInv
<1>13. Listed(rows) /\ Versions' = Versions
  BY <1>4, <1>5, <1>12, PartIs DEF SnowflakePage, Versions
<1>14. last \in Nat /\ last <= srcNow
  <2>1. srcRead.max \in Nat /\ srcRead.max <= srcNow /\ srcNow \in Nat
    BY <1>12 DEF SrcShape, SrcReadings
  <2>2. SrcMax(0, rows) \in {0} \union {u[1] : u \in rows}
    BY <1>13, SrcMaxIs DEF Listed
  <2> QED
    BY <1>6, <1>13, <2>1, <2>2 DEF Listed, Moments, LastCursor
<1>15. missed \in BOOLEAN /\ (missed <=> srcRead.missed \/ Cut \/ (~WholePage /\ Rest # {}))
  <2>1. Cardinality(rows) \in Nat /\ SrcSnowflakePage \in Nat
    BY <1>13, FS_CardinalityType, SourcesAssumption DEF Listed
  <2>2. Cardinality(rows) < SrcSnowflakePage <=> ~WholePage
    BY <2>1
  <2>3. srcRead.missed \in BOOLEAN
    BY <1>12 DEF SrcShape, SrcReadings
  <2> HIDE DEF Cut, WholePage, Rest
  <2> QED
    BY <1>7, <2>2, <2>3, Zenon
<1>16. offset \in Nat
  BY <1>8, <1>12, SourcesAssumption DEF SrcShape, SrcReadings
<1>17. /\ next \in SrcReadings /\ next.pc = "reading" /\ next.first = FALSE
       /\ next.from = srcRead.from /\ next.there = srcRead.there
       /\ next.touched = srcRead.touched /\ next.got = srcRead.got \union rows
       /\ next.rest = srcRead.rest /\ next.at = srcRead.at /\ next.max = last
       /\ next.offset = offset /\ next.missed = missed
  <2>1. PICK n : n = [srcRead EXCEPT !.first = FALSE, !.offset = offset]
    OBVIOUS
  <2>2. next = [n EXCEPT !.got = @ \union rows, !.max = last, !.missed = missed]
    BY <1>9, <2>1
  <2>3. /\ n \in SrcReadings /\ n.pc = srcRead.pc /\ n.first = FALSE
        /\ n.from = srcRead.from /\ n.there = srcRead.there /\ n.touched = srcRead.touched
        /\ n.got = srcRead.got /\ n.rest = srcRead.rest /\ n.at = srcRead.at
        /\ n.offset = offset
    BY <1>12, <1>16, <2>1 DEF SrcShape, SrcReadings
  <2> QED
    BY <1>1, <1>13, <1>14, <1>15, <2>2, <2>3 DEF SrcReadings, Listed
<1>18. srcQuiet' \in BOOLEAN /\ (srcQuiet' <=> srcQuiet /\ ~Cut)
  BY <1>11, <1>12, Zenon DEF SrcShape
<1>19. srcKind \in FragileKinds /\ srcKind \in SkipKinds /\ srcKind \in OffsetKinds
       /\ srcKind \notin {"salesforce", "bigquery", "zoom", "zoomSub", "pagesRoot"}
  BY <1>1 DEF FragileKinds, SkipKinds, OffsetKinds
<1> HIDE DEF Rest, Cut, WholePage
<1>20. CASE WholePage
  <2>1. srcRead' = next /\ srcState' = srcState /\ srcTicks' = srcTicks
    BY <1>11, <1>20
  <2>2. SrcSorted'
    <3>1. ~missed => ~srcRead.missed /\ ~CutBehind(rows, (L \ ahead) \ rows)
      BY <1>15, Zenon DEF Cut, Rest
    <3>2. Cardinality(rows) >= SrcSnowflakePage
      BY <1>20 DEF WholePage
    <3> QED
      BY <1>1, <1>4, <1>5, <1>8, <1>13, <1>17, <2>1, <3>1, <3>2, SnowflakeSorted
  <2>3. SrcProgress'
    BY <1>1, <1>5, <2>2, ProgressBy DEF RowKinds, FullKinds
  <2>4. srcRead'.missed => srcKind \in SkipKinds /\ ~srcQuiet'
    BY <1>1, <1>12, <1>15, <1>17, <1>18, <1>19, <1>20, <2>1 DEF SrcHistory
  <2>5. /\ srcRead'.at[1] <= srcNow
        /\ srcRead'.at[1] = srcNow => srcRead'.at[1] \in srcTicks' \/ srcKind \in FullKinds
    BY <1>1, <1>12, <1>17, <2>1 DEF SrcShape, SrcHistory
  <2>6. /\ IsFiniteSet(srcRead'.rest)
        /\ \A v \in srcRead'.rest : v[1] <= srcNow /\ v[2] \in SrcRows
        /\ srcState' \in Moments /\ srcState'[1] <= srcNow
    BY <1>12, <1>17, <2>1 DEF SrcShape
  <2>7. srcTicks \subseteq srcTicks' /\ srcRead'.max <= srcNow
    BY <1>14, <1>17, <2>1
  <2> QED
    BY <1>1, <1>5, <1>11, <1>13, <1>17, <1>18, <1>19, <2>1, <2>3, <2>4, <2>5, <2>6, <2>7,
       ReadGoesOn
<1>21. CASE ~WholePage
  <2>1. srcRead' = Ended(next)
    BY <1>11, <1>21
  <2>2. /\ srcRead' \in SrcReadings /\ srcRead'.pc = "done"
        /\ srcRead'.rest = {} /\ srcRead'.at = NoState /\ srcRead'.max = 0
        /\ srcRead'.missed = missed
        /\ missed => srcRead'.got = {} /\ srcRead'.from = NoState
        /\ ~missed => /\ srcRead'.from = srcRead.from /\ srcRead'.there = srcRead.there
                      /\ srcRead'.got = srcRead.got \union rows
                      /\ srcRead'.touched = srcRead.touched
    BY <1>17, <2>1, EndedIs
  <2>3. /\ srcState' = IF srcKind = "snowflake" /\ last > 0 THEN <<last, 0>> ELSE srcState
        /\ srcTicks' = srcTicks \union (IF srcKind = "snowflake" THEN {srcState'[1]} ELSE {})
    BY <1>11, <1>21, Zenon
  <2>4. srcState' \in Moments /\ srcState'[1] <= srcNow
    BY <1>12, <1>14, <2>3 DEF SrcShape, Moments
  <2>5. srcTicks \subseteq srcTicks' /\ (srcKind \in StrictKinds => srcState'[1] \in srcTicks' \union {0})
    <3>1. srcKind \in StrictKinds => srcKind = "snowflake"
      BY <1>1 DEF StrictKinds
    <3> QED
      BY <2>3, <3>1
  <2>6. ASSUME ~missed, srcRead.touched = {}, NEW v \in Versions, Selects(srcRead.from, v)
        PROVE  v \in srcRead.got \union rows
    <3>1. v \in L
      <4>1. CASE srcKind = "snowflake"
        BY <2>6, <4>1, SelectsIs, <1>2
      <4>2. CASE srcKind = "snowflakeFull"
        <5>1. srcRead.from = NoState
          BY <1>1, <1>12, <4>2 DEF SrcHistory, FullKinds
        <5>2. v[1] \in Nat \ {0}
          BY <1>12, VersionsAre
        <5> QED
          BY <1>2, <5>1, <5>2 DEF NoState
      <4> QED
        BY <1>1, <4>1, <4>2
    <3>2. ~srcRead.missed /\ Rest = {}
      BY <1>15, <1>21, <2>6
    <3>3. PICK D : D = {u \in L : u \in srcRead.got}
      OBVIOUS
    <3>4. ahead = D
      BY <1>1, <1>4, <2>6, <3>2, <3>3, SnowflakeFront
    <3>5. v \in ahead \/ v \in rows
      BY <3>1, <3>2 DEF Rest
    <3> QED
      BY <3>3, <3>4, <3>5
  <2>7. ASSUME srcKind \notin FullKinds, srcQuiet', NEW v \in Versions,
               v \notin srcDelivered \union rows, v[1] \notin srcTicks
        PROVE  Selects(srcState', v)
    <3>1. srcKind = "snowflake"
      BY <1>1, <2>7 DEF FullKinds
    <3>2. srcQuiet /\ ~CutBehind(rows, (L \ ahead) \ rows)
      BY <1>18, <2>7, Zenon DEF Cut, Rest
    <3>3. PICK state : state = IF last > 0 THEN <<last, 0>> ELSE srcState
      OBVIOUS
    <3>4. srcState' = state
      BY <2>3, <3>1, <3>3
    <3>5. Selects(state, v)
      BY <1>1, <1>4, <1>6, <2>7, <3>1, <3>2, <3>3, SnowflakeStateKept
    <3> QED
      BY <3>4, <3>5
  <2>8. srcKind \notin FullKinds /\ srcQuiet' =>
            \A v \in Versions :
               \/ v \in srcDelivered \union rows
               \/ Selects(srcState', v) \/ v[1] \in srcTicks'
    BY <2>5, <2>7
  <2>9. srcRead'.pc = "done" /\ ~srcRead'.missed =>
            /\ srcRead'.from = srcRead.from /\ srcRead'.there = srcRead.there
            /\ srcRead'.touched = srcRead.touched /\ srcRead'.got = srcRead.got \union rows
            /\ srcKind # "pagesRoot" /\ (srcKind \in OffsetKinds => srcRead.touched = {}) =>
                  \A v \in Versions :
                     v[2] \notin srcRead.touched /\ Selects(srcRead.from, v) =>
                        v \in srcRead.got \union rows
    BY <1>19, <2>2, <2>6
  <2>10. srcRead'.pc # "done" \/ srcRead'.missed => srcRead'.got = {} /\ srcRead'.from = NoState
    BY <2>2
  <2>11. Delivered(rows)
    BY <1>11
  <2> QED
    BY <1>1, <1>5, <1>13, <1>18, <1>19, <2>2, <2>4, <2>5, <2>8, <2>9, <2>10, <2>11, ReadEnds
<1> QED
  BY <1>20, <1>21

(* The offset paginator, over the rows.                                     *)
LEMMA OffsetPagesKept ==
  ASSUME SourcesIInv, OffsetPages, srcKind = "pagesOffset"
  PROVE  SourcesIInv'
<1>1. srcRead.pc = "reading" /\ srcKind = "pagesOffset" /\ srcKind \in FullKinds
  BY DEF OffsetPages, Reading, FullKinds
<1>2. PICK keys : keys = PageAt(RowKeys, srcRead.offset)
  OBVIOUS
<1>3. PICK page : page = OfKeys(keys)
  OBVIOUS
<1>4. IF Cardinality(keys) >= SrcPageSize
        THEN Emit(page, [srcRead EXCEPT !.offset = @ + SrcPageSize])
        ELSE EmitLast(page, srcState)
  BY <1>1, <1>2, <1>3 DEF OffsetPages, StreamPages, OffsetNextPage, Reading
<1>5. SrcShape /\ SrcProgress
  BY DEF SourcesIInv
<1>6. Listed(page)
  BY <1>3, <1>5, PartIs DEF OfKeys
<1>7. /\ RowKeys \subseteq Moments /\ IsFiniteSet(RowKeys)
      /\ \A v \in Versions : <<0, v[2]>> \in RowKeys
  BY <1>5, KeysAre
<1>8. srcRead.offset \in Nat
  BY <1>5 DEF SrcShape, SrcReadings
<1>9. \A v \in Versions : <<0, v[2]>> \in keys => v \in page
  BY <1>3 DEF OfKeys
<1>10. srcRead.touched = {} =>
          \A v \in Versions : Ahead(RowKeys, <<0, v[2]>>) < srcRead.offset => v \in srcRead.got
  BY <1>1, <1>5 DEF SrcProgress, SrcCounted
<1>11. CASE Cardinality(keys) >= SrcPageSize
  <2>1. PICK n : n = [srcRead EXCEPT !.offset = @ + SrcPageSize]
    OBVIOUS
  <2>2. srcRead.max \in Nat /\ srcRead.max <= srcNow
    BY <1>5 DEF SrcShape, SrcReadings
  <2>3. n = [srcRead EXCEPT !.offset = @ + SrcPageSize, !.max = srcRead.max]
    BY <1>5, <2>1 DEF SrcShape, SrcReadings
  <2>4. Continues(n) /\ n.offset = srcRead.offset + SrcPageSize /\ n.max = srcRead.max
    BY <1>1, <2>2, <2>3, OffsetReplaced
  <2>5. Emit(page, n)
    BY <1>4, <1>11, <2>1
  <2>6. /\ srcKind' = srcKind /\ Versions' = Versions
        /\ srcRead'.touched = srcRead.touched /\ srcRead'.got = srcRead.got \union page
        /\ srcRead'.offset = n.offset
    BY <1>1, <1>6, <2>4, <2>5, EmitIs
  <2>7. RowKeys' = RowKeys
    BY <2>6 DEF RowKeys
  <2>8. ASSUME srcRead.touched = {}, NEW v \in Versions,
               Ahead(RowKeys, <<0, v[2]>>) < srcRead.offset + SrcPageSize
        PROVE  v \in srcRead.got \union page
    <3>1. PICK k : k = <<0, v[2]>>
      OBVIOUS
    <3>2. k \in RowKeys /\ Ahead(RowKeys, k) < srcRead.offset + SrcPageSize
      BY <1>7, <2>8, <3>1
    <3>3. Ahead(RowKeys, k) < srcRead.offset \/ k \in keys
      BY <1>2, <1>7, <1>8, <3>2, PageAtIs
    <3> QED
      BY <1>9, <1>10, <2>8, <3>1, <3>3
  <2>9. SrcCounted'
    BY <1>1, <2>4, <2>6, <2>7, <2>8 DEF SrcCounted, Ahead
  <2>10. SrcProgress'
    BY <1>1, <2>6, <2>9, ProgressBy DEF RowKinds, FullKinds
  <2> QED
    BY <1>1, <1>6, <2>4, <2>5, <2>10, EmitKept
<1>12. CASE ~(Cardinality(keys) >= SrcPageSize)
  <2>1. ASSUME srcRead.touched = {}, NEW v \in Versions
        PROVE  v \in srcRead.got \union page
    <3>1. PICK k : k = <<0, v[2]>>
      OBVIOUS
    <3>2. k \in RowKeys
      BY <1>7, <3>1
    <3>3. Ahead(RowKeys, k) < srcRead.offset \/ k \in keys
      BY <1>2, <1>7, <1>8, <1>12, <3>2, ShortPageIsLast
    <3> QED
      BY <1>9, <1>10, <2>1, <3>1, <3>3
  <2>2. srcState \in Moments /\ srcState[1] <= srcNow
    BY <1>5 DEF SrcShape
  <2>3. srcKind \in OffsetKinds
    BY <1>1 DEF OffsetKinds
  <2>4. EmitLast(page, srcState)
    BY <1>4, <1>12
  <2> QED
    BY <1>1, <1>6, <2>1, <2>2, <2>3, <2>4, EmitLastKept
<1> QED
  BY <1>11, <1>12

(* Of results at the root of the answer the paginator reads nothing.        *)
LEMMA RootPagesKept ==
  ASSUME SourcesIInv, OffsetPages, srcKind # "pagesOffset"
  PROVE  SourcesIInv'
<1>1. srcRead.pc = "reading" /\ srcKind = "pagesRoot" /\ srcKind \in FullKinds
  BY DEF OffsetPages, Reading, FullKinds
<1>2. ~OffsetNextPage({})
  <2>1. Cardinality({}) = 0
    BY FS_EmptySet
  <2> QED
    BY <2>1, SourcesAssumption DEF OffsetNextPage
<1>3. PICK page : page = {}
  OBVIOUS
<1>4. EmitLast(page, srcState)
  BY <1>1, <1>2, <1>3 DEF OffsetPages, StreamPages, Reading
<1>5. Listed(page)
  BY <1>3, FS_EmptySet DEF Listed
<1>6. srcState \in Moments /\ srcState[1] <= srcNow
  BY DEF SourcesIInv, SrcShape
<1> QED
  BY <1>1, <1>4, <1>5, <1>6, EmitLastKept

-----------------------------------------------------------------------------
(* The connectors that work off a list.                                     *)

FetchKinds == {"s3", "zoom", "zoomSub"}

(* What is left of the list, or all of it.                                  *)
FetchList(result) ==
    /\ srcRead.first => /\ result \subseteq Versions
                        /\ \A v \in Versions : Selects(srcRead.from, v) => v \in result
    /\ ~srcRead.first => result = srcRead.rest

(* All that was asked for is read, or listed, or changed since.             *)
LEMMA FetchListIs ==
  ASSUME SourcesIInv, srcRead.pc = "reading", srcKind \in FetchKinds,
         NEW result, FetchList(result)
  PROVE  /\ Listed(result)
         /\ ~srcRead.missed =>
              \A v \in Versions : Selects(srcRead.from, v) =>
                 v \in srcRead.got \union result \/ v[2] \in srcRead.touched
<1>1. SrcShape /\ SrcProgress
  BY DEF SourcesIInv
<1>2. CASE srcRead.first
  BY <1>1, <1>2, PartIs DEF FetchList
<1>3. CASE ~srcRead.first
  <2>1. Listed(srcRead.rest)
    BY <1>1 DEF Listed, SrcShape, SrcReadings
  <2>2. SrcFetched
    BY <1>1 DEF SrcProgress
  <2> QED
    BY <1>3, <2>1, <2>2 DEF FetchList, SrcFetched, FetchKinds
<1> QED
  BY <1>2, <1>3

(* Rows that are there now may be answered.                                 *)
LEMMA ListedNow ==
  ASSUME SrcShape, NEW T, \A v \in T : v[2] \in SrcRows
  PROVE  Listed({<<srcTime[v[2]], v[2]>> : v \in T})
<1>1. PICK S : S = {<<srcTime[v[2]], v[2]>> : v \in T}
  OBVIOUS
<1>2. \A w \in S : \E r \in SrcRows : w = <<srcTime[r], r>>
  BY <1>1
<1>3. \A r \in SrcRows : srcTime[r] \in Nat /\ srcTime[r] <= srcNow /\ r \in Nat
  BY SourcesAssumption DEF SrcShape
<1>4. srcNow \in Nat
  BY DEF SrcShape
<1>5. S \in SUBSET ((0..srcNow) \X SrcRows)
  BY <1>2, <1>3, <1>4
<1>6. IsFiniteSet(0..srcNow)
  BY <1>4, FS_Interval, SMT
<1>7. IsFiniteSet((0..srcNow) \X SrcRows)
  BY <1>6, SourcesAssumption, FS_Product, Zenon
<1>8. IsFiniteSet(S)
  BY <1>5, <1>7, FS_Subset, Zenon
<1>9. S \subseteq Moments /\ \A v \in S : v[1] <= srcNow /\ v[2] \in SrcRows
  BY <1>2, <1>3 DEF Moments
<1> QED
  BY <1>1, <1>8, <1>9 DEF Listed

(* A part of the list is worked off.                                        *)
LEMMA FetchKept ==
  ASSUME SourcesIInv, srcRead.pc = "reading", srcKind \in FetchKinds,
         NEW result, FetchList(result), NEW piece, NEW sent, Listed(sent), Delivered(sent),
         UNCHANGED <<srcKind, srcTime, srcNow>>, srcTicks' = srcTicks,
         srcRead' \in SrcReadings, srcRead'.pc = "reading", srcRead'.first = FALSE,
         srcRead'.from = srcRead.from, srcRead'.there = srcRead.there,
         srcRead'.touched = srcRead.touched, srcRead'.got = srcRead.got \union sent,
         srcRead'.rest = result \ piece, srcRead'.at = srcRead.at, srcRead'.max <= srcNow,
         srcQuiet' \in BOOLEAN, srcQuiet' => srcQuiet, srcKind \notin FragileKinds => srcQuiet',
         srcRead'.missed => srcKind = "zoomSub" \/ (srcKind \in SkipKinds /\ ~srcQuiet'),
         ~srcRead'.missed => ~srcRead.missed /\ \A v \in piece : v \in Versions => v \in sent,
         srcState' \in Moments, srcState'[1] <= srcNow,
         srcState' = srcState \/ srcKind = "zoom"
  PROVE  SourcesIInv'
<1>1. SrcShape /\ SrcHistory
  BY DEF SourcesIInv
<1>2. /\ Listed(result)
      /\ ~srcRead.missed =>
           \A v \in Versions : Selects(srcRead.from, v) =>
              v \in srcRead.got \union result \/ v[2] \in srcRead.touched
  BY FetchListIs
<1>3. Listed(srcRead'.rest)
  BY <1>2, RestIs
<1>4. Versions' = Versions /\ srcKind' = srcKind
  BY DEF Versions
<1>5. SrcFetched'
  <2> SUFFICES ASSUME ~srcRead'.missed, NEW v \in Versions, Selects(srcRead.from, v)
               PROVE  v \in srcRead'.got \union srcRead'.rest \/ v[2] \in srcRead.touched
    BY <1>4 DEF SrcFetched, Selects
  <2> QED
    BY <1>2
<1>6. SrcProgress'
  BY <1>4, <1>5, ProgressBy DEF FetchKinds, RowKinds, FullKinds
<1>7. /\ srcRead'.at[1] <= srcNow
      /\ srcRead'.at[1] = srcNow => srcRead'.at[1] \in srcTicks' \/ srcKind \in FullKinds
  BY <1>1 DEF SrcShape, SrcHistory
<1>8. srcKind \notin {"salesforce", "bigquery"}
  BY DEF FetchKinds
<1>9. IsFiniteSet(srcRead'.rest) /\ \A v \in srcRead'.rest : v[1] <= srcNow /\ v[2] \in SrcRows
  BY <1>3 DEF Listed
<1> QED
  BY <1>6, <1>7, <1>8, <1>9, ReadGoesOn

(* S3 fetches the objects of its list, each as it is by then.               *)
LEMMA S3Kept ==
  ASSUME SourcesIInv, ReadS3Stream
  PROVE  SourcesIInv'
<1>1. srcRead.pc = "reading" /\ srcKind = "s3" /\ srcKind \in FetchKinds
  BY DEF ReadS3Stream, Reading, FetchKinds
<1>2. PICK listed : listed = IF srcRead.first THEN {v \in Versions : v[1] > srcRead.from[1]}
                                              ELSE srcRead.rest
  OBVIOUS
<1>3. FetchList(listed)
  BY <1>1, <1>2, SelectsIs DEF FetchList
<1>4. SrcShape /\ SrcHistory
  BY DEF SourcesIInv
<1>5. /\ Listed(listed)
      /\ ~srcRead.missed =>
           \A v \in Versions : Selects(srcRead.from, v) =>
              v \in srcRead.got \union listed \/ v[2] \in srcRead.touched
  BY <1>1, <1>3, FetchListIs
<1>6. srcKind \in FragileKinds /\ srcKind # "zoomSub" /\ srcKind # "zoom"
  BY <1>1 DEF FragileKinds
<1>7. CASE listed = {}
  <2>1. EmitLast({}, MaxState({}))
    BY <1>2, <1>7 DEF ReadS3Stream
  <2>2. Listed({})
    BY <1>5, <1>7
  <2>3. MaxState({}) \in Moments /\ MaxState({})[1] <= srcNow
    BY <2>2, MaxStateIs
  <2>4. ~srcRead.missed =>
           \A v \in Versions : v[2] \notin srcRead.touched /\ Selects(srcRead.from, v) =>
              v \in srcRead.got \union {}
    BY <1>5, <1>7
  <2>5. srcQuiet => ~srcRead.missed /\ srcRead.touched = {}
    BY <1>1, <1>4, <1>6 DEF SrcHistory
  <2>6. srcQuiet =>
           \A v \in Versions : Selects(srcRead.from, v) => v \in srcRead.got \union {}
    BY <2>4, <2>5
  <2>7. PICK page : page = {}
    OBVIOUS
  <2>8. PICK state : state = MaxState({})
    OBVIOUS
  <2> QED
    BY <1>1, <2>1, <2>2, <2>3, <2>4, <2>6, <2>7, <2>8, EmitLastKept
<1>8. CASE listed # {}
  <2>1. PICK v \in listed, parsed \in ReadAndParseObject :
          LET sent == IF parsed = "all" THEN {<<srcTime[v[2]], v[2]>>} ELSE {} IN
          /\ srcQuiet' = (srcQuiet /\ parsed = "all") /\ Delivered(sent)
          /\ srcRead' = IF parsed = "stuck" THEN NotReading("stuck")
                        ELSE [srcRead EXCEPT
                           !.first = FALSE, !.rest = listed \ {v}, !.got = @ \union sent,
                           !.max = IF parsed = "none" THEN @ ELSE SrcMax(@, {v}),
                           !.missed = @ \/ parsed # "all"]
          /\ UNCHANGED <<srcKind, srcTime, srcNow, srcState, srcTicks, srcReads>>
    BY <1>2, <1>8 DEF ReadS3Stream
  <2>2. PICK sent : sent = IF parsed = "all" THEN {<<srcTime[v[2]], v[2]>>} ELSE {}
    OBVIOUS
  <2>3. /\ Delivered(sent) /\ UNCHANGED <<srcKind, srcTime, srcNow, srcState, srcTicks>>
        /\ srcQuiet' = (srcQuiet /\ parsed = "all")
    BY <2>1, <2>2
  <2>4. srcQuiet' \in BOOLEAN /\ (srcQuiet' <=> srcQuiet /\ parsed = "all")
    BY <1>4, <2>3 DEF SrcShape
  <2>5. CASE parsed = "stuck"
    <3>1. sent = {} /\ ~srcQuiet'
      BY <2>2, <2>4, <2>5
    <3>2. srcRead' = NotReading("stuck")
      BY <2>1, <2>5
    <3> QED
      BY <1>1, <1>6, <2>3, <2>4, <3>1, <3>2, FailKept
  <2>6. CASE parsed # "stuck"
    <3>1. PICK m : m = IF parsed = "none" THEN srcRead.max ELSE SrcMax(srcRead.max, {v})
      OBVIOUS
    <3>2. PICK missed : missed = (srcRead.missed \/ parsed # "all")
      OBVIOUS
    <3>3. PICK rest : rest = listed \ {v}
      OBVIOUS
    <3>4. srcRead' = [srcRead EXCEPT !.first = FALSE, !.rest = rest, !.got = @ \union sent,
                                     !.max = m, !.missed = missed]
      BY <2>1, <2>2, <2>6, <3>1, <3>2, <3>3
    <3>5. v \in Moments /\ v[1] \in Nat /\ v[1] <= srcNow /\ v[2] \in SrcRows
      BY <1>5 DEF Listed, Moments
    <3>6. m \in Nat /\ m <= srcNow
      <4>1. srcRead.max \in Nat /\ srcRead.max <= srcNow
        BY <1>4 DEF SrcShape, SrcReadings
      <4>2. IsFiniteSet({v}) /\ {v} \subseteq Moments
        BY <3>5, FS_Singleton
      <4>3. SrcMax(srcRead.max, {v}) \in {srcRead.max} \union {w[1] : w \in {v}}
        BY <4>1, <4>2, SrcMaxIs
      <4>4. SrcMax(srcRead.max, {v}) \in {srcRead.max, v[1]}
        BY <4>3
      <4> QED
        BY <3>1, <3>5, <4>1, <4>4
    <3>7. Listed(sent)
      <4>1. CASE parsed = "all"
        <5>1. sent = {<<srcTime[w[2]], w[2]>> : w \in {v}}
          BY <2>2, <4>1
        <5> QED
          BY <1>4, <3>5, <5>1, ListedNow
      <4>2. CASE parsed # "all"
        BY <2>2, <4>2, FS_EmptySet DEF Listed
      <4> QED
        BY <4>1, <4>2
    <3>8. Listed(rest)
      BY <1>5, <3>3, RestIs
    <3>9. missed \in BOOLEAN /\ (missed <=> srcRead.missed \/ parsed # "all")
      BY <1>4, <3>2 DEF SrcShape, SrcReadings
    <3>10. /\ srcRead' \in SrcReadings /\ srcRead'.pc = srcRead.pc /\ srcRead'.first = FALSE
           /\ srcRead'.from = srcRead.from /\ srcRead'.there = srcRead.there
           /\ srcRead'.touched = srcRead.touched /\ srcRead'.got = srcRead.got \union sent
           /\ srcRead'.rest = rest /\ srcRead'.at = srcRead.at /\ srcRead'.max = m
           /\ srcRead'.missed = missed
      <4>1. PICK n : n = [srcRead EXCEPT !.first = FALSE, !.rest = rest]
        OBVIOUS
      <4>2. srcRead' = [n EXCEPT !.got = @ \union sent, !.max = m, !.missed = missed]
        BY <3>4, <4>1
      <4>3. /\ n \in SrcReadings /\ n.pc = srcRead.pc /\ n.first = FALSE
            /\ n.from = srcRead.from /\ n.there = srcRead.there
            /\ n.touched = srcRead.touched /\ n.got = srcRead.got
            /\ n.rest = rest /\ n.at = srcRead.at
        BY <1>4, <3>8, <4>1 DEF SrcShape, SrcReadings, Listed
      <4> QED
        BY <3>6, <3>7, <3>9, <4>2, <4>3 DEF SrcReadings, Listed
    <3>11. srcRead'.missed => srcKind \in SkipKinds /\ ~srcQuiet'
      BY <1>1, <1>4, <1>6, <2>4, <3>9, <3>10 DEF SrcHistory, SkipKinds
    <3>12. ~srcRead'.missed =>
              ~srcRead.missed /\ \A w \in {v} : w \in Versions => w \in sent
      <4>1. v \in Versions => v = <<srcTime[v[2]], v[2]>>
        BY <1>4, VersionsAre
      <4> QED
        BY <2>2, <3>9, <3>10, <4>1
    <3>13. srcState' \in Moments /\ srcState'[1] <= srcNow /\ srcState' = srcState
      BY <1>4, <2>3 DEF SrcShape
    <3>14. PICK piece : piece = {v}
      OBVIOUS
    <3>15. srcRead'.rest = listed \ piece /\ srcTicks' = srcTicks
      BY <2>3, <3>3, <3>10, <3>14
    <3> QED
      BY <1>1, <1>3, <1>6, <2>3, <2>4, <3>6, <3>7, <3>10, <3>11, <3>12, <3>13, <3>14, <3>15,
         FetchKept
  <2> QED
    BY <2>5, <2>6
<1> QED
  BY <1>7, <1>8

(* Zoom sends a state with every page.                                      *)
LEMMA ZoomKept ==
  ASSUME SourcesIInv, ReadZoomStream
  PROVE  SourcesIInv'
<1>1. srcRead.pc = "reading" /\ srcKind = "zoom" /\ srcKind \in FetchKinds
  BY DEF ReadZoomStream, Reading, FetchKinds
<1>2. PICK result : result = IF srcRead.first THEN {v \in Versions : v[1] >= srcRead.from[1]}
                                              ELSE srcRead.rest
  OBVIOUS
<1>3. FetchList(result)
  BY <1>1, <1>2, SelectsIs DEF FetchList
<1>4. SrcShape /\ SrcHistory
  BY DEF SourcesIInv
<1>5. /\ Listed(result)
      /\ ~srcRead.missed =>
           \A v \in Versions : Selects(srcRead.from, v) =>
              v \in srcRead.got \union result \/ v[2] \in srcRead.touched
  BY <1>1, <1>3, FetchListIs
<1>6. PICK Pages : Pages = {p \in SUBSET result :
                              Cardinality(p) = IF Cardinality(result) < SrcPageSize
                                                 THEN Cardinality(result) ELSE SrcPageSize}
  OBVIOUS
<1>7. PICK page \in Pages : \E last \in IF page = {} THEN {srcState} ELSE page :
          LET state == IF page = {} THEN srcState ELSE <<last[1], 0>> IN
          IF result # page
            THEN /\ UNCHANGED srcQuiet /\ Delivered(page)
                 /\ srcRead' = [srcRead EXCEPT !.first = FALSE, !.rest = result \ page,
                                               !.got = @ \union page]
                 /\ srcState' = state
                 /\ UNCHANGED <<srcKind, srcTime, srcNow, srcTicks, srcReads>>
            ELSE EmitLast(page, state)
  BY <1>2, <1>6 DEF ReadZoomStream
<1>8. PICK last \in IF page = {} THEN {srcState} ELSE page :
          LET state == IF page = {} THEN srcState ELSE <<last[1], 0>> IN
          IF result # page
            THEN /\ UNCHANGED srcQuiet /\ Delivered(page)
                 /\ srcRead' = [srcRead EXCEPT !.first = FALSE, !.rest = result \ page,
                                               !.got = @ \union page]
                 /\ srcState' = state
                 /\ UNCHANGED <<srcKind, srcTime, srcNow, srcTicks, srcReads>>
            ELSE EmitLast(page, state)
  BY <1>7
<1>9. PICK state : state = IF page = {} THEN srcState ELSE <<last[1], 0>>
  OBVIOUS
<1>10. page \subseteq result /\ Listed(page) /\ Listed(result \ page)
  BY <1>5, <1>6, RestIs
<1>11. state \in Moments /\ state[1] <= srcNow
  BY <1>4, <1>8, <1>9, <1>10 DEF SrcShape, Listed, Moments
<1>12. ~srcRead.missed /\ (srcQuiet => srcRead.touched = {})
  BY <1>1, <1>4 DEF SrcHistory, FragileKinds, SkipKinds
<1>13. CASE result # page
  <2>1. /\ srcQuiet' = srcQuiet /\ Delivered(page) /\ srcState' = state
        /\ UNCHANGED <<srcKind, srcTime, srcNow>> /\ srcTicks' = srcTicks
    BY <1>8, <1>9, <1>13
  <2>2. PICK rest : rest = result \ page
    OBVIOUS
  <2>3. srcRead' = [srcRead EXCEPT !.first = FALSE, !.rest = rest, !.got = @ \union page]
    BY <1>8, <1>13, <2>2
  <2>4. /\ srcRead' \in SrcReadings /\ srcRead'.pc = srcRead.pc /\ srcRead'.first = FALSE
        /\ srcRead'.from = srcRead.from /\ srcRead'.there = srcRead.there
        /\ srcRead'.touched = srcRead.touched /\ srcRead'.got = srcRead.got \union page
        /\ srcRead'.rest = rest /\ srcRead'.at = srcRead.at /\ srcRead'.max = srcRead.max
        /\ srcRead'.missed = srcRead.missed
    BY <1>4, <1>10, <2>2, <2>3 DEF SrcShape, SrcReadings, Listed
  <2>5. srcRead.max <= srcNow
    BY <1>4 DEF SrcShape
  <2>6. srcQuiet' \in BOOLEAN /\ (srcKind \notin FragileKinds => srcQuiet') /\ (srcQuiet' => srcQuiet)
    BY <1>4, <2>1 DEF SrcShape, SrcHistory
  <2> QED
    BY <1>1, <1>3, <1>10, <1>11, <1>12, <2>1, <2>2, <2>4, <2>5, <2>6, FetchKept
<1>14. CASE result = page
  <2>1. EmitLast(page, state)
    BY <1>8, <1>9, <1>14
  <2>2. \A v \in Versions : v[2] \notin srcRead.touched /\ Selects(srcRead.from, v) =>
           v \in srcRead.got \union page
    BY <1>5, <1>12, <1>14
  <2>3. srcQuiet => \A v \in Versions : Selects(srcRead.from, v) => v \in srcRead.got \union page
    BY <1>12, <2>2
  <2> QED
    BY <1>1, <1>10, <1>11, <2>1, <2>2, <2>3, EmitLastKept
<1> QED
  BY <1>13, <1>14

(* The children of the parents Zoom has listed.                             *)
LEMMA SubResourceKept ==
  ASSUME SourcesIInv, ReadSubResource
  PROVE  SourcesIInv'
<1>1. /\ srcRead.pc = "reading" /\ srcKind = "zoomSub" /\ srcKind \in FetchKinds
      /\ srcKind \in FullKinds /\ srcKind \notin FragileKinds /\ srcKind \notin OffsetKinds
  BY DEF ReadSubResource, Reading, FetchKinds, FullKinds, FragileKinds, OffsetKinds
<1>2. PICK parents : parents = IF srcRead.first THEN Versions ELSE srcRead.rest
  OBVIOUS
<1>3. FetchList(parents)
  BY <1>2 DEF FetchList
<1>4. SrcShape /\ SrcHistory
  BY DEF SourcesIInv
<1>5. /\ Listed(parents)
      /\ ~srcRead.missed =>
           \A v \in Versions : Selects(srcRead.from, v) =>
              v \in srcRead.got \union parents \/ v[2] \in srcRead.touched
  BY <1>1, <1>3, FetchListIs
<1>6. PICK Pages : Pages = {p \in SUBSET parents :
                              Cardinality(p) = IF Cardinality(parents) < SrcPageSize
                                                 THEN Cardinality(parents) ELSE SrcPageSize}
  OBVIOUS
<1>7. PICK page \in Pages : \E skipped \in SUBSET page :
          LET sent == {<<srcTime[v[2]], v[2]>> : v \in page \ skipped} IN
          LET next == [srcRead EXCEPT !.first = FALSE, !.rest = parents \ page,
                         !.got = @ \union sent, !.missed = @ \/ skipped # {}] IN
          /\ srcRead' = IF parents = page THEN Ended(next) ELSE next
          /\ UNCHANGED srcQuiet /\ Delivered(sent)
          /\ UNCHANGED <<srcKind, srcTime, srcNow, srcState, srcTicks, srcReads>>
  BY <1>2, <1>6 DEF ReadSubResource
<1>a. PICK skipped \in SUBSET page :
          LET sent == {<<srcTime[v[2]], v[2]>> : v \in page \ skipped} IN
          LET next == [srcRead EXCEPT !.first = FALSE, !.rest = parents \ page,
                         !.got = @ \union sent, !.missed = @ \/ skipped # {}] IN
          /\ srcRead' = IF parents = page THEN Ended(next) ELSE next
          /\ UNCHANGED srcQuiet /\ Delivered(sent)
          /\ UNCHANGED <<srcKind, srcTime, srcNow, srcState, srcTicks, srcReads>>
  BY <1>7
<1>8. PICK sent : sent = {<<srcTime[v[2]], v[2]>> : v \in page \ skipped}
  OBVIOUS
<1>9. PICK rest : rest = parents \ page
  OBVIOUS
<1>10. PICK missed : missed = (srcRead.missed \/ skipped # {})
  OBVIOUS
<1>11. PICK n : n = [srcRead EXCEPT !.first = FALSE, !.rest = rest,
                                    !.got = @ \union sent, !.missed = missed]
  OBVIOUS
<1>12. /\ srcRead' = IF parents = page THEN Ended(n) ELSE n
       /\ srcQuiet' = srcQuiet /\ Delivered(sent)
       /\ UNCHANGED <<srcKind, srcTime, srcNow, srcState, srcTicks>>
  BY <1>a, <1>8, <1>9, <1>10, <1>11
<1>13. page \subseteq parents /\ Listed(rest)
  BY <1>5, <1>6, <1>9, RestIs
<1>14. Listed(sent)
  <2>1. PICK T : T = page \ skipped
    OBVIOUS
  <2>2. \A v \in T : v[2] \in SrcRows
    BY <1>5, <1>13, <2>1 DEF Listed
  <2> QED
    BY <1>4, <1>8, <2>1, <2>2, ListedNow
<1>15. missed \in BOOLEAN /\ (missed <=> srcRead.missed \/ skipped # {})
  BY <1>4, <1>10 DEF SrcShape, SrcReadings
<1>16. /\ n \in SrcReadings /\ n.pc = srcRead.pc /\ n.first = FALSE
       /\ n.from = srcRead.from /\ n.there = srcRead.there
       /\ n.touched = srcRead.touched /\ n.got = srcRead.got \union sent
       /\ n.rest = rest /\ n.at = srcRead.at /\ n.max = srcRead.max /\ n.missed = missed
  <2>1. PICK o : o = [srcRead EXCEPT !.first = FALSE, !.rest = rest]
    OBVIOUS
  <2>2. n = [o EXCEPT !.got = @ \union sent, !.missed = missed]
    BY <1>11, <2>1
  <2>3. /\ o \in SrcReadings /\ o.pc = srcRead.pc /\ o.first = FALSE
        /\ o.from = srcRead.from /\ o.there = srcRead.there
        /\ o.touched = srcRead.touched /\ o.got = srcRead.got
        /\ o.rest = rest /\ o.at = srcRead.at /\ o.max = srcRead.max
    BY <1>4, <1>13, <2>1 DEF SrcShape, SrcReadings, Listed
  <2> QED
    BY <1>14, <1>15, <2>2, <2>3 DEF SrcReadings, Listed
<1>17. ~missed => ~srcRead.missed /\ \A v \in page : v \in Versions => v \in sent
  <2>1. \A v \in Versions : v = <<srcTime[v[2]], v[2]>>
    BY <1>4, VersionsAre
  <2> QED
    BY <1>8, <1>15, <2>1
<1>18. srcQuiet' \in BOOLEAN /\ (srcQuiet' => srcQuiet) /\ (srcKind \notin FragileKinds => srcQuiet')
  BY <1>4, <1>12 DEF SrcShape, SrcHistory
<1>19. srcState' \in Moments /\ srcState'[1] <= srcNow /\ srcState' = srcState
  BY <1>4, <1>12 DEF SrcShape
<1>20. CASE parents # page
  <2>1. srcRead' = n /\ srcTicks' = srcTicks
    BY <1>12, <1>20
  <2>2. srcRead.max <= srcNow
    BY <1>4 DEF SrcShape
  <2>3. /\ srcRead' \in SrcReadings /\ srcRead'.pc = "reading" /\ srcRead'.first = FALSE
        /\ srcRead'.from = srcRead.from /\ srcRead'.there = srcRead.there
        /\ srcRead'.touched = srcRead.touched /\ srcRead'.got = srcRead.got \union sent
        /\ srcRead'.rest = parents \ page /\ srcRead'.at = srcRead.at
        /\ srcRead'.max <= srcNow /\ srcRead'.missed = missed
    BY <1>1, <1>9, <1>16, <2>1, <2>2
  <2> QED
    BY <1>1, <1>3, <1>12, <1>14, <1>17, <1>18, <1>19, <2>1, <2>3, FetchKept
<1>21. CASE parents = page
  <2>1. srcRead' = Ended(n) /\ srcTicks' = srcTicks
    BY <1>12, <1>21
  <2>2. /\ srcRead' \in SrcReadings /\ srcRead'.pc = "done"
        /\ srcRead'.rest = {} /\ srcRead'.at = NoState /\ srcRead'.max = 0
        /\ srcRead'.missed = n.missed
        /\ n.missed => srcRead'.got = {} /\ srcRead'.from = NoState
        /\ ~n.missed => /\ srcRead'.from = n.from /\ srcRead'.there = n.there
                        /\ srcRead'.got = n.got /\ srcRead'.touched = n.touched
    BY <1>16, <2>1, EndedIs
  <2>3. ~missed =>
           \A v \in Versions : v[2] \notin srcRead.touched /\ Selects(srcRead.from, v) =>
              v \in srcRead.got \union sent
    BY <1>5, <1>17, <1>21
  <2>4. srcKind \in StrictKinds => srcState'[1] \in srcTicks' \union {0}
    BY <1>4, <1>12 DEF SrcHistory
  <2>5. srcTicks \subseteq srcTicks' /\ UNCHANGED <<srcKind, srcTime, srcNow>>
    BY <1>12, <2>1
  <2> QED
    BY <1>1, <1>12, <1>14, <1>16, <1>18, <1>19, <2>2, <2>3, <2>4, <2>5, ReadEnds
<1> QED
  BY <1>20, <1>21

-----------------------------------------------------------------------------
(* The invariant of the sources: initially, and with every step.            *)
LEMMA SourcesInductive == SourcesSpec => []SourcesIInv
<1>1. SourcesInit => SourcesIInv
  BY SourcesStart
<1>2. SourcesIInv /\ [SourcesNext]_srcVars => SourcesIInv'
  <2> SUFFICES ASSUME SourcesIInv, [SourcesNext]_srcVars
               PROVE  SourcesIInv'
    OBVIOUS
  <2>1. ASSUME NEW r \in SrcRows, SrcModify(r)
        PROVE  SourcesIInv'
    BY <2>1, IdleChangeKept, ReadChangeKept
  <2>2. CASE SrcTick \/ SrcBegin
    BY <2>2, TickKept, BeginKept
  <2>3. CASE SrcFail
    <3>1. /\ srcRead.pc = "reading" /\ srcRead' = NotReading("failed") /\ Delivered({})
          /\ srcQuiet' = (srcKind \notin FragileKinds)
          /\ UNCHANGED <<srcKind, srcTime, srcNow, srcState, srcTicks>>
      BY <2>3 DEF SrcFail
    <3>2. srcKind \notin FragileKinds => srcQuiet
      BY DEF SourcesIInv, SrcHistory
    <3>3. srcQuiet' \in BOOLEAN /\ (srcQuiet' => srcQuiet) /\ (srcQuiet' <=> srcKind \notin FragileKinds)
      BY <3>1, <3>2
    <3> QED
      BY <3>1, <3>3, FailKept
  <2>4. CASE SalesforceReadStream \/ BigQueryReadStream
    BY <2>4, SalesforceKept, BigQueryKept
  <2>5. CASE \/ HubspotReadViaSearch \/ IntercomReadViaSearch \/ GongReadViaPOST
             \/ ZendeskReadIncremental
    BY <2>5, SearchKept, ZendeskKept
  <2>6. CASE ChorusReadStream \/ ReadSnowflakeStream \/ OffsetPages
    BY <2>6, ChorusKept, SnowflakeKept, OffsetPagesKept, RootPagesKept
  <2>7. CASE ReadS3Stream \/ ReadZoomStream \/ ReadSubResource
    BY <2>7, S3Kept, ZoomKept, SubResourceKept
  <2>8. CASE \/ ZendeskReadFullRefresh \/ IntercomReadViaScroll
             \/ IntercomReadViaCursorPagination \/ GongReadViaGET \/ HubspotReadViaList
             \/ LinkPages
    BY <2>8, ListingsKept
  <2>9. ASSUME NEW end \in {"absent", "null"}, CursorPages(end) \/ FetchAllPagesPost(end)
        PROVE  SourcesIInv'
    BY <2>9, CursorKept, PostKept
  <2>10. CASE UNCHANGED srcVars
    <3>1. /\ srcKind' = srcKind /\ srcTime' = srcTime /\ srcNow' = srcNow
          /\ srcState' = srcState /\ srcTicks' = srcTicks /\ srcRead' = srcRead
          /\ srcQuiet' = srcQuiet /\ srcDelivered' = srcDelivered
      BY <2>10 DEF srcVars
    <3>2. Versions' = Versions
      BY <3>1 DEF Versions
    <3>3. RowKeys' = RowKeys
      BY <3>2 DEF RowKeys
    <3>4. SrcShape /\ SrcHistory /\ SrcCovered /\ SrcProgress /\ CleanReadIsComplete
      BY DEF SourcesIInv
    <3>5. SrcShape' /\ SrcHistory' /\ SrcCovered'
      BY <3>1, <3>2, <3>4 DEF SrcShape, SrcHistory, SrcCovered, SrcSince, Selects
    <3>6. SrcProgress'
      BY <3>1, <3>2, <3>3, <3>4
      DEF SrcProgress, SrcQueried, SrcFetched, SrcPassed, SrcListed, SrcCounted, SrcSorted,
          InFront, InOrder, Ahead, Selects
    <3>7. CleanReadIsComplete'
      BY <3>1, <3>4 DEF CleanReadIsComplete, Selects
    <3> QED
      BY <3>5, <3>6, <3>7 DEF SourcesIInv
  <2> QED
    BY <2>1, <2>2, <2>3, <2>4, <2>5, <2>6, <2>7, <2>8, <2>9, <2>10 DEF SourcesNext
<1> QED
  BY <1>1, <1>2, PTL DEF SourcesSpec

(* Whatever the number of rows, the size of a page and the connector, and   *)
(* however rows change and reads fail: a version no read has delivered is   *)
(* one the next read will ask for (Read of the source connectors, and the   *)
(* state messages they send), apart from a change in the very tick a state  *)
(* or a page ends with, and from the connectors that cannot stand a change  *)
(* or a failure.                                                            *)
THEOREM NoChangeIsLost == SourcesSpec => []NothingLost
<1>1. SourcesIInv => NothingLost
  <2> SUFFICES ASSUME SourcesIInv, srcRead.pc # "reading", srcKind \notin FullKinds,
                      NEW v \in Versions \ srcDelivered,
                      ~(srcKind \in FragileKinds /\ ~srcQuiet)
               PROVE  Selects(srcState, v) \/ v[1] \in srcTicks
    BY DEF NothingLost
  <2>1. srcQuiet
    BY DEF SourcesIInv, SrcHistory
  <2> QED
    BY <2>1 DEF SourcesIInv, SrcCovered, SrcSince
<1> QED
  BY <1>1, SourcesInductive, PTL

(* A read that ends without an error has delivered all rows its filter      *)
(* selects that nobody changed meanwhile (readStream of the connectors and  *)
(* the loops of common/pagination.go), apart from the exceptions that       *)
(* CleanReadIsComplete names.                                               *)
THEOREM CleanReadsAreComplete == SourcesSpec => []CleanReadIsComplete
<1>1. SourcesIInv => CleanReadIsComplete
  BY DEF SourcesIInv
<1> QED
  BY <1>1, SourcesInductive, PTL

-----------------------------------------------------------------------------
(* What is left of the types: the bounds of the buffers, of the channels    *)
(* and of the attempts.                                                     *)

MhBounded ==
    /\ Len(mhBuf) < MhBatchSize /\ mhEnded \subseteq MhProcs /\ mhRouted <= MhMaxRecords
    /\ \A p \in Flushers : Cardinality(mhProcs[p]) <= MhBatchSize

(* A flush takes no more than a batch.                                      *)
LEMMA MhFlushBounded ==
  ASSUME HandlerIInv, MhBounded, NEW p \in Flushers, NEW buf \in Seq(Nat), NEW timers,
         Len(buf) <= MhBatchSize, flushBatchLocked(p, buf, timers)
  PROVE  /\ Len(mhBuf') < MhBatchSize
         /\ \A q \in Flushers : Cardinality(mhProcs'[q]) <= MhBatchSize
<1>1. mhBuf' = <<>> /\ mhProcs' = [mhProcs EXCEPT ![p] = ToSet(buf)]
      /\ mhProcs \in [Flushers -> SUBSET Nat] /\ MhBatchSize \in Nat \ {0}
  BY HandlerAssumption DEF flushBatchLocked, HandlerIInv, MhShape
<1>2. Len(mhBuf') < MhBatchSize
  BY <1>1
<1>3. Cardinality(ToSet(buf)) \in Nat /\ Cardinality(ToSet(buf)) <= Len(buf)
  BY MembersAreFew
<1>4. Cardinality(ToSet(buf)) <= MhBatchSize
  BY <1>1, <1>3
<1>5. PICK S : S = ToSet(buf)
  OBVIOUS
<1>6. \A q \in Flushers : mhProcs'[q] = IF q = p THEN S ELSE mhProcs[q]
  BY <1>1, <1>5
<1> QED
  BY <1>2, <1>4, <1>5, <1>6 DEF MhBounded

(* The types of the handler; a batch holds and a flush takes no more        *)
(* records than batchSize.                                                  *)
LEMMA HandlerTypes == MessageHandlerSpec => []MessageHandlerTypeOK
<1> USE HandlerAssumption
<1>1. MessageHandlerInit => MhBounded
  BY FS_EmptySet DEF MessageHandlerInit, MhBounded
<1>2. HandlerIInv /\ MhBounded /\ [MessageHandlerNext]_mhVars => MhBounded'
  <2> SUFFICES ASSUME HandlerIInv, MhBounded, [MessageHandlerNext]_mhVars
               PROVE  MhBounded'
    OBVIOUS
  <2>1. /\ mhBuf \in Seq(Nat) /\ mhRouted \in Nat /\ Len(mhBuf) \in Nat
        /\ mhProcs \in [Flushers -> SUBSET Nat]
        /\ Len(mhBuf) < MhBatchSize /\ mhEnded \subseteq MhProcs /\ mhRouted <= MhMaxRecords
        /\ \A p \in Flushers : Cardinality(mhProcs[p]) <= MhBatchSize
    BY DEF HandlerIInv, MhShape, MhBounded
  <2>2. ASSUME NEW p \in MhProcs, handleRecord(p)
        PROVE  MhBounded'
    <3>1. PICK buf : buf = Append(mhBuf, mhRouted + 1)
      OBVIOUS
    <3>2. buf \in Seq(Nat) /\ Len(buf) = Len(mhBuf) + 1 /\ Len(buf) <= MhBatchSize
          /\ p \in Flushers
      BY <2>1, <3>1 DEF Flushers
    <3>3. /\ mhRouted' <= MhMaxRecords /\ mhEnded' = mhEnded
          /\ \/ flushBatchLocked(p, buf, mhTimers)
             \/ Len(buf) < MhBatchSize /\ mhBuf' = buf /\ mhProcs' = mhProcs
      BY <2>1, <2>2, <3>1 DEF handleRecord
    <3>4. /\ Len(mhBuf') < MhBatchSize
          /\ \A q \in Flushers : Cardinality(mhProcs'[q]) <= MhBatchSize
      BY <2>1, <3>2, <3>3, MhFlushBounded
    <3> QED
      BY <2>1, <3>3, <3>4 DEF MhBounded
  <2>3. ASSUME NEW p \in MhProcs, RouteMessageFails(p)
        PROVE  MhBounded'
    BY <2>1, <2>3 DEF RouteMessageFails, MhBounded
  <2>4. ASSUME NEW p \in MhProcs, ProcessChannelEnds(p)
        PROVE  MhBounded'
    <3>1. /\ mhRouted' = mhRouted /\ mhEnded' = mhEnded \union {p} /\ p \in Flushers
          /\ \/ flushBatchLocked(p, mhBuf, mhTimers)
             \/ UNCHANGED <<mhBuf, mhProcs>>
      BY <2>4 DEF ProcessChannelEnds, Flushers
    <3>2. /\ Len(mhBuf') < MhBatchSize
          /\ \A q \in Flushers : Cardinality(mhProcs'[q]) <= MhBatchSize
      BY <2>1, <3>1, MhFlushBounded
    <3> QED
      BY <2>1, <3>1, <3>2 DEF MhBounded
  <2>5. ASSUME NEW t \in Timers, TimerFires(t) \/ TimerFlushes(t)
        PROVE  MhBounded'
    <3>1. PICK timers : timers = [mhTimers EXCEPT ![t] = "flush"]
      OBVIOUS
    <3>2. /\ mhRouted' = mhRouted /\ mhEnded' = mhEnded /\ t \in Flushers
          /\ \/ flushBatchLocked(t, mhBuf, timers)
             \/ UNCHANGED <<mhBuf, mhProcs>>
      BY <2>5, <3>1 DEF TimerFires, TimerFlushes, Flushers
    <3>3. /\ Len(mhBuf') < MhBatchSize
          /\ \A q \in Flushers : Cardinality(mhProcs'[q]) <= MhBatchSize
      BY <2>1, <3>2, MhFlushBounded
    <3> QED
      BY <2>1, <3>2, <3>3 DEF MhBounded
  <2>6. ASSUME NEW p \in Flushers, BatchFlushReturns(p)
        PROVE  MhBounded'
    <3>1. /\ mhProcs' = [mhProcs EXCEPT ![p] = {}]
          /\ UNCHANGED <<mhBuf, mhEnded, mhRouted>>
      BY <2>6 DEF BatchFlushReturns
    <3>2. \A q \in Flushers : mhProcs'[q] = IF q = p THEN {} ELSE mhProcs[q]
      BY <2>1, <3>1
    <3>3. Cardinality({}) <= MhBatchSize
      BY FS_EmptySet
    <3> QED
      BY <2>1, <3>1, <3>2, <3>3 DEF MhBounded
  <2>7. CASE UNCHANGED mhVars
    BY <2>1, <2>7 DEF mhVars, MhBounded
  <2> QED
    BY <2>2, <2>3, <2>4, <2>5, <2>6, <2>7 DEF MessageHandlerNext
<1>3. HandlerIInv /\ MhBounded => MessageHandlerTypeOK
  BY DEF HandlerIInv, MhShape, MhBounded, MessageHandlerTypeOK, TimerStates
<1> QED
  BY <1>1, <1>2, <1>3, HandlerInductive, PTL DEF MessageHandlerSpec

RtBounded ==
    /\ rtKind \in RtKinds
    /\ Len(rtIn.buf) <= RtCapacity /\ Len(rtOut.buf) <= RtCapacity
    /\ rtSender.sent <= Len(RtMessages)
    /\ rtRelay.count + Len(rtIn.buf) <= rtSender.sent
    /\ rtBox \in {"running", "ok", "error", "cancelled", "deadline"}
    /\ rtActive \in BOOLEAN /\ rtCrashed \in BOOLEAN

(* The end of the relay: at most one message more, of which there is room.  *)
LEMMA RtEndBounded ==
  ASSUME RtShape, RtBounded,
         \/ RelayEnds(rtOut) \/ (HasRoom(rtOut) /\ RelayEnds(Puts(rtOut, 0))),
         UNCHANGED <<rtKind, rtSender, rtIn, rtReceiver, rtBox, rtCrashed>>
  PROVE  RtBounded'
<1>1. PICK out : /\ RelayEnds(out)
                 /\ out = rtOut \/ (HasRoom(rtOut) /\ out = Puts(rtOut, 0))
  OBVIOUS
<1>2. rtOut \in RtChannels /\ rtRelay \in RtRelays /\ RtCapacity \in Nat \ {0}
  BY RuntimeAssumption DEF RtShape
<1>3. out \in RtChannels /\ Len(out.buf) <= RtCapacity
  <2>1. CASE out = rtOut
    BY <1>2, <2>1 DEF RtBounded
  <2>2. CASE HasRoom(rtOut) /\ out = Puts(rtOut, 0)
    <3>1. PICK b : b = rtOut.buf
      OBVIOUS
    <3>2. b \in Seq(Nat) /\ Len(b) < RtCapacity /\ Len(b) \in Nat
      BY <1>2, <2>2, <3>1 DEF RtChannels, HasRoom
    <3>3. PICK c : c = Append(b, 0)
      OBVIOUS
    <3>4. c \in Seq(Nat) /\ Len(c) = Len(b) + 1
      BY <3>2, <3>3
    <3>5. out = [rtOut EXCEPT !.buf = c]
      BY <2>2, <3>1, <3>3 DEF Puts
    <3>6. out \in RtChannels /\ out.buf = c
      BY <1>2, <3>4, <3>5 DEF RtChannels
    <3> QED
      BY <1>2, <3>2, <3>4, <3>6
  <2> QED
    BY <1>1, <2>1, <2>2
<1>4. rtOut'.buf = out.buf /\ rtRelay'.count = rtRelay.count
  BY <1>1, <1>2, <1>3 DEF RelayEnds, RtChannels, RtRelays
<1>5. rtActive' \in BOOLEAN
  BY <1>1 DEF RelayEnds, RtBounded
<1> QED
  BY <1>3, <1>4, <1>5 DEF RtBounded

(* The types of the runtime; no channel holds more than its capacity, and   *)
(* the relay has counted no more records than were sent.                    *)
LEMMA RuntimeTypes == RuntimeSpec => []RuntimeTypeOK
<1> USE RuntimeAssumption
<1>1. RuntimeInit => RtBounded
  <2> SUFFICES ASSUME RuntimeInit PROVE RtBounded
    OBVIOUS
  <2>1. rtIn.buf = <<>> /\ rtOut.buf = <<>> /\ rtSender.sent = 0 /\ rtRelay.count = 0
        /\ rtBox = "running" /\ rtKind \in RtKinds
    BY DEF RuntimeInit, Channel
  <2>2. Len(rtIn.buf) = 0 /\ Len(rtOut.buf) = 0 /\ Len(RtMessages) \in Nat
    BY <2>1
  <2>3. rtActive \in BOOLEAN /\ rtCrashed \in BOOLEAN
    BY DEF RuntimeInit
  <2> QED
    BY <2>1, <2>2, <2>3 DEF RtBounded
<1>2. RuntimeIInv /\ RtBounded /\ [RuntimeNext]_rtVars => RtBounded'
  <2> SUFFICES ASSUME RuntimeIInv, RtBounded, [RuntimeNext]_rtVars
               PROVE  RtBounded'
    OBVIOUS
  <2>1. /\ RtShape /\ rtIn \in RtChannels /\ rtOut \in RtChannels /\ rtRelay \in RtRelays
        /\ rtSender \in RtSenders /\ rtReceiver \in RtReceivers
    BY DEF RuntimeIInv, RtShape
  <2>2. PICK in, out : in = rtIn.buf /\ out = rtOut.buf
    OBVIOUS
  <2>3. in \in Seq(Nat) /\ out \in Seq(Nat) /\ Len(in) \in Nat /\ Len(out) \in Nat
        /\ rtRelay.count \in Nat /\ rtSender.sent \in Nat /\ Len(RtMessages) \in Nat
    BY <2>1, <2>2 DEF RtChannels, RtRelays, RtSenders
  <2>4. /\ rtKind \in RtKinds /\ Len(in) <= RtCapacity /\ Len(out) <= RtCapacity
        /\ rtSender.sent <= Len(RtMessages) /\ rtRelay.count + Len(in) <= rtSender.sent
        /\ rtBox \in {"running", "ok", "error", "cancelled", "deadline"}
        /\ rtActive \in BOOLEAN /\ rtCrashed \in BOOLEAN
    BY <2>2 DEF RtBounded
  <2>5. CASE ContextEnds
    BY <2>2, <2>4, <2>5 DEF ContextEnds, RtBounded
  <2>6. CASE Sends
    <3>1. CASE UNCHANGED <<rtIn, rtSender>> /\ rtCrashed' = TRUE
      BY <2>2, <2>4, <2>6, <3>1 DEF Sends, RtBounded
    <3>2. CASE /\ HasRoom(rtIn) /\ rtIn' = Puts(rtIn, rtSender.sent + 1)
               /\ rtSender' = [rtSender EXCEPT !.sent = rtSender.sent + 1]
               /\ UNCHANGED rtCrashed
      <4>1. PICK c : c = Append(in, rtSender.sent + 1)
        OBVIOUS
      <4>2. c \in Seq(Nat) /\ Len(c) = Len(in) + 1
        BY <2>3, <4>1
      <4>3. Len(in) < RtCapacity /\ rtIn' = [rtIn EXCEPT !.buf = c]
        BY <2>2, <3>2, <4>1 DEF HasRoom, Puts
      <4>4. rtIn'.buf = c /\ rtSender'.sent = rtSender.sent + 1
        BY <2>1, <3>2, <4>3 DEF RtChannels, RtSenders
      <4>5. rtSender.sent + 1 <= Len(RtMessages) /\ rtRelay' = rtRelay /\ rtOut' = rtOut
            /\ rtKind' = rtKind /\ rtBox' = rtBox /\ rtActive' = rtActive
        BY <2>6 DEF Sends
      <4> QED
        BY <2>2, <2>3, <2>4, <3>2, <4>2, <4>3, <4>4, <4>5 DEF RtBounded
    <3> QED
      BY <2>6, <3>1, <3>2 DEF Sends
  <2>7. CASE SenderReturns
    <3>1. rtIn'.buf = in /\ rtSender'.sent = rtSender.sent
          /\ UNCHANGED <<rtKind, rtRelay, rtOut, rtBox, rtActive, rtCrashed>>
      BY <2>1, <2>2, <2>7 DEF SenderReturns, RtChannels, RtSenders
    <3> QED
      BY <2>2, <2>4, <3>1 DEF RtBounded
  <2>8. CASE RunInSandbox
    <3>1. rtIn'.buf = in /\ UNCHANGED <<rtKind, rtSender, rtRelay, rtOut, rtCrashed>>
      BY <2>1, <2>2, <2>8 DEF RunInSandbox, RtChannels
    <3>2. rtBox' \in {"running", "ok", "error", "cancelled", "deadline"}
      BY <2>8 DEF RunInSandbox
    <3>3. rtActive' \in BOOLEAN /\ rtCrashed' \in BOOLEAN
      BY <2>4, <2>8 DEF RunInSandbox
    <3> QED
      BY <2>2, <2>4, <3>1, <3>2, <3>3 DEF RtBounded
  <2>9. CASE RelayReceives
    <3>1. PICK t : t = Tail(in)
      OBVIOUS
    <3>2. in # <<>> /\ rtIn' = [rtIn EXCEPT !.buf = t]
          /\ UNCHANGED <<rtKind, rtSender, rtOut, rtBox, rtActive, rtCrashed>>
      BY <2>2, <2>9, <3>1 DEF RelayReceives
    <3>3. Len(t) = Len(in) - 1 /\ t \in Seq(Nat)
      BY <2>3, <3>1, <3>2
    <3>4. rtIn'.buf = t
      BY <2>1, <3>2 DEF RtChannels
    <3>5. rtRelay'.count \in {rtRelay.count, rtRelay.count + 1}
      BY <2>3, <2>9 DEF RelayReceives
    <3>6. /\ Len(rtIn'.buf) <= RtCapacity
          /\ rtRelay'.count + Len(rtIn'.buf) <= rtSender.sent
      <4>1. PICK a, b, c, d : /\ a = rtRelay.count /\ b = Len(in) /\ c = rtRelay'.count
                              /\ d = Len(t)
        OBVIOUS
      <4>2. a \in Nat /\ b \in Nat /\ c \in {a, a + 1} /\ d = b - 1 /\ b <= RtCapacity
            /\ a + b <= rtSender.sent
        BY <2>3, <2>4, <3>3, <3>5, <4>1
      <4>3. d <= RtCapacity /\ c + d <= rtSender.sent
        BY <2>3, <4>2
      <4> QED
        BY <3>4, <4>1, <4>3
    <3> QED
      BY <2>2, <2>4, <3>2, <3>6 DEF RtBounded
  <2>10. CASE RelayForwards
    <3>1. CASE CtxDone /\ RelayEnds(rtOut)
      BY <2>1, <2>10, <3>1, RtEndBounded DEF RelayForwards
    <3>2. CASE /\ HasRoom(rtOut) /\ rtOut' = Puts(rtOut, rtRelay.msg)
               /\ rtRelay' = [rtRelay EXCEPT !.pc = "receive", !.msg = 0]
               /\ UNCHANGED <<rtActive, rtCtx>>
      <4>1. PICK c : c = Append(out, rtRelay.msg)
        OBVIOUS
      <4>2. c \in Seq(Nat) /\ Len(c) = Len(out) + 1
        BY <2>1, <2>3, <4>1 DEF RtRelays
      <4>3. Len(out) < RtCapacity /\ rtOut' = [rtOut EXCEPT !.buf = c]
        BY <2>2, <3>2, <4>1 DEF HasRoom, Puts
      <4>4. rtOut'.buf = c /\ rtRelay'.count = rtRelay.count
        BY <2>1, <3>2, <4>3 DEF RtChannels, RtRelays
      <4> QED
        BY <2>2, <2>3, <2>4, <2>10, <3>2, <4>2, <4>3, <4>4 DEF RelayForwards, RtBounded
    <3> QED
      BY <2>10, <3>1, <3>2 DEF RelayForwards
  <2>11. CASE RelayWarns \/ RelayFinishes
    BY <2>1, <2>11, RtEndBounded DEF RelayWarns, RelayFinishes
  <2>12. CASE ReceiverTakes
    <3>1. PICK t : t = Tail(out)
      OBVIOUS
    <3>2. out # <<>> /\ rtOut' = [rtOut EXCEPT !.buf = t]
          /\ UNCHANGED <<rtKind, rtSender, rtIn, rtRelay, rtBox, rtActive, rtCrashed>>
      BY <2>2, <2>12, <3>1 DEF ReceiverTakes
    <3>3. Len(t) = Len(out) - 1 /\ t \in Seq(Nat)
      BY <2>3, <3>1, <3>2
    <3>4. rtOut'.buf = t
      BY <2>1, <3>2 DEF RtChannels
    <3> QED
      BY <2>2, <2>3, <2>4, <3>2, <3>3, <3>4 DEF RtBounded
  <2>13. CASE ReceiverReturns
    BY <2>2, <2>4, <2>13 DEF ReceiverReturns, RtBounded
  <2>14. CASE UNCHANGED rtVars
    BY <2>2, <2>4, <2>14 DEF rtVars, RtBounded
  <2> QED
    BY <2>5, <2>6, <2>7, <2>8, <2>9, <2>10, <2>11, <2>12, <2>13, <2>14 DEF RuntimeNext
<1>3. RuntimeIInv /\ RtBounded => RuntimeTypeOK
  <2> SUFFICES ASSUME RuntimeIInv, RtBounded PROVE RuntimeTypeOK
    OBVIOUS
  <2>1. rtIn.buf \in Seq(Nat) /\ rtRelay.count \in Nat /\ rtSender.sent \in Nat
        /\ rtCtx \in {"open", "cancelled", "deadline", "finished"}
    BY DEF RuntimeIInv, RtShape, RtChannels, RtRelays, RtSenders
  <2>2. Len(rtIn.buf) \in Nat /\ Len(RtMessages) \in Nat
    BY <2>1
  <2>3. rtSender.sent \in 0..Len(RtMessages) /\ rtRelay.count \in 0..Len(RtMessages)
    BY <2>1, <2>2 DEF RtBounded
  <2>4. {rtActive, rtCrashed} \subseteq BOOLEAN
    BY Zenon DEF RtBounded
  <2> QED
    BY <2>1, <2>3, <2>4 DEF RtBounded, RuntimeTypeOK
<1> QED
  BY <1>1, <1>2, <1>3, RuntimeInductive, PTL DEF RuntimeSpec

(* A result speaks only of records that were seen.                          *)
WithinSeen(res) ==
    res.written \in Nat /\ res.failed \subseteq res.seen /\ res.acked \subseteq res.seen

(* So do the buffer and, while a request is under way, its jobs.            *)
DstBounded ==
    /\ dstKind \in DstKinds /\ dstCalls \in 0..DstMaxCalls /\ dstTry \in 0..DstMaxRetries
    /\ WithinSeen(dstResult) /\ ToSet(dstBuf) \subseteq dstResult.seen
    /\ dstPc \in {"request", "poll"} =>
          \A n \in DOMAIN dstReq : dstReq[n] \subseteq dstResult.seen /\ IsFiniteSet(dstReq[n])
    /\ dstCopies \in [DstRecords -> 0..2]

(* Copies are counted up to two.                                            *)
LEMMA AddBounded ==
  ASSUME NEW copies \in [DstRecords -> 0..2], NEW S
  PROVE  Add(copies, S) \in [DstRecords -> 0..2]
<1>1. PICK f : f = [r \in DstRecords |->
                      IF r \in S /\ copies[r] < 2 THEN copies[r] + 1 ELSE copies[r]]
  OBVIOUS
<1>2. ASSUME NEW r \in DstRecords
      PROVE  f[r] \in 0..2
  <2>1. copies[r] \in 0..2
    OBVIOUS
  <2>2. f[r] = IF r \in S /\ copies[r] < 2 THEN copies[r] + 1 ELSE copies[r]
    BY <1>1
  <2> QED
    BY <2>1, <2>2
<1>3. f \in [DstRecords -> 0..2]
  BY <1>1, <1>2
<1> QED
  BY <1>1, <1>3 DEF Add

(* What the flushes make of a result is about what was seen.                *)
LEMMA ResultsWithin ==
  ASSUME NEW res, ResultOK(res), WithinSeen(res), NEW n \in Nat, NEW bad \in SUBSET res.seen
  PROVE  /\ WithinSeen(Wrote(res, n)) /\ WithinSeen(OneError(res))
         /\ WithinSeen([res EXCEPT !.failed = @ \union bad])
         /\ WithinSeen([Wrote(res, n) EXCEPT !.failed = @ \union bad])
         /\ WithinSeen([Wrote(res, n) EXCEPT !.failed = @ \union bad,
                                             !.errors = IF bad # {} THEN 1 ELSE @])
<1>0. /\ DOMAIN res = ResultFields /\ res.written \in Nat
      /\ res.failed \subseteq res.seen /\ res.acked \subseteq res.seen
  BY DEF ResultOK, WithinSeen
<1>1. WithinSeen(Wrote(res, n))
  BY <1>0 DEF WithinSeen, ResultFields, Wrote
<1>2. WithinSeen(OneError(res))
  BY <1>0 DEF WithinSeen, ResultFields, OneError
<1>3. WithinSeen([res EXCEPT !.failed = @ \union bad])
  BY <1>0 DEF WithinSeen, ResultFields
<1>4. PICK q : q = Wrote(res, n)
  OBVIOUS
<1>5. /\ DOMAIN q = ResultFields /\ q.written \in Nat /\ q.seen = res.seen
      /\ q.failed \subseteq res.seen /\ q.acked \subseteq res.seen
  BY <1>0, <1>4 DEF ResultFields, Wrote
<1>6. WithinSeen([q EXCEPT !.failed = @ \union bad])
  BY <1>5 DEF WithinSeen, ResultFields
<1>7. WithinSeen([q EXCEPT !.failed = @ \union bad, !.errors = IF bad # {} THEN 1 ELSE @])
  BY <1>5 DEF WithinSeen, ResultFields
<1> QED
  BY <1>1, <1>2, <1>3, <1>4, <1>6, <1>7

(* What a flush of buf leaves of the bounds.                                *)
FlushedWithin(res) ==
    /\ WithinSeen(dstResult') /\ dstResult'.seen = res.seen
    /\ ToSet(dstBuf') \subseteq res.seen /\ dstCopies' \in [DstRecords -> 0..2]

(* Snowflake's statements.                                                  *)
LEMMA SnowflakeWithin ==
  ASSUME NEW buf \in Seq(DstRecords), NEW res, ResultOK(res), WithinSeen(res),
         ToSet(buf) \subseteq res.seen, dstCopies \in [DstRecords -> 0..2],
         DirectInsert(buf, res) \/ BulkInsertViaStage(buf, res)
  PROVE  FlushedWithin(res)
<1>1. /\ Len(buf) \in Nat /\ DOMAIN buf = 1..Len(buf) /\ ToSet(buf) \in SUBSET DstRecords
      /\ ToSet(buf) \in SUBSET res.seen /\ ToSet(<<>>) = {}
  BY MembersOf, EmptyBuffer
<1>2. CASE DirectInsert(buf, res)
  <2>1. PICK insert \in ExecuteStatement :
          /\ dstCopies' = Add(dstCopies, IF insert.effect THEN ToSet(buf) ELSE {})
          /\ dstResult' = IF insert.ok THEN Wrote(res, Len(buf))
                          ELSE [res EXCEPT !.failed = @ \union ToSet(buf)]
    BY <1>2 DEF DirectInsert
  <2>2. dstBuf' = <<>>
    BY <1>2 DEF DirectInsert
  <2>3. WithinSeen(Wrote(res, Len(buf)))
        /\ WithinSeen([res EXCEPT !.failed = @ \union ToSet(buf)])
    BY <1>1, ResultsWithin
  <2>4. /\ ResultAfter(Wrote(res, Len(buf)), res, {})
        /\ ResultAfter([res EXCEPT !.failed = @ \union ToSet(buf)], res, ToSet(buf))
    BY <1>1, ResultsAre
  <2>5. WithinSeen(dstResult') /\ dstResult'.seen = res.seen
    BY <2>1, <2>3, <2>4 DEF ResultAfter
  <2>6. dstCopies' \in [DstRecords -> 0..2]
    BY <2>1, AddBounded
  <2> QED
    BY <1>1, <2>2, <2>5, <2>6 DEF FlushedWithin
<1>3. CASE BulkInsertViaStage(buf, res)
  <2>1. PICK n \in 1..(Len(buf) + 1), kept \in BOOLEAN, last \in ExecuteStatement :
          LET counted == ToSet(SubSeq(buf, 1, n - 1))
              failed == {buf[i] : i \in {n} \intersect DOMAIN buf}
              effect == counted \union IF last.effect THEN failed ELSE {} IN
          /\ dstCopies' = Add(dstCopies, IF kept THEN effect ELSE {})
          /\ dstResult' = [Wrote(res, n - 1) EXCEPT
                             !.failed = @ \union failed,
                             !.errors = IF failed # {} THEN 1 ELSE @]
    BY <1>3 DEF BulkInsertViaStage
  <2>2. PICK failed : failed = {buf[i] : i \in {n} \intersect DOMAIN buf}
    OBVIOUS
  <2>3. PICK m : m = n - 1
    OBVIOUS
  <2>4. m \in Nat
    BY <1>1, <2>3
  <2>5. failed \in SUBSET ToSet(buf)
    BY <2>2 DEF ToSet
  <2>6. dstResult' = [Wrote(res, m) EXCEPT !.failed = @ \union failed,
                                           !.errors = IF failed # {} THEN 1 ELSE @]
    BY <2>1, <2>2, <2>3
  <2>7. failed \in SUBSET res.seen /\ failed \in SUBSET DstRecords
    BY <1>1, <2>5
  <2>8. WithinSeen(dstResult')
    BY <2>4, <2>6, <2>7, ResultsWithin
  <2>9. ResultAfter(dstResult', res, failed)
    BY <2>6, <2>7, ResultsAre
  <2>10. dstCopies' \in [DstRecords -> 0..2]
    <3>1. PICK S : dstCopies' = Add(dstCopies, S)
      BY <2>1
    <3> QED
      BY <3>1, AddBounded
  <2>11. dstBuf' = <<>>
    BY <1>3 DEF BulkInsertViaStage
  <2> QED
    BY <1>1, <2>8, <2>9, <2>10, <2>11 DEF FlushedWithin, ResultAfter
<1> QED
  BY <1>2, <1>3

(* BigQuery's insertAll: there are no more row errors than rows.            *)
LEMMA BigQueryWithin ==
  ASSUME NEW buf \in Seq(DstRecords), NEW res, ResultOK(res), WithinSeen(res),
         ToSet(buf) \subseteq res.seen, dstCopies \in [DstRecords -> 0..2],
         BigQueryFlush(buf, res)
  PROVE  FlushedWithin(res)
<1>1. /\ Len(buf) \in Nat /\ ToSet(buf) \in SUBSET DstRecords /\ ToSet(<<>>) = {}
      /\ dstBuf' = <<>> /\ {} \in SUBSET DstRecords /\ {} \in SUBSET res.seen
  BY MembersOf, EmptyBuffer DEF BigQueryFlush
<1>2. CASE /\ dstCopies' = Add(dstCopies, ToSet(buf)) /\ dstResult' = Wrote(res, Len(buf))
  <2>1. WithinSeen(dstResult')
    BY <1>1, <1>2, ResultsWithin
  <2>2. ResultAfter(dstResult', res, {})
    BY <1>1, <1>2, ResultsAre
  <2>3. dstCopies' \in [DstRecords -> 0..2]
    BY <1>2, AddBounded
  <2> QED
    BY <1>1, <2>1, <2>2, <2>3 DEF FlushedWithin, ResultAfter
<1>3. ASSUME NEW bad \in SUBSET ToSet(buf), UNCHANGED dstCopies,
             dstResult' = [Wrote(res, Len(buf) - Cardinality(bad)) EXCEPT !.failed = @ \union bad]
      PROVE  FlushedWithin(res)
  <2>1. PICK few, all : few = Cardinality(bad) /\ all = Cardinality(ToSet(buf))
    OBVIOUS
  <2>2. IsFiniteSet(ToSet(buf)) /\ all \in Nat /\ all <= Len(buf)
    BY <2>1, MembersAreFew
  <2>3. IsFiniteSet(bad) /\ few <= all
    BY <2>1, <2>2, FS_Subset
  <2>4. few \in Nat
    BY <2>1, <2>3, FS_CardinalityType
  <2>5. PICK n : n = Len(buf) - few
    OBVIOUS
  <2>6. n \in Nat
    BY <1>1, <2>2, <2>3, <2>4, <2>5
  <2>7. dstResult' = [Wrote(res, n) EXCEPT !.failed = @ \union bad]
    BY <1>3, <2>1, <2>5
  <2>8. bad \in SUBSET res.seen /\ bad \in SUBSET DstRecords
    BY <1>1
  <2>9. WithinSeen(dstResult')
    BY <2>6, <2>7, <2>8, ResultsWithin
  <2>10. ResultAfter(dstResult', res, bad)
    BY <2>7, <2>8, ResultsAre
  <2> QED
    BY <1>1, <1>3, <2>9, <2>10 DEF FlushedWithin, ResultAfter
<1>4. ASSUME NEW done, dstCopies' = Add(dstCopies, done), dstResult' = OneError(res)
      PROVE  FlushedWithin(res)
  <2>1. WithinSeen(dstResult')
    BY <1>1, <1>4, ResultsWithin
  <2>2. ResultAfter(dstResult', res, {})
    BY <1>1, <1>4, ResultsAre
  <2>3. dstCopies' \in [DstRecords -> 0..2]
    BY <1>4, AddBounded
  <2> QED
    BY <1>1, <2>1, <2>2, <2>3 DEF FlushedWithin, ResultAfter
<1> QED
  BY <1>2, <1>3, <1>4 DEF BigQueryFlush

(* Every flush.                                                             *)
LEMMA FlushWithin ==
  ASSUME NEW buf \in Seq(DstRecords), NEW res, ResultOK(res), WithinSeen(res),
         ToSet(buf) \subseteq res.seen, dstCopies \in [DstRecords -> 0..2],
         Flush(buf, res)
  PROVE  FlushedWithin(res)
<1>1. CASE DirectInsert(buf, res) \/ BulkInsertViaStage(buf, res)
  BY <1>1, SnowflakeWithin
<1>2. CASE BigQueryFlush(buf, res)
  BY <1>2, BigQueryWithin
<1>3. CASE S3Flush(buf, res)
  <2>1. /\ \/ dstResult' = Wrote(res, Len(buf)) /\ dstBuf' = <<>>
           \/ dstResult' = OneError(res) /\ dstBuf' = buf
        /\ dstCopies' = dstCopies
    BY <1>3 DEF S3Flush
  <2>2. Len(buf) \in Nat /\ ToSet(<<>>) = {} /\ {} \in SUBSET res.seen /\ {} \in SUBSET DstRecords
    BY MembersOf, EmptyBuffer
  <2>3. WithinSeen(Wrote(res, Len(buf))) /\ WithinSeen(OneError(res))
    BY <2>2, ResultsWithin
  <2>4. ResultAfter(Wrote(res, Len(buf)), res, {}) /\ ResultAfter(OneError(res), res, {})
    BY <2>2, ResultsAre
  <2>5. CASE dstResult' = Wrote(res, Len(buf)) /\ dstBuf' = <<>>
    BY <2>1, <2>2, <2>3, <2>4, <2>5 DEF FlushedWithin, ResultAfter
  <2>6. CASE dstResult' = OneError(res) /\ dstBuf' = buf
    BY <2>1, <2>3, <2>4, <2>6 DEF FlushedWithin, ResultAfter
  <2> QED
    BY <2>1, <2>5, <2>6
<1> QED
  BY <1>1, <1>2, <1>3 DEF Flush, SnowflakeFlush

(* A request is answered: its result is about its records.                  *)
LEMMA AnsweredWithin ==
  ASSUME DestinationsIInv, DstBounded, dstPc \in {"request", "poll"},
         NEW n \in Nat, NEW bad \in SUBSET Job, NEW others \in BOOLEAN,
         Answered(n, bad, others), dstCopies' \in [DstRecords -> 0..2],
         UNCHANGED <<dstKind, dstCalls>>
  PROVE  DstBounded'
<1>1. /\ dstReq \in Seq(SUBSET DstRecords) /\ dstReq # <<>> /\ ResultOK(dstResult)
      /\ dstBuf \in Seq(DstRecords)
      /\ \A i \in DOMAIN dstReq : dstReq[i] \subseteq dstResult.seen /\ IsFiniteSet(dstReq[i])
  BY DEF DestinationsIInv, DstShape, DstBounded
<1>2. PICK m : m = Len(dstReq)
  OBVIOUS
<1>3. PICK tail : tail = Tail(dstReq)
  OBVIOUS
<1>4. /\ m \in Nat /\ m > 0 /\ DOMAIN dstReq = 1..m /\ DOMAIN tail = 1..(m - 1)
      /\ \A i \in 1..(m - 1) : tail[i] = dstReq[i + 1]
  BY <1>1, <1>2, <1>3
<1>5. Job = dstReq[1] /\ 1 \in DOMAIN dstReq
  BY <1>1, <1>4 DEF Job
<1>6. Job \subseteq dstResult.seen /\ IsFiniteSet(Job)
  BY <1>1, <1>5
<1>10. PICK res, q : res = dstResult
                     /\ q = [res EXCEPT !.written = @ + n, !.failed = @ \union bad,
                                        !.errors = IF others THEN 1 ELSE @]
  OBVIOUS
<1>11. dstResult' = q
  BY <1>10 DEF Answered
<1>12. /\ DOMAIN res = ResultFields /\ res.written \in Nat
       /\ res.failed \subseteq res.seen /\ res.acked \subseteq res.seen
       /\ bad \subseteq res.seen
  BY <1>1, <1>6, <1>10 DEF ResultOK, DstBounded, WithinSeen
<1>13. q.written \in Nat /\ q.failed = res.failed \union bad /\ q.acked = res.acked
       /\ q.seen = res.seen
  BY <1>10, <1>12 DEF ResultFields
<1>14. WithinSeen(dstResult') /\ dstResult'.seen = dstResult.seen
  BY <1>10, <1>11, <1>12, <1>13 DEF WithinSeen
<1>15. ASSUME NEW i \in DOMAIN tail
       PROVE  tail[i] \subseteq dstResult.seen /\ IsFiniteSet(tail[i])
  <2>1. PICK j : j = i + 1
    OBVIOUS
  <2>2. j \in DOMAIN dstReq /\ tail[i] = dstReq[j]
    BY <1>4, <2>1
  <2> QED
    BY <1>1, <2>2
<1>16. dstReq' = tail /\ dstTry' = 0
  BY <1>3 DEF Answered
<1>17. ToSet(dstBuf') \subseteq dstResult.seen
  <2>1. dstBuf' = dstBuf \/ dstBuf' = <<>>
    BY DEF Answered
  <2>2. ToSet(dstBuf) \subseteq dstResult.seen /\ ToSet(<<>>) = {}
    BY EmptyBuffer DEF DstBounded
  <2>3. CASE dstBuf' = dstBuf
    BY <2>2, <2>3
  <2>4. CASE dstBuf' = <<>>
    BY <2>2, <2>4
  <2> QED
    BY <2>1, <2>3, <2>4
<1>18. dstTry' \in 0..DstMaxRetries
  BY <1>16, DestinationsAssumption
<1>19. \A i \in DOMAIN dstReq' : dstReq'[i] \subseteq dstResult'.seen /\ IsFiniteSet(dstReq'[i])
  BY <1>14, <1>15, <1>16
<1>20. dstKind' \in DstKinds /\ dstCalls' \in 0..DstMaxCalls
  BY DEF DstBounded
<1> QED
  BY <1>14, <1>17, <1>18, <1>19, <1>20 DEF DstBounded

(* The jobs of a buffer are finite parts of it.                             *)
LEMMA JobsAreFinite ==
  ASSUME NEW buf \in Seq(DstRecords)
  PROVE  \A n \in DOMAIN Jobs(buf) :
            Jobs(buf)[n] \subseteq ToSet(buf) /\ IsFiniteSet(Jobs(buf)[n])
<1>1. PICK jobs : jobs = Jobs(buf)
  OBVIOUS
<1>2. UNION {jobs[n] : n \in DOMAIN jobs} = ToSet(buf)
  BY <1>1, JobsOf
<1>3. ASSUME NEW n \in DOMAIN jobs
      PROVE  jobs[n] \subseteq ToSet(buf) /\ IsFiniteSet(jobs[n])
  <2>1. jobs[n] \in SUBSET ToSet(buf)
    BY <1>2
  <2>2. IsFiniteSet(ToSet(buf))
    BY MembersAreFew
  <2> QED
    BY <2>1, <2>2, FS_Subset
<1> QED
  BY <1>1, <1>3

(* The loop of the business applications.                                   *)
LEMMA BufferedWithin ==
  ASSUME DestinationsIInv, DstBounded, dstPc = "receive", BufferedWrite
  PROVE  DstBounded'
<1>1. /\ dstIn \in Seq(DstMessages) /\ dstBuf \in Seq(DstRecords) /\ ResultOK(dstResult)
      /\ WithinSeen(dstResult) /\ ToSet(dstBuf) \subseteq dstResult.seen
  BY DEF DestinationsIInv, DstShape, DstBounded
<1>2. /\ DOMAIN dstResult = ResultFields /\ dstResult.written \in Nat
      /\ dstResult.failed \subseteq dstResult.seen /\ dstResult.acked \subseteq dstResult.seen
  BY <1>1 DEF ResultOK, WithinSeen
<1>3. WithinSeen(dstResult') /\ ToSet(dstBuf') \subseteq dstResult'.seen
      /\ dstBuf' \in Seq(DstRecords)
  <2>1. CASE UNCHANGED <<dstBuf, dstResult>>
    BY <1>1, <2>1
  <2>2. CASE dstIn # <<>> /\ Buffer(Head(dstIn)) /\ Head(dstIn) # StateMessage
    <3>1. PICK m : m = Head(dstIn)
      OBVIOUS
    <3>2. m \in DstMessages /\ Buffer(m) /\ m # StateMessage
      BY <1>1, <2>2, <3>1
    <3>3. CASE m = BadRecord
      <4>1. dstBuf' = dstBuf /\ dstResult' = [dstResult EXCEPT !.errors = 1]
        BY <3>2, <3>3 DEF Buffer
      <4>2. dstResult'.written = dstResult.written /\ dstResult'.failed = dstResult.failed
            /\ dstResult'.acked = dstResult.acked /\ dstResult'.seen = dstResult.seen
        BY <1>2, <4>1 DEF ResultFields
      <4> QED
        BY <1>1, <1>2, <4>1, <4>2 DEF WithinSeen
    <3>4. CASE m # BadRecord
      <4>1. dstBuf' = Append(dstBuf, m)
            /\ dstResult' = [dstResult EXCEPT !.seen = @ \union {m}]
        BY <3>2, <3>4 DEF Buffer
      <4>2. m \in DstRecords
        BY <3>2, <3>4, MessagesAre
      <4>3. dstBuf' \in Seq(DstRecords) /\ ToSet(dstBuf') = ToSet(dstBuf) \union {m}
        BY <1>1, <4>1, <4>2, MembersOf
      <4>4. dstResult'.written = dstResult.written /\ dstResult'.failed = dstResult.failed
            /\ dstResult'.acked = dstResult.acked
            /\ dstResult'.seen = dstResult.seen \union {m}
        BY <1>2, <4>1 DEF ResultFields
      <4> QED
        BY <1>1, <1>2, <4>3, <4>4 DEF WithinSeen
    <3> QED
      BY <3>3, <3>4
  <2> QED
    BY <2>1, <2>2 DEF BufferedWrite
<1>4. PICK b : b = dstBuf'
  OBVIOUS
<1>5. PICK jobs : jobs = Jobs(b)
  OBVIOUS
<1>6. \A n \in DOMAIN jobs : jobs[n] \subseteq ToSet(b) /\ IsFiniteSet(jobs[n])
  BY <1>3, <1>4, <1>5, JobsAreFinite
<1>7. \/ dstPc' = "request" /\ dstReq' = jobs
      \/ dstPc' \in {"receive", "done"}
  <2>1. \/ dstPc' = "request" /\ dstReq' = Jobs(dstBuf')
        \/ dstPc' \in {"receive", "done"}
    BY DEF BufferedWrite
  <2> QED
    BY <1>4, <1>5, <2>1
<1>8. dstPc' \in {"request", "poll"} =>
         \A n \in DOMAIN dstReq' : dstReq'[n] \subseteq dstResult'.seen /\ IsFiniteSet(dstReq'[n])
  BY <1>3, <1>4, <1>6, <1>7
<1>9. /\ dstKind' = dstKind /\ dstCalls' = dstCalls /\ dstTry' = 0 /\ dstCopies' = dstCopies
  BY DEF BufferedWrite
<1>10. dstTry' \in 0..DstMaxRetries
  BY <1>9, DestinationsAssumption
<1> QED
  BY <1>3, <1>8, <1>9, <1>10 DEF DstBounded

(* The loop of the warehouses and of the object store.                      *)
LEMMA FlushingWithin ==
  ASSUME DestinationsIInv, DstBounded, dstPc = "receive", FlushingWrite
  PROVE  DstBounded'
<1>1. /\ dstIn \in Seq(DstMessages) /\ dstBuf \in Seq(DstRecords) /\ ResultOK(dstResult)
      /\ WithinSeen(dstResult) /\ ToSet(dstBuf) \subseteq dstResult.seen
      /\ dstCopies \in [DstRecords -> 0..2]
  BY DEF DestinationsIInv, DstShape, DstBounded
<1>2. /\ DOMAIN dstResult = ResultFields /\ dstResult.written \in Nat
      /\ dstResult.failed \subseteq dstResult.seen /\ dstResult.acked \subseteq dstResult.seen
      /\ dstResult.failed \subseteq DstRecords /\ dstResult.acked \subseteq DstRecords
      /\ dstResult.seen \subseteq DstRecords /\ dstResult.errors \in {0, 1}
  BY <1>1 DEF ResultOK, WithinSeen
<1>3. dstKind' = dstKind /\ dstCalls' = dstCalls /\ dstTry' = dstTry
  BY DEF FlushingWrite
\* What is left to show of each case.
<1>4. ASSUME NEW res, FlushedWithin(res), dstPc' \in {"receive", "done"}
      PROVE  DstBounded'
  BY <1>3, <1>4 DEF DstBounded, FlushedWithin
\* The flush that ends Write, of the buffer if there is one.
<1>5. ASSUME NEW res, ResultOK(res), WithinSeen(res), dstResult.seen \subseteq res.seen,
             FinalFlush(res), dstPc' = "done"
      PROVE  DstBounded'
  <2>1. PICK buf : buf = dstBuf
    OBVIOUS
  <2>2. Flush(buf, res) \/ (dstBuf' = buf /\ dstResult' = res /\ dstCopies' = dstCopies)
    BY <1>5, <2>1 DEF FinalFlush
  <2>3. buf \in Seq(DstRecords) /\ ToSet(buf) \subseteq res.seen
    BY <1>1, <1>5, <2>1
  <2>4. FlushedWithin(res)
    <3>1. CASE Flush(buf, res)
      BY <1>1, <1>5, <2>3, <3>1, FlushWithin
    <3>2. CASE dstBuf' = buf /\ dstResult' = res /\ dstCopies' = dstCopies
      BY <1>1, <1>5, <2>3, <3>2 DEF FlushedWithin
    <3> QED
      BY <2>2, <3>1, <3>2
  <2> QED
    BY <1>4, <1>5, <2>4
<1>6. CASE dstIn = <<>>
  <2>1. dstPc' = "done" /\ FinalFlush(dstResult)
    BY <1>6 DEF FlushingWrite
  <2> QED
    BY <1>1, <1>5, <2>1
<1>7. CASE dstIn # <<>>
  <2>1. PICK m : m = Head(dstIn)
    OBVIOUS
  <2>2. m \in DstMessages
    BY <1>1, <1>7, <2>1
  <2>3. m \in Int /\ (m > 0 <=> m \in DstRecords)
    BY <2>2, MessagesAre
  <2>4. PICK seen : seen = SeenWith(m)
    OBVIOUS
  <2>5. seen = dstResult.seen \union (IF m > 0 THEN {m} ELSE {}) /\ dstResult.seen \subseteq seen
        /\ seen \subseteq DstRecords
    BY <1>2, <2>3, <2>4 DEF SeenWith
  <2>6. CASE dstCancelled
    <3>1. PICK res : res = [dstResult EXCEPT !.seen = seen]
      OBVIOUS
    <3>2. dstPc' = "done" /\ FinalFlush(res)
      BY <1>7, <2>1, <2>4, <2>6, <3>1 DEF FlushingWrite
    <3>3. /\ DOMAIN res = ResultFields /\ res.failed = dstResult.failed /\ res.seen = seen
          /\ res.written = dstResult.written /\ res.errors = dstResult.errors
          /\ res.acked = dstResult.acked
      BY <1>2, <3>1 DEF ResultFields
    <3>4. ResultOK(res) /\ WithinSeen(res) /\ dstResult.seen \subseteq res.seen
      BY <1>2, <2>5, <3>3 DEF ResultOK, WithinSeen
    <3> QED
      BY <1>5, <3>2, <3>4
  <2>7. CASE ~dstCancelled
    <3>1. PICK buf : buf = IF m > 0 THEN Append(dstBuf, m) ELSE dstBuf
      OBVIOUS
    <3>2. PICK res : res = [dstResult EXCEPT
                              !.errors = IF m = BadRecord THEN 1 ELSE @,
                              !.seen = seen,
                              !.acked = IF m = StateMessage THEN dstResult.seen ELSE @]
      OBVIOUS
    <3>3. /\ dstPc' = dstPc
          /\ Flush(buf, res) \/ (dstBuf' = buf /\ dstResult' = res /\ dstCopies' = dstCopies)
      BY <1>7, <2>1, <2>4, <2>7, <3>1, <3>2 DEF FlushingWrite
    <3>4. buf \in Seq(DstRecords) /\ ToSet(buf) = ToSet(dstBuf) \union (IF m > 0 THEN {m} ELSE {})
      <4>1. CASE m > 0
        BY <1>1, <2>3, <3>1, <4>1, MembersOf
      <4>2. CASE ~(m > 0)
        BY <1>1, <3>1, <4>2
      <4> QED
        BY <4>1, <4>2
    <3>5. /\ DOMAIN res = ResultFields /\ res.failed = dstResult.failed
          /\ res.written = dstResult.written
          /\ res.errors = IF m = BadRecord THEN 1 ELSE dstResult.errors
          /\ res.seen = seen
          /\ res.acked = IF m = StateMessage THEN dstResult.seen ELSE dstResult.acked
      BY <1>2, <3>2 DEF ResultFields
    <3>6. /\ res.errors \in {0, 1} /\ res.acked \subseteq DstRecords /\ res.acked \subseteq seen
          /\ res.failed \subseteq DstRecords /\ res.failed \subseteq seen
      BY <1>2, <2>5, <3>5
    <3>7. ResultOK(res) /\ WithinSeen(res)
      BY <1>2, <2>5, <3>5, <3>6 DEF ResultOK, WithinSeen
    <3>8. ToSet(buf) \subseteq res.seen
      BY <1>1, <2>5, <3>4, <3>5
    <3>9. FlushedWithin(res)
      <4>1. CASE Flush(buf, res)
        BY <1>1, <3>4, <3>7, <3>8, <4>1, FlushWithin
      <4>2. CASE dstBuf' = buf /\ dstResult' = res /\ dstCopies' = dstCopies
        BY <1>1, <3>7, <3>8, <4>2 DEF FlushedWithin
      <4> QED
        BY <3>3, <4>1, <4>2
    <3> QED
      BY <1>4, <3>3, <3>9
  <2> QED
    BY <2>6, <2>7
<1> QED
  BY <1>6, <1>7

(* The requests and what the connectors make of their answers.              *)
LEMMA RequestWithin ==
  ASSUME DestinationsIInv, DstBounded,
         \/ HttpRetry \/ HttpGivesUp \/ SalesforceFlushBatch \/ HubspotFlushBatch
         \/ ZendeskFlushBatch \/ ZendeskSubmitJob \/ IntercomFlushContactBatch
         \/ IntercomWriteIndividual
  PROVE  DstBounded'
<1>1. dstCopies \in [DstRecords -> 0..2]
  BY DEF DstBounded
<1>2. CASE HttpRetry
  <2>1. /\ dstTry < DstMaxRetries /\ dstTry' = dstTry + 1
        /\ UNCHANGED <<dstKind, dstCalls, dstBuf, dstReq, dstPc, dstResult>>
        /\ \E done : dstCopies' = Add(dstCopies, done)
    BY <1>2 DEF HttpRetry
  <2>2. dstCopies' \in [DstRecords -> 0..2]
    BY <1>1, <2>1, AddBounded
  <2>3. dstTry' \in 0..DstMaxRetries
    BY <2>1, DestinationsAssumption DEF DstBounded
  <2> QED
    BY <2>1, <2>2, <2>3 DEF DstBounded
<1>3. CASE ZendeskFlushBatch /\ dstPc' = "poll"
  <2>1. dstPc = "request"
        /\ UNCHANGED <<dstKind, dstCalls, dstBuf, dstReq, dstTry, dstResult, dstCopies>>
    BY <1>3 DEF ZendeskFlushBatch, Answered
  <2> QED
    BY <2>1 DEF DstBounded
<1>4. CASE \/ HttpGivesUp \/ SalesforceFlushBatch \/ HubspotFlushBatch
           \/ ZendeskFlushBatch /\ dstPc' # "poll"
           \/ ZendeskSubmitJob \/ IntercomFlushContactBatch \/ IntercomWriteIndividual
  <2>1. dstPc \in {"request", "poll"} /\ UNCHANGED <<dstKind, dstCalls>>
    BY <1>4 DEF HttpGivesUp, SalesforceFlushBatch, HubspotFlushBatch, ZendeskFlushBatch,
                ZendeskSubmitJob, IntercomFlushContactBatch, IntercomWriteIndividual
  <2>2. \E n \in Nat, bad \in SUBSET Job, others \in BOOLEAN : Answered(n, bad, others)
    <3>0. {} \in SUBSET Job /\ Job \in SUBSET Job /\ IsFiniteSet(Job)
          /\ Cardinality(Job) \in Nat /\ 0 \in Nat
      BY <2>1, JobNumbers
    <3>1. CASE HttpGivesUp
      BY <3>0, <3>1 DEF HttpGivesUp, Rejected
    <3>2. CASE SalesforceFlushBatch
      <4>1. PICK ok \in SUBSET Job :
               \/ Answered(0, {}, TRUE)
               \/ \E n \in 0..Cardinality(ok), bad \in SUBSET (Job \ ok) : Answered(n, bad, FALSE)
        BY <3>2 DEF SalesforceFlushBatch
      <4>2. CASE Answered(0, {}, TRUE)
        BY <3>0, <4>2
      <4>3. ASSUME NEW n, n \in 0..Cardinality(ok), NEW bad \in SUBSET (Job \ ok),
                   Answered(n, bad, FALSE)
            PROVE  \E k \in Nat, b \in SUBSET Job, others \in BOOLEAN : Answered(k, b, others)
        <5>1. n \in Nat
          BY <4>3
        <5>2. bad \in SUBSET Job
          OBVIOUS
        <5> QED
          BY <4>3, <5>1, <5>2
      <4> QED
        BY <4>1, <4>2, <4>3
    <3>3. CASE HubspotFlushBatch
      <4>1. PICK ok \in SUBSET Job :
               \/ \E n \in {0, Cardinality(ok)}, others \in BOOLEAN : Answered(n, {}, others)
               \/ Answered(Cardinality(Job), {}, FALSE)
        BY <3>3 DEF HubspotFlushBatch
      <4>2. Cardinality(ok) \in Nat
        BY <3>0, PartIsFew
      <4> QED
        BY <3>0, <4>1, <4>2
    <3>4. CASE ZendeskSubmitJob
      <4>1. \/ Answered(0, {}, TRUE)
            \/ \E total \in 0..Cardinality(Job) : Answered(total, {}, FALSE)
        BY <3>4 DEF ZendeskSubmitJob
      <4>2. 0..Cardinality(Job) \subseteq Nat
        BY <3>0
      <4> QED
        BY <3>0, <4>1, <4>2
    <3>5. CASE IntercomFlushContactBatch \/ IntercomWriteIndividual
      BY <3>0, <3>5 DEF IntercomFlushContactBatch, IntercomWriteIndividual
    <3>6. CASE ZendeskFlushBatch /\ dstPc' # "poll"
      BY <3>0, <3>6 DEF ZendeskFlushBatch
    <3> QED
      BY <1>4, <3>1, <3>2, <3>3, <3>4, <3>5, <3>6
  <2>3. dstCopies' \in [DstRecords -> 0..2]
    <3>1. dstCopies' = dstCopies \/ \E done : dstCopies' = Add(dstCopies, done)
      BY <1>4 DEF HttpGivesUp, SalesforceFlushBatch, HubspotFlushBatch, ZendeskFlushBatch,
                  ZendeskSubmitJob, IntercomFlushContactBatch, IntercomWriteIndividual
    <3> QED
      BY <1>1, <3>1, AddBounded
  <2> QED
    BY <2>1, <2>2, <2>3, AnsweredWithin
<1> QED
  BY <1>2, <1>3, <1>4

(* The types of the destinations; the HTTP client makes no more attempts    *)
(* than its configuration allows, and errors and acknowledgements are about *)
(* records that were received.                                              *)
LEMMA DestinationsTypes == DestinationsSpec => []DestinationsTypeOK
<1> USE DestinationsAssumption
<1>1. DestinationsInit => DstBounded
  <2> SUFFICES ASSUME DestinationsInit PROVE DstBounded
    OBVIOUS
  <2>1. dstBuf = <<>> /\ dstPc = "idle" /\ dstCalls = 0 /\ dstTry = 0 /\ dstKind \in DstKinds
        /\ dstResult = NoResult /\ dstCopies = [r \in DstRecords |-> 0]
    BY DEF DestinationsInit
  <2>2. WithinSeen(dstResult) /\ ToSet(dstBuf) = {}
    BY <2>1, EmptyBuffer DEF WithinSeen, NoResult
  <2>3. dstCopies \in [DstRecords -> 0..2] /\ dstCalls \in 0..DstMaxCalls
        /\ dstTry \in 0..DstMaxRetries
    BY <2>1
  <2> QED
    BY <2>1, <2>2, <2>3 DEF DstBounded
<1>2. DestinationsIInv /\ DstBounded /\ [DestinationsNext]_dstVars => DstBounded'
  <2> SUFFICES ASSUME DestinationsIInv, DstBounded, [DestinationsNext]_dstVars
               PROVE  DstBounded'
    OBVIOUS
  <2>1. ASSUME NEW input \in DstInputs, DstCall(input)
        PROVE  DstBounded'
    <3>1. /\ dstCalls < DstMaxCalls /\ dstCalls' = dstCalls + 1 /\ dstBuf' = <<>>
          /\ dstPc' = "receive" /\ dstResult' = NoResult
          /\ UNCHANGED <<dstKind, dstTry, dstCopies>>
      BY <2>1 DEF DstCall
    <3>2. WithinSeen(dstResult') /\ ToSet(dstBuf') = {}
      BY <3>1, EmptyBuffer DEF WithinSeen, NoResult
    <3>3. dstCalls' \in 0..DstMaxCalls
      BY <3>1 DEF DstBounded
    <3> QED
      BY <3>1, <3>2, <3>3 DEF DstBounded
  <2>2. CASE DstTick \/ DstCancel \/ UNCHANGED dstVars
    <3>1. UNCHANGED <<dstKind, dstCalls, dstBuf, dstReq, dstTry, dstPc, dstResult, dstCopies>>
      BY <2>2 DEF DstTick, DstCancel, dstVars
    <3> QED
      BY <3>1 DEF DstBounded
  <2>3. CASE SalesforceWrite \/ HubspotWrite \/ ZendeskWrite \/ IntercomWrite
    <3>1. dstPc = "receive" /\ BufferedWrite
      BY <2>3 DEF SalesforceWrite, HubspotWrite, ZendeskWrite, IntercomWrite, Receives
    <3> QED
      BY <3>1, BufferedWithin
  <2>4. CASE SnowflakeWrite \/ BigQueryWrite \/ S3Write
    <3>1. dstPc = "receive" /\ FlushingWrite
      BY <2>4 DEF SnowflakeWrite, BigQueryWrite, S3Write, Receives
    <3> QED
      BY <3>1, FlushingWithin
  <2>5. CASE \/ HttpRetry \/ HttpGivesUp \/ SalesforceFlushBatch \/ HubspotFlushBatch
             \/ ZendeskFlushBatch \/ ZendeskSubmitJob \/ IntercomFlushContactBatch
             \/ IntercomWriteIndividual
    BY <2>5, RequestWithin
  <2> QED
    BY <2>1, <2>2, <2>3, <2>4, <2>5 DEF DestinationsNext
<1>3. DestinationsIInv /\ DstBounded => DestinationsTypeOK
  <2> SUFFICES ASSUME DestinationsIInv, DstBounded PROVE DestinationsTypeOK
    OBVIOUS
  <2>1. dstBuf \in Seq(DstRecords) /\ dstReq \in Seq(SUBSET DstRecords)
        /\ dstPc \in {"idle", "receive", "request", "poll", "done"}
        /\ dstResult.errors \in {0, 1}
    BY DEF DestinationsIInv, DstShape, ResultOK
  <2>2. ToSet(dstBuf) \subseteq DstRecords
    BY <2>1, MembersOf
  <2>3. \A n \in 1..Len(dstReq) : dstReq[n] \subseteq DstRecords
    BY <2>1
  <2>4. dstResult.written \in Nat /\ dstResult.errors \in 0..1
        /\ dstResult.failed \union dstResult.acked \subseteq dstResult.seen
    BY <2>1 DEF DstBounded, WithinSeen
  <2>5. dstTaken \in Nat
    BY DEF DestinationsIInv, DstCounted
  <2> QED
    BY <2>1, <2>2, <2>3, <2>4, <2>5 DEF DstBounded, DestinationsTypeOK
<1> QED
  BY <1>1, <1>2, <1>3, DestinationsInductive, PTL DEF DestinationsSpec

(* Places are rows or nothing, and what is listed or delivered is a row     *)
(* with a time of its own.                                                  *)
SrcPlaces == SrcRows \union {0}

SrcBounded ==
    /\ srcNow <= SrcMaxTick /\ srcReads \in 0..SrcMaxReads
    /\ srcState[2] \in SrcPlaces /\ srcRead.at[2] \in SrcPlaces
    /\ srcTicks \subseteq 0..SrcMaxTick
    /\ \A v \in srcRead.rest : v[1] > 0 /\ srcTime[v[2]] > 0
    /\ srcDelivered \subseteq (1..SrcMaxTick) \X SrcRows

SrcReal(S) ==
    \A v \in S : v \in Moments /\ v[1] > 0 /\ v[1] <= srcNow /\ v[2] \in SrcRows
                 /\ srcTime[v[2]] > 0

(* The versions there are, and what a read has kept, are such rows.         *)
LEMMA RealAre ==
  ASSUME SourcesIInv, SrcBounded
  PROVE  SrcReal(Versions) /\ SrcReal(srcRead.rest)
<1>1. SrcShape
  BY DEF SourcesIInv
<1>2. ASSUME NEW v \in Versions
      PROVE  v \in Moments /\ v[1] > 0 /\ v[1] <= srcNow /\ v[2] \in SrcRows
             /\ srcTime[v[2]] > 0
  <2>1. PICK r \in SrcRows : srcTime[r] > 0 /\ v = <<srcTime[r], r>>
    BY DEF Versions
  <2>2. v \in Moments /\ v[1] <= srcNow
    BY <1>1, VersionsAre
  <2> QED
    BY <2>1, <2>2
<1>3. ASSUME NEW v \in srcRead.rest
      PROVE  v \in Moments /\ v[1] > 0 /\ v[1] <= srcNow /\ v[2] \in SrcRows
             /\ srcTime[v[2]] > 0
  BY <1>1 DEF SrcShape, SrcReadings, SrcBounded
<1> QED
  BY <1>2, <1>3 DEF SrcReal

(* What is left to show of a step of a read.                                *)
LEMMA BoundedBy ==
  ASSUME SourcesIInv, SrcBounded, NEW page, SrcReal(page), Delivered(page),
         UNCHANGED <<srcTime, srcNow>>, srcReads' = srcReads,
         srcState'[2] \in SrcPlaces, srcRead'.at[2] \in SrcPlaces,
         SrcReal(srcRead'.rest), NEW T, srcTicks' = srcTicks \union T, T \subseteq 0..srcNow
  PROVE  SrcBounded'
<1>1. srcNow \in Nat /\ srcNow <= SrcMaxTick /\ SrcMaxTick \in Nat
  BY SourcesAssumption DEF SourcesIInv, SrcShape, SrcBounded
<1>2. srcTicks' \subseteq 0..SrcMaxTick
  <2>1. 0..srcNow \subseteq 0..SrcMaxTick
    BY <1>1
  <2> QED
    BY <2>1 DEF SrcBounded
<1>3. page \subseteq (1..SrcMaxTick) \X SrcRows
  <2> SUFFICES ASSUME NEW v \in page PROVE v \in (1..SrcMaxTick) \X SrcRows
    OBVIOUS
  <2>1. v \in Nat \X Nat /\ v[1] > 0 /\ v[1] <= srcNow /\ v[2] \in SrcRows
    BY DEF SrcReal, Moments
  <2>2. v[1] \in 1..SrcMaxTick /\ v = <<v[1], v[2]>>
    BY <1>1, <2>1
  <2> QED
    BY <2>1, <2>2
<1>4. srcDelivered' \subseteq (1..SrcMaxTick) \X SrcRows
  <2>1. srcDelivered' = {} \/ srcDelivered' = srcDelivered \union page
    BY DEF Delivered
  <2> QED
    BY <1>3, <2>1 DEF SrcBounded
<1>5. \A v \in srcRead'.rest : v[1] > 0 /\ srcTime'[v[2]] > 0
  BY DEF SrcReal
<1> QED
  BY <1>1, <1>2, <1>4, <1>5 DEF SrcBounded

(* A page that is not the last.                                             *)
LEMMA EmitBounded ==
  ASSUME SourcesIInv, SrcBounded, NEW page, SrcReal(page), NEW n, DOMAIN n = DOMAIN srcRead,
         n.at[2] \in SrcPlaces, SrcReal(n.rest), Emit(page, n)
  PROVE  SrcBounded'
<1>1. PICK first, got, max : srcRead' = [n EXCEPT !.first = first, !.got = got, !.max = max]
  BY DEF Emit
<1>2. {"at", "rest"} \subseteq DOMAIN n
  BY DEF SourcesIInv, SrcShape, SrcReadings
<1>3. srcRead'.at = n.at /\ srcRead'.rest = n.rest
  BY <1>1, <1>2
<1>4. PICK T : T = {n.at[1]} \intersect {srcNow}
  OBVIOUS
<1>5. srcTicks' = srcTicks \union T /\ UNCHANGED <<srcTime, srcNow>> /\ srcReads' = srcReads
      /\ srcState' = srcState /\ Delivered(page)
  BY <1>4 DEF Emit
<1>6. T \subseteq 0..srcNow
  BY <1>4 DEF SourcesIInv, SrcShape
<1>7. srcState'[2] \in SrcPlaces /\ srcRead'.at[2] \in SrcPlaces /\ SrcReal(srcRead'.rest)
  BY <1>3, <1>5 DEF SrcBounded
<1> QED
  BY <1>5, <1>6, <1>7, BoundedBy

(* The last page, and its state.                                            *)
LEMMA EmitLastBounded ==
  ASSUME SourcesIInv, SourcesIInv', SrcBounded, NEW page, SrcReal(page),
         NEW state, state[2] \in SrcPlaces, EmitLast(page, state)
  PROVE  SrcBounded'
<1>1. PICK n : n = [srcRead EXCEPT !.got = @ \union page]
  OBVIOUS
<1>2. n \in SrcReadings
  BY <1>1 DEF SourcesIInv, SrcShape, SrcReadings, SrcReal
<1>3. srcRead' = Ended(n)
  BY <1>1 DEF EmitLast
<1>4. srcRead'.at = NoState /\ srcRead'.rest = {}
  BY <1>2, <1>3, EndedIs
<1>5. PICK T : T = IF srcKind \in StrictKinds THEN {state[1]} ELSE {}
  OBVIOUS
<1>6. srcTicks' = srcTicks \union T /\ UNCHANGED <<srcTime, srcNow>> /\ srcReads' = srcReads
      /\ srcState' = state /\ Delivered(page)
  BY <1>5 DEF EmitLast
<1>7. state[1] \in 0..srcNow
  <2>1. srcState' \in Moments /\ srcState'[1] <= srcNow' /\ srcNow \in Nat
    BY DEF SourcesIInv, SrcShape
  <2> QED
    BY <1>6, <2>1 DEF Moments
<1>8. T \subseteq 0..srcNow
  BY <1>5, <1>7
<1>9. srcState'[2] \in SrcPlaces /\ srcRead'.at[2] \in SrcPlaces /\ SrcReal(srcRead'.rest)
  BY <1>4, <1>6 DEF NoState, SrcPlaces, SrcReal
<1> QED
  BY <1>6, <1>8, <1>9, BoundedBy

(* A part of a listing, and the place a page ends at.                       *)
LEMMA PagesAre ==
  ASSUME NEW S, NEW offset
  PROVE  PageAt(S, offset) \subseteq S /\ Page(S) \subseteq S
  BY DEF PageAt, Page

(* The state made of the greatest time, or the one there was.               *)
LEMMA MaxStatePlace ==
  ASSUME SrcBounded, NEW page
  PROVE  MaxState(page)[2] \in SrcPlaces
<1>1. PICK m : m = SrcMax(srcRead.max, page)
  OBVIOUS
<1>2. MaxState(page) = <<m, 0>> \/ MaxState(page) = srcState
  BY <1>1 DEF MaxState
<1> QED
  BY <1>2 DEF SrcBounded, SrcPlaces

(* Some rows of a listing are rows too.                                     *)
LEMMA RealPart ==
  ASSUME NEW S, SrcReal(S), NEW page, page \subseteq S
  PROVE  SrcReal(page)
  BY DEF SrcReal

(* A page after which the read goes on from its last row.                   *)
LEMMA PlaceBounded ==
  ASSUME SourcesIInv, SrcBounded, NEW sent, SrcReal(sent), NEW todo, IsFiniteSet(todo),
         todo \subseteq Moments, \A k \in todo : k[2] \in SrcRows, Page(todo) # todo,
         Emit(sent, [srcRead EXCEPT !.at = LastOf(Page(todo))])
  PROVE  SrcBounded'
<1>1. Page(todo) \subseteq todo /\ IsFiniteSet(Page(todo)) /\ (todo # {} => Page(todo) # {})
  BY PageIs
<1>2. PICK at : at = LastOf(Page(todo))
  OBVIOUS
<1>3. at \in Page(todo)
  <2>1. Page(todo) # {}
    BY <1>1
  <2> QED
    BY <1>1, <1>2, <2>1, LastIs
<1>4. at[2] \in SrcPlaces
  BY <1>1, <1>3 DEF SrcPlaces
<1>5. PICK n : n = [srcRead EXCEPT !.at = at]
  OBVIOUS
<1>6. DOMAIN n = DOMAIN srcRead /\ n.at = at /\ n.rest = srcRead.rest
  BY <1>5 DEF SourcesIInv, SrcShape, SrcReadings
<1>7. SrcReal(n.rest) /\ Emit(sent, n)
  BY <1>2, <1>5, <1>6, RealAre
<1> QED
  BY <1>4, <1>6, <1>7, EmitBounded

(* The searches and the incremental export.                                 *)
LEMMA SearchBounded ==
  ASSUME SourcesIInv, SourcesIInv', SrcBounded,
         \/ HubspotReadViaSearch \/ IntercomReadViaSearch \/ GongReadViaPOST
         \/ ZendeskReadIncremental
  PROVE  SrcBounded'
<1>1. PICK todo \in SUBSET Versions :
        IF Page(todo) # todo
          THEN Emit(Page(todo), [srcRead EXCEPT !.at = LastOf(Page(todo))])
          ELSE \/ EmitLast(Page(todo), MaxState(Page(todo)))
               \/ EmitLast(Page(todo), IF Page(todo) = {} THEN srcRead.at ELSE LastOf(Page(todo)))
  <2>1. ASSUME NEW selected \in SUBSET Versions, Keyset(selected)
        PROVE  \E todo \in SUBSET Versions :
                  IF Page(todo) # todo
                    THEN Emit(Page(todo), [srcRead EXCEPT !.at = LastOf(Page(todo))])
                    ELSE EmitLast(Page(todo), MaxState(Page(todo)))
    <3>1. PICK todo : todo = {v \in selected : Before(srcRead.at, v)}
      OBVIOUS
    <3>2. IF Page(todo) # todo
            THEN Emit(Page(todo), [srcRead EXCEPT !.at = LastOf(Page(todo))])
            ELSE EmitLast(Page(todo), MaxState(Page(todo)))
      BY <2>1, <3>1 DEF Keyset
    <3>3. todo \in SUBSET Versions
      BY <3>1
    <3> QED
      BY <3>2, <3>3
  <2>2. CASE HubspotReadViaSearch
    <3>1. PICK S : S = {v \in Versions : v[1] >= srcRead.from[1]}
      OBVIOUS
    <3>2. Keyset(S) /\ S \in SUBSET Versions
      BY <2>2, <3>1 DEF HubspotReadViaSearch
    <3> QED
      BY <2>1, <3>2
  <2>3. CASE IntercomReadViaSearch
    <3>1. PICK S : S = {v \in Versions : v[1] > srcRead.from[1]}
      OBVIOUS
    <3>2. Keyset(S) /\ S \in SUBSET Versions
      BY <2>3, <3>1 DEF IntercomReadViaSearch
    <3> QED
      BY <2>1, <3>2
  <2>4. CASE GongReadViaPOST
    <3>1. PICK S : S = {v \in Versions : v[1] >= srcRead.from[1] /\ v[1] <= srcNow}
      OBVIOUS
    <3>2. Keyset(S) /\ S \in SUBSET Versions
      BY <2>4, <3>1 DEF GongReadViaPOST
    <3> QED
      BY <2>1, <3>2
  <2>5. CASE ZendeskReadIncremental
    <3>1. PICK todo : todo = {v \in Versions : Before(srcRead.at, v)}
      OBVIOUS
    <3>2. PICK after : after = IF Page(todo) = {} THEN srcRead.at ELSE LastOf(Page(todo))
      OBVIOUS
    <3>3. IF Page(todo) # todo THEN Emit(Page(todo), [srcRead EXCEPT !.at = after])
                               ELSE EmitLast(Page(todo), after)
      BY <2>5, <3>1, <3>2 DEF ZendeskReadIncremental
    <3>4. todo \in SUBSET Versions
      BY <3>1
    <3>5. todo \subseteq Moments /\ IsFiniteSet(todo)
      BY <3>4, PartIs DEF SourcesIInv
    <3>6. Page(todo) # todo => after = LastOf(Page(todo))
      <4>1. todo # {} => Page(todo) # {}
        BY <3>5, PageIs
      <4>2. Page(todo) \subseteq todo
        BY <3>5, PageIs
      <4> QED
        BY <3>2, <4>1, <4>2
    <3> QED
      BY <3>2, <3>3, <3>4, <3>6
  <2> QED
    BY <2>2, <2>3, <2>4, <2>5
<1>2. todo \subseteq Moments /\ IsFiniteSet(todo) /\ \A k \in todo : k[2] \in SrcRows
  BY PartIs, VersionsAre DEF SourcesIInv
<1>3. SrcReal(todo)
  BY RealAre, RealPart
<1>4. Page(todo) \subseteq todo /\ IsFiniteSet(Page(todo))
  BY <1>2, PageIs
<1>5. PICK page : page = Page(todo)
  OBVIOUS
<1>6. SrcReal(page)
  BY <1>3, <1>4, <1>5, RealPart
<1>7. CASE Page(todo) # todo
  BY <1>1, <1>2, <1>5, <1>6, <1>7, PlaceBounded
<1>8. CASE EmitLast(page, MaxState(page))
  <2>1. PICK state : state = MaxState(page)
    OBVIOUS
  <2>2. state[2] \in SrcPlaces
    BY <2>1, MaxStatePlace
  <2> QED
    BY <1>6, <1>8, <2>1, <2>2, EmitLastBounded
<1>9. CASE EmitLast(page, IF page = {} THEN srcRead.at ELSE LastOf(page))
  <2>1. PICK state : state = IF page = {} THEN srcRead.at ELSE LastOf(page)
    OBVIOUS
  <2>2. page # {} => state \in page
    BY <1>2, <1>4, <1>5, <2>1, LastIs
  <2>3. state[2] \in SrcPlaces
    BY <1>2, <1>4, <1>5, <2>1, <2>2 DEF SrcBounded, SrcPlaces
  <2> QED
    BY <1>6, <1>9, <2>1, <2>3, EmitLastBounded
<1> QED
  BY <1>1, <1>5, <1>7, <1>8, <1>9

(* The keys of a listing name rows, and the rows of keys are versions.      *)
LEMMA KeysBounded ==
  ASSUME SourcesIInv, SrcBounded, NEW todo, todo \subseteq RowKeys
  PROVE  /\ IsFiniteSet(todo) /\ todo \subseteq Moments /\ \A k \in todo : k[2] \in SrcRows
         /\ \A keys : SrcReal(OfKeys(keys))
<1>1. RowKeys \subseteq Moments /\ IsFiniteSet(RowKeys)
  BY KeysAre DEF SourcesIInv
<1>2. IsFiniteSet(todo) /\ todo \subseteq Moments
  BY <1>1, FS_Subset
<1>3. \A k \in RowKeys : \E v \in Versions : k = <<0, v[2]>>
  BY DEF RowKeys
<1>4. \A v \in Versions : v[2] \in SrcRows
  BY VersionsAre DEF SourcesIInv
<1>5. \A k \in todo : k[2] \in SrcRows
  <2> TAKE k \in todo
  <2>1. PICK v \in Versions : k = <<0, v[2]>>
    BY <1>3
  <2> QED
    BY <1>4, <2>1
<1>6. ASSUME NEW keys
      PROVE  SrcReal(OfKeys(keys))
  <2>1. OfKeys(keys) \subseteq Versions
    BY DEF OfKeys
  <2> QED
    BY <2>1, RealAre, RealPart
<1> QED
  BY <1>2, <1>5, <1>6

(* A read that ends keeps no place and no list.                             *)
LEMMA EndedPlace ==
  ASSUME NEW n
  PROVE  Ended(n).at = NoState /\ Ended(n).rest = {}
<1>1. PICK d : d = NotReading("done")
  OBVIOUS
<1>2. d \in SrcReadings /\ d.at = NoState /\ d.rest = {}
  BY <1>1, NotReadingIs
<1>3. PICK from, there, got, touched :
         \/ Ended(n) = [d EXCEPT !.missed = TRUE]
         \/ Ended(n) = [d EXCEPT !.from = from, !.there = there, !.got = got,
                                 !.touched = touched]
  BY <1>1 DEF Ended
<1> QED
  BY <1>2, <1>3 DEF SrcReadings

(* The listings by row, and the loops of the paginators.                    *)
LEMMA ListingBounded ==
  ASSUME SourcesIInv, SourcesIInv', SrcBounded,
         \/ ListPage \/ IntercomReadViaScroll \/ OffsetPages
         \/ \E end \in {"absent", "null"} : CursorPages(end) \/ FetchAllPagesPost(end)
  PROVE  SrcBounded'
<1>1. PICK todo : todo = {k \in RowKeys : Before(srcRead.at, k)}
  OBVIOUS
<1>2. /\ IsFiniteSet(todo) /\ todo \subseteq Moments /\ \A k \in todo : k[2] \in SrcRows
      /\ \A keys : SrcReal(OfKeys(keys))
  BY <1>1, KeysBounded
<1>3. srcState[2] \in SrcPlaces /\ SrcReal(srcRead.rest)
  BY RealAre DEF SrcBounded
<1>4. ASSUME NEW sent, SrcReal(sent), EmitLast(sent, srcState)
      PROVE  SrcBounded'
  <2>1. PICK state : state = srcState
    OBVIOUS
  <2> QED
    BY <1>3, <1>4, <2>1, EmitLastBounded
<1>5. PICK page, sent : page = Page(todo) /\ sent = OfKeys(Page(todo))
  OBVIOUS
<1>6. SrcReal(sent)
  BY <1>2, <1>5
<1>7. CASE ListPage
  <2>1. IF page # todo THEN Emit(sent, [srcRead EXCEPT !.at = LastOf(page)])
                       ELSE EmitLast(sent, srcState)
    BY <1>1, <1>5, <1>7 DEF ListPage
  <2> QED
    BY <1>2, <1>4, <1>5, <1>6, <2>1, PlaceBounded
<1>8. ASSUME NEW sent1, SrcReal(sent1), NEW o, NEW at, at[2] \in SrcPlaces,
             Emit(sent1, [srcRead EXCEPT !.offset = o, !.at = at])
      PROVE  SrcBounded'
  <2>1. PICK n : n = [srcRead EXCEPT !.offset = o, !.at = at]
    OBVIOUS
  <2>2. DOMAIN n = DOMAIN srcRead /\ n.at = at /\ n.rest = srcRead.rest
    BY <2>1 DEF SourcesIInv, SrcShape, SrcReadings
  <2>3. SrcReal(n.rest) /\ Emit(sent1, n)
    BY <1>3, <1>8, <2>1, <2>2
  <2> QED
    BY <1>8, <2>2, <2>3, EmitBounded
<1>9. PICK at : at = IF page # todo THEN LastOf(page) ELSE NoState
  OBVIOUS
<1>10. at[2] \in SrcPlaces
  <2>1. page \subseteq todo /\ IsFiniteSet(page) /\ (todo # {} => page # {})
    BY <1>2, <1>5, PageIs
  <2>2. CASE page # todo
    <3>1. page # {} /\ page \subseteq Moments
      BY <1>2, <2>1, <2>2
    <3>2. at \in page
      BY <1>9, <2>1, <2>2, <3>1, LastIs
    <3> QED
      BY <1>2, <2>1, <3>2 DEF SrcPlaces
  <2>3. CASE page = todo
    BY <1>9, <2>3 DEF NoState, SrcPlaces
  <2> QED
    BY <2>2, <2>3
<1>11. srcRead.at[2] \in SrcPlaces /\ srcRead \in SrcReadings
  BY DEF SrcBounded, SourcesIInv, SrcShape
<1>a. CASE IntercomReadViaScroll /\ ~ListPage
  <2>1. PICK n : srcRead' = Ended(n)
    BY <1>a DEF IntercomReadViaScroll
  <2>2. UNCHANGED <<srcTime, srcNow, srcState, srcTicks, srcReads, srcDelivered>>
    BY <1>a DEF IntercomReadViaScroll
  <2>3. srcRead'.at = NoState /\ srcRead'.rest = {} /\ NoState[2] \in SrcPlaces
    BY <2>1, EndedPlace DEF NoState, SrcPlaces
  <2> QED
    BY <2>2, <2>3 DEF SrcBounded
<1>b. CASE OffsetPages /\ srcKind = "pagesRoot"
  <2>1. ~OffsetNextPage({})
    <3>1. Cardinality({}) = 0
      BY FS_EmptySet
    <3> QED
      BY <3>1, SourcesAssumption DEF OffsetNextPage
  <2>2. PICK none : none = {}
    OBVIOUS
  <2>3. EmitLast(none, srcState)
    BY <1>b, <2>1, <2>2 DEF OffsetPages, StreamPages, Reading
  <2> QED
    BY <1>4, <2>2, <2>3 DEF SrcReal
<1>12. CASE OffsetPages /\ srcKind # "pagesRoot"
  <2>1. PICK keys : keys = PageAt(RowKeys, srcRead.offset)
    OBVIOUS
  <2>2. PICK mine, o : mine = OfKeys(keys) /\ o = srcRead.offset + SrcPageSize
    OBVIOUS
  <2>3. Emit(mine, [srcRead EXCEPT !.offset = o]) \/ EmitLast(mine, srcState)
    BY <1>12, <2>1, <2>2 DEF OffsetPages, StreamPages, Reading
  <2>4. SrcReal(mine)
    BY <1>2, <2>2
  <2>5. [srcRead EXCEPT !.offset = o] = [srcRead EXCEPT !.offset = o, !.at = srcRead.at]
    BY <1>11 DEF SrcReadings
  <2>6. PICK a : a = srcRead.at
    OBVIOUS
  <2>7. Emit(mine, [srcRead EXCEPT !.offset = o, !.at = a]) \/ EmitLast(mine, srcState)
    BY <2>3, <2>5, <2>6
  <2> QED
    BY <1>4, <1>8, <1>11, <2>4, <2>6, <2>7
<1>13. ASSUME NEW end \in {"absent", "null"}, CursorPages(end)
       PROVE  SrcBounded'
  <2>1. Emit(sent, [srcRead EXCEPT !.at = at]) \/ EmitLast(sent, srcState)
    BY <1>1, <1>5, <1>9, <1>13 DEF CursorPages, StreamPages
  <2>2. PICK o : o = srcRead.offset
    OBVIOUS
  <2>3. [srcRead EXCEPT !.at = at] = [srcRead EXCEPT !.offset = o, !.at = at]
    BY <1>11, <2>2 DEF SrcReadings
  <2>4. Emit(sent, [srcRead EXCEPT !.offset = o, !.at = at]) \/ EmitLast(sent, srcState)
    BY <2>1, <2>3
  <2> QED
    BY <1>4, <1>6, <1>8, <1>10, <2>4
<1>14. ASSUME NEW end \in {"absent", "null"}, FetchAllPagesPost(end)
       PROVE  SrcBounded'
  <2>1. PICK o : o = IF page # todo THEN 0 ELSE 1
    OBVIOUS
  <2>2. Emit(sent, [srcRead EXCEPT !.offset = o, !.at = at]) \/ EmitLast(sent, srcState)
    BY <1>1, <1>5, <1>9, <1>14, <2>1 DEF FetchAllPagesPost
  <2> QED
    BY <1>4, <1>6, <1>8, <1>10, <2>2
<1> QED
  BY <1>7, <1>a, <1>b, <1>12, <1>13, <1>14

(* A listing that is fixed with the first request of a read.                *)
LEMMA ResultBounded ==
  ASSUME SourcesIInv, SrcBounded, NEW result, result \subseteq Versions \/ result = srcRead.rest
  PROVE  SrcReal(result)
<1>1. SrcReal(Versions) /\ SrcReal(srcRead.rest)
  BY RealAre
<1> QED
  BY <1>1, RealPart

(* A page of such a listing, and what is left of it.                        *)
LEMMA RestBounded ==
  ASSUME SourcesIInv, SrcBounded, NEW result, SrcReal(result), NEW page, page \subseteq result,
         Emit(page, [srcRead EXCEPT !.rest = result \ page])
  PROVE  SrcBounded'
<1>1. PICK rest : rest = result \ page
  OBVIOUS
<1>2. PICK n : n = [srcRead EXCEPT !.rest = rest]
  OBVIOUS
<1>3. DOMAIN n = DOMAIN srcRead /\ n.at = srcRead.at /\ n.rest = rest
  BY <1>2 DEF SourcesIInv, SrcShape, SrcReadings
<1>4. SrcReal(rest) /\ SrcReal(page)
  BY <1>1, RealPart
<1>5. n.at[2] \in SrcPlaces
  BY <1>3 DEF SrcBounded
<1>6. SrcReal(n.rest) /\ Emit(page, n)
  BY <1>1, <1>2, <1>3, <1>4
<1> QED
  BY <1>3, <1>4, <1>5, <1>6, EmitBounded

(* A page after which only the offset is another.                           *)
LEMMA OffsetBounded ==
  ASSUME SourcesIInv, SrcBounded, NEW page, SrcReal(page), NEW o,
         Emit(page, [srcRead EXCEPT !.offset = o])
  PROVE  SrcBounded'
<1>1. PICK n : n = [srcRead EXCEPT !.offset = o] /\ Emit(page, n)
  OBVIOUS
<1>2. DOMAIN n = DOMAIN srcRead /\ n.at = srcRead.at /\ n.rest = srcRead.rest
  BY <1>1 DEF SourcesIInv, SrcShape, SrcReadings
<1>3. n.at[2] \in SrcPlaces
  BY <1>2 DEF SrcBounded
<1>4. SrcReal(n.rest)
  BY <1>2, RealAre
<1> QED
  BY <1>1, <1>2, <1>3, <1>4, EmitBounded

(* The read ends, or goes on with what is left of its listing, and neither  *)
(* the clock nor the ticks move.                                            *)
LEMMA StepBounded ==
  ASSUME SourcesIInv, SrcBounded, NEW page, SrcReal(page), Delivered(page),
         UNCHANGED <<srcTime, srcNow>>, srcReads' = srcReads, srcTicks' = srcTicks,
         srcState'[2] \in SrcPlaces, srcRead'.at \in {srcRead.at, NoState},
         NEW rest, SrcReal(rest), srcRead'.rest \in {rest, {}}
  PROVE  SrcBounded'
<1>1. srcRead'.at[2] \in SrcPlaces
  BY DEF SrcBounded, NoState, SrcPlaces
<1>2. SrcReal(srcRead'.rest)
  BY DEF SrcReal
<1>3. PICK T : T = {}
  OBVIOUS
<1>4. srcTicks' = srcTicks \union T /\ T \subseteq 0..srcNow
  BY <1>3
<1> QED
  BY <1>1, <1>2, <1>4, BoundedBy

(* The connectors that page through the result of one query.                *)
LEMMA QueryBounded ==
  ASSUME SourcesIInv, SourcesIInv', SrcBounded, SalesforceReadStream \/ BigQueryReadStream
  PROVE  SrcBounded'
<1>1. PICK result : result = IF srcRead.first
                               THEN {v \in Versions : v[1] > srcRead.from[1]} ELSE srcRead.rest
  OBVIOUS
<1>2. result \subseteq Versions \/ result = srcRead.rest
  BY <1>1
<1>3. SrcReal(result)
  BY <1>2, ResultBounded
<1>4. Page(result) \subseteq result
  BY PagesAre
<1>5. CASE SalesforceReadStream
  <2>1. PICK page : page = Page(result)
    OBVIOUS
  <2>2. PICK state : state = MaxState(page)
    OBVIOUS
  <2>3. IF result # page THEN Emit(page, [srcRead EXCEPT !.rest = result \ page])
                         ELSE EmitLast(page, state)
    BY <1>1, <1>5, <2>1, <2>2 DEF SalesforceReadStream
  <2>4. page \subseteq result /\ state[2] \in SrcPlaces
    BY <1>4, <2>1, <2>2, MaxStatePlace
  <2>5. SrcReal(page)
    BY <1>3, <2>4, RealPart
  <2> QED
    BY <1>3, <2>3, <2>4, <2>5, RestBounded, EmitLastBounded
<1>6. CASE BigQueryReadStream
  <2>1. PICK Pages : Pages = IF srcRead.from = NoState
                               THEN {p \in SUBSET result : Cardinality(p) =
                                        IF Cardinality(result) < SrcPageSize
                                          THEN Cardinality(result) ELSE SrcPageSize}
                               ELSE {Page(result)}
    OBVIOUS
  <2>2. \A page \in Pages : page \subseteq result
    BY <1>4, <2>1
  <2>3. \/ \E page \in Pages :
             IF result # page THEN Emit(page, [srcRead EXCEPT !.rest = result \ page])
             ELSE \E last \in IF page = {} THEN {srcState}
                              ELSE IF srcRead.from = NoState THEN page
                              ELSE {LastOf(page)} :
                     EmitLast(page, IF page = {} THEN srcState ELSE <<last[1], 0>>)
        \/ \E job \in WaitForJob :
           /\ srcRead.first
           /\ srcRead' = IF job = "done" THEN Ended([srcRead EXCEPT !.missed = TRUE])
                                         ELSE NotReading("failed")
           /\ UNCHANGED <<srcKind, srcTime, srcNow, srcState, srcTicks, srcReads,
                          srcQuiet, srcDelivered>>
    BY <1>1, <1>6, <2>1 DEF BigQueryReadStream
  <2>4. ASSUME NEW page \in Pages, Emit(page, [srcRead EXCEPT !.rest = result \ page])
        PROVE  SrcBounded'
    BY <1>3, <2>2, <2>4, RestBounded
  <2>5. ASSUME NEW page \in Pages, NEW last,
               EmitLast(page, IF page = {} THEN srcState ELSE <<last[1], 0>>)
        PROVE  SrcBounded'
    <3>1. PICK state : state = IF page = {} THEN srcState ELSE <<last[1], 0>>
      OBVIOUS
    <3>2. state[2] \in SrcPlaces
      BY <3>1 DEF SrcBounded, SrcPlaces
    <3>3. SrcReal(page)
      BY <1>3, <2>2, RealPart
    <3>4. EmitLast(page, state)
      BY <2>5, <3>1
    <3> QED
      BY <3>2, <3>3, <3>4, EmitLastBounded
  <2>6. ASSUME NEW job \in WaitForJob,
               srcRead' = IF job = "done" THEN Ended([srcRead EXCEPT !.missed = TRUE])
                                          ELSE NotReading("failed"),
               UNCHANGED <<srcKind, srcTime, srcNow, srcState, srcTicks, srcReads,
                           srcQuiet, srcDelivered>>
        PROVE  SrcBounded'
    <3>1. PICK n : n = [srcRead EXCEPT !.missed = TRUE]
      OBVIOUS
    <3>2. n \in SrcReadings
      BY <3>1 DEF SourcesIInv, SrcShape, SrcReadings
    <3>3. srcRead' = Ended(n) \/ srcRead' = NotReading("failed")
      BY <2>6, <3>1
    <3>4. srcRead'.at = NoState /\ srcRead'.rest = {}
      BY <3>2, <3>3, EndedIs, NotReadingIs
    <3>5. UNCHANGED <<srcTime, srcNow, srcState, srcTicks, srcReads, srcDelivered>>
      BY <2>6
    <3>6. srcRead'.at[2] \in SrcPlaces
      BY <3>4 DEF NoState, SrcPlaces
    <3> QED
      BY <3>4, <3>5, <3>6 DEF SrcBounded
  <2> QED
    BY <2>3, <2>4, <2>5, <2>6
<1> QED
  BY <1>5, <1>6

(* The connectors that page by offset.                                      *)
LEMMA CountBounded ==
  ASSUME SourcesIInv, SourcesIInv', SrcBounded, ChorusReadStream
  PROVE  SrcBounded'
<1>1. PICK L : L = {v \in Versions : v[1] > srcRead.from[1]}
  OBVIOUS
<1>2. PICK page, o : page = PageAt(L, srcRead.offset) /\ o = srcRead.offset + SrcPageSize
  OBVIOUS
<1>3. SrcReal(page)
  <2>1. L \subseteq Versions /\ page \subseteq L
    BY <1>1, <1>2, PagesAre
  <2>2. page \subseteq Versions
    BY <2>1
  <2> QED
    BY <2>2, ResultBounded
<1>4. PICK state : state = MaxState(page)
  OBVIOUS
<1>5. Emit(page, [srcRead EXCEPT !.offset = o]) \/ EmitLast(page, state)
  BY <1>1, <1>2, <1>4 DEF ChorusReadStream
<1>6. state[2] \in SrcPlaces
  BY <1>4, MaxStatePlace
<1> QED
  BY <1>3, <1>5, <1>6, OffsetBounded, EmitLastBounded

(* A page of Snowflake.                                                     *)
LEMMA SnowflakeBounded ==
  ASSUME SourcesIInv, SourcesIInv', SrcBounded, ReadSnowflakeStream
  PROVE  SrcBounded'
<1>1. PICK L : L = {v \in Versions : v[1] > srcRead.from[1]}
  OBVIOUS
<1>2. PICK rows, rest : rows \subseteq Versions /\ SendRows(rows, rest)
  <2>1. \E ahead \in SUBSET L : \E rows \in SUBSET (L \ ahead) :
           SendRows(rows, (L \ ahead) \ rows)
    BY <1>1, Zenon DEF ReadSnowflakeStream
  <2> QED
    BY <1>1, <2>1
<1>3. SrcReal(rows)
  BY <1>2, ResultBounded
<1>4. PICK n : n = RowsRead(rows, rest)
  OBVIOUS
<1>5. n.at = srcRead.at /\ n.rest = srcRead.rest
  <2>1. PICK got, max, offset, missed :
           n = [srcRead EXCEPT !.first = FALSE, !.got = got, !.max = max, !.offset = offset,
                               !.missed = missed]
    BY <1>4 DEF RowsRead
  <2> QED
    BY <2>1 DEF SourcesIInv, SrcShape, SrcReadings
<1>6. PICK last : last = LastCursor(rows)
  OBVIOUS
<1>7. /\ Delivered(rows) /\ UNCHANGED <<srcTime, srcNow>> /\ srcReads' = srcReads
      /\ \/ srcRead' = n /\ srcState' = srcState /\ srcTicks' = srcTicks
         \/ /\ srcRead' = Ended(n) /\ srcState' \in {<<last, 0>>, srcState}
            /\ srcTicks' = srcTicks \/ srcTicks' = srcTicks \union {srcState'[1]}
  <2>1. srcTicks \union {} = srcTicks
    OBVIOUS
  <2> QED
    BY <1>2, <1>4, <1>6, <2>1, Zenon DEF SendRows
<1>8. srcState'[2] \in SrcPlaces
  BY <1>7 DEF SrcBounded, SrcPlaces
<1>9. srcRead'.at \in {srcRead.at, NoState} /\ srcRead'.rest \in {srcRead.rest, {}}
  BY <1>5, <1>7, EndedPlace
<1>10. srcRead'.at[2] \in SrcPlaces /\ SrcReal(srcRead'.rest)
  <2>1. SrcReal(srcRead.rest) /\ SrcReal({})
    BY RealAre DEF SrcReal
  <2> QED
    BY <1>9, <2>1 DEF SrcBounded, NoState, SrcPlaces
<1>11. srcState'[1] \in 0..srcNow
  <2>1. srcState' \in Moments /\ srcState'[1] <= srcNow' /\ srcNow \in Nat
    BY DEF SourcesIInv, SrcShape
  <2> QED
    BY <1>7, <2>1 DEF Moments
<1>12. PICK T : T = IF srcTicks' = srcTicks THEN {} ELSE {srcState'[1]}
  OBVIOUS
<1>13. T \subseteq 0..srcNow
  BY <1>11, <1>12
<1>14. srcTicks' = srcTicks \union T
  BY <1>7, <1>12
<1> QED
  BY <1>3, <1>7, <1>8, <1>10, <1>13, <1>14, BoundedBy

(* The version a row of a listing has by now.                               *)
LEMMA NowBounded ==
  ASSUME SourcesIInv, NEW S, SrcReal(S), NEW page, page \subseteq S
  PROVE  SrcReal({<<srcTime[v[2]], v[2]>> : v \in page})
<1> SUFFICES ASSUME NEW v \in page
             PROVE  /\ srcTime[v[2]] > 0 /\ srcTime[v[2]] <= srcNow /\ v[2] \in SrcRows
                    /\ <<srcTime[v[2]], v[2]>> \in Moments
  BY DEF SrcReal
<1>1. v[2] \in SrcRows /\ srcTime[v[2]] > 0
  BY DEF SrcReal
<1>2. v[2] \in Nat /\ srcTime[v[2]] \in Nat /\ srcTime[v[2]] <= srcNow
  BY <1>1, SourcesAssumption DEF SourcesIInv, SrcShape
<1> QED
  BY <1>1, <1>2 DEF Moments

(* The objects of a bucket.                                                 *)
LEMMA S3Bounded ==
  ASSUME SourcesIInv, SourcesIInv', SrcBounded, ReadS3Stream
  PROVE  SrcBounded'
<1>1. PICK listed : listed = IF srcRead.first THEN {v \in Versions : v[1] > srcRead.from[1]}
                                              ELSE srcRead.rest
  OBVIOUS
<1>2. listed \subseteq Versions \/ listed = srcRead.rest
  BY <1>1
<1>3. SrcReal(listed)
  BY <1>2, ResultBounded
<1>4. CASE listed = {}
  <2>1. PICK page : page = {}
    OBVIOUS
  <2>2. PICK state : state = MaxState(page)
    OBVIOUS
  <2>3. EmitLast(page, state)
    BY <1>1, <1>4, <2>1, <2>2 DEF ReadS3Stream
  <2>4. SrcReal(page) /\ state[2] \in SrcPlaces
    BY <2>1, <2>2, MaxStatePlace DEF SrcReal
  <2> QED
    BY <2>3, <2>4, EmitLastBounded
<1>5. CASE listed # {}
  <2>1. PICK v \in listed, parsed \in ReadAndParseObject :
          LET sent == IF parsed = "all" THEN {<<srcTime[v[2]], v[2]>>} ELSE {} IN
          /\ srcQuiet' = (srcQuiet /\ parsed = "all") /\ Delivered(sent)
          /\ srcRead' = IF parsed = "stuck" THEN NotReading("stuck")
                        ELSE [srcRead EXCEPT
                           !.first = FALSE, !.rest = listed \ {v}, !.got = @ \union sent,
                           !.max = IF parsed = "none" THEN @ ELSE SrcMax(@, {v}),
                           !.missed = @ \/ parsed # "all"]
          /\ UNCHANGED <<srcKind, srcTime, srcNow, srcState, srcTicks, srcReads>>
    BY <1>1, <1>5 DEF ReadS3Stream
  <2>2. PICK sent : sent = IF parsed = "all" THEN {<<srcTime[v[2]], v[2]>>} ELSE {}
    OBVIOUS
  <2>3. PICK got, m, missed, rest :
           /\ got = srcRead.got \union sent
           /\ m = IF parsed = "none" THEN srcRead.max ELSE SrcMax(srcRead.max, {v})
           /\ missed = (srcRead.missed \/ parsed # "all")
           /\ rest = listed \ {v}
    OBVIOUS
  <2>4. /\ Delivered(sent)
        /\ UNCHANGED <<srcKind, srcTime, srcNow, srcState, srcTicks, srcReads>>
        /\ \/ srcRead' = NotReading("stuck")
           \/ srcRead' = [srcRead EXCEPT !.first = FALSE, !.rest = rest, !.got = got, !.max = m,
                                         !.missed = missed]
    BY <2>1, <2>2, <2>3
  <2>5. srcRead'.at \in {srcRead.at, NoState} /\ srcRead'.rest \in {rest, {}}
    <3>1. CASE srcRead' = NotReading("stuck")
      BY <3>1, NotReadingIs
    <3>2. CASE srcRead' = [srcRead EXCEPT !.first = FALSE, !.rest = rest, !.got = got, !.max = m,
                                          !.missed = missed]
      BY <3>2 DEF SourcesIInv, SrcShape, SrcReadings
    <3> QED
      BY <2>4, <3>1, <3>2
  <2>6. SrcReal(rest)
    BY <1>3, <2>3, RealPart
  <2>7. SrcReal(sent)
    <3>1. SrcReal({<<srcTime[w[2]], w[2]>> : w \in {v}})
      BY <1>3, NowBounded
    <3>2. sent \subseteq {<<srcTime[w[2]], w[2]>> : w \in {v}}
      BY <2>2
    <3> QED
      BY <3>1, <3>2, RealPart
  <2>8. srcState'[2] \in SrcPlaces
    BY <2>4 DEF SrcBounded
  <2> QED
    BY <2>4, <2>5, <2>6, <2>7, <2>8, StepBounded
<1> QED
  BY <1>4, <1>5

(* The pages of Zoom, each with its state.                                  *)
LEMMA ZoomBounded ==
  ASSUME SourcesIInv, SourcesIInv', SrcBounded, ReadZoomStream
  PROVE  SrcBounded'
<1>1. PICK result : result = IF srcRead.first THEN {v \in Versions : v[1] >= srcRead.from[1]}
                                              ELSE srcRead.rest
  OBVIOUS
<1>2. result \subseteq Versions \/ result = srcRead.rest
  BY <1>1
<1>3. SrcReal(result)
  BY <1>2, ResultBounded
<1>4. PICK page \in SUBSET result :
        \E last \in IF page = {} THEN {srcState} ELSE page :
          LET state == IF page = {} THEN srcState ELSE <<last[1], 0>> IN
          IF result # page
            THEN /\ UNCHANGED srcQuiet /\ Delivered(page)
                 /\ srcRead' = [srcRead EXCEPT !.first = FALSE, !.rest = result \ page,
                                               !.got = @ \union page]
                 /\ srcState' = state
                 /\ UNCHANGED <<srcKind, srcTime, srcNow, srcTicks, srcReads>>
            ELSE EmitLast(page, state)
  BY <1>1 DEF ReadZoomStream
<1>5. PICK last \in IF page = {} THEN {srcState} ELSE page :
          LET state == IF page = {} THEN srcState ELSE <<last[1], 0>> IN
          IF result # page
            THEN /\ UNCHANGED srcQuiet /\ Delivered(page)
                 /\ srcRead' = [srcRead EXCEPT !.first = FALSE, !.rest = result \ page,
                                               !.got = @ \union page]
                 /\ srcState' = state
                 /\ UNCHANGED <<srcKind, srcTime, srcNow, srcTicks, srcReads>>
            ELSE EmitLast(page, state)
  BY <1>4
<1>6. PICK state : state = IF page = {} THEN srcState ELSE <<last[1], 0>>
  OBVIOUS
<1>7. PICK rest, got : rest = result \ page /\ got = srcRead.got \union page
  OBVIOUS
<1>8. SrcReal(page) /\ SrcReal(rest) /\ state[2] \in SrcPlaces
  <2>1. page \subseteq result /\ rest \subseteq result
    BY <1>7
  <2>2. state[2] \in SrcPlaces
    BY <1>6 DEF SrcBounded, SrcPlaces
  <2> QED
    BY <1>3, <2>1, <2>2, RealPart
<1>9. \/ /\ Delivered(page) /\ srcState' = state
         /\ srcRead' = [srcRead EXCEPT !.first = FALSE, !.rest = rest, !.got = got]
         /\ UNCHANGED <<srcKind, srcTime, srcNow, srcTicks, srcReads>>
      \/ EmitLast(page, state)
  BY <1>5, <1>6, <1>7
<1>10. CASE /\ Delivered(page) /\ srcState' = state
            /\ srcRead' = [srcRead EXCEPT !.first = FALSE, !.rest = rest, !.got = got]
            /\ UNCHANGED <<srcKind, srcTime, srcNow, srcTicks, srcReads>>
  <2>1. srcRead'.at = srcRead.at /\ srcRead'.rest = rest
    BY <1>10 DEF SourcesIInv, SrcShape, SrcReadings
  <2>2. srcState'[2] \in SrcPlaces /\ srcRead'.at \in {srcRead.at, NoState}
        /\ srcRead'.rest \in {rest, {}}
    BY <1>8, <1>10, <2>1
  <2> QED
    BY <1>8, <1>10, <2>2, StepBounded
<1> QED
  BY <1>8, <1>9, <1>10, EmitLastBounded

(* The children of the parents of a page.                                   *)
LEMMA SubResourceBounded ==
  ASSUME SourcesIInv, SrcBounded, ReadSubResource
  PROVE  SrcBounded'
<1>1. PICK parents : parents = IF srcRead.first THEN Versions ELSE srcRead.rest
  OBVIOUS
<1>2. parents \subseteq Versions \/ parents = srcRead.rest
  BY <1>1
<1>3. SrcReal(parents)
  BY <1>2, ResultBounded
<1>4. PICK page \in SUBSET parents : \E skipped \in SUBSET page :
          LET sent == {<<srcTime[v[2]], v[2]>> : v \in page \ skipped} IN
          LET next == [srcRead EXCEPT !.first = FALSE, !.rest = parents \ page,
                         !.got = @ \union sent, !.missed = @ \/ skipped # {}] IN
          /\ srcRead' = IF parents = page THEN Ended(next) ELSE next
          /\ UNCHANGED srcQuiet /\ Delivered(sent)
          /\ UNCHANGED <<srcKind, srcTime, srcNow, srcState, srcTicks, srcReads>>
  BY <1>1 DEF ReadSubResource
<1>5. PICK skipped \in SUBSET page :
          LET sent == {<<srcTime[v[2]], v[2]>> : v \in page \ skipped} IN
          LET next == [srcRead EXCEPT !.first = FALSE, !.rest = parents \ page,
                         !.got = @ \union sent, !.missed = @ \/ skipped # {}] IN
          /\ srcRead' = IF parents = page THEN Ended(next) ELSE next
          /\ UNCHANGED srcQuiet /\ Delivered(sent)
          /\ UNCHANGED <<srcKind, srcTime, srcNow, srcState, srcTicks, srcReads>>
  BY <1>4
<1>6. PICK sent : sent = {<<srcTime[v[2]], v[2]>> : v \in page \ skipped}
  OBVIOUS
<1>7. PICK rest, got, missed : /\ rest = parents \ page /\ got = srcRead.got \union sent
                               /\ missed = (srcRead.missed \/ skipped # {})
  OBVIOUS
<1>8. PICK n : n = [srcRead EXCEPT !.first = FALSE, !.rest = rest, !.got = got, !.missed = missed]
  OBVIOUS
<1>9. /\ srcRead' = Ended(n) \/ srcRead' = n
      /\ Delivered(sent)
      /\ UNCHANGED <<srcKind, srcTime, srcNow, srcState, srcTicks, srcReads>>
  BY <1>5, <1>6, <1>7, <1>8
<1>10. SrcReal(rest)
  BY <1>3, <1>7, RealPart
<1>11. SrcReal(sent)
  <2>1. page \ skipped \subseteq parents
    OBVIOUS
  <2> QED
    BY <1>3, <1>6, <2>1, NowBounded
<1>12. n \in SrcReadings /\ n.at = srcRead.at /\ n.rest = rest
  <2>1. srcRead \in SrcReadings
    BY DEF SourcesIInv, SrcShape
  <2>2. got \subseteq Moments /\ rest \subseteq Moments
    BY <1>7, <1>10, <1>11, <2>1 DEF SrcReal, SrcReadings
  <2>3. missed \in BOOLEAN
    BY <1>7, <2>1 DEF SrcReadings
  <2>4. PICK n1 : n1 = [srcRead EXCEPT !.first = FALSE, !.rest = rest]
    OBVIOUS
  <2>5. n1 \in SrcReadings /\ n1.at = srcRead.at /\ n1.rest = rest
    BY <2>1, <2>2, <2>4 DEF SrcReadings
  <2>6. n = [n1 EXCEPT !.got = got, !.missed = missed]
    BY <1>8, <2>4
  <2> QED
    BY <2>2, <2>3, <2>5, <2>6 DEF SrcReadings
<1>13. srcRead'.at \in {srcRead.at, NoState} /\ srcRead'.rest \in {rest, {}}
  BY <1>9, <1>12, EndedIs
<1>14. srcState'[2] \in SrcPlaces
  BY <1>9 DEF SrcBounded
<1> QED
  BY <1>9, <1>10, <1>11, <1>13, <1>14, StepBounded

(* What the source, and the loop over its streams, do.                      *)
LEMMA SourceBounded ==
  ASSUME SourcesIInv, SourcesIInv', SrcBounded,
         (\E r \in SrcRows : SrcModify(r)) \/ SrcTick \/ SrcBegin \/ SrcFail
  PROVE  SrcBounded'
<1>1. SrcShape
  BY DEF SourcesIInv
<1>2. NoState[2] \in SrcPlaces
  BY DEF NoState, SrcPlaces
<1>3. ASSUME NEW S, Delivered({}) \/ srcDelivered' = srcDelivered
      PROVE  srcDelivered' \subseteq (1..SrcMaxTick) \X SrcRows
  BY <1>3 DEF Delivered, SrcBounded
<1>4. ASSUME NEW r \in SrcRows, SrcModify(r)
      PROVE  SrcBounded'
  <2>1. /\ srcTime' = [srcTime EXCEPT ![r] = srcNow] /\ Delivered({})
        /\ UNCHANGED <<srcKind, srcNow, srcState, srcTicks, srcReads>>
        /\ \/ srcRead' = [srcRead EXCEPT !.touched = @ \union {r}]
           \/ srcRead' = NotReading("idle")
    BY <1>4 DEF SrcModify
  <2>2. \/ srcRead'.at = srcRead.at /\ srcRead'.rest = srcRead.rest
        \/ srcRead'.at = NoState /\ srcRead'.rest = {}
    <3>1. CASE srcRead' = [srcRead EXCEPT !.touched = @ \union {r}]
      BY <1>1, <3>1 DEF SrcShape, SrcReadings
    <3>2. CASE srcRead' = NotReading("idle")
      BY <3>2, NotReadingIs
    <3> QED
      BY <2>1, <3>1, <3>2
  <2>3. \A q \in SrcRows : srcTime[q] > 0 => srcTime'[q] > 0
    BY <1>1, <2>1 DEF SrcShape
  <2>4. \A v \in srcRead.rest : v[2] \in SrcRows
    BY <1>1 DEF SrcShape
  <2>5. \A v \in srcRead'.rest : v[1] > 0 /\ srcTime'[v[2]] > 0
    BY <2>2, <2>3, <2>4 DEF SrcBounded
  <2>6. srcDelivered' \subseteq (1..SrcMaxTick) \X SrcRows
    BY <1>3, <2>1
  <2>7. srcRead'.at[2] \in SrcPlaces
    BY <1>2, <2>2 DEF SrcBounded
  <2> QED
    BY <2>1, <2>5, <2>6, <2>7 DEF SrcBounded
<1>5. CASE SrcTick
  <2>1. /\ srcNow < SrcMaxTick /\ srcNow' = srcNow + 1
        /\ srcRead' = srcRead \/ srcRead' = NotReading("idle")
        /\ UNCHANGED <<srcKind, srcTime, srcState, srcTicks, srcReads, srcQuiet, srcDelivered>>
    BY <1>5 DEF SrcTick
  <2>2. srcNow' <= SrcMaxTick
    BY <1>1, <2>1, SourcesAssumption DEF SrcShape
  <2>3. srcRead' = srcRead \/ (srcRead'.at = NoState /\ srcRead'.rest = {})
    BY <2>1, NotReadingIs
  <2> QED
    BY <1>2, <2>1, <2>2, <2>3 DEF SrcBounded
<1>6. CASE SrcBegin
  <2>1. /\ srcReads < SrcMaxReads /\ srcReads' = srcReads + 1
        /\ UNCHANGED <<srcKind, srcTime, srcNow, srcState, srcTicks, srcQuiet, srcDelivered>>
    BY <1>6 DEF SrcBegin
  <2>2. srcReads' \in 0..SrcMaxReads
    BY <2>1, SourcesAssumption DEF SrcBounded
  <2>3. PICK from, at : /\ from = IF srcKind \in FullKinds THEN NoState ELSE srcState
                        /\ at = IF srcKind = "zendesk" THEN srcState ELSE NoState
    OBVIOUS
  <2>4. PICK d : d = NotReading("reading")
    OBVIOUS
  <2>5. d \in SrcReadings /\ d.rest = {}
    BY <2>4, NotReadingIs
  <2>6. srcRead' = [d EXCEPT !.from = from, !.at = at, !.there = Versions]
    BY <1>6, <2>3, <2>4 DEF SrcBegin
  <2>7. srcRead'.at = at /\ srcRead'.rest = {}
    BY <2>5, <2>6 DEF SrcReadings
  <2>8. srcRead'.at[2] \in SrcPlaces
    BY <1>2, <2>3, <2>7 DEF SrcBounded
  <2> QED
    BY <2>1, <2>2, <2>7, <2>8 DEF SrcBounded
<1>7. CASE SrcFail
  <2>1. /\ srcRead' = NotReading("failed") /\ Delivered({})
        /\ UNCHANGED <<srcKind, srcTime, srcNow, srcState, srcTicks, srcReads>>
    BY <1>7 DEF SrcFail
  <2>2. srcRead'.at = NoState /\ srcRead'.rest = {}
    BY <2>1, NotReadingIs
  <2>3. srcDelivered' \subseteq (1..SrcMaxTick) \X SrcRows
    BY <1>3, <2>1
  <2> QED
    BY <1>2, <2>1, <2>2, <2>3 DEF SrcBounded
<1> QED
  BY <1>4, <1>5, <1>6, <1>7

(* The sources keep their types.                                            *)
LEMMA SourcesTypes == SourcesSpec => []SourcesTypeOK
<1>1. SourcesInit => SrcBounded
  <2> SUFFICES ASSUME SourcesInit
               PROVE  SrcBounded
    OBVIOUS
  <2>1. srcRead.at = NoState /\ srcRead.rest = {}
    BY NotReadingIs DEF SourcesInit
  <2>2. /\ srcNow = 1 /\ srcReads = 0 /\ srcState = NoState /\ srcTicks = {}
        /\ srcDelivered = {}
    BY DEF SourcesInit
  <2>3. srcNow <= SrcMaxTick /\ srcReads \in 0..SrcMaxReads
    BY <2>2, SourcesAssumption
  <2> QED
    BY <2>1, <2>2, <2>3 DEF SrcBounded, NoState, SrcPlaces
<1>2. SourcesIInv /\ SourcesIInv' /\ SrcBounded /\ [SourcesNext]_srcVars => SrcBounded'
  <2> SUFFICES ASSUME SourcesIInv, SourcesIInv', SrcBounded, [SourcesNext]_srcVars
               PROVE  SrcBounded'
    OBVIOUS
  <2>1. CASE (\E r \in SrcRows : SrcModify(r)) \/ SrcTick \/ SrcBegin \/ SrcFail
    BY <2>1, SourceBounded
  <2>2. CASE SalesforceReadStream \/ BigQueryReadStream
    BY <2>2, QueryBounded
  <2>3. CASE \/ HubspotReadViaSearch \/ IntercomReadViaSearch \/ GongReadViaPOST
             \/ ZendeskReadIncremental
    BY <2>3, SearchBounded
  <2>4. CASE ChorusReadStream \/ ReadSnowflakeStream
    BY <2>4, CountBounded, SnowflakeBounded
  <2>5. CASE ReadS3Stream \/ ReadZoomStream \/ ReadSubResource
    BY <2>5, S3Bounded, ZoomBounded, SubResourceBounded
  <2>6. CASE \/ ZendeskReadFullRefresh \/ IntercomReadViaScroll
             \/ IntercomReadViaCursorPagination \/ GongReadViaGET \/ HubspotReadViaList
             \/ LinkPages
    <3>1. ListPage \/ IntercomReadViaScroll
      BY <2>6
      DEF ZendeskReadFullRefresh, IntercomReadViaCursorPagination, GongReadViaGET,
          HubspotReadViaList, LinkPages
    <3> QED
      BY <3>1, ListingBounded
  <2>7. CASE \/ OffsetPages
             \/ \E end \in {"absent", "null"} : CursorPages(end) \/ FetchAllPagesPost(end)
    BY <2>7, ListingBounded
  <2>8. CASE UNCHANGED srcVars
    BY <2>8 DEF srcVars, SrcBounded
  <2> QED
    BY <2>1, <2>2, <2>3, <2>4, <2>5, <2>6, <2>7, <2>8 DEF SourcesNext
<1>3. SourcesIInv /\ SrcBounded => SourcesTypeOK
  <2> SUFFICES ASSUME SourcesIInv, SrcBounded
               PROVE  SourcesTypeOK
    OBVIOUS
  <2>1. SrcShape
    BY DEF SourcesIInv
  <2>2. SrcMaxTick \in Nat /\ srcNow \in Nat \ {0} /\ srcNow <= SrcMaxTick
    BY <2>1, SourcesAssumption DEF SrcShape, SrcBounded
  <2>3. srcNow \in 1..SrcMaxTick
    BY <2>2
  <2>4. srcTime \in [SrcRows -> 0..SrcMaxTick]
    <3>1. \A r \in SrcRows : srcTime[r] \in 0..SrcMaxTick
      BY <2>1, <2>2 DEF SrcShape
    <3> QED
      BY <2>1, <3>1 DEF SrcShape
  <2>5. srcState \in (0..SrcMaxTick) \X (SrcRows \union {0})
    <3>1. srcState \in Nat \X Nat /\ srcState[1] <= srcNow /\ srcState[2] \in SrcRows \union {0}
      BY <2>1 DEF SrcShape, Moments, SrcBounded, SrcPlaces
    <3>2. srcState[1] \in 0..SrcMaxTick
      BY <2>2, <3>1
    <3> QED
      BY <3>1, <3>2
  <2>6. srcRead.pc \in {"idle", "reading", "done", "failed", "stuck"}
    BY <2>1 DEF SrcShape, SrcReadings
  <2>7. srcKind \in SrcKinds /\ srcQuiet \in BOOLEAN
    BY <2>1 DEF SrcShape
  <2> QED
    BY <2>3, <2>4, <2>5, <2>6, <2>7 DEF SourcesTypeOK, SrcBounded
<1> QED
  BY <1>1, <1>2, <1>3, SourcesInductive, PTL DEF SourcesSpec

-----------------------------------------------------------------------------
(* The four parts side by side.                                             *)

(* A behaviour of the composition is one of each part: what is proved of    *)
(* the parts above holds in it.                                             *)
THEOREM EveryPartRuns ==
  Spec => SourcesSpec /\ DestinationsSpec /\ RuntimeSpec /\ MessageHandlerSpec
<1>1. Init => SourcesInit /\ DestinationsInit /\ RuntimeInit /\ MessageHandlerInit
  BY DEF Init
<1>2. [Next]_vars => /\ [SourcesNext]_srcVars /\ [DestinationsNext]_dstVars
                     /\ [RuntimeNext]_rtVars /\ [MessageHandlerNext]_mhVars
  <2> SUFFICES ASSUME [Next]_vars
               PROVE  /\ [SourcesNext]_srcVars /\ [DestinationsNext]_dstVars
                      /\ [RuntimeNext]_rtVars /\ [MessageHandlerNext]_mhVars
    OBVIOUS
  <2>1. CASE Next
    BY <2>1 DEF Next
  <2>2. CASE UNCHANGED vars
    BY <2>2 DEF vars
  <2> QED
    BY <2>1, <2>2
<1> QED
  BY <1>1, <1>2, PTL DEF Spec, SourcesSpec, DestinationsSpec, RuntimeSpec, MessageHandlerSpec

(* Whatever the values of the constants, the source connectors, the         *)
(* destination connectors, the connector runtime with its HTTP client and   *)
(* the message handler keep the types and the limits of what they hold.     *)
THEOREM ConnectorsKeepTypes == Spec => []TypeOK
  BY EveryPartRuns, SourcesTypes, DestinationsTypes, RuntimeTypes, HandlerTypes, PTL DEF TypeOK
=============================================================================
