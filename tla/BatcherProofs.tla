--------------------------- MODULE BatcherProofs ---------------------------
(***************************************************************************)
(* Proofs of the safety properties of Batcher for any number of records,   *)
(* timer callbacks and Flush callers and any maxSize.                      *)
(***************************************************************************)
EXTENDS Batcher, SequenceTheorems, FiniteSetTheorems, TLAPS

(* A goroutine that is about to drain the buffer has no batch in the flush  *)
(* function already, so drainLocked never overwrites one.                   *)
CallersFree ==
    /\ \A r \in Records : add[r] = "todo" => flight[r] = <<>>
    /\ \A f \in Flushers : f \notin flushed => flight[f] = <<>>
    /\ \A t \in fired : flight[t] = <<>>
    /\ ~closed => flight[Closer] = <<>>

IInv == TypeOK /\ BatchesBounded /\ OnePlace /\ TimerKeepsGoing /\ CallersFree

-----------------------------------------------------------------------------
(* The empty sequence has no elements and is without repetition.            *)
LEMMA EmptyBatch == Elements(<<>>) = {} /\ Distinct(<<>>) /\ Len(<<>>) = 0
  BY DEF Elements, Distinct

(* Appending a new record adds just that record and keeps Distinct.         *)
LEMMA AppendRecord ==
  ASSUME NEW s \in Seq(Records), NEW r \in Records
  PROVE  /\ Append(s, r) \in Seq(Records)
         /\ Len(Append(s, r)) = Len(s) + 1
         /\ Elements(Append(s, r)) = Elements(s) \cup {r}
         /\ (Distinct(s) /\ r \notin Elements(s)) => Distinct(Append(s, r))
<1> DEFINE t == Append(s, r)
<1>1. /\ t \in Seq(Records) /\ Len(t) = Len(s) + 1
      /\ \A k \in 1..Len(s) : t[k] = s[k]
      /\ t[Len(s) + 1] = r
  BY AppendProperties
<1>2. DOMAIN s = 1..Len(s) /\ DOMAIN t = 1..(Len(s) + 1) /\ Len(s) \in Nat
  BY <1>1
<1> HIDE DEF t
<1>3. Elements(t) = Elements(s) \cup {r}
  <2>1. ASSUME NEW x \in Elements(t) PROVE x \in Elements(s) \cup {r}
    <3>1. PICK k \in DOMAIN t : x = t[k]
      BY DEF Elements
    <3>2. k \in 1..Len(s) \/ k = Len(s) + 1
      BY <1>2
    <3> QED
      BY <1>1, <1>2, <3>1, <3>2 DEF Elements
  <2>2. ASSUME NEW x \in Elements(s) PROVE x \in Elements(t)
    <3>1. PICK k \in DOMAIN s : x = s[k]
      BY DEF Elements
    <3>2. k \in DOMAIN t /\ t[k] = x
      BY <1>1, <1>2, <3>1
    <3> QED
      BY <3>2 DEF Elements
  <2>3. r \in Elements(t)
    <3>1. Len(s) + 1 \in DOMAIN t
      BY <1>2
    <3> QED
      BY <1>1, <3>1 DEF Elements
  <2> QED
    BY <2>1, <2>2, <2>3
<1>4. ASSUME Distinct(s), r \notin Elements(s) PROVE Distinct(t)
  <2> SUFFICES ASSUME NEW j \in DOMAIN t, NEW k \in DOMAIN t, t[j] = t[k]
               PROVE  j = k
    BY DEF Distinct
  <2>1. \A i \in 1..Len(s) : s[i] # r
    BY <1>2, <1>4 DEF Elements
  <2>2. j \in 1..Len(s) \/ j = Len(s) + 1
    BY <1>2
  <2>3. k \in 1..Len(s) \/ k = Len(s) + 1
    BY <1>2
  <2> QED
    BY <1>1, <1>2, <1>4, <2>1, <2>2, <2>3 DEF Distinct
<1> QED
  BY <1>1, <1>3, <1>4 DEF t

(* drainLocked by a goroutine that is free: the batch, and nothing else,    *)
(* joins what is in flight.                                                 *)
LEMMA Drained ==
  ASSUME TypeOK, NEW c \in Callers, flight[c] = <<>>,
         NEW batch \in Seq(Records), drainLocked(c, batch)
  PROVE  /\ buffer' = <<>> /\ timer' = TRUE
         /\ flight' \in [Callers -> Seq(Records)]
         /\ flight'[c] = batch
         /\ \A d \in Callers : d # c => flight'[d] = flight[d]
         /\ InFlight' = InFlight \cup Elements(batch)
<1>1. /\ buffer' = <<>> /\ timer' = TRUE
      /\ flight' \in [Callers -> Seq(Records)]
      /\ flight'[c] = batch
      /\ \A d \in Callers : d # c => flight'[d] = flight[d]
  BY DEF TypeOK, drainLocked
<1>2. ASSUME NEW x PROVE x \in InFlight <=> \E d \in Callers : x \in Elements(flight[d])
  BY DEF InFlight
<1>3. ASSUME NEW x PROVE x \in InFlight' <=> \E d \in Callers : x \in Elements(flight'[d])
  BY DEF InFlight, Callers, Elements
<1>4. Elements(flight[c]) = {}
  BY EmptyBatch
<1>5. ASSUME NEW x PROVE x \in InFlight' <=> x \in InFlight \cup Elements(batch)
  BY <1>1, <1>2, <1>3, <1>4
<1> QED
  BY <1>1, <1>5

(* A flush function that returns takes its batch, and nothing else, out of  *)
(* what is in flight.                                                       *)
LEMMA Landed ==
  ASSUME TypeOK, OnePlace, NEW c \in Callers,
         flight' = [flight EXCEPT ![c] = <<>>]
  PROVE  /\ flight' \in [Callers -> Seq(Records)]
         /\ flight'[c] = <<>>
         /\ \A d \in Callers : d # c => flight'[d] = flight[d]
         /\ InFlight' = InFlight \ Elements(flight[c])
         /\ Elements(flight[c]) \subseteq InFlight
<1>1. /\ flight' \in [Callers -> Seq(Records)]
      /\ flight'[c] = <<>>
      /\ \A d \in Callers : d # c => flight'[d] = flight[d]
  BY DEF TypeOK
<1>2. ASSUME NEW x PROVE x \in InFlight <=> \E d \in Callers : x \in Elements(flight[d])
  BY DEF InFlight
<1>3. ASSUME NEW x PROVE x \in InFlight' <=> \E d \in Callers : x \in Elements(flight'[d])
  BY DEF InFlight, Callers, Elements
<1>4. Elements(flight'[c]) = {}
  BY <1>1, EmptyBatch
<1>5. \A d, e \in Callers : d # e => Elements(flight[d]) \cap Elements(flight[e]) = {}
  BY DEF OnePlace
<1>6. ASSUME NEW x PROVE x \in InFlight' <=> x \in InFlight \ Elements(flight[c])
  BY <1>1, <1>2, <1>3, <1>4, <1>5
<1> QED
  BY <1>1, <1>2, <1>6

(* Draining keeps the records in one place and the batches bounded, whether *)
(* the batch is the buffer (N is empty) or the buffer with the record that  *)
(* filled it.                                                               *)
LEMMA DrainKeeps ==
  ASSUME IInv, NEW c \in Callers, flight[c] = <<>>,
         NEW batch \in Seq(Records), Len(batch) <= MaxSize, Distinct(batch),
         NEW N \in SUBSET Records, \A r \in N : add[r] # "accepted",
         Elements(batch) = Elements(buffer) \cup N,
         drainLocked(c, batch), UNCHANGED <<delivered, failed>>,
         \A r \in Records : add'[r] = "accepted" <=> (add[r] = "accepted" \/ r \in N)
  PROVE  BatchesBounded' /\ OnePlace'
<1>1. /\ buffer' = <<>>
      /\ flight'[c] = batch
      /\ \A d \in Callers : d # c => flight'[d] = flight[d]
      /\ InFlight' = InFlight \cup Elements(batch)
  BY Drained DEF IInv
<1>2. BatchesBounded'
  <2>1. \A d \in Callers : Len(flight'[d]) <= MaxSize
    BY <1>1 DEF IInv, BatchesBounded
  <2> QED
    BY <2>1 DEF BatchesBounded, Callers
<1>3. Elements(buffer') = {} /\ Distinct(buffer')
  BY <1>1, EmptyBatch
<1>4. /\ \A r \in Records : add[r] = "accepted" <=>
            r \in Elements(buffer) \cup InFlight \cup delivered \cup failed
      /\ Elements(buffer) \cap InFlight = {}
      /\ (Elements(buffer) \cup InFlight) \cap (delivered \cup failed) = {}
      /\ delivered \cap failed = {}
      /\ \A d, e \in Callers : d # e => Elements(flight[d]) \cap Elements(flight[e]) = {}
      /\ \A d \in Callers : Distinct(flight[d])
  BY DEF IInv, OnePlace
<1>5. \A d \in Callers : Elements(flight[d]) \subseteq InFlight
  BY DEF InFlight
<1>6. \A r \in N : r \notin InFlight \cup delivered \cup failed
  BY <1>4
<1>7. \A r \in Records : add'[r] = "accepted" <=>
            r \in Elements(buffer') \cup InFlight' \cup delivered' \cup failed'
  BY <1>1, <1>3, <1>4, <1>6
<1>8. (Elements(buffer') \cup InFlight') \cap (delivered' \cup failed') = {}
  BY <1>1, <1>3, <1>4, <1>6
<1>9. \A d, e \in Callers : d # e => Elements(flight'[d]) \cap Elements(flight'[e]) = {}
  BY <1>1, <1>4, <1>5, <1>6
<1>10. \A d \in Callers : Distinct(flight'[d])
  BY <1>1, <1>4
<1>11. Callers' = Callers
  BY DEF Callers
<1>12. Elements(buffer') \cap InFlight' = {} /\ delivered' \cap failed' = {}
  BY <1>3, <1>4
<1> QED
  BY <1>2, <1>3, <1>7, <1>8, <1>9, <1>10, <1>11, <1>12 DEF OnePlace, Elements, Distinct

(* A step that leaves the records where they are keeps them in one place.   *)
LEMMA StillKeeps ==
  ASSUME IInv, UNCHANGED <<buffer, flight, delivered, failed>>,
         \A r \in Records : add'[r] = "accepted" <=> add[r] = "accepted"
  PROVE  BatchesBounded' /\ OnePlace'
<1>1. /\ InFlight' = InFlight /\ Elements(buffer)' = Elements(buffer)
      /\ Callers' = Callers /\ Distinct(buffer)' = Distinct(buffer)
  BY DEF InFlight, Elements, Callers, Distinct
<1>2. \A c \in Callers : /\ Elements(flight'[c]) = Elements(flight[c])
                         /\ Distinct(flight'[c]) = Distinct(flight[c])
  OBVIOUS
<1>3. BatchesBounded'
  BY <1>1 DEF IInv, BatchesBounded
<1>4. OnePlace'
  BY <1>1, <1>2 DEF IInv, OnePlace, Elements, Distinct
<1> QED
  BY <1>3, <1>4

-----------------------------------------------------------------------------
(* The initial state satisfies the inductive invariant.                     *)
LEMMA InitIInv == Init => IInv
<1> SUFFICES ASSUME Init PROVE IInv
  OBVIOUS
<1>1. TypeOK
  <2>1. buffer \in Seq(Records) /\ Len(buffer) < MaxSize
    BY BatcherAssumption, EmptyBatch DEF Init
  <2>2. flight \in [Callers -> Seq(Records)]
    BY DEF Init
  <2>3. /\ closed \in BOOLEAN /\ lastErr \in BOOLEAN /\ timer \in BOOLEAN
        /\ fired \subseteq Timers /\ flushed \subseteq Flushers
        /\ delivered \subseteq Records /\ failed \subseteq Records
    BY DEF Init
  <2>4. add \in [Records -> {"todo", "accepted", "closed", "dropped"}]
    BY DEF Init
  <2> QED
    BY <2>1, <2>2, <2>3, <2>4 DEF TypeOK
<1>2. \A c \in Callers : flight[c] = <<>>
  BY DEF Init
<1>3. BatchesBounded
  BY <1>2, BatcherAssumption, EmptyBatch DEF BatchesBounded
<1>4. InFlight = {} /\ Elements(buffer) = {} /\ Distinct(buffer)
  BY <1>2, EmptyBatch DEF InFlight, Init
<1>5. OnePlace
  BY <1>2, <1>4, EmptyBatch DEF Init, OnePlace
<1>6. TimerKeepsGoing
  BY DEF Init, TimerKeepsGoing
<1>7. CallersFree
  BY <1>2 DEF Init, CallersFree, Callers
<1> QED
  BY <1>1, <1>3, <1>5, <1>6, <1>7 DEF IInv

(* Every kind of caller is a caller, and the kinds are apart.               *)
LEMMA Kinds ==
  /\ \A r \in Records : r \in Callers /\ r \notin Timers /\ r \notin Flushers /\ r # Closer
  /\ \A t \in Timers : t \in Callers /\ t \notin Flushers /\ t # Closer
  /\ \A f \in Flushers : f \in Callers /\ f # Closer
  /\ Closer \in Callers
  BY BatcherAssumption DEF Callers

(* Add, the three ways it can go.                                           *)
LEMMA AddKeeps ==
  ASSUME IInv, NEW r \in Records, AddClosed(r) \/ AddSurfaces(r) \/ AddBuffers(r)
  PROVE  IInv'
<1>1. CASE AddClosed(r) \/ AddSurfaces(r)
  <2>1. /\ UNCHANGED <<buffer, flight, delivered, failed, closed, timer, fired, flushed>>
        /\ add' \in [Records -> {"todo", "accepted", "closed", "dropped"}]
        /\ add[r] = "todo" /\ add'[r] # "todo"
        /\ add'[r] # "accepted"
        /\ \A q \in Records : q # r => add'[q] = add[q]
        /\ lastErr' \in BOOLEAN
    BY <1>1 DEF AddClosed, AddSurfaces, IInv, TypeOK
  <2>2. \A q \in Records : add'[q] = "accepted" <=> add[q] = "accepted"
    BY <2>1
  <2>3. BatchesBounded' /\ OnePlace'
    BY <2>1, <2>2, StillKeeps
  <2>4. TypeOK'
    BY <2>1 DEF IInv, TypeOK, Callers
  <2>5. TimerKeepsGoing'
    BY <2>1 DEF IInv, TimerKeepsGoing
  <2>6. CallersFree'
    BY <2>1 DEF IInv, CallersFree
  <2> QED
    BY <2>3, <2>4, <2>5, <2>6 DEF IInv
<1>2. CASE AddBuffers(r)
  <2>1. /\ add[r] = "todo" /\ ~closed /\ add'[r] = "accepted"
        /\ add' \in [Records -> {"todo", "accepted", "closed", "dropped"}]
        /\ \A q \in Records : q # r => add'[q] = add[q]
        /\ UNCHANGED <<closed, lastErr, fired, flushed, delivered, failed>>
    BY <1>2 DEF AddBuffers, IInv, TypeOK
  <2>2. /\ buffer \in Seq(Records) /\ Len(buffer) < MaxSize /\ Len(buffer) \in Nat
        /\ MaxSize \in Nat
    BY BatcherAssumption DEF IInv, TypeOK
  <2>3. r \notin Elements(buffer) \cup InFlight \cup delivered \cup failed
    BY <2>1 DEF IInv, OnePlace
  <2>4. /\ Append(buffer, r) \in Seq(Records)
        /\ Len(Append(buffer, r)) = Len(buffer) + 1
        /\ Elements(Append(buffer, r)) = Elements(buffer) \cup {r}
        /\ Distinct(Append(buffer, r))
    BY <2>2, <2>3, AppendRecord DEF IInv, OnePlace
  <2>5. flight[r] = <<>> /\ r \in Callers /\ flight[Closer] = <<>>
    BY <2>1, Kinds DEF IInv, CallersFree
  <2>6. CASE Len(buffer) + 1 >= MaxSize
    <3>1. drainLocked(r, Append(buffer, r))
      BY <1>2, <2>6 DEF AddBuffers
    <3>2. \A q \in Records : add'[q] = "accepted" <=> (add[q] = "accepted" \/ q \in {r})
      BY <2>1
    <3>3. BatchesBounded' /\ OnePlace'
      <4>1. Len(Append(buffer, r)) <= MaxSize
        BY <2>2, <2>4
      <4>2. {r} \in SUBSET Records /\ \A q \in {r} : add[q] # "accepted"
        BY <2>1
      <4> QED
        BY <2>1, <2>4, <2>5, <3>1, <3>2, <4>1, <4>2, DrainKeeps
    <3>4. /\ buffer' = <<>> /\ timer' = TRUE
          /\ flight' \in [Callers -> Seq(Records)]
          /\ \A d \in Callers : d # r => flight'[d] = flight[d]
      BY <2>4, <2>5, <3>1, Drained DEF IInv
    <3>5. TypeOK'
      BY <2>1, <2>2, <3>4 DEF IInv, TypeOK, Callers
    <3>6. TimerKeepsGoing'
      BY <2>1, <3>4 DEF TimerKeepsGoing
    <3>7. CallersFree'
      BY <2>1, <3>4, Kinds DEF IInv, TypeOK, CallersFree
    <3> QED
      BY <3>3, <3>5, <3>6, <3>7 DEF IInv
  <2>7. CASE ~(Len(buffer) + 1 >= MaxSize)
    <3>1. buffer' = Append(buffer, r) /\ UNCHANGED <<timer, flight>>
      BY <1>2, <2>7 DEF AddBuffers
    <3>2. TypeOK'
      <4>1. Len(buffer') < MaxSize
        BY <2>2, <2>4, <2>7, <3>1
      <4> QED
        BY <2>1, <2>4, <3>1, <4>1 DEF IInv, TypeOK, Callers
    <3>3. BatchesBounded'
      BY <3>1 DEF IInv, BatchesBounded, Callers
    <3>4. TimerKeepsGoing'
      BY <2>1, <3>1 DEF IInv, TimerKeepsGoing
    <3>5. CallersFree'
      BY <2>1, <3>1 DEF IInv, CallersFree
    <3>6. /\ InFlight' = InFlight /\ Callers' = Callers
          /\ Elements(buffer') = Elements(buffer) \cup {r} /\ Distinct(buffer')
      BY <2>4, <3>1 DEF InFlight, Callers, Elements
    <3>7. OnePlace'
      <4>1. \A q \in Records : add'[q] = "accepted" <=>
               q \in Elements(buffer') \cup InFlight' \cup delivered' \cup failed'
        BY <2>1, <3>6 DEF IInv, OnePlace
      <4>2. /\ Elements(buffer') \cap InFlight' = {}
            /\ (Elements(buffer') \cup InFlight') \cap (delivered' \cup failed') = {}
            /\ delivered' \cap failed' = {}
        BY <2>1, <2>3, <3>6 DEF IInv, OnePlace
      <4>3. /\ \A c, d \in Callers : c # d => Elements(flight'[c]) \cap Elements(flight'[d]) = {}
            /\ \A c \in Callers : Distinct(flight'[c])
        BY <3>1 DEF IInv, OnePlace
      <4> QED
        BY <3>6, <4>1, <4>2, <4>3 DEF OnePlace, Elements, Distinct
    <3> QED
      BY <3>2, <3>3, <3>4, <3>5, <3>7 DEF IInv
  <2> QED
    BY <2>6, <2>7
<1> QED
  BY <1>1, <1>2

(* The other drains: the batch is the buffer as it stands.                  *)
LEMMA BufferDrainKeeps ==
  ASSUME IInv, NEW c \in Callers, flight[c] = <<>>, drainLocked(c, buffer),
         UNCHANGED <<add, delivered, failed>>
  PROVE  /\ BatchesBounded' /\ OnePlace'
         /\ buffer' = <<>> /\ timer' = TRUE
         /\ flight' \in [Callers -> Seq(Records)]
         /\ \A d \in Callers : d # c => flight'[d] = flight[d]
<1>1. buffer \in Seq(Records) /\ Distinct(buffer)
  BY DEF IInv, TypeOK, OnePlace
<1>2. Len(buffer) <= MaxSize
  BY BatcherAssumption DEF IInv, TypeOK
<1>3. {} \in SUBSET Records /\ Elements(buffer) = Elements(buffer) \cup {}
  OBVIOUS
<1>4. BatchesBounded' /\ OnePlace'
  BY <1>1, <1>2, <1>3, DrainKeeps
<1> QED
  BY <1>1, <1>4, Drained DEF IInv

(* Flush.                                                                   *)
LEMMA FlushKeeps ==
  ASSUME IInv, NEW f \in Flushers, Flush(f)
  PROVE  IInv'
<1>1. /\ f \notin flushed /\ flushed' = flushed \cup {f}
      /\ UNCHANGED <<closed, lastErr, add, fired, delivered, failed>>
  BY DEF Flush
<1>2. f \in Callers /\ flight[f] = <<>>
  BY <1>1, Kinds DEF IInv, CallersFree
<1>3. CASE buffer = <<>>
  <2>1. UNCHANGED <<buffer, timer, flight>>
    BY <1>3 DEF Flush
  <2>2. BatchesBounded' /\ OnePlace'
    BY <1>1, <2>1, StillKeeps
  <2>3. TypeOK'
    BY <1>1, <2>1 DEF IInv, TypeOK, Callers
  <2>4. TimerKeepsGoing' /\ CallersFree'
    BY <1>1, <2>1 DEF IInv, TimerKeepsGoing, CallersFree
  <2> QED
    BY <2>2, <2>3, <2>4 DEF IInv
<1>4. CASE buffer # <<>>
  <2>1. drainLocked(f, buffer)
    BY <1>4 DEF Flush
  <2>2. /\ BatchesBounded' /\ OnePlace'
        /\ buffer' = <<>> /\ timer' = TRUE
        /\ flight' \in [Callers -> Seq(Records)]
        /\ \A d \in Callers : d # f => flight'[d] = flight[d]
    BY <1>1, <1>2, <2>1, BufferDrainKeeps
  <2>3. TypeOK'
    BY <1>1, <2>2, BatcherAssumption, EmptyBatch DEF IInv, TypeOK, Callers
  <2>4. TimerKeepsGoing'
    BY <1>1, <2>2 DEF TimerKeepsGoing
  <2>5. CallersFree'
    BY <1>1, <2>2, Kinds DEF IInv, TypeOK, CallersFree
  <2> QED
    BY <2>2, <2>3, <2>4, <2>5 DEF IInv
<1> QED
  BY <1>3, <1>4

(* Close.                                                                   *)
LEMMA CloseKeeps ==
  ASSUME IInv, Close
  PROVE  IInv'
<1>1. /\ ~closed /\ closed' = TRUE
      /\ UNCHANGED <<lastErr, add, fired, flushed, delivered, failed>>
  BY DEF Close
<1>2. Closer \in Callers /\ flight[Closer] = <<>>
  BY <1>1, Kinds DEF IInv, CallersFree
<1>3. CASE buffer = <<>>
  <2>1. timer' = FALSE /\ UNCHANGED <<buffer, flight>>
    BY <1>3 DEF Close
  <2>2. BatchesBounded' /\ OnePlace'
    BY <1>1, <2>1, StillKeeps
  <2>3. TypeOK'
    BY <1>1, <2>1 DEF IInv, TypeOK, Callers
  <2>4. TimerKeepsGoing' /\ CallersFree'
    BY <1>1, <1>3, <2>1 DEF IInv, TimerKeepsGoing, CallersFree
  <2> QED
    BY <2>2, <2>3, <2>4 DEF IInv
<1>4. CASE buffer # <<>>
  <2>1. drainLocked(Closer, buffer)
    BY <1>4 DEF Close
  <2>2. /\ BatchesBounded' /\ OnePlace'
        /\ buffer' = <<>> /\ timer' = TRUE
        /\ flight' \in [Callers -> Seq(Records)]
        /\ \A d \in Callers : d # Closer => flight'[d] = flight[d]
    BY <1>1, <1>2, <2>1, BufferDrainKeeps
  <2>3. TypeOK'
    BY <1>1, <2>2, BatcherAssumption, EmptyBatch DEF IInv, TypeOK, Callers
  <2>4. TimerKeepsGoing'
    BY <1>1, <2>2 DEF TimerKeepsGoing
  <2>5. CallersFree'
    BY <1>1, <2>2, Kinds DEF IInv, TypeOK, CallersFree
  <2> QED
    BY <2>2, <2>3, <2>4, <2>5 DEF IInv
<1> QED
  BY <1>3, <1>4

(* The timer: it fires, and its callback gets the mutex.                    *)
LEMMA TimerKeeps ==
  ASSUME IInv, NEW t \in Timers, Fire(t) \/ timerFlush(t)
  PROVE  IInv'
<1>0. t \in Callers
  BY Kinds
<1>1. CASE Fire(t)
  <2>1. /\ timer' = FALSE /\ flight[t] = <<>> /\ fired' = fired \cup {t}
        /\ UNCHANGED <<buffer, closed, lastErr, add, flight, flushed, delivered, failed>>
    BY <1>1 DEF Fire
  <2>2. BatchesBounded' /\ OnePlace'
    BY <2>1, StillKeeps
  <2>3. TypeOK'
    BY <2>1 DEF IInv, TypeOK, Callers
  <2>4. TimerKeepsGoing'
    BY <2>1 DEF IInv, TimerKeepsGoing
  <2>5. CallersFree'
    BY <2>1 DEF IInv, CallersFree
  <2> QED
    BY <2>2, <2>3, <2>4, <2>5 DEF IInv
<1>2. CASE timerFlush(t)
  <2>1. /\ t \in fired /\ fired' = fired \ {t}
        /\ UNCHANGED <<closed, lastErr, add, flushed, delivered, failed>>
    BY <1>2 DEF timerFlush
  <2>2. flight[t] = <<>>
    BY <2>1 DEF IInv, CallersFree
  <2>3. CASE closed \/ buffer = <<>>
    <3>1. timer' = (timer \/ ~closed) /\ UNCHANGED <<buffer, flight>>
      BY <1>2, <2>3 DEF timerFlush
    <3>2. BatchesBounded' /\ OnePlace'
      BY <2>1, <3>1, StillKeeps
    <3>3. TypeOK'
      BY <2>1, <3>1 DEF IInv, TypeOK, Callers
    <3>4. TimerKeepsGoing'
      BY <2>1, <2>3, <3>1 DEF IInv, TypeOK, TimerKeepsGoing
    <3>5. CallersFree'
      BY <2>1, <3>1 DEF IInv, CallersFree
    <3> QED
      BY <3>2, <3>3, <3>4, <3>5 DEF IInv
  <2>4. CASE ~(closed \/ buffer = <<>>)
    <3>1. drainLocked(t, buffer)
      BY <1>2, <2>4 DEF timerFlush
    <3>2. /\ BatchesBounded' /\ OnePlace'
          /\ buffer' = <<>> /\ timer' = TRUE
          /\ flight' \in [Callers -> Seq(Records)]
          /\ \A d \in Callers : d # t => flight'[d] = flight[d]
      BY <1>0, <2>1, <2>2, <3>1, BufferDrainKeeps
    <3>3. TypeOK'
      BY <2>1, <3>2, BatcherAssumption, EmptyBatch DEF IInv, TypeOK, Callers
    <3>4. TimerKeepsGoing'
      BY <2>1, <3>2 DEF TimerKeepsGoing
    <3>5. CallersFree'
      BY <2>1, <3>2, Kinds DEF IInv, TypeOK, CallersFree
    <3> QED
      BY <3>2, <3>3, <3>4, <3>5 DEF IInv
  <2> QED
    BY <2>3, <2>4
<1> QED
  BY <1>1, <1>2

(* The flush function returns.                                              *)
LEMMA ReturnKeeps ==
  ASSUME IInv, NEW c \in Callers, flushFnDelivers(c) \/ flushFnFails(c)
  PROVE  IInv'
<1> DEFINE E == Elements(flight[c])
<1>1. /\ flight' = [flight EXCEPT ![c] = <<>>]
      /\ UNCHANGED <<buffer, closed, timer, add, fired, flushed>>
      /\ delivered' \cup failed' = (delivered \cup failed) \cup E
      /\ delivered \subseteq delivered' /\ failed \subseteq failed'
      /\ (delivered' = delivered /\ failed' = failed \cup E)
         \/ (failed' = failed /\ delivered' = delivered \cup E)
  BY DEF flushFnDelivers, flushFnFails
<1>2. lastErr' \in BOOLEAN
  BY DEF flushFnDelivers, flushFnFails, IInv, TypeOK
<1>3. /\ flight' \in [Callers -> Seq(Records)]
      /\ flight'[c] = <<>>
      /\ \A d \in Callers : d # c => flight'[d] = flight[d]
      /\ InFlight' = InFlight \ E
      /\ E \subseteq InFlight
  BY <1>1, Landed DEF IInv
<1>4. E \subseteq Records
  BY DEF IInv, TypeOK, Elements
<1>5. Callers' = Callers /\ Elements(buffer)' = Elements(buffer)
      /\ Distinct(buffer)' = Distinct(buffer)
  BY <1>1 DEF Callers, Elements, Distinct
<1>6. /\ \A r \in Records : add[r] = "accepted" <=>
            r \in Elements(buffer) \cup InFlight \cup delivered \cup failed
      /\ Elements(buffer) \cap InFlight = {}
      /\ (Elements(buffer) \cup InFlight) \cap (delivered \cup failed) = {}
      /\ delivered \cap failed = {}
      /\ \A d, e \in Callers : d # e => Elements(flight[d]) \cap Elements(flight[e]) = {}
      /\ Distinct(buffer)
      /\ \A d \in Callers : Distinct(flight[d])
  BY DEF IInv, OnePlace
<1> HIDE DEF E
<1>7. TypeOK'
  <2>1. delivered' \subseteq Records /\ failed' \subseteq Records
    BY <1>1, <1>4 DEF IInv, TypeOK
  <2> QED
    BY <1>1, <1>2, <1>3, <1>5, <2>1 DEF IInv, TypeOK
<1>8. BatchesBounded'
  <2>1. \A d \in Callers : Len(flight'[d]) <= MaxSize
    BY <1>3, EmptyBatch, BatcherAssumption DEF IInv, BatchesBounded
  <2> QED
    BY <1>5, <2>1 DEF BatchesBounded
<1>9. OnePlace'
  <2>1. \A r \in Records : add'[r] = "accepted" <=>
           r \in Elements(buffer)' \cup InFlight' \cup delivered' \cup failed'
    BY <1>1, <1>3, <1>5, <1>6
  <2>2. /\ Elements(buffer)' \cap InFlight' = {}
        /\ (Elements(buffer)' \cup InFlight') \cap (delivered' \cup failed') = {}
        /\ delivered' \cap failed' = {}
    BY <1>1, <1>3, <1>5, <1>6
  <2>3. Elements(flight'[c]) = {} /\ Distinct(flight'[c])
    BY <1>3, EmptyBatch
  <2>4. /\ \A d, e \in Callers : d # e => Elements(flight'[d]) \cap Elements(flight'[e]) = {}
        /\ \A d \in Callers : Distinct(flight'[d])
    BY <1>3, <1>6, <2>3
  <2> QED
    BY <1>5, <1>6, <2>1, <2>2, <2>4 DEF OnePlace, Elements, Distinct
<1>10. TimerKeepsGoing'
  BY <1>1 DEF IInv, TimerKeepsGoing
<1>11. CallersFree'
  BY <1>1, <1>3, Kinds DEF IInv, TypeOK, CallersFree
<1> QED
  BY <1>7, <1>8, <1>9, <1>10, <1>11 DEF IInv

(* Every step of the batcher keeps the inductive invariant.                 *)
LEMMA NextIInv == IInv /\ [Next]_vars => IInv'
<1> SUFFICES ASSUME IInv, [Next]_vars PROVE IInv'
  OBVIOUS
<1>1. CASE \E r \in Records : AddClosed(r) \/ AddSurfaces(r) \/ AddBuffers(r)
  BY <1>1, AddKeeps
<1>2. CASE \E f \in Flushers : Flush(f)
  BY <1>2, FlushKeeps
<1>3. CASE Close
  BY <1>3, CloseKeeps
<1>4. CASE \E t \in Timers : Fire(t) \/ timerFlush(t)
  BY <1>4, TimerKeeps
<1>5. CASE \E c \in Callers : flushFnDelivers(c) \/ flushFnFails(c)
  BY <1>5, ReturnKeeps
<1>6. CASE UNCHANGED vars
  <2>1. UNCHANGED <<buffer, closed, lastErr, timer, add, fired, flight, flushed,
                    delivered, failed>>
    BY <1>6 DEF vars
  <2>2. BatchesBounded' /\ OnePlace'
    BY <2>1, StillKeeps
  <2>3. TypeOK'
    BY <2>1 DEF IInv, TypeOK, Callers
  <2>4. TimerKeepsGoing' /\ CallersFree'
    BY <2>1 DEF IInv, TimerKeepsGoing, CallersFree
  <2> QED
    BY <2>2, <2>3, <2>4 DEF IInv
<1> QED
  BY <1>1, <1>2, <1>3, <1>4, <1>5, <1>6 DEF Next

(* The inductive invariant holds of every behaviour.                        *)
THEOREM Inductive == Spec => []IInv
  BY InitIInv, NextIInv, PTL DEF Spec

(* The fields of the batcher keep their types and the buffer stays short of *)
(* maxSize between two locked sections of Add, Flush, Close and timerFlush. *)
THEOREM TypeCorrect == Spec => []TypeOK
<1>1. IInv => TypeOK
  BY DEF IInv
<1> QED
  BY <1>1, Inductive, PTL

(* No caller is ever in the flush function with more than maxSize records.  *)
THEOREM BatchesAreBounded == Spec => []BatchesBounded
<1>1. IInv => BatchesBounded
  BY DEF IInv
<1> QED
  BY <1>1, Inductive, PTL

(* Add, Flush, Close and the timer never lose or duplicate a record that    *)
(* Add accepted.                                                            *)
THEOREM RecordsInOnePlace == Spec => []OnePlace
<1>1. IInv => OnePlace
  BY DEF IInv
<1> QED
  BY <1>1, Inductive, PTL

(* The timer of an open batcher is armed or its callback is on its way, and *)
(* a closed batcher holds nothing.                                          *)
THEOREM TimerIsKeptGoing == Spec => []TimerKeepsGoing
<1>1. IInv => TimerKeepsGoing
  BY DEF IInv
<1> QED
  BY <1>1, Inductive, PTL

-----------------------------------------------------------------------------
(* The batcher implements Handoff (the safety part of ImplementsHandoff).   *)

Stage == [r \in Records |-> StageOf(r)]

(* A sequence has at most as many elements as places.                       *)
LEMMA ElementsCount ==
  ASSUME NEW s \in Seq(Records)
  PROVE  IsFiniteSet(Elements(s)) /\ Cardinality(Elements(s)) <= Len(s)
<1>1. Len(s) \in Nat /\ DOMAIN s = 1..Len(s)
  OBVIOUS
<1>2. IsFiniteSet(1..Len(s)) /\ Cardinality(1..Len(s)) = Len(s)
  BY <1>1, FS_Interval
<1> DEFINE f == [k \in 1..Len(s) |-> s[k]]
<1>3. f \in Surjection(1..Len(s), Elements(s))
  BY <1>1 DEF Surjection, Elements
<1>4. IsFiniteSet(Elements(s)) /\ Cardinality(Elements(s)) <= Cardinality(1..Len(s))
  BY <1>2, <1>3, FS_Surjection
<1> QED
  BY <1>2, <1>4

(* Where a record is decides its stage.                                     *)
StageFacts ==
    /\ \A r \in Records :
         /\ Stage[r] = "new" <=> add[r] = "todo"
         /\ Stage[r] = "refused" <=> add[r] \in {"closed", "dropped"}
         /\ Stage[r] = "held" <=> r \in Elements(buffer)
         /\ Stage[r] = "handed" <=> r \in InFlight
         /\ Stage[r] = "delivered" <=> r \in delivered
         /\ Stage[r] = "failed" <=> r \in failed
         /\ Stage[r] \in H!Stages
    /\ Stage = [r \in Records |-> Stage[r]]

(* The inductive invariant makes the stages well defined.                   *)
LEMMA StageIs == IInv => StageFacts
<1> SUFFICES ASSUME IInv, NEW r \in Records
             PROVE  /\ Stage[r] = "new" <=> add[r] = "todo"
                    /\ Stage[r] = "refused" <=> add[r] \in {"closed", "dropped"}
                    /\ Stage[r] = "held" <=> r \in Elements(buffer)
                    /\ Stage[r] = "handed" <=> r \in InFlight
                    /\ Stage[r] = "delivered" <=> r \in delivered
                    /\ Stage[r] = "failed" <=> r \in failed
                    /\ Stage[r] \in H!Stages
  BY DEF StageFacts, Stage
<1>1. add[r] \in {"todo", "accepted", "closed", "dropped"}
  BY DEF IInv, TypeOK
<1>2. add[r] = "accepted" <=>
        r \in Elements(buffer) \cup InFlight \cup delivered \cup failed
  BY DEF IInv, OnePlace
<1>3. /\ Elements(buffer) \cap InFlight = {}
      /\ (Elements(buffer) \cup InFlight) \cap (delivered \cup failed) = {}
      /\ delivered \cap failed = {}
  BY DEF IInv, OnePlace
<1>4. Stage[r] = StageOf(r)
  BY DEF Stage
<1>5. CASE add[r] # "accepted"
  <2>1. add[r] = "todo" => StageOf(r) = "new"
    BY <1>2, <1>5 DEF StageOf
  <2>2. add[r] \in {"closed", "dropped"} => StageOf(r) = "refused"
    BY <1>2, <1>5 DEF StageOf
  <2> QED
    BY <1>1, <1>2, <1>4, <1>5, <2>1, <2>2 DEF H!Stages
<1>6. CASE add[r] = "accepted"
  <2>1. r \in Elements(buffer) => StageOf(r) = "held"
    BY <1>3, <1>6 DEF StageOf
  <2>2. r \in delivered => StageOf(r) = "delivered"
    BY <1>3, <1>6 DEF StageOf
  <2>3. r \in failed => StageOf(r) = "failed"
    BY <1>3, <1>6 DEF StageOf
  <2>4. r \in InFlight => StageOf(r) = "handed"
    BY <1>3, <1>6 DEF StageOf
  <2> QED
    BY <1>2, <1>3, <1>4, <1>6, <2>1, <2>2, <2>3, <2>4 DEF H!Stages
<1> QED
  BY <1>5, <1>6

(* The same after a step.                                                   *)
LEMMA StageIsNext == IInv' => StageFacts'
  BY StageIs, PTL

(* Handoff counts with the same Cardinality.                                *)
LEMMA SameCardinality == \A S : H!Cardinality(S) = Cardinality(S)
  BY DEF H!Cardinality, Cardinality, IsFiniteSet, H!IsFiniteSet

(* The records held are those in the buffer, fewer than maxSize.            *)
LEMMA HeldCount ==
  ASSUME IInv
  PROVE  H!At("held") = Elements(buffer) /\ Cardinality(H!At("held")) < MaxSize
<1>1. Elements(buffer) \subseteq Records
  BY DEF IInv, TypeOK, Elements
<1>2. H!At("held") = Elements(buffer)
  BY <1>1, StageIs DEF H!At, StageFacts, Stage
<1>3. Cardinality(Elements(buffer)) <= Len(buffer) /\ IsFiniteSet(Elements(buffer))
  BY ElementsCount DEF IInv, TypeOK
<1>4. Cardinality(Elements(buffer)) \in Nat
  BY <1>3, FS_CardinalityType
<1>5. Len(buffer) \in Nat /\ Len(buffer) < MaxSize /\ MaxSize \in Nat
  BY BatcherAssumption DEF IInv, TypeOK
<1> QED
  BY <1>2, <1>3, <1>4, <1>5

(* How a step is recognised as a move of Handoff.                           *)
LEMMA IsMove ==
  ASSUME IInv, IInv', NEW M \in SUBSET Records, NEW s \in H!Stages,
         \A r \in M : Stage'[r] = s,
         \A r \in Records \ M : Stage'[r] = Stage[r]
  PROVE  H!Move(M, s)
<1>1. Stage' = [r \in Records |-> IF r \in M THEN s ELSE Stage[r]]
  BY StageIsNext DEF StageFacts
<1> QED
  BY <1>1 DEF H!Move, Stage

(* A record that stays where it is keeps its stage.                         *)
LEMMA SameStage ==
  ASSUME IInv, IInv', NEW r \in Records, add'[r] = add[r],
         r \in Elements(buffer)' <=> r \in Elements(buffer),
         r \in InFlight' <=> r \in InFlight,
         r \in delivered' <=> r \in delivered,
         r \in failed' <=> r \in failed
  PROVE  Stage'[r] = Stage[r]
<1>1. Stage[r] \in {"new", "held", "refused", "handed", "delivered", "failed"}
  BY StageIs DEF StageFacts, H!Stages
<1> QED
  BY <1>1, StageIs, StageIsNext DEF StageFacts

(* Add is Refuse, Accept or Complete.                                       *)
LEMMA AddMoves ==
  ASSUME IInv, IInv', NEW r \in Records,
         AddClosed(r) \/ AddSurfaces(r) \/ AddBuffers(r)
  PROVE  H!HandoffNext
<1>1. /\ add[r] = "todo"
      /\ \A q \in Records : q # r => add'[q] = add[q]
      /\ UNCHANGED <<delivered, failed>>
  BY DEF AddClosed, AddSurfaces, AddBuffers, IInv, TypeOK
<1>2. r \in H!At("new")
  BY <1>1, StageIs DEF H!At, StageFacts, Stage
<1>3. CASE AddClosed(r) \/ AddSurfaces(r)
  <2>1. add'[r] \in {"closed", "dropped"} /\ UNCHANGED <<buffer, flight>>
    BY <1>3 DEF AddClosed, AddSurfaces, IInv, TypeOK
  <2>2. Elements(buffer)' = Elements(buffer) /\ InFlight' = InFlight
    BY <2>1 DEF Elements, InFlight, Callers
  <2>3. \A q \in Records \ {r} : Stage'[q] = Stage[q]
    BY <1>1, <2>2, SameStage
  <2>4. Stage'[r] = "refused"
    BY <2>1, StageIsNext DEF StageFacts
  <2>5. H!Move({r}, "refused")
    BY <2>3, <2>4, IsMove DEF H!Stages
  <2> QED
    BY <1>2, <2>5 DEF H!HandoffNext, H!Refuse
<1>4. CASE AddBuffers(r)
  <2>1. buffer \in Seq(Records) /\ Elements(Append(buffer, r)) = Elements(buffer) \cup {r}
        /\ Append(buffer, r) \in Seq(Records)
    BY AppendRecord DEF IInv, TypeOK
  <2>2. flight[r] = <<>> /\ r \in Callers
    BY <1>1, Kinds DEF IInv, CallersFree
  <2>3. CASE Len(buffer) + 1 >= MaxSize
    <3>1. drainLocked(r, Append(buffer, r))
      BY <1>4, <2>3 DEF AddBuffers
    <3>2. buffer' = <<>> /\ InFlight' = InFlight \cup (Elements(buffer) \cup {r})
      BY <2>1, <2>2, <3>1, Drained DEF IInv
    <3>3. Elements(buffer)' = {}
      BY <3>2 DEF Elements
    <3>4. \A q \in Elements(buffer) \cup {r} : q \in Records /\ Stage'[q] = "handed"
      <4>1. Elements(buffer) \subseteq Records
        BY <2>1 DEF Elements
      <4> QED
        BY <3>2, <4>1, StageIsNext DEF StageFacts
    <3>5. \A q \in Records \ (Elements(buffer) \cup {r}) : Stage'[q] = Stage[q]
      BY <1>1, <3>2, <3>3, SameStage
    <3>6. H!Move(Elements(buffer) \cup {r}, "handed")
      BY <3>4, <3>5, IsMove DEF H!Stages
    <3>7. H!Cardinality(H!At("held")) < MaxSize
      BY HeldCount, SameCardinality
    <3>8. H!At("held") \cup {r} = Elements(buffer) \cup {r}
      BY HeldCount
    <3> QED
      BY <1>2, <3>6, <3>7, <3>8 DEF H!HandoffNext, H!Complete
  <2>4. CASE ~(Len(buffer) + 1 >= MaxSize)
    <3>1. buffer' = Append(buffer, r) /\ UNCHANGED flight
      BY <1>4, <2>4 DEF AddBuffers
    <3>2. Elements(buffer)' = Elements(buffer) \cup {r} /\ InFlight' = InFlight
      BY <2>1, <3>1 DEF Elements, InFlight, Callers
    <3>3. Stage'[r] = "held"
      BY <3>2, StageIsNext DEF StageFacts
    <3>4. \A q \in Records \ {r} : Stage'[q] = Stage[q]
      BY <1>1, <3>2, SameStage
    <3>5. H!Move({r}, "held")
      BY <3>3, <3>4, IsMove DEF H!Stages
    <3> QED
      BY <1>2, <3>5 DEF H!HandoffNext, H!Accept
  <2> QED
    BY <2>3, <2>4
<1> QED
  BY <1>3, <1>4

(* Draining the buffer as it stands is HandOver.                            *)
LEMMA DrainMoves ==
  ASSUME IInv, IInv', NEW c \in Callers, flight[c] = <<>>, buffer # <<>>,
         drainLocked(c, buffer), UNCHANGED <<add, delivered, failed>>
  PROVE  H!HandOver
<1>1. buffer \in Seq(Records)
  BY DEF IInv, TypeOK
<1>2. buffer' = <<>> /\ InFlight' = InFlight \cup Elements(buffer)
  BY <1>1, Drained DEF IInv
<1>3. Elements(buffer)' = {}
  BY <1>2 DEF Elements
<1>4. Elements(buffer) \subseteq Records /\ Elements(buffer) # {}
  <2>1. 1 \in DOMAIN buffer
    BY <1>1
  <2> QED
    BY <1>1, <2>1 DEF Elements
<1>5. \A q \in Elements(buffer) : Stage'[q] = "handed"
  BY <1>2, <1>4, StageIsNext DEF StageFacts
<1>6. \A q \in Records \ Elements(buffer) : Stage'[q] = Stage[q]
  BY <1>2, <1>3, SameStage
<1>7. H!Move(Elements(buffer), "handed")
  BY <1>4, <1>5, <1>6, IsMove DEF H!Stages
<1>8. H!Cardinality(H!At("held")) <= MaxSize
  <2>1. Cardinality(Elements(buffer)) \in Nat
    BY <1>1, ElementsCount, FS_CardinalityType
  <2> QED
    BY <2>1, HeldCount, SameCardinality, BatcherAssumption
<1> QED
  BY <1>4, <1>7, <1>8, HeldCount DEF H!HandOver

(* The flush function's return is Return of its batch.                      *)
LEMMA ReturnMoves ==
  ASSUME IInv, IInv', NEW c \in Callers, flushFnDelivers(c) \/ flushFnFails(c)
  PROVE  H!HandoffNext
<1> DEFINE E == Elements(flight[c])
<1>1. /\ flight[c] # <<>> /\ flight' = [flight EXCEPT ![c] = <<>>]
      /\ UNCHANGED <<buffer, add>>
  BY DEF flushFnDelivers, flushFnFails
<1>2. InFlight' = InFlight \ E /\ E \subseteq InFlight
  BY <1>1, Landed DEF IInv
<1>3. E \subseteq Records /\ E # {}
  <2>1. flight[c] \in Seq(Records)
    BY DEF IInv, TypeOK
  <2>2. 1 \in DOMAIN flight[c]
    BY <1>1, <2>1
  <2>3. E \subseteq Records
    BY <2>1 DEF Elements
  <2>4. flight[c][1] \in E
    BY <2>2 DEF Elements
  <2> QED
    BY <2>3, <2>4
<1>4. Elements(buffer)' = Elements(buffer)
  BY <1>1 DEF Elements
<1>5. (InFlight \cap delivered = {}) /\ (InFlight \cap failed = {})
  BY DEF IInv, OnePlace
<1>6. E \subseteq H!At("handed")
  BY <1>2, <1>3, StageIs DEF H!At, StageFacts, Stage
<1>7. (delivered' = delivered \cup E /\ failed' = failed)
      \/ (failed' = failed \cup E /\ delivered' = delivered)
  BY DEF flushFnDelivers, flushFnFails
<1> HIDE DEF E
<1>8. \A q \in Records \ E : Stage'[q] = Stage[q]
  BY <1>1, <1>2, <1>4, <1>7, SameStage
<1>9. CASE delivered' = delivered \cup E /\ failed' = failed
  <2>1. \A q \in E : Stage'[q] = "delivered"
    BY <1>3, <1>9, StageIsNext DEF StageFacts
  <2>2. H!Move(E, "delivered")
    BY <1>3, <1>8, <2>1, IsMove DEF H!Stages
  <2> QED
    BY <1>3, <1>6, <2>2 DEF H!HandoffNext, H!Return
<1>10. CASE failed' = failed \cup E /\ delivered' = delivered
  <2>1. \A q \in E : Stage'[q] = "failed"
    BY <1>3, <1>10, StageIsNext DEF StageFacts
  <2>2. H!Move(E, "failed")
    BY <1>3, <1>8, <2>1, IsMove DEF H!Stages
  <2> QED
    BY <1>3, <1>6, <2>2 DEF H!HandoffNext, H!Return
<1> QED
  BY <1>7, <1>9, <1>10

(* A step that moves no record is a stutter.                                *)
LEMMA StillStutters ==
  ASSUME IInv, IInv', UNCHANGED <<buffer, flight, add, delivered, failed>>
  PROVE  Stage' = Stage
<1>1. Elements(buffer)' = Elements(buffer) /\ InFlight' = InFlight
  BY DEF Elements, InFlight, Callers
<1>2. \A q \in Records : Stage'[q] = Stage[q]
  BY <1>1, SameStage
<1> QED
  BY <1>2, StageIs, StageIsNext DEF StageFacts

(* Every step of the batcher is a step of Handoff or a stutter.             *)
LEMMA StepSimulates ==
  ASSUME IInv, IInv', [Next]_vars
  PROVE  H!HandoffNext \/ Stage' = Stage
<1>1. CASE \E r \in Records : AddClosed(r) \/ AddSurfaces(r) \/ AddBuffers(r)
  BY <1>1, AddMoves
<1>2. CASE \E f \in Flushers : Flush(f)
  <2>1. PICK f \in Flushers : Flush(f)
    BY <1>2
  <2>2. f \in Callers /\ flight[f] = <<>> /\ UNCHANGED <<add, delivered, failed>>
    BY <2>1, Kinds DEF Flush, IInv, CallersFree
  <2>3. CASE buffer = <<>>
    BY <2>1, <2>2, <2>3, StillStutters DEF Flush
  <2>4. CASE buffer # <<>>
    <3>1. drainLocked(f, buffer)
      BY <2>1, <2>4 DEF Flush
    <3> QED
      BY <2>2, <2>4, <3>1, DrainMoves DEF H!HandoffNext
  <2> QED
    BY <2>3, <2>4
<1>3. CASE Close
  <2>1. Closer \in Callers /\ flight[Closer] = <<>> /\ UNCHANGED <<add, delivered, failed>>
    BY <1>3, Kinds DEF Close, IInv, CallersFree
  <2>2. CASE buffer = <<>>
    BY <1>3, <2>1, <2>2, StillStutters DEF Close
  <2>3. CASE buffer # <<>>
    <3>1. drainLocked(Closer, buffer)
      BY <1>3, <2>3 DEF Close
    <3> QED
      BY <2>1, <2>3, <3>1, DrainMoves DEF H!HandoffNext
  <2> QED
    BY <2>2, <2>3
<1>4. CASE \E t \in Timers : Fire(t) \/ timerFlush(t)
  <2>1. PICK t \in Timers : Fire(t) \/ timerFlush(t)
    BY <1>4
  <2>2. CASE Fire(t)
    BY <2>2, StillStutters DEF Fire
  <2>3. CASE timerFlush(t)
    <3>1. t \in Callers /\ flight[t] = <<>> /\ UNCHANGED <<add, delivered, failed>>
      BY <2>3, Kinds DEF timerFlush, IInv, CallersFree
    <3>2. CASE closed \/ buffer = <<>>
      BY <2>3, <3>1, <3>2, StillStutters DEF timerFlush
    <3>3. CASE ~(closed \/ buffer = <<>>)
      <4>1. drainLocked(t, buffer)
        BY <2>3, <3>3 DEF timerFlush
      <4> QED
        BY <3>1, <3>3, <4>1, DrainMoves DEF H!HandoffNext
    <3> QED
      BY <3>2, <3>3
  <2> QED
    BY <2>1, <2>2, <2>3
<1>5. CASE \E c \in Callers : flushFnDelivers(c) \/ flushFnFails(c)
  BY <1>5, ReturnMoves
<1>6. CASE UNCHANGED vars
  BY <1>6, StillStutters DEF vars
<1> QED
  BY <1>1, <1>2, <1>3, <1>4, <1>5, <1>6 DEF Next

(* The batcher implements the safety part of Handoff: every record Add      *)
(* accepts is handed to the flush function once, together with all that is  *)
(* buffered and in a batch of at most maxSize.                              *)
THEOREM BatcherRefinesHandoff == Spec => H!HandoffSafety
<1>1. Init => H!HandoffInit
  <2> SUFFICES ASSUME Init PROVE H!HandoffInit
    OBVIOUS
  <2>1. \A r \in Records : Stage[r] = "new"
    BY InitIInv, StageIs DEF Init, StageFacts
  <2>2. Stage = [r \in Records |-> "new"]
    BY <2>1, InitIInv, StageIs DEF StageFacts
  <2> QED
    BY <2>2 DEF H!HandoffInit, Stage
<1>2. IInv /\ IInv' /\ [Next]_vars => [H!HandoffNext]_Stage
  BY StepSimulates
<1>3. [H!HandoffNext]_Stage => [H!HandoffNext]_([r \in Records |-> StageOf(r)])
  BY DEF Stage
<1> QED
  BY <1>1, <1>2, <1>3, Inductive, PTL DEF Spec, H!HandoffSafety
=============================================================================
