--------------------------- MODULE PipelineProofs ---------------------------
(***************************************************************************)
(* Proofs about the pipeline of a sync.                                    *)
(***************************************************************************)
EXTENDS Pipeline, Integers, WellFoundedInduction, FiniteSetTheorems, TLAPS

(* The integer divisions of DeterminePartitionsActivity give equal parts    *)
(* that fit into what is divided.                                           *)
LEMMA DivFits ==
    ASSUME NEW t \in Nat, NEW n \in Nat \ {0}
    PROVE  (t \div n) \in Nat /\ n * (t \div n) <= t
  OBVIOUS

(* A sequence of ranges from 0 to total, without gaps and without overlap. *)
Tiles(ranges, total) ==
    ranges # <<>> =>
        /\ ranges[1].offset = 0
        /\ \A i \in 1..(Len(ranges) - 1) :
              ranges[i].offset + ranges[i].limit = ranges[i + 1].offset
        /\ ranges[Len(ranges)].offset <= total
        /\ ranges[Len(ranges)].offset + ranges[Len(ranges)].limit = total

(* The loop of DeterminePartitionsActivity tiles any estimate.              *)
LEMMA PartitionsTileTotal ==
    ASSUME NEW total \in Nat
    PROVE  Tiles(Partitions(total), total)
<1> DEFINE n   == Clamp(total \div DefaultBatchSize, 1, maxPartitionsLimit)
           per == total \div n
           ps  == Partitions(total)
<1>1. DefaultBatchSize \in Nat \ {0} /\ maxPartitionsLimit \in Nat \ {0}
  BY ExtractAssumption
<1>2. n \in Nat \ {0}
  <2>1. total \div DefaultBatchSize \in Nat
    BY <1>1, DivFits
  <2>2. n \in 1..maxPartitionsLimit
    BY <1>1, <2>1 DEF Clamp
  <2> QED
    BY <1>1, <2>2
<1> HIDE DEF n
<1>3. per \in Nat /\ n * per <= total
  BY <1>2, DivFits
<1>4. (n - 1) * per <= total /\ (n - 1) * per \in Nat
  BY <1>2, <1>3
<1> HIDE DEF per
<1>5. ps = [i \in 1..n |-> [offset |-> (i - 1) * per,
                            limit  |-> IF i = n THEN total - (i - 1) * per ELSE per]]
  BY DEF Partitions, n, per
<1> HIDE DEF ps
<1>6. Len(ps) = n /\ ps # <<>>
  <2>1. ps \in Seq([offset : Int, limit : Int])
    <3>1. \A i \in 1..n : (i - 1) * per \in Int
      BY <1>2, <1>3
    <3>2. \A i \in 1..n : ps[i] \in [offset : Int, limit : Int]
      BY <1>2, <1>3, <1>5, <3>1
    <3> QED
      BY <1>2, <1>5, <3>2
  <2>2. DOMAIN ps = 1..n
    BY <1>5
  <2> QED
    BY <1>2, <2>1, <2>2
<1>7. ps[1].offset = 0
  BY <1>2, <1>3, <1>5
<1>8. ASSUME NEW i \in 1..(n - 1)
      PROVE  ps[i].offset + ps[i].limit = ps[i + 1].offset
  <2>1. i \in 1..n /\ i + 1 \in 1..n /\ i # n
    BY <1>2
  <2>2. ps[i].offset = (i - 1) * per /\ ps[i].limit = per /\ ps[i + 1].offset = i * per
    BY <1>2, <1>3, <1>5, <2>1
  <2>3. (i - 1) * per + per = i * per
    BY <1>3, <2>1
  <2> QED
    BY <2>2, <2>3
<1>9. ps[n].offset = (n - 1) * per /\ ps[n].limit = total - (n - 1) * per
  BY <1>2, <1>5
<1> QED
  BY <1>4, <1>6, <1>7, <1>8, <1>9 DEF Tiles, ps

-----------------------------------------------------------------------------
(* What a checkpoint promises: a stream's state st[s] has behind it every   *)
(* record between the start of the sync and st[s].                          *)
Recs == [stream : Nat, id : Nat]
Msgs == [type : {"record", "state", "log"}, stream : Streams, value : Nat]
States == [Streams -> Nat]
Backed(s, n, recs) == \A i \in Nat : Start[s] < i /\ i <= n => Record(s, i) \in recs
Covered(st, recs) == \A s \in Streams : Backed(s, st[s], recs)

(* The records among the first n messages of a channel. *)
SentIn(chan, n) ==
    {Record(chan[j].stream, chan[j].value) : j \in {j \in 1..n : chan[j].type = "record"}}

FetchFields == {"pc", "attempt", "stream", "next", "left", "sent", "cancelled",
                "readErr", "chan", "records", "newState", "hasMore"}

FetchType(f) ==
    /\ DOMAIN f = FetchFields
    /\ f.chan \in Seq(Msgs) /\ f.records \in Seq(Recs) /\ f.newState \in States
    /\ f.stream \in Nat \ {0} /\ f.next \in Nat \ {0}
    /\ f.pc \in {"page", "emit", "state", "log"} => f.stream \in Streams
    /\ f.pc \notin Running => f.chan = <<>>

(* The state of a fetch that has base behind it: what it has received backs *)
(* its newState; a state on its way follows its records in the channel; and *)
(* Read has sent the records up to the one it is at.                        *)
StatesBacked(f, base) ==
    \A k \in 1..Len(f.chan) : f.chan[k].type = "state" =>
        Backed(f.chan[k].stream, f.chan[k].value,
               base \cup Ids(f.records) \cup SentIn(f.chan, k))
ReadBacked(f, base) ==
    f.pc \in {"page", "emit", "state"} /\ f.stream \in Incremental =>
        Backed(f.stream, f.next - 1,
               base \cup Ids(f.records) \cup SentIn(f.chan, Len(f.chan)))
FetchOK(f, base) ==
    f.pc \in Running \cup {"returned"} =>
        /\ Covered(f.newState, base \cup Ids(f.records))
        /\ StatesBacked(f, base)
        /\ ReadBacked(f, base)

(* The inductive invariant behind CheckpointCovered. *)
ExtractInv ==
    /\ allRecords \in Seq(Recs) /\ currentState \in States
    /\ collected \in Nat
    /\ Len(parts) \in 0..maxPartitionsLimit
    /\ DOMAIN fetch = Fetchers
    /\ \A p \in Fetchers : FetchType(fetch[p]) /\ FetchOK(fetch[p], Ids(allRecords))
    /\ Covered(currentState, Ids(allRecords))

(* What is backed by some records is backed by more of them.                 *)
LEMMA BackedMonotone ==
    ASSUME NEW s, NEW n, NEW small, NEW large, small \subseteq large, Backed(s, n, small)
    PROVE  Backed(s, n, large)
  BY DEF Backed

(* A fetch stays consistent when ExtractWorkflow has taken more records.     *)
LEMMA FetchOKMonotone ==
    ASSUME NEW f, NEW small, NEW large, small \subseteq large, FetchOK(f, small)
    PROVE  FetchOK(f, large)
  BY BackedMonotone DEF FetchOK, Covered, StatesBacked, ReadBacked, Backed

(* The state a sync starts from needs no record of this sync.                *)
LEMMA StartCovered ==
    ASSUME NEW base
    PROVE  Start \in States /\ Covered(Start, base)
  BY ExtractAssumption DEF States, Covered, Backed

(* A FetchBatchActivity attempt starts consistent from a covered state.      *)
LEMMA NewFetchOK ==
    ASSUME NEW st \in States, NEW n, NEW base, Covered(st, base)
    PROVE  FetchType(NewFetch(st, n)) /\ FetchOK(NewFetch(st, n), base)
<1> DEFINE f == NewFetch(st, n)
<1>1. /\ f.chan = <<>> /\ f.records = <<>> /\ f.newState = st /\ f.pc = "stream"
      /\ f.stream = 1 /\ f.next = 1
      /\ DOMAIN f = FetchFields
  BY DEF NewFetch, FetchFields
<1> HIDE DEF f
<1>2. FetchType(f)
  BY <1>1 DEF FetchType, Running
<1>3. Covered(f.newState, base \cup Ids(f.records))
  BY <1>1 DEF Covered, Backed
<1>4. FetchOK(f, base)
  BY <1>1, <1>3 DEF FetchOK, StatesBacked, ReadBacked
<1> QED
  BY <1>2, <1>4 DEF f

(* Before any FetchBatchActivity is scheduled there is nothing to back.      *)
LEMMA NoFetchOK ==
    ASSUME NEW base
    PROVE  /\ FetchType(NoFetch) /\ FetchOK(NoFetch, base)
           /\ FetchType([NoFetch EXCEPT !.pc = "failed"])
           /\ FetchOK([NoFetch EXCEPT !.pc = "failed"], base)
  BY StartCovered DEF NoFetch, NewFetch, FetchType, FetchOK, Running, FetchFields

(* Sending adds to the end of the channel and receiving takes its head.     *)
LEMMA AppendSent ==
    ASSUME NEW chan \in Seq(Msgs), NEW m \in Msgs
    PROVE  LET c == Append(chan, m) IN
           /\ c \in Seq(Msgs) /\ Len(c) = Len(chan) + 1
           /\ \A k \in 1..Len(chan) : c[k] = chan[k]
           /\ c[Len(c)] = m
           /\ \A k \in 0..Len(chan) : SentIn(c, k) = SentIn(chan, k)
           /\ SentIn(chan, Len(chan)) \subseteq SentIn(c, Len(c))
           /\ m.type = "record" => Record(m.stream, m.value) \in SentIn(c, Len(c))
<1> DEFINE c == Append(chan, m)
<1>1. c \in Seq(Msgs) /\ Len(c) = Len(chan) + 1 /\ Len(chan) \in Nat
  OBVIOUS
<1>2. \A k \in 1..Len(chan) : c[k] = chan[k]
  OBVIOUS
<1>3. c[Len(c)] = m
  OBVIOUS
<1> HIDE DEF c
<1>4. \A k \in 0..Len(chan) : SentIn(c, k) = SentIn(chan, k)
  BY <1>1, <1>2 DEF SentIn
<1>5. SentIn(chan, Len(chan)) \subseteq SentIn(c, Len(c))
  BY <1>1, <1>2 DEF SentIn
<1>6. m.type = "record" => Record(m.stream, m.value) \in SentIn(c, Len(c))
  BY <1>1, <1>3 DEF SentIn
<1> QED
  BY <1>1, <1>2, <1>3, <1>4, <1>5, <1>6 DEF c

(* Receiving: what the rest of the channel holds was in the channel.         *)
LEMMA TailSent ==
    ASSUME NEW chan \in Seq(Msgs), chan # <<>>, NEW base,
           Head(chan).type = "record" => Record(Head(chan).stream, Head(chan).value) \in base
    PROVE  /\ Head(chan) \in Msgs /\ Head(chan) = chan[1]
           /\ Tail(chan) \in Seq(Msgs) /\ Len(Tail(chan)) = Len(chan) - 1
           /\ Len(chan) \in Nat \ {0}
           /\ \A k \in 1..Len(Tail(chan)) : Tail(chan)[k] = chan[k + 1]
           /\ \A k \in 0..Len(Tail(chan)) :
                 SentIn(chan, k + 1) \subseteq base \cup SentIn(Tail(chan), k)
<1> DEFINE c == Tail(chan)
<1>1. /\ Head(chan) \in Msgs /\ Head(chan) = chan[1]
      /\ c \in Seq(Msgs) /\ Len(c) = Len(chan) - 1 /\ Len(chan) \in Nat \ {0}
  OBVIOUS
<1>2. \A k \in 1..Len(c) : c[k] = chan[k + 1]
  OBVIOUS
<1> HIDE DEF c
<1>3. ASSUME NEW k \in 0..Len(c), NEW r \in SentIn(chan, k + 1)
      PROVE  r \in base \cup SentIn(c, k)
  <2>1. PICK j \in 1..(k + 1) : chan[j].type = "record" /\ r = Record(chan[j].stream, chan[j].value)
    BY <1>3 DEF SentIn
  <2>2. CASE j = 1
    BY <1>1, <2>1, <2>2
  <2>3. CASE j # 1
    <3>1. j - 1 \in 1..k /\ j - 1 \in 1..Len(c) /\ chan[j] = c[j - 1]
      BY <1>1, <1>2, <2>3
    <3> QED
      BY <2>1, <3>1 DEF SentIn
  <2> QED
    BY <2>2, <2>3
<1> QED
  BY <1>1, <1>2, <1>3 DEF c

(* A message is sent and Read goes on to g: records and newState stay.      *)
LEMMA SendOK ==
    ASSUME NEW f, NEW g, NEW base, NEW m \in Msgs,
           FetchType(f), FetchOK(f, base), f.pc \in Running,
           g.chan = Append(f.chan, m), g.records = f.records, g.newState = f.newState,
           m.type = "state" =>
              Backed(m.stream, m.value,
                     base \cup Ids(f.records) \cup SentIn(f.chan, Len(f.chan)))
    PROVE  /\ g.chan \in Seq(Msgs)
           /\ Covered(g.newState, base \cup Ids(g.records))
           /\ StatesBacked(g, base)
<1> USE DEF FetchType
<1>1. /\ g.chan \in Seq(Msgs) /\ Len(g.chan) = Len(f.chan) + 1 /\ Len(f.chan) \in Nat
      /\ \A k \in 1..Len(f.chan) : g.chan[k] = f.chan[k]
      /\ g.chan[Len(g.chan)] = m
      /\ \A k \in 0..Len(f.chan) : SentIn(g.chan, k) = SentIn(f.chan, k)
      /\ SentIn(f.chan, Len(f.chan)) \subseteq SentIn(g.chan, Len(g.chan))
  BY AppendSent
<1>2. Covered(g.newState, base \cup Ids(g.records)) /\ StatesBacked(f, base)
  BY DEF FetchOK
<1>3. ASSUME NEW k \in 1..Len(g.chan), g.chan[k].type = "state"
      PROVE  Backed(g.chan[k].stream, g.chan[k].value,
                    base \cup Ids(g.records) \cup SentIn(g.chan, k))
  <2>1. CASE k \in 1..Len(f.chan)
    <3>1. g.chan[k] = f.chan[k] /\ SentIn(g.chan, k) = SentIn(f.chan, k)
      BY <1>1, <2>1
    <3> QED
      BY <1>2, <1>3, <2>1, <3>1 DEF StatesBacked
  <2>2. CASE k = Len(g.chan)
    <3>1. base \cup Ids(f.records) \cup SentIn(f.chan, Len(f.chan))
            \subseteq base \cup Ids(g.records) \cup SentIn(g.chan, k)
      BY <1>1, <2>2
    <3>2. Backed(m.stream, m.value,
                 base \cup Ids(f.records) \cup SentIn(f.chan, Len(f.chan)))
      BY <1>1, <1>3, <2>2
    <3> QED
      BY <1>1, <2>2, <3>1, <3>2, BackedMonotone
  <2> QED
    BY <1>1, <2>1, <2>2
<1> QED
  BY <1>1, <1>2, <1>3 DEF StatesBacked

(* The record that Read emits for a position of a stream is a record.        *)
LEMMA RecordTyped ==
    ASSUME NEW m \in Msgs
    PROVE  Record(m.stream, m.value) \in Recs
<1>1. m.stream \in Nat /\ m.value \in Nat
  BY ExtractAssumption DEF Msgs, Streams
<1> QED
  BY <1>1 DEF Recs, Record

(* Receiving one record adds its identity to those received.                 *)
LEMMA IdsAppend ==
    ASSUME NEW S, NEW recs \in Seq(S), NEW r \in S
    PROVE  Ids(Append(recs, r)) = Ids(recs) \cup {r}
<1> DEFINE c == Append(recs, r)
<1>1. /\ DOMAIN c = 1..(Len(recs) + 1) /\ DOMAIN recs = 1..Len(recs) /\ Len(recs) \in Nat
      /\ \A k \in 1..Len(recs) : c[k] = recs[k]
      /\ c[Len(recs) + 1] = r
  OBVIOUS
<1> HIDE DEF c
<1>2. Ids(c) = Ids(recs) \cup {r}
  BY <1>1 DEF Ids
<1> QED
  BY <1>2 DEF c

(* The head of the channel is received: what was backed by the channel is   *)
(* backed by what was received or by the rest of the channel.               *)
LEMMA ReceiveOK ==
    ASSUME NEW f, NEW g, NEW base,
           FetchType(f), FetchOK(f, base), f.pc \in Running, f.chan # <<>>,
           g.chan = Tail(f.chan), g.pc = f.pc, g.stream = f.stream, g.next = f.next,
           Ids(f.records) \subseteq Ids(g.records),
           Head(f.chan).type = "record" =>
              Record(Head(f.chan).stream, Head(f.chan).value) \in Ids(g.records)
    PROVE  /\ g.chan \in Seq(Msgs) /\ StatesBacked(g, base) /\ ReadBacked(g, base)
           /\ Head(f.chan) \in Msgs
           /\ Head(f.chan).type = "state" =>
                 Backed(Head(f.chan).stream, Head(f.chan).value, base \cup Ids(g.records))
<1> DEFINE got == base \cup Ids(g.records)
<1> USE DEF FetchType
<1>1. /\ Head(f.chan) \in Msgs /\ Head(f.chan) = f.chan[1]
      /\ g.chan \in Seq(Msgs) /\ Len(g.chan) = Len(f.chan) - 1 /\ Len(f.chan) \in Nat \ {0}
      /\ \A k \in 1..Len(g.chan) : g.chan[k] = f.chan[k + 1]
      /\ \A k \in 0..Len(g.chan) : SentIn(f.chan, k + 1) \subseteq got \cup SentIn(g.chan, k)
  BY TailSent
<1>2. StatesBacked(f, base) /\ ReadBacked(f, base)
  BY DEF FetchOK
<1>3. \A k \in 0..Len(g.chan) :
         base \cup Ids(f.records) \cup SentIn(f.chan, k + 1) \subseteq got \cup SentIn(g.chan, k)
  BY <1>1
<1>4. ASSUME NEW k \in 1..Len(g.chan), g.chan[k].type = "state"
      PROVE  Backed(g.chan[k].stream, g.chan[k].value, got \cup SentIn(g.chan, k))
  <2>1. k + 1 \in 1..Len(f.chan) /\ g.chan[k] = f.chan[k + 1] /\ k \in 0..Len(g.chan)
    BY <1>1
  <2>2. Backed(f.chan[k + 1].stream, f.chan[k + 1].value,
               base \cup Ids(f.records) \cup SentIn(f.chan, k + 1))
    BY <1>2, <1>4, <2>1 DEF StatesBacked
  <2> QED
    BY <1>3, <2>1, <2>2, BackedMonotone
<1>5. ReadBacked(g, base)
  <2> SUFFICES ASSUME f.pc \in {"page", "emit", "state"} /\ f.stream \in Incremental
               PROVE  Backed(f.stream, f.next - 1, got \cup SentIn(g.chan, Len(g.chan)))
    BY DEF ReadBacked
  <2>1. Backed(f.stream, f.next - 1,
               base \cup Ids(f.records) \cup SentIn(f.chan, Len(f.chan)))
    BY <1>2 DEF ReadBacked
  <2>2. Len(f.chan) = Len(g.chan) + 1 /\ Len(g.chan) \in 0..Len(g.chan)
    BY <1>1
  <2> QED
    BY <1>3, <2>1, <2>2, BackedMonotone
<1>6. ASSUME Head(f.chan).type = "state"
      PROVE  Backed(Head(f.chan).stream, Head(f.chan).value, got)
  <2>1. 1 \in 1..Len(f.chan) /\ 0 \in 0..Len(g.chan) /\ 0 + 1 = 1
    BY <1>1
  <2>2. Backed(f.chan[1].stream, f.chan[1].value,
               base \cup Ids(f.records) \cup SentIn(f.chan, 1))
    BY <1>1, <1>2, <1>6, <2>1 DEF StatesBacked
  <2>3. SentIn(g.chan, 0) = {}
    BY DEF SentIn
  <2>4. base \cup Ids(f.records) \cup SentIn(f.chan, 1) \subseteq got
    BY <1>3, <2>1, <2>3
  <2> QED
    BY <1>1, <2>2, <2>4, BackedMonotone
<1> QED
  BY <1>1, <1>4, <1>5, <1>6 DEF StatesBacked

(* Every step of a fetch keeps it backed, whatever Read and the receiving   *)
(* loop have done so far.                                                   *)
LEMMA FetchStepOK ==
    ASSUME ExtractInv, NEW p \in Fetchers, FetchStep(p)
    PROVE  ExtractInv'
<1> DEFINE f == fetch[p]
           g == fetch'[p]
           base == Ids(allRecords)
<1>1. /\ FetchType(f) /\ FetchOK(f, base)
      /\ DOMAIN fetch = Fetchers
      /\ InputState \in States /\ Covered(InputState, base)
  BY StartCovered DEF ExtractInv, InputState
<1>2. SUFFICES /\ DOMAIN fetch' = Fetchers
               /\ \A q \in Fetchers \ {p} : fetch'[q] = fetch[q]
               /\ FetchType(g) /\ FetchOK(g, base)
  BY DEF ExtractInv, FetchStep
<1>3. CASE ReadStream(p)
  <2>1. /\ DOMAIN fetch' = Fetchers
        /\ \A q \in Fetchers \ {p} : fetch'[q] = fetch[q]
        /\ DOMAIN g = FetchFields
        /\ g.chan = f.chan /\ g.records = f.records /\ g.newState = f.newState
        /\ g.stream = f.stream
    BY <1>1, <1>3 DEF ReadStream, FetchType, FetchFields
  <2>2. f.pc = "stream" /\ f.pc \in Running
    BY <1>3 DEF ReadStream, Running
  <2>3. \/ g.pc = "exited" /\ g.next = f.next
        \/ /\ g.pc = "page" /\ f.stream <= NumStreams
           /\ g.next = IF f.stream \in Incremental /\ InputState[f.stream] > 0
                       THEN InputState[f.stream] ELSE 1
    BY <1>1, <1>3 DEF ReadStream, FetchType, FetchFields
  <2>4. f.stream <= NumStreams => f.stream \in Streams
    BY <1>1, ExtractAssumption DEF FetchType, Streams
  <2>5. FetchType(g)
    BY <1>1, <2>1, <2>3, <2>4 DEF FetchType, States, Running
  <2>6. ReadBacked(g, base)
    <3> SUFFICES ASSUME g.pc = "page", f.stream \in Incremental, f.stream \in Streams,
                        NEW i \in Nat, Start[f.stream] < i, i <= g.next - 1
                 PROVE  Record(f.stream, i) \in base
      BY <2>1, <2>3, <2>4 DEF ReadBacked, Backed
    <3>1. InputState[f.stream] \in Nat /\ Start[f.stream] \in Nat
      BY <1>1, ExtractAssumption DEF States
    <3>2. CASE InputState[f.stream] > 0
      <4>1. i <= InputState[f.stream]
        BY <2>3, <3>1, <3>2
      <4> QED
        BY <1>1, <4>1 DEF Covered, Backed
    <3>3. CASE ~(InputState[f.stream] > 0)
      BY <2>3, <3>1, <3>3
    <3> QED
      BY <3>2, <3>3
  <2> QED
    BY <1>1, <2>1, <2>2, <2>5, <2>6 DEF FetchOK, StatesBacked
<1>4. CASE ReadPage(p)
  <2>1. /\ DOMAIN fetch' = Fetchers
        /\ \A q \in Fetchers \ {p} : fetch'[q] = fetch[q]
        /\ DOMAIN g = FetchFields
        /\ g.chan = f.chan /\ g.records = f.records /\ g.newState = f.newState
        /\ g.stream = f.stream /\ g.next = f.next
        /\ f.pc = "page" /\ g.pc \in {"log", "state", "emit"}
    BY <1>1, <1>4 DEF ReadPage, FetchType, FetchFields
  <2> QED
    BY <1>1, <2>1 DEF FetchType, FetchOK, StatesBacked, ReadBacked, Running
<1>5. CASE ReadEmit(p)
  <2> DEFINE m == [type |-> "record", stream |-> f.stream, value |-> f.next]
  <2>1. /\ DOMAIN fetch' = Fetchers
        /\ \A q \in Fetchers \ {p} : fetch'[q] = fetch[q]
        /\ DOMAIN g = FetchFields
        /\ g.chan = Append(f.chan, m) /\ g.records = f.records /\ g.newState = f.newState
        /\ g.stream = f.stream /\ g.next = f.next + 1
        /\ f.pc = "emit" /\ g.pc \in {"emit", "page", "state"}
    BY <1>1, <1>5 DEF ReadEmit, Send, FetchType, FetchFields
  <2>2. m \in Msgs /\ f.pc \in Running /\ m.type = "record"
    BY <1>1, <2>1 DEF Msgs, FetchType, Running
  <2>3. /\ g.chan \in Seq(Msgs)
        /\ Covered(g.newState, base \cup Ids(g.records))
        /\ StatesBacked(g, base)
    BY <1>1, <2>1, <2>2, SendOK
  <2>4. ReadBacked(g, base)
    <3>1. /\ SentIn(f.chan, Len(f.chan)) \subseteq SentIn(g.chan, Len(g.chan))
          /\ Record(f.stream, f.next) \in SentIn(g.chan, Len(g.chan))
      BY <1>1, <2>1, <2>2, AppendSent DEF FetchType
    <3> SUFFICES ASSUME f.stream \in Incremental,
                        NEW i \in Nat, Start[f.stream] < i, i <= f.next
                 PROVE  Record(f.stream, i)
                           \in base \cup Ids(f.records) \cup SentIn(g.chan, Len(g.chan))
      BY <1>1, <2>1 DEF ReadBacked, Backed, FetchType
    <3>2. CASE i = f.next
      BY <3>1, <3>2
    <3>3. CASE i <= f.next - 1
      <4>1. Backed(f.stream, f.next - 1,
                   base \cup Ids(f.records) \cup SentIn(f.chan, Len(f.chan)))
        BY <1>1, <2>1, <2>2 DEF FetchOK, ReadBacked
      <4> QED
        BY <3>1, <3>3, <4>1 DEF Backed
    <3> QED
      BY <1>1, <3>2, <3>3 DEF FetchType
  <2>5. FetchType(g)
    BY <1>1, <2>1, <2>3 DEF FetchType, Running
  <2> QED
    BY <2>1, <2>3, <2>4, <2>5 DEF FetchOK
<1>6. CASE ReadState(p)
  <2> DEFINE m == [type |-> "state", stream |-> f.stream, value |-> f.next - 1]
  <2>1. /\ DOMAIN fetch' = Fetchers
        /\ \A q \in Fetchers \ {p} : fetch'[q] = fetch[q]
        /\ DOMAIN g = FetchFields
        /\ g.records = f.records /\ g.newState = f.newState
        /\ g.stream = f.stream + 1 /\ g.next = f.next
        /\ f.pc = "state" /\ g.pc = "stream"
    BY <1>1, <1>6 DEF ReadState, FetchType, FetchFields
  <2>2. CASE f.stream \in Incremental /\ g.chan = Append(f.chan, m)
    <3>1. m \in Msgs /\ f.pc \in Running
      BY <1>1, <2>1 DEF Msgs, FetchType, Running
    <3>2. Backed(m.stream, m.value,
                 base \cup Ids(f.records) \cup SentIn(f.chan, Len(f.chan)))
      BY <1>1, <2>1, <2>2, <3>1 DEF FetchOK, ReadBacked
    <3>3. /\ g.chan \in Seq(Msgs)
          /\ Covered(g.newState, base \cup Ids(g.records))
          /\ StatesBacked(g, base)
      BY <1>1, <2>1, <2>2, <3>1, <3>2, SendOK
    <3> QED
      BY <1>1, <2>1, <3>3 DEF FetchType, FetchOK, ReadBacked, Running
  <2>3. CASE g.chan = f.chan
    <3>1. FetchType(g)
      BY <1>1, <2>1, <2>3 DEF FetchType, Running
    <3>2. FetchOK(g, base)
      BY <1>1, <2>1, <2>3 DEF FetchOK, StatesBacked, ReadBacked, Running
    <3> QED
      BY <2>1, <3>1, <3>2
  <2>4. \/ f.stream \in Incremental /\ g.chan = Append(f.chan, m)
        \/ g.chan = f.chan
    BY <1>1, <1>6 DEF ReadState, Send, FetchType, FetchFields
  <2> QED
    BY <2>1, <2>2, <2>3, <2>4
<1>7. CASE ReadLog(p)
  <2> DEFINE m == [type |-> "log", stream |-> f.stream, value |-> 0]
  <2>1. /\ DOMAIN fetch' = Fetchers
        /\ \A q \in Fetchers \ {p} : fetch'[q] = fetch[q]
        /\ DOMAIN g = FetchFields
        /\ g.chan = Append(f.chan, m) /\ g.records = f.records /\ g.newState = f.newState
        /\ g.stream = f.stream + 1 /\ g.next = f.next
        /\ f.pc = "log" /\ g.pc = "stream"
    BY <1>1, <1>7 DEF ReadLog, Send, FetchType, FetchFields
  <2>2. m \in Msgs /\ f.pc \in Running /\ m.type = "log"
    BY <1>1, <2>1 DEF Msgs, FetchType, Running
  <2>3. /\ g.chan \in Seq(Msgs)
        /\ Covered(g.newState, base \cup Ids(g.records))
        /\ StatesBacked(g, base)
    BY <1>1, <2>1, <2>2, SendOK
  <2> QED
    BY <1>1, <2>1, <2>3 DEF FetchType, FetchOK, ReadBacked, Running
<1>8. CASE Receive(p)
  <2> DEFINE m == Head(f.chan)
             r == Record(m.stream, m.value)
  <2>1. f.chan # <<>> /\ m.type \in {"record", "state", "log"}
    BY <1>8 DEF Receive
  <2>2. ASSUME m.type = "record"
      PROVE /\ DOMAIN fetch' = Fetchers
            /\ \A q \in Fetchers \ {p} : fetch'[q] = fetch[q]
            /\ DOMAIN g = FetchFields
            /\ g.chan = Tail(f.chan)
            /\ g.stream = f.stream /\ g.next = f.next /\ g.pc = f.pc
            /\ g.records = Append(f.records, r) /\ g.newState = f.newState
    <3>1. fetch' = [fetch EXCEPT ![p] = [f EXCEPT !.chan = Tail(f.chan),
                                                  !.records = Append(f.records, r),
                                                  !.hasMore = @ \/ Len(Append(f.records, r)) >= BatchSize,
                                                  !.cancelled = @ \/ Len(Append(f.records, r)) >= BatchSize]]
      BY <1>1, <1>8, <2>2 DEF Receive, FetchType, FetchFields
    <3> QED
      BY <1>1, <3>1 DEF FetchType, FetchFields
  <2>3. ASSUME m.type = "state"
      PROVE /\ DOMAIN fetch' = Fetchers
            /\ \A q \in Fetchers \ {p} : fetch'[q] = fetch[q]
            /\ DOMAIN g = FetchFields
            /\ g.chan = Tail(f.chan)
            /\ g.stream = f.stream /\ g.next = f.next /\ g.pc = f.pc
            /\ g.records = f.records
            /\ g.newState = [f.newState EXCEPT ![m.stream] = m.value]
    <3>1. fetch' = [fetch EXCEPT ![p] = [f EXCEPT !.chan = Tail(f.chan), !.newState[m.stream] = m.value]]
      BY <1>1, <1>8, <2>3 DEF Receive, FetchType, FetchFields
    <3> QED
      BY <1>1, <3>1 DEF FetchType, FetchFields
  <2>4. ASSUME m.type = "log"
      PROVE /\ DOMAIN fetch' = Fetchers
            /\ \A q \in Fetchers \ {p} : fetch'[q] = fetch[q]
            /\ DOMAIN g = FetchFields
            /\ g.chan = Tail(f.chan)
            /\ g.stream = f.stream /\ g.next = f.next /\ g.pc = f.pc
            /\ g.records = f.records /\ g.newState = f.newState
    <3>1. fetch' = [fetch EXCEPT ![p] = [f EXCEPT !.chan = Tail(f.chan)]]
      BY <1>1, <1>8, <2>4 DEF Receive, FetchType, FetchFields
    <3> QED
      BY <1>1, <3>1 DEF FetchType, FetchFields
  <2>5. /\ DOMAIN fetch' = Fetchers
        /\ \A q \in Fetchers \ {p} : fetch'[q] = fetch[q]
        /\ DOMAIN g = FetchFields
        /\ g.chan = Tail(f.chan) /\ f.chan # <<>>
        /\ g.stream = f.stream /\ g.next = f.next /\ g.pc = f.pc
    BY <2>1, <2>2, <2>3, <2>4
  <2>6. \/ m.type = "record" /\ g.records = Append(f.records, r) /\ g.newState = f.newState
        \/ /\ m.type = "state" /\ g.records = f.records
           /\ g.newState = [f.newState EXCEPT ![m.stream] = m.value]
        \/ m.type = "log" /\ g.records = f.records /\ g.newState = f.newState
    BY <2>1, <2>2, <2>3, <2>4
  <2>7. m \in Msgs
    BY <1>1, <2>5 DEF FetchType
  <2>8. r \in Recs
    BY <2>7, RecordTyped
  <2>9. /\ g.records \in Seq(Recs) /\ Ids(f.records) \subseteq Ids(g.records)
        /\ m.type = "record" => r \in Ids(g.records)
    <3>1. f.records \in Seq(Recs)
      BY <1>1 DEF FetchType
    <3>2. CASE m.type = "record" /\ g.records = Append(f.records, r)
      <4>1. g.records \in Seq(Recs)
        BY <2>8, <3>1, <3>2
      <4>2. Ids(g.records) = Ids(f.records) \cup {r}
        BY <2>8, <3>1, <3>2, IdsAppend
      <4> QED
        BY <4>1, <4>2
    <3>3. CASE m.type # "record" /\ g.records = f.records
      BY <3>1, <3>3
    <3> QED
      BY <2>6, <3>2, <3>3
  <2>10. CASE f.pc \in Running
    <3>1. /\ g.chan \in Seq(Msgs) /\ StatesBacked(g, base) /\ ReadBacked(g, base)
          /\ m.type = "state" => Backed(m.stream, m.value, base \cup Ids(g.records))
      BY <1>1, <2>5, <2>9, <2>10, ReceiveOK
    <3>2. Covered(f.newState, base \cup Ids(g.records))
      BY <1>1, <2>9, <2>10, BackedMonotone DEF FetchOK, Covered, Backed
    <3>3. g.newState \in States /\ Covered(g.newState, base \cup Ids(g.records))
      BY <1>1, <2>6, <2>7, <3>1, <3>2 DEF Covered, FetchType, States, Msgs
    <3> QED
      BY <1>1, <2>5, <2>9, <3>1, <3>3 DEF FetchType, FetchOK
  <2>11. CASE f.pc \notin Running
    BY <1>1, <2>5, <2>11 DEF FetchType
  <2> QED
    BY <2>5, <2>10, <2>11
<1>9. CASE FetchReturns(p)
  <2>1. /\ DOMAIN fetch' = Fetchers
        /\ \A q \in Fetchers \ {p} : fetch'[q] = fetch[q]
        /\ DOMAIN g = FetchFields
        /\ g.chan = f.chan /\ g.records = f.records /\ g.newState = f.newState
        /\ g.stream = f.stream /\ g.next = f.next
        /\ f.pc = "exited" /\ g.pc = "returned" /\ f.chan = <<>>
    BY <1>1, <1>9 DEF FetchReturns, FetchType, FetchFields
  <2>2. FetchType(g)
    BY <1>1, <2>1 DEF FetchType
  <2>3. FetchOK(g, base)
    BY <1>1, <2>1 DEF FetchOK, StatesBacked, ReadBacked, Running
  <2> QED
    BY <2>1, <2>2, <2>3
<1> QED
  BY <1>3, <1>4, <1>5, <1>6, <1>7, <1>8, <1>9 DEF FetchStep

(* append(allRecords, batch...) holds the records of both.                   *)
LEMMA IdsConcat ==
    ASSUME NEW S, NEW a \in Seq(S), NEW b \in Seq(S)
    PROVE  a \o b \in Seq(S) /\ Ids(a \o b) = Ids(a) \cup Ids(b)
<1> DEFINE c == a \o b
<1>1. /\ c \in Seq(S)
      /\ DOMAIN a = 1..Len(a) /\ DOMAIN b = 1..Len(b) /\ DOMAIN c = 1..(Len(a) + Len(b))
      /\ Len(a) \in Nat /\ Len(b) \in Nat
  OBVIOUS
<1>2. \A k \in 1..Len(a) : c[k] = a[k]
  OBVIOUS
<1>3. \A k \in 1..Len(b) : c[k + Len(a)] = b[k]
  OBVIOUS
<1> HIDE DEF c
<1>4. ASSUME NEW k \in DOMAIN c
      PROVE  c[k] \in Ids(a) \cup Ids(b)
  <2>1. CASE k \in 1..Len(a)
    BY <1>1, <1>2, <2>1 DEF Ids
  <2>2. CASE k \notin 1..Len(a)
    <3>1. k - Len(a) \in 1..Len(b) /\ (k - Len(a)) + Len(a) = k
      BY <1>1, <2>2
    <3> QED
      BY <1>1, <1>3, <3>1 DEF Ids
  <2> QED
    BY <2>1, <2>2
<1>5. Ids(a) \subseteq Ids(c)
  BY <1>1, <1>2 DEF Ids
<1>6. Ids(b) \subseteq Ids(c)
  <2> SUFFICES ASSUME NEW k \in 1..Len(b) PROVE b[k] \in Ids(c)
    BY <1>1 DEF Ids
  <2>1. k + Len(a) \in DOMAIN c /\ c[k + Len(a)] = b[k]
    BY <1>1, <1>3
  <2> QED
    BY <2>1 DEF Ids
<1>7. Ids(c) = Ids(a) \cup Ids(b)
  BY <1>4, <1>5, <1>6 DEF Ids
<1> QED
  BY <1>1, <1>7 DEF c

(* A returned batch is taken: its state is backed by its records and those  *)
(* taken before, and so is the merged state.                                *)
LEMMA TakeOK ==
    ASSUME ExtractInv, NEW p \in Fetchers, Take(p)
    PROVE  /\ allRecords' \in Seq(Recs) /\ Ids(allRecords) \subseteq Ids(allRecords')
           /\ currentState' \in States /\ Covered(currentState', Ids(allRecords'))
<1>1. /\ allRecords \in Seq(Recs) /\ currentState \in States
      /\ FetchType(fetch[p]) /\ FetchOK(fetch[p], Ids(allRecords))
      /\ Covered(currentState, Ids(allRecords))
  BY DEF ExtractInv
<1>2. /\ fetch[p].pc = "returned"
      /\ allRecords' = allRecords \o fetch[p].records
      /\ currentState' = mergeStateRaw(currentState, fetch[p].newState)
  BY DEF Take
<1>3. fetch[p].records \in Seq(Recs) /\ fetch[p].newState \in States
  BY <1>1 DEF FetchType
<1>4. /\ allRecords' \in Seq(Recs)
      /\ Ids(allRecords') = Ids(allRecords) \cup Ids(fetch[p].records)
  BY <1>1, <1>2, <1>3, IdsConcat
<1>5. Covered(fetch[p].newState, Ids(allRecords'))
  BY <1>1, <1>2, <1>4 DEF FetchOK
<1>6. Covered(currentState, Ids(allRecords'))
  BY <1>1, <1>4 DEF Covered, Backed
<1>7. currentState' \in States /\ Covered(currentState', Ids(allRecords'))
  BY <1>1, <1>2, <1>3, <1>5, <1>6 DEF mergeStateRaw, States, Covered
<1> QED
  BY <1>4, <1>7

(* DeterminePartitionsActivity returns at least one partition.               *)
LEMMA PartitionsLen ==
    ASSUME NEW total \in Nat
    PROVE  Len(Partitions(total)) \in 0..maxPartitionsLimit
<1> DEFINE n   == Clamp(total \div DefaultBatchSize, 1, maxPartitionsLimit)
           R(i) == [offset |-> (i - 1) * (total \div n),
                    limit  |-> IF i = n THEN total - (i - 1) * (total \div n) ELSE total \div n]
<1>1. n \in 1..maxPartitionsLimit /\ maxPartitionsLimit \in Nat
  BY ExtractAssumption, DivFits DEF Clamp
<1>2. Partitions(total) = [i \in 1..n |-> R(i)]
  BY DEF Partitions
<1> HIDE DEF n, R
<1>3. Len([i \in 1..n |-> R(i)]) = n
  BY <1>1
<1> QED
  BY <1>1, <1>2, <1>3

-----------------------------------------------------------------------------
(* A sync that has fetched nothing satisfies the invariant.                  *)
LEMMA ExtractInvInit == Init => ExtractInv
  BY StartCovered, NoFetchOK, ExtractAssumption DEF Init, ExtractInit, ExtractInv, Ids

(* Every action of the extract phase preserves the invariant.               *)
LEMMA ExtractInvNext == ExtractInv /\ [Next]_vars => ExtractInv'
<1> SUFFICES ASSUME ExtractInv, [Next]_vars
             PROVE  ExtractInv'
  OBVIOUS
<1>1. CASE UNCHANGED extractVars
  BY <1>1 DEF ExtractInv, extractVars
<1>2. ASSUME NEW d \in Discovered, DeterminePartitions(d)
      PROVE  ExtractInv'
  <2>1. Len(parts') \in 0..maxPartitionsLimit
    <3>1. estimate' \in Nat /\ parts' = Partitions(estimate')
      BY <1>2, ExtractAssumption DEF DeterminePartitions
    <3> QED
      BY <3>1, PartitionsLen
  <2>2. /\ DOMAIN fetch' = Fetchers
        /\ \A p \in Fetchers : fetch'[p] = NewFetch(Start, 1) \/ fetch'[p] = NoFetch
        /\ UNCHANGED <<collected, allRecords, currentState>>
    BY <1>2 DEF DeterminePartitions
  <2>3. \A p \in Fetchers : FetchType(fetch'[p]) /\ FetchOK(fetch'[p], Ids(allRecords))
    BY <2>2, StartCovered, NewFetchOK, NoFetchOK
  <2> QED
    BY <2>1, <2>2, <2>3 DEF ExtractInv
<1>3. CASE DeterminePartitionsFails
  <2>1. /\ DOMAIN fetch' = Fetchers
        /\ \A p \in Fetchers : fetch'[p] = NewFetch(Start, 1) \/ fetch'[p] = fetch[p]
        /\ UNCHANGED <<parts, collected, allRecords, currentState>>
    BY <1>3 DEF DeterminePartitionsFails, ExtractInv
  <2>2. \A p \in Fetchers : FetchType(fetch'[p]) /\ FetchOK(fetch'[p], Ids(allRecords))
    BY <2>1, StartCovered, NewFetchOK DEF ExtractInv
  <2> QED
    BY <2>1, <2>2 DEF ExtractInv
<1>4. ASSUME NEW p \in Fetchers, FetchLost(p)
      PROVE  ExtractInv'
  <2>1. InputState \in States /\ Covered(InputState, Ids(allRecords))
    BY StartCovered DEF ExtractInv, InputState
  <2>2. /\ DOMAIN fetch' = Fetchers
        /\ \A q \in Fetchers : \/ fetch'[q] = fetch[q]
                               \/ fetch'[q] = NewFetch(InputState, fetch[p].attempt + 1)
                               \/ fetch'[q] = [NoFetch EXCEPT !.pc = "failed"]
        /\ UNCHANGED <<parts, collected, allRecords, currentState>>
    BY <1>4 DEF FetchLost, AttemptLost, ExtractInv
  <2>3. \A q \in Fetchers : FetchType(fetch'[q]) /\ FetchOK(fetch'[q], Ids(allRecords))
    BY <2>1, <2>2, NewFetchOK, NoFetchOK DEF ExtractInv
  <2> QED
    BY <2>2, <2>3 DEF ExtractInv
<1>5. CASE CollectBatch
  <2>1. 1 \in Fetchers
    BY ExtractAssumption DEF Fetchers
  <2>2. /\ allRecords' \in Seq(Recs) /\ Ids(allRecords) \subseteq Ids(allRecords')
        /\ currentState' \in States /\ Covered(currentState', Ids(allRecords'))
    BY <1>5, <2>1, TakeOK DEF CollectBatch
  <2>3. /\ DOMAIN fetch' = Fetchers
        /\ \A p \in Fetchers : \/ fetch'[p] = fetch[p]
                               \/ fetch'[p] = NewFetch(currentState', 1)
                               \/ fetch'[p] = NoFetch
        /\ UNCHANGED <<parts, collected>>
    BY <1>5 DEF CollectBatch, ExtractInv
  <2>4. \A p \in Fetchers : FetchType(fetch'[p]) /\ FetchOK(fetch'[p], Ids(allRecords'))
    BY <2>2, <2>3, NewFetchOK, NoFetchOK, FetchOKMonotone DEF ExtractInv
  <2> QED
    BY <2>2, <2>3, <2>4 DEF ExtractInv
<1>6. CASE CollectPartition
  <2>1. collected + 1 \in Fetchers
    BY <1>6, ExtractAssumption DEF CollectPartition, ExtractInv, Fetchers
  <2>2. /\ allRecords' \in Seq(Recs) /\ Ids(allRecords) \subseteq Ids(allRecords')
        /\ currentState' \in States /\ Covered(currentState', Ids(allRecords'))
    BY <1>6, <2>1, TakeOK DEF CollectPartition
  <2>3. /\ DOMAIN fetch' = Fetchers
        /\ \A p \in Fetchers : fetch'[p] = fetch[p] \/ fetch'[p] = NoFetch
        /\ collected' \in Nat /\ UNCHANGED parts
    BY <1>6 DEF CollectPartition, ExtractInv
  <2>4. \A p \in Fetchers : FetchType(fetch'[p]) /\ FetchOK(fetch'[p], Ids(allRecords'))
    BY <2>2, <2>3, NoFetchOK, FetchOKMonotone DEF ExtractInv
  <2> QED
    BY <2>2, <2>3, <2>4 DEF ExtractInv
<1>7. CASE CollectFails \/ SaveCheckpoint \/ ExtractTimesOut
  BY <1>7 DEF CollectFails, SaveCheckpoint, ExtractTimesOut, ExtractInv
<1>8. CASE ExtractAgain
  BY <1>8, StartCovered, NoFetchOK, ExtractAssumption DEF ExtractAgain, ExtractInv, Ids
<1>9. CASE ExtractPhase
  BY <1>2, <1>3, <1>4, <1>5, <1>6, <1>7, <1>9, FetchStepOK
  DEF ExtractPhase, ExtractNext, ExtractStep
<1>10. CASE [ExtractReturns \/ MapFieldsReturns \/ CoerceTypesReturns
               \/ DeduplicateReturns \/ TransformRetries \/ LoadPhase \/ LoadReturns
               \/ LoadRetries \/ SyncFails \/ Done]_vars
  BY <1>1, <1>10
  DEF ExtractReturns, MapFieldsReturns, CoerceTypesReturns, DeduplicateReturns,
      TransformRetries, LoadPhase, LoadReturns, LoadRetries, SyncFails, Done,
      vars, extractVars
<1> QED
  BY <1>8, <1>9, <1>10 DEF Next, ExtractRetries

(* For any streams, sizes, pages, batches, partitions and failures, the     *)
(* checkpoint ExtractWorkflow returns never passes a record it left out.    *)
THEOREM CheckpointIsCovered == Spec => []CheckpointCovered
<1>1. ExtractInv => CheckpointCovered
  <2> SUFFICES ASSUME ExtractInv, NEW r \in Source,
                      Start[r.stream] < r.id /\ r.id <= currentState[r.stream]
               PROVE  r \in Ids(allRecords)
    BY DEF CheckpointCovered
  <2>1. PICK s \in Streams : \E i \in 1..Size[s] : r = Record(s, i)
    BY DEF Source
  <2>2. PICK i \in 1..Size[s] : r = Record(s, i)
    BY <2>1
  <2>3. r.stream = s /\ r.id = i /\ i \in Nat
    BY <2>2, ExtractAssumption DEF Record
  <2> QED
    BY <2>2, <2>3 DEF ExtractInv, Covered, Backed
<1> QED
  BY <1>1, ExtractInvInit, ExtractInvNext, PTL DEF Spec

-----------------------------------------------------------------------------
(* Any number of discovered streams, any batch size and any limit: the      *)
(* ranges the partitions of ExtractWorkflow are given tile the estimate.    *)
THEOREM PartitionsAreTiled == Spec => []PartitionsTile
<1>1. Init => PartitionsTile
  BY DEF Init, ExtractInit, PartitionsTile
<1>2. PartitionsTile /\ [Next]_vars => PartitionsTile'
  <2> SUFFICES ASSUME PartitionsTile, [Next]_vars
               PROVE  PartitionsTile'
    OBVIOUS
  <2>1. CASE UNCHANGED <<parts, estimate>>
    BY <2>1 DEF PartitionsTile
  <2>2. ASSUME NEW d \in Discovered, DeterminePartitions(d)
        PROVE  PartitionsTile'
    <3>1. estimate' \in Nat /\ parts' = Partitions(estimate')
      BY <2>2, ExtractAssumption DEF DeterminePartitions
    <3>2. Tiles(parts', estimate')
      BY <3>1, PartitionsTileTotal
    <3> QED
      BY <3>2 DEF Tiles, PartitionsTile
  <2>3. CASE ExtractAgain
    BY <2>3 DEF ExtractAgain, PartitionsTile
  <2>4. CASE ExtractPhase
    BY <2>1, <2>2, <2>4
    DEF ExtractPhase, ExtractNext, ExtractStep, DeterminePartitionsFails, FetchStep,
        FetchLost, CollectBatch, CollectPartition, CollectFails, SaveCheckpoint,
        ExtractTimesOut
  <2>5. CASE [ExtractReturns \/ MapFieldsReturns \/ CoerceTypesReturns
               \/ DeduplicateReturns \/ TransformRetries \/ LoadPhase \/ LoadReturns
               \/ LoadRetries \/ SyncFails \/ Done]_vars
    BY <2>1, <2>5
    DEF ExtractReturns, MapFieldsReturns, CoerceTypesReturns, DeduplicateReturns,
        TransformRetries, LoadPhase, LoadReturns, LoadRetries, SyncFails, Done,
        vars, extractVars
  <2> QED
    BY <2>3, <2>4, <2>5 DEF Next, ExtractRetries
<1> QED
  BY <1>1, <1>2, PTL DEF Spec

-----------------------------------------------------------------------------
(* The transform phase.  A record on its way was extracted, and the text of *)
(* its key is that of the activities it has passed.                         *)
Texts == {SourceKey[r] : r \in Recs} \cup {MappedKey[r] : r \in Recs}
            \cup {CoercedKey[r] : r \in Recs}
Items == [stream : Nat, rec : Recs, key : Texts]
Extracted(d) == d.stream = d.rec.stream /\ d.rec \in Ids(allRecords)
MappedText(r) == IF r.stream \in Mapped THEN MappedKey[r] ELSE SourceKey[r]
Holds(ds, r) == \E i \in DOMAIN ds : ds[i].rec = r
SharesText(d, r) == HasKey(d) /\ d.stream = r.stream /\ d.key = KeyText(r)

(* No record is left out without an error, but for those Deduplicate drops  *)
(* for another whose key makes the same text.                               *)
TransformInv ==
    /\ records \in Seq(Items)
    /\ phase \in TransformPhases \cup {"load", "completed"} =>
          wpc = "extracted" /\ \A i \in DOMAIN records : Extracted(records[i])
    /\ phase \in {"extract", "map"} => transformErrors # TRUE
    /\ phase = "map" => \A i \in DOMAIN records : records[i].key = SourceKey[records[i].rec]
    /\ phase = "coerce" => \A i \in DOMAIN records : records[i].key = MappedText(records[i].rec)
    /\ phase = "dedup" => \A i \in DOMAIN records : records[i].key = KeyText(records[i].rec)
    /\ phase \in TransformPhases /\ transformErrors # TRUE =>
          \A r \in Ids(allRecords) : Holds(records, r)
    /\ phase \in {"load", "completed"} /\ transformErrors # TRUE =>
          \A r \in Ids(allRecords) :
              Holds(records, r) \/ \E i \in DOMAIN records : SharesText(records[i], r)
    /\ KeyedLoadedOnce

-----------------------------------------------------------------------------
(* The load phase.  The first g batches of n records are the first          *)
(* UpTo(n, g) of them.                                                      *)
Writes == [pc : {"running", "ok", "err"}, attempt : Nat, count : Nat, errors : BOOLEAN]
UpTo(n, g) == IF g * LoadBatchSize > n THEN n ELSE g * LoadBatchSize

(* Unless a connector counted what it did not store: a write that returned  *)
(* stored as many records as it says, and the total says as many as the     *)
(* batches have only if all of them were stored.                            *)
BatchesInv ==
    /\ toLoad = splitIntoBatches(records) /\ writes \in [DOMAIN toLoad -> Writes]
    /\ gathered \in 0..Len(toLoad)
    /\ \A b \in DOMAIN toLoad : writes[b].pc = "ok" =>
          /\ writes[b].count <= Len(toLoad[b])
          /\ overcounted # TRUE /\ writes[b].count = Len(toLoad[b]) => Ids(toLoad[b]) \subseteq dest
    /\ totalLoaded <= UpTo(Len(records), gathered)
    /\ overcounted # TRUE /\ totalLoaded = UpTo(Len(records), gathered) =>
          \A b \in 1..gathered : Ids(toLoad[b]) \subseteq dest
    /\ lpc = "loaded" =>
          gathered = Len(toLoad) /\ (loadErrors # TRUE => totalLoaded = Len(records))
LoadInv ==
    /\ totalLoaded \in Nat /\ totalLoaded <= Len(records)
    /\ phase \in TransformPhases \cup {"extract"} => totalLoaded = 0
    /\ lpc \in {"idle", "writing", "loaded"} /\ (phase = "completed" => lpc = "loaded")
    /\ phase \in {"load", "completed"} => BatchesInv
    /\ \A d \in dest : d.rec \in Source

-----------------------------------------------------------------------------
(* Everything that is read is of the source, and the channels hold no more  *)
(* than their capacity.                                                     *)
FetchIn(f) ==
    /\ Len(f.chan) <= BatchSize
    /\ f.pc = "emit" => f.left \in Nat \ {0} /\ f.next + f.left <= Size[f.stream] + 1
    /\ \A k \in 1..Len(f.chan) : f.chan[k].type = "record" =>
          f.chan[k].value \in 1..Size[f.chan[k].stream]
    /\ Ids(f.records) \subseteq Source

SourceInv ==
    /\ phase \in TransformPhases \cup {"extract", "load", "completed", "failed"}
    /\ childRun \in 1..MaxChildRuns
    /\ wpc \in {"partition", "fetching", "save", "extracted", "failed"}
    /\ collected <= maxPartitionsLimit /\ batches \in 1..MaxBatches
    /\ Ids(allRecords) \subseteq Source
    /\ \A p \in Fetchers : FetchIn(fetch[p])

-----------------------------------------------------------------------------
(* Induction over the numbers, for sets of them: the least number outside   *)
(* such a set would be the successor of one inside.                         *)
Below == {ss \in Nat \X Nat : ss[1] < ss[2]}
(* There is no infinite descent of numbers.                                 *)
LEMMA BelowIs == IsWellFoundedOn(Below, Nat)
  BY NatLessThanWellFounded DEF OpToRel, Below

(* What has 0 and the successor of each of its numbers has them all.        *)
LEMMA SetInduction ==
  ASSUME NEW S, 0 \in S, \A n \in Nat : n \in S => n + 1 \in S
  PROVE  Nat \subseteq S
<1> DEFINE T == Nat \ S
<1>1. SUFFICES ASSUME T # {} PROVE FALSE
  OBVIOUS
<1>2. T \subseteq Nat
  OBVIOUS
<1> HIDE DEF T
<1>3. PICK x \in T : \A y \in T : ~(<<y, x>> \in Below)
  BY <1>1, <1>2, BelowIs, WFMin, Zenon
<1>4. x \in Nat /\ x \notin S
  BY DEF T
<1>5. x - 1 \in Nat /\ x # 0 /\ x = (x - 1) + 1
  BY <1>4
<1>6. <<x - 1, x>> \in Below
  BY <1>4, <1>5, SMT DEF Below
<1>7. x - 1 \notin T
  BY <1>3, <1>6
<1>8. x - 1 \in S
  BY <1>5, <1>7 DEF T
<1> QED
  BY <1>4, <1>5, <1>8

(* What the loop has put out after n records. *)
Loop(out, ds, kept, m) ==
    out = [n \in 0..m |-> IF n = 0 THEN <<>>
                          ELSE IF n \in kept THEN Append(out[n - 1], ds[n])
                          ELSE out[n - 1]]

(* The recursion of the loop defines a function.                             *)
LEMMA LoopExists ==
  ASSUME NEW ds, NEW kept, NEW m \in Nat
  PROVE  \E out : Loop(out, ds, kept, m)
<1> DEFINE S == {n \in Nat : \E out : Loop(out, ds, kept, n)}
<1>1. 0 \in S
  <2> DEFINE o == [n \in 0..0 |-> <<>>]
  <2>1. Loop(o, ds, kept, 0)
    BY DEF Loop
  <2> QED
    BY <2>1
<1>2. ASSUME NEW n \in Nat, n \in S PROVE n + 1 \in S
  <2>1. PICK out : Loop(out, ds, kept, n)
    BY <1>2
  <2> DEFINE nxt == IF n + 1 \in kept THEN Append(out[n], ds[n + 1]) ELSE out[n]
             o == [i \in 0..(n + 1) |-> IF i = n + 1 THEN nxt ELSE out[i]]
  <2> HIDE DEF nxt
  <2>2. \A i \in 0..n : o[i] = out[i]
    OBVIOUS
  <2>3. o[n + 1] = nxt
    OBVIOUS
  <2>4. \A i \in 0..n : out[i] = IF i = 0 THEN <<>> ELSE IF i \in kept THEN Append(out[i - 1], ds[i]) ELSE out[i - 1]
    BY <2>1 DEF Loop
  <2>5. \A i \in 0..(n + 1) : o[i] = IF i = 0 THEN <<>> ELSE IF i \in kept THEN Append(o[i - 1], ds[i]) ELSE o[i - 1]
    <3> SUFFICES ASSUME NEW i \in 0..(n + 1) PROVE o[i] = IF i = 0 THEN <<>> ELSE IF i \in kept THEN Append(o[i - 1], ds[i]) ELSE o[i - 1]
      OBVIOUS
    <3> HIDE DEF o
    <3>1. CASE i = n + 1
      <4>1. o[i - 1] = out[n] /\ i # 0
        BY <2>2, <3>1
      <4> QED
        BY <4>1, <2>3, <3>1 DEF nxt
    <3>2. CASE i = 0
      BY <2>2, <2>4, <3>2
    <3>3. CASE i \in 1..n
      <4>1. o[i] = out[i] /\ o[i - 1] = out[i - 1] /\ i # 0
        BY <2>2, <3>3
      <4>2. out[i] = IF i \in kept THEN Append(out[i - 1], ds[i]) ELSE out[i - 1]
        BY <2>4, <3>3
      <4> QED
        BY <4>1, <4>2
    <3> QED
      BY <3>1, <3>2, <3>3
  <2>6. o = [i \in 0..(n + 1) |-> o[i]]
    OBVIOUS
  <2> HIDE DEF o
  <2>7. o = [i \in 0..(n + 1) |-> IF i = 0 THEN <<>> ELSE IF i \in kept THEN Append(o[i - 1], ds[i]) ELSE o[i - 1]]
    BY <2>5, <2>6
  <2> QED
    BY <2>7 DEF Loop
<1> HIDE DEF S
<1>3. Nat \subseteq S
  BY <1>1, <1>2, SetInduction
<1> QED
  BY <1>3 DEF S

(* AppendKept is what the loop has at its end.                               *)
LEMMA AppendKeptIs ==
  ASSUME NEW ds, NEW kept, Len(ds) \in Nat
  PROVE  \E out : Loop(out, ds, kept, Len(ds)) /\ AppendKept(ds, kept) = out[Len(ds)]
<1> DEFINE c == CHOOSE out : Loop(out, ds, kept, Len(ds))
<1>1. Loop(c, ds, kept, Len(ds))
  BY LoopExists, Zenon
<1>2. AppendKept(ds, kept) = c[Len(ds)]
  BY DEF AppendKept, Loop
<1> QED
  BY <1>1, <1>2, Zenon

(* The records at the positions kept, up to n, in their order, are o. *)
PickedUpTo(o, ds, kept, n) ==
    \E f \in [1..Len(o) -> {i \in kept : 1 <= i /\ i <= n}] :
        /\ \A k \in 1..Len(o) : o[k] = ds[f[k]]
        /\ \A k, l \in 1..Len(o) : k < l => f[k] < f[l]
        /\ \A i \in kept : 1 <= i /\ i <= n => \E k \in 1..Len(o) : f[k] = i

(* One more record is kept.                                                  *)
LEMMA PickedMore ==
  ASSUME NEW D, NEW ds \in Seq(D), NEW kept \in SUBSET Nat, NEW n \in Nat, n + 1 \in 1..Len(ds),
         n + 1 \in kept, NEW o \in Seq(D), PickedUpTo(o, ds, kept, n)
  PROVE  Append(o, ds[n + 1]) \in Seq(D) /\ PickedUpTo(Append(o, ds[n + 1]), ds, kept, n + 1)
<1>1. PICK f \in [1..Len(o) -> {i \in kept : 1 <= i /\ i <= n}] :
        /\ \A k \in 1..Len(o) : o[k] = ds[f[k]]
        /\ \A k, l \in 1..Len(o) : k < l => f[k] < f[l]
        /\ \A i \in kept : 1 <= i /\ i <= n => \E k \in 1..Len(o) : f[k] = i
  BY DEF PickedUpTo
<1>2. PICK a : a = Append(o, ds[n + 1])
  OBVIOUS
<1>3. PICK z : z = Len(o)
  OBVIOUS
<1>4. ds[n + 1] \in D
  OBVIOUS
<1>5. /\ z \in Nat /\ a \in Seq(D) /\ Len(a) = z + 1 /\ a[z + 1] = ds[n + 1]
      /\ \A k \in 1..z : a[k] = o[k]
  BY <1>2, <1>3, <1>4
<1> DEFINE g == [k \in 1..(z + 1) |-> IF k = z + 1 THEN n + 1 ELSE f[k]]
<1>6. /\ \A k \in 1..z : f[k] \in kept /\ f[k] \in Nat /\ 1 <= f[k] /\ f[k] <= n
  BY <1>1, <1>3
<1>7. g[z + 1] = n + 1 /\ \A k \in 1..z : g[k] = f[k]
  BY <1>5
<1>8. g \in [1..(z + 1) -> {i \in kept : 1 <= i /\ i <= n + 1}]
  BY <1>5, <1>6
<1> HIDE DEF g
<1>9. \A k \in 1..(z + 1) : k = z + 1 \/ k \in 1..z
  BY <1>5
<1>10. \A k \in 1..(z + 1) : a[k] = ds[g[k]]
  BY <1>1, <1>3, <1>5, <1>7, <1>9
<1>11. \A k, l \in 1..(z + 1) : k < l => g[k] < g[l]
  <2> SUFFICES ASSUME NEW k \in 1..(z + 1), NEW l \in 1..(z + 1), k < l PROVE g[k] < g[l]
    OBVIOUS
  <2>1. k \in 1..z /\ f[k] \in Nat /\ f[k] <= n /\ g[k] = f[k]
    BY <1>5, <1>6, <1>7
  <2>2. CASE l = z + 1
    BY <1>7, <2>1, <2>2
  <2>3. CASE l # z + 1
    <3>1. l \in 1..z /\ g[l] = f[l]
      BY <1>7, <1>9, <2>3
    <3> QED
      BY <1>1, <1>3, <2>1, <3>1
  <2> QED
    BY <2>2, <2>3
<1>12. ASSUME NEW i \in kept, 1 <= i, i <= n + 1 PROVE \E k \in 1..(z + 1) : g[k] = i
  <2>1. CASE i = n + 1
    BY <1>5, <1>7, <2>1
  <2>2. CASE i # n + 1
    <3>1. i <= n
      BY <1>12, <2>2
    <3>2. PICK k \in 1..z : f[k] = i
      BY <1>1, <1>3, <1>12, <3>1
    <3>3. k \in 1..(z + 1) /\ g[k] = i
      BY <1>5, <1>7, <3>2
    <3> QED
      BY <3>3, Zenon
  <2> QED
    BY <2>1, <2>2
<1>13. PickedUpTo(a, ds, kept, n + 1)
  <2>1. \A i \in kept : 1 <= i /\ i <= n + 1 => \E k \in 1..Len(a) : g[k] = i
    BY <1>5, <1>12, Zenon
  <2>2. g \in [1..Len(a) -> {i \in kept : 1 <= i /\ i <= n + 1}]
    BY <1>5, <1>8, Zenon
  <2>3. /\ \A k \in 1..Len(a) : a[k] = ds[g[k]]
        /\ \A k, l \in 1..Len(a) : k < l => g[k] < g[l]
    BY <1>5, <1>10, <1>11, Zenon
  <2> QED
    BY <2>1, <2>2, <2>3, Zenon DEF PickedUpTo
<1> QED
  BY <1>2, <1>5, <1>13

(* One more record is left out.                                              *)
LEMMA PickedSame ==
  ASSUME NEW D, NEW ds \in Seq(D), NEW kept \in SUBSET Nat, NEW n \in Nat, 
         n + 1 \notin kept, NEW o \in Seq(D), PickedUpTo(o, ds, kept, n)
  PROVE  PickedUpTo(o, ds, kept, n + 1)
<1>2. \A i \in kept : i <= n + 1 <=> i <= n
  OBVIOUS
<1>1. {i \in kept : 1 <= i /\ i <= n} = {i \in kept : 1 <= i /\ i <= n + 1}
  BY <1>2, Zenon
<1> QED
  BY <1>1, <1>2 DEF PickedUpTo

(* AppendKept returns the records at the positions kept, in their order.     *)
LEMMA Picked ==
  ASSUME NEW D, NEW ds \in Seq(D), NEW kept \in SUBSET Nat
  PROVE  AppendKept(ds, kept) \in Seq(D) /\ PickedUpTo(AppendKept(ds, kept), ds, kept, Len(ds))
<1>1. PICK out : Loop(out, ds, kept, Len(ds)) /\ AppendKept(ds, kept) = out[Len(ds)]
  BY AppendKeptIs
<1> DEFINE S == {n \in Nat : n <= Len(ds) => out[n] \in Seq(D) /\ PickedUpTo(out[n], ds, kept, n)}
<1>2. PICK z : z = Len(ds) /\ z \in Nat
  OBVIOUS
<1>3. \A n \in 0..z : out[n] = IF n = 0 THEN <<>>
                          ELSE IF n \in kept THEN Append(out[n - 1], ds[n]) ELSE out[n - 1]
  BY <1>1, <1>2 DEF Loop
<1>4. 0 \in S
  <2>1. out[0] = <<>>
    BY <1>2, <1>3
  <2>2. <<>> \in Seq(D) /\ Len(<<>>) = 0
    OBVIOUS
  <2>3. PickedUpTo(<<>>, ds, kept, 0)
    <3>0. \A i \in kept : ~(1 <= i /\ i <= 0)
      OBVIOUS
    <3>1. {i \in kept : 1 <= i /\ i <= 0} = {} /\ 1..0 = {}
      <4>1. {i \in kept : 1 <= i /\ i <= 0} = {}
        BY <3>0, Zenon
      <4>2. 1..0 = {}
        OBVIOUS
      <4> QED
        BY <4>1, <4>2
    <3> DEFINE f == [k \in {} |-> 0]
    <3>2. f \in [1..Len(<<>>) -> {i \in kept : 1 <= i /\ i <= 0}]
      BY <2>2, <3>1
    <3> HIDE DEF f
    <3>3. /\ \A k \in 1..Len(<<>>) : <<>>[k] = ds[f[k]]
          /\ \A k, l \in 1..Len(<<>>) : k < l => f[k] < f[l]
          /\ \A i \in kept : 1 <= i /\ i <= 0 => \E k \in 1..Len(<<>>) : f[k] = i
      BY <2>2, <3>1
    <3> QED
      BY <3>2, <3>3 DEF PickedUpTo
  <2> QED
    BY <2>1, <2>2, <2>3
<1>5. ASSUME NEW n \in Nat, n \in S PROVE n + 1 \in S
  <2> SUFFICES ASSUME n + 1 <= Len(ds)
               PROVE  out[n + 1] \in Seq(D) /\ PickedUpTo(out[n + 1], ds, kept, n + 1)
    OBVIOUS
  <2>1. n + 1 \in 1..Len(ds) /\ n <= Len(ds)
    BY <1>2
  <2>2. out[n] \in Seq(D) /\ PickedUpTo(out[n], ds, kept, n)
    BY <1>5, <2>1
  <2>3. out[n + 1] = IF n + 1 \in kept THEN Append(out[n], ds[n + 1]) ELSE out[n]
    BY <1>2, <1>3, <2>1
  <2>4. CASE n + 1 \in kept
    BY <2>1, <2>2, <2>3, <2>4, PickedMore
  <2>5. CASE n + 1 \notin kept
    BY <2>2, <2>3, <2>5, PickedSame
  <2> QED
    BY <2>4, <2>5
<1> HIDE DEF S
<1>6. Nat \subseteq S
  BY <1>4, <1>5, SetInduction
<1>7. out[z] \in Seq(D) /\ PickedUpTo(out[z], ds, kept, z)
  BY <1>2, <1>6 DEF S
<1> QED
  BY <1>1, <1>2, <1>7

(* MapFieldsActivity leaves no record out without an error, and what it     *)
(* returns has the key that the mappings make.                              *)
LEMMA MapFieldsKeeps ==
  ASSUME NEW ds \in Seq(Items),
         \A i \in DOMAIN ds : ds[i].stream = ds[i].rec.stream /\ ds[i].key = SourceKey[ds[i].rec]
  PROVE  /\ MapFields(ds) \in Seq(Items)
         /\ \A k \in DOMAIN MapFields(ds) :
               /\ MapFields(ds)[k].key = MappedText(MapFields(ds)[k].rec)
               /\ \E i \in DOMAIN ds : /\ MapFields(ds)[k].rec = ds[i].rec
                                       /\ MapFields(ds)[k].stream = ds[i].stream
         /\ ~MapErrors(ds) => \A i \in DOMAIN ds : Holds(MapFields(ds), ds[i].rec)
<1>1. PICK m : m = Moved(ds)
  OBVIOUS
<1>2. PICK kept : kept = {i \in DOMAIN ds : Mappable(ds[i])}
  OBVIOUS
<1>3. PICK z : z = Len(ds) /\ z \in Nat /\ DOMAIN ds = 1..z
  OBVIOUS
<1>4. \A i \in 1..z : ds[i] \in Items
  BY <1>3
<1>5. /\ DOMAIN m = 1..z
      /\ \A i \in 1..z : m[i] = [ds[i] EXCEPT !.key = IF ds[i].stream \in Mapped
                                                      THEN MappedKey[ds[i].rec] ELSE ds[i].key]
  BY <1>1, <1>3 DEF Moved
<1>6. ASSUME NEW i \in 1..z
      PROVE  /\ m[i] \in Items /\ m[i].key = MappedText(m[i].rec)
             /\ m[i].rec = ds[i].rec /\ m[i].stream = ds[i].stream
  <2>1. PICK t : t = MappedText(ds[i].rec)
    OBVIOUS
  <2>2. t = IF ds[i].stream \in Mapped THEN MappedKey[ds[i].rec] ELSE ds[i].key
    BY <1>3, <2>1 DEF MappedText
  <2>3. m[i] = [ds[i] EXCEPT !.key = t] /\ ds[i] \in Items
    BY <1>4, <1>5, <2>2
  <2>4. ds[i].rec \in Recs
    BY <2>3 DEF Items
  <2>5. t \in Texts
    BY <2>1, <2>4 DEF Texts, MappedText
  <2>6. /\ m[i] \in Items /\ m[i].key = t /\ m[i].rec = ds[i].rec /\ m[i].stream = ds[i].stream
    BY <2>3, <2>5 DEF Items
  <2> QED
    BY <2>1, <2>6
<1>7. m \in Seq(Items) /\ Len(m) = z
  <2>1. \E n \in Nat : DOMAIN m = 1..n
    BY <1>3, <1>5
  <2>2. m = [i \in 1..z |-> m[i]]
    BY <1>1, <1>3, <1>5 DEF Moved
  <2>3. m \in [1..z -> Items]
    BY <1>6, <2>2
  <2> QED
    BY <1>3, <2>3
<1>8. kept \in SUBSET Nat /\ kept \subseteq 1..z
  BY <1>2, <1>3
<1>9. PICK o : o = AppendKept(m, kept)
  OBVIOUS
<1>10. o \in Seq(Items) /\ PickedUpTo(o, m, kept, z)
  BY <1>7, <1>8, <1>9, Picked
<1>11. PICK f \in [1..Len(o) -> {i \in kept : 1 <= i /\ i <= z}] :
        /\ \A k \in 1..Len(o) : o[k] = m[f[k]]
        /\ \A i \in kept : 1 <= i /\ i <= z => \E k \in 1..Len(o) : f[k] = i
  BY <1>10 DEF PickedUpTo
<1>12. DOMAIN o = 1..Len(o) /\ \A k \in 1..Len(o) : f[k] \in 1..z
  <2>1. DOMAIN o = 1..Len(o)
    BY <1>10
  <2>2. \A k \in 1..Len(o) : f[k] \in kept
    OBVIOUS
  <2> QED
    BY <1>8, <2>1, <2>2, Zenon
<1>13. \A k \in DOMAIN o : /\ o[k].key = MappedText(o[k].rec)
                           /\ \E i \in DOMAIN ds : o[k].rec = ds[i].rec /\ o[k].stream = ds[i].stream
  <2> SUFFICES ASSUME NEW k \in 1..Len(o)
               PROVE  /\ o[k].key = MappedText(o[k].rec)
                      /\ \E i \in DOMAIN ds : o[k].rec = ds[i].rec /\ o[k].stream = ds[i].stream
    BY <1>12, Zenon
  <2>1. f[k] \in 1..z /\ o[k] = m[f[k]]
    BY <1>11, <1>12, Zenon
  <2> QED
    BY <1>3, <1>6, <2>1, Zenon
<1>14. ASSUME ~MapErrors(ds), NEW i \in DOMAIN ds PROVE Holds(o, ds[i].rec)
  <2>1. i \in kept /\ 1 <= i /\ i <= z /\ i \in 1..z
    BY <1>2, <1>3, <1>14 DEF MapErrors
  <2>2. PICK k \in 1..Len(o) : f[k] = i
    BY <1>11, <2>1
  <2>3. o[k].rec = ds[i].rec /\ k \in DOMAIN o
    BY <1>6, <1>11, <1>12, <2>1, <2>2
  <2> QED
    BY <2>3 DEF Holds
<1>15. MapFields(ds) = o
  BY <1>1, <1>2, <1>9, Zenon DEF MapFields
<1> QED
  BY <1>10, <1>13, <1>14, <1>15

(* CoerceTypesActivity leaves no record out without an error, and what it   *)
(* returns has the key that the coercions make.                             *)
LEMMA CoerceTypesKeeps ==
  ASSUME NEW ds \in Seq(Items),
         \A i \in DOMAIN ds : ds[i].stream = ds[i].rec.stream /\ ds[i].key = MappedText(ds[i].rec)
  PROVE  /\ CoerceTypes(ds) \in Seq(Items)
         /\ \A k \in DOMAIN CoerceTypes(ds) :
               /\ CoerceTypes(ds)[k].key = KeyText(CoerceTypes(ds)[k].rec)
               /\ \E i \in DOMAIN ds : /\ CoerceTypes(ds)[k].rec = ds[i].rec
                                       /\ CoerceTypes(ds)[k].stream = ds[i].stream
         /\ ~CoerceErrors(ds) => \A i \in DOMAIN ds : Holds(CoerceTypes(ds), ds[i].rec)
<1>1. PICK m : m = Converted(ds)
  OBVIOUS
<1>2. PICK kept : kept = {i \in DOMAIN ds : Coercible(ds[i])}
  OBVIOUS
<1>3. PICK z : z = Len(ds) /\ z \in Nat /\ DOMAIN ds = 1..z
  OBVIOUS
<1>4. \A i \in 1..z : ds[i] \in Items
  BY <1>3
<1>5. /\ DOMAIN m = 1..z
      /\ \A i \in 1..z : m[i] = [ds[i] EXCEPT !.key = IF ds[i].stream \in Coerced
                                                      THEN CoercedKey[ds[i].rec] ELSE ds[i].key]
  BY <1>1, <1>3 DEF Converted
<1>6. ASSUME NEW i \in 1..z
      PROVE  /\ m[i] \in Items /\ m[i].key = KeyText(m[i].rec)
             /\ m[i].rec = ds[i].rec /\ m[i].stream = ds[i].stream
  <2>1. PICK t : t = KeyText(ds[i].rec)
    OBVIOUS
  <2>2. t = IF ds[i].stream \in Coerced THEN CoercedKey[ds[i].rec] ELSE ds[i].key
    BY <1>3, <2>1 DEF KeyText, MappedText
  <2>3. m[i] = [ds[i] EXCEPT !.key = t] /\ ds[i] \in Items
    BY <1>4, <1>5, <2>2
  <2>4. ds[i].rec \in Recs
    BY <2>3 DEF Items
  <2>5. t \in Texts
    BY <2>1, <2>4 DEF Texts, KeyText
  <2>6. /\ m[i] \in Items /\ m[i].key = t /\ m[i].rec = ds[i].rec /\ m[i].stream = ds[i].stream
    BY <2>3, <2>5 DEF Items
  <2> QED
    BY <2>1, <2>6
<1>7. m \in Seq(Items) /\ Len(m) = z
  <2>1. \E n \in Nat : DOMAIN m = 1..n
    BY <1>3, <1>5
  <2>2. m = [i \in 1..z |-> m[i]]
    BY <1>1, <1>3, <1>5 DEF Converted
  <2>3. m \in [1..z -> Items]
    BY <1>6, <2>2
  <2> QED
    BY <1>3, <2>3
<1>8. kept \in SUBSET Nat /\ kept \subseteq 1..z
  BY <1>2, <1>3
<1>9. PICK o : o = AppendKept(m, kept)
  OBVIOUS
<1>10. o \in Seq(Items) /\ PickedUpTo(o, m, kept, z)
  BY <1>7, <1>8, <1>9, Picked
<1>11. PICK f \in [1..Len(o) -> {i \in kept : 1 <= i /\ i <= z}] :
        /\ \A k \in 1..Len(o) : o[k] = m[f[k]]
        /\ \A i \in kept : 1 <= i /\ i <= z => \E k \in 1..Len(o) : f[k] = i
  BY <1>10 DEF PickedUpTo
<1>12. DOMAIN o = 1..Len(o) /\ \A k \in 1..Len(o) : f[k] \in 1..z
  <2>1. DOMAIN o = 1..Len(o)
    BY <1>10
  <2>2. \A k \in 1..Len(o) : f[k] \in kept
    OBVIOUS
  <2> QED
    BY <1>8, <2>1, <2>2, Zenon
<1>13. \A k \in DOMAIN o : /\ o[k].key = KeyText(o[k].rec)
                           /\ \E i \in DOMAIN ds : o[k].rec = ds[i].rec /\ o[k].stream = ds[i].stream
  <2> SUFFICES ASSUME NEW k \in 1..Len(o)
               PROVE  /\ o[k].key = KeyText(o[k].rec)
                      /\ \E i \in DOMAIN ds : o[k].rec = ds[i].rec /\ o[k].stream = ds[i].stream
    BY <1>12, Zenon
  <2>1. f[k] \in 1..z /\ o[k] = m[f[k]]
    BY <1>11, <1>12, Zenon
  <2> QED
    BY <1>3, <1>6, <2>1, Zenon
<1>14. ASSUME ~CoerceErrors(ds), NEW i \in DOMAIN ds PROVE Holds(o, ds[i].rec)
  <2>0. Coercible(ds[i])
    BY <1>14 DEF CoerceErrors, Coercible
  <2>1. i \in kept /\ 1 <= i /\ i <= z /\ i \in 1..z
    BY <1>2, <1>3, <2>0
  <2>2. PICK k \in 1..Len(o) : f[k] = i
    BY <1>11, <2>1
  <2>3. o[k].rec = ds[i].rec /\ k \in DOMAIN o
    BY <1>6, <1>11, <1>12, <2>1, <2>2
  <2> QED
    BY <2>3 DEF Holds
<1>15. CoerceTypes(ds) = o
  BY <1>1, <1>2, <1>9, Zenon DEF CoerceTypes
<1> QED
  BY <1>10, <1>13, <1>14, <1>15

(* The first of the records with a key is not seen.                         *)
LEMMA FirstUnseen ==
  ASSUME NEW ds \in Seq(Items), NEW i \in DOMAIN ds, HasKey(ds[i])
  PROVE  \E j \in DOMAIN ds : ~Seen(ds, j) /\ SameKey(ds[j], ds[i])
<1>1. PICK z : z = Len(ds) /\ z \in Nat /\ DOMAIN ds = 1..z
  OBVIOUS
<1> DEFINE First(n) == \E j \in 1..z : ~Seen(ds, j) /\ SameKey(ds[j], ds[n])
           S == {n \in Nat : \A k \in 1..z : k <= n /\ HasKey(ds[k]) => First(k)}
<1>2. 0 \in S
  BY <1>1
<1>3. ASSUME NEW n \in Nat, n \in S PROVE n + 1 \in S
  <2> SUFFICES ASSUME NEW k \in 1..z, k <= n + 1, HasKey(ds[k]) PROVE First(k)
    BY DEF S
  <2>1. CASE k <= n
    BY <1>3, <2>1
  <2>2. CASE ~Seen(ds, k)
    BY <2>2 DEF SameKey
  <2>3. CASE k = n + 1 /\ Seen(ds, k)
    <3>1. PICK j \in 1..(k - 1) : HasKey(ds[j]) /\ SameKey(ds[j], ds[k])
      BY <2>3 DEF Seen
    <3>2. j \in 1..z /\ j <= n
      BY <1>1, <2>3
    <3>3. First(j)
      BY <1>3, <3>1, <3>2
    <3> QED
      BY <3>1, <3>3 DEF SameKey
  <2> QED
    BY <2>1, <2>2, <2>3
<1> HIDE DEF S
<1>4. Nat \subseteq S
  BY <1>2, <1>3, SetInduction
<1>5. i \in 1..z /\ i \in Nat /\ i <= i
  BY <1>1
<1> QED
  BY <1>1, <1>4, <1>5 DEF S

(* DeduplicateActivity returns no key twice, and every key.                 *)
LEMMA DeduplicateKeeps ==
  ASSUME NEW ds \in Seq(Items)
  PROVE  /\ Deduplicate(ds) \in Seq(Items)
         /\ \A k \in DOMAIN Deduplicate(ds) : \E i \in DOMAIN ds : Deduplicate(ds)[k] = ds[i]
         /\ \A k, l \in DOMAIN Deduplicate(ds) :
               /\ HasKey(Deduplicate(ds)[k]) /\ HasKey(Deduplicate(ds)[l])
               /\ SameKey(Deduplicate(ds)[k], Deduplicate(ds)[l])
               => k = l
         /\ \A i \in DOMAIN ds : \E k \in DOMAIN Deduplicate(ds) :
               \/ Deduplicate(ds)[k] = ds[i]
               \/ HasKey(ds[i]) /\ SameKey(Deduplicate(ds)[k], ds[i])
<1>1. PICK kept : kept = {i \in DOMAIN ds : ~Seen(ds, i)}
  OBVIOUS
<1>2. PICK z : z = Len(ds) /\ z \in Nat /\ DOMAIN ds = 1..z
  OBVIOUS
<1>3. kept \in SUBSET Nat /\ kept \subseteq 1..z
  BY <1>1, <1>2
<1>4. PICK o : o = AppendKept(ds, kept)
  OBVIOUS
<1>5. o \in Seq(Items) /\ PickedUpTo(o, ds, kept, z)
  BY <1>2, <1>3, <1>4, Picked
<1>6. PICK f \in [1..Len(o) -> {i \in kept : 1 <= i /\ i <= z}] :
        /\ \A k \in 1..Len(o) : o[k] = ds[f[k]]
        /\ \A k, l \in 1..Len(o) : k < l => f[k] < f[l]
        /\ \A i \in kept : 1 <= i /\ i <= z => \E k \in 1..Len(o) : f[k] = i
  BY <1>5 DEF PickedUpTo
<1>7. DOMAIN o = 1..Len(o) /\ Len(o) \in Nat /\ \A k \in 1..Len(o) : f[k] \in 1..z /\ f[k] \in kept
  <2>1. DOMAIN o = 1..Len(o) /\ Len(o) \in Nat
    BY <1>5
  <2>2. \A k \in 1..Len(o) : f[k] \in kept
    OBVIOUS
  <2> QED
    BY <1>3, <2>1, <2>2, Zenon
<1>8. \A k \in DOMAIN o : \E i \in DOMAIN ds : o[k] = ds[i]
  BY <1>2, <1>6, <1>7
<1>9. ASSUME NEW k \in 1..Len(o), NEW l \in 1..Len(o), k < l,
             HasKey(o[k]), HasKey(o[l]), SameKey(o[k], o[l])
      PROVE  FALSE
  <2>1. f[k] \in 1..(f[l] - 1)
    BY <1>6, <1>7, <1>9
  <2>2. Seen(ds, f[l])
    BY <1>6, <1>9, <2>1 DEF Seen
  <2> QED
    BY <1>1, <1>7, <2>2
<1>10. \A k, l \in DOMAIN o : HasKey(o[k]) /\ HasKey(o[l]) /\ SameKey(o[k], o[l]) => k = l
  <2> SUFFICES ASSUME NEW k \in 1..Len(o), NEW l \in 1..Len(o),
                      HasKey(o[k]), HasKey(o[l]), SameKey(o[k], o[l])
               PROVE  k = l
    BY <1>7
  <2>1. SameKey(o[l], o[k])
    BY DEF SameKey
  <2>2. k < l \/ l < k \/ k = l
    BY <1>7
  <2> QED
    BY <1>9, <2>1, <2>2
<1>11. ASSUME NEW i \in DOMAIN ds
       PROVE  \E k \in DOMAIN o : o[k] = ds[i] \/ (HasKey(ds[i]) /\ SameKey(o[k], ds[i]))
  <2>1. ASSUME NEW j \in kept PROVE \E k \in DOMAIN o : o[k] = ds[j]
    <3>1. 1 <= j /\ j <= z
      BY <1>3
    <3>2. PICK k \in 1..Len(o) : f[k] = j
      BY <1>6, <3>1
    <3> QED
      BY <1>6, <1>7, <3>2
  <2>2. CASE ~Seen(ds, i)
    BY <1>1, <2>1, <2>2
  <2>3. CASE Seen(ds, i)
    <3>1. HasKey(ds[i])
      BY <2>3 DEF Seen
    <3>2. PICK j \in DOMAIN ds : ~Seen(ds, j) /\ SameKey(ds[j], ds[i])
      BY <3>1, FirstUnseen
    <3>3. PICK k \in DOMAIN o : o[k] = ds[j]
      BY <1>1, <2>1, <3>2
    <3> QED
      BY <3>1, <3>2, <3>3
  <2> QED
    BY <2>2, <2>3
<1>12. Deduplicate(ds) = o
  BY <1>1, <1>4, Zenon DEF Deduplicate
<1> QED
  BY <1>5, <1>8, <1>10, <1>11, <1>12

(* The records the transform phase begins with are those extracted.         *)
LEMMA TransformInIs ==
  ASSUME NEW recs \in Seq(Recs)
  PROVE  /\ TransformIn(recs) \in Seq(Items) /\ DOMAIN TransformIn(recs) = DOMAIN recs
         /\ \A i \in DOMAIN recs : /\ TransformIn(recs)[i].rec = recs[i]
                                   /\ TransformIn(recs)[i].stream = recs[i].stream
                                   /\ TransformIn(recs)[i].key = SourceKey[recs[i]]
<1>1. PICK m : m = TransformIn(recs)
  OBVIOUS
<1>2. PICK z : z = Len(recs) /\ z \in Nat /\ DOMAIN recs = 1..z
  OBVIOUS
<1>3. m = [i \in 1..z |-> [stream |-> recs[i].stream, rec |-> recs[i],
                            key |-> SourceKey[recs[i]]]]
  BY <1>1, <1>2 DEF TransformIn, Data
<1>4. ASSUME NEW i \in 1..z
      PROVE  /\ m[i] \in Items /\ m[i].rec = recs[i] /\ m[i].stream = recs[i].stream
             /\ m[i].key = SourceKey[recs[i]]
  <2>0. recs[i] \in Recs
    BY <1>2
  <2>1. recs[i] \in Recs /\ recs[i].stream \in Nat
    BY <2>0 DEF Recs
  <2>2. PICK t : t = SourceKey[recs[i]]
    OBVIOUS
  <2>3. t \in Texts
    BY <2>0, <2>2 DEF Texts
  <2>4. m[i] = [stream |-> recs[i].stream, rec |-> recs[i], key |-> t]
    BY <1>3, <2>2
  <2>5. m[i] \in Items /\ m[i].rec = recs[i] /\ m[i].stream = recs[i].stream /\ m[i].key = t
    BY <2>1, <2>3, <2>4 DEF Items
  <2> QED
    BY <2>2, <2>5
<1>5. m \in Seq(Items) /\ DOMAIN m = 1..z
  <2>1. DOMAIN m = 1..z /\ m = [i \in 1..z |-> m[i]]
    BY <1>3
  <2>2. m \in [1..z -> Items]
    BY <1>4, <2>1
  <2> QED
    BY <1>2, <2>1, <2>2
<1> QED
  BY <1>1, <1>2, <1>4, <1>5

(* A transform phase that begins, or begins again.                          *)
LEMMA TransformBegins ==
  ASSUME ExtractInv, UNCHANGED <<wpc, allRecords>>, wpc = "extracted", phase' = "map",
         records' = TransformIn(allRecords), transformErrors' # TRUE
  PROVE  TransformInv'
<1>1. allRecords \in Seq(Recs)
  BY DEF ExtractInv
<1>2. /\ records' \in Seq(Items) /\ DOMAIN records' = DOMAIN allRecords
      /\ \A i \in DOMAIN allRecords : /\ records'[i].rec = allRecords[i]
                                      /\ records'[i].stream = allRecords[i].stream
                                      /\ records'[i].key = SourceKey[allRecords[i]]
  BY <1>1, TransformInIs
<1>3. \A i \in DOMAIN records' : Extracted(records[i])'
  BY <1>2 DEF Extracted, Ids
<1>4. \A r \in Ids(allRecords)' : Holds(records', r)
  BY <1>2 DEF Ids, Holds
<1> QED
  BY <1>2, <1>3, <1>4 DEF TransformInv, KeyedLoadedOnce

(* The records after an activity are among those before it.                 *)
LEMMA MapFieldsInv ==
  ASSUME TransformInv, MapFieldsReturns
  PROVE  TransformInv'
<1>1. /\ phase = "map" /\ phase' = "coerce" /\ UNCHANGED <<wpc, allRecords>>
      /\ records \in Seq(Items) /\ wpc = "extracted" /\ transformErrors # TRUE
      /\ \A i \in DOMAIN records : Extracted(records[i]) /\ records[i].key = SourceKey[records[i].rec]
      /\ \A r \in Ids(allRecords) : Holds(records, r)
  BY DEF MapFieldsReturns, TransformInv, TransformPhases, extractVars
<1>2. CASE Mapped = {}
  <2>1. records' = records /\ transformErrors' = transformErrors
    BY <1>2 DEF MapFieldsReturns
  <2>2. \A i \in DOMAIN records' : records'[i].key = MappedText(records'[i].rec)
    BY <1>1, <1>2, <2>1 DEF MappedText
  <2>3. \A i \in DOMAIN records' : Extracted(records[i])'
    BY <1>1, <2>1 DEF Extracted
  <2> QED
    BY <1>1, <2>1, <2>2, <2>3 DEF TransformInv, KeyedLoadedOnce
<1>3. CASE Mapped # {}
  <2>1. records' = MapFields(records) /\ transformErrors' = MapErrors(records)
    BY <1>3 DEF MapFieldsReturns
  <2>2. /\ records' \in Seq(Items)
        /\ \A k \in DOMAIN records' :
              /\ records'[k].key = MappedText(records'[k].rec)
              /\ \E i \in DOMAIN records : /\ records'[k].rec = records[i].rec
                                           /\ records'[k].stream = records[i].stream
        /\ ~MapErrors(records) => \A i \in DOMAIN records : Holds(records', records[i].rec)
    BY <1>1, <2>1, MapFieldsKeeps DEF Extracted
  <2>3. transformErrors' # TRUE => ~MapErrors(records)
    BY <2>1, Zenon DEF MapErrors
  <2>4. \A k \in DOMAIN records' : Extracted(records[k])'
    BY <1>1, <2>2 DEF Extracted
  <2>5. transformErrors' # TRUE => \A r \in Ids(allRecords)' : Holds(records', r)
    <3> SUFFICES ASSUME transformErrors' # TRUE, NEW r \in Ids(allRecords)'
                 PROVE  Holds(records', r)
      OBVIOUS
    <3>1. r \in Ids(allRecords)
      BY <1>1 DEF Ids
    <3>2. PICK i \in DOMAIN records : records[i].rec = r
      BY <1>1, <2>3, <3>1 DEF Holds
    <3> QED
      BY <2>2, <2>3, <3>2
  <2> QED
    BY <1>1, <2>2, <2>4, <2>5 DEF TransformInv, KeyedLoadedOnce
<1> QED
  BY <1>2, <1>3

(* CoerceTypes keeps the records, or reports that it left some out.         *)
LEMMA CoerceTypesInv ==
  ASSUME TransformInv, CoerceTypesReturns
  PROVE  TransformInv'
<1>1. /\ phase = "coerce" /\ phase' = "dedup" /\ UNCHANGED <<wpc, allRecords>>
      /\ records \in Seq(Items) /\ wpc = "extracted"
      /\ \A i \in DOMAIN records : Extracted(records[i]) /\ records[i].key = MappedText(records[i].rec)
      /\ transformErrors # TRUE => \A r \in Ids(allRecords) : Holds(records, r)
  BY DEF CoerceTypesReturns, TransformInv, TransformPhases, extractVars
<1>2. CASE Coerced = {}
  <2>1. records' = records /\ transformErrors' = transformErrors
    BY <1>2 DEF CoerceTypesReturns
  <2>2. \A i \in DOMAIN records' : Extracted(records[i])' /\ records'[i].key = KeyText(records'[i].rec)
    BY <1>1, <1>2, <2>1 DEF Extracted, MappedText, KeyText
  <2> QED
    BY <1>1, <2>1, <2>2 DEF TransformInv, KeyedLoadedOnce
<1>3. CASE Coerced # {}
  <2>1. records' = CoerceTypes(records) /\ transformErrors' = (transformErrors \/ CoerceErrors(records))
    BY <1>3 DEF CoerceTypesReturns
  <2>2. /\ records' \in Seq(Items)
        /\ \A k \in DOMAIN records' :
              /\ records'[k].key = KeyText(records'[k].rec)
              /\ \E i \in DOMAIN records : /\ records'[k].rec = records[i].rec
                                           /\ records'[k].stream = records[i].stream
        /\ ~CoerceErrors(records) => \A i \in DOMAIN records : Holds(records', records[i].rec)
    BY <1>1, <2>1, CoerceTypesKeeps DEF Extracted
  <2>3. transformErrors' # TRUE => transformErrors # TRUE /\ ~CoerceErrors(records)
    BY <2>1, Zenon DEF CoerceErrors
  <2>4. \A k \in DOMAIN records' : Extracted(records[k])'
    BY <1>1, <2>2 DEF Extracted
  <2>5. transformErrors' # TRUE => \A r \in Ids(allRecords)' : Holds(records', r)
    <3> SUFFICES ASSUME transformErrors' # TRUE, NEW r \in Ids(allRecords)'
                 PROVE  Holds(records', r)
      OBVIOUS
    <3>1. r \in Ids(allRecords)
      BY <1>1 DEF Ids
    <3>2. PICK i \in DOMAIN records : records[i].rec = r
      BY <1>1, <2>3, <3>1 DEF Holds
    <3> QED
      BY <2>2, <2>3, <3>2
  <2> QED
    BY <1>1, <2>2, <2>4, <2>5 DEF TransformInv, KeyedLoadedOnce
<1> QED
  BY <1>2, <1>3

(* Deduplicate leaves no two records with one text, and drops a record only *)
(* for another of its text.                                                 *)
LEMMA DeduplicateInv ==
  ASSUME TransformInv, DeduplicateReturns
  PROVE  TransformInv'
<1>1. /\ phase = "dedup" /\ phase' = "load" /\ UNCHANGED <<wpc, allRecords, transformErrors>>
      /\ records' = Deduplicate(records)
      /\ records \in Seq(Items) /\ wpc = "extracted"
      /\ \A i \in DOMAIN records : Extracted(records[i]) /\ records[i].key = KeyText(records[i].rec)
      /\ transformErrors # TRUE => \A r \in Ids(allRecords) : Holds(records, r)
  BY DEF DeduplicateReturns, TransformInv, TransformPhases, extractVars
<1>2. /\ records' \in Seq(Items)
      /\ \A k \in DOMAIN records' : \E i \in DOMAIN records : records'[k] = records[i]
      /\ \A k, l \in DOMAIN records' :
            HasKey(records'[k]) /\ HasKey(records'[l]) /\ SameKey(records'[k], records'[l]) => k = l
      /\ \A i \in DOMAIN records : \E k \in DOMAIN records' :
            records'[k] = records[i] \/ (HasKey(records[i]) /\ SameKey(records'[k], records[i]))
  BY <1>1, DeduplicateKeeps
<1>3. \A k \in DOMAIN records' : /\ Extracted(records[k])' /\ records'[k] \in Items
                                /\ records'[k].key = KeyText(records'[k].rec)
  BY <1>1, <1>2 DEF Extracted
<1>4. ASSUME NEW i \in DOMAIN records', NEW j \in DOMAIN records',
             HasKey(records'[i]), records'[i].rec = records'[j].rec
      PROVE  i = j
  <2>1. records'[i].stream = records'[j].stream
    BY <1>3, <1>4 DEF Extracted
  <2>2. records'[i].key = records'[j].key
    BY <1>3, <1>4
  <2>3. extractPrimaryKey(records'[i]) = extractPrimaryKey(records'[j])
    BY <1>4, <2>2, Zenon DEF extractPrimaryKey
  <2>4. HasKey(records'[j]) /\ SameKey(records'[i], records'[j])
    BY <1>4, <2>1, <2>3, Zenon DEF HasKey, SameKey
  <2> QED
    BY <1>2, <1>4, <2>4, Zenon
<1>5. KeyedLoadedOnce'
  BY <1>4 DEF KeyedLoadedOnce
<1>6. ASSUME transformErrors # TRUE, NEW r \in Ids(allRecords)
      PROVE  Holds(records', r) \/ \E k \in DOMAIN records' : SharesText(records'[k], r)
  <2>1. PICK i \in DOMAIN records : records[i].rec = r
    BY <1>1, <1>6 DEF Holds
  <2>2. PICK k \in DOMAIN records' :
          records'[k] = records[i] \/ (HasKey(records[i]) /\ SameKey(records'[k], records[i]))
    BY <1>2
  <2>3. CASE records'[k] = records[i]
    BY <2>1, <2>3 DEF Holds
  <2>4. CASE HasKey(records[i]) /\ SameKey(records'[k], records[i])
    <3>1. HasKey(records'[k]) /\ records'[k].stream = records[i].stream
      BY <2>4 DEF HasKey, SameKey
    <3>2. records[i].rec \notin Malformed /\ records'[k].rec \notin Malformed
      BY <2>4, <3>1 DEF HasKey, extractPrimaryKey
    <3>3. records'[k].key = records[i].key
      BY <2>4, <3>2 DEF SameKey, extractPrimaryKey
    <3>4. records[i].key = KeyText(r) /\ records[i].stream = r.stream
      BY <1>1, <2>1 DEF Extracted
    <3>5. SharesText(records'[k], r)
      BY <3>1, <3>3, <3>4 DEF SharesText
    <3> QED
      BY <3>5
  <2> QED
    BY <2>2, <2>3, <2>4
<1> QED
  BY <1>1, <1>2, <1>3, <1>5, <1>6 DEF TransformInv, TransformPhases

(* The invariant of the transform phase holds throughout a sync.            *)
LEMMA TransformInvInit == Init => TransformInv
<1> SUFFICES ASSUME Init PROVE TransformInv
  OBVIOUS
<1>1. phase = "extract" /\ records = <<>> /\ transformErrors = FALSE
  BY DEF Init
<1>2. transformErrors # TRUE
  BY <1>1, Zenon
<1>3. <<>> \in Seq(Items)
  OBVIOUS
<1> QED
  BY <1>1, <1>2, <1>3 DEF TransformInv, TransformPhases, KeyedLoadedOnce

(* Every step of a sync keeps the invariant of the transform phase.         *)
LEMMA TransformInvNext == ExtractInv /\ TransformInv /\ [Next]_vars => TransformInv'
<1> SUFFICES ASSUME ExtractInv, TransformInv, [Next]_vars PROVE TransformInv'
  OBVIOUS
<1>1. CASE ExtractPhase \/ ExtractRetries
  <2>1. phase = "extract" /\ phase' = "extract" /\ UNCHANGED <<records, transformErrors>>
    BY <1>1 DEF ExtractPhase, ExtractRetries, transformVars
  <2> QED
    BY <2>1 DEF TransformInv, TransformPhases, KeyedLoadedOnce
<1>2. CASE ExtractReturns
  <2>1. /\ UNCHANGED <<wpc, allRecords, transformErrors>> /\ wpc = "extracted" /\ phase = "extract"
        /\ phase' = "map" /\ records' = TransformIn(allRecords)
    BY <1>2 DEF ExtractReturns, extractVars
  <2>2. transformErrors' # TRUE
    BY <2>1 DEF TransformInv
  <2> QED
    BY <2>1, <2>2, TransformBegins
<1>3. CASE TransformRetries
  <2>1. /\ UNCHANGED <<wpc, allRecords>> /\ phase \in TransformPhases
        /\ phase' = "map" /\ records' = TransformIn(allRecords) /\ transformErrors' = FALSE
    BY <1>3 DEF TransformRetries, extractVars
  <2>2. transformErrors' # TRUE
    BY <2>1, Zenon
  <2>3. wpc = "extracted"
    BY <2>1 DEF TransformInv
  <2> QED
    BY <2>1, <2>2, <2>3, TransformBegins
<1>4. CASE LoadPhase \/ LoadReturns \/ LoadRetries \/ UNCHANGED vars
  <2>1. /\ \/ phase' = phase
           \/ phase = "load" /\ phase' = "completed"
        /\ UNCHANGED <<records, transformErrors, wpc, allRecords>>
    BY <1>4 DEF LoadPhase, LoadReturns, LoadRetries, vars, extractVars, transformVars
  <2>2. Ids(allRecords)' = Ids(allRecords) /\ \A i : Extracted(records[i])' <=> Extracted(records[i])
    BY <2>1 DEF Ids, Extracted
  <2>3. KeyedLoadedOnce'
    BY <2>1 DEF TransformInv, KeyedLoadedOnce
  <2> QED
    BY <2>1, <2>2, <2>3 DEF TransformInv, TransformPhases
<1>5. CASE SyncFails
  <2>1. phase' = "failed" /\ UNCHANGED records
    BY <1>5 DEF SyncFails, transformVars
  <2> QED
    BY <2>1 DEF TransformInv, TransformPhases, KeyedLoadedOnce
<1> QED
  BY <1>1, <1>2, <1>3, <1>4, <1>5, MapFieldsInv, CoerceTypesInv, DeduplicateInv
  DEF Next, Done

-----------------------------------------------------------------------------
(* The quotient that splitIntoBatches and the batch of a record rest on.     *)
LEMMA Quotient ==
  ASSUME NEW t \in Nat, NEW m \in Nat \ {0}
  PROVE  \E q \in Nat : q = t \div m /\ q * m <= t /\ t < q * m + m
<1>1. t \div m \in Nat /\ (t \div m) * m <= t /\ t < (t \div m) * m + m
  OBVIOUS
<1> QED
  BY <1>1

(* More batches hold more.                                                   *)
LEMMA TimesMonotone ==
  ASSUME NEW a \in Int, NEW b \in Int, NEW m \in Nat, a <= b
  PROVE  a * m \in Int /\ b * m \in Int /\ a * m <= b * m
  OBVIOUS

(* The records of recs after the first from, up to to: never none.          *)
IsBatch(batch, recs, from, to) ==
    /\ from \in Nat /\ to \in Nat /\ from < to /\ to <= Len(recs)
    /\ DOMAIN batch = 1..(to - from) /\ Len(batch) = to - from
    /\ \A k \in 1..(to - from) : batch[k] = recs[from + k]

(* The slice that splitIntoBatches takes is such a batch.                   *)
LEMMA BatchIs ==
  ASSUME NEW S, NEW recs \in Seq(S), NEW from \in Nat, NEW to \in Nat, from < to, to <= Len(recs)
  PROVE  IsBatch(SubSeq(recs, from + 1, to), recs, from, to)
<1>1. PICK z : z = Len(recs) /\ z \in Nat
  OBVIOUS
<1>2. PICK s : s = SubSeq(recs, from + 1, to)
  OBVIOUS
<1>3. /\ s \in Seq(S) /\ Len(s) = to - from /\ DOMAIN s = 1..(to - from)
      /\ \A k \in 1..(to - from) : s[k] = recs[from + k]
  BY <1>1, <1>2
<1> QED
  BY <1>2, <1>3 DEF IsBatch

(* The batches of splitIntoBatches follow each other, have one record at     *)
(* least and have all the records.                                           *)
LEMMA BatchesAre ==
  ASSUME NEW S, NEW recs \in Seq(S)
  PROVE  \E n \in Nat :
           /\ DOMAIN splitIntoBatches(recs) = 1..n /\ Len(splitIntoBatches(recs)) = n
           /\ UpTo(Len(recs), 0) = 0 /\ UpTo(Len(recs), n) = Len(recs)
           /\ \A b \in 1..n : IsBatch(splitIntoBatches(recs)[b], recs,
                                      UpTo(Len(recs), b - 1), UpTo(Len(recs), b))
           /\ \A i \in 1..Len(recs) : \E b \in 1..n :
                 UpTo(Len(recs), b - 1) < i /\ i <= UpTo(Len(recs), b)
<1>1. PICK z : z = Len(recs) /\ z \in Nat
  OBVIOUS
<1>2. PICK m : m = LoadBatchSize /\ m \in Nat \ {0}
  BY LoadAssumption
<1>3. PICK n \in Nat : n = (z + m - 1) \div m /\ n * m <= z + m - 1 /\ z + m - 1 < n * m + m
  <2>1. z + m - 1 \in Nat
    BY <1>1, <1>2
  <2> QED
    BY <1>2, <2>1, Quotient
<1>4. PICK s : s = splitIntoBatches(recs)
  OBVIOUS
<1>5. s = [b \in 1..n |-> SubSeq(recs, (b - 1) * m + 1, UpTo(z, b))]
  BY <1>1, <1>2, <1>3, <1>4 DEF splitIntoBatches, UpTo
<1>6. DOMAIN s = 1..n /\ \A b \in 1..n : s[b] = SubSeq(recs, (b - 1) * m + 1, UpTo(z, b))
  BY <1>5
<1>7. Len(s) = n
  <2> DEFINE T(b) == SubSeq(recs, (b - 1) * m + 1, UpTo(z, b))
  <2>1. s = [b \in 1..n |-> T(b)]
    BY <1>5
  <2> HIDE DEF T
  <2>2. Len([b \in 1..n |-> T(b)]) = n
    BY <1>3
  <2> QED
    BY <2>1, <2>2
<1>8. ASSUME NEW b \in 1..n
      PROVE  /\ (b - 1) * m \in Nat /\ (b - 1) * m < z /\ UpTo(z, b - 1) = (b - 1) * m
             /\ UpTo(z, b) \in Nat /\ UpTo(z, b) <= z /\ (b - 1) * m < UpTo(z, b)
  <2>1. PICK x \in Int : x = (b - 1) * m
    BY <1>2
  <2>2. b * m = x + m
    BY <1>2, <2>1
  <2>3. x >= 0
    <3>1. 0 * m <= (b - 1) * m
      BY <1>2, TimesMonotone
    <3> QED
      BY <1>2, <2>1, <3>1
  <2>4. x < z
    <3>1. b * m <= n * m
      BY <1>2, TimesMonotone
    <3>2. PICK y \in Int : y = n * m
      BY <1>2
    <3>3. x + m <= y /\ y <= z + m - 1
      BY <1>3, <2>2, <3>1, <3>2
    <3> QED
      BY <1>1, <1>2, <3>3
  <2>5. UpTo(z, b - 1) = x
    BY <1>2, <2>1, <2>4, <1>1 DEF UpTo
  <2>6. UpTo(z, b) = IF x + m > z THEN z ELSE x + m
    BY <1>2, <2>2 DEF UpTo
  <2> QED
    BY <1>1, <1>2, <2>1, <2>3, <2>4, <2>5, <2>6
<1>9. \A b \in 1..n : IsBatch(s[b], recs, UpTo(z, b - 1), UpTo(z, b))
  BY <1>1, <1>6, <1>8, BatchIs
<1>10. UpTo(z, 0) = 0
  BY <1>1, <1>2 DEF UpTo
<1>11. UpTo(z, n) = z
  <2>1. PICK y \in Int : y = n * m
    BY <1>2
  <2>2. z <= y
    BY <1>1, <1>2, <1>3, <2>1
  <2>3. UpTo(z, n) = IF y > z THEN z ELSE y
    BY <1>2, <2>1 DEF UpTo
  <2> QED
    BY <1>1, <2>2, <2>3
<1>12. ASSUME NEW i \in 1..z
       PROVE  \E b \in 1..n : UpTo(z, b - 1) < i /\ i <= UpTo(z, b)
  <2>1. PICK q \in Nat : q = (i - 1) \div m /\ q * m <= i - 1 /\ i - 1 < q * m + m
    <3>1. i - 1 \in Nat
      BY <1>1
    <3> QED
      BY <1>2, <3>1, Quotient
  <2>2. PICK x \in Int : x = q * m
    BY <1>2
  <2>3. q + 1 \in 1..n
    <3>1. PICK y \in Int : y = n * m
      BY <1>2
    <3>2. x < y
      BY <1>1, <1>2, <1>3, <2>1, <2>2, <3>1
    <3>3. ~(n <= q)
      <4>1. n <= q => n * m <= q * m
        BY <1>2, TimesMonotone
      <4> QED
        BY <2>2, <3>1, <3>2, <4>1
    <3> QED
      BY <3>3
  <2>4. (q + 1) - 1 = q
    OBVIOUS
  <2>5. UpTo(z, q) = x
    BY <1>8, <2>2, <2>3, <2>4
  <2>6. UpTo(z, q + 1) = IF x + m > z THEN z ELSE x + m
    <3>1. (q + 1) * m = x + m
      BY <1>2, <2>2
    <3> QED
      BY <1>2, <3>1 DEF UpTo
  <2>7. x < i /\ i <= UpTo(z, q + 1)
    BY <1>1, <1>2, <2>1, <2>2, <2>6
  <2> QED
    BY <2>3, <2>4, <2>5, <2>7
<1> QED
  BY <1>1, <1>3, <1>4, <1>6, <1>7, <1>9, <1>10, <1>11, <1>12

-----------------------------------------------------------------------------
(* A write that says it stored as many records as the batch has stored all. *)
LEMMA CountStored ==
  ASSUME NEW n \in Nat, NEW stored \in SUBSET (1..n)
  PROVE  /\ Cardinality(stored) \in Nat /\ Cardinality(stored) <= n
         /\ Cardinality(stored) = n => stored = 1..n
<1>1. IsFiniteSet(1..n) /\ Cardinality(1..n) = n
  <2>1. /\ IsFiniteSet(1..n)
        /\ Cardinality(1..n) = IF 1 > n THEN 0 ELSE n - 1 + 1
    BY FS_Interval
  <2> QED
    BY <2>1
<1>2. /\ IsFiniteSet(stored) /\ Cardinality(stored) <= Cardinality(1..n)
      /\ Cardinality(stored) = Cardinality(1..n) => stored = 1..n
  BY <1>1, FS_Subset
<1>3. Cardinality(stored) \in Nat
  BY <1>2, FS_CardinalityType
<1> QED
  BY <1>1, <1>2, <1>3

(* The batches of the load phase are pieces of the records, one after the   *)
(* other.                                                                   *)
LEMMA ToLoadIs ==
  ASSUME records \in Seq(Items), toLoad = splitIntoBatches(records)
  PROVE  \E n \in Nat :
           /\ DOMAIN toLoad = 1..n /\ Len(toLoad) = n
           /\ UpTo(Len(records), 0) = 0 /\ UpTo(Len(records), n) = Len(records)
           /\ \A b \in 1..n : IsBatch(toLoad[b], records, UpTo(Len(records), b - 1), UpTo(Len(records), b))
           /\ \A i \in 1..Len(records) : \E b \in 1..n :
                 UpTo(Len(records), b - 1) < i /\ i <= UpTo(Len(records), b)
  BY BatchesAre

(* What a batch has is a record of the transform phase.                     *)
LEMMA BatchOfRecords ==
  ASSUME records \in Seq(Items), toLoad = splitIntoBatches(records), NEW b \in DOMAIN toLoad
  PROVE  /\ Len(toLoad[b]) \in Nat /\ DOMAIN toLoad[b] = 1..Len(toLoad[b])
         /\ \A k \in DOMAIN toLoad[b] : \E i \in DOMAIN records : toLoad[b][k] = records[i]
<1>1. PICK n \in Nat :
           /\ DOMAIN toLoad = 1..n /\ Len(toLoad) = n
           /\ UpTo(Len(records), 0) = 0 /\ UpTo(Len(records), n) = Len(records)
           /\ \A c \in 1..n : IsBatch(toLoad[c], records, UpTo(Len(records), c - 1), UpTo(Len(records), c))
           /\ \A i \in 1..Len(records) : \E c \in 1..n :
                 UpTo(Len(records), c - 1) < i /\ i <= UpTo(Len(records), c)
  BY ToLoadIs
<1>2. IsBatch(toLoad[b], records, UpTo(Len(records), b - 1), UpTo(Len(records), b))
  BY <1>1
<1>3. PICK from, to : from = UpTo(Len(records), b - 1) /\ to = UpTo(Len(records), b)
  OBVIOUS
<1>4. /\ from \in Nat /\ to \in Nat /\ from < to /\ to <= Len(records)
      /\ DOMAIN toLoad[b] = 1..(to - from) /\ Len(toLoad[b]) = to - from
      /\ \A k \in 1..(to - from) : toLoad[b][k] = records[from + k]
  BY <1>2, <1>3 DEF IsBatch
<1>5. DOMAIN records = 1..Len(records) /\ Len(records) \in Nat
  OBVIOUS
<1>6. \A k \in 1..(to - from) : from + k \in DOMAIN records
  BY <1>4, <1>5
<1> QED
  BY <1>4, <1>6

(* The load phase begins: no batch is written, nothing is counted.          *)
LEMMA StartLoadInv ==
  ASSUME NEW recs, recs \in Seq(Items), StartLoad(recs), records' = recs, phase' = "load",
         \A d \in dest : d.rec \in Source
  PROVE  LoadInv'
<1>1. /\ lpc' = "writing" /\ toLoad' = splitIntoBatches(recs)
      /\ writes' = [b \in DOMAIN toLoad' |-> NewWrite]
      /\ gathered' = 0 /\ totalLoaded' = 0 /\ dest' = dest
  BY DEF StartLoad
<1>2. NewWrite \in Writes /\ NewWrite.pc = "running"
  BY DEF NewWrite, Writes
<1>3. writes' \in [DOMAIN toLoad' -> Writes] /\ \A b \in DOMAIN toLoad' : writes'[b].pc # "ok"
  BY <1>1, <1>2
<1>4. Len(recs) \in Nat
  OBVIOUS
<1>5. PICK n \in Nat : Len(toLoad') = n /\ UpTo(Len(recs), 0) = 0
  BY <1>1, BatchesAre
<1>6. BatchesInv'
  <2>1. gathered' \in 0..Len(toLoad')
    BY <1>1, <1>5
  <2>2. totalLoaded' <= UpTo(Len(records'), gathered') /\ 1..gathered' = {}
    BY <1>1, <1>5
  <2> QED
    BY <1>1, <1>3, <2>1, <2>2 DEF BatchesInv, UpTo
<1> QED
  BY <1>1, <1>4, <1>6 DEF LoadInv, TransformPhases

(* A write stores records of the source; which of them it wrote before it   *)
(* answered, failed or was made again does not matter.                      *)
LEMMA StoredIn ==
  ASSUME TransformInv, SourceInv, LoadInv, phase = "load",
         NEW b \in DOMAIN toLoad, NEW stored \in SUBSET Positions(b),
         dest' = dest \cup {toLoad[b][i] : i \in stored}
  PROVE  (\A d \in dest' : d.rec \in Source) /\ dest \subseteq dest'
<1>1. /\ records \in Seq(Items) /\ toLoad = splitIntoBatches(records)
      /\ \A d \in dest : d.rec \in Source
      /\ \A i \in DOMAIN records : Extracted(records[i])
      /\ Ids(allRecords) \subseteq Source
  BY DEF TransformInv, LoadInv, BatchesInv, SourceInv
<1>2. \A k \in DOMAIN toLoad[b] : \E i \in DOMAIN records : toLoad[b][k] = records[i]
  BY <1>1, BatchOfRecords
<1>3. \A k \in DOMAIN toLoad[b] : toLoad[b][k].rec \in Source
  BY <1>1, <1>2 DEF Extracted
<1> QED
  BY <1>1, <1>3 DEF Positions

(* What stays of the invariant when a write changes: w is what the write    *)
(* of batch b has become.                                                   *)
LEMMA WriteInv ==
  ASSUME TransformInv, SourceInv, LoadInv, phase = "load", lpc = "writing",
         NEW b \in DOMAIN toLoad, NEW stored \in SUBSET Positions(b),
         dest' = dest \cup {toLoad[b][i] : i \in stored},
         NEW w \in Writes, writes' = [writes EXCEPT ![b] = w],
         w.pc = "ok" => w.count <= Len(toLoad[b])
                        /\ (overcounted' # TRUE /\ w.count = Len(toLoad[b])
                               => Ids(toLoad[b]) \subseteq dest'),
         overcounted' # TRUE => overcounted # TRUE,
         UNCHANGED <<lpc, toLoad, gathered, totalLoaded, records, phase>>
  PROVE  LoadInv'
<1>1. (\A d \in dest' : d.rec \in Source) /\ dest \subseteq dest'
  BY StoredIn
<1>2. /\ toLoad = splitIntoBatches(records) /\ writes \in [DOMAIN toLoad -> Writes]
      /\ gathered \in 0..Len(toLoad)
      /\ \A c \in DOMAIN toLoad : writes[c].pc = "ok" =>
            /\ writes[c].count <= Len(toLoad[c])
            /\ overcounted # TRUE /\ writes[c].count = Len(toLoad[c]) => Ids(toLoad[c]) \subseteq dest
      /\ totalLoaded <= UpTo(Len(records), gathered)
      /\ overcounted # TRUE /\ totalLoaded = UpTo(Len(records), gathered) =>
            \A c \in 1..gathered : Ids(toLoad[c]) \subseteq dest
  BY DEF LoadInv, BatchesInv
<1>3. writes' \in [DOMAIN toLoad -> Writes]
  BY <1>2
<1>4. ASSUME NEW c \in DOMAIN toLoad, writes'[c].pc = "ok"
      PROVE  /\ writes'[c].count <= Len(toLoad[c])
             /\ overcounted' # TRUE /\ writes'[c].count = Len(toLoad[c]) => Ids(toLoad[c]) \subseteq dest'
  <2>1. CASE c = b
    <3>1. writes'[c] = w
      BY <1>2, <2>1
    <3> QED
      BY <1>4, <2>1, <3>1
  <2>2. CASE c # b
    <3>1. writes'[c] = writes[c]
      BY <1>2, <2>2
    <3> QED
      BY <1>1, <1>2, <1>4, <3>1
  <2> QED
    BY <2>1, <2>2
<1>5. overcounted' # TRUE /\ totalLoaded = UpTo(Len(records), gathered) =>
        \A c \in 1..gathered : Ids(toLoad[c]) \subseteq dest'
  BY <1>1, <1>2
<1>6. /\ UpTo(Len(records), gathered)' = UpTo(Len(records), gathered)
      /\ \A c : Ids(toLoad[c])' = Ids(toLoad[c])
  BY DEF UpTo, Ids
<1>7. BatchesInv'
  BY <1>2, <1>3, <1>4, <1>5, <1>6 DEF BatchesInv
<1> QED
  BY <1>1, <1>7 DEF LoadInv, TransformPhases

(* WriteBatchActivity answered.                                              *)
LEMMA WriteReturnsInv ==
  ASSUME TransformInv, SourceInv, LoadInv, phase = "load",
         UNCHANGED <<records, phase>>, NEW errors \in BOOLEAN,
         NEW b \in DOMAIN writes, NEW stored \in SUBSET Positions(b),
         NEW count \in Cardinality(stored)..Len(toLoad[b]),
         WriteReturns(b, stored, count, errors)
  PROVE  LoadInv'
<1>1. /\ records \in Seq(Items) /\ toLoad = splitIntoBatches(records)
      /\ writes \in [DOMAIN toLoad -> Writes] /\ b \in DOMAIN toLoad
  BY DEF TransformInv, LoadInv, BatchesInv
<1>2. PICK m : m = Len(toLoad[b]) /\ m \in Nat /\ DOMAIN toLoad[b] = 1..m
  BY <1>1, BatchOfRecords
<1>3. stored \in SUBSET (1..m)
  BY <1>2 DEF Positions
<1>4. PICK c : /\ c = Cardinality(stored) /\ c \in Nat /\ c <= m
               /\ c = m => stored = 1..m
  BY <1>2, <1>3, CountStored
<1>5. count \in Nat /\ c <= count /\ count <= m
  BY <1>2, <1>4
<1>6. PICK w : w = [writes[b] EXCEPT !.pc = "ok", !.errors = errors, !.count = count]
  OBVIOUS
<1>7. w \in Writes /\ w.pc = "ok" /\ w.count = count
  <2>1. writes[b] \in Writes
    BY <1>1
  <2> QED
    BY <1>5, <1>6, <2>1 DEF Writes
<1>8. /\ writes' = [writes EXCEPT ![b] = w] /\ dest' = dest \cup {toLoad[b][i] : i \in stored}
      /\ overcounted' = (overcounted \/ count > c)
  BY <1>4, <1>6 DEF WriteReturns
<1>9. overcounted' # TRUE => overcounted # TRUE /\ ~(count > c)
  BY <1>8, Zenon
<1>10. overcounted' # TRUE /\ count = m => Ids(toLoad[b]) \subseteq dest'
  <2> SUFFICES ASSUME overcounted' # TRUE, count = m PROVE Ids(toLoad[b]) \subseteq dest'
    OBVIOUS
  <2>1. c = m
    BY <1>2, <1>4, <1>5, <1>9
  <2> QED
    BY <1>2, <1>4, <1>8, <2>1 DEF Ids
<1>11. lpc = "writing" /\ UNCHANGED <<lpc, toLoad, gathered, totalLoaded>>
  BY DEF WriteReturns
<1> QED
  BY <1>1, <1>2, <1>5, <1>7, <1>8, <1>9, <1>10, <1>11, WriteInv

(* An attempt of WriteBatchActivity failed.                                  *)
LEMMA WriteFailsInv ==
  ASSUME TransformInv, SourceInv, LoadInv, phase = "load", UNCHANGED <<records, phase>>,
         NEW b \in DOMAIN writes, NEW stored \in SUBSET Positions(b), WriteFails(b, stored)
  PROVE  LoadInv'
<1>1. writes \in [DOMAIN toLoad -> Writes] /\ b \in DOMAIN toLoad
  BY DEF LoadInv, BatchesInv
<1>2. PICK a : a = IF writes[b].attempt < WriteAttempts THEN writes[b].attempt + 1
                   ELSE writes[b].attempt
  OBVIOUS
<1>3. PICK q : q = IF writes[b].attempt < WriteAttempts THEN "running" ELSE "err"
  OBVIOUS
<1>4. PICK w : w = [writes[b] EXCEPT !.pc = q, !.attempt = a]
  OBVIOUS
<1>5. w \in Writes /\ w.pc # "ok"
  <2>1. writes[b] \in Writes
    BY <1>1
  <2>2. a \in Nat
    BY <1>2, <2>1 DEF Writes
  <2> QED
    BY <1>3, <1>4, <2>1, <2>2 DEF Writes
<1>6. writes' = [writes EXCEPT ![b] = w] /\ dest' = dest \cup {toLoad[b][i] : i \in stored}
  BY <1>1, <1>2, <1>3, <1>4 DEF WriteFails, Writes
<1>7. lpc = "writing" /\ UNCHANGED <<lpc, toLoad, gathered, totalLoaded, overcounted>>
  BY DEF WriteFails
<1> QED
  BY <1>1, <1>5, <1>6, <1>7, WriteInv

(* The result of a write is taken: a batch that failed makes the total fall *)
(* behind for good.                                                         *)
LEMMA GatherInv ==
  ASSUME TransformInv, LoadInv, phase = "load", UNCHANGED <<records, phase>>, GatherWrite
  PROVE  LoadInv'
<1>1. /\ records \in Seq(Items) /\ toLoad = splitIntoBatches(records)
      /\ writes \in [DOMAIN toLoad -> Writes]
      /\ gathered \in 0..Len(toLoad) /\ totalLoaded \in Nat
      /\ totalLoaded <= UpTo(Len(records), gathered)
      /\ overcounted # TRUE /\ totalLoaded = UpTo(Len(records), gathered) =>
            \A c \in 1..gathered : Ids(toLoad[c]) \subseteq dest
      /\ \A c \in DOMAIN toLoad : writes[c].pc = "ok" =>
            /\ writes[c].count <= Len(toLoad[c])
            /\ overcounted # TRUE /\ writes[c].count = Len(toLoad[c]) => Ids(toLoad[c]) \subseteq dest
      /\ \A d \in dest : d.rec \in Source
  BY DEF TransformInv, LoadInv, BatchesInv
<1>2. PICK b : b = gathered + 1
  OBVIOUS
<1>3. /\ lpc = "writing" /\ gathered < Len(toLoad)
      /\ writes[b].pc # "running" /\ gathered' = b
      /\ totalLoaded' = IF writes[b].pc = "ok" THEN totalLoaded + writes[b].count ELSE totalLoaded
      /\ UNCHANGED <<lpc, toLoad, writes, overcounted, dest>>
  BY <1>2 DEF GatherWrite
<1>4. PICK n \in Nat :
           /\ DOMAIN toLoad = 1..n /\ Len(toLoad) = n
           /\ \A c \in 1..n : IsBatch(toLoad[c], records, UpTo(Len(records), c - 1), UpTo(Len(records), c))
  BY <1>1, ToLoadIs
<1>5. b \in 1..n /\ b - 1 = gathered
  BY <1>1, <1>2, <1>3, <1>4
<1>6. PICK lo, hi : lo = UpTo(Len(records), gathered) /\ hi = UpTo(Len(records), b)
  OBVIOUS
<1>7. lo \in Nat /\ hi \in Nat /\ lo < hi /\ hi <= Len(records) /\ Len(toLoad[b]) = hi - lo
  BY <1>4, <1>5, <1>6 DEF IsBatch
<1>8. PICK k : k = writes[b].count /\ k \in Nat
  BY <1>1, <1>4, <1>5 DEF Writes
<1>9. /\ totalLoaded' \in Nat /\ totalLoaded' <= hi
      /\ totalLoaded' = hi => totalLoaded = lo /\ writes[b].pc = "ok" /\ k = Len(toLoad[b])
  <2>1. CASE writes[b].pc = "ok"
    <3>1. totalLoaded' = totalLoaded + k /\ k <= hi - lo /\ totalLoaded <= lo
      BY <1>1, <1>3, <1>4, <1>5, <1>6, <1>7, <1>8, <2>1
    <3>2. totalLoaded \in Nat /\ k \in Nat /\ lo \in Nat /\ hi \in Nat
      BY <1>1, <1>7, <1>8
    <3>3. /\ totalLoaded' \in Nat /\ totalLoaded' <= hi
          /\ totalLoaded' = hi => totalLoaded = lo /\ k = hi - lo
      BY <3>1, <3>2
    <3> QED
      BY <1>7, <2>1, <3>3
  <2>2. CASE writes[b].pc # "ok"
    <3>1. totalLoaded' = totalLoaded /\ totalLoaded <= lo
      BY <1>1, <1>3, <1>6, <2>2
    <3> QED
      BY <1>1, <1>7, <3>1
  <2> QED
    BY <2>1, <2>2
<1>10. overcounted # TRUE /\ totalLoaded' = hi => \A c \in 1..b : Ids(toLoad[c]) \subseteq dest
  <2> SUFFICES ASSUME overcounted # TRUE, totalLoaded' = hi, NEW c \in 1..b PROVE Ids(toLoad[c]) \subseteq dest
    OBVIOUS
  <2>1. CASE c = b
    BY <1>1, <1>4, <1>5, <1>8, <1>9, <2>1
  <2>2. CASE c # b
    <3>1. c \in 1..gathered
      BY <1>1, <1>2, <2>2
    <3> QED
      BY <1>1, <1>6, <1>9, <3>1
  <2> QED
    BY <2>1, <2>2
<1>11. UpTo(Len(records), gathered)' = hi /\ \A c : Ids(toLoad[c])' = Ids(toLoad[c])
  BY <1>3, <1>6 DEF UpTo, Ids
<1>12. BatchesInv'
  <2>1. gathered' \in 0..Len(toLoad')
    BY <1>3, <1>4, <1>5
  <2> QED
    BY <1>1, <1>3, <1>9, <1>10, <1>11, <2>1 DEF BatchesInv
<1>13. totalLoaded' <= Len(records')
  <2>1. Len(records) \in Nat
    BY <1>1
  <2> QED
    BY <1>7, <1>9, <2>1
<1> QED
  BY <1>1, <1>3, <1>9, <1>12, <1>13 DEF LoadInv, TransformPhases

(* ConfirmWriteActivity: without an error the total is what was to be       *)
(* loaded.                                                                  *)
LEMMA ConfirmInv ==
  ASSUME LoadInv, phase = "load", UNCHANGED <<records, phase>>,
         NEW answer, ConfirmWrite(records, answer)
  PROVE  LoadInv'
<1>1. /\ lpc = "writing" /\ gathered = Len(toLoad) /\ lpc' = "loaded"
      /\ loadErrors' = (loadErrors \/ answer # "healthy" \/ totalLoaded # Len(records))
      /\ UNCHANGED <<toLoad, writes, gathered, totalLoaded, overcounted, dest>>
  BY DEF ConfirmWrite
<1>2. loadErrors' # TRUE => totalLoaded = Len(records)
  BY <1>1, Zenon
<1>3. UpTo(Len(records), gathered)' = UpTo(Len(records), gathered) /\ \A c : Ids(toLoad[c])' = Ids(toLoad[c])
  BY <1>1 DEF UpTo, Ids
<1>4. BatchesInv'
  BY <1>1, <1>2, <1>3 DEF LoadInv, BatchesInv
<1> QED
  BY <1>1, <1>4 DEF LoadInv, TransformPhases

(* The load variables stay: what the invariant says of them stays.          *)
LEMMA LoadUnchangedInv ==
  ASSUME LoadInv, UNCHANGED <<loadVars, records>>,
         phase' \in {"load", "completed"} => phase \in {"load", "completed"},
         phase' = "completed" => lpc = "loaded",
         phase' \in TransformPhases \cup {"extract"} => phase \in TransformPhases \cup {"extract"}
  PROVE  LoadInv'
<1>1. UNCHANGED <<lpc, toLoad, writes, gathered, totalLoaded, overcounted, loadErrors, dest, records>>
  BY DEF loadVars
<1>2. UpTo(Len(records), gathered)' = UpTo(Len(records), gathered) /\ \A c : Ids(toLoad[c])' = Ids(toLoad[c])
  BY <1>1 DEF UpTo, Ids
<1>3. BatchesInv => BatchesInv'
  BY <1>1, <1>2 DEF BatchesInv
<1> QED
  BY <1>1, <1>3 DEF LoadInv

(* Before the load phase nothing is loaded, whatever the transform phase    *)
(* makes of the records.                                                    *)
LEMMA LoadIdleInv ==
  ASSUME LoadInv, UNCHANGED loadVars, records' \in Seq(Items),
         phase \in TransformPhases \cup {"extract"}, phase' \in TransformPhases \cup {"extract"}
  PROVE  LoadInv'
<1>1. UNCHANGED <<lpc, totalLoaded, dest>>
  BY DEF loadVars
<1>2. totalLoaded' = 0 /\ Len(records') \in Nat
  BY <1>1 DEF LoadInv
<1>3. phase' \notin {"load", "completed"}
  BY DEF TransformPhases
<1> QED
  BY <1>1, <1>2, <1>3 DEF LoadInv

(* The load phase has nothing to count before it begins.                    *)
LEMMA LoadInvInit == Init => LoadInv
<1> SUFFICES ASSUME Init PROVE LoadInv
  OBVIOUS
<1>1. phase = "extract" /\ records = <<>> /\ totalLoaded = 0 /\ lpc = "idle" /\ dest = {}
  BY DEF Init, LoadInit
<1>2. Len(<<>>) = 0
  OBVIOUS
<1> QED
  BY <1>1, <1>2 DEF LoadInv, TransformPhases

(* Every step of a sync keeps the invariant of the load phase.              *)
LEMMA LoadInvNext ==
  TransformInv /\ SourceInv /\ LoadInv /\ TransformInv' /\ [Next]_vars => LoadInv'
<1> SUFFICES ASSUME TransformInv, SourceInv, LoadInv, TransformInv', [Next]_vars PROVE LoadInv'
  OBVIOUS
<1>1. records \in Seq(Items) /\ records' \in Seq(Items)
  BY DEF TransformInv
<1>2. CASE ExtractPhase \/ ExtractRetries
  <2>1. phase = "extract" /\ phase' = "extract" /\ UNCHANGED loadVars
    BY <1>2 DEF ExtractPhase, ExtractRetries
  <2> QED
    BY <1>1, <2>1, LoadIdleInv
<1>3. CASE ExtractReturns \/ MapFieldsReturns \/ CoerceTypesReturns \/ TransformRetries
  <2>1. /\ phase \in TransformPhases \cup {"extract"} /\ phase' \in TransformPhases
        /\ UNCHANGED loadVars
    BY <1>3 DEF ExtractReturns, MapFieldsReturns, CoerceTypesReturns, TransformRetries, TransformPhases
  <2> QED
    BY <1>1, <2>1, LoadIdleInv
<1>4. CASE DeduplicateReturns
  <2>1. StartLoad(records') /\ phase' = "load"
    BY <1>4 DEF DeduplicateReturns
  <2>2. \A d \in dest : d.rec \in Source
    BY DEF LoadInv
  <2>3. PICK recs : recs = records'
    OBVIOUS
  <2>4. StartLoad(recs) /\ recs \in Seq(Items)
    BY <1>1, <2>1, <2>3 DEF StartLoad
  <2> QED
    BY <2>1, <2>2, <2>3, <2>4, StartLoadInv
<1>5. CASE LoadRetries
  <2>1. StartLoad(records) /\ phase' = "load" /\ records' = records
    BY <1>5 DEF LoadRetries, transformVars
  <2>2. \A d \in dest : d.rec \in Source
    BY DEF LoadInv
  <2>3. PICK recs : recs = records
    OBVIOUS
  <2>4. StartLoad(recs) /\ recs \in Seq(Items) /\ records' = recs
    BY <1>1, <2>1, <2>3 DEF StartLoad
  <2> QED
    BY <2>1, <2>2, <2>4, StartLoadInv
<1>6. CASE LoadPhase
  <2>1. phase = "load" /\ LoadStep(records) /\ UNCHANGED <<records, phase>>
    BY <1>6 DEF LoadPhase, transformVars
  <2>2. CASE \E b \in DOMAIN writes : \E stored \in SUBSET Positions(b) :
               \E errors \in BOOLEAN, count \in Cardinality(stored)..Len(toLoad[b]) :
                  WriteReturns(b, stored, count, errors)
    BY <2>1, <2>2, WriteReturnsInv
  <2>3. CASE \E b \in DOMAIN writes : \E stored \in SUBSET Positions(b) : WriteFails(b, stored)
    BY <2>1, <2>3, WriteFailsInv
  <2>4. CASE GatherWrite
    BY <2>1, <2>4, GatherInv
  <2>5. CASE \E answer \in {"healthy", "unhealthy", "err"} : ConfirmWrite(records, answer)
    BY <2>1, <2>5, ConfirmInv
  <2> QED
    BY <2>1, <2>2, <2>3, <2>4, <2>5 DEF LoadStep
<1>7. CASE LoadReturns
  <2>1. phase = "load" /\ lpc = "loaded" /\ phase' = "completed" /\ UNCHANGED <<loadVars, records>>
    BY <1>7 DEF LoadReturns, transformVars
  <2> QED
    BY <2>1, LoadUnchangedInv DEF TransformPhases
<1>8. CASE SyncFails
  <2>1. phase' = "failed" /\ UNCHANGED <<loadVars, records>>
    BY <1>8 DEF SyncFails, transformVars
  <2> QED
    BY <2>1, LoadUnchangedInv DEF TransformPhases
<1>9. CASE UNCHANGED vars
  <2>1. UNCHANGED <<loadVars, records, phase>>
    BY <1>9 DEF vars, transformVars
  <2>2. phase' = "completed" => lpc = "loaded"
    BY <2>1 DEF LoadInv
  <2> QED
    BY <2>1, <2>2, LoadUnchangedInv
<1> QED
  BY <1>2, <1>3, <1>4, <1>5, <1>6, <1>7, <1>8, <1>9 DEF Next, Done

-----------------------------------------------------------------------------
(* A record that a message brings is of the source.                         *)
LEMMA RecordOfSource ==
  ASSUME NEW s \in Streams, NEW i \in 1..Size[s]
  PROVE  Record(s, i) \in Source
  BY DEF Source

(* A message is sent into a channel with room.                              *)
LEMMA SendIn ==
  ASSUME NEW f, NEW g, NEW m \in Msgs, FetchType(f), FetchIn(f), Len(f.chan) < BatchSize,
         g.chan = Append(f.chan, m), g.records = f.records,
         m.type = "record" => m.value \in 1..Size[m.stream],
         g.pc = "emit" => g.left \in Nat \ {0} /\ g.next + g.left <= Size[g.stream] + 1
  PROVE  FetchIn(g)
<1>1. f.chan \in Seq(Msgs)
  BY DEF FetchType
<1>2. /\ Len(g.chan) = Len(f.chan) + 1 /\ Len(f.chan) \in Nat
      /\ \A k \in 1..Len(f.chan) : g.chan[k] = f.chan[k]
      /\ g.chan[Len(g.chan)] = m
  BY <1>1, AppendSent
<1>3. BatchSize \in Nat
  BY ExtractAssumption
<1>4. Len(g.chan) <= BatchSize
  BY <1>2, <1>3
<1>5. ASSUME NEW k \in 1..Len(g.chan), g.chan[k].type = "record"
      PROVE  g.chan[k].value \in 1..Size[g.chan[k].stream]
  <2>1. CASE k \in 1..Len(f.chan)
    <3>1. g.chan[k] = f.chan[k]
      BY <1>2, <2>1
    <3> QED
      BY <1>5, <2>1, <3>1 DEF FetchIn
  <2>2. CASE k = Len(g.chan)
    BY <1>2, <1>5, <2>2
  <2> QED
    BY <1>2, <2>1, <2>2
<1> QED
  BY <1>4, <1>5 DEF FetchIn

(* A message is received.                                                   *)
LEMMA ReceiveIn ==
  ASSUME NEW f, NEW g, FetchType(f), FetchIn(f), f.chan # <<>>,
         g.chan = Tail(f.chan), g.pc = f.pc, g.next = f.next, g.left = f.left, g.stream = f.stream,
         \/ g.records = f.records
         \/ /\ Head(f.chan).type = "record"
            /\ g.records = Append(f.records, Record(Head(f.chan).stream, Head(f.chan).value))
  PROVE  FetchIn(g)
<1>1. f.chan \in Seq(Msgs) /\ f.records \in Seq(Recs)
  BY DEF FetchType
<1>2. PICK c, m : c = g.chan /\ m = Head(f.chan)
  OBVIOUS
<1>3. /\ m \in Msgs /\ m = f.chan[1] /\ Len(c) = Len(f.chan) - 1 /\ Len(f.chan) \in Nat \ {0}
      /\ \A k \in 1..Len(c) : c[k] = f.chan[k + 1]
  BY <1>1, <1>2
<1>4. BatchSize \in Nat
  BY ExtractAssumption
<1>5. Len(c) <= BatchSize
  BY <1>3, <1>4 DEF FetchIn
<1>6. ASSUME NEW k \in 1..Len(c), c[k].type = "record"
      PROVE  c[k].value \in 1..Size[c[k].stream]
  <2>1. k + 1 \in 1..Len(f.chan) /\ c[k] = f.chan[k + 1]
    BY <1>3
  <2> QED
    BY <1>6, <2>1 DEF FetchIn
<1>7. Ids(g.records) \subseteq Source
  <2>1. CASE g.records = f.records
    BY <2>1 DEF FetchIn
  <2>2. CASE m.type = "record" /\ g.records = Append(f.records, Record(m.stream, m.value))
    <3>1. m.stream \in Streams
      BY <1>3 DEF Msgs
    <3>2. m.value \in 1..Size[m.stream]
      BY <1>3, <2>2 DEF FetchIn
    <3>3. Record(m.stream, m.value) \in Source
      BY <3>1, <3>2, RecordOfSource
    <3>4. Record(m.stream, m.value) \in Recs
      BY <1>3, RecordTyped
    <3>5. Ids(g.records) = Ids(f.records) \cup {Record(m.stream, m.value)}
      BY <1>1, <2>2, <3>4, IdsAppend
    <3> QED
      BY <3>3, <3>5 DEF FetchIn
  <2> QED
    BY <1>2, <2>1, <2>2
<1> QED
  BY <1>2, <1>5, <1>6, <1>7 DEF FetchIn

(* A new attempt has received nothing.                                      *)
LEMMA NewFetchIn ==
  ASSUME NEW st, NEW n
  PROVE  /\ FetchIn(NewFetch(st, n)) /\ FetchIn(NoFetch)
         /\ FetchIn([NoFetch EXCEPT !.pc = "failed"])
<1>1. BatchSize \in Nat
  BY ExtractAssumption
<1>2. ASSUME NEW f, f.chan = <<>>, f.records = <<>>, f.pc # "emit"
      PROVE  FetchIn(f)
  <2>1. Len(<<>>) = 0 /\ Ids(<<>>) = {}
    BY DEF Ids
  <2> QED
    BY <1>1, <1>2, <2>1 DEF FetchIn
<1>3. \A s, k : /\ NewFetch(s, k).chan = <<>> /\ NewFetch(s, k).records = <<>>
                /\ NewFetch(s, k).pc # "emit"
  BY DEF NewFetch
<1>4. NoFetch.chan = <<>> /\ NoFetch.records = <<>> /\ NoFetch.pc # "emit"
  BY DEF NewFetch, NoFetch
<1>5. PICK f : f = [NoFetch EXCEPT !.pc = "failed"]
  OBVIOUS
<1>6. f.chan = <<>> /\ f.records = <<>> /\ f.pc # "emit"
  BY <1>5 DEF NewFetch, NoFetch
<1> QED
  BY <1>2, <1>3, <1>4, <1>5, <1>6

(* Every step of a fetch reads only what is there, and waits for room.      *)
LEMMA FetchStepIn ==
  ASSUME ExtractInv, NEW p \in Fetchers, FetchIn(fetch[p]), FetchStep(p)
  PROVE  FetchIn(fetch'[p]) /\ \A q \in Fetchers \ {p} : fetch'[q] = fetch[q]
<1> DEFINE f == fetch[p]
           g == fetch'[p]
<1>1. FetchType(f) /\ DOMAIN fetch = Fetchers /\ DOMAIN f = FetchFields
  BY DEF ExtractInv, FetchType
<1>2. f.stream \in Nat \ {0} /\ f.next \in Nat \ {0} /\ f.chan \in Seq(Msgs)
  BY <1>1 DEF FetchType
<1>3. CASE ReadStream(p) \/ FetchReturns(p)
  <2>1. /\ \A q \in Fetchers \ {p} : fetch'[q] = fetch[q]
        /\ g.chan = f.chan /\ g.records = f.records /\ g.pc # "emit"
    BY <1>1, <1>3 DEF ReadStream, FetchReturns, FetchFields
  <2> QED
    BY <2>1 DEF FetchIn
<1>4. CASE ReadPage(p)
  <2>1. /\ \A q \in Fetchers \ {p} : fetch'[q] = fetch[q]
        /\ g.chan = f.chan /\ g.records = f.records /\ g.stream = f.stream /\ g.next = f.next
        /\ f.pc = "page"
        /\ g.pc = "emit" => /\ f.next <= Size[f.stream]
                            /\ g.left = Clamp(Size[f.stream] - f.next + 1, 0, PageSize)
    BY <1>1, <1>4 DEF ReadPage, FetchFields
  <2>2. f.stream \in Streams
    BY <1>1, <2>1 DEF FetchType
  <2>3. PICK z \in Nat : z = Size[f.stream]
    BY <2>2, ExtractAssumption
  <2>4. PICK s \in Nat \ {0} : s = PageSize
    BY ExtractAssumption
  <2>5. ASSUME g.pc = "emit"
        PROVE  g.left \in Nat \ {0} /\ g.next + g.left <= z + 1
    <3>1. PICK n, l : n = f.next /\ l = g.left /\ n \in Nat \ {0}
      BY <1>2
    <3>2. n <= z /\ l = Clamp(z - n + 1, 0, s)
      BY <2>1, <2>3, <2>4, <2>5, <3>1
    <3>3. l \in Nat \ {0} /\ n + l <= z + 1
      BY <3>1, <3>2 DEF Clamp
    <3> QED
      BY <2>1, <3>1, <3>3
  <2> QED
    BY <2>1, <2>3, <2>5 DEF FetchIn
<1>5. CASE ReadEmit(p)
  <2> DEFINE m == [type |-> "record", stream |-> f.stream, value |-> f.next]
  <2>1. /\ \A q \in Fetchers \ {p} : fetch'[q] = fetch[q]
        /\ g.chan = Append(f.chan, m) /\ g.records = f.records
        /\ g.stream = f.stream /\ g.next = f.next + 1 /\ g.left = f.left - 1
        /\ f.pc = "emit" /\ (g.pc = "emit" => f.left > 1)
    BY <1>1, <1>5 DEF ReadEmit, Send, FetchFields
  <2>2. Len(f.chan) < BatchSize
    BY <1>5 DEF ReadEmit, HasRoom
  <2>3. f.stream \in Streams /\ f.left \in Nat \ {0} /\ f.next + f.left <= Size[f.stream] + 1
    BY <1>1, <2>1 DEF FetchType, FetchIn
  <2>4. PICK z \in Nat : z = Size[f.stream]
    BY <2>3, ExtractAssumption
  <2>5. f.next \in 1..z /\ (f.left > 1 => g.left \in Nat \ {0} /\ g.next + g.left <= z + 1)
    <3>1. PICK n, l \in Nat \ {0} : n = f.next /\ l = f.left
      BY <1>2, <2>3
    <3>2. n + l <= z + 1 /\ g.left = l - 1 /\ g.next = n + 1
      BY <2>1, <2>3, <2>4, <3>1
    <3>3. n \in 1..z /\ (l > 1 => l - 1 \in Nat \ {0} /\ (n + 1) + (l - 1) <= z + 1)
      BY <3>2
    <3> QED
      BY <3>1, <3>2, <3>3
  <2>6. m \in Msgs /\ m.value = f.next /\ m.stream = f.stream
    BY <1>2, <2>3 DEF Msgs
  <2> HIDE DEF m
  <2>7. FetchIn(g)
    BY <1>1, <2>1, <2>2, <2>4, <2>5, <2>6, SendIn
  <2> QED
    BY <2>1, <2>7
<1>6. CASE ReadState(p)
  <2> DEFINE m == [type |-> "state", stream |-> f.stream, value |-> f.next - 1]
  <2>1. /\ \A q \in Fetchers \ {p} : fetch'[q] = fetch[q]
        /\ g.records = f.records /\ f.pc = "state" /\ g.pc = "stream"
        /\ g.chan = f.chan \/ (g.chan = Append(f.chan, m) /\ Len(f.chan) < BatchSize)
    BY <1>1, <1>6 DEF ReadState, Send, FetchFields, HasRoom
  <2>2. m \in Msgs /\ m.type = "state"
    BY <1>1, <1>2, <2>1 DEF Msgs, FetchType
  <2> HIDE DEF m
  <2>3. CASE g.chan = f.chan
    BY <2>1, <2>3 DEF FetchIn
  <2>4. CASE g.chan = Append(f.chan, m) /\ Len(f.chan) < BatchSize
    BY <1>1, <2>1, <2>2, <2>4, SendIn
  <2> QED
    BY <2>1, <2>3, <2>4
<1>7. CASE ReadLog(p)
  <2> DEFINE m == [type |-> "log", stream |-> f.stream, value |-> 0]
  <2>1. /\ \A q \in Fetchers \ {p} : fetch'[q] = fetch[q]
        /\ g.records = f.records /\ f.pc = "log" /\ g.pc = "stream"
        /\ g.chan = Append(f.chan, m) /\ Len(f.chan) < BatchSize
    BY <1>1, <1>7 DEF ReadLog, Send, FetchFields, HasRoom
  <2>2. m \in Msgs /\ m.type = "log"
    BY <1>1, <2>1 DEF Msgs, FetchType
  <2> HIDE DEF m
  <2> QED
    BY <1>1, <2>1, <2>2, SendIn
<1>8. CASE Receive(p)
  <2> DEFINE m == Head(f.chan)
             r == Record(m.stream, m.value)
  <2>1. f.chan # <<>>
    BY <1>8 DEF Receive
  <2>2. /\ \A q \in Fetchers \ {p} : fetch'[q] = fetch[q]
        /\ g.chan = Tail(f.chan) /\ g.pc = f.pc /\ g.stream = f.stream /\ g.next = f.next
        /\ g.left = f.left
        /\ g.records = f.records \/ (m.type = "record" /\ g.records = Append(f.records, r))
    <3>1. m.type \in {"record", "state", "log"}
      BY <1>8 DEF Receive
    <3>2. CASE m.type = "record"
      <4>1. fetch' = [fetch EXCEPT ![p] = [f EXCEPT !.chan = Tail(f.chan),
                          !.records = Append(f.records, r),
                          !.hasMore = @ \/ Len(Append(f.records, r)) >= BatchSize,
                          !.cancelled = @ \/ Len(Append(f.records, r)) >= BatchSize]]
        BY <1>1, <1>8, <3>2 DEF Receive, FetchFields
      <4> QED
        BY <1>1, <3>2, <4>1 DEF FetchFields
    <3>3. CASE m.type = "state"
      <4>1. fetch' = [fetch EXCEPT ![p] = [f EXCEPT !.chan = Tail(f.chan), !.newState[m.stream] = m.value]]
        BY <1>1, <1>8, <3>3 DEF Receive, FetchFields
      <4> QED
        BY <1>1, <4>1 DEF FetchFields
    <3>4. CASE m.type = "log"
      <4>1. fetch' = [fetch EXCEPT ![p] = [f EXCEPT !.chan = Tail(f.chan)]]
        BY <1>1, <1>8, <3>4 DEF Receive, FetchFields
      <4> QED
        BY <1>1, <4>1 DEF FetchFields
    <3> QED
      BY <3>1, <3>2, <3>3, <3>4
  <2> QED
    BY <1>1, <2>1, <2>2, ReceiveIn
<1> QED
  BY <1>3, <1>4, <1>5, <1>6, <1>7, <1>8 DEF FetchStep

(* What is taken from a returned fetch is of the source.                    *)
LEMMA TakeIn ==
  ASSUME ExtractInv, SourceInv, NEW p \in Fetchers, Take(p)
  PROVE  Ids(allRecords') \subseteq Source
<1>1. /\ allRecords \in Seq(Recs) /\ fetch[p].records \in Seq(Recs)
      /\ Ids(allRecords) \subseteq Source /\ Ids(fetch[p].records) \subseteq Source
  BY DEF ExtractInv, SourceInv, FetchType, FetchIn
<1>2. allRecords' = allRecords \o fetch[p].records
  BY DEF Take
<1>3. Ids(allRecords') = Ids(allRecords) \cup Ids(fetch[p].records)
  BY <1>1, <1>2, IdsConcat
<1> QED
  BY <1>1, <1>3

(* A sync begins with nothing read.                                          *)
LEMMA SourceInvInit == Init => SourceInv
<1> SUFFICES ASSUME Init PROVE SourceInv
  OBVIOUS
<1>1. /\ phase = "extract" /\ childRun = 1 /\ wpc = "partition" /\ collected = 0 /\ batches = 1
      /\ allRecords = <<>> /\ fetch = [p \in Fetchers |-> NoFetch]
  BY DEF Init, ExtractInit
<1>2. MaxChildRuns \in Nat \ {0} /\ maxPartitionsLimit \in Nat /\ MaxBatches \in Nat \ {0}
  BY PipelineAssumption, ExtractAssumption
<1>3. Ids(<<>>) = {}
  BY DEF Ids
<1>4. \A p \in Fetchers : FetchIn(fetch[p])
  BY <1>1, NewFetchIn
<1> QED
  BY <1>1, <1>2, <1>3, <1>4 DEF SourceInv

(* Every step of the extract phase keeps what is read within the source.    *)
LEMMA ExtractPhaseIn ==
  ASSUME ExtractInv, SourceInv, ExtractPhase
  PROVE  SourceInv'
<1>1. UNCHANGED <<phase, childRun>> /\ ExtractNext
  BY DEF ExtractPhase
<1>2. MaxChildRuns \in Nat \ {0} /\ maxPartitionsLimit \in Nat /\ MaxBatches \in Nat \ {0}
  BY PipelineAssumption, ExtractAssumption
<1>3. ASSUME NEW d \in Discovered, DeterminePartitions(d)
      PROVE  SourceInv'
  <2>1. /\ \A p \in Fetchers : fetch'[p] = NewFetch(Start, 1) \/ fetch'[p] = NoFetch
        /\ wpc' = "fetching" /\ UNCHANGED <<collected, batches, allRecords>>
    BY <1>3 DEF DeterminePartitions
  <2>2. \A p \in Fetchers : FetchIn(fetch'[p])
    BY <2>1, NewFetchIn
  <2> QED
    BY <1>1, <2>1, <2>2 DEF SourceInv, Ids
<1>4. CASE DeterminePartitionsFails
  <2>1. /\ \A p \in Fetchers : fetch'[p] = NewFetch(Start, 1) \/ fetch'[p] = fetch[p]
        /\ wpc' = "fetching" /\ UNCHANGED <<collected, batches, allRecords>>
    BY <1>4 DEF DeterminePartitionsFails, ExtractInv
  <2>2. \A p \in Fetchers : FetchIn(fetch'[p])
    BY <2>1, NewFetchIn DEF SourceInv
  <2> QED
    BY <1>1, <2>1, <2>2 DEF SourceInv, Ids
<1>5. ASSUME NEW p \in Fetchers, FetchStep(p)
      PROVE  SourceInv'
  <2>1. FetchIn(fetch'[p]) /\ \A q \in Fetchers \ {p} : fetch'[q] = fetch[q]
    BY <1>5, FetchStepIn DEF SourceInv
  <2>2. \A q \in Fetchers : FetchIn(fetch'[q])
    BY <2>1 DEF SourceInv
  <2>3. UNCHANGED <<wpc, collected, batches, allRecords>>
    BY <1>5 DEF FetchStep
  <2> QED
    BY <1>1, <2>2, <2>3 DEF SourceInv, Ids
<1>6. ASSUME NEW p \in Fetchers, FetchLost(p)
      PROVE  SourceInv'
  <2>1. /\ \A q \in Fetchers : \/ fetch'[q] = fetch[q]
                               \/ fetch'[q] = NewFetch(InputState, fetch[p].attempt + 1)
                               \/ fetch'[q] = [NoFetch EXCEPT !.pc = "failed"]
        /\ UNCHANGED <<wpc, collected, batches, allRecords>>
    BY <1>6 DEF FetchLost, AttemptLost, ExtractInv
  <2>2. \A q \in Fetchers : FetchIn(fetch'[q])
    BY <2>1, NewFetchIn DEF SourceInv
  <2> QED
    BY <1>1, <2>1, <2>2 DEF SourceInv, Ids
<1>7. CASE CollectBatch
  <2>1. 1 \in Fetchers
    BY ExtractAssumption DEF Fetchers
  <2>2. Ids(allRecords') \subseteq Source
    BY <1>7, <2>1, TakeIn DEF CollectBatch
  <2>3. /\ \A p \in Fetchers : \/ fetch'[p] = fetch[p]
                               \/ fetch'[p] = NewFetch(currentState', 1)
                               \/ fetch'[p] = NoFetch
        /\ UNCHANGED collected /\ (wpc' = wpc \/ wpc' = "save")
        /\ batches' = batches \/ (batches < MaxBatches /\ batches' = batches + 1)
    BY <1>7 DEF CollectBatch, ExtractInv
  <2>4. \A p \in Fetchers : FetchIn(fetch'[p])
    BY <2>3, NewFetchIn DEF SourceInv
  <2>5. batches' \in 1..MaxBatches
    BY <1>2, <2>3 DEF SourceInv
  <2> QED
    BY <1>1, <2>2, <2>3, <2>4, <2>5 DEF SourceInv, Ids
<1>8. CASE CollectPartition
  <2>1. collected + 1 \in Fetchers /\ collected + 1 <= maxPartitionsLimit
    BY <1>8, ExtractAssumption DEF CollectPartition, ExtractInv, Fetchers
  <2>2. Ids(allRecords') \subseteq Source
    BY <1>8, <2>1, TakeIn DEF CollectPartition
  <2>3. /\ \A p \in Fetchers : fetch'[p] = fetch[p] \/ fetch'[p] = NoFetch
        /\ collected' = collected + 1 /\ UNCHANGED batches /\ (wpc' = wpc \/ wpc' = "save")
    BY <1>8 DEF CollectPartition, ExtractInv
  <2>4. \A p \in Fetchers : FetchIn(fetch'[p])
    BY <2>3, NewFetchIn DEF SourceInv
  <2> QED
    BY <1>1, <2>1, <2>2, <2>3, <2>4 DEF SourceInv, Ids
<1>9. CASE CollectFails \/ SaveCheckpoint \/ ExtractTimesOut
  <2>1. /\ wpc' \in {"extracted", "failed"}
        /\ UNCHANGED <<fetch, collected, batches, allRecords>>
    BY <1>9 DEF CollectFails, SaveCheckpoint, ExtractTimesOut
  <2> QED
    BY <1>1, <2>1 DEF SourceInv, Ids
<1> QED
  BY <1>1, <1>3, <1>4, <1>5, <1>6, <1>7, <1>8, <1>9 DEF ExtractNext, ExtractStep

(* Every step of a sync keeps what is read within the source.               *)
LEMMA SourceInvNext == ExtractInv /\ SourceInv /\ [Next]_vars => SourceInv'
<1> SUFFICES ASSUME ExtractInv, SourceInv, [Next]_vars PROVE SourceInv'
  OBVIOUS
<1>1. MaxChildRuns \in Nat \ {0} /\ maxPartitionsLimit \in Nat /\ MaxBatches \in Nat \ {0}
  BY PipelineAssumption, ExtractAssumption
<1>2. CASE ExtractRetries
  <2>1. /\ phase' = phase /\ childRun < MaxChildRuns /\ childRun' = childRun + 1
        /\ wpc' = "partition" /\ collected' = 0 /\ batches' = 1
        /\ allRecords' = <<>> /\ fetch' = [p \in Fetchers |-> NoFetch]
    BY <1>2 DEF ExtractRetries, ExtractAgain
  <2>2. \A p \in Fetchers : FetchIn(fetch'[p])
    BY <2>1, NewFetchIn
  <2>3. Ids(<<>>) = {}
    BY DEF Ids
  <2>4. childRun' \in 1..MaxChildRuns
    BY <1>1, <2>1 DEF SourceInv
  <2> QED
    BY <1>1, <2>1, <2>2, <2>3, <2>4 DEF SourceInv, Ids
<1>3. CASE ExtractReturns \/ MapFieldsReturns \/ CoerceTypesReturns \/ DeduplicateReturns
             \/ LoadPhase \/ LoadReturns \/ SyncFails \/ UNCHANGED vars
  <2>1. /\ UNCHANGED <<wpc, fetch, collected, batches, allRecords>>
        /\ phase' = phase \/ phase' \in {"map", "coerce", "dedup", "load", "completed", "failed"}
        /\ childRun' = childRun \/ childRun' = 1
    BY <1>3 DEF ExtractReturns, MapFieldsReturns, CoerceTypesReturns, DeduplicateReturns,
                LoadPhase, LoadReturns, SyncFails, vars, extractVars
  <2> QED
    BY <1>1, <2>1 DEF SourceInv, TransformPhases, Ids
<1>4. CASE TransformRetries \/ LoadRetries
  <2>1. /\ UNCHANGED <<wpc, fetch, collected, batches, allRecords>>
        /\ phase' = phase \/ phase' = "map"
        /\ childRun < MaxChildRuns /\ childRun' = childRun + 1
    BY <1>4 DEF TransformRetries, LoadRetries, extractVars
  <2>2. childRun' \in 1..MaxChildRuns
    BY <1>1, <2>1 DEF SourceInv
  <2> QED
    BY <2>1, <2>2 DEF SourceInv, TransformPhases, Ids
<1> QED
  BY <1>2, <1>3, <1>4, ExtractPhaseIn DEF Next, Done

-----------------------------------------------------------------------------
(* The inductive invariant of a sync. *)
SyncInv == ExtractInv /\ TransformInv /\ SourceInv /\ LoadInv

(* The invariant holds in every state of a sync.                             *)
LEMMA SyncInvHolds == Spec => []SyncInv
<1>1. Init => SyncInv
  BY ExtractInvInit, TransformInvInit, SourceInvInit, LoadInvInit DEF SyncInv
<1>2. SyncInv /\ [Next]_vars => SyncInv'
  BY ExtractInvNext, TransformInvNext, SourceInvNext, LoadInvNext DEF SyncInv
<1> QED
  BY <1>1, <1>2, PTL DEF Spec

(* For any configuration and any failures the variables of a sync keep      *)
(* their types: no channel of FetchBatchActivity passes its capacity,       *)
(* LoadWorkflow counts no more records than it was given, and nothing is    *)
(* read or stored that the source does not have.                            *)
THEOREM PipelineTypes == Spec => []TypeOK
<1>1. SyncInv => TypeOK
  <2> SUFFICES ASSUME SyncInv PROVE TypeOK
    OBVIOUS
  <2>1. collected \in 0..maxPartitionsLimit
    BY ExtractAssumption DEF SyncInv, ExtractInv, SourceInv
  <2>2. \A p \in Fetchers : Len(fetch[p].chan) <= BatchSize
    BY DEF SyncInv, SourceInv, FetchIn
  <2>3. {d.rec : d \in dest} \subseteq Source
    BY DEF SyncInv, LoadInv
  <2> QED
    BY <2>1, <2>2, <2>3 DEF SyncInv, ExtractInv, SourceInv, LoadInv, TypeOK, States
<1> QED
  BY <1>1, SyncInvHolds, PTL

(* However the partitions, all of which read the same records, overlap: of  *)
(* a stream with a key LoadWorkflow is given no record twice.               *)
THEOREM KeysAreLoadedOnce == Spec => []KeyedLoadedOnce
<1>1. SyncInv => KeyedLoadedOnce
  BY DEF SyncInv, TransformInv
<1> QED
  BY <1>1, SyncInvHolds, PTL

(* For any source, batch sizes, mappings, coercions, texts of keys and      *)
(* failures: a sync that completes without errors, and of whose load no     *)
(* connector counted what it did not store, has stored every record that    *)
(* its checkpoint covers, or another of its stream whose key makes the same *)
(* text.                                                                    *)
THEOREM CleanSyncStoresAll == Spec => []CleanSyncIsComplete
<1>1. SyncInv => CleanSyncIsComplete
  <2> SUFFICES ASSUME SyncInv, phase = "completed", ~Errors, ~overcounted, NEW r \in Source,
                      Start[r.stream] < r.id, r.id <= currentState[r.stream]
               PROVE  \E d \in dest : d.rec = r \/ SharesText(d, r)
    BY Zenon DEF CleanSyncIsComplete, SharesText
  <2>1. transformErrors # TRUE /\ loadErrors # TRUE /\ overcounted # TRUE
    BY Zenon DEF Errors
  <2>2. r \in Ids(allRecords)
    <3>1. PICK s \in Streams : \E i \in 1..Size[s] : r = Record(s, i)
      BY DEF Source
    <3>2. PICK i \in 1..Size[s] : r = Record(s, i)
      BY <3>1
    <3>3. r.stream = s /\ r.id = i /\ i \in Nat
      BY <3>2, ExtractAssumption DEF Record
    <3> QED
      BY <3>2, <3>3 DEF SyncInv, ExtractInv, Covered, Backed
  <2>3. PICK i \in DOMAIN records : records[i].rec = r \/ SharesText(records[i], r)
    BY <2>1, <2>2 DEF SyncInv, TransformInv, Holds
  <2>4. /\ records \in Seq(Items) /\ toLoad = splitIntoBatches(records)
        /\ gathered = Len(toLoad) /\ totalLoaded = Len(records)
        /\ overcounted # TRUE /\ totalLoaded = UpTo(Len(records), gathered) =>
              \A b \in 1..gathered : Ids(toLoad[b]) \subseteq dest
    BY <2>1 DEF SyncInv, TransformInv, LoadInv, BatchesInv
  <2>5. PICK n \in Nat :
           /\ DOMAIN toLoad = 1..n /\ Len(toLoad) = n
           /\ UpTo(Len(records), n) = Len(records)
           /\ \A b \in 1..n : IsBatch(toLoad[b], records, UpTo(Len(records), b - 1), UpTo(Len(records), b))
           /\ \A k \in 1..Len(records) : \E b \in 1..n :
                 UpTo(Len(records), b - 1) < k /\ k <= UpTo(Len(records), b)
    BY <2>4, ToLoadIs
  <2>6. i \in 1..Len(records)
    BY <2>4
  <2>7. PICK b \in 1..n : UpTo(Len(records), b - 1) < i /\ i <= UpTo(Len(records), b)
    BY <2>5, <2>6
  <2>8. PICK from, to : from = UpTo(Len(records), b - 1) /\ to = UpTo(Len(records), b)
    OBVIOUS
  <2>9. /\ from \in Nat /\ to \in Nat /\ DOMAIN toLoad[b] = 1..(to - from)
        /\ \A k \in 1..(to - from) : toLoad[b][k] = records[from + k]
    BY <2>5, <2>7, <2>8 DEF IsBatch
  <2>10. i \in Nat /\ from < i /\ i <= to
    BY <2>6, <2>7, <2>8
  <2>11. i - from \in 1..(to - from) /\ from + (i - from) = i
    BY <2>9, <2>10
  <2>12. records[i] \in Ids(toLoad[b])
    BY <2>9, <2>11 DEF Ids
  <2>13. Ids(toLoad[b]) \subseteq dest
    BY <2>1, <2>4, <2>5
  <2> QED
    BY <2>3, <2>12, <2>13
<1> QED
  BY <1>1, SyncInvHolds, PTL

=============================================================================
