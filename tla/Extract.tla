------------------------------ MODULE Extract ------------------------------
(***************************************************************************)
(* The extract phase of a sync: ExtractWorkflow with its sequential and    *)
(* its partitioned way of fetching (internal/orchestration/workflows/      *)
(* extract.go), the activities it calls (activities/extract_activities.go) *)
(* and the Read of a source connector (connectors/hubspot/hubspot.go,      *)
(* whose shape the other connectors share).                                *)
(*                                                                         *)
(* One FetchBatchActivity is two goroutines on a bounded channel: Read     *)
(* sends records, states and logs, the activity receives them, cancels     *)
(* the read when the batch is full and goes on receiving until the channel *)
(* is closed.  The records of stream s are 1..Size[s] in the order of      *)
(* their modification time, which is also what the connector's state       *)
(* holds; a state of 0 is an absent key.  The source does not change while *)
(* a sync reads it.                                                        *)
(***************************************************************************)
EXTENDS Naturals, Sequences, FiniteSets

CONSTANTS NumStreams,     \* the configured streams are 1..NumStreams, in order
          Size,           \* Size[s]: records the source holds for stream s
          Start,          \* params.State, the checkpoint the sync starts from
          Incremental,    \* streams read by readViaSearch, the others by readViaList
          BatchSize,      \* params.BatchSize, also the capacity of the channel
          PageSize,       \* records in a page of the source's API
          Discovered,     \* how many streams Discover may find
          PerStream,      \* records DeterminePartitions assumes in a stream
          DefaultBatchSize, maxPartitionsLimit,
          MaxAttempts,    \* attempts of FetchBatchActivity
          MaxBatches,     \* bound: batches a sequential extraction fetches
          ApiMayFail      \* whether requests for a page may fail

Streams == 1..NumStreams
Fetchers == 1..maxPartitionsLimit

ASSUME ExtractAssumption ==
    /\ NumStreams \in Nat /\ Size \in [Streams -> Nat] /\ Start \in [Streams -> Nat]
    /\ \A s \in Streams : Start[s] <= Size[s]
    /\ Incremental \subseteq Streams
    /\ \A n \in {BatchSize, PageSize, PerStream, DefaultBatchSize,
                 maxPartitionsLimit, MaxAttempts, MaxBatches} : n \in Nat \ {0}
    /\ Discovered \subseteq Nat
    /\ ApiMayFail \in BOOLEAN

VARIABLES
    wpc,          \* where ExtractWorkflow is
    estimate,     \* totalEstimate of DeterminePartitions
    parts,        \* partitionsOutput.Partitions
    fetch,        \* the FetchBatchActivity of each future
    collected,    \* futures of the partitions whose result was taken
    batches,      \* batches the sequential loop has asked for
    allRecords,   \* records taken from the futures
    currentState  \* state merged from the futures

extractVars == <<wpc, estimate, parts, fetch, collected, batches, allRecords,
                 currentState>>

Record(s, i) == [stream |-> s, id |-> i]
Source == UNION {{Record(s, i) : i \in 1..Size[s]} : s \in Streams}
Ids(recs) == {recs[i] : i \in DOMAIN recs}

-----------------------------------------------------------------------------
(* DeterminePartitionsActivity *)

Clamp(n, low, high) == IF n < low THEN low ELSE IF n > high THEN high ELSE n

(* Mutant of Partitions: the last partition does not get the remainder. *)
PartitionsNoRemainder(total) ==
    LET n   == Clamp(total \div DefaultBatchSize, 1, maxPartitionsLimit)
        per == total \div n
    IN  [i \in 1..n |-> [offset |-> (i - 1) * per, limit |-> per]]

(* The ranges the estimated records are divided into. *)
Partitions(total) ==
    LET n   == Clamp(total \div DefaultBatchSize, 1, maxPartitionsLimit)
        per == total \div n
    IN  [i \in 1..n |->
           [offset |-> (i - 1) * per,
            limit  |-> IF i = n THEN total - (i - 1) * per ELSE per]]

usePartitions == Len(parts) > 1

-----------------------------------------------------------------------------
(* FetchBatchActivity *)

Running == {"stream", "page", "emit", "state", "log", "exited"}

(* An attempt: where Read is, the channel, what the activity has received. *)
NewFetch(state, n) ==
    [pc |-> "stream", attempt |-> n, stream |-> 1, next |-> 1, left |-> 0,
     sent |-> FALSE, cancelled |-> FALSE, readErr |-> FALSE, chan |-> <<>>,
     records |-> <<>>, newState |-> state, hasMore |-> FALSE]

NoFetch == [NewFetch(Start, 1) EXCEPT !.pc = "idle"]

(* The state an attempt is given: the partitions all start from params.State. *)
InputState == IF usePartitions THEN Start ELSE currentState

HasRoom(p) == Len(fetch[p].chan) < BatchSize
Send(p, type, value) ==
    Append(fetch[p].chan, [type |-> type, stream |-> fetch[p].stream, value |-> value])

(* Read, the next stream of the catalog, unless the context is done. *)
ReadStream(p) ==
    LET f == fetch[p] IN
    /\ f.pc = "stream"
    /\ \/ /\ f.stream > NumStreams
          /\ fetch' = [fetch EXCEPT ![p].pc = "exited"]
       \/ /\ f.stream <= NumStreams /\ f.cancelled
          /\ fetch' = [fetch EXCEPT ![p].pc = "exited", ![p].readErr = TRUE]
       \/ /\ f.stream <= NumStreams /\ ~f.cancelled
          /\ fetch' = [fetch EXCEPT ![p].pc = "page",
                ![p].sent = FALSE,
                ![p].next = IF f.stream \in Incremental /\ InputState[f.stream] > 0
                            THEN InputState[f.stream] ELSE 1]

(* readViaSearch, readViaList: one page is asked for; an error, and a done  *)
(* context is one, is logged and ends the stream; an answer without results *)
(* is taken for the end of the stream.                                      *)
ReadPage(p) ==
    LET f == fetch[p] IN
    /\ f.pc = "page"
    /\ \/ /\ f.cancelled \/ ApiMayFail
          /\ fetch' = [fetch EXCEPT ![p].pc = "log"]
       \/ /\ ~f.cancelled /\ (f.next > Size[f.stream] \/ ApiMayFail)
          /\ fetch' = [fetch EXCEPT ![p].pc = "state"]
       \/ /\ ~f.cancelled /\ f.next <= Size[f.stream]
          /\ fetch' = [fetch EXCEPT ![p].pc = "emit",
                ![p].left = Clamp(Size[f.stream] - f.next + 1, 0, PageSize)]

(* A record of the page is sent; the context is not looked at in between. *)
ReadEmit(p) ==
    LET f == fetch[p] IN
    /\ f.pc = "emit" /\ HasRoom(p)
    /\ fetch' = [fetch EXCEPT
          ![p].chan = Send(p, "record", f.next),
          ![p].next = f.next + 1,
          ![p].left = f.left - 1,
          ![p].sent = TRUE,
          ![p].pc = IF f.left > 1 THEN "emit"
                    ELSE IF f.next < Size[f.stream] THEN "page" ELSE "state"]

(* The end of a stream: an incremental read that sent records sends the     *)
(* newest modification time among them as the stream's state.               *)
ReadState(p) ==
    LET f == fetch[p] IN
    /\ f.pc = "state"
    /\ \/ /\ f.stream \in Incremental /\ f.sent /\ HasRoom(p)
          /\ fetch' = [fetch EXCEPT ![p].chan = Send(p, "state", f.next - 1),
                                    ![p].stream = f.stream + 1, ![p].pc = "stream"]
       \/ /\ ~(f.stream \in Incremental /\ f.sent)
          /\ fetch' = [fetch EXCEPT ![p].stream = f.stream + 1, ![p].pc = "stream"]

(* The error of a stream is sent as a log message and Read goes on. *)
ReadLog(p) ==
    LET f == fetch[p] IN
    /\ f.pc = "log" /\ HasRoom(p)
    /\ fetch' = [fetch EXCEPT ![p].chan = Send(p, "log", 0),
                              ![p].stream = f.stream + 1, ![p].pc = "stream"]

(* Mutant of Receive: nothing is received once the batch is full. *)
ReceiveUntilFull(p) ==
    LET f == fetch[p]
        m == Head(f.chan)
        recs == IF m.type = "record" THEN Append(f.records, Record(m.stream, m.value))
                ELSE f.records
    IN  /\ f.chan # <<>> /\ ~f.cancelled
        /\ fetch' = [fetch EXCEPT ![p].chan = Tail(f.chan), ![p].records = recs,
              ![p].hasMore = Len(recs) >= BatchSize,
              ![p].cancelled = Len(recs) >= BatchSize]

(* Mutant of Receive: records after the limit are dropped, states are kept. *)
ReceiveTruncated(p) ==
    LET f == fetch[p]
        m == Head(f.chan)
    IN  /\ f.chan # <<>>
        /\ \/ /\ m.type = "record" /\ Len(f.records) < BatchSize
              /\ fetch' = [fetch EXCEPT ![p].chan = Tail(f.chan),
                    ![p].records = Append(f.records, Record(m.stream, m.value)),
                    ![p].hasMore = Len(f.records) + 1 = BatchSize,
                    ![p].cancelled = Len(f.records) + 1 = BatchSize]
           \/ /\ m.type = "state"
              /\ fetch' = [fetch EXCEPT ![p].chan = Tail(f.chan),
                                        ![p].newState[m.stream] = m.value]
           \/ /\ m.type = "log" \/ (m.type = "record" /\ Len(f.records) = BatchSize)
              /\ fetch' = [fetch EXCEPT ![p].chan = Tail(f.chan)]

(* The activity's receive loop: a full batch cancels the read, and what is  *)
(* still in the channel, or sent before Read looks, is received all the same. *)
Receive(p) ==
    LET f == fetch[p]
        m == Head(f.chan)
    IN  /\ f.chan # <<>>
        /\ \/ LET recs == Append(f.records, Record(m.stream, m.value))
                  full == Len(recs) >= BatchSize
              IN  /\ m.type = "record"
                  /\ fetch' = [fetch EXCEPT ![p].chan = Tail(f.chan),
                        ![p].records = recs,
                        ![p].hasMore = f.hasMore \/ full,
                        ![p].cancelled = f.cancelled \/ full]
           \/ /\ m.type = "state"
              /\ fetch' = [fetch EXCEPT ![p].chan = Tail(f.chan),
                                        ![p].newState[m.stream] = m.value]
           \/ /\ m.type = "log"
              /\ fetch' = [fetch EXCEPT ![p].chan = Tail(f.chan)]

(* The channel is closed and empty: the batch is the activity's answer,     *)
(* unless Read failed for another reason than the full batch.               *)
FetchReturns(p) ==
    LET f == fetch[p] IN
    /\ f.pc = "exited" /\ f.chan = <<>>
    /\ f.readErr => f.hasMore
    /\ fetch' = [fetch EXCEPT ![p].pc = "returned"]

(* The attempt is lost (its worker stops, it times out, the connector is    *)
(* misconfigured) and the server makes another one or gives up.             *)
AttemptLost(p) ==
    LET f == fetch[p] IN
    /\ f.pc \in Running
    /\ fetch' = [fetch EXCEPT ![p] =
          IF f.attempt < MaxAttempts THEN NewFetch(InputState, f.attempt + 1)
          ELSE [NoFetch EXCEPT !.pc = "failed"]]

FetchStep(p) ==
    /\ \/ ReadStream(p) \/ ReadPage(p) \/ ReadEmit(p) \/ ReadState(p) \/ ReadLog(p)
       \/ Receive(p) \/ FetchReturns(p)
    /\ UNCHANGED <<wpc, estimate, parts, collected, batches, allRecords, currentState>>

FetchLost(p) ==
    /\ AttemptLost(p)
    /\ UNCHANGED <<wpc, estimate, parts, collected, batches, allRecords, currentState>>

-----------------------------------------------------------------------------
(* ExtractWorkflow *)

(* mergeStateRaw: the keys of the source overwrite those of the target. *)
mergeStateRaw(target, source) ==
    [s \in Streams |-> IF source[s] > 0 THEN source[s] ELSE target[s]]

(* DeterminePartitions answered d discovered streams; more than one range   *)
(* makes the workflow start a fetch for each, else the sequential loop runs. *)
DeterminePartitions(d) ==
    /\ wpc = "partition"
    /\ estimate' = d * PerStream
    /\ parts' = Partitions(estimate')
    /\ fetch' = [p \in Fetchers |-> IF p <= Len(parts') THEN NewFetch(Start, 1) ELSE NoFetch]
    /\ wpc' = "fetching"
    /\ UNCHANGED <<collected, batches, allRecords, currentState>>

(* Its failure only means that no partitions are used. *)
DeterminePartitionsFails ==
    /\ wpc = "partition"
    /\ fetch' = [fetch EXCEPT ![1] = NewFetch(Start, 1)]
    /\ wpc' = "fetching"
    /\ UNCHANGED <<estimate, parts, collected, batches, allRecords, currentState>>

Take(p) ==
    /\ fetch[p].pc = "returned"
    /\ allRecords' = allRecords \o fetch[p].records
    /\ currentState' = mergeStateRaw(currentState, fetch[p].newState)

(* extractSequential *)
CollectBatch ==
    /\ wpc = "fetching" /\ ~usePartitions
    /\ Take(1)
    /\ \/ /\ fetch[1].hasMore /\ batches < MaxBatches
          /\ batches' = batches + 1
          /\ fetch' = [fetch EXCEPT ![1] = NewFetch(currentState', 1)]
          /\ UNCHANGED wpc
       \/ /\ ~fetch[1].hasMore
          /\ fetch' = [fetch EXCEPT ![1] = NoFetch]
          /\ wpc' = "save"
          /\ UNCHANGED batches
    /\ UNCHANGED <<estimate, parts, collected>>

(* extractWithPartitions: the futures are waited for in order. *)
CollectPartition ==
    /\ wpc = "fetching" /\ usePartitions /\ collected < Len(parts)
    /\ Take(collected + 1)
    /\ collected' = collected + 1
    /\ fetch' = [fetch EXCEPT ![collected + 1] = NoFetch]
    /\ wpc' = IF collected' = Len(parts) THEN "save" ELSE wpc
    /\ UNCHANGED <<estimate, parts, batches>>

(* The future waited for failed. *)
CollectFails ==
    /\ wpc = "fetching"
    /\ fetch[collected + 1].pc = "failed"
    /\ wpc' = "failed"
    /\ UNCHANGED <<estimate, parts, fetch, collected, batches, allRecords, currentState>>

(* SaveCheckpointActivity stores nothing, and its failure is only logged. *)
SaveCheckpoint ==
    /\ wpc = "save"
    /\ wpc' = "extracted"
    /\ UNCHANGED <<estimate, parts, fetch, collected, batches, allRecords, currentState>>

(* WorkflowRunTimeout of the child workflow. *)
ExtractTimesOut ==
    /\ wpc \in {"partition", "fetching", "save"}
    /\ wpc' = "failed"
    /\ UNCHANGED <<estimate, parts, fetch, collected, batches, allRecords, currentState>>

ExtractInit ==
    /\ wpc = "partition" /\ estimate = 0 /\ parts = <<>>
    /\ fetch = [p \in Fetchers |-> NoFetch]
    /\ collected = 0 /\ batches = 1
    /\ allRecords = <<>> /\ currentState = Start

(* A new attempt of the child workflow starts from the same parameters. *)
ExtractAgain ==
    /\ wpc = "failed"
    /\ wpc' = "partition" /\ estimate' = 0 /\ parts' = <<>>
    /\ fetch' = [p \in Fetchers |-> NoFetch]
    /\ collected' = 0 /\ batches' = 1
    /\ allRecords' = <<>> /\ currentState' = Start

(* What the workflow and its activities do of their own accord. *)
ExtractStep ==
    \/ \E d \in Discovered : DeterminePartitions(d)
    \/ DeterminePartitionsFails
    \/ \E p \in Fetchers : wpc = "fetching" /\ FetchStep(p)
    \/ CollectBatch
    \/ CollectPartition
    \/ CollectFails
    \/ SaveCheckpoint

ExtractNext ==
    \/ ExtractStep
    \/ \E p \in Fetchers : wpc = "fetching" /\ FetchLost(p)
    \/ ExtractTimesOut
=============================================================================
