-------------------------------- MODULE Load --------------------------------
(***************************************************************************)
(* The load phase of a sync: LoadWorkflow (internal/orchestration/         *)
(* workflows/load.go) with its concurrent WriteBatchActivity futures and   *)
(* the ConfirmWriteActivity that closes it (activities/load_activities.go).*)
(*                                                                         *)
(* A destination connector's Write is modelled from what WriteBatch relies *)
(* on: an attempt stores some of the batch's records, and either fails, or *)
(* says how many it wrote and whether it met errors.  It may stop early    *)
(* without an error, as the connectors do when their context ends, and it  *)
(* may count records it did not store: rows whose table has no writer      *)
(* (bigquery.go:731, snowflake.go:919) or records whose upsert was not     *)
(* looked at (intercom.go:572).                                            *)
(***************************************************************************)
EXTENDS Naturals, Sequences, FiniteSets

CONSTANTS LoadBatchSize,  \* params.BatchSize
          WriteAttempts   \* attempts of WriteBatchActivity

ASSUME LoadAssumption == LoadBatchSize \in Nat \ {0} /\ WriteAttempts \in Nat \ {0}

VARIABLES
    lpc,          \* where LoadWorkflow is
    toLoad,       \* the batches
    writes,       \* the WriteBatchActivity of each batch
    gathered,     \* futures whose result was taken
    totalLoaded,  \* records the connectors said they wrote
    overcounted,  \* a connector counted records of this load it did not store
    loadErrors,   \* allErrors is not empty
    dest          \* records the destination holds

loadVars == <<lpc, toLoad, writes, gathered, totalLoaded, overcounted, loadErrors, dest>>

splitIntoBatches(recs) ==
    [b \in 1..((Len(recs) + LoadBatchSize - 1) \div LoadBatchSize) |->
        SubSeq(recs, (b - 1) * LoadBatchSize + 1,
               IF b * LoadBatchSize > Len(recs) THEN Len(recs) ELSE b * LoadBatchSize)]

NewWrite == [pc |-> "running", attempt |-> 1, count |-> 0, errors |-> FALSE]

LoadInit ==
    /\ lpc = "idle" /\ toLoad = <<>> /\ writes = <<>> /\ gathered = 0
    /\ totalLoaded = 0 /\ overcounted = FALSE /\ loadErrors = FALSE /\ dest = {}

(* Mutant of StartLoad: a repeated load goes on counting. *)
StartLoadCounting(recs) ==
    /\ lpc' = "writing"
    /\ toLoad' = splitIntoBatches(recs)
    /\ writes' = [b \in DOMAIN toLoad' |-> NewWrite]
    /\ gathered' = 0 /\ overcounted' = FALSE
    /\ UNCHANGED <<totalLoaded, loadErrors, dest>>

(* LoadWorkflow starts an activity for every batch. *)
StartLoad(recs) ==
    /\ lpc' = "writing"
    /\ toLoad' = splitIntoBatches(recs)
    /\ writes' = [b \in DOMAIN toLoad' |-> NewWrite]
    /\ gathered' = 0 /\ totalLoaded' = 0 /\ overcounted' = FALSE /\ loadErrors' = FALSE
    /\ UNCHANGED dest

Positions(b) == DOMAIN toLoad[b]

(* WriteBatchActivity answered: stored is what its last attempt stored,     *)
(* count the records the connector says it wrote.                           *)
WriteReturns(b, stored, count, errors) ==
    /\ lpc = "writing" /\ writes[b].pc = "running"
    /\ dest' = dest \cup {toLoad[b][i] : i \in stored}
    /\ overcounted' = (overcounted \/ count > Cardinality(stored))
    /\ writes' = [writes EXCEPT ![b].pc = "ok", ![b].errors = errors, ![b].count = count]
    /\ UNCHANGED <<lpc, toLoad, gathered, totalLoaded, loadErrors>>

(* An attempt failed, having stored part of the batch: it is made again     *)
(* with all of the batch, or the activity fails.                            *)
WriteFails(b, stored) ==
    /\ lpc = "writing" /\ writes[b].pc = "running"
    /\ dest' = dest \cup {toLoad[b][i] : i \in stored}
    /\ writes' = [writes EXCEPT
          ![b].pc = IF writes[b].attempt < WriteAttempts THEN "running" ELSE "err",
          ![b].attempt = IF @ < WriteAttempts THEN @ + 1 ELSE @]
    /\ UNCHANGED <<lpc, toLoad, gathered, totalLoaded, overcounted, loadErrors>>

(* The futures are taken in order; a failed one is an error of the result. *)
GatherWrite ==
    LET b == gathered + 1 IN
    /\ lpc = "writing" /\ gathered < Len(toLoad)
    /\ writes[b].pc # "running"
    /\ gathered' = b
    /\ totalLoaded' = IF writes[b].pc = "ok" THEN totalLoaded + writes[b].count
                      ELSE totalLoaded
    /\ loadErrors' = (loadErrors \/ writes[b].pc = "err" \/ writes[b].errors)
    /\ UNCHANGED <<lpc, toLoad, writes, overcounted, dest>>

(* Mutant of ConfirmWrite: the counts are not compared. *)
ConfirmWriteTrusting(recs, answer) ==
    /\ lpc = "writing" /\ gathered = Len(toLoad)
    /\ lpc' = "loaded"
    /\ loadErrors' = (loadErrors \/ answer # "healthy")
    /\ UNCHANGED <<toLoad, writes, gathered, totalLoaded, overcounted, dest>>

(* ConfirmWriteActivity: its failure, an unhealthy destination and a count  *)
(* that differs all add to the errors; none of them fails the workflow.     *)
ConfirmWrite(recs, answer) ==
    /\ lpc = "writing" /\ gathered = Len(toLoad)
    /\ lpc' = "loaded"
    /\ loadErrors' = (loadErrors \/ answer # "healthy"
                                 \/ totalLoaded # Len(recs))
    /\ UNCHANGED <<toLoad, writes, gathered, totalLoaded, overcounted, dest>>

LoadStep(recs) ==
    \/ \E b \in DOMAIN writes : \E stored \in SUBSET Positions(b) :
          \/ \E errors \in BOOLEAN, count \in Cardinality(stored)..Len(toLoad[b]) :
                WriteReturns(b, stored, count, errors)
          \/ WriteFails(b, stored)
    \/ GatherWrite
    \/ \E answer \in {"healthy", "unhealthy", "err"} : ConfirmWrite(recs, answer)
=============================================================================
