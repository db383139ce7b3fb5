------------------------------ MODULE Pipeline ------------------------------
(***************************************************************************)
(* What a sync does to the data: the extract, transform and load child     *)
(* workflows one after the other, as SyncOrchestrator runs them            *)
(* (internal/orchestration/workflows/sync_orchestrator.go), each with its  *)
(* retries.  The signals, the records and alerts of the run are those of   *)
(* module SyncOrchestrator; here a phase simply follows the other.         *)
(***************************************************************************)
EXTENDS Extract, Transform, Load

CONSTANT MaxChildRuns     \* RetryPolicy.MaximumAttempts of a child workflow

ASSUME PipelineAssumption == MaxChildRuns \in Nat \ {0}

VARIABLES
    phase,            \* the child workflow, for transform the activity, in progress
    childRun,         \* which attempt of the child workflow this is
    records,          \* currentRecords of TransformWorkflow
    dropped,          \* its Dropped
    transformErrors   \* its Errors are not empty

transformVars == <<records, dropped, transformErrors>>
vars == <<phase, childRun, extractVars, transformVars, loadVars>>

TransformPhases == {"map", "coerce", "dedup"}

Init ==
    /\ phase = "extract" /\ childRun = 1
    /\ records = <<>> /\ dropped = 0 /\ transformErrors = FALSE
    /\ ExtractInit /\ LoadInit

-----------------------------------------------------------------------------
(* executeExtractPhase *)
ExtractPhase ==
    /\ phase = "extract"
    /\ ExtractNext
    /\ UNCHANGED <<phase, childRun, transformVars, loadVars>>

ExtractReturns ==
    /\ phase = "extract" /\ wpc = "extracted"
    /\ phase' = "map" /\ childRun' = 1
    /\ records' = TransformIn(allRecords)
    /\ UNCHANGED <<dropped, transformErrors, extractVars, loadVars>>

(* TransformWorkflow: each activity runs on the records of the one before,  *)
(* the first two only when the mappings ask for them.                       *)
MapFieldsReturns ==
    /\ phase = "map"
    /\ phase' = "coerce"
    /\ IF Mapped # {}
       THEN /\ records' = MapFields(records)
            /\ transformErrors' = MapErrors(records)
       ELSE UNCHANGED <<records, transformErrors>>
    /\ UNCHANGED <<childRun, dropped, extractVars, loadVars>>

CoerceTypesReturns ==
    /\ phase = "coerce"
    /\ phase' = "dedup"
    /\ IF Coerced # {}
       THEN /\ records' = CoerceTypes(records)
            /\ transformErrors' = (transformErrors \/ CoerceErrors(records))
       ELSE UNCHANGED <<records, transformErrors>>
    /\ UNCHANGED <<childRun, dropped, extractVars, loadVars>>

DeduplicateReturns ==
    /\ phase = "dedup"
    /\ phase' = "load" /\ childRun' = 1
    /\ records' = Deduplicate(records)
    /\ dropped' = Len(records) - Len(records')
    /\ StartLoad(records')
    /\ UNCHANGED <<transformErrors, extractVars>>

(* executeLoadPhase, and the end of the sync. *)
LoadPhase ==
    /\ phase = "load"
    /\ LoadStep(records)
    /\ UNCHANGED <<phase, childRun, extractVars, transformVars>>

LoadReturns ==
    /\ phase = "load" /\ lpc = "loaded"
    /\ phase' = "completed"
    /\ UNCHANGED <<childRun, extractVars, transformVars, loadVars>>

(* A child workflow's run failed or timed out: the server starts it again   *)
(* with the same parameters, or its error fails the sync.                   *)
ExtractRetries ==
    /\ phase = "extract" /\ ExtractAgain
    /\ childRun < MaxChildRuns /\ childRun' = childRun + 1
    /\ UNCHANGED <<phase, transformVars, loadVars>>

TransformRetries ==
    /\ phase \in TransformPhases
    /\ childRun < MaxChildRuns /\ childRun' = childRun + 1
    /\ phase' = "map"
    /\ records' = TransformIn(allRecords) /\ dropped' = 0 /\ transformErrors' = FALSE
    /\ UNCHANGED <<extractVars, loadVars>>

LoadRetries ==
    /\ phase = "load"
    /\ childRun < MaxChildRuns /\ childRun' = childRun + 1
    /\ StartLoad(records)
    /\ UNCHANGED <<phase, extractVars, transformVars>>

SyncFails ==
    /\ childRun = MaxChildRuns
    /\ \/ phase = "extract" /\ wpc = "failed"
       \/ phase \in TransformPhases \cup {"load"}
    /\ phase' = "failed"
    /\ UNCHANGED <<childRun, extractVars, transformVars, loadVars>>

Done == phase \in {"completed", "failed"} /\ UNCHANGED vars

Next ==
    \/ ExtractPhase \/ ExtractReturns \/ ExtractRetries
    \/ MapFieldsReturns \/ CoerceTypesReturns \/ DeduplicateReturns \/ TransformRetries
    \/ LoadPhase \/ LoadReturns \/ LoadRetries
    \/ SyncFails
    \/ Done

Spec == Init /\ [][Next]_vars

(* Goroutines run; workers poll their queues. *)
Fairness ==
    /\ \A p \in Fetchers :
          WF_vars(phase = "extract" /\ wpc = "fetching" /\ FetchStep(p)
                  /\ UNCHANGED <<phase, childRun, transformVars, loadVars>>)

FairSpec == Spec /\ Fairness

-----------------------------------------------------------------------------
(* Properties *)

Errors == transformErrors \/ loadErrors

TypeOK ==
    /\ phase \in TransformPhases \cup {"extract", "load", "completed", "failed"}
    /\ childRun \in 1..MaxChildRuns
    /\ wpc \in {"partition", "fetching", "save", "extracted", "failed"}
    /\ collected \in 0..maxPartitionsLimit
    /\ batches \in 1..MaxBatches
    /\ Ids(allRecords) \subseteq Source
    /\ currentState \in [Streams -> Nat]
    /\ \A p \in Fetchers : Len(fetch[p].chan) <= BatchSize
    /\ lpc \in {"idle", "writing", "loaded"}
    /\ totalLoaded <= Len(records)
    /\ {d.rec : d \in dest} \subseteq Source

(* However a batch is cut short, partitioned, retried or merged, the state  *)
(* ExtractWorkflow returns never passes a record it does not return: what   *)
(* the checkpoint says was read was read.                                   *)
CheckpointCovered ==
    wpc \in {"save", "extracted"} =>
        \A r \in Source : (Start[r.stream] < r.id /\ r.id <= currentState[r.stream])
                             => r \in Ids(allRecords)

(* The text of a record's key when it is deduplicated. *)
KeyText(r) ==
    IF r.stream \in Coerced THEN CoercedKey[r]
    ELSE IF r.stream \in Mapped THEN MappedKey[r]
    ELSE SourceKey[r]

(* A sync that completes without errors has stored every record its new     *)
(* checkpoint covers: writes cut short, repeated or failed are all found by *)
(* the error lists or the count.  The count is a connector's word, so this  *)
(* is no promise about a load in which one counted what it did not store;   *)
(* and of the records of a stream whose keys make the same text, equal keys *)
(* or not, only one need be stored.                                         *)
CleanSyncIsComplete ==
    phase = "completed" /\ ~Errors /\ ~overcounted =>
        \A r \in Source :
            Start[r.stream] < r.id /\ r.id <= currentState[r.stream] =>
                \E d \in dest :
                    \/ d.rec = r
                    \/ HasKey(d) /\ d.stream = r.stream /\ d.key = KeyText(r)

(* The partitions all read the same records; of a stream with a key none    *)
(* is loaded twice all the same.                                            *)
KeyedLoadedOnce ==
    phase = "load" =>
        \A i, j \in DOMAIN records :
            HasKey(records[i]) /\ records[i].rec = records[j].rec => i = j

(* The ranges of DeterminePartitions are the estimate, without gaps and     *)
(* without overlap.                                                         *)
PartitionsTile ==
    parts # <<>> =>
        /\ parts[1].offset = 0
        /\ \A i \in 1..(Len(parts) - 1) :
              parts[i].offset + parts[i].limit = parts[i + 1].offset
        /\ parts[Len(parts)].offset <= estimate
        /\ parts[Len(parts)].offset + parts[Len(parts)].limit = estimate

(* A fetch comes to its end whatever the order of Read and the receiving    *)
(* loop: the cancelled Read is never left blocked on a full channel.        *)
FetchesEnd ==
    \A p \in Fetchers :
        (wpc = "fetching" /\ fetch[p].pc \in Running)
           ~> (wpc # "fetching" \/ fetch[p].pc \notin Running)

-----------------------------------------------------------------------------
(* What comments of the code say and the code does not do.                  *)

(* DeduplicateActivity "removes duplicate records": what it drops is still  *)
(* there once.                                                              *)
DroppedAreDuplicates ==
    phase = "load" /\ ~transformErrors =>
        \A r \in Ids(allRecords) : \E i \in DOMAIN records : records[i].rec = r

(* ExtractWorkflow "handles pagination through multiple batches": a sync    *)
(* that completes without errors, from a source that answered every         *)
(* request, has read all of it.                                             *)
CleanSyncReadsAll ==
    phase = "completed" /\ ~Errors /\ ~ApiMayFail =>
        \A r \in Source : Start[r.stream] < r.id => r \in Ids(allRecords)
=============================================================================
