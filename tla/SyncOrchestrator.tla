-------------------------- MODULE SyncOrchestrator --------------------------
(***************************************************************************)
(* The parent workflow of a sync (internal/orchestration/workflows/        *)
(* sync_orchestrator.go) with the signal state it shares with its four     *)
(* handler coroutines (internal/orchestration/signals/signals.go) and the  *)
(* options its client starts it with (internal/orchestration/client.go).   *)
(*                                                                         *)
(* What the code relies on and does not contain, the Temporal server and   *)
(* SDK, is modelled from how the code uses it:                             *)
(*   - a workflow task first applies the events that arrived (signals,     *)
(*     completed children and activities, a cancel request), then runs the *)
(*     coroutines one after the other, the root first and the handlers in  *)
(*     the order workflow.Go created them, each until it blocks.  turn     *)
(*     says how far the task in progress is;                               *)
(*   - a signal goes to the first receiver blocked on its channel, and is  *)
(*     buffered when none is blocked;                                      *)
(*   - a run that returns an error is run again, from nothing, up to the   *)
(*     MaximumAttempts of StartSyncWorkflow.                               *)
(***************************************************************************)
EXTENDS Naturals, Sequences, FiniteSets

CONSTANTS MaxRuns,         \* RetryPolicy.MaximumAttempts of StartSyncWorkflow
          MaxSignals,      \* bound: signals users send, on all channels
          ExecutionTimesOut \* whether WorkflowExecutionTimeout may strike

ASSUME ConstantsAssumption ==
    /\ MaxRuns \in Nat \ {0}
    /\ MaxSignals \in Nat
    /\ ExecutionTimesOut \in BOOLEAN

Children == {"extract", "transform", "load"}
Activities == {"record", "alert"}
Channels == {"pause", "resume", "cancel", "modify"}
Phases == {"INITIALIZING", "EXTRACTING", "TRANSFORMING", "LOADING",
           "COMPLETED", "FAILED", "CANCELLED", "PAUSED"}
AlertTypes == {"extract_failed", "transform_failed", "load_failed",
               "sync_degraded"}
Endings == {"completed", "failed", "canceled"}
Outcomes == Endings \cup {"open", "cancelled", "timed_out"}
Receivers == {"root", "handler"}
SyncRuns == [run : 1..MaxRuns, status : {"completed", "failed", "cancelled"}]
Alerts == [run : 1..MaxRuns, type : AlertTypes]

VARIABLES
    run,          \* which attempt of the workflow execution this is
    outcome,      \* how the current run closed, "open" until it does
    ctxCancelled, \* client.CancelWorkflow reached the run
    pc,           \* where the root coroutine is blocked
    future,       \* the future the root waits for
    phase,        \* status.Phase, what the status query answers
    errors,       \* result.Errors is not empty
    ending,       \* what the run returns once its record and alert are done
    alertType,    \* the alert still to be sent, "none" when there is none
    afterPause,   \* the phase that follows the checkSignals call in progress
    sig,          \* *signals.SignalState
    turn,         \* the part of a workflow task in progress
    inbox,        \* pause, cancel, modify signals their handler has not applied
    resumeBuf,    \* buffered signals of the resume channel
    waiters,      \* receivers blocked on the resume channel, first come first
    handed,       \* receivers handed a resume signal and not run since
    sent,         \* signals sent so far
    started,      \* history: children started by this run
    succeeded,    \* history: children of this run that returned no error
    recorded,     \* history: RecordSyncRunActivity executions
    alerted,      \* history: AlertActivity executions
    resumesSeen   \* history: resumes delivered since the root blocked

server == <<run, outcome, ctxCancelled>>
root == <<pc, future, phase, errors, ending, alertType, afterPause>>
channels == <<inbox, resumeBuf, waiters, handed>>
history == <<started, succeeded, recorded, alerted, resumesSeen>>
vars == <<server, root, sig, turn, channels, sent, history>>

-----------------------------------------------------------------------------
(* signals.SignalState *)

SignalState == [pause : BOOLEAN, cancel : BOOLEAN, modify : BOOLEAN]
NewSignalState == [pause |-> FALSE, cancel |-> FALSE, modify |-> FALSE]
ApplyResume(s) == [s EXCEPT !.pause = FALSE]
IsPaused == sig.pause
IsCancelled == sig.cancel

(* What the four handler coroutines do to the state in one turn: pause,    *)
(* resume, cancel, modify, in the order registerSignalHandlers made them.  *)
ApplySignals(s, got) ==
    [pause  |-> (s.pause \/ "pause" \in got) /\ "resume" \notin got,
     cancel |-> s.cancel \/ "cancel" \in got,
     modify |-> s.modify \/ "modify" \in got]

-----------------------------------------------------------------------------
(* Futures: what ExecuteChildWorkflow and ExecuteActivity hand the root.    *)

FutureValues == {"none", "pending", "ok", "degraded", "err", "canceled"}

(* On a cancelled context the SDK resolves the future before it is waited for. *)
NewFuture == IF ctxCancelled THEN "canceled" ELSE "pending"

RootReady ==
    \/ pc = "new"
    \/ pc \in Children \cup Activities /\ future # "pending"
    \/ pc = "paused" /\ "root" \in handed

(* The root keeps the turn while what it waits for is already there. *)
Yield ==
    turn' = IF pc' = "closed" THEN "events"
            ELSE IF pc' # "paused" /\ future' # "pending" THEN "root"
            ELSE "handlers"

RootRuns == RootReady /\ turn \in {"events", "root"}

PhaseOf(c) == CASE c = "extract"   -> "EXTRACTING"
                [] c = "transform" -> "TRANSFORMING"
                [] c = "load"      -> "LOADING"

FailureAlert(c) == CASE c = "extract"   -> "extract_failed"
                     [] c = "transform" -> "transform_failed"
                     [] c = "load"      -> "load_failed"

(* execute*Phase: the child workflow is started and waited for. *)
ExecutePhase(c) ==
    /\ phase' = PhaseOf(c)
    /\ pc' = c
    /\ future' = NewFuture
    /\ started' = started \cup {c}
    /\ UNCHANGED <<outcome, ending, alertType>>

Return(o) ==
    /\ pc' = "closed"
    /\ future' = "none"
    /\ outcome' = o

(* Mutant of CheckSignals: the pause blocks on a channel nobody resumes. *)
CheckSignalsWrongChannel(c) ==
    \/ /\ IsPaused
       /\ phase' = "PAUSED" /\ pc' = "paused" /\ future' = "none"
       /\ afterPause' = c
       /\ resumesSeen' = 0
       /\ UNCHANGED <<outcome, ending, alertType, sig, channels, started>>
    \/ /\ ~IsPaused
       /\ ExecutePhase(c)
       /\ UNCHANGED <<afterPause, sig, channels, resumesSeen>>

(* Mutant of CheckSignals: only the cancel request is looked at. *)
CheckCancelOnly(c) ==
    /\ \/ IsCancelled /\ phase' = "CANCELLED" /\ Return("cancelled")
          /\ UNCHANGED <<ending, alertType, started>>
       \/ ~IsCancelled /\ ExecutePhase(c)
    /\ UNCHANGED <<afterPause, sig, channels, resumesSeen>>

(* checkSignals, and after it the start of phase c unless it returned an error. *)
CheckSignals(c) ==
    \/ /\ IsCancelled
       /\ phase' = "CANCELLED"
       /\ Return("cancelled")
       /\ UNCHANGED <<ending, alertType, afterPause, sig, channels, started, resumesSeen>>
    \/ /\ ~IsCancelled /\ ~IsPaused
       /\ ExecutePhase(c)
       /\ UNCHANGED <<afterPause, sig, channels, resumesSeen>>
    \/ /\ ~IsCancelled /\ IsPaused /\ resumeBuf = 0
       /\ phase' = "PAUSED"
       /\ pc' = "paused"
       /\ future' = "none"
       /\ afterPause' = c
       /\ waiters' = Append(waiters, "root")
       /\ resumesSeen' = 0
       /\ UNCHANGED <<outcome, ending, alertType, sig, inbox, resumeBuf, handed, started>>
    \/ /\ ~IsCancelled /\ IsPaused /\ resumeBuf > 0
       /\ resumeBuf' = resumeBuf - 1
       /\ sig' = ApplyResume(sig)
       /\ ExecutePhase(c)
       /\ UNCHANGED <<afterPause, inbox, waiters, handed, resumesSeen>>

-----------------------------------------------------------------------------
(* The root coroutine: one action per place where it is blocked.            *)

(* SyncOrchestrator up to the extract phase. *)
RootStarts ==
    /\ pc = "new" /\ RootRuns
    /\ CheckSignals("extract")
    /\ Yield
    /\ UNCHANGED <<run, ctxCancelled, errors, sent, succeeded, recorded, alerted>>

(* Mutant of RootResumes: a cancel that came in while paused is not looked at. *)
RootResumesUnchecked ==
    /\ pc = "paused" /\ RootRuns
    /\ handed' = handed \ {"root"}
    /\ sig' = ApplyResume(sig)
    /\ ExecutePhase(afterPause)
    /\ Yield
    /\ UNCHANGED <<run, ctxCancelled, errors, afterPause, inbox, resumeBuf,
                   waiters, sent, succeeded, recorded, alerted, resumesSeen>>

(* checkSignals resumed: the rest of the function, then the next phase. *)
RootResumes ==
    /\ pc = "paused" /\ RootRuns
    /\ handed' = handed \ {"root"}
    /\ sig' = ApplyResume(sig)
    /\ \/ /\ IsCancelled
          /\ phase' = "CANCELLED"
          /\ Return("cancelled")
          /\ UNCHANGED <<ending, alertType, started>>
       \/ ~IsCancelled /\ ExecutePhase(afterPause)
    /\ Yield
    /\ UNCHANGED <<run, ctxCancelled, errors, afterPause, inbox, resumeBuf,
                   waiters, sent, succeeded, recorded, alerted, resumesSeen>>

(* Mutant of PhaseFails: status.Phase is not set before recordSyncRun. *)
PhaseFailsUnmarked(c) ==
    /\ pc = c /\ RootRuns
    /\ future \in {"err", "canceled"}
    /\ ending' = IF future = "err" THEN "failed" ELSE "canceled"
    /\ alertType' = FailureAlert(c)
    /\ pc' = "record"
    /\ future' = NewFuture
    /\ Yield
    /\ UNCHANGED <<server, phase, errors, afterPause, sig, channels, sent, history>>

(* A child returned an error: PhaseFailed, recordSyncRun, alertOnFailure. *)
PhaseFails(c) ==
    /\ pc = c /\ RootRuns
    /\ future \in {"err", "canceled"}
    /\ phase' = "FAILED"
    /\ ending' = IF future = "err" THEN "failed" ELSE "canceled"
    /\ alertType' = FailureAlert(c)
    /\ pc' = "record"
    /\ future' = NewFuture
    /\ Yield
    /\ UNCHANGED <<server, errors, afterPause, sig, channels, sent, history>>

ExtractReturns ==
    /\ pc = "extract" /\ RootRuns
    /\ future = "ok"
    /\ succeeded' = succeeded \cup {"extract"}
    /\ CheckSignals("transform")
    /\ Yield
    /\ UNCHANGED <<run, ctxCancelled, errors, sent, recorded, alerted>>

TransformReturns ==
    /\ pc = "transform" /\ RootRuns
    /\ future \in {"ok", "degraded"}
    /\ succeeded' = succeeded \cup {"transform"}
    /\ errors' = (errors \/ future = "degraded")
    /\ CheckSignals("load")
    /\ Yield
    /\ UNCHANGED <<run, ctxCancelled, sent, recorded, alerted>>

(* Load returned: PhaseCompleted, recordSyncRun; the alert follows if the   *)
(* collected errors are not empty.                                          *)
LoadReturns ==
    /\ pc = "load" /\ RootRuns
    /\ future \in {"ok", "degraded"}
    /\ succeeded' = succeeded \cup {"load"}
    /\ errors' = (errors \/ future = "degraded")
    /\ phase' = "COMPLETED"
    /\ ending' = "completed"
    /\ alertType' = IF errors' THEN "sync_degraded" ELSE "none"
    /\ pc' = "record"
    /\ future' = NewFuture
    /\ Yield
    /\ UNCHANGED <<server, afterPause, sig, channels, sent, started, recorded,
                   alerted, resumesSeen>>

(* Mutant of RecordReturns: the run goes on only once its record is stored. *)
RecordReturnsIfStored ==
    /\ pc = "record" /\ RootRuns /\ future = "ok"
    /\ Return(ending)
    /\ Yield
    /\ UNCHANGED <<run, ctxCancelled, phase, errors, ending, alertType,
                   afterPause, sig, channels, sent, history>>

(* recordSyncRun returned; whatever the activity answered is only logged. *)
RecordReturns ==
    /\ pc = "record" /\ RootRuns
    /\ \/ /\ alertType # "none"
          /\ pc' = "alert"
          /\ future' = NewFuture
          /\ UNCHANGED outcome
       \/ /\ alertType = "none"
          /\ Return(ending)
    /\ Yield
    /\ UNCHANGED <<run, ctxCancelled, phase, errors, ending, alertType,
                   afterPause, sig, channels, sent, history>>

(* alertOnFailure returned, again whatever the activity answered. *)
AlertReturns ==
    /\ pc = "alert" /\ RootRuns
    /\ Return(ending)
    /\ Yield
    /\ UNCHANGED <<run, ctxCancelled, phase, errors, ending, alertType,
                   afterPause, sig, channels, sent, history>>

-----------------------------------------------------------------------------
(* The handler coroutines.                                                  *)

Applied == inbox \cup (IF "handler" \in handed \/ resumeBuf > 0
                       THEN {"resume"} ELSE {})

HandlersRun ==
    /\ pc \notin {"new", "closed"}
    /\ \/ turn = "handlers"
       \/ turn = "events" /\ ~RootReady /\ Applied # {}
    /\ turn' = "events"
    /\ sig' = ApplySignals(sig, Applied)
    /\ inbox' = {}
    /\ resumeBuf' = 0
    /\ handed' = handed \ {"handler"}
    /\ waiters' = IF \E i \in 1..Len(waiters) : waiters[i] = "handler"
                  THEN waiters ELSE Append(waiters, "handler")
    /\ UNCHANGED <<server, root, sent, history>>

-----------------------------------------------------------------------------
(* Events of a workflow task: users, the server, children and activities.   *)

(* client.SignalWorkflow; the channel hands the value to its first receiver. *)
Signal(c) ==
    /\ turn = "events" /\ pc # "closed"
    /\ sent < MaxSignals
    /\ sent' = sent + 1
    /\ \/ /\ c # "resume"
          /\ inbox' = inbox \cup {c}
          /\ UNCHANGED <<resumeBuf, waiters, handed, resumesSeen>>
       \/ /\ c = "resume" /\ waiters # <<>>
          /\ handed' = handed \cup {Head(waiters)}
          /\ waiters' = Tail(waiters)
          /\ resumesSeen' = IF pc = "paused" /\ "root" \notin handed
                            THEN resumesSeen + 1 ELSE resumesSeen
          /\ UNCHANGED <<inbox, resumeBuf>>
       \/ /\ c = "resume" /\ waiters = <<>>
          /\ resumeBuf' = resumeBuf + 1
          /\ UNCHANGED <<inbox, waiters, handed, resumesSeen>>
    /\ UNCHANGED <<server, root, sig, turn, started, succeeded, recorded, alerted>>

(* A child workflow closed, its own attempts used up when it failed. *)
ChildCloses(c, answer) ==
    /\ turn = "events" /\ pc = c /\ future = "pending"
    /\ answer = "degraded" => c # "extract"
    /\ future' = answer
    /\ UNCHANGED <<server, pc, phase, errors, ending, alertType, afterPause,
                   sig, turn, channels, sent, history>>

(* runStatus of recordSyncRun. *)
RunStatus == CASE phase = "FAILED"    -> "failed"
               [] phase = "CANCELLED" -> "cancelled"
               [] OTHER               -> "completed"

(* The body of the activity in progress ran at least once (ran), or never. *)
ActivityEffect(ran) ==
    /\ recorded' = IF ran /\ pc = "record"
                   THEN recorded \cup {[run |-> run, status |-> RunStatus]}
                   ELSE recorded
    /\ alerted' = IF ran /\ pc = "alert"
                  THEN alerted \cup {[run |-> run, type |-> alertType]}
                  ELSE alerted

(* The activity answered, or ran out of attempts. *)
ActivityCloses(ran, answer) ==
    /\ turn = "events" /\ pc \in Activities /\ future = "pending"
    /\ answer = "ok" => ran
    /\ future' = answer
    /\ ActivityEffect(ran)
    /\ UNCHANGED <<server, pc, phase, errors, ending, alertType, afterPause,
                   sig, turn, channels, sent, started, succeeded, resumesSeen>>

(* client.CancelWorkflow: what the root waits for is cancelled, unless it   *)
(* is a signal; the body of an activity may have run before.                *)
RequestCancel(ran) ==
    /\ turn = "events" /\ pc # "closed" /\ ~ctxCancelled
    /\ ctxCancelled' = TRUE
    /\ future' = IF future = "pending" THEN "canceled" ELSE future
    /\ ActivityEffect(ran /\ future = "pending")
    /\ UNCHANGED <<run, outcome, pc, phase, errors, ending, alertType, afterPause,
                   sig, turn, channels, sent, started, succeeded, resumesSeen>>

(* WorkflowExecutionTimeout: the server closes the run, no code runs. *)
TimeOut ==
    /\ ExecutionTimesOut
    /\ turn = "events" /\ pc # "closed"
    /\ Return("timed_out")
    /\ UNCHANGED <<run, ctxCancelled, phase, errors, ending, alertType,
                   afterPause, sig, turn, channels, sent, history>>

(* Mutant of Retry: one attempt more than MaximumAttempts. *)
RetryOnceMore ==
    /\ outcome \in {"failed", "cancelled"} /\ run <= MaxRuns
    /\ run' = run + 1
    /\ UNCHANGED <<outcome, ctxCancelled, root, sig, turn, channels, sent, history>>

(* A new attempt of StartSyncWorkflow's RetryPolicy: same parameters, new state. *)
Retry ==
    /\ outcome \in {"failed", "cancelled"} /\ run < MaxRuns
    /\ run' = run + 1
    /\ outcome' = "open" /\ ctxCancelled' = FALSE
    /\ pc' = "new" /\ future' = "none" /\ phase' = "INITIALIZING"
    /\ errors' = FALSE /\ ending' = "completed" /\ alertType' = "none"
    /\ afterPause' = "extract" /\ sig' = NewSignalState /\ turn' = "events"
    /\ inbox' = {} /\ resumeBuf' = 0 /\ waiters' = <<>> /\ handed' = {}
    /\ started' = {} /\ succeeded' = {} /\ resumesSeen' = 0
    /\ UNCHANGED <<sent, recorded, alerted>>

Finished == outcome # "open" /\ ~(outcome \in {"failed", "cancelled"} /\ run < MaxRuns)

(* Nothing follows the last run. *)
Done == Finished /\ UNCHANGED vars

-----------------------------------------------------------------------------
Init ==
    /\ run = 1 /\ outcome = "open" /\ ctxCancelled = FALSE
    /\ pc = "new" /\ future = "none" /\ phase = "INITIALIZING"
    /\ errors = FALSE /\ ending = "completed" /\ alertType = "none"
    /\ afterPause = "extract" /\ sig = NewSignalState /\ turn = "events"
    /\ inbox = {} /\ resumeBuf = 0 /\ waiters = <<>> /\ handed = {}
    /\ sent = 0
    /\ started = {} /\ succeeded = {} /\ resumesSeen = 0
    /\ recorded = {} /\ alerted = {}

RootStep ==
    \/ RootStarts
    \/ RootResumes
    \/ \E c \in Children : PhaseFails(c)
    \/ ExtractReturns
    \/ TransformReturns
    \/ LoadReturns
    \/ RecordReturns
    \/ AlertReturns

ChildStep == \E c \in Children, answer \in {"ok", "degraded", "err"} :
                ChildCloses(c, answer)

ActivityStep == \E ran \in BOOLEAN, answer \in {"ok", "err"} :
                   ActivityCloses(ran, answer)

Next ==
    \/ RootStep
    \/ HandlersRun
    \/ \E c \in Channels : Signal(c)
    \/ ChildStep
    \/ ActivityStep
    \/ \E ran \in BOOLEAN : RequestCancel(ran)
    \/ TimeOut
    \/ Retry
    \/ Done

Spec == Init /\ [][Next]_vars

(* The worker polls its task queue, children and activities have timeouts   *)
(* and bounded attempts, the server retries: users owe nothing.             *)
Fairness ==
    /\ WF_vars(RootStep)
    /\ WF_vars(HandlersRun)
    /\ WF_vars(ChildStep)
    /\ WF_vars(ActivityStep)
    /\ WF_vars(Retry)

FairSpec == Spec /\ Fairness

-----------------------------------------------------------------------------
(* Properties.                                                              *)

TypeOK ==
    /\ run \in 1..MaxRuns
    /\ outcome \in Outcomes
    /\ ctxCancelled \in BOOLEAN
    /\ pc \in Children \cup Activities \cup {"new", "paused", "closed"}
    /\ future \in FutureValues
    /\ phase \in Phases
    /\ errors \in BOOLEAN
    /\ ending \in Endings
    /\ alertType \in AlertTypes \cup {"none"}
    /\ pc = "alert" => alertType # "none"
    /\ afterPause \in Children
    /\ sig \in SignalState
    /\ turn \in {"events", "root", "handlers"}
    /\ inbox \subseteq {"pause", "cancel", "modify"}
    /\ resumeBuf \in Nat
    /\ waiters \in Seq(Receivers)
    /\ handed \subseteq Receivers
    /\ sent \in 0..MaxSignals
    /\ started \subseteq Children
    /\ succeeded \subseteq Children
    /\ recorded \subseteq SyncRuns
    /\ alerted \subseteq Alerts
    /\ resumesSeen \in Nat

(* A paused sync needs at most two resume signals: of those delivered while *)
(* checkSignals blocks in Receive the handler coroutine can take only the   *)
(* first, the second reaches the root.                                      *)
AtMostOneResumeLost ==
    pc = "paused" => /\ resumesSeen <= 2
                     /\ resumesSeen = 2 => "root" \in handed

(* A run that returned "sync cancelled" has not touched the destination:    *)
(* checkSignals is never called once the load phase has begun.              *)
CancelledLoadsNothing ==
    outcome = "cancelled" => "load" \notin started

(* What recordSyncRun and alertOnFailure report is what happened: a run     *)
(* recorded completed is the last one, ran every phase and does not fail    *)
(* afterwards; one recorded failed does not complete; an alert names the    *)
(* phase that failed; nothing is ever recorded as cancelled.                *)
ReportsTruthful ==
    /\ \A r \in recorded :
         /\ r.status = "completed" =>
               /\ r.run = run
               /\ succeeded = Children
               /\ outcome \in {"open", "completed", "timed_out"}
         /\ r.status = "failed" /\ r.run = run => outcome # "completed"
         /\ r.status # "cancelled"
    /\ \A a \in alerted : a.run = run =>
         \/ a.type = "sync_degraded" /\ succeeded = Children
         \/ \E c \in started \ succeeded : a.type = FailureAlert(c)

(* Once a handler has applied a cancel, the run starts no further phase,    *)
(* whether it was running, paused or being resumed at that moment.          *)
CancelStopsRun ==
    [][IsCancelled /\ run' = run => started' = started]_vars

(* Once a handler has applied a pause, the next phase starts only in a step *)
(* that takes a resume signal from the channel.                             *)
PauseHolds ==
    [][IsPaused /\ run' = run /\ started' # started
          => resumeBuf' < resumeBuf \/ "root" \in handed]_vars

(* Nothing but a pause keeps a sync from ending: failed activities, failed  *)
(* phases, retries and cancel requests all lead to a closed last run.       *)
EndsUnlessPaused ==
    (pc # "paused") ~> (Finished \/ pc = "paused")

(* A pause ends: checkSignals "blocks until resumed or cancelled"            *)
(* (sync_orchestrator.go:182), and after a resume signal the "workflow        *)
(* continues from paused state" (system-architecture.md:306).  Here a paused   *)
(* sync has been sent both.                                                   *)
PauseEnds ==
    (pc = "paused" /\ resumesSeen > 0 /\ IsCancelled) ~> (pc # "paused")
=============================================================================
