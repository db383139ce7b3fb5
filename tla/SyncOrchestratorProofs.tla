---------------------- MODULE SyncOrchestratorProofs ----------------------
(***************************************************************************)
(* Proofs about SyncOrchestrator, for any number of runs and of signals.   *)
(***************************************************************************)
EXTENDS SyncOrchestrator, SequenceTheorems, TLAPS

(* Who may wait on the resume channel: the root only while it is blocked in *)
(* checkSignals, behind the handler at most once.                           *)
ResumeInv ==
    /\ pc = "paused" /\ "root" \notin handed =>
         \/ /\ resumesSeen = 0
            /\ waiters \in {<<"root">>, <<"root", "handler">>, <<"handler", "root">>}
         \/ /\ resumesSeen = 1
            /\ waiters \in {<<"root">>, <<"root", "handler">>}
    /\ pc = "paused" /\ "root" \in handed =>
         /\ resumesSeen \in {1, 2}
         /\ waiters \in {<<>>, <<"handler">>}
    /\ pc \notin {"paused", "closed"} =>
         /\ "root" \notin handed
         /\ waiters \in {<<>>, <<"handler">>}

(* How far the phases are at each place where the root blocks. *)
ProgressInv ==
    /\ pc # "closed" => outcome = "open"
    /\ pc = "new" => sig = NewSignalState /\ started = {} /\ succeeded = {}
    /\ pc = "extract" => started = {"extract"} /\ succeeded = {}
    /\ pc = "transform" => started = {"extract", "transform"} /\ succeeded = {"extract"}
    /\ pc = "load" => started = Children /\ succeeded = {"extract", "transform"}
    /\ pc = "paused" =>
         \/ /\ afterPause = "transform"
            /\ started = {"extract"} /\ succeeded = {"extract"}
         \/ /\ afterPause = "load"
            /\ started = {"extract", "transform"} /\ succeeded = {"extract", "transform"}
    /\ pc \in Activities =>
         \/ /\ phase = "COMPLETED" /\ ending = "completed"
            /\ started = Children /\ succeeded = Children
            /\ alertType \in {"none", "sync_degraded"}
         \/ /\ phase = "FAILED" /\ ending \in {"failed", "canceled"}
            /\ \E c \in started \ succeeded : alertType = FailureAlert(c)

-----------------------------------------------------------------------------
(* The root blocks in checkSignals or goes on: types are kept. *)
LEMMA CheckSignalsType ==
    ASSUME TypeOK, NEW c \in Children, CheckSignals(c)
    PROVE  /\ pc' \in {c, "paused", "closed"}
           /\ future' \in FutureValues
           /\ phase' \in Phases
           /\ outcome' \in Outcomes
           /\ ending' \in Endings
           /\ alertType' \in AlertTypes \cup {"none"}
           /\ afterPause' \in Children
           /\ sig' \in SignalState
           /\ inbox' \subseteq {"pause", "cancel", "modify"}
           /\ resumeBuf' \in Nat
           /\ waiters' \in Seq(Receivers)
           /\ handed' \subseteq Receivers
           /\ started' \subseteq Children
           /\ resumesSeen' \in Nat
<1> USE DEF TypeOK, Children, Outcomes, Endings, Phases, FutureValues, AlertTypes,
            Receivers, channels
<1>1. CASE IsCancelled
  BY <1>1 DEF CheckSignals, Return
<1>2. CASE ~IsCancelled /\ ~IsPaused
  BY <1>2 DEF CheckSignals, ExecutePhase, PhaseOf, NewFuture
<1>3. CASE ~IsCancelled /\ IsPaused /\ resumeBuf = 0
  <2>1. waiters' = Append(waiters, "root")
    BY <1>3 DEF CheckSignals
  <2>2. waiters' \in Seq(Receivers)
    BY <2>1
  <2>3. /\ pc' = "paused" /\ future' = "none" /\ phase' = "PAUSED"
        /\ afterPause' = c /\ resumesSeen' = 0
        /\ UNCHANGED <<outcome, ending, alertType, sig, inbox, resumeBuf, handed, started>>
    BY <1>3 DEF CheckSignals
  <2> QED
    BY <2>2, <2>3
<1>4. CASE ~IsCancelled /\ IsPaused /\ resumeBuf > 0
  <2>1. sig' = ApplyResume(sig)
    BY <1>4 DEF CheckSignals
  <2>2. sig' \in SignalState
    BY <2>1 DEF ApplyResume, SignalState
  <2>3. resumeBuf' = resumeBuf - 1
    BY <1>4 DEF CheckSignals
  <2>5. resumeBuf' \in Nat
    BY <1>4, <2>3
  <2>4. ExecutePhase(c) /\ UNCHANGED <<afterPause, inbox, waiters, handed, resumesSeen>>
    BY <1>4 DEF CheckSignals
  <2> QED
    BY <2>2, <2>4, <2>5 DEF ExecutePhase, PhaseOf, NewFuture
<1> QED BY <1>1, <1>2, <1>3, <1>4

LEMMA TypeInit == Init => TypeOK
<1> SUFFICES ASSUME Init PROVE TypeOK
  OBVIOUS
<1>1. sig \in SignalState
  BY DEF Init, NewSignalState, SignalState
<1>2. errors \in BOOLEAN /\ ctxCancelled \in BOOLEAN
  BY DEF Init
<1>3. run \in 1..MaxRuns /\ sent \in 0..MaxSignals /\ resumeBuf \in Nat
      /\ resumesSeen \in Nat
  BY ConstantsAssumption DEF Init
<1>4. waiters \in Seq(Receivers)
  BY DEF Init
<1> QED
  BY <1>1, <1>2, <1>3, <1>4
     DEF Init, TypeOK, Outcomes, Endings, Phases, FutureValues, Children, Receivers

LEMMA TypeStep == TypeOK /\ [Next]_vars => TypeOK'
<1> SUFFICES ASSUME TypeOK, [Next]_vars PROVE TypeOK'
  OBVIOUS
<1> USE ConstantsAssumption
    DEF server, root, channels, history, Children, Activities, Outcomes, Endings
<1>1. CASE RootStarts
  BY <1>1, CheckSignalsType DEF RootStarts, TypeOK, Yield
<1>2. CASE RootResumes
  <2>1. afterPause \in Children
    BY DEF TypeOK
  <2>2. sig' \in SignalState
    BY <1>2 DEF RootResumes, TypeOK, ApplyResume, SignalState
  <2> QED
    BY <1>2, <2>1, <2>2 DEF RootResumes, TypeOK, Yield, Return, ExecutePhase,
       PhaseOf, NewFuture, FutureValues, Phases, Receivers
<1>3. ASSUME NEW c \in Children, PhaseFails(c) PROVE TypeOK'
  BY <1>3 DEF PhaseFails, TypeOK, Yield, NewFuture, FutureValues, Phases,
     FailureAlert, AlertTypes
<1>4. CASE ExtractReturns
  BY <1>4, CheckSignalsType DEF ExtractReturns, TypeOK, Yield
<1>5. CASE TransformReturns
  BY <1>5, CheckSignalsType DEF TransformReturns, TypeOK, Yield
<1>6. CASE LoadReturns
  BY <1>6 DEF LoadReturns, TypeOK, Yield, NewFuture, FutureValues, Phases, AlertTypes
<1>7. CASE RecordReturns
  BY <1>7 DEF RecordReturns, TypeOK, Yield, NewFuture, FutureValues, Return
<1>8. CASE AlertReturns
  BY <1>8 DEF AlertReturns, TypeOK, Yield, FutureValues, Return
<1>9. CASE HandlersRun
  <2>1. sig' \in SignalState
    BY <1>9 DEF HandlersRun, ApplySignals, TypeOK, SignalState
  <2>2. waiters' \in Seq(Receivers)
    BY <1>9 DEF HandlersRun, TypeOK, Receivers
  <2> QED
    BY <1>9, <2>1, <2>2 DEF HandlersRun, TypeOK
<1>10. ASSUME NEW c \in Channels, Signal(c) PROVE TypeOK'
  <2>1. waiters # <<>> => Head(waiters) \in Receivers /\ Tail(waiters) \in Seq(Receivers)
    BY DEF TypeOK
  <2>2. sent' \in 0..MaxSignals
    BY <1>10 DEF Signal, TypeOK
  <2>3. UNCHANGED <<server, root, sig, turn, started, succeeded, recorded, alerted>>
    BY <1>10 DEF Signal
  <2>4. CASE c # "resume"
    <3>1. inbox' = inbox \cup {c} /\ UNCHANGED <<resumeBuf, waiters, handed, resumesSeen>>
      BY <1>10, <2>4 DEF Signal
    <3> QED
      BY <1>10, <2>2, <2>3, <2>4, <3>1 DEF TypeOK, Channels
  <2>5. CASE c = "resume" /\ waiters # <<>>
    <3>1. /\ handed' = handed \cup {Head(waiters)}
          /\ waiters' = Tail(waiters)
          /\ resumesSeen' \in {resumesSeen, resumesSeen + 1}
          /\ UNCHANGED <<inbox, resumeBuf>>
      BY <1>10, <2>5 DEF Signal
    <3> QED
      BY <2>1, <2>2, <2>3, <2>5, <3>1 DEF TypeOK
  <2>6. CASE c = "resume" /\ waiters = <<>>
    <3>1. resumeBuf' = resumeBuf + 1 /\ UNCHANGED <<inbox, waiters, handed, resumesSeen>>
      BY <1>10, <2>6 DEF Signal
    <3> QED
      BY <2>2, <2>3, <3>1 DEF TypeOK
  <2> QED
    BY <2>4, <2>5, <2>6
<1>11. CASE ChildStep
  BY <1>11 DEF ChildStep, ChildCloses, TypeOK, FutureValues
<1>12. ASSUME NEW ran \in BOOLEAN, ActivityEffect(ran)
       PROVE  recorded' \subseteq SyncRuns /\ alerted' \subseteq Alerts
  BY <1>12 DEF ActivityEffect, RunStatus, TypeOK, SyncRuns, Alerts
<1>13. CASE ActivityStep
  BY <1>12, <1>13 DEF ActivityStep, ActivityCloses, TypeOK, FutureValues
<1>14. ASSUME NEW ran \in BOOLEAN, RequestCancel(ran) PROVE TypeOK'
  <2>1. recorded' \subseteq SyncRuns /\ alerted' \subseteq Alerts
    BY <1>12, <1>14 DEF RequestCancel
  <2> QED
    BY <1>14, <2>1 DEF RequestCancel, TypeOK, FutureValues
<1>15. CASE TimeOut
  BY <1>15 DEF TimeOut, Return, TypeOK, FutureValues
<1>16. CASE Retry
  <2>1. sig' \in SignalState
    BY <1>16 DEF Retry, NewSignalState, SignalState
  <2>2. run' \in 1..MaxRuns
    BY <1>16 DEF Retry, TypeOK
  <2>3. waiters' \in Seq(Receivers)
    BY <1>16 DEF Retry
  <2> QED
    BY <1>16, <2>1, <2>2, <2>3 DEF Retry, TypeOK, FutureValues, Phases
<1>17. CASE UNCHANGED vars
  BY <1>17 DEF vars, TypeOK
<1> QED
  BY <1>1, <1>2, <1>3, <1>4, <1>5, <1>6, <1>7, <1>8, <1>9, <1>10, <1>11, <1>13,
     <1>14, <1>15, <1>16, <1>17 DEF Next, RootStep, Done

(* Every variable of SyncOrchestrator keeps its type, whatever users, the   *)
(* server, the children and the activities do.                              *)
THEOREM TypeCorrect == Spec => []TypeOK
BY TypeInit, TypeStep, PTL DEF Spec

-----------------------------------------------------------------------------
(* The resume channel.                                                      *)

(* Appending to a sequence of one element. *)
LEMMA AppendToOne ==
    ASSUME NEW S, NEW a \in S, NEW b \in S
    PROVE  Append(<<a>>, b) = <<a, b>>
<1>1. /\ <<a>> \in Seq(S) /\ Len(<<a>>) = 1
      /\ <<a, b>> \in Seq(S) /\ Len(<<a, b>>) = 2
  OBVIOUS
<1>2. Append(<<a>>, b) \in Seq(S) /\ Len(Append(<<a>>, b)) = 2
  BY <1>1, AppendProperties
<1>3. \A i \in 1..2 : Append(<<a>>, b)[i] = <<a, b>>[i]
  BY <1>1, AppendProperties
<1> QED
  BY <1>1, <1>2, <1>3, SeqEqual

(* The few queues that can form on the resume channel. *)
LEMMA QueueFacts ==
    /\ Append(<<>>, "root") = <<"root">>
    /\ Append(<<"handler">>, "root") = <<"handler", "root">>
    /\ Append(<<>>, "handler") = <<"handler">>
    /\ Append(<<"root">>, "handler") = <<"root", "handler">>
    /\ Head(<<"root">>) = "root" /\ Tail(<<"root">>) = <<>>
    /\ Head(<<"handler">>) = "handler" /\ Tail(<<"handler">>) = <<>>
    /\ Head(<<"root", "handler">>) = "root"
    /\ Tail(<<"root", "handler">>) = <<"handler">>
    /\ Head(<<"handler", "root">>) = "handler"
    /\ Tail(<<"handler", "root">>) = <<"root">>
    /\ <<"root">> # <<>> /\ <<"handler">> # <<>>
    /\ <<"root", "handler">> # <<>> /\ <<"handler", "root">> # <<>>
<1>1. /\ Append(<<>>, "root") = <<"root">>
      /\ Append(<<>>, "handler") = <<"handler">>
  OBVIOUS
<1>2. Append(<<"handler">>, "root") = <<"handler", "root">>
  BY AppendToOne, "root" \in Receivers, "handler" \in Receivers DEF Receivers
<1>3. Append(<<"root">>, "handler") = <<"root", "handler">>
  BY AppendToOne, "root" \in Receivers, "handler" \in Receivers DEF Receivers
<1>4. /\ Head(<<"root">>) = "root" /\ Tail(<<"root">>) = <<>>
      /\ Head(<<"handler">>) = "handler" /\ Tail(<<"handler">>) = <<>>
  OBVIOUS
<1>5. /\ Head(<<"root", "handler">>) = "root"
      /\ Head(<<"handler", "root">>) = "handler"
  OBVIOUS
<1>6. Tail(<<"root", "handler">>) = <<"handler">>
  OBVIOUS
<1>7. Tail(<<"handler", "root">>) = <<"root">>
  OBVIOUS
<1>8. /\ <<"root">> # <<>> /\ <<"handler">> # <<>>
      /\ <<"root", "handler">> # <<>> /\ <<"handler", "root">> # <<>>
  OBVIOUS
<1> QED BY <1>1, <1>2, <1>3, <1>4, <1>5, <1>6, <1>7, <1>8

(* The handler coroutine queues up again unless it is queued already. *)
LEMMA RequeueFacts ==
    ASSUME NEW w, NEW v,
           v = IF \E i \in 1..Len(w) : w[i] = "handler" THEN w ELSE Append(w, "handler")
    PROVE  /\ w = <<>> => v = <<"handler">>
           /\ w = <<"handler">> => v = <<"handler">>
           /\ w = <<"root">> => v = <<"root", "handler">>
           /\ w = <<"root", "handler">> => v = <<"root", "handler">>
           /\ w = <<"handler", "root">> => v = <<"handler", "root">>
<1>1. CASE w = <<>>
  <2>1. 1..Len(w) = {}
    BY <1>1
  <2> QED BY <1>1, <2>1, QueueFacts
<1>2. CASE w = <<"handler">>
  <2>1. 1 \in 1..Len(w) /\ w[1] = "handler"
    BY <1>2
  <2> QED BY <1>2, <2>1, QueueFacts
<1>3. CASE w = <<"root">>
  <2>1. \A i \in 1..Len(w) : w[i] = "root"
    BY <1>3
  <2> QED BY <1>3, <2>1, QueueFacts
<1>4. CASE w = <<"root", "handler">>
  <2>1. 2 \in 1..Len(w) /\ w[2] = "handler"
    BY <1>4
  <2> QED BY <1>4, <2>1, QueueFacts
<1>5. CASE w = <<"handler", "root">>
  <2>1. 1 \in 1..Len(w) /\ w[1] = "handler"
    BY <1>5
  <2> QED BY <1>5, <2>1, QueueFacts
<1> QED BY <1>1, <1>2, <1>3, <1>4, <1>5

LEMMA CheckSignalsResume ==
    ASSUME ResumeInv, pc \notin {"paused", "closed"},
           NEW c \in Children, CheckSignals(c)
    PROVE  ResumeInv'
<1>1. "root" \notin handed /\ waiters \in {<<>>, <<"handler">>}
  BY DEF ResumeInv
<1>2. CASE pc' = "paused" /\ waiters' = Append(waiters, "root")
           /\ resumesSeen' = 0 /\ handed' = handed
  BY <1>1, <1>2, QueueFacts DEF ResumeInv
<1>3. CASE pc' # "paused" /\ waiters' = waiters /\ handed' = handed
  BY <1>1, <1>3 DEF ResumeInv
<1> QED
  BY <1>2, <1>3 DEF CheckSignals, ExecutePhase, Return, channels, Children

LEMMA ResumeStep == TypeOK /\ ResumeInv /\ [Next]_vars => ResumeInv'
<1> SUFFICES ASSUME TypeOK, ResumeInv, [Next]_vars PROVE ResumeInv'
  OBVIOUS
<1> USE DEF server, root, channels, history
<1>1. ASSUME UNCHANGED <<waiters, handed, resumesSeen>>,
             \/ pc' = pc
             \/ pc' = "closed"
             \/ pc' # "paused" /\ pc \notin {"paused", "closed"}
      PROVE  ResumeInv'
  BY <1>1 DEF ResumeInv
<1>2. CASE RootStarts
  BY <1>2, CheckSignalsResume DEF RootStarts, Children
<1>3. CASE RootResumes
  <2>1. "root" \in handed /\ waiters \in {<<>>, <<"handler">>}
    BY <1>3 DEF RootResumes, RootRuns, RootReady, ResumeInv, Children, Activities
  <2>2. pc' # "paused" /\ waiters' = waiters /\ "root" \notin handed'
    BY <1>3 DEF RootResumes, Return, ExecutePhase, TypeOK, Children
  <2> QED
    BY <2>1, <2>2 DEF ResumeInv
<1>4. ASSUME NEW c \in Children, PhaseFails(c) PROVE ResumeInv'
  BY <1>1, <1>4 DEF PhaseFails, Children
<1>5. CASE ExtractReturns
  BY <1>5, CheckSignalsResume DEF ExtractReturns, Children
<1>6. CASE TransformReturns
  BY <1>6, CheckSignalsResume DEF TransformReturns, Children
<1>7. CASE LoadReturns
  BY <1>1, <1>7 DEF LoadReturns
<1>8. CASE RecordReturns
  BY <1>1, <1>8 DEF RecordReturns, Return
<1>9. CASE AlertReturns
  BY <1>1, <1>9 DEF AlertReturns, Return
<1>10. CASE HandlersRun
  <2>1. /\ waiters' = IF \E i \in 1..Len(waiters) : waiters[i] = "handler"
                      THEN waiters ELSE Append(waiters, "handler")
        /\ handed' = handed \ {"handler"}
        /\ UNCHANGED <<pc, resumesSeen>>
    BY <1>10 DEF HandlersRun
  <2>2. "root" \in handed' <=> "root" \in handed
    BY <2>1
  <2>3. /\ waiters \in {<<>>, <<"handler">>} => waiters' \in {<<>>, <<"handler">>}
        /\ waiters \in {<<"root">>, <<"root", "handler">>}
             => waiters' \in {<<"root">>, <<"root", "handler">>}
        /\ waiters = <<"handler", "root">> => waiters' = <<"handler", "root">>
    BY <2>1, RequeueFacts
  <2> QED
    BY <2>1, <2>2, <2>3 DEF ResumeInv
<1>11. ASSUME NEW c \in Channels, Signal(c) PROVE ResumeInv'
  <2>1. CASE UNCHANGED <<waiters, handed, resumesSeen>>
    BY <1>1, <1>11, <2>1 DEF Signal
  <2>2. CASE c = "resume" /\ waiters # <<>>
    <3>1. /\ pc' = pc /\ pc # "closed"
          /\ handed' = handed \cup {Head(waiters)}
          /\ waiters' = Tail(waiters)
          /\ resumesSeen' = IF pc = "paused" /\ "root" \notin handed
                            THEN resumesSeen + 1 ELSE resumesSeen
      BY <1>11, <2>2 DEF Signal
    <3>2. CASE pc = "paused" /\ "root" \notin handed
      <4>1. CASE waiters = <<"handler", "root">> /\ resumesSeen = 0
        <5>1. resumesSeen' = 1 /\ waiters' = <<"root">> /\ handed' = handed \cup {"handler"}
          BY <3>1, <3>2, <4>1, QueueFacts
        <5> QED
          BY <3>1, <3>2, <5>1 DEF ResumeInv
      <4>2. CASE waiters \in {<<"root">>, <<"root", "handler">>} /\ resumesSeen \in {0, 1}
        <5>1. resumesSeen' \in {1, 2}
          BY <3>1, <3>2, <4>2
        <5>2. waiters' \in {<<>>, <<"handler">>} /\ handed' = handed \cup {"root"}
          <6>1. CASE waiters = <<"root">>
            BY <3>1, <6>1, QueueFacts
          <6>2. CASE waiters = <<"root", "handler">>
            BY <3>1, <6>2, QueueFacts
          <6> QED
            BY <4>2, <6>1, <6>2
        <5> QED
          BY <3>1, <3>2, <5>1, <5>2 DEF ResumeInv
      <4> QED
        BY <3>2, <4>1, <4>2 DEF ResumeInv
    <3>3. CASE pc = "paused" /\ "root" \in handed
      BY <2>2, <3>1, <3>3, QueueFacts DEF ResumeInv
    <3>4. CASE pc # "paused"
      BY <2>2, <3>1, <3>4, QueueFacts DEF ResumeInv
    <3> QED
      BY <3>2, <3>3, <3>4
  <2> QED
    BY <1>11, <2>1, <2>2 DEF Signal
<1>12. CASE ChildStep
  BY <1>1, <1>12 DEF ChildStep, ChildCloses
<1>13. CASE ActivityStep
  BY <1>1, <1>13 DEF ActivityStep, ActivityCloses
<1>14. ASSUME NEW ran \in BOOLEAN, RequestCancel(ran) PROVE ResumeInv'
  BY <1>1, <1>14 DEF RequestCancel
<1>15. CASE TimeOut
  BY <1>1, <1>15 DEF TimeOut, Return
<1>16. CASE Retry
  BY <1>16 DEF Retry, ResumeInv
<1>17. CASE UNCHANGED vars
  BY <1>1, <1>17 DEF vars
<1> QED
  BY <1>2, <1>3, <1>4, <1>5, <1>6, <1>7, <1>8, <1>9, <1>10, <1>11, <1>12, <1>13,
     <1>14, <1>15, <1>16, <1>17 DEF Next, RootStep, Done

(* A paused sync is resumed by its second resume signal at the latest: the  *)
(* handler coroutine of registerSignalHandlers takes at most one of those   *)
(* that checkSignals is waiting for.                                        *)
THEOREM ResumeLossBounded == Spec => []AtMostOneResumeLost
<1>1. Init => ResumeInv
  BY DEF Init, ResumeInv
<1>2. ResumeInv => AtMostOneResumeLost
  BY DEF ResumeInv, AtMostOneResumeLost
<1> QED
  BY <1>1, <1>2, ResumeStep, TypeCorrect, PTL DEF Spec

-----------------------------------------------------------------------------
(* Phases, cancellation and reports.                                        *)

(* checkSignals ends in the next phase, in a pause before it or in a        *)
(* cancelled run.                                                           *)
LEMMA CheckSignalsEffect ==
    ASSUME NEW c \in Children, CheckSignals(c)
    PROVE  \/ pc' = c /\ started' = started \cup {c} /\ outcome' = outcome
           \/ pc' = "paused" /\ afterPause' = c /\ started' = started /\ outcome' = outcome
           \/ pc' = "closed" /\ outcome' = "cancelled" /\ started' = started
BY DEF CheckSignals, ExecutePhase, Return

ProgressAndCancel == ProgressInv /\ CancelledLoadsNothing

LEMMA ProgressStep == TypeOK /\ ProgressAndCancel /\ [Next]_vars => ProgressAndCancel'
<1> SUFFICES ASSUME TypeOK, ProgressInv, CancelledLoadsNothing, [Next]_vars
             PROVE  ProgressInv' /\ CancelledLoadsNothing'
  BY DEF ProgressAndCancel
<1> USE DEF server, root, channels, history, Children, Activities
<1>1. CASE RootStarts
  <2>1. started = {} /\ succeeded = {} /\ succeeded' = {} /\ outcome = "open"
    BY <1>1 DEF RootStarts, ProgressInv
  <2>2. ~IsCancelled /\ ~IsPaused
    BY <1>1 DEF RootStarts, ProgressInv, NewSignalState, IsCancelled, IsPaused
  <2>3. pc' = "extract" /\ started' = started \cup {"extract"} /\ outcome' = outcome
    BY <1>1, <2>2 DEF RootStarts, CheckSignals, ExecutePhase
  <2> QED
    BY <2>1, <2>3 DEF ProgressInv, CancelledLoadsNothing
<1>2. CASE RootResumes
  BY <1>2 DEF RootResumes, Return, ExecutePhase, ProgressInv, CancelledLoadsNothing
<1>3. ASSUME NEW c \in Children, PhaseFails(c)
      PROVE  ProgressInv' /\ CancelledLoadsNothing'
  <2>1. /\ pc = c /\ pc' = "record" /\ phase' = "FAILED"
        /\ ending' \in {"failed", "canceled"} /\ alertType' = FailureAlert(c)
        /\ UNCHANGED <<outcome, started, succeeded>>
    BY <1>3 DEF PhaseFails
  <2>2. c \in started \ succeeded /\ outcome = "open"
    BY <2>1 DEF ProgressInv
  <2>3. \E d \in started' \ succeeded' : alertType' = FailureAlert(d)
    BY <2>1, <2>2
  <2> QED
    BY <2>1, <2>2, <2>3 DEF ProgressInv, CancelledLoadsNothing
<1>4. CASE ExtractReturns
  <2>1. started = {"extract"} /\ succeeded = {} /\ succeeded' = {"extract"}
        /\ outcome = "open"
    BY <1>4 DEF ExtractReturns, ProgressInv
  <2>2. CheckSignals("transform")
    BY <1>4 DEF ExtractReturns
  <2> QED
    BY <2>1, <2>2, CheckSignalsEffect DEF ProgressInv, CancelledLoadsNothing
<1>5. CASE TransformReturns
  <2>1. started = {"extract", "transform"} /\ succeeded' = {"extract", "transform"}
        /\ outcome = "open"
    BY <1>5 DEF TransformReturns, ProgressInv
  <2>2. CheckSignals("load")
    BY <1>5 DEF TransformReturns
  <2> QED
    BY <2>1, <2>2, CheckSignalsEffect DEF ProgressInv, CancelledLoadsNothing
<1>6. CASE LoadReturns
  BY <1>6 DEF LoadReturns, ProgressInv, CancelledLoadsNothing
<1>7. CASE RecordReturns
  <2>1. /\ pc = "record" /\ UNCHANGED <<phase, ending, alertType, started, succeeded>>
        /\ \/ pc' = "alert" /\ outcome' = outcome
           \/ pc' = "closed" /\ outcome' = ending
    BY <1>7 DEF RecordReturns, Return
  <2>2. ending # "cancelled"
    BY DEF TypeOK, Endings
  <2> QED
    BY <2>1, <2>2 DEF ProgressInv, CancelledLoadsNothing
<1>8. CASE AlertReturns
  <2>1. pc' = "closed" /\ outcome' = ending /\ ending # "cancelled"
    BY <1>8 DEF AlertReturns, Return, TypeOK, Endings
  <2> QED
    BY <2>1 DEF ProgressInv, CancelledLoadsNothing
<1>9. ASSUME UNCHANGED <<outcome, pc, phase, ending, alertType, afterPause, started, succeeded>>,
             pc = "new" => sig' = sig
      PROVE  ProgressInv' /\ CancelledLoadsNothing'
  BY <1>9 DEF ProgressInv, CancelledLoadsNothing
<1>10. CASE HandlersRun
  BY <1>9, <1>10 DEF HandlersRun
<1>11. ASSUME NEW c \in Channels, Signal(c) PROVE ProgressInv' /\ CancelledLoadsNothing'
  BY <1>9, <1>11 DEF Signal
<1>12. CASE ChildStep
  BY <1>9, <1>12 DEF ChildStep, ChildCloses
<1>13. CASE ActivityStep
  BY <1>9, <1>13 DEF ActivityStep, ActivityCloses
<1>14. ASSUME NEW ran \in BOOLEAN, RequestCancel(ran)
       PROVE  ProgressInv' /\ CancelledLoadsNothing'
  BY <1>9, <1>14 DEF RequestCancel
<1>15. CASE TimeOut
  BY <1>15 DEF TimeOut, Return, ProgressInv, CancelledLoadsNothing
<1>16. CASE Retry
  BY <1>16 DEF Retry, ProgressInv, CancelledLoadsNothing
<1>17. CASE UNCHANGED vars
  BY <1>9, <1>17 DEF vars
<1> QED
  BY <1>1, <1>2, <1>3, <1>4, <1>5, <1>6, <1>7, <1>8, <1>10, <1>11, <1>12, <1>13,
     <1>14, <1>15, <1>16, <1>17 DEF Next, RootStep, Done

LEMMA ProgressInvariant == Spec => []ProgressAndCancel
<1>1. Init => ProgressAndCancel
  BY DEF Init, ProgressAndCancel, ProgressInv, CancelledLoadsNothing, Activities
<1> QED
  BY <1>1, ProgressStep, TypeCorrect, PTL DEF Spec

(* A run that ended because checkSignals saw a cancel never started the     *)
(* load phase.                                                              *)
THEOREM CancelledRunLoadsNothing == Spec => []CancelledLoadsNothing
BY ProgressInvariant, PTL DEF ProgressAndCancel

(* After a cancel has been applied no phase of that run is started.         *)
THEOREM CancelIsObeyed == Spec => CancelStopsRun
<1>1. TypeOK /\ [Next]_vars => [IsCancelled /\ run' = run => started' = started]_vars
  <2> SUFFICES ASSUME TypeOK, Next, IsCancelled, run' = run
               PROVE  started' = started
    OBVIOUS
  <2>1. \A c : CheckSignals(c) => started' = started
    BY DEF CheckSignals
  <2>2. ~Retry
    BY DEF Retry, TypeOK
  <2> QED
    BY <2>1, <2>2 DEF Next, RootStep, RootStarts, RootResumes, PhaseFails,
       ExtractReturns, TransformReturns, LoadReturns, RecordReturns, AlertReturns,
       HandlersRun, Signal, ChildStep, ChildCloses, ActivityStep, ActivityCloses,
       RequestCancel, TimeOut, Done, vars, history
<1> QED
  BY <1>1, TypeCorrect, PTL DEF Spec, CancelStopsRun

(* After a pause has been applied the next phase starts only by taking a    *)
(* resume signal.                                                           *)
THEOREM PauseIsObeyed == Spec => PauseHolds
<1>1. TypeOK /\ [Next]_vars =>
        [IsPaused /\ run' = run /\ started' # started
           => resumeBuf' < resumeBuf \/ "root" \in handed]_vars
  <2> SUFFICES ASSUME TypeOK, Next, IsPaused, run' = run, started' # started
               PROVE  resumeBuf' < resumeBuf \/ "root" \in handed
    OBVIOUS
  <2>1. ASSUME NEW c, CheckSignals(c) PROVE resumeBuf' < resumeBuf
    BY <2>1 DEF CheckSignals, TypeOK, channels
  <2>2. RootResumes => "root" \in handed
    BY DEF RootResumes, RootRuns, RootReady, Children, Activities
  <2>3. ~Retry
    BY DEF Retry, TypeOK
  <2> QED
    BY <2>1, <2>2, <2>3 DEF Next, RootStep, RootStarts, PhaseFails,
       ExtractReturns, TransformReturns, LoadReturns, RecordReturns, AlertReturns,
       HandlersRun, Signal, ChildStep, ChildCloses, ActivityStep, ActivityCloses,
       RequestCancel, TimeOut, Done, vars, history
<1> QED
  BY <1>1, TypeCorrect, PTL DEF Spec, PauseHolds

-----------------------------------------------------------------------------
(* What one report of the current or of an earlier run says. *)
RecordOK(r) ==
    /\ r.run <= run
    /\ r.status \in {"completed", "failed"}
    /\ r.status = "completed" =>
         /\ r.run = run
         /\ succeeded = Children
         /\ \/ pc \in Activities /\ phase = "COMPLETED"
            \/ pc = "closed" /\ outcome \in {"completed", "timed_out"}
    /\ r.status = "failed" /\ r.run = run =>
         \/ pc \in Activities /\ phase = "FAILED"
         \/ pc = "closed" /\ outcome # "completed"

AlertOK(a) ==
    /\ a.run <= run
    /\ a.run = run =>
         /\ pc \in {"alert", "closed"}
         /\ \/ a.type = "sync_degraded" /\ succeeded = Children
            \/ \E c \in started \ succeeded : a.type = FailureAlert(c)

ReportInv ==
    /\ \A r \in recorded : RecordOK(r)
    /\ \A a \in alerted : AlertOK(a)

LEMMA ReportStep ==
    TypeOK /\ ProgressInv /\ ReportInv /\ [Next]_vars => ReportInv'
<1> SUFFICES ASSUME TypeOK, ProgressInv, ReportInv, [Next]_vars PROVE ReportInv'
  OBVIOUS
<1> USE DEF server, root, channels, history, Children, Activities
<1>0. /\ run \in Nat
      /\ \A r \in recorded : r.run \in Nat
      /\ \A a \in alerted : a.run \in Nat
  BY ConstantsAssumption DEF TypeOK, SyncRuns, Alerts
(* A step of the run that reports nothing, before anything was reported. *)
<1>1. ASSUME UNCHANGED <<run, recorded, alerted>>, pc \notin {"record", "alert", "closed"}
      PROVE  ReportInv'
  BY <1>1 DEF ReportInv, RecordOK, AlertOK
(* A step that leaves what the reports are about alone. *)
<1>2. ASSUME UNCHANGED <<run, recorded, alerted, pc, phase, outcome, started, succeeded>>
      PROVE  ReportInv'
  BY <1>2 DEF ReportInv, RecordOK, AlertOK
<1>3. CASE RootStarts \/ RootResumes \/ ExtractReturns \/ TransformReturns \/ LoadReturns
           \/ \E c \in Children : PhaseFails(c)
  BY <1>1, <1>3 DEF RootStarts, RootResumes, ExtractReturns, TransformReturns,
     LoadReturns, PhaseFails
<1>4. ASSUME UNCHANGED <<run, recorded, alerted, phase, started, succeeded>>,
             pc \in Activities,
             \/ pc' = "alert"
             \/ pc' = "closed" /\ outcome' = ending
      PROVE  ReportInv'
  <2>1. phase = "COMPLETED" => ending = "completed"
    BY <1>4 DEF ProgressInv
  <2>2. phase = "FAILED" => ending # "completed"
    BY <1>4 DEF ProgressInv
  <2> QED
    BY <1>4, <2>1, <2>2 DEF ReportInv, RecordOK, AlertOK
<1>5. CASE RecordReturns
  BY <1>4, <1>5 DEF RecordReturns, Return
<1>6. CASE AlertReturns
  BY <1>4, <1>6 DEF AlertReturns, Return
<1>7. CASE HandlersRun
  BY <1>2, <1>7 DEF HandlersRun
<1>8. ASSUME NEW c \in Channels, Signal(c) PROVE ReportInv'
  BY <1>2, <1>8 DEF Signal
<1>9. CASE ChildStep
  BY <1>2, <1>9 DEF ChildStep, ChildCloses
<1>10. ASSUME NEW ran \in BOOLEAN, ActivityEffect(ran),
              UNCHANGED <<run, pc, phase, outcome, started, succeeded>>
       PROVE  ReportInv'
  <2>1. ASSUME pc = "record", NEW r, r = [run |-> run, status |-> RunStatus]
        PROVE  RecordOK(r)
    <3>1. r.run = run /\ r.status = RunStatus
      BY <2>1
    <3>2. \/ phase = "COMPLETED" /\ succeeded = Children
          \/ phase = "FAILED"
      BY <2>1 DEF ProgressInv
    <3> QED
      BY <1>0, <2>1, <3>1, <3>2 DEF RecordOK, RunStatus
  <2>2. ASSUME pc = "alert", NEW a, a = [run |-> run, type |-> alertType]
        PROVE  AlertOK(a)
    <3>1. a.run = run /\ a.type = alertType
      BY <2>2
    <3>2. alertType # "none"
      BY <2>2 DEF TypeOK
    <3>3. \/ alertType = "sync_degraded" /\ succeeded = Children
          \/ \E c \in started \ succeeded : alertType = FailureAlert(c)
      BY <2>2, <3>2 DEF ProgressInv
    <3> QED
      BY <1>0, <2>2, <3>1, <3>3 DEF AlertOK
  <2>3. \A r \in recorded' : RecordOK(r)
    BY <1>10, <2>1 DEF ActivityEffect, ReportInv
  <2>4. \A a \in alerted' : AlertOK(a)
    BY <1>10, <2>2 DEF ActivityEffect, ReportInv
  <2> QED
    BY <1>10, <2>3, <2>4 DEF ReportInv, RecordOK, AlertOK
<1>11. CASE ActivityStep
  BY <1>10, <1>11 DEF ActivityStep, ActivityCloses
<1>12. ASSUME NEW ran \in BOOLEAN, RequestCancel(ran) PROVE ReportInv'
  BY <1>10, <1>12 DEF RequestCancel
<1>13. CASE TimeOut
  <2>1. /\ pc' = "closed" /\ outcome' = "timed_out" /\ pc # "closed"
        /\ UNCHANGED <<run, recorded, alerted, started, succeeded>>
    BY <1>13 DEF TimeOut, Return
  <2> QED
    BY <2>1 DEF ReportInv, RecordOK, AlertOK
<1>14. CASE Retry
  <2>1. /\ outcome \in {"failed", "cancelled"} /\ run' = run + 1
        /\ UNCHANGED <<recorded, alerted>>
    BY <1>14 DEF Retry
  <2>2. pc = "closed"
    BY <2>1 DEF ProgressInv
  <2>3. \A r \in recorded : r.status = "failed" /\ r.run < run'
    BY <1>0, <2>1, <2>2 DEF ReportInv, RecordOK
  <2>4. \A a \in alerted : a.run < run'
    BY <1>0, <2>1 DEF ReportInv, AlertOK
  <2> QED
    BY <1>0, <2>1, <2>3, <2>4 DEF ReportInv, RecordOK, AlertOK
<1>15. CASE UNCHANGED vars
  BY <1>2, <1>15 DEF vars
<1> QED
  BY <1>3, <1>5, <1>6, <1>7, <1>8, <1>9, <1>11, <1>12, <1>13, <1>14, <1>15
  DEF Next, RootStep, Done

(* Run records and alerts say what happened, across retries: no run follows *)
(* one recorded completed, and an alert names the phase that failed.        *)
THEOREM ReportsAreTruthful == Spec => []ReportsTruthful
<1>1. Init => ReportInv
  BY DEF Init, ReportInv
<1>2. ProgressInv /\ ReportInv => ReportsTruthful
  <2> SUFFICES ASSUME ProgressInv, ReportInv PROVE ReportsTruthful
    OBVIOUS
  <2>1. ASSUME NEW r \in recorded
        PROVE  /\ r.status = "completed" =>
                    /\ r.run = run /\ succeeded = Children
                    /\ outcome \in {"open", "completed", "timed_out"}
               /\ r.status = "failed" /\ r.run = run => outcome # "completed"
               /\ r.status # "cancelled"
    BY DEF ProgressInv, ReportInv, RecordOK, Activities
  <2>2. \A a \in alerted : a.run = run =>
          \/ a.type = "sync_degraded" /\ succeeded = Children
          \/ \E c \in started \ succeeded : a.type = FailureAlert(c)
    BY DEF ReportInv, AlertOK
  <2> QED
    BY <2>1, <2>2 DEF ReportsTruthful
<1> QED
  BY <1>1, <1>2, ReportStep, ProgressInvariant, TypeCorrect, PTL DEF Spec, ProgressAndCancel
=============================================================================
