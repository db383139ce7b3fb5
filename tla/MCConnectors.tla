---------------------------- MODULE MCConnectors ----------------------------
(***************************************************************************)
(* The connectors and what runs them: a behaviour is one of Sources,       *)
(* Destinations, Runtime and MessageHandler, the others stay as they are.  *)
(* The parts share no state, so one run explores them side by side.        *)
(***************************************************************************)
EXTENDS Sources, Destinations, Runtime, MessageHandler

VARIABLE part

vars == <<part, srcVars, dstVars, rtVars, mhVars>>

MCInputs == {<<1, 2, -1, 3>>, <<3, 0, 4>>}
MCMessages == <<"record", "state", "record", "record">>

\* A part that does not move has one initial state.
Init ==
    /\ part \in {"sources", "destinations", "runtime", "handler"}
    /\ SourcesInit /\ DestinationsInit /\ RuntimeInit /\ MessageHandlerInit
    /\ part = "sources" \/ srcKind = CHOOSE k \in SrcKinds : TRUE
    /\ part = "destinations" \/ dstKind = CHOOSE k \in DstKinds : TRUE
    /\ part = "runtime" \/ rtKind = CHOOSE k \in RtKinds : TRUE

Next ==
    \/ part = "sources" /\ SourcesNext /\ UNCHANGED <<part, dstVars, rtVars, mhVars>>
    \/ part = "destinations" /\ DestinationsNext /\ UNCHANGED <<part, srcVars, rtVars, mhVars>>
    \/ part = "runtime" /\ RuntimeNext /\ UNCHANGED <<part, srcVars, dstVars, mhVars>>
    \/ part = "handler" /\ MessageHandlerNext /\ UNCHANGED <<part, srcVars, dstVars, rtVars>>

Spec == Init /\ [][Next]_vars

\* The types of all parts; with them that the HTTP client makes no more attempts than
\* its configuration allows, and that no channel and no batch holds more than it may.
TypeOK == SourcesTypeOK /\ DestinationsTypeOK /\ RuntimeTypeOK /\ MessageHandlerTypeOK
=============================================================================
