------------------------------ MODULE Handoff ------------------------------
(***************************************************************************)
(* What a batching buffer promises the records put into it, whatever locks *)
(* and timers it uses: a record is accepted or refused once; an accepted   *)
(* record is held until everything held is handed to the flush function in *)
(* one batch, and is never handed over twice; no record is held for ever.  *)
(* The batcher of internal/worker/load/batcher.go implements it.           *)
(***************************************************************************)
EXTENDS Naturals, FiniteSets

CONSTANTS Records, MaxSize

VARIABLE stage

Stages == {"new", "held", "refused", "handed", "delivered", "failed"}

At(s) == {r \in Records : stage[r] = s}

(* Move(S, s): the records of S get to stage s together. *)
Move(S, s) == stage' = [r \in Records |-> IF r \in S THEN s ELSE stage[r]]

Accept(r) == r \in At("new") /\ Move({r}, "held")

Refuse(r) == r \in At("new") /\ Move({r}, "refused")

(* The record that fills the batch goes out with the records held. *)
Complete(r) ==
    /\ r \in At("new")
    /\ Cardinality(At("held")) < MaxSize
    /\ Move(At("held") \cup {r}, "handed")

HandOver ==
    /\ At("held") # {} /\ Cardinality(At("held")) <= MaxSize
    /\ Move(At("held"), "handed")

(* The flush function returns for one batch. *)
Return(S, s) == S # {} /\ S \subseteq At("handed") /\ Move(S, s)

HandoffInit == stage = [r \in Records |-> "new"]

HandoffNext ==
    \/ \E r \in Records : Accept(r) \/ Refuse(r) \/ Complete(r)
    \/ HandOver
    \/ \E S \in SUBSET Records : Return(S, "delivered") \/ Return(S, "failed")

(* What may happen to a record. *)
HandoffSafety == HandoffInit /\ [][HandoffNext]_stage

(* And what must: records that are held are handed over. *)
HandoffSpec == HandoffSafety /\ WF_stage(HandOver)
=============================================================================
