----------------------------- MODULE MCBatcher -----------------------------
(* Batcher with its constants given in the cfg file.                       *)
EXTENDS Batcher
=============================================================================
