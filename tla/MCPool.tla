------------------------------- MODULE MCPool -------------------------------
(* Pool with its constants given in the cfg files.                         *)
EXTENDS Pool
=============================================================================
