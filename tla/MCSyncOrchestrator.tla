------------------------ MODULE MCSyncOrchestrator ------------------------
(* SyncOrchestrator with its constants given in the cfg files.             *)
EXTENDS SyncOrchestrator
=============================================================================
