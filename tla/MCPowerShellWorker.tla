-------------------------- MODULE MCPowerShellWorker --------------------------
(* PowerShellWorker with fewer workers than commands, so that queues build up. *)
EXTENDS PowerShellWorker
=============================================================================
