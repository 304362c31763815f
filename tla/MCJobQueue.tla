----------------------------- MODULE MCJobQueue -----------------------------
(* Two processes with one worker each (cmd/api and cmd/worker), for TLC. *)
EXTENDS JobQueue, TLC
CONSTANTS api, worker, w1, w2
MCProcOf == w1 :> api @@ w2 :> worker
=============================================================================
