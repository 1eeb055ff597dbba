----------------------------- MODULE MCShutdown -----------------------------
(* Instances of Shutdown: every way to start the process.                   *)
EXTENDS Shutdown

MCModes == AllModes

MCServing == AllModes \ {"run"}
=============================================================================
