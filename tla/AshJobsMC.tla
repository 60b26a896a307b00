----------------------------- MODULE AshJobsMC -----------------------------
(* Values for the constants of AshJobs: SIGUSR2 is caught by default,      *)
(* SIGTERM is not; 3 stands for an exit code of a failing command.         *)
EXTENDS AshJobs

MCPids    == {101, 102}
MCCodes   == {0, 3}
MCSignals == {12}
MCActions == {"none", "empty", "run", "exit"}
MCDefaultHandled == {12}
=============================================================================
