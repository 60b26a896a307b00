---------------------------- MODULE AshSignalsMC ----------------------------
(* Values for the constants of AshSignals: SIGHUP (1) is caught by default, *)
(* SIGTERM (15) is not; each definition Cmd... says what scripts may hold.   *)
EXTENDS AshSignals

MCSignals == {1, 15}
MCDefaultHandled == {1}
MCTerm == {15}
MCNone == {}
MCCodes == {3}

Only(main, job) == [r \in Runners |-> IF r = Main THEN main ELSE job]

CmdSubshells == Only({"trap", "subshell", "simple", "foreground"}, {})
CmdActions   == Only({"trap", "trapexit", "kill", "exit", "subshell"}, {})
CmdJobs      == Only({"trap", "wait", "subshell", "job", "killjob"}, {"kill"})
=============================================================================
