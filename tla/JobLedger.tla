----------------------------- MODULE JobLedger -----------------------------
(***************************************************************************)
(* What the job table promises to the script, without channels, pids or    *)
(* the order of the table: every job that was started ends in some way,    *)
(* and a wait tells its status once, after it has ended, and truthfully.   *)
(***************************************************************************)
EXTENDS Integers, Sequences

CONSTANTS MaxJobs, Codes, Signals

Ids == 1..MaxJobs

VARIABLES
    started,   \* jobs started so far: 1..started
    fate,      \* how each job ended
    told       \* the statuses reported for each job

Alive   == [how |-> "alive",  n |-> 0]
Exit(c) == [how |-> "exit",   n |-> c]
Died(s) == [how |-> "signal", n |-> s]

Endings == {Exit(c) : c \in Codes} \cup {Died(s) : s \in Signals}

\* A command that a signal terminated may be reported as 128 plus the signal,
\* as for a foreground command, or as -1, the ExitCode of the Go runtime.
Reports(f) == IF f.how = "signal" THEN {128 + f.n, -1} ELSE {f.n}

Init ==
    /\ started = 0
    /\ fate = [j \in Ids |-> Alive]
    /\ told = [j \in Ids |-> <<>>]

Start ==
    /\ started < MaxJobs
    /\ started' = started + 1
    /\ UNCHANGED <<fate, told>>

\* One signal can end several jobs.
End ==
    /\ \E hit \in SUBSET {j \in 1..started : fate[j] = Alive} :
         \E f \in Endings : fate' = [j \in Ids |-> IF j \in hit THEN f ELSE fate[j]]
    /\ UNCHANGED <<started, told>>

Tell(j) ==
    /\ fate[j] # Alive /\ told[j] = <<>>
    /\ \E c \in Reports(fate[j]) : told' = [told EXCEPT ![j] = <<c>>]
    /\ UNCHANGED <<started, fate>>

Next == Start \/ End \/ \E j \in Ids : Tell(j)

Spec == Init /\ [][Next]_<<started, fate, told>>
=============================================================================
