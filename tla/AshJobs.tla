------------------------------ MODULE AshJobs ------------------------------
(***************************************************************************)
(* Background jobs of the shell, src/pkg/applets/ash/ash.go: the job table *)
(* of one runner, the goroutine that waits for each job and sends its exit *)
(* status, the builtins wait, fg, kill and exit, and the signals that may  *)
(* interrupt a wait.                                                       *)
(*                                                                         *)
(* A job is either a subshell, run by a goroutine of the same process and  *)
(* known by the pseudo process id -id, or an external command, a process   *)
(* with a positive process id.  The main goroutine is the only one to use  *)
(* the job table; it meets the others only at the channels.                *)
(***************************************************************************)
EXTENDS Integers, Sequences, FiniteSets, SequencesExt

CONSTANTS
    MaxJobs,     \* bound: jobs started in one behaviour
    Pids,        \* process ids the kernel hands out
    Codes,       \* exit codes of scripts and commands
    Signals,     \* signal numbers
    DefaultHandled, \* signals caught without a trap: SIGHUP and SIGUSR2
    Actions,     \* what a trap may be: none, empty, run, or exit (its action exits)
    SigCap,      \* capacity of a signal channel, 8 in the code
    MaxArgs,     \* bound: arguments of one wait command
    StaleRefs,   \* may the script name a job that it has already waited for?
    RecyclePids  \* may the kernel hand out the pid of a reaped process again?

ASSUME JobsAssumption ==
    /\ MaxJobs \in Nat
    /\ Pids \subseteq Nat \ {0}
    /\ Codes \subseteq Nat
    /\ Signals \subseteq Nat \ {0}
    /\ DefaultHandled \subseteq Signals
    /\ Actions \subseteq {"none", "empty", "run", "exit"}
    /\ SigCap \in Nat
    /\ MaxArgs \in Nat
    /\ StaleRefs \in BOOLEAN
    /\ RecyclePids \in BOOLEAN

Ids == 1..MaxJobs

VARIABLES
    \* The runner's job table
    jobs,        \* ids in the table
    jobOrder,    \* ids, oldest job first
    jobByPid,    \* process id -> id
    nextJobID,
    lastBgPid,   \* $!
    lastStatus,  \* $?
    \* The jobs
    pid,         \* job.pid
    ch,          \* job.ch: a channel of capacity 1
    worker,      \* where the goroutine of the job is
    code,        \* the value it is about to send
    inbox,       \* job.runner.signalCh of a subshell
    fate,        \* how the script or the process ended
    \* The main goroutine
    pc,
    todo,        \* arguments wait has not looked at yet
    waitAll,     \* wait was called without arguments
    target,      \* what waitOne or Wait4 blocks on
    status,      \* the local variable of waitBuiltin
    signalCh,
    traps,
    \* History
    told         \* told[j]: the statuses wait has reported for job j

table  == <<jobs, jobOrder, jobByPid, nextJobID, lastBgPid>>
tasks  == <<pid, ch, worker, code, inbox, fate>>
waitvars == <<todo, waitAll, target, status>>
sigs   == <<signalCh, traps>>
vars   == <<table, tasks, waitvars, sigs, lastStatus, pc, told>>

-----------------------------------------------------------------------------
(* Exit statuses.                                                           *)

ExitFailure == 1

Alive   == [how |-> "alive",  n |-> 0]
Exit(c) == [how |-> "exit",   n |-> c]
Died(s) == [how |-> "signal", n |-> s]

Fates == {Alive} \cup {Exit(c) : c \in Codes} \cup {Died(s) : s \in Signals}

SignalExitStatus(s) == 128 + s

\* The status a shell reports: what the foreground path and Wait4 compute.
ShellStatus(f) == IF f.how = "signal" THEN SignalExitStatus(f.n) ELSE f.n

\* Mutant: the error of command.Wait() is not looked at.
GoExitCodeIgnored(f) == 0

\* (*ExitError).ExitCode(): -1 for a process that a signal terminated.
GoExitCode(f) == IF f.how = "signal" THEN -1 ELSE f.n

IsShell(j) == pid[j] < 0

\* A send in a select with a default: dropped when the channel is full.
Offer(q, s) == IF Len(q) < SigCap THEN Append(q, s) ELSE q

Started == {j \in Ids : worker[j] # "none"}
Running == {j \in Ids : worker[j] = "running"}

\* Child processes: not yet exited, exited and not yet reaped.
LiveProcs == {j \in Running : ~IsShell(j)}
Zombies   == {j \in Ids : worker[j] = "exited"}

-----------------------------------------------------------------------------
(* The job table.                                                           *)

AddJob(p) ==
    LET id == nextJobID IN
    /\ nextJobID' = id + 1
    /\ jobs' = jobs \cup {id}
    /\ jobByPid' = [q \in DOMAIN jobByPid \cup {p} |->
                       IF q = p THEN id ELSE jobByPid[q]]
    /\ jobOrder' = Append(jobOrder, id)
    /\ lastBgPid' = p
    /\ pid' = [pid EXCEPT ![id] = p]
    /\ worker' = [worker EXCEPT ![id] = "running"]
    /\ ch' = [ch EXCEPT ![id] = [buf |-> <<>>, closed |-> FALSE]]
    /\ UNCHANGED <<code, inbox, fate>>

\* Mutant: the job at the head of the order is dropped, waited for or not.
RemoveOldestJob(id) ==
    /\ jobs' = jobs \ {id}
    /\ jobByPid' = [q \in DOMAIN jobByPid \ {pid[id]} |-> jobByPid[q]]
    /\ jobOrder' = Tail(jobOrder)
    /\ UNCHANGED <<nextJobID, lastBgPid>>

\* Mutant: the pid of the job is not forgotten.
RemoveJobKeepPid(id) ==
    /\ jobs' = jobs \ {id}
    /\ jobOrder' = SelectSeq(jobOrder, LAMBDA k : k # id)
    /\ UNCHANGED <<jobByPid, nextJobID, lastBgPid>>

\* Only the first entry of the order is dropped.
RemoveJob(id) ==
    /\ jobs' = jobs \ {id}
    /\ jobByPid' = [q \in DOMAIN jobByPid \ {pid[id]} |-> jobByPid[q]]
    /\ jobOrder' = LET first == {i \in DOMAIN jobOrder :
                                    /\ jobOrder[i] = id
                                    /\ \A k \in 1..(i - 1) : jobOrder[k] # id}
                   IN  IF first = {} THEN jobOrder
                       ELSE RemoveAt(jobOrder, CHOOSE i \in first : TRUE)
    /\ UNCHANGED <<nextJobID, lastBgPid>>

-----------------------------------------------------------------------------
Init ==
    /\ jobs = {} /\ jobOrder = <<>> /\ jobByPid = [q \in {} |-> 0]
    /\ nextJobID = 1 /\ lastBgPid = 0 /\ lastStatus = 0
    /\ pid = [j \in Ids |-> 0]
    /\ ch = [j \in Ids |-> [buf |-> <<>>, closed |-> FALSE]]
    /\ worker = [j \in Ids |-> "none"]
    /\ code = [j \in Ids |-> 0]
    /\ inbox = [j \in Ids |-> <<>>]
    /\ fate = [j \in Ids |-> Alive]
    /\ pc = "ready"
    /\ todo = <<>> /\ waitAll = FALSE /\ target = 0 /\ status = 0
    /\ signalCh = <<>>
    /\ traps \in [Signals -> Actions]
    /\ told = [j \in Ids |-> <<>>]

-----------------------------------------------------------------------------
(* Commands of the script.  Every command ends in "signals", where          *)
(* handleSignalsNonBlocking runs before the next one.                       *)

Return(st) == pc' = "signals" /\ lastStatus' = st

\* The return of waitBuiltin: its local variables are gone.
WaitReturn(st) ==
    /\ Return(st)
    /\ todo' = <<>> /\ waitAll' = FALSE /\ target' = 0 /\ status' = 0

StartSubshell ==
    /\ pc = "ready" /\ nextJobID <= MaxJobs
    /\ AddJob(-nextJobID)
    /\ Return(0)
    /\ UNCHANGED <<waitvars, sigs, told>>

\* A pid is free when no process has it; the kernel avoids recent ones.
FreePid(p) ==
    \A j \in Started : pid[j] = p =>
        RecyclePids /\ worker[j] \notin {"running", "exited"}

StartCommand ==
    /\ pc = "ready" /\ nextJobID <= MaxJobs
    /\ \/ /\ \E p \in Pids : FreePid(p) /\ AddJob(p)
          /\ Return(0)
       \/ /\ Return(ExitFailure)                 \* command.Start() failed
          /\ UNCHANGED <<table, tasks>>
    /\ UNCHANGED <<waitvars, sigs, told>>

\* What a script can name: %n, %%, %-, and the value $! had after a start.
Named == {pid[j] : j \in IF StaleRefs THEN Started ELSE jobs}

WaitTargets ==
    {[kind |-> "id", n |-> j] : j \in Ids}
        \cup {[kind |-> "current", n |-> 0], [kind |-> "previous", n |-> 0]}
        \cup {[kind |-> "pid", n |-> p] : p \in Named}

StartWait(args) ==
    /\ pc = "ready"
    /\ IF jobs = {}
       THEN /\ Return(IF args = <<>> THEN 0 ELSE ExitFailure)
            /\ UNCHANGED waitvars
       ELSE /\ pc' = "wait" /\ lastStatus' = 0
            /\ todo' = args /\ waitAll' = (args = <<>>)
            /\ status' = 0 /\ target' = 0
    /\ UNCHANGED <<table, tasks, sigs, told>>

Wait == StartWait(<<>>)    \* also the builtin fg

\* Two arguments can name one job, and so make the second stale.
Distinct(args) ==
    \/ \A i \in DOMAIN args : args[i].kind # "pid"
    \/ \A i \in DOMAIN args : /\ args[i].kind = "pid"
                             /\ \A k \in DOMAIN args : args[i] = args[k] => i = k

WaitFor ==
    \E n \in 1..MaxArgs : \E args \in [1..n -> WaitTargets] :
        /\ StaleRefs \/ Distinct(args)
        /\ StartWait(args)

\* The job an argument names, 0 for none.
Resolve(arg) ==
    CASE arg.kind = "id"       -> IF arg.n \in jobs THEN arg.n ELSE 0
      [] arg.kind = "current"  -> IF jobOrder # <<>> THEN Last(jobOrder) ELSE 0
      [] arg.kind = "previous" -> IF Len(jobOrder) >= 2
                                  THEN jobOrder[Len(jobOrder) - 1] ELSE 0
      [] OTHER                 -> IF arg.n \in DOMAIN jobByPid
                                  THEN jobByPid[arg.n] ELSE 0

\* The head of either loop of waitBuiltin: pick what to block on, or return.
WaitNext ==
    /\ pc = "wait"
    /\ \/ /\ waitAll /\ jobOrder # <<>>
          /\ target' = Head(jobOrder) /\ pc' = "receive"
          /\ UNCHANGED <<todo, waitAll, status, lastStatus>>
       \/ /\ IF waitAll THEN jobOrder = <<>> ELSE todo = <<>>
          /\ WaitReturn(status)
       \/ /\ ~waitAll /\ todo # <<>> /\ Resolve(Head(todo)) # 0
          /\ target' = Resolve(Head(todo)) /\ todo' = Tail(todo)
          /\ pc' = "receive"
          /\ UNCHANGED <<waitAll, status, lastStatus>>
       \/ /\ ~waitAll /\ todo # <<>> /\ Resolve(Head(todo)) = 0
          /\ IF Head(todo).kind = "pid"
             THEN /\ target' = Head(todo).n /\ todo' = Tail(todo)
                  /\ pc' = "wait4" /\ UNCHANGED <<waitAll, status, lastStatus>>
             ELSE WaitReturn(ExitFailure)
    /\ UNCHANGED <<table, tasks, sigs, told>>

\* waitOne, the channel yields: the value, or the zero value once closed.
Receive ==
    /\ pc = "receive"
    /\ \/ /\ ch[target].buf # <<>>
          /\ status' = Head(ch[target].buf)
          /\ ch' = [ch EXCEPT ![target].buf = Tail(@)]
       \/ /\ ch[target].buf = <<>> /\ ch[target].closed
          /\ status' = 0
          /\ UNCHANGED ch
    /\ RemoveJob(target)
    /\ lastStatus' = status' /\ pc' = "wait" /\ target' = 0
    /\ told' = [told EXCEPT ![target] = Append(@, status')]
    /\ UNCHANGED <<pid, worker, code, inbox, fate, todo, waitAll, sigs>>

\* Mutant: an interrupted wait forgets the job.
WaitSignalForgets ==
    /\ pc = "receive" /\ signalCh # <<>>
    /\ IF traps[Head(signalCh)] \in {"run", "exit"}
       THEN RemoveJob(target) /\ WaitReturn(SignalExitStatus(Head(signalCh)))
       ELSE UNCHANGED <<table, pc, waitvars, lastStatus>>
    /\ signalCh' = Tail(signalCh)
    /\ UNCHANGED <<tasks, traps, told>>

\* waitOne, a signal comes first: its trap interrupts the wait, and without
\* one the signal is taken from the channel and has no effect.
WaitSignal ==
    /\ pc = "receive" /\ signalCh # <<>>
    /\ LET s == Head(signalCh) IN
         CASE traps[s] = "run"  -> WaitReturn(SignalExitStatus(s))
           [] traps[s] = "exit" -> pc' = "exited" /\ UNCHANGED <<waitvars, lastStatus>>
           [] OTHER             -> UNCHANGED <<pc, waitvars, lastStatus>>
    /\ signalCh' = Tail(signalCh)
    /\ UNCHANGED <<table, tasks, traps, told>>

\* wait4(2) of a pid that is not in the table.  -1 means any child; -n the
\* children in process group n, where the shell has none.
Wait4Set == IF target = -1 THEN LiveProcs \cup Zombies
            ELSE {j \in LiveProcs \cup Zombies : pid[j] = target}

\* Mutant: an error of wait4 is taken for EINTR and the call is repeated.
Wait4Retry ==
    /\ pc = "wait4"
    /\ \E j \in Wait4Set \cap Zombies :
          /\ worker' = [worker EXCEPT ![j] = "stolen"]
          /\ status' = ShellStatus(fate[j])
          /\ lastStatus' = status' /\ pc' = "wait" /\ target' = 0
    /\ UNCHANGED <<table, pid, ch, code, inbox, fate, todo, waitAll, sigs, told>>

Wait4 ==
    /\ pc = "wait4"
    /\ \/ /\ Wait4Set = {}                       \* ECHILD
          /\ WaitReturn(ExitFailure)
          /\ UNCHANGED worker
       \/ \E j \in Wait4Set \cap Zombies :
          /\ worker' = [worker EXCEPT ![j] = "stolen"]
          /\ status' = ShellStatus(fate[j])
          /\ lastStatus' = status' /\ pc' = "wait" /\ target' = 0
          /\ UNCHANGED <<todo, waitAll>>
    /\ UNCHANGED <<table, pid, ch, code, inbox, fate, sigs, told>>

\* Mutant: the signal goes to the process group.
KillGroup(p) == LiveProcs

\* The processes kill(2) signals.
KillSet(p) == IF p = -1 THEN LiveProcs ELSE {j \in LiveProcs : pid[j] = p}

Exists(p) == KillSet(p) # {} \/ \E j \in Zombies : p \in {-1, pid[j]}

\* kill -s pid; -0 signals nobody.  A tracked subshell gets the signal in its channel; any other
\* pid goes to kill(2), and a signalled process dies of it unless it catches it.
KillJob(p, s) ==
    /\ pc = "ready"
    /\ IF p < 0 /\ p \in DOMAIN jobByPid
       THEN /\ inbox' = [inbox EXCEPT ![jobByPid[p]] = Offer(@, s)]
            /\ Return(0)
            /\ UNCHANGED <<worker, fate>>
       ELSE \E hit \in IF s = 0 THEN {{}} ELSE SUBSET KillSet(p) :
            /\ worker' = [j \in Ids |-> IF j \in hit THEN "exited" ELSE worker[j]]
            /\ fate' = [j \in Ids |-> IF j \in hit THEN Died(s) ELSE fate[j]]
            /\ Return(IF Exists(p) THEN 0 ELSE ExitFailure)
            /\ UNCHANGED inbox
    /\ UNCHANGED <<table, pid, ch, code, waitvars, sigs, told>>

Kill == \E p \in Named, s \in Signals \cup {0} : KillJob(p, s)

\* exit, or the end of the script: the process ends and its goroutines with it.
ExitShell ==
    /\ pc = "ready"
    /\ pc' = "exited"
    /\ UNCHANGED <<table, tasks, waitvars, sigs, lastStatus, told>>

\* handleSignalsNonBlocking and runTrap; a signal without a trap ends the shell.
HandleSignals ==
    /\ pc = "signals"
    /\ IF signalCh = <<>>
       THEN pc' = "ready" /\ UNCHANGED signalCh
       ELSE /\ signalCh' = Tail(signalCh)
            /\ pc' = IF traps[Head(signalCh)] \in {"run", "empty"}
                     THEN "signals" ELSE "exited"
    /\ UNCHANGED <<table, tasks, waitvars, traps, lastStatus, told>>

-----------------------------------------------------------------------------
(* Signals to the shell: from the kernel, if caught, or from a background   *)
(* subshell that runs kill $$ (forwardSignal).                              *)

Caught(s) == traps[s] \in {"run", "exit"} \/ (traps[s] = "none" /\ s \in DefaultHandled)

SignalArrives ==
    /\ pc # "exited"
    /\ \E s \in Signals :
         /\ Caught(s) \/ \E j \in Running : IsShell(j)
         /\ signalCh' = Offer(signalCh, s)
    /\ UNCHANGED <<table, tasks, waitvars, traps, lastStatus, pc, told>>

-----------------------------------------------------------------------------
(* Jobs.                                                                    *)

EndTask(j, f, w, c) ==
    /\ fate' = [fate EXCEPT ![j] = f]
    /\ worker' = [worker EXCEPT ![j] = w]
    /\ code' = [code EXCEPT ![j] = c]
    /\ UNCHANGED <<table, pid, ch, waitvars, sigs, lastStatus, pc, told>>

\* A background script ends: sub.runScript returns its status.
SubshellExit(j) ==
    /\ j \in Running /\ IsShell(j)
    /\ \E c \in Codes : EndTask(j, Exit(c), "sending", c)
    /\ UNCHANGED inbox

\* It looks at its signals between two commands: ignored (by the parent's
\* empty trap) or, runTrap without a trap, the end of the script.
SubshellSignal(j) ==
    /\ j \in Running /\ IsShell(j) /\ inbox[j] # <<>>
    /\ inbox' = [inbox EXCEPT ![j] = Tail(@)]
    /\ LET s == Head(inbox[j]) IN
         IF s = 0 \/ traps[s] = "empty"
         THEN UNCHANGED <<fate, worker, code, table, pid, ch, waitvars, sigs,
                          lastStatus, pc, told>>
         ELSE EndTask(j, Died(s), "sending", SignalExitStatus(s))

ProcessExit(j) ==
    /\ j \in LiveProcs
    /\ \E f \in Fates \ {Alive} : EndTask(j, f, "exited", 0)
    /\ UNCHANGED inbox

\* Mutant: the goroutine gives up without a word when command.Wait() fails.
ReapSilent(j) ==
    /\ worker[j] \in {"exited", "stolen"}
    /\ EndTask(j, fate[j], IF worker[j] = "exited" THEN "sending" ELSE "closing",
               GoExitCode(fate[j]))
    /\ UNCHANGED inbox

\* command.Wait() returns: the process is reaped, or somebody else has done it.
Reap(j) ==
    /\ worker[j] \in {"exited", "stolen"}
    /\ EndTask(j, fate[j], "sending",
               IF worker[j] = "exited" THEN GoExitCode(fate[j]) ELSE ExitFailure)
    /\ UNCHANGED inbox

\* Mutant: a status of 0 or less is not sent.
SendFailures(j) ==
    /\ worker[j] = "sending" /\ ch[j].buf = <<>> /\ code[j] > 0
    /\ ch' = [ch EXCEPT ![j].buf = Append(@, code[j])]
    /\ worker' = [worker EXCEPT ![j] = "closing"]
    /\ code' = [code EXCEPT ![j] = 0]
    /\ UNCHANGED <<table, pid, inbox, fate, waitvars, sigs, lastStatus, pc, told>>

Send(j) ==
    /\ worker[j] = "sending" /\ ch[j].buf = <<>>
    /\ ch' = [ch EXCEPT ![j].buf = Append(@, code[j])]
    /\ worker' = [worker EXCEPT ![j] = "closing"]
    /\ code' = [code EXCEPT ![j] = 0]
    /\ UNCHANGED <<table, pid, inbox, fate, waitvars, sigs, lastStatus, pc, told>>

Close(j) ==
    /\ worker[j] = "closing"
    /\ ch' = [ch EXCEPT ![j].closed = TRUE]
    /\ worker' = [worker EXCEPT ![j] = "ended"]
    /\ UNCHANGED <<table, pid, code, inbox, fate, waitvars, sigs, lastStatus, pc, told>>

-----------------------------------------------------------------------------
Main == \/ StartSubshell \/ StartCommand \/ Wait \/ WaitFor \/ Kill \/ ExitShell
        \/ WaitNext \/ Receive \/ WaitSignal \/ Wait4 \/ HandleSignals

\* The goroutines and the processes run until the shell exits.
Worker(j) ==
    /\ pc # "exited"
    /\ \/ SubshellExit(j) \/ SubshellSignal(j) \/ ProcessExit(j)
       \/ Reap(j) \/ Send(j) \/ Close(j)

Exited == pc = "exited" /\ UNCHANGED vars

Next == Main \/ SignalArrives \/ Exited \/ \E j \in Ids : Worker(j)

\* The Go scheduler runs every goroutine that can move, a select that stays
\* ready is taken (the choice between ready cases is random), and a script or
\* a command may or may not end.
Fairness ==
    /\ WF_vars(WaitNext) /\ WF_vars(Receive) /\ WF_vars(Wait4)
    /\ \A j \in Ids : WF_vars(pc # "exited" /\ (Reap(j) \/ Send(j) \/ Close(j)))

Spec == Init /\ [][Next]_vars /\ Fairness
-----------------------------------------------------------------------------
(* Properties.                                                              *)

Statuses == Codes \cup {-1, 0, ExitFailure} \cup {SignalExitStatus(s) : s \in Signals}

TableOK ==
    /\ jobs \subseteq Ids
    /\ jobOrder \in Seq(Ids)
    /\ DOMAIN jobByPid \subseteq Pids \cup {-j : j \in Ids}
    /\ \A p \in DOMAIN jobByPid : jobByPid[p] \in Ids
    /\ nextJobID \in 1..(MaxJobs + 1)
    /\ lastBgPid \in Pids \cup {-j : j \in Ids} \cup {0}

TasksOK ==
    /\ pid \in [Ids -> Pids \cup {-j : j \in Ids} \cup {0}]
    /\ ch \in [Ids -> [buf : Seq(Statuses), closed : BOOLEAN]]
    /\ \A j \in Ids : Len(ch[j].buf) <= 1
    /\ worker \in [Ids -> {"none", "running", "exited", "stolen", "sending",
                           "closing", "ended"}]
    /\ code \in [Ids -> Statuses]
    /\ inbox \in [Ids -> Seq(Signals \cup {0})]
    /\ \A j \in Ids : Len(inbox[j]) <= SigCap
    /\ fate \in [Ids -> Fates]

MainOK ==
    /\ pc \in {"signals", "ready", "wait", "receive", "wait4", "exited"}
    /\ waitAll \in BOOLEAN
    /\ lastStatus \in Statuses /\ status \in Statuses
    /\ signalCh \in Seq(Signals) /\ Len(signalCh) <= SigCap
    /\ traps \in [Signals -> Actions]
    /\ told \in [Ids -> Seq(Statuses)]

\* The type of every variable; no channel holds more than its capacity.
TypeOK == TableOK /\ TasksOK /\ MainOK

\* jobs and jobOrder (addJob, removeJob) hold the same jobs, oldest first: wait
\* without arguments reaches each of them, once.
OrderConsistent ==
    /\ jobs = {jobOrder[i] : i \in DOMAIN jobOrder}
    /\ \A i, k \in DOMAIN jobOrder : i < k => jobOrder[i] < jobOrder[k]

\* Every tracked job is found by the process id the script knows, and no pid
\* leads anywhere else.  (Not so if the kernel reuses the pid of a job that
\* has been reaped but not yet waited for.)
PidsConsistent ==
    /\ DOMAIN jobByPid = {pid[j] : j \in jobs}
    /\ \A j \in jobs : jobByPid[pid[j]] = j

\* The branch of waitOne for a closed channel, which reports 0 for a job
\* whose status it does not have, is never taken: the status of a tracked job
\* is in its channel or still to come.
StatusStillToCome ==
    \A j \in jobs : ch[j].buf # <<>> \/ worker[j] \notin {"none", "closing", "ended"}

\* No status is lost or told twice, whatever interrupts the waits: a job
\* leaves the table exactly when a wait has reported it.
ToldOnce ==
    \A j \in Ids : Len(told[j]) = IF j \in jobs \/ j >= nextJobID THEN 0 ELSE 1

\* What makes the three above inductive: ids are handed out in order, a
\* goroutine sends before it closes, a pid leads to a tracked job that has it,
\* and waitOne blocks on a tracked job, so that it is told at most once.
JobsInv ==
    /\ \A j \in Ids : worker[j] = "none" <=> j >= nextJobID
    /\ \A j \in jobs : j < nextJobID
    /\ \A j \in Ids : worker[j] \notin {"closing", "ended"} =>
          ch[j].buf = <<>> /\ ~ch[j].closed
    /\ \A p \in DOMAIN jobByPid : jobByPid[p] \in jobs /\ pid[jobByPid[p]] = p
    /\ \A j \in Ids : worker[j] # "none" => pid[j] \in {-j} \cup Pids
    /\ pc = "receive" => target \in jobs
    /\ OrderConsistent /\ StatusStillToCome /\ ToldOnce

\* kill of a pid the script holds reaches that job and no other.
KillHitsItsTarget ==
    [][\A p \in Named : (\E s \in Signals \cup {0} : KillJob(p, s)) =>
          \A j \in Ids : pid[j] # p => /\ inbox'[j] = inbox[j]
                                      /\ fate'[j] = fate[j]]_vars

\* A wait that blocks on a job returns from it once the job has ended: it
\* takes the status or it is interrupted; no wake-up is lost.
WaitWakes ==
    \A j \in Ids : (pc = "receive" /\ target = j /\ fate[j] # Alive)
                      ~> ~(pc = "receive" /\ target = j)

Waiting == pc \in {"wait", "receive", "wait4"}

\* wait returns when no job runs for ever, also from Wait4 and when another
\* goroutine reaps the child it waits for.
WaitReturns ==
    (\A j \in Ids : j \in Running ~> j \notin Running) => (Waiting ~> ~Waiting)

Ledger == INSTANCE JobLedger WITH started <- nextJobID - 1

\* The jobs of the shell are a ledger: started, ended, told once and as they ended.
ImplementsLedger == Ledger!Spec

\* A job that exited is told with its own exit code (wait6.tests: "wait $!"
\* extracts the correct exit code even if the job has already exited).  Not
\* so once the script waits again for a subshell it has waited for: its pseudo
\* pid -1 goes to wait4(2), which reaps the child of another job.
ExitCodeExtracted ==
    \A j \in Ids : fate[j].how = "exit" /\ told[j] # <<>> => told[j] = <<fate[j].n>>
=============================================================================
