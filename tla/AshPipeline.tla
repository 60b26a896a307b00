----------------------------- MODULE AshPipeline -----------------------------
(***************************************************************************)
(* Pipelines of the shell: runPipeline in src/pkg/applets/ash/ash.go.      *)
(*                                                                         *)
(* Stage i writes into pipe i, which stage i + 1 reads.  The shell starts  *)
(* a goroutine for every stage, the external commands first, and waits for *)
(* them in order.  The goroutine of a command copies its output into the   *)
(* pipe; a builtin stage is run by a copy of the shell in its goroutine.   *)
(* Nothing but three time limits of 5 seconds keeps a stage from waiting   *)
(* for ever for a reader that has gone without closing the pipe.           *)
(*                                                                         *)
(* The content of a pipe is the number of blocks in it.                    *)
(***************************************************************************)
EXTENDS Integers

CONSTANTS
    N,          \* stages
    Codes,      \* exit codes of commands
    PipeCap,    \* blocks a pipe holds
    MaxOut      \* bound: blocks a stage writes

ASSUME PipelineAssumption ==
    /\ N \in Nat \ {0, 1} /\ {PipeCap, MaxOut} \subseteq Nat \ {0}
    /\ 0 \in Codes /\ Codes \subseteq Nat

Stages == 1..N
Pipes  == 1..N - 1

VARIABLES
    kind,       \* "external" or "builtin", of each stage
    pipefail,   \* options["pipefail"]
    pc,         \* of the shell: "external", "builtin", "wait" or "done"
    next,       \* the stage the loop it is in has reached
    status,     \* of the pipeline
    failed,     \* runPipeline has given up starting it
    stage,      \* what the goroutine of each stage is doing
    code,       \* exit code of each stage, once it has one
    broken,     \* a write of this stage has failed
    timedOut,   \* and that was the time limit of safeWriter
    tried,      \* blocks a stage has given to safeWriter
    wrote,      \* and those it knows to be written
    got,        \* blocks a stage has read
    eof,        \* and whether it has seen the end
    fill,       \* blocks in a pipe
    inWrite,    \* safeWriter is writing a block into the pipe
    orphan,     \* writes that go on after their time limit
    wopen,      \* pw of a pipe is open
    ropen,      \* pr of a pipe is open
    redirected  \* stages whose stdin is a file and not the pipe

shellvars == <<pc, next, status, failed>>
iovars == <<broken, timedOut, tried, wrote, got, eof, fill, inWrite, orphan, wopen, ropen>>
vars == <<kind, pipefail, shellvars, stage, code, iovars, redirected>>

ExitFailure == 1

Init ==
    /\ kind \in [Stages -> {"external", "builtin"}] /\ pipefail \in BOOLEAN
    /\ pc = "external" /\ next = 1 /\ status = 0 /\ failed = FALSE
    /\ stage = [i \in Stages |-> "idle"] /\ code = [i \in Stages |-> 0]
    /\ broken = [i \in Stages |-> FALSE] /\ timedOut = [i \in Stages |-> FALSE]
    /\ tried = [i \in Stages |-> 0] /\ wrote = [i \in Stages |-> 0]
    /\ got = [i \in Stages |-> 0] /\ eof = [i \in Stages |-> FALSE]
    /\ fill = [p \in Pipes |-> 0] /\ inWrite = [p \in Pipes |-> FALSE]
    /\ orphan = [p \in Pipes |-> 0]
    /\ wopen = [p \in Pipes |-> TRUE] /\ ropen = [p \in Pipes |-> TRUE]
    /\ redirected = {}

CloseWriter(i) == wopen' = [p \in Pipes |-> wopen[p] /\ p # i]
CloseReader(i) == ropen' = [p \in Pipes |-> ropen[p] /\ p # i - 1]

ioButEnds == <<broken, timedOut, tried, wrote, got, eof, fill, inWrite, orphan>>
ioButWrites == <<got, eof, fill, wopen, ropen>>

-----------------------------------------------------------------------------
(* The shell.                                                               *)

\* The first loop: a goroutine for each external command.  A command that
\* does not parse ends the pipeline, an empty one its stage.
StartExternal ==
    /\ pc = "external" /\ next <= N
    /\ \/ /\ kind[next] = "builtin"
          /\ next' = next + 1
          /\ UNCHANGED <<pc, status, failed, stage, wopen>>
       \/ /\ kind[next] = "external"
          /\ next' = next + 1 /\ stage' = [stage EXCEPT ![next] = "looking"]
          /\ UNCHANGED <<pc, status, failed, wopen>>
       \/ /\ kind[next] = "external"
          /\ next' = next + 1 /\ stage' = [stage EXCEPT ![next] = "gone"]
          /\ CloseWriter(next)
          /\ UNCHANGED <<pc, status, failed>>
       \/ /\ kind[next] = "external"
          /\ pc' = "done" /\ status' = ExitFailure /\ failed' = TRUE
          /\ CloseWriter(next)
          /\ UNCHANGED <<next, stage>>
    /\ UNCHANGED <<kind, pipefail, code, ioButEnds, ropen, redirected>>

\* The second loop: a goroutine for each builtin.
StartBuiltin ==
    /\ pc = "builtin" /\ next <= N
    /\ next' = next + 1
    /\ stage' = [stage EXCEPT ![next] = IF kind[next] = "builtin" THEN "running" ELSE @]
    /\ UNCHANGED <<kind, pipefail, pc, status, failed, code, iovars, redirected>>

NextLoop ==
    /\ next = N + 1 /\ pc \in {"external", "builtin"}
    /\ pc' = IF pc = "external" THEN "builtin" ELSE "wait"
    /\ next' = 1
    /\ UNCHANGED <<kind, pipefail, status, failed, stage, code, iovars, redirected>>

\* Mutated: the last stage decides also with pipefail.
LastStatus(st, i, c) == IF i = N THEN c ELSE st

\* The status of the pipeline after the code of stage i.
StatusAfter(st, i, c) ==
    LET last == IF i = N /\ (~pipefail \/ st = 0) THEN c ELSE st
    IN  IF pipefail /\ c # 0 THEN c ELSE last

\* Mutated: it does not wait for a stage.
HeardAnyway(i) == stage[i] # "idle"

Heard(i) == stage[i] \in {"reported", "gone", "over"}

WaitStage ==
    /\ pc = "wait" /\ Heard(next)
    /\ status' = StatusAfter(status, next, code[next])
    /\ next' = next + 1
    /\ pc' = IF next = N THEN "done" ELSE "wait"
    /\ UNCHANGED <<kind, pipefail, failed, stage, code, iovars, redirected>>

-----------------------------------------------------------------------------
(* A stage.                                                                 *)

\* An external command is found and started, with the pipe or with a file as
\* stdin; or it is not, and then nobody closes the pipe it was to read.
Launch(i) ==
    /\ stage[i] = "looking"
    /\ \/ /\ stage' = [stage EXCEPT ![i] = "running"]
          /\ redirected' \in {redirected, redirected \cup {i}}
          /\ UNCHANGED <<code, wopen>>
       \/ /\ stage' = [stage EXCEPT ![i] = "gone"]
          /\ \E c \in {ExitFailure, 127} : code' = [code EXCEPT ![i] = c]
          /\ CloseWriter(i)
          /\ UNCHANGED redirected
    /\ UNCHANGED <<kind, pipefail, shellvars, ioButEnds, ropen>>

Read(i) ==
    /\ stage[i] = "running" /\ i > 1 /\ i \notin redirected /\ ~eof[i]
    /\ IF fill[i - 1] > 0
       THEN /\ fill' = [fill EXCEPT ![i - 1] = @ - 1]
            /\ got' = [got EXCEPT ![i] = @ + 1]
            /\ UNCHANGED eof
       ELSE /\ ~wopen[i - 1]
            /\ eof' = [eof EXCEPT ![i] = TRUE]
            /\ UNCHANGED <<fill, got>>
    /\ UNCHANGED <<kind, pipefail, shellvars, stage, code, broken, timedOut, tried, wrote,
                   inWrite, orphan, wopen, ropen, redirected>>

\* A write to the pipe has to wait.
Blocked(p) == fill[p] = PipeCap /\ ropen[p]

\* safeWriter.Write.  What a killed command has written is still copied; the
\* copying ends with the first error, but a builtin may ignore errors.
Write(i) ==
    /\ stage[i] \in {"running", "killed"} /\ i < N /\ tried[i] < MaxOut /\ ~inWrite[i]
    /\ kind[i] = "builtin" \/ ~broken[i]
    /\ inWrite' = [inWrite EXCEPT ![i] = TRUE]
    /\ tried' = [tried EXCEPT ![i] = @ + 1]
    /\ UNCHANGED <<kind, pipefail, shellvars, stage, code, broken, timedOut, wrote, got, eof,
                   fill, orphan, wopen, ropen, redirected>>

\* The block is written, or nobody reads the pipe any more.
WriteEnd(i) ==
    /\ i < N /\ inWrite[i] /\ orphan[i] = 0
    /\ inWrite' = [inWrite EXCEPT ![i] = FALSE]
    /\ \/ /\ ropen[i] /\ ~Blocked(i)
          /\ fill' = [fill EXCEPT ![i] = @ + 1]
          /\ wrote' = [wrote EXCEPT ![i] = @ + 1]
          /\ UNCHANGED broken
       \/ /\ ~ropen[i]
          /\ broken' = [broken EXCEPT ![i] = TRUE]
          /\ UNCHANGED <<fill, wrote>>
    /\ UNCHANGED <<kind, pipefail, shellvars, stage, code, timedOut, tried, got, eof, orphan,
                   wopen, ropen, redirected>>

\* Mutated: no time limit.
WriteForever(i) == FALSE /\ UNCHANGED vars

\* Mutated: after the time limit the block counts as written.
WriteTimeoutTold(i) ==
    /\ i < N /\ inWrite[i] /\ Blocked(i)
    /\ inWrite' = [inWrite EXCEPT ![i] = FALSE]
    /\ orphan' = [orphan EXCEPT ![i] = @ + 1]
    /\ wrote' = [wrote EXCEPT ![i] = @ + 1]
    /\ UNCHANGED <<kind, pipefail, shellvars, stage, code, broken, timedOut, tried, ioButWrites,
                   redirected>>

\* The time limit of a write: the caller goes on, the goroutine keeps writing.
WriteTimeout(i) ==
    /\ i < N /\ inWrite[i] /\ Blocked(i)
    /\ inWrite' = [inWrite EXCEPT ![i] = FALSE]
    /\ orphan' = [orphan EXCEPT ![i] = @ + 1]
    /\ broken' = [broken EXCEPT ![i] = TRUE]
    /\ timedOut' = [timedOut EXCEPT ![i] = TRUE]
    /\ UNCHANGED <<kind, pipefail, shellvars, stage, code, tried, wrote, ioButWrites, redirected>>

\* Such a goroutine writes its block after all, or its file is closed.
OrphanEnd(i) ==
    /\ i < N /\ orphan[i] > 0
    /\ \/ wopen[i] /\ ropen[i] /\ ~Blocked(i) /\ fill' = [fill EXCEPT ![i] = @ + 1]
       \/ ~(wopen[i] /\ ropen[i]) /\ UNCHANGED fill
    /\ orphan' = [orphan EXCEPT ![i] = @ - 1]
    /\ UNCHANGED <<kind, pipefail, shellvars, stage, code, broken, timedOut, tried, wrote, got,
                   eof, inWrite, wopen, ropen, redirected>>

\* Mutated: no time limit, and no cancel.
KillNever(i) == FALSE /\ UNCHANGED vars

\* The time limit of a command, or the cancel when runPipeline has returned.
KillStage(i) ==
    /\ stage[i] = "running" /\ kind[i] = "external"
    /\ stage' = [stage EXCEPT ![i] = "killed"]
    /\ UNCHANGED <<kind, pipefail, shellvars, code, iovars, redirected>>

\* Codes of command.Run: after a failed copy not 0, and -1 if SIGPIPE killed it.
ExitCodes(i) == CASE stage[i] = "killed" -> {ExitFailure}
                  [] stage[i] # "killed" /\ kind[i] = "external" /\ broken[i] -> (Codes \ {0}) \cup {ExitFailure, -1}
                  [] OTHER -> Codes

\* Mutated: the pipe is closed while a block is being written.
WritesDoneAnyway(i) == TRUE

\* No write is under way.
WritesDone(i) == i < N => ~inWrite[i]

\* The command or builtin ends, all its output is copied, the pipe is closed.
Finish(i) ==
    /\ stage[i] \in {"running", "killed"} /\ WritesDone(i)
    /\ stage' = [stage EXCEPT ![i] = "finished"]
    /\ \E c \in ExitCodes(i) : code' = [code EXCEPT ![i] = c]
    /\ CloseWriter(i)
    /\ UNCHANGED <<kind, pipefail, shellvars, ioButEnds, ropen, redirected>>

\* done <- code.
Report(i) ==
    /\ stage[i] = "finished"
    /\ stage' = [stage EXCEPT ![i] = IF i = 1 \/ i \in redirected THEN "gone" ELSE "reported"]
    /\ UNCHANGED <<kind, pipefail, shellvars, code, iovars, redirected>>

\* The deferred close of a command, and the one 50 ms after a builtin; a
\* command with another stdin has closed that instead.
HangUp(i) ==
    /\ stage[i] = "reported"
    /\ CloseReader(i)
    /\ stage' = [stage EXCEPT ![i] = "over"]
    /\ UNCHANGED <<kind, pipefail, shellvars, code, ioButEnds, wopen, redirected>>

Shell == StartExternal \/ StartBuiltin \/ NextLoop \/ WaitStage

Stage(i) == \/ Launch(i) \/ Read(i) \/ Write(i) \/ WriteEnd(i) \/ WriteTimeout(i) \/ OrphanEnd(i)
            \/ KillStage(i) \/ Finish(i) \/ Report(i) \/ HangUp(i)

AllOver == pc = "done" /\ (\A i \in Stages : stage[i] \in {"idle", "gone", "over"}) /\ UNCHANGED vars

Next == Shell \/ (\E i \in Stages : Stage(i)) \/ AllOver

\* Goroutines are scheduled and time passes.  A command may run for ever,
\* but for its time limit; a builtin reads its input and ends after it.
Fairness ==
    /\ WF_vars(Shell)
    /\ \A i \in Stages :
          /\ WF_vars(Launch(i)) /\ WF_vars(Read(i)) /\ WF_vars(Report(i)) /\ WF_vars(HangUp(i))
          /\ WF_vars(WriteEnd(i)) /\ WF_vars(WriteTimeout(i)) /\ WF_vars(OrphanEnd(i))
          /\ WF_vars(KillStage(i))
          /\ WF_vars(Finish(i) /\ (stage[i] = "killed" \/ (kind[i] = "builtin" /\ (i = 1 \/ eof[i]))))

Spec == Init /\ [][Next]_vars /\ Fairness

-----------------------------------------------------------------------------
(* Properties.                                                              *)

StageStates == {"idle", "looking", "running", "killed", "finished", "reported", "gone", "over"}

\* Types, and the capacity of the pipes.
TypeOK ==
    /\ kind \in [Stages -> {"external", "builtin"}] /\ pipefail \in BOOLEAN
    /\ pc \in {"external", "builtin", "wait", "done"} /\ next \in 1..N + 1
    /\ status \in Codes \cup {ExitFailure, 127, -1} /\ failed \in BOOLEAN
    /\ stage \in [Stages -> StageStates] /\ code \in [Stages -> Codes \cup {ExitFailure, 127, -1}]
    /\ broken \in [Stages -> BOOLEAN] /\ timedOut \in [Stages -> BOOLEAN]
    /\ {tried, wrote} \subseteq [Stages -> 0..MaxOut]
    /\ got \in [Stages -> 0..MaxOut] /\ eof \in [Stages -> BOOLEAN]
    /\ fill \in [Pipes -> 0..PipeCap] /\ orphan \in [Pipes -> 0..MaxOut]
    /\ {inWrite, wopen, ropen} \subseteq [Pipes -> BOOLEAN] /\ redirected \subseteq Stages

\* The shell starts every stage once, the commands before the builtins, and
\* hears them one by one.
StartInOrder ==
    /\ pc = "external" => \A i \in Stages : stage[i] = "idle" <=> (kind[i] = "builtin" \/ i >= next)
    /\ pc = "builtin" => \A i \in Stages : stage[i] = "idle" <=> (kind[i] = "builtin" /\ i >= next)
    /\ pc = "wait" => next \in Stages /\ \A i \in Stages : stage[i] # "idle"
    /\ failed => pc = "done"

\* A pipe is open for writing as long as its stage may write, and no longer.
OpenForWriting ==
    \A p \in Pipes :
        /\ stage[p] \in {"looking", "running", "killed"} => wopen[p]
        /\ stage[p] \in {"finished", "reported", "gone", "over"} => ~wopen[p]
        /\ stage[p] = "idle" => wopen[p] \/ pc = "done"
        /\ inWrite[p] => stage[p] \in {"running", "killed"}

\* What is in a pipe and what was read from it, against what was written.
Conserved ==
    \A p \in Pipes :
        /\ wrote[p] <= fill[p] + got[p + 1]
        /\ fill[p] + got[p + 1] + orphan[p] + (IF inWrite[p] THEN 1 ELSE 0) <= tried[p]
        /\ ~timedOut[p] => orphan[p] = 0 /\ fill[p] + got[p + 1] = wrote[p]
        /\ eof[p + 1] => ~wopen[p] /\ fill[p] = 0

\* The stages whose code the shell has.
HeardSoFar == {i \in Stages : pc = "done" \/ (pc = "wait" /\ i < next)}

Ended(i) == stage[i] \in {"reported", "gone", "over"}

\* The status is right for the stages heard so far.
StatusSoFar ==
    ~failed =>
    LET bad == {i \in HeardSoFar : code[i] # 0} IN
    /\ \A i \in HeardSoFar : Ended(i)
    /\ ~pipefail => status = IF pc = "done" THEN code[N] ELSE 0
    /\ pipefail /\ bad = {} => status = 0
    /\ pipefail /\ bad # {} => \E i \in bad : status = code[i] /\ \A k \in bad : k <= i

\* The inductive invariant of the proofs.
PipelineInv == StartInOrder /\ OpenForWriting /\ Conserved /\ StatusSoFar

\* A stage that sees the end of its input has read every block that the stage
\* before it was told is written, and, unless a time limit of safeWriter has
\* passed, no other: the pipe is closed after the last write and not before,
\* and the writes that go on behind a time limit do not make a gap.
EofIsHonest ==
    \A p \in Pipes : eof[p + 1] =>
        /\ got[p + 1] \in wrote[p]..tried[p]
        /\ ~timedOut[p] => got[p + 1] = wrote[p]

\* When runPipeline has waited for its stages, all of them are over and
\* nothing of the pipeline still writes, to a pipe or for the shell.
ReturnHearsAll ==
    (pc = "done" /\ ~failed) =>
        /\ \A i \in Stages : stage[i] \in {"reported", "gone", "over"}
        /\ \A p \in Pipes : ~wopen[p] /\ ~inWrite[p]

\* The status is that of the last stage, with pipefail that of the last one
\* that failed (set -o pipefail), whatever order the stages ended in.
StatusIsReference ==
    (pc = "done" /\ ~failed) =>
        LET bad == {i \in Stages : code[i] # 0}
        IN  status = IF ~pipefail THEN code[N]
                     ELSE IF bad = {} THEN 0
                     ELSE code[CHOOSE i \in bad : \A k \in bad : k <= i]

\* runPipeline returns, also when a stage has no reader that ever closes its
\* end of the pipe (not found, or with another stdin).
PipelineEnds == <>(pc = "done")

\* No goroutine is left behind, also of a pipeline that was not started to
\* its end.
StagesEnd == \A i \in Stages : stage[i] \in {"looking", "running"} ~> stage[i] \in {"gone", "over"}
=============================================================================
