------------------------------- MODULE Runners -------------------------------
(***************************************************************************)
(* The tools that run other commands: xargs, src/pkg/applets/xargs/xargs.go,    *)
(* which runs one after the other, and timeout, src/pkg/applets/timeout/timeout.go, *)
(* where a goroutine waits for the command while the tool waits for it or for the    *)
(* timer.                                                                     *)
(*                                                                         *)
(* Input is a sequence of lines, a line a sequence of words, a word a record of its  *)
(* name and length; how a command ends is chosen when it ends.  Lines of blanks and a *)
(* logical end with blanks in it are left out.                                   *)
(***************************************************************************)
EXTENDS Integers, SequencesExt, FiniteSets, TLC

CONSTANT Codes                     \* exit statuses of a command, 0 among them

VARIABLE run

Length(words) == FoldLeft(LAMBDA n, w : n + 1 + w.len, 0, words)

-----------------------------------------------------------------------------
(* xargs.                                                                     *)

\* The elements before the first one that ends the input.
Before(s, ends) ==
    LET k == SelectInSeq(s, LAMBDA x : x \in ends)
    IN IF k = 0 THEN s ELSE SubSeq(s, 1, k - 1)
\* readWords: up to the word that is the logical end, -E, or with -E '' up to the first
\* empty line.  Items that end in NUL know no logical end and no lines.
ReadWords(c) ==
    LET words == FlattenSeq(c.lines)
    IN IF c.zero \/ ~c.eofOn THEN words
       ELSE IF c.eof = "" THEN FlattenSeq(Before(c.lines, {<<>>}))
       ELSE Before(words, {w \in ToSet(words) : w.name = c.eof})
\* runBatchedByArgs
BatchByArgs(words, maxArgs) == SubSeq(words, 1, IF maxArgs < Len(words) THEN maxArgs ELSE Len(words))
\* runBatched: as many words as fit, and one in any case.
BatchBySize(c, words) ==
    LET fits(n) == c.base + Length(SubSeq(words, 1, n)) + 1 <= c.maxSize
        n == CHOOSE n \in 1..Len(words) : (n = Len(words) \/ ~fits(n + 1)) /\ \A m \in 2..n : fits(m)
    IN SubSeq(words, 1, n)
NextBatch(c, words) ==
    CASE c.maxSize > 0 -> BatchBySize(c, words)
      [] c.maxSize = 0 /\ c.maxArgs > 0 -> BatchByArgs(words, c.maxArgs)
      [] OTHER -> words
\* Without -n and -s the command runs once, even with nothing; with -r it does not.
RunsEmpty(c) == ~c.noRun /\ c.maxSize = 0 /\ c.maxArgs = 0
\* The last failure is the status.
Failure(rc, new) == IF new # 0 THEN new ELSE rc

-----------------------------------------------------------------------------
(* timeout.  The status of a command a signal ended is -1, as ExitCode says.   *)

BySignal == -1
NotYet == -2
SignalStatus(sig) == IF sig = "TERM" THEN 143 ELSE 1

RunInit(calls) ==
    \E c \in calls :
        run = [call |-> c, todo |-> IF c.tool = "xargs" THEN ReadWords(c) ELSE <<>>, batches |-> <<>>, ends |-> <<>>, rc |-> 0,
               pc |-> IF c.tool = "xargs" THEN "batch" ELSE "start",
               child |-> "none", status |-> NotYet, done |-> <<>>, fired |-> FALSE, sent |-> FALSE]
C == run.call
RunBatch ==
    LET words == NextBatch(C, run.todo)
        rest == SubSeq(run.todo, Len(words) + 1, Len(run.todo))
    IN /\ run.pc = "batch" /\ (run.todo # <<>> \/ RunsEmpty(C))
       /\ \E code \in Codes \union {BySignal} :
             run' = [run EXCEPT !.todo = rest, !.batches = Append(@, words), !.ends = Append(@, code), !.rc = Failure(@, code),
                                !.pc = IF rest = <<>> THEN "over" ELSE "batch"]
XargsReturns == run.pc = "batch" /\ run.todo = <<>> /\ ~RunsEmpty(C) /\ run' = [run EXCEPT !.pc = "over"]

StartCommand ==
    /\ run.pc = "start"
    /\ \/ run' = [run EXCEPT !.pc = "select", !.child = "running"]
       \/ run' = [run EXCEPT !.pc = "over", !.rc = 1]
CommandEnds ==
    /\ run.child = "running"
    /\ \E code \in Codes : run' = [run EXCEPT !.child = "ended", !.status = code]
\* A command that ignores the signal goes on; SIGKILL cannot be ignored.
SignalEnds ==
    /\ run.child = "running" /\ run.sent /\ (C.ignores => C.sig = "KILL")
    /\ run' = [run EXCEPT !.child = "ended", !.status = BySignal]
\* Mutated: the goroutine does not wait for the command.
WaitAtOnce == run.child \in {"running", "ended"} /\ run' = [run EXCEPT !.child = "reaped", !.done = <<0>>]
\* The goroutine.
WaitReturns == run.child = "ended" /\ run' = [run EXCEPT !.child = "reaped", !.done = <<run.status>>]
TimerFires == run.pc = "select" /\ ~run.fired /\ run' = [run EXCEPT !.fired = TRUE]
\* select: when both are ready either may be taken.
TakeDone == run.pc = "select" /\ run.done # <<>> /\ run' = [run EXCEPT !.pc = "over", !.rc = run.done[1], !.done = <<>>]
\* Process.Signal does nothing to a command that was waited for.
TakeTimer ==
    /\ run.pc = "select" /\ run.fired
    /\ run' = [run EXCEPT !.pc = "over", !.rc = SignalStatus(C.sig), !.sent = run.child # "reaped"]
RunNext == RunBatch \/ XargsReturns \/ StartCommand \/ CommandEnds \/ SignalEnds \/ WaitReturns \/ TimerFires \/ TakeDone \/ TakeTimer

-----------------------------------------------------------------------------
(* Properties.                                                                *)

ToolOver == run.pc = "over"
\* The words are those before the first that is the end -E names, if there is one; with
\* -E '' those of the lines before the first that is empty.
UpToEnd(c, words) ==
    LET all == FlattenSeq(c.lines)
        ends == c.eofOn /\ ~c.zero
    IN /\ ~ends => words = all
       /\ (ends /\ c.eof # "") =>
             \E n \in 0..Len(all) : /\ words = SubSeq(all, 1, n)
                                    /\ \A i \in 1..n : all[i].name # c.eof
                                    /\ n # Len(all) => all[n + 1].name = c.eof
       /\ (ends /\ c.eof = "") =>
             \E n \in 0..Len(c.lines) : /\ words = FlattenSeq(SubSeq(c.lines, 1, n))
                                        /\ \A i \in 1..n : c.lines[i] # <<>>
                                        /\ n # Len(c.lines) => c.lines[n + 1] = <<>>
Fits(c, words) == c.base + Length(words) + 1 <= c.maxSize
\* No command is larger than -s allows, unless one word is, nor has more words than -n
\* allows; where -s is given -n is not looked at.
WithinLimits(c, words) ==
    IF c.maxSize > 0 THEN Fits(c, words) \/ Len(words) = 1
                     ELSE c.maxArgs > 0 => Len(words) <= c.maxArgs
\* Another command is started only when the next word does not go into this one.
Full(c, words, next) ==
    IF c.maxSize > 0 THEN ~Fits(c, Append(words, next))
                     ELSE c.maxArgs > 0 /\ Len(words) = c.maxArgs
\* xargs gives every word up to the logical end to a command, once and in order, as many
\* to each command as the options allow.  The exception is -n beside -s: -s alone then
\* sets the limit, where the usage text says "at most N arguments".
AllWordsRun ==
    (C.tool = "xargs" /\ ToolOver) =>
        LET b == run.batches
        IN /\ UpToEnd(C, FlattenSeq(b))
           /\ \A i \in DOMAIN b : /\ WithinLimits(C, b[i])
                                  /\ i # Len(b) => Full(C, b[i], b[i + 1][1])
\* xargs succeeds exactly when every command did, and otherwise returns the status of the
\* last command that failed.
FailuresTold ==
    (C.tool = "xargs" /\ ToolOver) =>
        LET ends == run.ends
        IN \/ run.rc = 0 /\ \A i \in DOMAIN ends : ends[i] = 0
           \/ \E i \in DOMAIN ends : /\ ends[i] = run.rc /\ run.rc # 0
                                     /\ \A j \in DOMAIN ends : j > i => ends[j] = 0
\* timeout signals nothing before the time is over.  It returns 1 when the command did not
\* start, the status of the command when it was over and nothing was sent, and once the
\* time is over 143 for TERM and 1 for another signal; then the command was signalled, or
\* had been waited for.  No other status is returned.
VerdictTrue ==
    C.tool = "timeout" =>
        /\ run.sent => run.fired /\ ToolOver
        /\ ToolOver =>
              \/ run.child = "none" /\ run.rc = 1
              \/ run.child = "reaped" /\ run.rc = run.status /\ ~run.sent
              \/ /\ run.fired /\ (run.sent \/ run.child = "reaped")
                 /\ run.rc = (IF C.sig = "TERM" THEN 143 ELSE 1)

\* xargs and timeout run what they are given and tell the truth about how it ended.
RunnersRight == AllWordsRun /\ FailuresTold /\ VerdictTrue
=============================================================================
