----------------------------- MODULE AshRedirect -----------------------------
(***************************************************************************)
(* Redirections of the shell in src/pkg/applets/ash/ash.go: the standard    *)
(* streams of the runner, the files that are open, here-documents on other  *)
(* descriptors, exec without a command, and the buffer that read puts       *)
(* between a stream and the shell.                                          *)
(*                                                                         *)
(* Redirections are collected by kind, the last of each kind counts, and    *)
(* they are applied in the order of the code, not of the script.            *)
(***************************************************************************)
EXTENDS Naturals, Sequences, FiniteSets

CONSTANTS
    RedirSpecs,     \* what parseCommandSpec may make of the redirections of a command
    MaxOpen,        \* bound: files open at one time
    MaxFrames,      \* bound: commands inside one another
    Lines,          \* lines of an input
    BufLines        \* lines that a buffer takes at a time

Specs == [here : BOOLEAN, closeOut : BOOLEAN, dup : {"none", "1", "2"},
          in : {"none", "file", "missing", "3"},
          out : {"none", "file", "missing", "2", "3"},
          err : {"none", "file", "missing", "1", "3"}]

ASSUME RedirectAssumption ==
    /\ {MaxOpen, MaxFrames, Lines, BufLines} \subseteq Nat /\ BufLines > 0
    /\ RedirSpecs \subseteq Specs

VARIABLES
    stdio,          \* in, out, err of the runner
    readers,        \* descriptors with a here-document, fdReaders
    writers,        \* fdWriters
    open,           \* numbers of the files that are open
    bufs,           \* readBufs: the streams that read has buffered
    taken,          \* lines of each input that left the stream
    held,           \* lines that its buffer holds
    frames,         \* commands under way, with what they will put back
    gone,           \* the shell has exited
    last,           \* history: the last line of each input that a command got
    from,           \* history: the first line that the command just now got, or 0
    skipped,        \* history: inputs of which cat missed the lines in the buffer
    leaked,         \* history: files nobody will close
    spilled         \* history: a compound command failed with its here-document

redirect == <<stdio, readers, writers, open, bufs, taken, held, frames, gone, last,
              from, skipped, leaked, spilled>>

Std(fd)  == <<"std", fd>>
File(n)  == <<"file", n>>
Bad      == <<"bad", 0>>
HereDoc  == <<"here", 0>>
Raw(s)   == [stream |-> s, buffered |-> FALSE]
Numbers  == 1..MaxOpen
Inputs   == {Std(0)} \union {File(n) : n \in Numbers}
Closed   == [fd \in {} |-> Bad]

RedirectInit ==
    /\ stdio = [in |-> Raw(Std(0)), out |-> Std(1), err |-> Std(2)]
    /\ readers = {} /\ writers = Closed /\ open = {} /\ bufs = {}
    /\ taken = [s \in Inputs |-> 0] /\ held = taken /\ last = taken
    /\ frames = <<>> /\ gone = FALSE /\ from = 0
    /\ skipped = {} /\ leaked = {} /\ spilled = FALSE

-----------------------------------------------------------------------------
(* What redirections do.                                                    *)

Top == frames[Len(frames)]

\* Streams somebody still refers to.
Named == UNION {{s.in.stream, s.out, s.err} :
             s \in {stdio} \union {frames[i].stdio : i \in 1..Len(frames)}}
         \union {writers[fd] : fd \in DOMAIN writers}
Free  == {n \in Numbers : n \notin open /\ File(n) \notin Named}

\* How many files are opened for a kind of redirection, and which.
Opens(k)  == IF k = "file" THEN 1 ELSE 0
First(S)  == CHOOSE n \in S : \A k \in S : n <= k
Rank(n)   == Cardinality({k \in Free : k < n})
Opened(k) == {n \in Free : Rank(n) < k}
Nth(i)    == CHOOSE n \in Free : Rank(n) = i - 1

\* applyCommandRedirections: descriptors 1 and 2 of a subshell with redirections
\* stay what they are in the subshell, whatever is redirected in it.
Writers(s) ==
    LET base == [fd \in {1, 2} \union DOMAIN writers |->
                   IF fd \in DOMAIN writers THEN writers[fd]
                   ELSE IF fd = 2 THEN stdio.err
                   ELSE IF s.closeOut THEN Bad ELSE stdio.out]
    IN IF s.dup = "none" THEN base
       ELSE [fd \in {3} \union DOMAIN base |->
               IF fd # 3 THEN base[fd] ELSE IF s.dup = "1" THEN base[1] ELSE base[2]]

OutStream(s) ==
    CASE s.out = "file" -> File(Nth(Opens(s.in) + 1))
      [] s.out = "2"    -> Writers(s)[2]
      [] s.out = "3"    -> Writers(s)[3]
      [] OTHER          -> IF s.closeOut THEN Bad ELSE stdio.out

ErrStream(s) ==
    CASE s.err = "file" -> File(Nth(Opens(s.in) + Opens(s.out) + 1))
      [] s.err = "1"    -> OutStream(s)
      [] s.err = "3"    -> Writers(s)[3]
      [] OTHER          -> stdio.err

InStream(s) ==
    CASE s.in = "file" -> Raw(File(Nth(1)))
      [] s.in = "3"    -> Raw(HereDoc)
      [] OTHER         -> stdio.in

\* The step at which it fails, and how many files are open by then.
FailsAt(s, known) ==
    IF s.in = "missing" \/ (s.in = "3" /\ 3 \notin known) THEN 0
    ELSE IF s.out = "missing" \/ (s.out = "3" /\ 3 \notin DOMAIN Writers(s)) THEN Opens(s.in)
    ELSE IF s.err = "missing" \/ (s.err = "3" /\ 3 \notin DOMAIN Writers(s))
         THEN Opens(s.in) + Opens(s.out)
    ELSE 9
Works(s, known) == FailsAt(s, known) = 9

AllOpened(s) == Opened(Opens(s.in) + Opens(s.out) + Opens(s.err))
Room(s) == Opens(s.in) + Opens(s.out) + Opens(s.err) <= Cardinality(Free)
Redirected(s) == [in |-> InStream(s), out |-> OutStream(s), err |-> ErrStream(s)]

KnownReaders(s) == IF s.here THEN readers \union {3} ELSE readers

-----------------------------------------------------------------------------
(* Commands.                                                                *)

Alive == ~gone
Frame(kind, closers) ==
    [kind |-> kind, stdio |-> stdio, readers |-> readers, writers |-> writers,
     closers |-> closers]
Push(kind, closers) == Len(frames) < MaxFrames /\ frames' = Append(frames, Frame(kind, closers))

\* Nothing is known of a file that is opened, or has been closed; no line is read.
Forget(ns) ==
    /\ taken' = [s \in Inputs |-> IF \E n \in ns : s = File(n) THEN 0 ELSE taken[s]]
    /\ held' = [s \in Inputs |-> IF \E n \in ns : s = File(n) THEN 0 ELSE held[s]]
    /\ last' = [s \in Inputs |-> IF \E n \in ns : s = File(n) THEN 0 ELSE last[s]]
    /\ from' = 0
    /\ bufs' = bufs \ {File(n) : n \in ns}
    /\ skipped' = skipped \ {File(n) : n \in ns}
NewFiles(ns) == open' = open \union ns /\ Forget(ns)

\* The files that were opened before the redirection that failed stay open.
Fail(s, known) ==
    /\ NewFiles(Opened(FailsAt(s, known)))
    /\ leaked' = leaked \union Opened(FailsAt(s, known))

\* A command that a redirection of its own keeps from running.
FailingCommand == Alive /\ \E s \in RedirSpecs :
    /\ Room(s) /\ ~Works(s, KnownReaders(s))
    /\ Fail(s, KnownReaders(s))
    /\ UNCHANGED <<stdio, readers, writers, frames, gone, spilled>>

\* f with redirections, and a block in braces with them.
CallWith == Alive /\ \E s \in RedirSpecs :
    /\ Room(s) /\ Works(s, KnownReaders(s))
    /\ Push("call", AllOpened(s))
    /\ stdio' = Redirected(s) /\ readers' = KnownReaders(s)
    /\ NewFiles(AllOpened(s))
    /\ UNCHANGED <<writers, gone, leaked, spilled>>

\* ( ... ) with redirections: here-documents are not read for it.
SubshellWith == Alive /\ \E s \in RedirSpecs :
    /\ Room(s) /\ Works(s, readers)
    /\ Push("subshell", AllOpened(s))
    /\ stdio' = Redirected(s)
    /\ writers' = [fd \in DOMAIN Writers(s) |->
         IF fd = 1 THEN OutStream(s) ELSE IF fd = 2 THEN ErrStream(s) ELSE Writers(s)[fd]]
    /\ NewFiles(AllOpened(s))
    /\ UNCHANGED <<readers, gone, leaked, spilled>>

\* ( ... ) as it stands: what exec does in it stays in force after it.
PlainSubshell ==
    /\ Alive /\ Push("plain", {}) /\ from' = 0
    /\ UNCHANGED <<stdio, readers, writers, open, bufs, taken, held, gone, last,
                   skipped, leaked, spilled>>

\* withRedirections knows &1 and &2 only: >&3 opens a file of that name.
CompoundSpec(s) == [s EXCEPT !.dup = "none",
    !.out = IF @ = "3" THEN "file" ELSE @, !.err = IF @ = "3" THEN "file" ELSE @]

\* A loop, if or case with redirections.
Compound == Alive /\ \E s \in {CompoundSpec(t) : t \in RedirSpecs} :
    /\ Room(s) /\ Works(s, KnownReaders(s))
    /\ Push("compound", AllOpened(s))
    /\ stdio' = [Redirected(s) EXCEPT !.out = IF s.out = "2" THEN stdio.err ELSE @]
    /\ readers' = KnownReaders(s)
    /\ NewFiles(AllOpened(s))
    /\ UNCHANGED <<writers, gone, leaked, spilled>>

\* Its error returns do not put fdReaders back.
FailingCompound == Alive /\ \E s \in {CompoundSpec(t) : t \in RedirSpecs} :
    /\ Room(s) /\ ~Works(s, KnownReaders(s))
    /\ Fail(s, KnownReaders(s))
    /\ readers' = KnownReaders(s)
    /\ spilled' = (spilled \/ s.here)
    /\ UNCHANGED <<stdio, writers, frames, gone>>

\* exec without a command: the files stay open for good, and a redirection that
\* fails ends the shell.  &3 is a descriptor of the process.
Exec == Alive /\ \E s \in RedirSpecs :
    /\ Room(s) /\ ~s.here /\ s.dup = "none" /\ {s.out, s.err} \intersect {"3"} = {}
    /\ LET n == Opens(s.out) + Opens(s.err) + Opens(s.in)
           out == IF s.out = "file" THEN File(Nth(1))
                  ELSE IF s.out = "2" THEN stdio.err ELSE stdio.out
           err == IF s.err = "file" THEN File(Nth(Opens(s.out) + 1))
                  ELSE IF s.err = "1" THEN out ELSE stdio.err
           in  == IF s.in = "file" THEN Raw(File(Nth(n)))
                  ELSE IF s.in = "3" /\ 3 \in readers THEN Raw(HereDoc) ELSE stdio.in
       IN /\ "missing" \notin {s.out, s.err, s.in}
          /\ stdio' = [in |-> in, out |-> IF s.closeOut THEN Bad ELSE out, err |-> err]
          /\ NewFiles(Opened(n))
          /\ leaked' = leaked \union Opened(n)
    /\ UNCHANGED <<readers, writers, frames, gone, spilled>>

\* The commands that an exit leaves: up to the innermost subshell, and it too.
Left == LET shells == {i \in 1..Len(frames) : frames[i].kind \in {"plain", "subshell"}}
        IN {j \in 1..Len(frames) : \A i \in shells : i <= j}
InShell == \E i \in 1..Len(frames) : frames[i].kind \in {"plain", "subshell"}

\* An exec whose file cannot be made, in a subshell: the commands in it end one after the other.
ExecFails == Alive /\ InShell /\ (\E s \in RedirSpecs : s.out = "missing")
    /\ LET b == First(Left) IN
       /\ stdio' = IF frames[b].kind # "plain" THEN frames[b].stdio
                   ELSE IF b = Len(frames) THEN stdio ELSE frames[b + 1].stdio
       /\ readers' = frames[b].readers /\ writers' = frames[b].writers
       /\ LET closed == UNION {frames[j].closers : j \in Left}
          IN open' = open \ closed /\ Forget(closed)
       /\ frames' = SubSeq(frames, 1, b - 1)
    /\ UNCHANGED <<gone, leaked, spilled>>

\* Elsewhere it ends the shell, and its process.
ExecExits ==
    /\ Alive /\ ~InShell
    /\ \E s \in RedirSpecs : s.out = "missing"
    /\ gone' = TRUE
    /\ stdio' = [in |-> Raw(Std(0)), out |-> Std(1), err |-> Std(2)]
    /\ readers' = {} /\ writers' = Closed /\ open' = {} /\ frames' = <<>>
    /\ Forget(Numbers) /\ leaked' = {} /\ spilled' = FALSE

-----------------------------------------------------------------------------
(* read and cat without redirections of their own.                          *)

Input == stdio.in.stream
Least(a, b) == IF a < b THEN a ELSE b
Filled == Least(Lines - taken[Input], BufLines)

\* Mutated: every read makes a buffer of its own.
NextLine(h) == taken[Input] + 1

\* The line that read gets when its buffer holds h lines.
LineOf(h) == taken[Input] - h + 1

\* read: a stream has one buffer, found in readBufs; only the stream of the
\* shell as it is at the first read is replaced by its buffer.
Read ==
    /\ Alive /\ Input \in Inputs
    /\ held[Input] > 0 \/ taken[Input] < Lines
    /\ IF held[Input] > 0
       THEN UNCHANGED taken /\ held' = [held EXCEPT ![Input] = @ - 1]
       ELSE /\ taken' = [taken EXCEPT ![Input] = @ + Filled]
            /\ held' = [held EXCEPT ![Input] = Filled - 1]
    /\ from' = LineOf(held[Input])
    /\ last' = [last EXCEPT ![Input] = LineOf(held[Input])]
    /\ bufs' = bufs \union {Input}
    /\ stdio' = [stdio EXCEPT !.in.buffered = @ \/ Input \notin bufs]
    /\ UNCHANGED <<readers, writers, open, frames, gone, skipped, leaked, spilled>>

\* cat reads to the end: through the buffer if the shell has it.
Cat ==
    /\ Alive /\ Input \in Inputs
    /\ taken[Input] < Lines \/ (stdio.in.buffered /\ held[Input] > 0)
    /\ from' = IF stdio.in.buffered THEN LineOf(held[Input]) ELSE taken[Input] + 1
    /\ skipped' = IF stdio.in.buffered \/ held[Input] = 0 THEN skipped
                  ELSE skipped \union {Input}
    /\ held' = IF stdio.in.buffered THEN [held EXCEPT ![Input] = 0] ELSE held
    /\ taken' = [taken EXCEPT ![Input] = Lines]
    /\ last' = [last EXCEPT ![Input] = Lines]
    /\ UNCHANGED <<stdio, readers, writers, open, bufs, frames, gone, leaked, spilled>>

-----------------------------------------------------------------------------

ReadersAfter == IF Top.kind \in {"call", "compound"} THEN Top.readers ELSE readers

\* Mutated: the streams of a subshell with redirections do not come back.
StdioKept == IF Top.kind \in {"plain", "subshell"} THEN stdio ELSE Top.stdio
StdioAfter == IF Top.kind = "plain" THEN stdio ELSE Top.stdio

\* A command ends: the streams come back and its files are closed.
End ==
    /\ frames # <<>>
    /\ stdio' = StdioAfter /\ readers' = ReadersAfter
    /\ writers' = Top.writers
    /\ open' = open \ Top.closers /\ Forget(Top.closers)
    /\ frames' = SubSeq(frames, 1, Len(frames) - 1)
    /\ UNCHANGED <<gone, leaked, spilled>>

Exited == gone /\ UNCHANGED redirect

RedirectNext ==
    \/ FailingCommand \/ CallWith \/ SubshellWith \/ PlainSubshell
    \/ Compound \/ FailingCompound \/ Exec \/ ExecFails \/ ExecExits
    \/ Read \/ Cat \/ End \/ Exited

RedirectSpec == RedirectInit /\ [][RedirectNext]_redirect

-----------------------------------------------------------------------------
(* Properties.                                                              *)

Files(s) == {n \in Numbers : File(n) \in {s.in.stream, s.out, s.err}}

\* No stream of the shell, of a command that will go on, or of a descriptor is
\* a file that has been closed.
StreamsAreOpen ==
    /\ Files(stdio) \subseteq open
    /\ \A i \in 1..Len(frames) : Files(frames[i].stdio) \subseteq open
    /\ \A fd \in DOMAIN writers, n \in Numbers : writers[fd] = File(n) => n \in open

\* Between commands no file is open but those of exec, and those of a command of
\* which a later redirection failed.
FilesAreClosed == frames = <<>> => open \subseteq leaked

\* Between commands no here-document can be read, unless a compound command
\* with one failed.
HereDocsEnd == frames = <<>> /\ ~spilled => readers = {}

\* The next command that gets lines of an input, read or cat, starts at the line after
\* the last that was got: none is read twice and none skipped, whatever functions, blocks
\* and subshells share the buffer, until cat leaves lines in a buffer that the shell as it
\* is does not read through.  A read of one input takes nothing of another.
LinesInOrder == [][
    /\ (from' # 0 /\ Input \notin skipped') =>
            /\ from' = last[Input] + 1
            /\ last'[Input] \in from'..Lines
    /\ \A s \in Inputs : (from' = 0 \/ s # Input) => last'[s] \in {0, last[s]}]_redirect

\* Streams, files and here-documents after and between commands.  (runSimpleCommand,
\* withRedirections, runSubshell, exec)
StreamsKept == StreamsAreOpen /\ FilesAreClosed /\ HereDocsEnd
=============================================================================
