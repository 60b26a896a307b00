----------------------------- MODULE AshSignals -----------------------------
(***************************************************************************)
(* Signals and traps of the shell, src/pkg/applets/ash/ash.go.             *)
(*                                                                         *)
(* A subshell and a background job of the shell are not processes: they    *)
(* share one operating system process, and so its signal dispositions,     *)
(* with the shell that started them.  Each of these runners keeps its own  *)
(* traps and a channel for its signals, and changes the dispositions of    *)
(* the process when it runs trap or enters or leaves a subshell.  A        *)
(* subshell is run by the runner that meets it, which saves its state and  *)
(* puts it back; a background job is a runner of its own, in a goroutine.  *)
(*                                                                         *)
(* A script is any sequence of the commands below; what a runner is in the *)
(* middle of is a stack of frames: trap actions and subshells.             *)
(***************************************************************************)
EXTENDS Integers, Sequences, FiniteSets, SequencesExt

CONSTANTS
    Signals,        \* signal numbers that trap knows
    DefaultHandled, \* caught without a trap: SIGHUP, SIGUSR2
    Main, Jobs,     \* the shell, and the background runners it may start
    Codes,          \* exit codes of commands
    Commands,       \* bound: the commands the scripts of a runner are made of
    MaxDepth,       \* bound: a script nests subshells and actions this deep
    MaxKept,        \* bound: signals in pendingSignals and propagatedSignals
    MaxNotices,     \* bound: signals sent to the process in one behaviour
    ChanCap         \* capacity of a signal channel, 8 in the code

Runners == {Main} \cup Jobs

CommandNames == {"simple", "trap", "trapexit", "kill", "killjob", "exit",
                 "foreground", "wait", "subshell", "job"}

ASSUME SignalsAssumption ==
    /\ Signals \subseteq Nat \ {0} /\ DefaultHandled \subseteq Signals
    /\ Main \notin Jobs
    /\ Codes \subseteq Nat
    /\ Commands \in [Runners -> SUBSET CommandNames]
    /\ {MaxDepth, MaxKept, MaxNotices, ChanCap} \subseteq Nat

\* r.signalCh is <<r, 0>>, and <<r, d>> inside d subshells.
Channels == Runners \X (0..MaxDepth)
NoChannel   == <<>>         \* nil
LostChannel == <<Main, -1>> \* of a subshell that has ended: nobody reads it

VARIABLES
    process,        \* "alive", "killed" by a signal or "exited"
    ignored,        \* signals set to signal.Ignore
    subscribers,    \* the channels signal.Notify has set for each signal
    notices,        \* signals sent to the process so far
    queue,          \* the content of each channel
    sh              \* the state of each runner

procvars == <<process, ignored, subscribers, notices>>
vars == <<procvars, queue, sh>>

-----------------------------------------------------------------------------
SignalExitStatus(s) == 128 + s

\* A send that does not block; mutated, one that finds room for everything.
OfferAlways(q, s) == Append(q, s)

Offer(q, s) == IF Len(q) < ChanCap THEN Append(q, s) ELSE q

Runner(mode, traps, forward, top) ==
    [mode |-> mode,         \* what the goroutine is doing
     stack |-> <<>>,        \* trap actions and subshells, the innermost last
     todo |-> {},           \* signals applySignalHandlers has yet to set
     traps |-> traps,       \* "unset", "empty" (then ignored) or "run"
     exitTrap |-> "unset",  \* the trap of EXIT
     top |-> top,           \* ~options["__trap_exit"]
     forward |-> forward,   \* forwardSignal
     starter |-> forward,   \* who has this runner in its job table
     inherited |-> {},      \* inheritedSignals
     propagated |-> <<>>,   \* propagatedSignals
     pending |-> <<>>,      \* pendingSignals, all with resetStatus
     code |-> 0,            \* the status of the subshell that is ending
     replay |-> <<>>,       \* and the signals it has left, propagatedSigs
     lastStatus |-> 0, inTrap |-> FALSE, trapStatus |-> 0,
     exitFlag |-> FALSE, exitCode |-> 0]

NoTraps == [s \in Signals |-> "unset"]

\* Traps of a subshell: only the ignored signals stay.
SubshellTraps(traps) == [s \in Signals |-> IF traps[s] = "empty" THEN "empty" ELSE "unset"]

DepthOf(stack) == Cardinality({i \in DOMAIN stack : stack[i].kind = "subshell"})
Depth(x) == DepthOf(x.stack)
SignalCh(r) == <<r, Depth(sh[r])>>

Init ==
    /\ process = "alive" /\ ignored = {} /\ notices = 0
    /\ subscribers = [s \in Signals |-> IF s \in DefaultHandled THEN {<<Main, 0>>} ELSE {}]
    /\ queue = [c \in Channels |-> <<>>]
    /\ sh = [r \in Runners |->
                Runner(IF r = Main THEN "boundary" ELSE "none", NoTraps, NoChannel, r = Main)]

-----------------------------------------------------------------------------
(* Dispositions of the process: os/signal.                                  *)

Notify(c, s) ==
    /\ ignored' = ignored \ {s}
    /\ subscribers' = [subscribers EXCEPT ![s] = @ \cup {c}]
Ignore(s) ==
    /\ ignored' = ignored \cup {s}
    /\ subscribers' = [subscribers EXCEPT ![s] = {}]
Reset(s) ==
    /\ ignored' = ignored \ {s}
    /\ subscribers' = [subscribers EXCEPT ![s] = {}]

\* Mutated: the channel of the shell or of the subshell stays subscribed.
StopNothing(c) == UNCHANGED <<ignored, subscribers>>

Stop(c) ==
    /\ subscribers' = [s \in Signals |-> subscribers[s] \ {c}]
    /\ UNCHANGED ignored

-----------------------------------------------------------------------------
(* Frames.                                                                  *)

Frame(x, kind, from, status) ==
    [kind |-> kind,         \* "trap", "wait", "exit", "subexit", "subshell"
     from |-> from,         \* where the runner goes on
     status |-> status,     \* what wait returns
     entry |-> x.lastStatus,
     inTrap |-> x.inTrap, trapStatus |-> x.trapStatus,
     exitFlag |-> x.exitFlag, exitCode |-> x.exitCode,
     code |-> x.code, replay |-> x.replay,
     traps |-> x.traps, exitTrap |-> x.exitTrap, pending |-> x.pending]

Top(x) == Last(x.stack)
Pop(x) == [x EXCEPT !.stack = Front(@)]
Push(x, kind, from, status) == [x EXCEPT !.stack = Append(@, Frame(x, kind, from, status)),
                                         !.exitFlag = FALSE, !.exitCode = 0]

\* A command ends with a status; a runner that exits keeps the one before.
Done(x, status) == [x EXCEPT !.lastStatus = IF x.exitFlag THEN @ ELSE status,
                             !.mode = "boundary"]

\* runTrap has returned to the place it was called from.
AfterTrap(x, from) ==
    CASE from = "kill" -> Done(x, 0)
      [] from = "pending" -> Done(x, 0)
      [] from = "leaving" -> [x EXCEPT !.mode = IF x.exitFlag THEN "drain" ELSE "leaving"]
      [] from = "lastpending" -> [x EXCEPT !.mode = IF x.exitFlag THEN "drain" ELSE "leaving",
                                           !.lastStatus = IF x.exitFlag THEN @ ELSE 0]
      [] from = "drain" -> [x EXCEPT !.mode = IF x.exitFlag THEN "exittrap" ELSE "drain"]
      [] from = "propagate" /\ x.exitFlag -> [x EXCEPT !.mode = "boundary", !.code = 0, !.replay = <<>>]
      [] OTHER -> [x EXCEPT !.mode = from]

Call(x, kind, from) ==
    [Push(x, kind, from, 0) EXCEPT !.inTrap = TRUE, !.trapStatus = x.lastStatus,
                                   !.code = 0, !.replay = <<>>, !.mode = "boundary"]

Die(x, s) == [x EXCEPT !.exitFlag = TRUE, !.exitCode = SignalExitStatus(s)]

RunTrap(x, s, from) ==
    CASE x.traps[s] = "empty" -> AfterTrap(x, from)
      [] x.traps[s] = "run"   -> Call(x, "trap", from)
      [] OTHER -> AfterTrap(Die(x, s), from)

\* Mutated: an action clears inTrap also inside another one.
RestoreTrapCleared(x, f) == [x EXCEPT !.inTrap = FALSE, !.trapStatus = 0]

\* Mutated: an action leaves inTrap set.
RestoreTrapNot(x, f) == x

RestoreTrap(x, f) == [x EXCEPT !.inTrap = f.inTrap, !.trapStatus = f.trapStatus]

\* Mutated: the exit that was under way is forgotten.
KeepExitNot(x, f) == x

\* An action that does not exit leaves the exit that was under way.
KeepExit(x, f) == IF x.exitFlag THEN x ELSE [x EXCEPT !.exitFlag = f.exitFlag,
                                                      !.exitCode = f.exitCode]

TrapReturn(x) ==
    LET f == Top(x)
        y == KeepExit(RestoreTrap(Pop(x), f), f)
    IN  AfterTrap([y EXCEPT !.lastStatus = f.entry, !.code = f.code, !.replay = f.replay], f.from)

\* waitOne ran an action without runTrap, and returns 128 plus the signal.
WaitTrapReturn(x) == [Pop(x) EXCEPT !.lastStatus = Top(x).status, !.mode = "boundary"]

\* The EXIT trap of the whole script has run.
ExitTrapReturn(x) ==
    LET f == Top(x)
    IN  [RestoreTrap(Pop(x), f) EXCEPT !.lastStatus = f.entry, !.exitFlag = TRUE,
                                       !.exitCode = IF x.exitFlag THEN @ ELSE f.entry,
                                       !.mode = "done"]

\* The EXIT trap of a subshell has run.
SubExitReturn(x) ==
    LET f == Top(x)
    IN  [RestoreTrap(Pop(x), f) EXCEPT !.code = IF x.exitFlag THEN x.exitCode ELSE f.entry,
                                       !.mode = "leave"]

ScriptStatus(x) == IF x.exitFlag THEN x.exitCode ELSE x.lastStatus

\* runScript returns: the end of the script, or exitFlag.
EndScript(x) ==
    IF x.stack = <<>>
    THEN IF x.top /\ x.exitTrap = "run"
         THEN Call(x, "exit", "done")
         ELSE [x EXCEPT !.exitCode = ScriptStatus(x), !.exitFlag = TRUE, !.mode = "done"]
    ELSE CASE Top(x).kind = "trap"     -> TrapReturn(x)
           [] Top(x).kind = "wait"     -> WaitTrapReturn(x)
           [] Top(x).kind = "exit"     -> ExitTrapReturn(x)
           [] Top(x).kind = "subexit"  -> SubExitReturn(x)
           [] Top(x).kind = "subshell" -> [x EXCEPT !.code = ScriptStatus(x), !.mode = "leaving"]

-----------------------------------------------------------------------------
(* Steps of a runner.                                                       *)

At(r, modes) == process = "alive" /\ sh[r].mode \in modes

Become(r, x) == sh' = [sh EXCEPT ![r] = x]

Take(r) == queue' = [queue EXCEPT ![SignalCh(r)] = Tail(@)]

\* handleSignalsNonBlocking: one signal, the deferred ones first.
HandleSignal(r, pendingFrom, from) ==
    LET x == sh[r] IN
    /\ ~x.inTrap
    /\ \/ /\ x.pending # <<>>
          /\ Become(r, RunTrap([x EXCEPT !.pending = Tail(@)], Head(x.pending), pendingFrom))
          /\ UNCHANGED queue
       \/ /\ x.pending = <<>> /\ queue[SignalCh(r)] # <<>>
          /\ Become(r, RunTrap(x, Head(queue[SignalCh(r)]), from))
          /\ Take(r)

\* handleSignalsNonBlocking: nothing to do.
NoSignal(r) == sh[r].inTrap \/ (sh[r].pending = <<>> /\ queue[SignalCh(r)] = <<>>)

\* runScript between two commands: signals, then exitFlag.
Boundary(r) ==
    LET x == sh[r] IN
    /\ At(r, {"boundary"})
    /\ \/ x.exitFlag /\ Become(r, EndScript(x)) /\ UNCHANGED queue
       \/ ~x.exitFlag /\ HandleSignal(r, "pending", "boundary")
       \/ ~x.exitFlag /\ NoSignal(r) /\ Become(r, [x EXCEPT !.mode = "command"]) /\ UNCHANGED queue
    /\ UNCHANGED procvars

\* The same at the start of a command, which then runs even in a shell that exits.
Late(r) ==
    /\ At(r, {"command", "late"}) /\ ~sh[r].exitFlag
    /\ HandleSignal(r, "late", "late")
    /\ UNCHANGED procvars

Ready(r, c) == At(r, {"command", "late"}) /\ c \in Commands[r]

\* The script ends here.
EndOfScript(r) ==
    /\ At(r, {"command"})
    /\ Become(r, EndScript(sh[r]))
    /\ UNCHANGED <<procvars, queue>>

Simple(r) ==
    /\ Ready(r, "simple")
    /\ \E c \in Codes : Become(r, Done(sh[r], c))
    /\ UNCHANGED <<procvars, queue>>

\* trap action s, trap "" s and trap - s.
Trap(r) ==
    /\ Ready(r, "trap")
    /\ \E s \in Signals, a \in {"unset", "empty", "run"} :
         /\ Become(r, Done([sh[r] EXCEPT !.traps[s] = a], 0))
         /\ CASE a = "empty" -> Ignore(s)
              [] a = "run" \/ (a = "unset" /\ s \in DefaultHandled) -> Notify(SignalCh(r), s)
              [] OTHER -> Reset(s)
    /\ UNCHANGED <<process, notices, queue>>

TrapExit(r) ==
    /\ Ready(r, "trapexit")
    /\ \E a \in {"unset", "run"} : Become(r, Done([sh[r] EXCEPT !.exitTrap = a], 0))
    /\ UNCHANGED <<procvars, queue>>

\* kill -s $$: to the shell that started this job, to the one around this
\* subshell, or to this runner at once.
KillSelf(r, s) ==
    LET x == sh[r] IN
    /\ Ready(r, "kill")
    /\ \/ /\ x.forward # NoChannel
          /\ queue' = [c \in Channels |-> IF c = x.forward THEN Offer(queue[c], s) ELSE queue[c]]
          /\ Become(r, Done(x, 0))
       \/ /\ x.forward = NoChannel /\ Depth(x) > 0 /\ s \in x.inherited
          /\ Len(x.propagated) < MaxKept
          /\ Become(r, Done([x EXCEPT !.propagated = Append(@, s)], 0))
          /\ UNCHANGED queue
       \/ /\ x.forward = NoChannel /\ ~(Depth(x) > 0 /\ s \in x.inherited)
          /\ Len(x.stack) < MaxDepth \/ x.traps[s] # "run"
          /\ Become(r, RunTrap(x, s, "kill"))
          /\ UNCHANGED queue
    /\ UNCHANGED procvars

\* kill -s %job: into the channel that the runner of the job reads now.
KillJob(r, s) ==
    /\ Ready(r, "killjob")
    /\ \E j \in Jobs :
         /\ sh[j].starter = SignalCh(r)
         /\ queue' = [queue EXCEPT ![SignalCh(j)] = Offer(@, s)]
    /\ Become(r, Done(sh[r], 0))
    /\ UNCHANGED procvars

\* exit, with or without a status.
Exit(r) ==
    LET x == sh[r] IN
    /\ Ready(r, "exit")
    /\ \E c \in Codes \cup {IF x.inTrap THEN x.trapStatus ELSE x.lastStatus} :
         Become(r, [x EXCEPT !.exitFlag = TRUE, !.exitCode = c, !.mode = "boundary"])
    /\ UNCHANGED <<procvars, queue>>

\* An external command in the foreground, and the end of it.  A signal that
\* is not ignored kills it; the action of its trap is for the next boundary.
Foreground(r) ==
    /\ Ready(r, "foreground") /\ Len(sh[r].pending) < MaxKept
    /\ Become(r, [sh[r] EXCEPT !.mode = "foreground"])
    /\ UNCHANGED <<procvars, queue>>

Interrupted(x, s) ==
    CASE x.traps[s] = "empty" -> x
      [] x.traps[s] = "run" -> Done([x EXCEPT !.pending = Append(@, s)], SignalExitStatus(s))
      [] OTHER -> [Die(x, s) EXCEPT !.mode = "boundary"]

ForegroundEnd(r) ==
    /\ At(r, {"foreground"})
    /\ \/ \E c \in Codes : Become(r, Done(sh[r], c)) /\ UNCHANGED queue
       \/ /\ queue[SignalCh(r)] # <<>>
          /\ Become(r, Interrupted(sh[r], Head(queue[SignalCh(r)])))
          /\ Take(r)
    /\ UNCHANGED procvars

\* wait for a job.  A signal with an action ends it, after the action; any
\* other signal is taken and has no effect.
Wait(r) ==
    /\ Ready(r, "wait") /\ Len(sh[r].stack) < MaxDepth
    /\ Become(r, [sh[r] EXCEPT !.mode = "wait", !.lastStatus = 0])
    /\ UNCHANGED <<procvars, queue>>

WaitEnd(r) ==
    LET x == sh[r] IN
    /\ At(r, {"wait"})
    /\ \/ \E c \in Codes : Become(r, [x EXCEPT !.lastStatus = c, !.mode = "boundary"])
                           /\ UNCHANGED queue
       \/ /\ queue[SignalCh(r)] # <<>>
          /\ LET s == Head(queue[SignalCh(r)]) IN
             IF x.traps[s] = "run"
             THEN Become(r, [Push(x, "wait", "boundary", SignalExitStatus(s))
                                EXCEPT !.mode = "boundary"])
             ELSE UNCHANGED sh
          /\ Take(r)
    /\ UNCHANGED procvars

\* runSubshell, up to applySignalHandlers.
Subshell(r) ==
    LET x == sh[r] IN
    /\ Ready(r, "subshell") /\ Len(x.stack) < MaxDepth
    /\ Become(r, [Push(x, "subshell", "apply", 0) EXCEPT
                    !.traps = SubshellTraps(@), !.exitTrap = "unset",
                    !.inherited = {s \in Signals : x.traps[s] = "run"},
                    !.propagated = <<>>, !.pending = <<>>, !.forward = NoChannel,
                    !.lastStatus = 0, !.todo = Signals, !.mode = "enter"])
    /\ Stop(SignalCh(r))
    /\ UNCHANGED <<process, notices, queue>>

\* applySignalHandlers sets one signal after the other, in any order.
Apply(r) ==
    LET x == sh[r] IN
    /\ At(r, {"enter", "restore"})
    /\ \/ \E s \in x.todo :
          /\ CASE x.traps[s] = "empty" -> Ignore(s)
               [] x.traps[s] = "run" -> Notify(SignalCh(r), s)
               [] x.traps[s] = "unset" /\ s \in x.inherited \cup DefaultHandled ->
                    Notify(SignalCh(r), s)
               [] OTHER -> Reset(s)
          /\ Become(r, [x EXCEPT !.todo = @ \ {s}])
       \/ /\ x.todo = {}
          /\ Become(r, [x EXCEPT !.mode = IF @ = "enter" THEN "boundary" ELSE "propagate"])
          /\ UNCHANGED <<ignored, subscribers>>
    /\ UNCHANGED <<process, notices, queue>>

\* The script of a subshell has ended: handleSignalsNonBlocking, then
\* drainSignalsWithTimeout, which also looks in an action, for some time.
Leaving(r) ==
    LET x == sh[r] IN
    /\ At(r, {"leaving"})
    /\ \/ HandleSignal(r, "lastpending", "leaving")
       \/ NoSignal(r) /\ Become(r, [x EXCEPT !.mode = "drain"]) /\ UNCHANGED queue
    /\ UNCHANGED procvars

Drain(r) ==
    LET x == sh[r] IN
    /\ At(r, {"drain"})
    /\ \/ /\ queue[SignalCh(r)] # <<>>
          /\ Become(r, RunTrap(x, Head(queue[SignalCh(r)]), "drain"))
          /\ Take(r)
       \/ Become(r, [x EXCEPT !.mode = "exittrap"]) /\ UNCHANGED queue
    /\ UNCHANGED procvars

SubshellExitTrap(r) ==
    LET x == sh[r] IN
    /\ At(r, {"exittrap"})
    /\ Become(r, IF x.exitTrap = "run"
                 THEN Call([x EXCEPT !.lastStatus = IF x.exitFlag THEN x.exitCode ELSE x.code],
                           "subexit", "leave")
                 ELSE [x EXCEPT !.mode = "leave"])
    /\ UNCHANGED <<procvars, queue>>

\* runSubshell restores the state of the shell around it, up to
\* applySignalHandlers.  The channel of the subshell is garbage from here on.
Leave(r) ==
    LET x == sh[r]
        f == Top(x)
        Lost(c) == IF c = SignalCh(r) THEN LostChannel ELSE c
    IN
    /\ At(r, {"leave"})
    /\ sh' = [q \in Runners |->
                IF q = r
                THEN [Pop(x) EXCEPT !.traps = f.traps, !.exitTrap = f.exitTrap,
                                    !.pending = f.pending, !.lastStatus = f.entry,
                                    !.exitFlag = f.exitFlag, !.exitCode = f.exitCode,
                                    !.inherited = {}, !.forward = NoChannel,
                                    !.propagated = <<>>, !.replay = x.propagated,
                                    !.todo = Signals, !.mode = "restore"]
                ELSE [sh[q] EXCEPT !.forward = Lost(@), !.starter = Lost(@)]]
    /\ queue' = [queue EXCEPT ![SignalCh(r)] = <<>>]
    /\ Stop(SignalCh(r))
    /\ UNCHANGED <<process, notices>>

\* The signals the subshell has sent to the shell around it.
Propagate(r) ==
    LET x == sh[r] IN
    /\ At(r, {"propagate"})
    /\ Become(r, IF x.replay = <<>>
                 THEN [Done(x, x.code) EXCEPT !.code = 0]
                 ELSE RunTrap([x EXCEPT !.replay = Tail(@), !.lastStatus = x.code],
                              Head(x.replay), "propagate"))
    /\ UNCHANGED <<procvars, queue>>

ForwardTo(r) == SignalCh(r)

\* A background job: a runner of its own that sends $$'s signals to this one.
StartJob(r) ==
    /\ Ready(r, "job")
    /\ \E j \in Jobs :
         /\ sh[j].mode = "none"
         /\ sh' = [sh EXCEPT ![r] = Done(@, 0),
                             ![j] = Runner("boundary", SubshellTraps(sh[r].traps),
                                           ForwardTo(r), FALSE)]
    /\ UNCHANGED <<procvars, queue>>

\* The shell has run its script: the process ends.
ExitProcess ==
    /\ At(Main, {"done"})
    /\ process' = "exited"
    /\ UNCHANGED <<ignored, subscribers, notices, queue, sh>>

\* A signal for the process, from outside or from a child.
Deliver(s) ==
    /\ process = "alive" /\ notices < MaxNotices
    /\ notices' = notices + 1
    /\ process' = IF s \notin ignored /\ subscribers[s] = {} THEN "killed" ELSE process
    /\ queue' = [c \in Channels |-> IF c \in subscribers[s] THEN Offer(queue[c], s) ELSE queue[c]]
    /\ UNCHANGED <<ignored, subscribers, sh>>

Command(r) == \/ Simple(r) \/ Trap(r) \/ TrapExit(r) \/ Exit(r)
              \/ (\E s \in Signals : KillSelf(r, s) \/ KillJob(r, s))
              \/ Foreground(r) \/ Wait(r) \/ Subshell(r) \/ StartJob(r)

Step(r) == \/ Boundary(r) \/ Late(r) \/ Command(r) \/ EndOfScript(r)
           \/ ForegroundEnd(r) \/ WaitEnd(r)
           \/ Apply(r) \/ Leaving(r) \/ Drain(r) \/ SubshellExitTrap(r) \/ Leave(r) \/ Propagate(r)

Stopped == process # "alive" /\ UNCHANGED vars

Next == (\E r \in Runners : Step(r)) \/ ExitProcess \/ (\E s \in Signals : Deliver(s)) \/ Stopped

\* Every goroutine is scheduled, and every action and subshell is finite.
Fairness ==
    /\ WF_vars(ExitProcess)
    /\ \A r \in Runners :
          /\ WF_vars(Step(r))
          /\ \A d \in 1..MaxDepth + 1 :
                SF_vars(Len(sh[r].stack) = d /\ EndOfScript(r))

Spec == Init /\ [][Next]_vars /\ Fairness

-----------------------------------------------------------------------------
(* Properties.                                                              *)

ActionKinds == {"trap", "exit", "subexit"}

Modes == {"none", "boundary", "command", "late", "foreground", "wait", "enter", "restore",
          "leaving", "drain", "exittrap", "leave", "propagate", "done"}

Statuses == Codes \cup {0} \cup {SignalExitStatus(s) : s \in Signals}

\* The processes' signals and the channels, and for each runner what its
\* fields may hold; a stack is never deeper than the bounds of scripts allow.
TypeOK ==
    /\ process \in {"alive", "killed", "exited"}
    /\ ignored \subseteq Signals /\ notices \in 0..MaxNotices
    /\ \A s \in Signals : subscribers[s] \subseteq Channels
    /\ \A c \in Channels : Len(queue[c]) <= ChanCap /\ Range(queue[c]) \subseteq Signals
    /\ \A r \in Runners : LET x == sh[r] IN
         /\ x.mode \in Modes /\ x.todo \subseteq Signals /\ x.inherited \subseteq Signals
         /\ x.traps \in [Signals -> {"unset", "empty", "run"}]
         /\ x.exitTrap \in {"unset", "run"}
         /\ {x.forward, x.starter} \subseteq Channels \cup {NoChannel, LostChannel}
         /\ \A q \in {x.propagated, x.pending, x.replay} : Range(q) \subseteq Signals
         /\ {x.code, x.lastStatus, x.trapStatus, x.exitCode} \subseteq Statuses
         /\ {x.top, x.inTrap, x.exitFlag} \subseteq BOOLEAN
         /\ Len(x.stack) <= MaxDepth + 1
         /\ Range(x.stack) \subseteq [kind : ActionKinds \cup {"wait", "subshell"}, from : Modes
               \cup {"kill", "pending", "lastpending", "apply"}, status : Statuses, entry : Statuses,
               inTrap : BOOLEAN, trapStatus : Statuses, exitFlag : BOOLEAN, exitCode : Statuses,
               code : Statuses, replay : Seq(Signals),
               traps : [Signals -> {"unset", "empty", "run"}], exitTrap : {"unset", "run"},
               pending : Seq(Signals)]

\* The handlers that the code wants for the traps x of a runner in channel c.
Wanted(x, c, s) == CASE x.traps[s] = "empty" -> {}
                     [] x.traps[s] = "run" \/ (x.traps[s] = "unset" /\ s \in DefaultHandled) -> {c}
                     [] OTHER -> {}

\* While the shell is in no subshell and no runner changes the process behind
\* its back, the dispositions of the process are those of its traps: a trapped
\* or default-handled signal reaches its channel and no other, an ignored one
\* is ignored and any other one kills; so a subshell takes nothing away and
\* leaves nothing behind (runSubshell, applySignalHandlers, trap).
DispositionsMatch ==
    LET x == sh[Main] IN
    (Depth(x) = 0 /\ x.mode \notin {"enter", "restore"}) =>
        /\ ignored = {s \in Signals : x.traps[s] = "empty"}
        /\ \A s \in Signals : subscribers[s] = Wanted(x, <<Main, 0>>, s)

\* In a subshell the traps it has itself set are heard by its own channel,
\* and nobody else hears them.
SubshellHearsItsTraps ==
    LET x == sh[Main] IN
    (Depth(x) > 0 /\ x.mode \notin {"enter", "restore"}) =>
        \A s \in Signals :
            /\ x.traps[s] = "run" => s \notin ignored /\ subscribers[s] = {SignalCh(Main)}
            /\ x.traps[s] = "empty" => s \in ignored

\* The frame of the innermost action of a stack, among some kinds.
Innermost(stack, kinds) ==
    LET at == {i \in DOMAIN stack : stack[i].kind \in kinds}
    IN  stack[CHOOSE i \in at : \A k \in at : k <= i]

Remembers(x, kinds) ==
    (\E i \in DOMAIN x.stack : x.stack[i].kind \in kinds) =>
        x.inTrap /\ x.trapStatus = Innermost(x.stack, kinds).entry

\* A runner in the action of a trap, and only that, knows that it is (no
\* other signal interrupts it) and knows the status it had on entry, which
\* exit uses; actions may nest and hold subshells with their own EXIT traps.
ActionsRemembered ==
    \A r \in Runners :
        /\ Remembers(sh[r], ActionKinds)
        /\ sh[r].inTrap => \E i \in DOMAIN sh[r].stack : sh[r].stack[i].kind \in ActionKinds

\* An exit, asked for by the script or by a signal without a trap, is not
\* undone by an action that runs before the shell is gone.
ExitSticks ==
    [][\A r \in Runners : LET x == sh[r]  y == sh'[r] IN
          /\ x.exitFlag /\ y.stack = x.stack => y.exitFlag
          /\ (x.stack # <<>> /\ y.stack = Front(x.stack) /\ Last(x.stack).kind \in {"trap", "subshell"}
                /\ Last(x.stack).exitFlag) => y.exitFlag]_vars

\* A signal that has reached the channel of the shell is taken from it, also
\* when it came in the middle of a subshell, an action or a command, unless
\* the shell ends first.
SignalsHandled ==
    queue[<<Main, 0>>] # <<>> ~> (queue[<<Main, 0>>] = <<>> \/ sh[Main].mode = "done"
                                                          \/ process # "alive")
=============================================================================
