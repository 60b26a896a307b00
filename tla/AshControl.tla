------------------------------ MODULE AshControl ------------------------------
(***************************************************************************)
(* How the shell runs a script: runScript and the functions that run the   *)
(* compound commands, in src/pkg/applets/ash/ash.go.                       *)
(*                                                                         *)
(* These functions call one another, and break, continue, return and exit  *)
(* travel back through them in flags of the runner that every caller has   *)
(* to look at.  "stack" is the stack of the calls under way, "ret" what    *)
(* the one that has just ended returned.  The text of a script is not      *)
(* there: at each command, and at each end of a script, any of them may    *)
(* come next.                                                              *)
(***************************************************************************)
EXTENDS Integers, Sequences, FiniteSets

CONSTANTS
    Codes,      \* statuses of commands
    MaxDepth,   \* bound: calls inside one another
    MaxJump     \* bound: the argument of break and continue

ASSUME ControlAssumption ==
    /\ {0, 1} \subseteq Codes /\ Codes \subseteq Nat
    /\ {MaxDepth, MaxJump} \subseteq Nat \ {0}

VARIABLES
    stack,          \* calls under way, the innermost one last
    ret,            \* what the last call to end returned, or NoRet
    breakCount,     \* loops that break has yet to leave
    continueCount,  \* loops that continue has yet to leave or go on with
    returnFlag,     \* return is on its way to its function
    returnCode,
    exitFlag,       \* exit is on its way to the end of the shell
    exitCode,
    loopDepth,      \* loops around the command
    errexit,        \* options["e"]
    inSubshell,
    jump,           \* history: the loop that break or continue is for
    home,           \* history: the call that return is for
    astray          \* history: a command was run during a jump

flags == <<breakCount, continueCount, returnFlag, returnCode, exitFlag, exitCode>>
counters == <<breakCount, continueCount>>
returning == <<returnFlag, returnCode>>
exiting == <<exitFlag, exitCode>>
history == <<jump, home, astray>>
vars == <<stack, ret, flags, loopDepth, errexit, inSubshell, history>>

ExitSuccess == 0
ExitFailure == 1

NoRet == [done |-> FALSE, code |-> ExitSuccess, exit |-> FALSE]
NoSave == "nothing"
Loops == {"while", "until", "for"}
Homes == {"function", "source", "subshell"}     \* calls that end a return
Kinds == Loops \union Homes \union {"script", "if", "case", "brace", "list", "not", "eval", "command"}

Frame(kind, phase, saved) == [kind |-> kind, phase |-> phase, status |-> ExitSuccess, saved |-> saved]
Script == Frame("script", "body", NoSave)

Depth == Len(stack)
Top   == stack[Depth]
Below == SubSeq(stack, 1, Depth - 1)

Max0(S) == IF S = {} THEN 0 ELSE CHOOSE x \in S : \A y \in S : y <= x

\* The calls of kinds K since the last subshell began.
Since(K) == {i \in 1..Depth : stack[i].kind \in K
                /\ \A j \in i + 1..Depth : stack[j].kind # "subshell"}
Innermost(K) == Max0(Since(K))

Init ==
    /\ stack = <<Script>> /\ ret = NoRet
    /\ breakCount = 0 /\ continueCount = 0
    /\ returnFlag = FALSE /\ returnCode = ExitSuccess
    /\ exitFlag = FALSE /\ exitCode = ExitSuccess
    /\ loopDepth = 0
    /\ errexit = FALSE /\ inSubshell = FALSE
    /\ jump = 0 /\ home = 0 /\ astray = FALSE

-----------------------------------------------------------------------------
(* Calls and returns.                                                       *)

Return(code, exit) == ret' = [done |-> TRUE, code |-> code, exit |-> exit]

\* runScript begins: it forgets an exit that is under way.
RunScript(calls) ==
    /\ stack' = calls \o <<Script>>
    /\ exitFlag' = FALSE /\ exitCode' = ExitSuccess
    /\ ret' = NoRet

Jumping == breakCount + continueCount > 0

\* What a compound command returns after a script in it: exit is looked at,
\* return and break are left to the script around.
AfterInner(exit) ==
    IF exitFlag THEN Return(exitCode, exit) ELSE Return(ret.code, FALSE)

\* A loop is left: by return, by exit, by break or continue, or at its end.
LeaveLoop(status) ==
    /\ stack' = Below /\ Return(status, FALSE)
    /\ loopDepth' = loopDepth - 1

\* The shell is about to run a command: the next one of a script, a part of
\* a list, or what ! negates.
AtCommand ==
    /\ ret = NoRet /\ stack # <<>>
    /\ Top.kind \in {"script", "list", "not", "command"}
    /\ Top.kind = "script" => ~returnFlag

\* A command begins.  History: it goes astray when break, continue, return or
\* exit is under way.
Begin ==
    /\ AtCommand
    /\ astray' = (astray \/ Jumping \/ returnFlag \/ exitFlag)

\* runSimpleCommandInternal looks for an exit once it has parsed the command.
BeginSimple == Begin /\ ~exitFlag

-----------------------------------------------------------------------------
(* Simple commands.                                                         *)

ExitPending ==
    /\ Begin /\ exitFlag
    /\ Return(exitCode, TRUE)
    /\ UNCHANGED <<stack, flags, loopDepth, errexit, inSubshell, jump, home>>

Builtin ==
    /\ BeginSimple
    /\ \E code \in Codes : Return(code, FALSE)
    /\ UNCHANGED <<stack, flags, loopDepth, errexit, inSubshell, jump, home>>

SetErrexit ==
    /\ BeginSimple
    /\ errexit' \in BOOLEAN /\ Return(ExitSuccess, FALSE)
    /\ UNCHANGED <<stack, flags, loopDepth, inSubshell, jump, home>>

\* The loop that is "levels" loops out, that many at most.
Target(levels) == CHOOSE i \in Since(Loops) :
    Cardinality({j \in Since(Loops) : j >= i}) = levels

Levels(n) == IF n > loopDepth THEN loopDepth ELSE n

Break ==
    /\ BeginSimple /\ loopDepth > 0
    /\ \E n \in 1..MaxJump :
         /\ breakCount' = Levels(n) /\ continueCount' = 0
         /\ jump' = Target(Levels(n))
    /\ Return(ExitSuccess, FALSE)
    /\ UNCHANGED <<stack, returning, exiting, loopDepth, errexit, inSubshell, home>>

Continue ==
    /\ BeginSimple /\ loopDepth > 0
    /\ \E n \in 1..MaxJump :
         /\ continueCount' = Levels(n) /\ breakCount' = 0
         /\ jump' = Target(Levels(n))
    /\ Return(ExitSuccess, FALSE)
    /\ UNCHANGED <<stack, returning, exiting, loopDepth, errexit, inSubshell, home>>

\* Outside of a loop break ends a subshell; else it is an error, as continue
\* is, which Builtin stands for.
BreakSubshell ==
    /\ BeginSimple /\ loopDepth = 0 /\ inSubshell
    /\ exitFlag' = TRUE /\ exitCode' = ExitSuccess
    /\ Return(ExitSuccess, TRUE)
    /\ UNCHANGED <<stack, counters, returning, loopDepth, errexit, inSubshell, jump, home>>

ReturnCommand ==
    /\ BeginSimple
    /\ \E code \in Codes :
         returnFlag' = TRUE /\ returnCode' = code /\ Return(code, TRUE)
    /\ home' = Innermost(Homes)
    /\ UNCHANGED <<stack, counters, exiting, loopDepth, errexit, inSubshell, jump>>

\* exit, and an expansion that fails: exitFlag is set before the command runs.
Exit ==
    /\ BeginSimple
    /\ \E code \in Codes :
         exitFlag' = TRUE /\ exitCode' = code /\ Return(code, TRUE)
    /\ UNCHANGED <<stack, counters, returning, loopDepth, errexit, inSubshell, jump, home>>

-----------------------------------------------------------------------------
(* Scripts.                                                                 *)

EndScript ==
    /\ ret = NoRet /\ stack # <<>> /\ Top.kind = "script"
    /\ stack' = Below /\ Return(IF returnFlag THEN returnCode ELSE Top.status, FALSE)
    /\ UNCHANGED <<flags, loopDepth, errexit, inSubshell, history>>

Returned(K) == ret # NoRet /\ stack # <<>> /\ Top.kind \in K

\* A command of the script has returned.
ScriptStops ==
    /\ Returned({"script"})
    /\ \/ returnFlag /\ Return(returnCode, FALSE)
       \/ ~returnFlag /\ exitFlag /\ Return(exitCode, FALSE)
       \/ ~returnFlag /\ ~exitFlag /\ errexit /\ ret.code # ExitSuccess
            /\ Return(ret.code, FALSE)
       \/ ~returnFlag /\ ~exitFlag /\ ~(errexit /\ ret.code # ExitSuccess) /\ Jumping
            /\ Return(ret.code, FALSE)
    /\ stack' = Below
    /\ UNCHANGED <<flags, loopDepth, errexit, inSubshell, history>>

\* Mutated: a script does not look for break and continue.
ScriptGoesOnAnyway ==
    /\ Returned({"script"})
    /\ ~returnFlag /\ ~exitFlag /\ ~(errexit /\ ret.code # ExitSuccess)
    /\ ret' = NoRet
    /\ stack' = [stack EXCEPT ![Depth].status = ret.code]
    /\ UNCHANGED <<flags, loopDepth, errexit, inSubshell, history>>

ScriptGoesOn ==
    /\ Returned({"script"})
    /\ ~returnFlag /\ ~exitFlag /\ ~Jumping /\ ~(errexit /\ ret.code # ExitSuccess)
    /\ ret' = NoRet
    /\ stack' = [stack EXCEPT ![Depth].status = ret.code]
    /\ UNCHANGED <<flags, loopDepth, errexit, inSubshell, history>>

-----------------------------------------------------------------------------
(* Compound commands.                                                       *)

Deeper(n) == Depth + n <= MaxDepth

\* Commands that run one script: { ... }, eval, and a branch of case; and if,
\* that of its first condition.
Compound ==
    /\ Begin /\ Deeper(2)
    /\ \E kind \in {"if", "case", "brace"} :
         RunScript(Append(stack, Frame(kind, IF kind = "if" THEN "cond" ELSE "body", NoSave)))
    /\ UNCHANGED <<counters, returning, loopDepth, errexit, inSubshell, jump, home>>

\* No pattern matches, perhaps because the word could not be expanded.
CaseNoMatch ==
    /\ Begin
    /\ \/ UNCHANGED exiting
       \/ exitFlag' = TRUE /\ exitCode' \in Codes \ {ExitSuccess}
    /\ Return(ExitSuccess, FALSE)
    /\ UNCHANGED <<stack, counters, returning, loopDepth, errexit, inSubshell, jump, home>>

\* After a condition: its branch, elif (one of them), else, or the end.
IfCondition ==
    /\ Returned({"if"}) /\ Top.phase # "body" /\ ~exitFlag
    /\ \/ /\ ret.code = ExitSuccess
          /\ RunScript([stack EXCEPT ![Depth].phase = "body"])
       \/ /\ ret.code # ExitSuccess
          /\ \E phase \in {"elif", "body"} \ {Top.phase} : RunScript([stack EXCEPT ![Depth].phase = phase])
       \/ /\ ret.code # ExitSuccess
          /\ stack' = Below /\ Return(ExitSuccess, FALSE) /\ UNCHANGED exiting
    /\ UNCHANGED <<counters, returning, loopDepth, errexit, inSubshell, history>>

CompoundEnd ==
    /\ \/ Returned({"case", "brace"})
       \/ Returned({"if"}) /\ (Top.phase = "body" \/ exitFlag)
    /\ stack' = Below /\ AfterInner(Top.kind = "brace")
    /\ UNCHANGED <<flags, loopDepth, errexit, inSubshell, history>>

\* !, a list of parts joined by && and ||, and the command builtin: each runs
\* a command in its place.  The last saves the exit flag.
Prefix ==
    /\ Begin /\ Deeper(1)
    /\ \/ /\ Top.kind # "command"
          /\ \E kind \in {"not", "list"} : stack' = Append(stack, Frame(kind, "body", NoSave))
          /\ UNCHANGED exiting
       \/ /\ ~exitFlag
          /\ stack' = Append(stack, Frame("command", "body", exitCode))
          /\ exitFlag' = FALSE /\ exitCode' = ExitSuccess
    /\ ret' = NoRet
    /\ UNCHANGED <<counters, returning, loopDepth, errexit, inSubshell, jump, home>>

NotEnd ==
    /\ Returned({"not"})
    /\ stack' = Below
    /\ Return(IF ret.code = ExitSuccess THEN ExitFailure ELSE ExitSuccess, ret.exit)
    /\ UNCHANGED <<flags, loopDepth, errexit, inSubshell, history>>

CommandEnd ==
    /\ Returned({"command"})
    /\ stack' = Below /\ Return(IF exitFlag THEN exitCode ELSE ret.code, FALSE)
    /\ exitFlag' = FALSE /\ exitCode' = Top.saved
    /\ UNCHANGED <<counters, returning, loopDepth, errexit, inSubshell, history>>

\* The next part whose operator fits the status of the last one.
ListGoesOn ==
    /\ Returned({"list"}) /\ ~ret.exit
    /\ ret' = NoRet
    /\ UNCHANGED <<stack, flags, loopDepth, errexit, inSubshell, history>>

ListEnd ==
    /\ Returned({"list"})
    /\ stack' = Below /\ UNCHANGED ret
    /\ UNCHANGED <<flags, loopDepth, errexit, inSubshell, history>>

-----------------------------------------------------------------------------
(* Loops.                                                                   *)

\* The word list of for may hold an expansion that fails.
LoopBegin ==
    /\ Begin /\ Deeper(2)
    /\ \E kind \in Loops :
         /\ stack' = Append(stack, Frame(kind, "next", NoSave))
         /\ \/ UNCHANGED exiting
            \/ kind = "for" /\ exitFlag' = TRUE /\ exitCode' \in Codes \ {ExitSuccess}
    /\ loopDepth' = loopDepth + 1
    /\ UNCHANGED <<ret, counters, returning, errexit, inSubshell, jump, home>>

AtLoop(phase) == stack # <<>> /\ Top.kind \in Loops /\ Top.phase = phase

\* The next round: its condition, or the body for the next word.
Round ==
    /\ ret = NoRet /\ AtLoop("next")
    /\ Top.kind = "for" \/ (~returnFlag /\ ~exitFlag)
    /\ RunScript([stack EXCEPT ![Depth].phase = IF Top.kind = "for" THEN "body" ELSE "cond"])
    /\ UNCHANGED <<counters, returning, loopDepth, errexit, inSubshell, history>>

NoMoreWords ==
    /\ ret = NoRet /\ AtLoop("next") /\ Top.kind = "for"
    /\ LeaveLoop(Top.status)
    /\ UNCHANGED <<flags, errexit, inSubshell, history>>

LoopStatus == IF Top.phase = "body" THEN ret.code ELSE Top.status
NextRound == stack' = [stack EXCEPT ![Depth].phase = "next", ![Depth].status = LoopStatus] /\ ret' = NoRet

\* while and until look at the flags also before the condition.
LoopStops ==
    /\ Returned(Loops) \/ (ret = NoRet /\ AtLoop("next") /\ Top.kind # "for")
    /\ \/ returnFlag /\ LeaveLoop(returnCode)
       \/ ~returnFlag /\ exitFlag /\ LeaveLoop(exitCode)
    /\ UNCHANGED <<flags, errexit, inSubshell, history>>

\* Mutated: break stays pending in the loops around.
LoopBreakKept ==
    /\ Returned(Loops) /\ ~returnFlag /\ ~exitFlag /\ breakCount > 0
    /\ LeaveLoop(LoopStatus)
    /\ UNCHANGED <<flags, errexit, inSubshell, history>>

LoopBreak ==
    /\ Returned(Loops) /\ ~returnFlag /\ ~exitFlag /\ breakCount > 0
    /\ breakCount' = breakCount - 1
    /\ jump' = IF breakCount = 1 THEN 0 ELSE jump
    /\ LeaveLoop(LoopStatus)
    /\ UNCHANGED <<continueCount, returning, exiting, errexit, inSubshell, home, astray>>

LoopContinue ==
    /\ Returned(Loops) /\ ~returnFlag /\ ~exitFlag /\ breakCount = 0 /\ continueCount > 0
    /\ continueCount' = continueCount - 1
    /\ \/ continueCount = 1 /\ NextRound /\ jump' = 0 /\ UNCHANGED loopDepth
       \/ continueCount > 1 /\ LeaveLoop(LoopStatus) /\ UNCHANGED jump
    /\ UNCHANGED <<breakCount, returning, exiting, errexit, inSubshell, home, astray>>

\* Mutated: return does not stop a loop.
LoopGoesOnAnyway == Returned(Loops) /\ ~exitFlag /\ ~Jumping

LoopGoesOn == Returned(Loops) /\ ~returnFlag /\ ~exitFlag /\ ~Jumping

\* The condition has the status that while, or until, goes on with.
LoopCondition ==
    /\ LoopGoesOn /\ AtLoop("cond")
    /\ \/ /\ (ret.code = ExitSuccess) = (Top.kind = "while")
          /\ RunScript([stack EXCEPT ![Depth].phase = "body"])
          /\ UNCHANGED loopDepth
       \/ /\ (ret.code = ExitSuccess) = (Top.kind = "until")
          /\ LeaveLoop(Top.status) /\ UNCHANGED exiting
    /\ UNCHANGED <<counters, returning, errexit, inSubshell, history>>

LoopBody ==
    /\ LoopGoesOn /\ AtLoop("body") /\ NextRound
    /\ UNCHANGED <<flags, loopDepth, errexit, inSubshell, history>>

-----------------------------------------------------------------------------
(* Functions, files, strings, subshells.                                    *)

Saved == [returnFlag |-> returnFlag, returnCode |-> returnCode, exitCode |-> exitCode, home |-> home]

FunctionCall ==
    /\ BeginSimple /\ Deeper(2)
    /\ RunScript(Append(stack, Frame("function", "body", Saved)))
    /\ returnFlag' = FALSE /\ returnCode' = ExitSuccess /\ home' = 0
    /\ UNCHANGED <<counters, loopDepth, errexit, inSubshell, jump>>

RestoreReturn ==
    /\ returnFlag' = Top.saved.returnFlag /\ returnCode' = Top.saved.returnCode
    /\ home' = Top.saved.home

FunctionEnd ==
    /\ Returned({"function"})
    /\ stack' = Below
    /\ Return(IF exitFlag THEN exitCode ELSE IF returnFlag THEN returnCode ELSE ret.code, FALSE)
    /\ RestoreReturn
    /\ exitCode' = IF exitFlag THEN exitCode ELSE Top.saved.exitCode
    /\ UNCHANGED <<counters, exitFlag, loopDepth, errexit, inSubshell, jump, astray>>

SourceOrEval ==
    /\ BeginSimple /\ Deeper(2)
    /\ \E kind \in {"source", "eval"} : RunScript(Append(stack, Frame(kind, "body", NoSave)))
    /\ UNCHANGED <<counters, returning, loopDepth, errexit, inSubshell, jump, home>>

EvalEnd ==
    /\ Returned({"eval"})
    /\ stack' = Below /\ Return(ret.code, FALSE)
    /\ UNCHANGED <<flags, loopDepth, errexit, inSubshell, history>>

SourceEnd ==
    /\ Returned({"source"})
    /\ stack' = Below /\ Return(IF returnFlag THEN returnCode ELSE ret.code, FALSE)
    /\ returnFlag' = FALSE /\ home' = IF returnFlag THEN 0 ELSE home
    /\ UNCHANGED <<counters, returnCode, exiting, loopDepth, errexit, inSubshell, jump, astray>>

Snapshot ==
    [breakCount |-> breakCount, continueCount |-> continueCount,
     returnFlag |-> returnFlag, returnCode |-> returnCode,
     exitFlag |-> exitFlag, exitCode |-> exitCode,
     loopDepth |-> loopDepth, errexit |-> errexit,
     inSubshell |-> inSubshell, jump |-> jump, home |-> home]

Subshell ==
    /\ Begin /\ Deeper(2)
    /\ RunScript(Append(stack, Frame("subshell", "body", Snapshot)))
    /\ breakCount' = 0 /\ continueCount' = 0
    /\ returnFlag' = FALSE /\ returnCode' = ExitSuccess
    /\ loopDepth' = 0
    /\ inSubshell' = TRUE
    /\ jump' = 0 /\ home' = 0
    /\ UNCHANGED errexit

SubshellEnd ==
    /\ Returned({"subshell"})
    /\ stack' = Below /\ Return(ret.code, FALSE)
    /\ breakCount' = Top.saved.breakCount /\ continueCount' = Top.saved.continueCount
    /\ exitFlag' = Top.saved.exitFlag /\ exitCode' = Top.saved.exitCode
    /\ loopDepth' = Top.saved.loopDepth
    /\ errexit' = Top.saved.errexit /\ inSubshell' = Top.saved.inSubshell
    /\ RestoreReturn /\ jump' = Top.saved.jump
    /\ UNCHANGED astray

\* The shell has ended.
Ended == stack = <<>> /\ UNCHANGED vars

Next ==
    \/ ExitPending \/ Builtin \/ SetErrexit \/ Break \/ Continue \/ BreakSubshell
    \/ ReturnCommand \/ Exit
    \/ EndScript \/ ScriptStops \/ ScriptGoesOn
    \/ Compound \/ CaseNoMatch \/ IfCondition \/ CompoundEnd
    \/ Prefix \/ NotEnd \/ CommandEnd \/ ListGoesOn \/ ListEnd
    \/ LoopBegin \/ Round \/ NoMoreWords \/ LoopStops \/ LoopBreak \/ LoopContinue
    \/ LoopCondition \/ LoopBody
    \/ FunctionCall \/ FunctionEnd \/ SourceOrEval \/ EvalEnd \/ SourceEnd
    \/ Subshell \/ SubshellEnd \/ Ended

\* The shell is one goroutine that runs on.
Spec == Init /\ [][Next]_vars /\ WF_vars(Next)

-----------------------------------------------------------------------------
(* Properties.                                                              *)

TypeOK ==
    /\ \A i \in 1..Depth : stack[i].kind \in Kinds /\ stack[i].status \in Codes
    /\ ret.code \in Codes /\ {ret.done, ret.exit} \subseteq BOOLEAN
    /\ {breakCount, continueCount} \subseteq 0..MaxJump
    /\ {returnCode, exitCode} \subseteq Codes
    /\ {returnFlag, exitFlag, errexit, inSubshell, astray} \subseteq BOOLEAN
    /\ loopDepth \in 0..MaxDepth /\ {jump, home} \subseteq 0..MaxDepth

\* loopDepth counts the loops since the innermost subshell, and break and
\* continue never count more loops than there are, so that none is left over
\* when the last loop ends (runWhileScript, runForScript, runSubshell), unless
\* a command was run during a jump: "while break && return" leaves one behind.
CountsFitLoops ==
    /\ loopDepth = Cardinality(Since(Loops))
    /\ astray \/ breakCount + continueCount <= loopDepth
    /\ inSubshell = (\E i \in 1..Depth : stack[i].kind = "subshell")

\* While break or continue is under way its count is the number of loops from
\* the innermost one to the one it is for, whatever functions, eval, lists and
\* conditions lie between, as long as no command was run meanwhile.
JumpReaches == jump # 0 /\ ~astray =>
    breakCount + continueCount = Cardinality({i \in Since(Loops) : i >= jump})

\* A return under way has not passed the function, sourced file or subshell
\* it was in.
ReturnReaches == returnFlag /\ ~astray => home = Innermost(Homes)

\* Commands run during a jump only as later parts of a list, or as the first
\* one of a branch whose condition jumped.
AstrayOnlyInLists == [][astray' /\ ~astray =>
    \E i \in 1..Depth : stack[i].kind \in {"list", "if"}]_vars

\* An exit under way ends the shell, or a subshell: it is forgotten by the
\* command builtin, by a script in a later part of a list, and by the body of
\* a for whose words could not be expanded.
ExitForgotten == [][exitFlag /\ ~exitFlag' =>
    Top.kind \in {"subshell", "command", "list", "not", "for"}]_vars

UnderWay == Jumping \/ returnFlag \/ exitFlag

\* A break, continue, return or exit that no command gets in the way of
\* arrives: the loops, functions and scripts on its way all end.
JumpsArrive == (UnderWay /\ ~astray) ~> (~UnderWay \/ astray \/ stack = <<>>)

\* Counters and flags say where the jump under way is to end.  (runWhileScript, runForScript,
\* runFunction, runSubshell)
JumpsRight == TypeOK /\ CountsFitLoops /\ JumpReaches /\ ReturnReaches

\* Nothing but the places named here runs on past a jump, or forgets an exit.  (runScript,
\* runCommand)
FlagsKept == AstrayOnlyInLists /\ ExitForgotten
=============================================================================
