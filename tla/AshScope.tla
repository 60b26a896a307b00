------------------------------- MODULE AshScope -------------------------------
(***************************************************************************)
(* The variables of the shell: assignments, the builtins that change       *)
(* variables, functions with their locals, prefix assignments, subshells   *)
(* and command substitutions, in src/pkg/applets/ash/ash.go.               *)
(*                                                                         *)
(* A variable is in up to four places: the map of the runner, the sets of  *)
(* exported and readonly names, the frames of local, and the environment   *)
(* of the process, which subshells share because they are not processes.   *)
(***************************************************************************)
EXTENDS Naturals, Sequences, FiniteSets

CONSTANTS
    Names,      \* of variables
    Values,
    MaxDepth    \* bound: functions, subshells and substitutions inside one another

Unset    == "unset"
NotSaved == "not saved"
NoName   == "none"

ASSUME ScopeAssumption ==
    /\ MaxDepth \in Nat
    /\ Values # {} /\ {Unset, NotSaved} \intersect Values = {} /\ NoName \notin Names

VARIABLES
    vars,           \* value of each variable
    exported,       \* names
    readonly,       \* names
    localStack,     \* for each function, what local saved
    env,            \* environment of the process
    calls,          \* what functions, subshells and substitutions saved
    dying,          \* exitFlag, set by an assignment to a readonly name
    stray           \* history: names that something inside a call put into env

scope == <<vars, exported, readonly, localStack, env, calls, dying, stray>>
runner == <<vars, exported, readonly, localStack>>

Slots    == Values \union {Unset}

TopLocal == localStack[Len(localStack)]
TopCall  == calls[Len(calls)]
Pop(s)   == SubSeq(s, 1, Len(s) - 1)

\* What a process started now finds in its environment (buildEnv).
ChildEnv == [n \in Names |-> IF n \in exported /\ vars[n] # Unset THEN vars[n] ELSE env[n]]

ScopeInit ==
    /\ exported \in SUBSET Names
    /\ vars = [n \in Names |-> IF n \in exported THEN CHOOSE v \in Values : TRUE ELSE Unset]
    /\ env = vars       \* the shell starts with what it was given
    /\ readonly = {}
    /\ localStack = <<>> /\ calls = <<>>
    /\ dying = FALSE /\ stray = {}

-----------------------------------------------------------------------------
(* History: which functions a write reaches, and what is put into env.      *)

\* The function calls of this runner whose callers see a write to n in the m-th
\* call: up to the first that has n as a local, and not beyond a subshell.
Reached(n, m) == {i \in 1..m :
    \A j \in i..m : calls[j].kind = "function" /\ n \notin calls[j].locals}

WroteIn(n, m) == calls' = [i \in 1..Len(calls) |->
    IF i \in Reached(n, m) THEN [calls[i] EXCEPT !.touched = @ \union {n}] ELSE calls[i]]
Wrote(n) == WroteIn(n, Len(calls))

\* The environment is shared with whoever comes after the innermost call.
InCall == \E i \in 1..Len(calls) : calls[i].kind # "function" \/ calls[i].prefix # NoName
PutEnv(names) == stray' = IF InCall THEN stray \union names ELSE stray

-----------------------------------------------------------------------------
(* Assignments and builtins.                                                *)

Running == ~dying

\* reportReadonly: the shell, or the subshell, is about to exit.
Refuse == dying' = TRUE /\ UNCHANGED <<runner, env, calls, stray>>

Assign == Running /\ \E n \in Names, v \in Values :
    \/ n \in readonly /\ Refuse
    \/ /\ n \notin readonly
       /\ vars' = [vars EXCEPT ![n] = v] /\ Wrote(n)
       /\ UNCHANGED <<exported, readonly, localStack, env, dying, stray>>

\* for, read, getopts, ${name:=value} and arithmetic assign without a look at
\* readonly.
AssignUnchecked == Running /\ \E n \in Names, v \in Values :
    /\ vars' = [vars EXCEPT ![n] = v] /\ Wrote(n)
    /\ UNCHANGED <<exported, readonly, localStack, env, dying, stray>>

\* Every exported name that has a value goes into the environment again.
SetEnv(vs, ex) ==
    /\ env' = [n \in Names |-> IF n \in ex /\ vs[n] # Unset THEN vs[n] ELSE env[n]]
    /\ PutEnv(ex)

Export == Running /\ \E n \in Names :
    /\ \/ \E v \in Values : /\ n \notin readonly
                            /\ vars' = [vars EXCEPT ![n] = v] /\ Wrote(n)
       \/ UNCHANGED <<vars, calls>>
    /\ exported' = exported \union {n}
    /\ SetEnv(vars', exported')
    /\ UNCHANGED <<readonly, localStack, dying>>

ExportReadonly == Running /\ \E n \in readonly :
    /\ dying' = TRUE /\ SetEnv(vars, exported)
    /\ UNCHANGED <<runner, calls>>

Unexport == Running /\ \E n \in Names :
    /\ exported' = exported \ {n} /\ env' = [env EXCEPT ![n] = Unset]
    /\ PutEnv({n})
    /\ UNCHANGED <<vars, readonly, localStack, calls, dying>>

Readonly == Running /\ \E n \in Names :
    \/ n \in readonly /\ Refuse
    \/ /\ \/ \E v \in Values : n \notin readonly /\ vars' = [vars EXCEPT ![n] = v] /\ Wrote(n)
          \/ UNCHANGED <<vars, calls>>
       /\ readonly' = readonly \union {n}
       /\ UNCHANGED <<exported, localStack, env, dying, stray>>

UnsetName == Running /\ \E n \in Names :
    \/ n \in readonly /\ Refuse
    \/ /\ n \notin readonly
       /\ vars' = [vars EXCEPT ![n] = Unset] /\ Wrote(n)
       /\ exported' = exported \ {n} /\ env' = [env EXCEPT ![n] = Unset] /\ PutEnv({n})
       /\ UNCHANGED <<readonly, localStack, dying>>

\* Mutated: a second local forgets the value from before the first.
SaveAgain(n) == localStack' = [localStack EXCEPT ![Len(localStack)][n] = vars[n]]

\* local saves what the variable was, once for each function.
SaveLocal(n) == localStack' =
    [localStack EXCEPT ![Len(localStack)][n] = IF @ = NotSaved THEN vars[n] ELSE @]

EnvOf(n, v) == env' = IF n \in exported THEN [env EXCEPT ![n] = v] ELSE env

\* local makes n a local of the function the frame is of.  In a subshell in that
\* function it hands the value of n there to whoever comes after the function.
MarkLocal(n) ==
    LET functions == {i \in 1..Len(calls) : calls[i].kind = "function"}
        m == CHOOSE i \in functions : \A k \in functions : k <= i
    IN  IF m = Len(calls) THEN calls' = [calls EXCEPT ![m].locals = @ \union {n}]
        ELSE WroteIn(n, m)

Local == Running /\ localStack # <<>> /\ \E n \in Names :
    /\ SaveLocal(n) /\ MarkLocal(n)
    /\ \/ \E v \in Values : vars' = [vars EXCEPT ![n] = v] /\ EnvOf(n, v)
       \/ /\ TopLocal[n] = NotSaved
          /\ vars' = [vars EXCEPT ![n] = Unset] /\ EnvOf(n, Unset)
       \/ TopLocal[n] # NotSaved /\ UNCHANGED <<vars, env>>
    /\ PutEnv({n} \intersect exported)
    /\ UNCHANGED <<exported, readonly, dying>>

-----------------------------------------------------------------------------
(* Functions.                                                               *)

NoLocals == [n \in Names |-> NotSaved]
Call(kind, prefix) ==
    [kind |-> kind, prefix |-> prefix, vars |-> vars,
     exported |-> IF prefix = NoName /\ kind = "function" THEN {} ELSE exported,
     readonly |-> IF kind = "substitution" THEN readonly ELSE {},
     localStack |-> IF kind = "substitution" THEN localStack ELSE <<>>,
     touched |-> {}, locals |-> {}]

\* name=value f args: the assignment is made first; without one, f args.
CallFunction ==
    /\ Running /\ Len(calls) < MaxDepth
    /\ \E prefix \in {NoName} \union Names :
         /\ prefix \notin readonly
         /\ calls' = Append(calls, Call("function", prefix))
         /\ \/ prefix = NoName /\ UNCHANGED vars
            \/ prefix # NoName /\ \E v \in Values : vars' = [vars EXCEPT ![prefix] = v]
    /\ localStack' = Append(localStack, NoLocals)
    /\ UNCHANGED <<exported, readonly, env, dying, stray>>

\* The variables as local saved them.
Restored == [n \in Names |-> IF TopLocal[n] = NotSaved THEN vars[n] ELSE TopLocal[n]]

\* The deferred restore of a prefix assignment.
PrefixRestored(vs) ==
    [n \in Names |-> IF n = TopCall.prefix THEN TopCall.vars[n] ELSE vs[n]]

\* It also takes the name from the exported ones: wasExported is never set for
\* a function.
EndFunction ==
    /\ calls # <<>> /\ TopCall.kind = "function"
    /\ vars' = PrefixRestored(Restored)
    /\ env' = [n \in Names |->
         IF TopLocal[n] # NotSaved /\ n \in exported THEN TopLocal[n] ELSE env[n]]
    /\ exported' = exported \ {TopCall.prefix}
    /\ localStack' = Pop(localStack) /\ calls' = Pop(calls)
    /\ stray' = stray \union ({TopCall.prefix} \intersect Names)
                      \union {n \in exported : InCall /\ TopLocal[n] # NotSaved}
    /\ UNCHANGED <<readonly, dying>>

-----------------------------------------------------------------------------
(* Subshells and command substitutions.                                     *)

\* runSubshell copies the variables and goes on with the same runner.
EnterSubshell ==
    /\ Running /\ Len(calls) < MaxDepth
    /\ calls' = Append(calls, Call("subshell", NoName))
    /\ UNCHANGED <<runner, env, dying, stray>>

\* runCommandSubWithRunner makes a runner of its own: no function is under way
\* in it.
EnterSubstitution ==
    /\ Running /\ Len(calls) < MaxDepth
    /\ calls' = Append(calls, Call("substitution", NoName))
    /\ localStack' = <<>>
    /\ UNCHANGED <<vars, exported, readonly, env, dying, stray>>

\* The saved maps come back.  The readonly names and the frames of local of a
\* subshell are those of the shell, and so is the environment.
Leave ==
    /\ calls # <<>> /\ TopCall.kind \in {"subshell", "substitution"}
    /\ vars' = TopCall.vars /\ exported' = TopCall.exported
    /\ IF TopCall.kind = "subshell" THEN UNCHANGED <<readonly, localStack>>
       ELSE readonly' = TopCall.readonly /\ localStack' = TopCall.localStack
    /\ calls' = Pop(calls) /\ dying' = FALSE
    /\ UNCHANGED <<env, stray>>

\* The script has ended.
EndShell == dying /\ calls = <<>> /\ UNCHANGED scope

ScopeNext ==
    \/ Assign \/ AssignUnchecked \/ Export \/ ExportReadonly \/ Unexport
    \/ Readonly \/ UnsetName \/ Local
    \/ CallFunction \/ EndFunction
    \/ EnterSubshell \/ EnterSubstitution \/ Leave \/ EndShell

ScopeSpec == ScopeInit /\ [][ScopeNext]_scope

-----------------------------------------------------------------------------
(* Properties.                                                              *)

ScopeTypeOK ==
    /\ vars \in [Names -> Slots] /\ env \in [Names -> Slots]
    /\ exported \subseteq Names /\ readonly \subseteq Names
    /\ dying \in BOOLEAN
    /\ \A i \in 1..Len(localStack) : localStack[i] \in [Names -> Slots \union {NotSaved}]
    /\ Len(localStack) = Cardinality({i \in 1..Len(calls) : calls[i].kind = "function"
           /\ \A j \in i..Len(calls) : calls[j].kind # "substitution"})

\* A function changes only the variables that it, or what it calls, assigns
\* without having made them local: the others are after the call as before,
\* through nested functions, repeated local, prefix assignments and subshells.
\* A local in a subshell of a function counts as a write of the function: the frame
\* it puts the value into is that of the function, and outlives the subshell.
LocalsShield == [][EndFunction => \A n \in Names :
    n \notin TopCall.touched => vars'[n] = TopCall.vars[n]]_scope

\* A process finds in its environment the exported variables and nothing else,
\* unless something in a subshell, a substitution or a function with a prefix
\* assignment touched the environment of the process, or the name was assigned
\* in front of a function call.
ChildSeesExports == \A n \in Names \ stray :
    ChildEnv[n] = IF n \in exported THEN vars[n] ELSE Unset

\* Variables, the environment and the frames of local stay in step.  (runFunction,
\* runSubshell, buildEnv, the builtins local, export, readonly and unset)
ScopesKept == [](ScopeTypeOK /\ ChildSeesExports) /\ LocalsShield
=============================================================================
