--------------------------- MODULE AshSignals_proofs ---------------------------
(***************************************************************************)
(* The trap state of the runners of AshSignals, for any signals, nesting   *)
(* and number of background jobs; and the dispositions of the process, for *)
(* a shell whose background jobs set no traps and enter no subshells.      *)
(***************************************************************************)
EXTENDS AshSignals, FiniteSetTheorems, SequenceTheorems, TLAPS

-----------------------------------------------------------------------------
(* Types.                                                                   *)

TrapStates == {"unset", "empty", "run"}

\* Where a trap is run from.
LeaveFroms == {"leaving", "lastpending", "drain", "leave"}
Froms == LeaveFroms \cup {"kill", "pending", "boundary", "late", "propagate", "done", "apply"}

Frames ==
    [kind : ActionKinds \cup {"wait", "subshell"}, from : Froms, status : Statuses,
     entry : Statuses, inTrap : BOOLEAN, trapStatus : Statuses, exitFlag : BOOLEAN,
     exitCode : Statuses, code : Statuses, replay : Seq(Signals),
     traps : [Signals -> TrapStates], exitTrap : {"unset", "run"}, pending : Seq(Signals)]

States ==
    [mode : Modes, stack : Seq(Frames), todo : SUBSET Signals, traps : [Signals -> TrapStates],
     exitTrap : {"unset", "run"}, top : BOOLEAN,
     forward : Channels \cup {NoChannel, LostChannel},
     starter : Channels \cup {NoChannel, LostChannel},
     inherited : SUBSET Signals, propagated : Seq(Signals), pending : Seq(Signals),
     code : Statuses, replay : Seq(Signals), lastStatus : Statuses, inTrap : BOOLEAN,
     trapStatus : Statuses, exitFlag : BOOLEAN, exitCode : Statuses]

\* What a step of a runner leaves alone, but for the fields that are named.
Kept(x, y) ==
    /\ y \in States
    /\ y.stack = x.stack /\ y.traps = x.traps /\ y.inherited = x.inherited /\ y.forward = x.forward
    /\ y.inTrap = x.inTrap /\ y.trapStatus = x.trapStatus /\ y.exitFlag = x.exitFlag

LEMMA Statuses0 ==
    /\ 0 \in Statuses /\ Codes \subseteq Statuses
    /\ \A s \in Signals : SignalExitStatus(s) \in Statuses
  BY DEF Statuses

LEMMA DoneKeeps ==
    ASSUME NEW x \in States, NEW status \in Statuses
    PROVE  Kept(x, Done(x, status)) /\ Done(x, status).mode = "boundary"
<1>1. "boundary" \in Modes
  BY DEF Modes
<1> QED BY <1>1 DEF Kept, Done, States

LEMMA AfterTrapKeeps ==
    ASSUME NEW x \in States, NEW from \in Froms \ {"apply"}
    PROVE  LET y == AfterTrap(x, from)
           IN  /\ Kept(x, y)
               /\ y.mode \in {"boundary", "late", "leaving", "drain", "exittrap", "leave",
                              "propagate", "done"}
               /\ y.mode \in {"leaving", "drain", "exittrap", "leave"} => from \in LeaveFroms
               /\ y.mode = "propagate" => from = "propagate"
<1> DEFINE y == AfterTrap(x, from)
           Goal == /\ Kept(x, y)
                   /\ y.mode \in {"boundary", "late", "leaving", "drain", "exittrap", "leave",
                                  "propagate", "done"}
                   /\ y.mode \in {"leaving", "drain", "exittrap", "leave"} => from \in LeaveFroms
                   /\ y.mode = "propagate" => from = "propagate"
<1>0. {"boundary", "late", "leaving", "drain", "exittrap", "leave", "propagate", "done"} \subseteq Modes
      /\ 0 \in Statuses /\ <<>> \in Seq(Signals)
  BY Statuses0 DEF Modes
<1> SUFFICES Goal
  OBVIOUS
<1>1. CASE from \in {"kill", "pending"}
  <2>1. y = Done(x, 0)
    BY <1>1 DEF AfterTrap
  <2> QED BY <1>0, <2>1, DoneKeeps
<1>2. CASE from \in {"leaving"}
  <2>1. y = [x EXCEPT !.mode = IF x.exitFlag THEN "drain" ELSE "leaving"]
    BY <1>2 DEF AfterTrap
  <2> QED BY <1>0, <1>2, <2>1 DEF States, Kept, LeaveFroms
<1>3. CASE from = "lastpending"
  <2>1. y = [x EXCEPT !.mode = IF x.exitFlag THEN "drain" ELSE "leaving",
                      !.lastStatus = IF x.exitFlag THEN @ ELSE 0]
    BY <1>3 DEF AfterTrap
  <2> QED BY <1>0, <1>3, <2>1 DEF States, Kept, LeaveFroms
<1>4. CASE from = "drain"
  <2>1. y = [x EXCEPT !.mode = IF x.exitFlag THEN "exittrap" ELSE "drain"]
    BY <1>4 DEF AfterTrap
  <2> QED BY <1>0, <1>4, <2>1 DEF States, Kept, LeaveFroms
<1>5. CASE from = "propagate" /\ x.exitFlag
  <2>1. y = [x EXCEPT !.mode = "boundary", !.code = 0, !.replay = <<>>]
    BY <1>5 DEF AfterTrap
  <2> QED BY <1>0, <2>1 DEF States, Kept
<1>6. CASE from \in {"boundary", "late", "done", "leave"} \/ (from = "propagate" /\ ~x.exitFlag)
  <2>1. y = [x EXCEPT !.mode = from]
    BY <1>6 DEF AfterTrap
  <2>2. from \in {"boundary", "late", "done", "leave", "propagate"}
    BY <1>6
  <2>3. from \in Modes /\ y.mode = from
    BY <1>0, <2>1, <2>2 DEF States
  <2>4. Kept(x, y)
    BY <2>1, <2>3 DEF States, Kept
  <2> QED BY <2>2, <2>3, <2>4 DEF LeaveFroms
<1>7. \/ from \in {"kill", "pending"}
      \/ from \in {"leaving"}
      \/ from = "lastpending"
      \/ from = "drain"
      \/ from = "propagate" /\ x.exitFlag
      \/ from \in {"boundary", "late", "done", "leave"} \/ (from = "propagate" /\ ~x.exitFlag)
  BY DEF Froms, LeaveFroms
<1> QED BY <1>1, <1>2, <1>3, <1>4, <1>5, <1>6, <1>7

-----------------------------------------------------------------------------
(* Stacks.                                                                  *)

\* inTrap and trapStatus are those of the innermost action among the first n
\* frames of s.
Knows(s, n, inTrap, trapStatus) ==
    IF inTrap
    THEN \E k \in 1..n : /\ s[k].kind \in ActionKinds /\ trapStatus = s[k].entry
                         /\ \A l \in k + 1..n : s[l].kind \notin ActionKinds
    ELSE \A k \in 1..n : s[k].kind \notin ActionKinds

InSubshell(s) == s # <<>> /\ s[Len(s)].kind = "subshell"

\* The bounds of a frame, the subshell that is left under an action of its
\* end, and what an action has saved.
FrameOK(s, i) ==
    /\ i <= MaxDepth + 1
    /\ s[i].kind \in {"subshell", "wait"} => i <= MaxDepth
    /\ s[i].kind = "trap" => s[i].from # "apply"
    /\ s[i].kind = "trap" /\ s[i].from = "propagate" => i <= MaxDepth
    /\ s[i].kind = "subexit" \/ (s[i].kind = "trap" /\ s[i].from \in LeaveFroms) =>
           i > 1 /\ s[i - 1].kind = "subshell"
    /\ s[i].kind \in ActionKinds => Knows(s, i - 1, s[i].inTrap, s[i].trapStatus)

StackOK(s, inTrap, trapStatus) ==
    /\ s \in Seq(Frames)
    /\ \A i \in 1..Len(s) : FrameOK(s, i)
    /\ Knows(s, Len(s), inTrap, trapStatus)

LEMMA KnowsSame ==
    ASSUME NEW s, NEW t, NEW n \in Nat, \A i \in 1..n : t[i] = s[i],
           NEW inTrap, NEW trapStatus, Knows(s, n, inTrap, trapStatus)
    PROVE  Knows(t, n, inTrap, trapStatus)
<1>1. CASE inTrap
  <2>1. PICK k \in 1..n : /\ s[k].kind \in ActionKinds /\ trapStatus = s[k].entry
                          /\ \A l \in k + 1..n : s[l].kind \notin ActionKinds
    BY <1>1 DEF Knows
  <2>2. t[k].kind \in ActionKinds /\ trapStatus = t[k].entry
    BY <2>1
  <2>3. \A l \in k + 1..n : t[l].kind \notin ActionKinds
    BY <2>1
  <2> QED BY <1>1, <2>2, <2>3 DEF Knows
<1>2. CASE ~inTrap
  BY <1>2 DEF Knows
<1> QED BY <1>1, <1>2

LEMMA FrameSame ==
    ASSUME NEW s, NEW t, NEW i \in Nat, i # 0, \A k \in 1..i : t[k] = s[k], FrameOK(s, i)
    PROVE  FrameOK(t, i)
<1>1. t[i] = s[i] /\ i - 1 \in Nat /\ (i > 1 => t[i - 1] = s[i - 1])
  OBVIOUS
<1>2. \A k \in 1..i - 1 : t[k] = s[k]
  OBVIOUS
<1>3. t[i].kind \in ActionKinds => Knows(t, i - 1, t[i].inTrap, t[i].trapStatus)
  <2> SUFFICES ASSUME s[i].kind \in ActionKinds
               PROVE  Knows(t, i - 1, s[i].inTrap, s[i].trapStatus)
    BY <1>1
  <2>1. Knows(s, i - 1, s[i].inTrap, s[i].trapStatus)
    BY DEF FrameOK
  <2> QED BY <1>1, <1>2, <2>1, KnowsSame
<1> QED BY <1>1, <1>3 DEF FrameOK

LEMMA PushOK ==
    ASSUME NEW s, NEW inTrap \in BOOLEAN, NEW trapStatus, StackOK(s, inTrap, trapStatus),
           NEW f \in Frames, Len(s) <= MaxDepth, MaxDepth \in Nat,
           f.kind \in {"subshell", "wait"} => Len(s) < MaxDepth,
           f.kind = "trap" => f.from # "apply",
           f.kind = "trap" /\ f.from = "propagate" => Len(s) < MaxDepth,
           f.kind = "subexit" \/ (f.kind = "trap" /\ f.from \in LeaveFroms) => InSubshell(s),
           f.kind \in ActionKinds => f.inTrap = inTrap /\ f.trapStatus = trapStatus
    PROVE  /\ f.kind \in ActionKinds => StackOK(Append(s, f), TRUE, f.entry)
           /\ f.kind \notin ActionKinds => StackOK(Append(s, f), inTrap, trapStatus)
<1> DEFINE t == Append(s, f)
           n == Len(s)
<1>1. s \in Seq(Frames) /\ n \in Nat /\ t \in Seq(Frames) /\ Len(t) = n + 1 /\ t[n + 1] = f
  BY AppendProperties DEF StackOK
<1>2. \A i \in 1..n : t[i] = s[i]
  BY <1>1, AppendProperties
<1>3. Knows(s, n, inTrap, trapStatus) /\ Knows(t, n, inTrap, trapStatus)
  BY <1>1, <1>2, KnowsSame DEF StackOK
<1>4. ASSUME NEW i \in 1..n PROVE FrameOK(t, i)
  <2>1. FrameOK(s, i) /\ i \in Nat /\ i # 0 /\ \A k \in 1..i : t[k] = s[k]
    BY <1>1, <1>2 DEF StackOK
  <2> QED BY <2>1, FrameSame
<1>5. FrameOK(t, n + 1)
  <2>1. n + 1 <= MaxDepth + 1 /\ (n + 1) - 1 = n
    BY <1>1
  <2>2. f.kind \in {"subshell", "wait"} => n + 1 <= MaxDepth
    BY <1>1
  <2>3. f.kind = "trap" /\ f.from = "propagate" => n + 1 <= MaxDepth
    BY <1>1
  <2>4. InSubshell(s) => n + 1 > 1 /\ t[n].kind = "subshell"
    BY <1>1, <1>2 DEF InSubshell
  <2>5. f.kind \in ActionKinds => Knows(t, n, f.inTrap, f.trapStatus)
    BY <1>3
  <2> QED BY <1>1, <2>1, <2>2, <2>3, <2>4, <2>5 DEF FrameOK
<1>6. \A i \in 1..Len(t) : FrameOK(t, i)
  BY <1>1, <1>4, <1>5
<1>7. f.kind \in ActionKinds => Knows(t, n + 1, TRUE, f.entry)
  BY <1>1 DEF Knows
<1>8. f.kind \notin ActionKinds => Knows(t, n + 1, inTrap, trapStatus)
  <2> SUFFICES ASSUME f.kind \notin ActionKinds
               PROVE  Knows(t, n + 1, inTrap, trapStatus)
    OBVIOUS
  <2>1. CASE inTrap
    <3>1. PICK k \in 1..n : /\ t[k].kind \in ActionKinds /\ trapStatus = t[k].entry
                            /\ \A l \in k + 1..n : t[l].kind \notin ActionKinds
      BY <1>3, <2>1 DEF Knows
    <3>2. \A l \in k + 1..n + 1 : t[l].kind \notin ActionKinds
      BY <1>1, <3>1
    <3> QED BY <1>1, <2>1, <3>1, <3>2 DEF Knows
  <2>2. CASE ~inTrap
    BY <1>1, <1>3, <2>2 DEF Knows
  <2> QED BY <2>1, <2>2
<1> QED BY <1>1, <1>6, <1>7, <1>8 DEF StackOK

LEMMA PopOK ==
    ASSUME NEW s, NEW inTrap \in BOOLEAN, NEW trapStatus, StackOK(s, inTrap, trapStatus),
           s # <<>>, MaxDepth \in Nat
    PROVE  LET f == Last(s)
               t == Front(s)
           IN  /\ f \in Frames /\ Len(s) \in Nat /\ Len(t) = Len(s) - 1 /\ t # s
               /\ f.kind \in ActionKinds => StackOK(t, f.inTrap, f.trapStatus)
               /\ f.kind \notin ActionKinds => StackOK(t, inTrap, trapStatus)
               /\ f.kind = "subshell" => Len(t) < MaxDepth
               /\ f.kind = "trap" => f.from # "apply"
               /\ f.kind = "trap" /\ f.from = "propagate" => Len(t) < MaxDepth
               /\ f.kind = "subexit" \/ (f.kind = "trap" /\ f.from \in LeaveFroms) => InSubshell(t)
<1> DEFINE n == Len(s) - 1
           f == s[Len(s)]
           t == SubSeq(s, 1, n)
<1>0. Last(s) = f /\ Front(s) = t
  BY DEF Last, Front
<1>1. s \in Seq(Frames) /\ n \in Nat /\ Len(s) = n + 1 /\ f \in Frames /\ f = s[n + 1]
      /\ (n + 1) - 1 = n
  BY DEF StackOK
<1>2. t \in Seq(Frames) /\ Len(t) = n /\ \A i \in 1..n : t[i] = s[i]
  BY <1>1
<1>3. FrameOK(s, n + 1) /\ Knows(s, n + 1, inTrap, trapStatus)
  BY <1>1 DEF StackOK
<1> HIDE DEF n, f, t
<1>4. \A i \in 1..n : FrameOK(t, i)
  <2> SUFFICES ASSUME NEW i \in 1..n PROVE FrameOK(t, i)
    OBVIOUS
  <2>1. FrameOK(s, i) /\ i \in Nat /\ i # 0 /\ \A k \in 1..i : t[k] = s[k]
    BY <1>1, <1>2 DEF StackOK
  <2> QED BY <2>1, FrameSame
<1>5. f.kind \in ActionKinds => Knows(t, n, f.inTrap, f.trapStatus)
  <2>1. f.kind \in ActionKinds => Knows(s, n, f.inTrap, f.trapStatus)
    BY <1>1, <1>3 DEF FrameOK
  <2> QED BY <1>1, <1>2, <2>1, KnowsSame
<1>6. f.kind \notin ActionKinds => Knows(t, n, inTrap, trapStatus)
  <2> SUFFICES ASSUME f.kind \notin ActionKinds
               PROVE  Knows(t, n, inTrap, trapStatus)
    OBVIOUS
  <2>1. CASE inTrap
    <3>1. PICK k \in 1..n + 1 : /\ s[k].kind \in ActionKinds /\ trapStatus = s[k].entry
                                /\ \A l \in k + 1..n + 1 : s[l].kind \notin ActionKinds
      BY <1>3, <2>1 DEF Knows
    <3>2. k \in 1..n /\ \A l \in k + 1..n : s[l].kind \notin ActionKinds
      BY <1>1, <3>1
    <3>3. Knows(s, n, inTrap, trapStatus)
      BY <2>1, <3>1, <3>2 DEF Knows
    <3> QED BY <1>1, <1>2, <3>3, KnowsSame
  <2>2. CASE ~inTrap
    BY <1>1, <1>2, <1>3, <2>2 DEF Knows
  <2> QED BY <2>1, <2>2
<1>7. /\ f.kind \in ActionKinds => StackOK(t, f.inTrap, f.trapStatus)
      /\ f.kind \notin ActionKinds => StackOK(t, inTrap, trapStatus)
  BY <1>2, <1>4, <1>5, <1>6 DEF StackOK
<1>8. /\ f.kind = "subshell" => n < MaxDepth
      /\ f.kind = "trap" => f.from # "apply"
      /\ f.kind = "trap" /\ f.from = "propagate" => n < MaxDepth
  BY <1>1, <1>3 DEF FrameOK
<1>9. f.kind = "subexit" \/ (f.kind = "trap" /\ f.from \in LeaveFroms) => InSubshell(t)
  <2> SUFFICES ASSUME f.kind = "subexit" \/ (f.kind = "trap" /\ f.from \in LeaveFroms)
               PROVE  InSubshell(t)
    OBVIOUS
  <2>1. n + 1 > 1 /\ s[(n + 1) - 1].kind = "subshell"
    BY <1>1, <1>3 DEF FrameOK
  <2>2. n \in 1..n /\ t # <<>> /\ t[n].kind = "subshell"
    BY <1>1, <1>2, <2>1
  <2> QED BY <1>2, <2>2 DEF InSubshell
<1>10. t # s
  BY <1>1, <1>2
<1> QED BY <1>0, <1>1, <1>2, <1>7, <1>8, <1>9, <1>10

-----------------------------------------------------------------------------
(* Runners.                                                                 *)

\* The stack and what the actions on it have saved, in the middle of a step.
Core(x) == x \in States /\ StackOK(x.stack, x.inTrap, x.trapStatus)

ModeOK(x) ==
    /\ x.mode \in {"leaving", "drain", "exittrap", "leave"} => InSubshell(x.stack)
    /\ x.mode \in {"wait", "restore", "propagate"} => Len(x.stack) < MaxDepth
    /\ x.mode = "none" => x.stack = <<>> /\ ~x.exitFlag

RunnerOK(x) == Core(x) /\ ModeOK(x)

\* What the dispositions of the process depend on.
Alike(x, y) == y.traps = x.traps /\ y.inherited = x.inherited /\ y.forward = x.forward /\ Depth(y) = Depth(x)

\* ExitSticks for one runner.
Sticks(x, y) ==
    /\ x.exitFlag /\ y.stack = x.stack => y.exitFlag
    /\ (x.stack # <<>> /\ y.stack = Front(x.stack) /\ Last(x.stack).kind \in {"trap", "subshell"}
          /\ Last(x.stack).exitFlag) => y.exitFlag

\* What a step that enters or leaves no subshell does to a runner.
Becomes(x, y) ==
    RunnerOK(y) /\ Alike(x, y) /\ Sticks(x, y) /\ y.mode \notin {"none", "enter", "restore"}

\* A place a trap may be run from, with the stack s.
Place(s, from) ==
    /\ from \in Froms \ {"apply"}
    /\ from \in LeaveFroms => InSubshell(s)
    /\ from = "propagate" => Len(s) < MaxDepth

LEMMA SameStackSticks ==
    ASSUME NEW x, NEW y, x.stack \in Seq(Frames), y.stack = x.stack, x.exitFlag => y.exitFlag
    PROVE  Sticks(x, y)
<1>1. CASE x.stack = <<>>
  BY <1>1 DEF Sticks
<1>2. CASE x.stack # <<>>
  <2> DEFINE s == x.stack
  <2>1. Len(s) \in Nat /\ Len(s) # 0 /\ Len(Front(s)) = Len(s) - 1
    BY <1>2 DEF Front
  <2>2. Front(s) # s
    BY <2>1
  <2> QED BY <2>2 DEF Sticks
<1> QED BY <1>1, <1>2

LEMMA PushedSticks ==
    ASSUME NEW x, NEW y, x.stack \in Seq(Frames), NEW f \in Frames, y.stack = Append(x.stack, f)
    PROVE  Sticks(x, y)
<1> DEFINE s == x.stack
<1>1. Len(s) \in Nat /\ Len(Append(s, f)) = Len(s) + 1
  BY AppendProperties
<1>2. s # <<>> => Len(Front(s)) = Len(s) - 1
  BY DEF Front
<1>3. Append(s, f) # s
  BY <1>1
<1>4. s # <<>> => Append(s, f) # Front(s)
  BY <1>1, <1>2
<1> QED BY <1>3, <1>4 DEF Sticks

LEMMA DepthPush ==
    ASSUME NEW s \in Seq(Frames), NEW f \in Frames, f.kind # "subshell"
    PROVE  DepthOf(Append(s, f)) = DepthOf(s)
<1>1. Len(s) \in Nat /\ Append(s, f) \in Seq(Frames) /\ Len(Append(s, f)) = Len(s) + 1
      /\ Append(s, f)[Len(s) + 1] = f /\ \A i \in 1..Len(s) : Append(s, f)[i] = s[i]
  BY AppendProperties
<1> DEFINE t == Append(s, f)
<1> HIDE DEF t
<1>2. {i \in DOMAIN t : t[i].kind = "subshell"} = {i \in DOMAIN s : s[i].kind = "subshell"}
  <2>1. DOMAIN t = 1..Len(s) + 1 /\ DOMAIN s = 1..Len(s)
    BY <1>1 DEF t
  <2> QED BY <1>1, <2>1 DEF t
<1> QED BY <1>2 DEF DepthOf, t

LEMMA DepthPop ==
    ASSUME NEW s \in Seq(Frames), s # <<>>, Last(s).kind # "subshell"
    PROVE  DepthOf(Front(s)) = DepthOf(s)
<1>1. Front(s) \in Seq(Frames) /\ Len(s) \in Nat /\ Len(s) # 0 /\ Len(Front(s)) = Len(s) - 1
      /\ Last(s) = s[Len(s)] /\ \A i \in 1..Len(s) - 1 : Front(s)[i] = s[i]
  <2> DEFINE n == Len(s) - 1
  <2>1. Len(s) \in Nat /\ n \in Nat /\ Len(s) = n + 1
    OBVIOUS
  <2>2. SubSeq(s, 1, n) \in Seq(Frames) /\ Len(SubSeq(s, 1, n)) = n
        /\ \A i \in 1..n : SubSeq(s, 1, n)[i] = s[i]
    BY <2>1
  <2> QED BY <2>1, <2>2 DEF Front, Last
<1> DEFINE t == Front(s)
<1> HIDE DEF t
<1>2. {i \in DOMAIN t : t[i].kind = "subshell"} = {i \in DOMAIN s : s[i].kind = "subshell"}
  <2>1. DOMAIN t = 1..Len(s) - 1 /\ DOMAIN s = 1..Len(s)
    BY <1>1 DEF t
  <2> QED BY <1>1, <2>1 DEF t
<1> QED BY <1>2 DEF DepthOf, t

\* The step may first have changed other fields.
LEMMA BecomesFrom ==
    ASSUME NEW x, NEW z, NEW y, Becomes(z, y), z.stack = x.stack, z.exitFlag = x.exitFlag,
           z.traps = x.traps, z.inherited = x.inherited /\ z.forward = x.forward
    PROVE  Becomes(x, y)
  BY DEF Becomes, Alike, Sticks, Depth

LEMMA AfterTrapOK ==
    ASSUME NEW x, Core(x), NEW from, Place(x.stack, from)
    PROVE  Becomes(x, AfterTrap(x, from))
<1> DEFINE y == AfterTrap(x, from)
<1>1. x \in States /\ from \in Froms \ {"apply"} /\ x.stack \in Seq(Frames)
  BY DEF Core, Place, States
<1>2. /\ Kept(x, y)
      /\ y.mode \in {"boundary", "late", "leaving", "drain", "exittrap", "leave",
                     "propagate", "done"}
      /\ y.mode \in {"leaving", "drain", "exittrap", "leave"} => from \in LeaveFroms
      /\ y.mode = "propagate" => from = "propagate"
  BY <1>1, AfterTrapKeeps
<1> HIDE DEF y
<1>3. Core(y)
  BY <1>2 DEF Core, Kept
<1>4. ModeOK(y)
  BY <1>2 DEF ModeOK, Kept, Place
<1>5. Alike(x, y)
  BY <1>2 DEF Alike, Kept, Depth
<1>6. Sticks(x, y)
  BY <1>1, <1>2, SameStackSticks DEF Kept
<1> QED BY <1>2, <1>3, <1>4, <1>5, <1>6 DEF Becomes, RunnerOK, y

\* x with the frame of an action, as Call leaves it.
LEMMA CallOK ==
    ASSUME NEW x, Core(x), NEW kind \in ActionKinds, NEW from,
           kind = "trap" => Place(x.stack, from),
           kind = "subexit" => from = "leave" /\ InSubshell(x.stack),
           kind = "exit" => from = "done",
           Len(x.stack) <= MaxDepth, MaxDepth \in Nat
    PROVE  Becomes(x, Call(x, kind, from))
<1> DEFINE f == Frame(x, kind, from, 0)
           y == Call(x, kind, from)
<1>1. /\ x \in States /\ x.stack \in Seq(Frames) /\ x.inTrap \in BOOLEAN
      /\ StackOK(x.stack, x.inTrap, x.trapStatus)
  BY DEF Core, States
<1>2. from \in Froms \ {"apply"}
  BY DEF Place, Froms, LeaveFroms, ActionKinds
<1>3. /\ f \in Frames /\ f.kind = kind /\ f.from = from /\ f.entry = x.lastStatus
      /\ f.inTrap = x.inTrap /\ f.trapStatus = x.trapStatus
  BY <1>1, <1>2, Statuses0 DEF Frame, Frames, States, TrapStates
<1>4. /\ kind \notin {"subshell", "wait"} /\ kind \in ActionKinds
      /\ kind = "trap" /\ from = "propagate" => Len(x.stack) < MaxDepth
      /\ kind = "subexit" \/ (kind = "trap" /\ from \in LeaveFroms) => InSubshell(x.stack)
  BY DEF ActionKinds, Place
<1> HIDE DEF f
<1>5. StackOK(Append(x.stack, f), TRUE, f.entry)
  BY <1>1, <1>2, <1>3, <1>4, PushOK
<1>6. /\ y \in States /\ y.stack = Append(x.stack, f) /\ y.inTrap = TRUE
      /\ y.trapStatus = x.lastStatus /\ y.mode = "boundary" /\ ~y.exitFlag
      /\ y.traps = x.traps /\ y.inherited = x.inherited /\ y.forward = x.forward
  <2>1. Append(x.stack, f) \in Seq(Frames)
    BY <1>1, <1>3
  <2>2. "boundary" \in Modes /\ 0 \in Statuses /\ <<>> \in Seq(Signals)
    BY Statuses0 DEF Modes
  <2> QED BY <1>1, <2>1, <2>2 DEF Call, Push, f, States
<1> HIDE DEF y
<1>7. RunnerOK(y)
  BY <1>3, <1>5, <1>6 DEF RunnerOK, Core, ModeOK
<1>8. Alike(x, y)
  BY <1>1, <1>3, <1>4, <1>6, DepthPush DEF Alike, Depth
<1>9. Sticks(x, y)
  BY <1>1, <1>3, <1>6, PushedSticks
<1> QED BY <1>6, <1>7, <1>8, <1>9 DEF Becomes, y

LEMMA RunTrapOK ==
    ASSUME NEW x, Core(x), NEW s \in Signals, NEW from, Place(x.stack, from),
           x.traps[s] = "run" => Len(x.stack) <= MaxDepth, MaxDepth \in Nat
    PROVE  Becomes(x, RunTrap(x, s, from))
<1>1. CASE x.traps[s] = "empty"
  BY <1>1, AfterTrapOK DEF RunTrap
<1>2. CASE x.traps[s] = "run"
  <2>1. RunTrap(x, s, from) = Call(x, "trap", from)
    BY <1>2 DEF RunTrap
  <2>2. "trap" \in ActionKinds
    BY DEF ActionKinds
  <2> QED BY <1>2, <2>1, <2>2, CallOK
<1>3. CASE x.traps[s] \notin {"empty", "run"}
  <2> DEFINE d == Die(x, s)
             y == AfterTrap(d, from)
  <2>1. RunTrap(x, s, from) = y
    BY <1>3 DEF RunTrap
  <2>2. /\ d \in States /\ d.stack = x.stack /\ d.inTrap = x.inTrap /\ d.exitFlag
        /\ d.trapStatus = x.trapStatus /\ d.traps = x.traps /\ d.inherited = x.inherited /\ d.forward = x.forward
    BY Statuses0 DEF Core, States, Die
  <2> HIDE DEF d
  <2>3. Becomes(d, y)
    BY <2>2, AfterTrapOK DEF Core
  <2> HIDE DEF y
  <2>4. y.stack = d.stack /\ y.exitFlag
    <3>1. d \in States /\ from \in Froms \ {"apply"}
      BY <2>2 DEF Place
    <3>2. Kept(d, y)
      BY <3>1, AfterTrapKeeps DEF y
    <3> QED BY <2>2, <3>2 DEF Kept
  <2>5. Sticks(x, y)
    BY <2>4 DEF Sticks
  <2> QED BY <2>1, <2>2, <2>3, <2>5 DEF Becomes, Alike, Depth
<1> QED BY <1>1, <1>2, <1>3

\* The innermost action or wait ends.
LEMMA PopsOK ==
    ASSUME NEW x, Core(x), x.stack # <<>>, MaxDepth \in Nat
    PROVE  LET f == Top(x)
               z == RestoreTrap(Pop(x), f)
           IN  /\ f \in Frames /\ z \in States /\ z.stack = Front(x.stack)
               /\ f.kind \in ActionKinds => Core(z)
               /\ f.kind \notin ActionKinds => Core(Pop(x))
               /\ f.kind # "subshell" => Depth(z) = Depth(x) /\ Depth(Pop(x)) = Depth(x)
               /\ f.kind = "trap" => Place(z.stack, f.from)
               /\ f.kind = "subexit" => InSubshell(z.stack)
               /\ f.kind = "subshell" => Len(z.stack) < MaxDepth
<1> DEFINE f == Top(x)
           t == Front(x.stack)
           p == Pop(x)
           z == RestoreTrap(p, f)
<1>1. x \in States /\ x.stack \in Seq(Frames) /\ x.inTrap \in BOOLEAN
      /\ StackOK(x.stack, x.inTrap, x.trapStatus)
  BY DEF Core, States
<1>2. /\ f \in Frames /\ Len(x.stack) \in Nat /\ Len(t) = Len(x.stack) - 1
      /\ f.kind \in ActionKinds => StackOK(t, f.inTrap, f.trapStatus)
      /\ f.kind \notin ActionKinds => StackOK(t, x.inTrap, x.trapStatus)
      /\ f.kind = "subshell" => Len(t) < MaxDepth
      /\ f.kind = "trap" => f.from # "apply"
      /\ f.kind = "trap" /\ f.from = "propagate" => Len(t) < MaxDepth
      /\ f.kind = "subexit" \/ (f.kind = "trap" /\ f.from \in LeaveFroms) => InSubshell(t)
  BY <1>1, PopOK DEF Top
<1>3. f.kind # "subshell" => DepthOf(t) = DepthOf(x.stack)
  BY <1>1, DepthPop DEF Top
<1>4. t \in Seq(Frames)
  BY <1>2 DEF StackOK
<1> HIDE DEF f, t
<1>5. p \in States /\ p = [x EXCEPT !.stack = t]
  BY <1>1, <1>4 DEF Pop, States, t
<1>6. /\ z \in States /\ z = [p EXCEPT !.inTrap = f.inTrap, !.trapStatus = f.trapStatus]
  <2>1. f.inTrap \in BOOLEAN /\ f.trapStatus \in Statuses
    BY <1>2 DEF Frames
  <2> QED BY <1>5, <2>1 DEF RestoreTrap, States
<1> HIDE DEF p, z
<1>7. /\ p.stack = t /\ p.inTrap = x.inTrap /\ p.trapStatus = x.trapStatus
      /\ z.stack = t /\ z.inTrap = f.inTrap /\ z.trapStatus = f.trapStatus
  BY <1>1, <1>5, <1>6 DEF States
<1>8. f.from \in Froms
  BY <1>2 DEF Frames
<1> QED BY <1>2, <1>3, <1>5, <1>6, <1>7, <1>8 DEF Core, Depth, Place, f, t, p, z

\* An action or a wait that has ended leaves the rest of the stack.
LEMMA PoppedSticks ==
    ASSUME NEW x, NEW y, x.stack \in Seq(Frames), x.stack # <<>>, y.stack = Front(x.stack),
           (Last(x.stack).kind \in {"trap", "subshell"} /\ Last(x.stack).exitFlag) => y.exitFlag
    PROVE  Sticks(x, y)
<1> DEFINE s == x.stack
<1>1. Len(s) \in Nat /\ Len(s) # 0 /\ Len(Front(s)) = Len(s) - 1
  BY DEF Front
<1>2. Front(s) # s
  BY <1>1
<1> QED BY <1>2 DEF Sticks

LEMMA TrapReturnOK ==
    ASSUME NEW x, Core(x), x.stack # <<>>, Top(x).kind = "trap", MaxDepth \in Nat
    PROVE  Becomes(x, TrapReturn(x))
<1> DEFINE f == Top(x)
           z == RestoreTrap(Pop(x), f)
           k == KeepExit(z, f)
           w == [k EXCEPT !.lastStatus = f.entry, !.code = f.code, !.replay = f.replay]
           y == AfterTrap(w, f.from)
<1>1. /\ f \in Frames /\ z \in States /\ z.stack = Front(x.stack) /\ Core(z)
      /\ Depth(z) = Depth(x) /\ Place(z.stack, f.from)
  BY PopsOK DEF ActionKinds
<1>2. x \in States /\ z.traps = x.traps /\ z.inherited = x.inherited /\ z.forward = x.forward
  BY DEF Core, States, RestoreTrap, Pop
<1>3. y = TrapReturn(x)
  BY DEF TrapReturn
<1>4. /\ f.exitFlag \in BOOLEAN /\ f.exitCode \in Statuses /\ f.entry \in Statuses
      /\ f.code \in Statuses /\ f.replay \in Seq(Signals)
  BY <1>1 DEF Frames
<1> HIDE DEF f, z
<1>5. /\ k \in States /\ k.stack = z.stack /\ k.inTrap = z.inTrap /\ k.trapStatus = z.trapStatus
      /\ k.traps = z.traps /\ k.inherited = z.inherited /\ k.forward = z.forward /\ (f.exitFlag => k.exitFlag)
  <2>1. CASE z.exitFlag
    BY <1>1, <2>1 DEF KeepExit
  <2>2. CASE ~z.exitFlag
    BY <1>1, <1>4, <2>2 DEF KeepExit, States
  <2> QED BY <2>1, <2>2
<1> HIDE DEF k
<1>6. /\ w \in States /\ w.stack = k.stack /\ w.inTrap = k.inTrap /\ w.trapStatus = k.trapStatus
      /\ w.traps = k.traps /\ w.inherited = k.inherited /\ w.forward = k.forward /\ w.exitFlag = k.exitFlag
  BY <1>4, <1>5 DEF States
<1> HIDE DEF w
<1>7. Core(w) /\ Place(w.stack, f.from)
  BY <1>1, <1>5, <1>6 DEF Core
<1>8. Becomes(w, y)
  BY <1>7, AfterTrapOK
<1>9. y.stack = w.stack /\ y.exitFlag = w.exitFlag
  <2>1. w \in States /\ f.from \in Froms \ {"apply"}
    BY <1>6, <1>7 DEF Place
  <2>2. Kept(w, y)
    BY <2>1, AfterTrapKeeps
  <2> QED BY <2>2 DEF Kept
<1> HIDE DEF y
<1>10. Alike(x, y)
  BY <1>1, <1>2, <1>5, <1>6, <1>8 DEF Becomes, Alike, Depth
<1>11. Sticks(x, y)
  <2>1. x.stack \in Seq(Frames) /\ y.stack = Front(x.stack) /\ (f.exitFlag => y.exitFlag)
    BY <1>1, <1>2, <1>5, <1>6, <1>9 DEF States
  <2> QED BY <2>1, PoppedSticks DEF f, Top
<1> QED BY <1>3, <1>8, <1>10, <1>11 DEF Becomes

LEMMA WaitTrapReturnOK ==
    ASSUME NEW x, Core(x), x.stack # <<>>, Top(x).kind = "wait", MaxDepth \in Nat
    PROVE  Becomes(x, WaitTrapReturn(x))
<1> DEFINE f == Top(x)
           p == Pop(x)
           y == [p EXCEPT !.lastStatus = f.status, !.mode = "boundary"]
<1>1. f \in Frames /\ Core(p) /\ Depth(p) = Depth(x)
  BY PopsOK DEF ActionKinds
<1>2. x \in States /\ p.traps = x.traps /\ p.inherited = x.inherited /\ p.forward = x.forward /\ p.stack = Front(x.stack)
  BY DEF Core, States, Pop
<1>3. y = WaitTrapReturn(x) /\ f.status \in Statuses /\ "boundary" \in Modes
  BY <1>1 DEF WaitTrapReturn, Frames, Modes
<1> HIDE DEF p, f
<1>4. /\ y \in States /\ y.stack = p.stack /\ y.inTrap = p.inTrap /\ y.trapStatus = p.trapStatus
      /\ y.traps = p.traps /\ y.inherited = p.inherited /\ y.forward = p.forward /\ y.mode = "boundary"
  BY <1>1, <1>3 DEF Core, States
<1> HIDE DEF y
<1>5. RunnerOK(y)
  BY <1>1, <1>4 DEF RunnerOK, Core, ModeOK
<1>6. Alike(x, y)
  BY <1>1, <1>2, <1>4 DEF Alike, Depth
<1>7. Sticks(x, y)
  <2>1. x.stack \in Seq(Frames) /\ y.stack = Front(x.stack)
    BY <1>2, <1>4 DEF States
  <2> QED BY <2>1, PoppedSticks DEF Top
<1> QED BY <1>3, <1>4, <1>5, <1>6, <1>7 DEF Becomes

LEMMA ExitTrapReturnOK ==
    ASSUME NEW x, Core(x), x.stack # <<>>, Top(x).kind = "exit", MaxDepth \in Nat
    PROVE  Becomes(x, ExitTrapReturn(x))
<1> DEFINE f == Top(x)
           z == RestoreTrap(Pop(x), f)
           y == ExitTrapReturn(x)
<1>1. f \in Frames /\ z.stack = Front(x.stack) /\ Core(z) /\ Depth(z) = Depth(x)
  BY PopsOK DEF ActionKinds
<1>2. x \in States /\ z.traps = x.traps /\ z.inherited = x.inherited /\ z.forward = x.forward /\ z.exitCode = x.exitCode
  BY DEF Core, States, RestoreTrap, Pop
<1>3. y = [z EXCEPT !.lastStatus = f.entry, !.exitFlag = TRUE,
                    !.exitCode = IF x.exitFlag THEN @ ELSE f.entry, !.mode = "done"]
  BY DEF ExitTrapReturn
<1>4. f.entry \in Statuses /\ "done" \in Modes
  BY <1>1 DEF Frames, Modes
<1> HIDE DEF z, f, y
<1>5. /\ y \in States /\ y.stack = z.stack /\ y.inTrap = z.inTrap /\ y.trapStatus = z.trapStatus
      /\ y.traps = z.traps /\ y.inherited = z.inherited /\ y.forward = z.forward /\ y.mode = "done" /\ y.exitFlag
  BY <1>1, <1>3, <1>4 DEF Core, States
<1>6. RunnerOK(y)
  BY <1>1, <1>5 DEF RunnerOK, Core, ModeOK
<1>7. Alike(x, y)
  BY <1>1, <1>2, <1>5 DEF Alike, Depth
<1>8. Sticks(x, y)
  <2>1. x.stack \in Seq(Frames) /\ y.stack = Front(x.stack)
    BY <1>1, <1>2, <1>5 DEF States
  <2> QED BY <1>5, <2>1, PoppedSticks
<1> QED BY <1>5, <1>6, <1>7, <1>8 DEF Becomes, y

LEMMA SubExitReturnOK ==
    ASSUME NEW x, Core(x), x.stack # <<>>, Top(x).kind = "subexit", MaxDepth \in Nat
    PROVE  Becomes(x, SubExitReturn(x))
<1> DEFINE f == Top(x)
           z == RestoreTrap(Pop(x), f)
           y == SubExitReturn(x)
<1>1. f \in Frames /\ z.stack = Front(x.stack) /\ Core(z) /\ Depth(z) = Depth(x)
      /\ InSubshell(z.stack)
  BY PopsOK DEF ActionKinds
<1>2. x \in States /\ z.traps = x.traps /\ z.inherited = x.inherited /\ z.forward = x.forward /\ x.exitCode \in Statuses
  BY DEF Core, States, RestoreTrap, Pop
<1>3. y = [z EXCEPT !.code = IF x.exitFlag THEN x.exitCode ELSE f.entry, !.mode = "leave"]
  BY DEF SubExitReturn
<1>4. f.entry \in Statuses /\ "leave" \in Modes
  BY <1>1 DEF Frames, Modes
<1>5. Top(x) = Last(x.stack) /\ "subexit" \notin {"trap", "subshell"}
  BY DEF Top
<1> HIDE DEF z, f, y
<1>6. /\ y \in States /\ y.stack = z.stack /\ y.inTrap = z.inTrap /\ y.trapStatus = z.trapStatus
      /\ y.traps = z.traps /\ y.inherited = z.inherited /\ y.forward = z.forward /\ y.mode = "leave"
  BY <1>1, <1>2, <1>3, <1>4 DEF Core, States
<1>7. RunnerOK(y)
  BY <1>1, <1>6 DEF RunnerOK, Core, ModeOK
<1>8. Alike(x, y)
  BY <1>1, <1>2, <1>6 DEF Alike, Depth
<1>9. Sticks(x, y)
  <2>1. x.stack \in Seq(Frames) /\ y.stack = Front(x.stack)
    BY <1>1, <1>2, <1>6 DEF States
  <2> QED BY <1>5, <2>1, PoppedSticks
<1> QED BY <1>6, <1>7, <1>8, <1>9 DEF Becomes, y

LEMMA EndScriptOK ==
    ASSUME NEW x, Core(x), MaxDepth \in Nat
    PROVE  Becomes(x, EndScript(x))
<1>0. x \in States /\ x.stack \in Seq(Frames) /\ ScriptStatus(x) \in Statuses
      /\ "done" \in Modes /\ "leaving" \in Modes
  BY DEF Core, States, ScriptStatus, Modes
<1>1. CASE x.stack = <<>> /\ x.top /\ x.exitTrap = "run"
  <2>1. EndScript(x) = Call(x, "exit", "done") /\ Len(x.stack) <= MaxDepth
    BY <1>1 DEF EndScript
  <2>2. "exit" \in ActionKinds
    BY DEF ActionKinds
  <2> QED BY <2>1, <2>2, CallOK
<1>2. CASE x.stack = <<>> /\ ~(x.top /\ x.exitTrap = "run")
  <2> DEFINE y == [x EXCEPT !.exitCode = ScriptStatus(x), !.exitFlag = TRUE, !.mode = "done"]
  <2>1. EndScript(x) = y
    BY <1>2 DEF EndScript
  <2>2. /\ y \in States /\ y.stack = x.stack /\ y.inTrap = x.inTrap
        /\ y.trapStatus = x.trapStatus /\ y.traps = x.traps /\ y.inherited = x.inherited /\ y.forward = x.forward
        /\ y.mode = "done" /\ y.exitFlag
    BY <1>0 DEF States
  <2> HIDE DEF y
  <2>3. RunnerOK(y) /\ Alike(x, y)
    BY <2>2 DEF RunnerOK, Core, ModeOK, Alike, Depth
  <2>4. Sticks(x, y)
    BY <2>2 DEF Sticks
  <2> QED BY <2>1, <2>2, <2>3, <2>4 DEF Becomes
<1>3. CASE x.stack # <<>>
  <2>1. Top(x).kind \in {"trap", "wait", "exit", "subexit", "subshell"}
    BY <1>3, PopsOK DEF Frames, ActionKinds
  <2>2. CASE Top(x).kind = "trap"
    BY <1>3, <2>2, TrapReturnOK DEF EndScript
  <2>3. CASE Top(x).kind = "wait"
    BY <1>3, <2>3, WaitTrapReturnOK DEF EndScript
  <2>4. CASE Top(x).kind = "exit"
    BY <1>3, <2>4, ExitTrapReturnOK DEF EndScript
  <2>5. CASE Top(x).kind = "subexit"
    BY <1>3, <2>5, SubExitReturnOK DEF EndScript
  <2>6. CASE Top(x).kind = "subshell"
    <3> DEFINE y == [x EXCEPT !.code = ScriptStatus(x), !.mode = "leaving"]
    <3>1. EndScript(x) = y
      BY <1>3, <2>6 DEF EndScript
    <3>2. InSubshell(x.stack)
      BY <1>3, <2>6 DEF InSubshell, Top, Last
    <3>3. /\ y \in States /\ y.stack = x.stack /\ y.inTrap = x.inTrap
          /\ y.trapStatus = x.trapStatus /\ y.traps = x.traps /\ y.inherited = x.inherited /\ y.forward = x.forward
          /\ y.mode = "leaving" /\ y.exitFlag = x.exitFlag
      BY <1>0 DEF States
    <3> HIDE DEF y
    <3>4. RunnerOK(y) /\ Alike(x, y)
      BY <3>2, <3>3 DEF RunnerOK, Core, ModeOK, Alike, Depth
    <3>5. Sticks(x, y)
      BY <1>0, <3>3, SameStackSticks
    <3> QED BY <3>1, <3>3, <3>4, <3>5 DEF Becomes
  <2> QED BY <2>1, <2>2, <2>3, <2>4, <2>5, <2>6
<1> QED BY <1>1, <1>2, <1>3

-----------------------------------------------------------------------------
(* Steps.                                                                   *)

ProcessOK ==
    /\ process \in {"alive", "killed", "exited"}
    /\ ignored \in SUBSET Signals /\ notices \in 0..MaxNotices
    /\ subscribers \in [Signals -> SUBSET Channels]

QueuesOK ==
    /\ queue \in [Channels -> Seq(Signals)]
    /\ \A c \in Channels : Len(queue[c]) <= ChanCap

RunnersOK == sh \in [Runners -> States] /\ \A r \in Runners : RunnerOK(sh[r])

TInv == ProcessOK /\ QueuesOK /\ RunnersOK

LEMMA Bounds ==
    MaxDepth \in Nat /\ MaxKept \in Nat /\ MaxNotices \in Nat /\ ChanCap \in Nat
  BY SignalsAssumption

LEMMA ChannelOK ==
    ASSUME NEW x, Core(x), NEW r \in Runners
    PROVE  Depth(x) \in 0..MaxDepth /\ <<r, Depth(x)>> \in Channels
<1>1. x.stack \in Seq(Frames) /\ \A i \in 1..Len(x.stack) : FrameOK(x.stack, i)
  BY DEF Core, StackOK
<1> DEFINE D == {i \in DOMAIN x.stack : x.stack[i].kind = "subshell"}
<1>2. D \subseteq 1..MaxDepth
  BY <1>1, Bounds DEF FrameOK
<1>3. IsFiniteSet(1..MaxDepth) /\ Cardinality(1..MaxDepth) = MaxDepth
  BY Bounds, FS_Interval
<1>4. Cardinality(D) \in Nat /\ Cardinality(D) <= MaxDepth
  BY <1>2, <1>3, FS_Subset, FS_CardinalityType, Bounds
<1>5. Depth(x) \in 0..MaxDepth
  BY <1>4, Bounds DEF Depth, DepthOf
<1> QED BY <1>5 DEF Channels

\* Outside actions there is room for one.
LEMMA RoomForAction ==
    ASSUME NEW x, Core(x), ~x.inTrap
    PROVE  Len(x.stack) <= MaxDepth
<1> DEFINE n == Len(x.stack)
<1>1. x.stack \in Seq(Frames) /\ n \in Nat /\ \A i \in 1..n : FrameOK(x.stack, i)
  BY DEF Core, StackOK
<1>2. \A k \in 1..n : x.stack[k].kind \notin ActionKinds
  BY DEF Core, StackOK, Knows
<1>3. CASE n = 0
  BY <1>3, Bounds
<1>4. CASE n # 0
  <2>1. n \in 1..n /\ x.stack[n] \in Frames
    BY <1>1, <1>4
  <2>2. x.stack[n].kind \in {"subshell", "wait"}
    BY <1>2, <2>1 DEF Frames
  <2> QED BY <1>1, <2>1, <2>2 DEF FrameOK
<1> QED BY <1>1, <1>3, <1>4

\* A step that leaves the stack and what is remembered of it alone.
LEMMA PlainStep ==
    ASSUME NEW x, RunnerOK(x), NEW y \in States, y.stack = x.stack, y.inTrap = x.inTrap,
           y.trapStatus = x.trapStatus, y.traps = x.traps, y.inherited = x.inherited /\ y.forward = x.forward,
           x.exitFlag => y.exitFlag, y.mode \in {"boundary", "command", "late", "foreground"}
                                             \/ (y.mode = "wait" /\ Len(x.stack) < MaxDepth)
                                             \/ (y.mode \in {"drain", "exittrap", "leave"}
                                                  /\ InSubshell(x.stack))
    PROVE  Becomes(x, y)
<1>1. RunnerOK(y)
  BY DEF RunnerOK, Core, ModeOK
<1>2. x.stack \in Seq(Frames)
  BY DEF RunnerOK, Core, States
<1> QED BY <1>1, <1>2, SameStackSticks DEF Becomes, Alike, Depth

LEMMA DoneOK ==
    ASSUME NEW x, RunnerOK(x), NEW status \in Statuses
    PROVE  Becomes(x, Done(x, status))
<1>1. Kept(x, Done(x, status)) /\ Done(x, status).mode = "boundary"
  BY DoneKeeps DEF RunnerOK, Core
<1> QED BY <1>1, PlainStep DEF Kept

LEMMA SignalOf ==
    ASSUME TInv, NEW r \in Runners
    PROVE  /\ RunnerOK(sh[r]) /\ sh[r] \in States /\ SignalCh(r) \in Channels
           /\ queue[SignalCh(r)] \in Seq(Signals)
           /\ queue[SignalCh(r)] # <<>> => Head(queue[SignalCh(r)]) \in Signals
<1>1. RunnerOK(sh[r]) /\ sh[r] \in States
  BY DEF TInv, RunnersOK
<1>2. SignalCh(r) \in Channels
  BY <1>1, ChannelOK DEF RunnerOK, SignalCh
<1>3. queue[SignalCh(r)] \in Seq(Signals)
  BY <1>2 DEF TInv, QueuesOK
<1> QED BY <1>1, <1>2, <1>3

\* A step of a runner that enters or leaves no subshell.
Moves(r) == \E y : Become(r, y) /\ Becomes(sh[r], y)

LEMMA HandleSignalMoves ==
    ASSUME TInv, NEW r \in Runners, NEW pendingFrom, NEW from, Place(sh[r].stack, pendingFrom),
           Place(sh[r].stack, from), HandleSignal(r, pendingFrom, from)
    PROVE  Moves(r)
<1> DEFINE x == sh[r]
           q == queue[SignalCh(r)]
<1>1. RunnerOK(x) /\ x \in States /\ (q # <<>> => Head(q) \in Signals)
  BY SignalOf
<1>2. ~x.inTrap /\ Len(x.stack) <= MaxDepth
  BY <1>1, RoomForAction DEF HandleSignal, RunnerOK
<1>3. CASE /\ x.pending # <<>>
           /\ Become(r, RunTrap([x EXCEPT !.pending = Tail(@)], Head(x.pending), pendingFrom))
  <2> DEFINE z == [x EXCEPT !.pending = Tail(@)]
             y == RunTrap(z, Head(x.pending), pendingFrom)
  <2>1. Head(x.pending) \in Signals /\ Tail(x.pending) \in Seq(Signals)
    BY <1>1, <1>3 DEF States
  <2>2. /\ z \in States /\ z.stack = x.stack /\ z.inTrap = x.inTrap /\ z.exitFlag = x.exitFlag
        /\ z.trapStatus = x.trapStatus /\ z.traps = x.traps /\ z.inherited = x.inherited /\ z.forward = x.forward
    BY <1>1, <2>1 DEF States
  <2> HIDE DEF z
  <2>3. Becomes(z, y)
    BY <1>1, <1>2, <2>1, <2>2, RunTrapOK, Bounds DEF RunnerOK, Core
  <2>4. Becomes(x, y)
    BY <2>2, <2>3, BecomesFrom
  <2> QED BY <1>3, <2>4 DEF Moves, z
<1>4. CASE x.pending = <<>> /\ q # <<>> /\ Become(r, RunTrap(x, Head(q), from))
  <2>1. Becomes(x, RunTrap(x, Head(q), from))
    BY <1>1, <1>2, <1>4, RunTrapOK, Bounds DEF RunnerOK
  <2> QED BY <1>4, <2>1 DEF Moves
<1> QED BY <1>3, <1>4 DEF HandleSignal

LEMMA RoomInSubshell ==
    ASSUME NEW x, Core(x), InSubshell(x.stack)
    PROVE  Len(x.stack) <= MaxDepth
<1> DEFINE n == Len(x.stack)
<1>1. x.stack \in Seq(Frames) /\ \A i \in 1..n : FrameOK(x.stack, i)
  BY DEF Core, StackOK
<1>2. n \in 1..n /\ x.stack[n].kind = "subshell"
  BY <1>1 DEF InSubshell
<1> QED BY <1>1, <1>2 DEF FrameOK

LEMMA Places ==
    ASSUME NEW x, RunnerOK(x)
    PROVE  /\ \A from \in {"kill", "pending", "boundary", "late"} : Place(x.stack, from)
           /\ x.mode \in {"leaving", "drain"} =>
                  \A from \in {"lastpending", "leaving", "drain"} : Place(x.stack, from)
           /\ x.mode = "propagate" => Place(x.stack, "propagate")
  BY DEF RunnerOK, ModeOK, Place, Froms, LeaveFroms

LEMMA BoundaryMoves ==
    ASSUME TInv, NEW r \in Runners, Boundary(r)
    PROVE  Moves(r)
<1> DEFINE x == sh[r]
<1>1. RunnerOK(x) /\ x \in States
  BY SignalOf
<1>2. CASE Become(r, EndScript(x))
  BY <1>1, <1>2, EndScriptOK, Bounds DEF Moves, RunnerOK
<1>3. CASE HandleSignal(r, "pending", "boundary")
  BY <1>1, <1>3, HandleSignalMoves, Places
<1>4. CASE Become(r, [x EXCEPT !.mode = "command"])
  <2> DEFINE y == [x EXCEPT !.mode = "command"]
  <2>1. "command" \in Modes
    BY DEF Modes
  <2>2. /\ y \in States /\ y.stack = x.stack /\ y.inTrap = x.inTrap /\ y.trapStatus = x.trapStatus
        /\ y.traps = x.traps /\ y.inherited = x.inherited /\ y.forward = x.forward /\ y.exitFlag = x.exitFlag
        /\ y.mode = "command"
    BY <1>1, <2>1 DEF States
  <2> HIDE DEF y
  <2>3. Becomes(x, y)
    BY <1>1, <2>2, PlainStep
  <2> QED BY <1>4, <2>3 DEF Moves, y
<1> QED BY <1>2, <1>3, <1>4 DEF Boundary

LEMMA LateMoves ==
    ASSUME TInv, NEW r \in Runners, Late(r)
    PROVE  Moves(r)
<1>1. RunnerOK(sh[r]) /\ HandleSignal(r, "late", "late")
  BY SignalOf DEF Late
<1> QED BY <1>1, HandleSignalMoves, Places

LEMMA EndOfScriptMoves ==
    ASSUME TInv, NEW r \in Runners, EndOfScript(r)
    PROVE  Moves(r)
<1>1. RunnerOK(sh[r]) /\ Become(r, EndScript(sh[r]))
  BY SignalOf DEF EndOfScript
<1> QED BY <1>1, EndScriptOK, Bounds DEF Moves, RunnerOK

\* A command that ends with a status, after a change to other fields.
LEMMA DoneAfter ==
    ASSUME NEW x, RunnerOK(x), NEW z \in States, z.stack = x.stack, z.inTrap = x.inTrap,
           z.trapStatus = x.trapStatus, z.inherited = x.inherited /\ z.forward = x.forward, z.mode = x.mode,
           z.exitFlag = x.exitFlag, NEW status \in Statuses
    PROVE  /\ Becomes(z, Done(z, status)) /\ Sticks(x, Done(z, status))
           /\ z.traps = x.traps => Becomes(x, Done(z, status))
<1>1. RunnerOK(z)
  BY DEF RunnerOK, Core, ModeOK
<1>2. Becomes(z, Done(z, status))
  BY <1>1, DoneOK
<1>3. Sticks(x, Done(z, status))
  BY <1>2 DEF Becomes, Sticks
<1> QED BY <1>2, <1>3, BecomesFrom

LEMMA CommandMoves ==
    ASSUME TInv, NEW r \in Runners, Simple(r) \/ TrapExit(r) \/ Exit(r) \/ Foreground(r) \/ Wait(r)
    PROVE  Moves(r)
<1> DEFINE x == sh[r]
<1>1. RunnerOK(x) /\ x \in States
  BY SignalOf
<1>2. CASE Simple(r)
  <2>1. PICK c \in Codes : Become(r, Done(x, c))
    BY <1>2 DEF Simple
  <2> QED BY <1>1, <2>1, DoneOK, Statuses0 DEF Moves
<1>3. CASE TrapExit(r)
  <2>1. PICK a \in {"unset", "run"} : Become(r, Done([x EXCEPT !.exitTrap = a], 0))
    BY <1>3 DEF TrapExit
  <2> DEFINE z == [x EXCEPT !.exitTrap = a]
  <2>2. /\ z \in States /\ z.stack = x.stack /\ z.inTrap = x.inTrap /\ z.trapStatus = x.trapStatus
        /\ z.inherited = x.inherited /\ z.forward = x.forward /\ z.mode = x.mode /\ z.exitFlag = x.exitFlag
        /\ z.traps = x.traps
    BY <1>1 DEF States
  <2> HIDE DEF z
  <2>3. Becomes(x, Done(z, 0))
    BY <1>1, <2>2, DoneAfter, Statuses0
  <2> QED BY <2>1, <2>3 DEF Moves, z
<1>4. CASE Exit(r)
  <2>1. PICK c \in Codes \cup {IF x.inTrap THEN x.trapStatus ELSE x.lastStatus} :
           Become(r, [x EXCEPT !.exitFlag = TRUE, !.exitCode = c, !.mode = "boundary"])
    BY <1>4 DEF Exit
  <2> DEFINE y == [x EXCEPT !.exitFlag = TRUE, !.exitCode = c, !.mode = "boundary"]
  <2>2. c \in Statuses /\ "boundary" \in Modes
    BY <1>1, Statuses0 DEF States, Modes
  <2>3. /\ y \in States /\ y.stack = x.stack /\ y.inTrap = x.inTrap /\ y.trapStatus = x.trapStatus
        /\ y.traps = x.traps /\ y.inherited = x.inherited /\ y.forward = x.forward /\ y.exitFlag /\ y.mode = "boundary"
    BY <1>1, <2>2 DEF States
  <2> HIDE DEF y
  <2>4. Becomes(x, y)
    BY <1>1, <2>3, PlainStep
  <2> QED BY <2>1, <2>4 DEF Moves, y
<1>5. CASE Foreground(r)
  <2> DEFINE y == [x EXCEPT !.mode = "foreground"]
  <2>1. Become(r, y) /\ "foreground" \in Modes
    BY <1>5 DEF Foreground, Modes
  <2>2. /\ y \in States /\ y.stack = x.stack /\ y.inTrap = x.inTrap /\ y.trapStatus = x.trapStatus
        /\ y.traps = x.traps /\ y.inherited = x.inherited /\ y.forward = x.forward /\ y.exitFlag = x.exitFlag
        /\ y.mode = "foreground"
    BY <1>1, <2>1 DEF States
  <2> HIDE DEF y
  <2>3. Becomes(x, y)
    BY <1>1, <2>2, PlainStep
  <2> QED BY <2>1, <2>3 DEF Moves
<1>6. CASE Wait(r)
  <2> DEFINE y == [x EXCEPT !.mode = "wait", !.lastStatus = 0]
  <2>1. Become(r, y) /\ Len(x.stack) < MaxDepth /\ "wait" \in Modes
    BY <1>6 DEF Wait, Modes
  <2>2. /\ y \in States /\ y.stack = x.stack /\ y.inTrap = x.inTrap /\ y.trapStatus = x.trapStatus
        /\ y.traps = x.traps /\ y.inherited = x.inherited /\ y.forward = x.forward /\ y.exitFlag = x.exitFlag
        /\ y.mode = "wait"
    BY <1>1, <2>1, Statuses0 DEF States
  <2> HIDE DEF y
  <2>3. Becomes(x, y)
    BY <1>1, <2>1, <2>2, PlainStep
  <2> QED BY <2>1, <2>3 DEF Moves
<1> QED BY <1>2, <1>3, <1>4, <1>5, <1>6

LEMMA KillMoves ==
    ASSUME TInv, NEW r \in Runners, NEW s \in Signals, KillSelf(r, s) \/ KillJob(r, s)
    PROVE  Moves(r)
<1> DEFINE x == sh[r]
<1>1. RunnerOK(x) /\ x \in States
  BY SignalOf
<1>2. CASE Become(r, Done(x, 0))
  BY <1>1, <1>2, DoneOK, Statuses0 DEF Moves
<1>3. CASE Become(r, Done([x EXCEPT !.propagated = Append(@, s)], 0))
  <2> DEFINE z == [x EXCEPT !.propagated = Append(@, s)]
  <2>1. Append(x.propagated, s) \in Seq(Signals)
    BY <1>1 DEF States
  <2>2. /\ z \in States /\ z.stack = x.stack /\ z.inTrap = x.inTrap /\ z.trapStatus = x.trapStatus
        /\ z.inherited = x.inherited /\ z.forward = x.forward /\ z.mode = x.mode /\ z.exitFlag = x.exitFlag
        /\ z.traps = x.traps
    BY <1>1, <2>1 DEF States
  <2> HIDE DEF z
  <2>3. Becomes(x, Done(z, 0))
    BY <1>1, <2>2, DoneAfter, Statuses0
  <2> QED BY <1>3, <2>3 DEF Moves, z
<1>4. CASE /\ Len(x.stack) < MaxDepth \/ x.traps[s] # "run"
           /\ Become(r, RunTrap(x, s, "kill"))
  <2>1. x.stack \in Seq(Frames)
    BY <1>1 DEF States
  <2>2. x.traps[s] = "run" => Len(x.stack) <= MaxDepth
    BY <1>4, <2>1, Bounds
  <2>3. Core(x) /\ Place(x.stack, "kill") /\ MaxDepth \in Nat
    BY <1>1, Places, Bounds DEF RunnerOK
  <2>4. Becomes(x, RunTrap(x, s, "kill"))
    BY <2>2, <2>3, RunTrapOK
  <2> QED BY <1>4, <2>4 DEF Moves
<1>5. KillJob(r, s) => Become(r, Done(x, 0))
  BY DEF KillJob
<1>6. KillSelf(r, s) =>
        \/ Become(r, Done(x, 0))
        \/ Become(r, Done([x EXCEPT !.propagated = Append(@, s)], 0))
        \/ /\ Len(x.stack) < MaxDepth \/ x.traps[s] # "run"
           /\ Become(r, RunTrap(x, s, "kill"))
  BY DEF KillSelf
<1> QED BY <1>2, <1>3, <1>4, <1>5, <1>6

\* Other fields of a step that leaves the stack and the traps alone.
LEMMA SameCore ==
    ASSUME NEW x, RunnerOK(x), NEW z \in States, z.stack = x.stack, z.inTrap = x.inTrap,
           z.trapStatus = x.trapStatus
    PROVE  Core(z)
  BY DEF RunnerOK, Core

LEMMA InterruptedOK ==
    ASSUME NEW x, RunnerOK(x), x.mode = "foreground", NEW s \in Signals
    PROVE  Becomes(x, Interrupted(x, s))
<1>0. x \in States /\ "boundary" \in Modes /\ SignalExitStatus(s) \in Statuses
  BY Statuses0 DEF RunnerOK, Core, Modes
<1>1. CASE x.traps[s] = "empty"
  <2>1. Interrupted(x, s) = x
    BY <1>1 DEF Interrupted
  <2> QED BY <1>0, <2>1, PlainStep
<1>2. CASE x.traps[s] = "run"
  <2> DEFINE z == [x EXCEPT !.pending = Append(@, s)]
  <2>1. Interrupted(x, s) = Done(z, SignalExitStatus(s))
    BY <1>2 DEF Interrupted
  <2>2. Append(x.pending, s) \in Seq(Signals)
    BY <1>0 DEF States
  <2>3. /\ z \in States /\ z.stack = x.stack /\ z.inTrap = x.inTrap /\ z.trapStatus = x.trapStatus
        /\ z.inherited = x.inherited /\ z.forward = x.forward /\ z.mode = x.mode /\ z.exitFlag = x.exitFlag
        /\ z.traps = x.traps
    BY <1>0, <2>2 DEF States
  <2> HIDE DEF z
  <2> QED BY <1>0, <2>1, <2>3, DoneAfter
<1>3. CASE x.traps[s] \notin {"empty", "run"}
  <2> DEFINE y == [Die(x, s) EXCEPT !.mode = "boundary"]
  <2>1. Interrupted(x, s) = y
    BY <1>3 DEF Interrupted
  <2>2. /\ y \in States /\ y.stack = x.stack /\ y.inTrap = x.inTrap /\ y.trapStatus = x.trapStatus
        /\ y.inherited = x.inherited /\ y.forward = x.forward /\ y.mode = "boundary" /\ y.exitFlag /\ y.traps = x.traps
    BY <1>0 DEF States, Die
  <2> HIDE DEF y
  <2> QED BY <2>1, <2>2, PlainStep
<1> QED BY <1>1, <1>2, <1>3

\* The action of a trap in the middle of wait.
LEMMA WaitCallOK ==
    ASSUME NEW x, RunnerOK(x), x.mode = "wait", NEW s \in Signals
    PROVE  Becomes(x, [Push(x, "wait", "boundary", SignalExitStatus(s)) EXCEPT !.mode = "boundary"])
<1> DEFINE f == Frame(x, "wait", "boundary", SignalExitStatus(s))
           y == [Push(x, "wait", "boundary", SignalExitStatus(s)) EXCEPT !.mode = "boundary"]
<1>1. /\ x \in States /\ x.stack \in Seq(Frames) /\ x.inTrap \in BOOLEAN
      /\ StackOK(x.stack, x.inTrap, x.trapStatus) /\ Len(x.stack) < MaxDepth
  BY DEF RunnerOK, Core, ModeOK, States
<1>2. "boundary" \in Froms /\ "boundary" \in Modes /\ 0 \in Statuses
      /\ SignalExitStatus(s) \in Statuses /\ "wait" \notin ActionKinds
  BY Statuses0 DEF Froms, Modes, ActionKinds
<1>3. f \in Frames /\ f.kind = "wait"
  BY <1>1, <1>2 DEF Frame, Frames, States, TrapStates
<1> HIDE DEF f
<1>4. StackOK(Append(x.stack, f), x.inTrap, x.trapStatus)
  <2>1. Len(x.stack) \in Nat /\ Len(x.stack) <= MaxDepth
    BY <1>1, Bounds
  <2> QED BY <1>1, <1>2, <1>3, <2>1, PushOK, Bounds
<1>5. /\ y \in States /\ y.stack = Append(x.stack, f) /\ y.inTrap = x.inTrap
      /\ y.trapStatus = x.trapStatus /\ y.mode = "boundary" /\ ~y.exitFlag
      /\ y.traps = x.traps /\ y.inherited = x.inherited /\ y.forward = x.forward
  <2>1. Append(x.stack, f) \in Seq(Frames)
    BY <1>1, <1>3
  <2> QED BY <1>1, <1>2, <2>1 DEF Push, f, States
<1> HIDE DEF y
<1>6. RunnerOK(y)
  BY <1>4, <1>5 DEF RunnerOK, Core, ModeOK
<1>7. Alike(x, y)
  BY <1>1, <1>3, <1>5, DepthPush DEF Alike, Depth
<1>8. Sticks(x, y)
  BY <1>1, <1>3, <1>5, PushedSticks
<1> QED BY <1>5, <1>6, <1>7, <1>8 DEF Becomes, y

LEMMA EndMoves ==
    ASSUME TInv, NEW r \in Runners, ForegroundEnd(r) \/ WaitEnd(r)
    PROVE  Moves(r) \/ UNCHANGED sh
<1> DEFINE x == sh[r]
           q == queue[SignalCh(r)]
<1>1. RunnerOK(x) /\ x \in States /\ (q # <<>> => Head(q) \in Signals)
  BY SignalOf
<1>2. CASE ForegroundEnd(r)
  <2>1. CASE \E c \in Codes : Become(r, Done(x, c))
    <3>1. PICK c \in Codes : Become(r, Done(x, c))
      BY <2>1
    <3> QED BY <1>1, <3>1, DoneOK, Statuses0 DEF Moves
  <2>2. CASE q # <<>> /\ Become(r, Interrupted(x, Head(q)))
    <3>1. x.mode = "foreground"
      BY <1>2 DEF ForegroundEnd, At
    <3>2. Becomes(x, Interrupted(x, Head(q)))
      BY <1>1, <2>2, <3>1, InterruptedOK
    <3> QED BY <2>2, <3>2 DEF Moves
  <2> QED BY <1>2, <2>1, <2>2 DEF ForegroundEnd
<1>3. CASE WaitEnd(r)
  <2>0. x.mode = "wait"
    BY <1>3 DEF WaitEnd, At
  <2>1. ASSUME NEW c \in Codes, Become(r, [x EXCEPT !.lastStatus = c, !.mode = "boundary"])
        PROVE  Moves(r)
    <3> DEFINE y == [x EXCEPT !.lastStatus = c, !.mode = "boundary"]
    <3>1. c \in Statuses /\ "boundary" \in Modes
      BY Statuses0 DEF Modes
    <3>2. /\ y \in States /\ y.stack = x.stack /\ y.inTrap = x.inTrap /\ y.trapStatus = x.trapStatus
          /\ y.inherited = x.inherited /\ y.forward = x.forward /\ y.mode = "boundary" /\ y.exitFlag = x.exitFlag
          /\ y.traps = x.traps
      BY <1>1, <3>1 DEF States
    <3> HIDE DEF y
    <3>3. Becomes(x, y)
      BY <1>1, <3>2, PlainStep
    <3> QED BY <2>1, <3>3 DEF Moves, y
  <2>2. ASSUME q # <<>>,
               Become(r, [Push(x, "wait", "boundary", SignalExitStatus(Head(q)))
                            EXCEPT !.mode = "boundary"])
        PROVE  Moves(r)
    BY <1>1, <2>0, <2>2, WaitCallOK DEF Moves
  <2> QED BY <1>3, <2>1, <2>2 DEF WaitEnd
<1> QED BY <1>2, <1>3

LEMMA LeavingMoves ==
    ASSUME TInv, NEW r \in Runners,
           Leaving(r) \/ Drain(r) \/ SubshellExitTrap(r) \/ Propagate(r)
    PROVE  Moves(r)
<1> DEFINE x == sh[r]
           q == queue[SignalCh(r)]
<1>1. RunnerOK(x) /\ x \in States /\ (q # <<>> => Head(q) \in Signals)
  BY SignalOf
<1>2. ASSUME NEW mode \in {"drain", "exittrap", "leave"}, InSubshell(x.stack),
             Become(r, [x EXCEPT !.mode = mode])
      PROVE  Moves(r)
  <2> DEFINE y == [x EXCEPT !.mode = mode]
  <2>1. mode \in Modes
    BY DEF Modes
  <2>2. /\ y \in States /\ y.stack = x.stack /\ y.inTrap = x.inTrap /\ y.trapStatus = x.trapStatus
        /\ y.inherited = x.inherited /\ y.forward = x.forward /\ y.mode = mode /\ y.exitFlag = x.exitFlag
        /\ y.traps = x.traps
    BY <1>1, <2>1 DEF States
  <2> HIDE DEF y
  <2>3. Becomes(x, y)
    BY <1>1, <1>2, <2>2, PlainStep
  <2> QED BY <1>2, <2>3 DEF Moves, y
<1>3. CASE Leaving(r)
  <2>1. x.mode = "leaving" /\ InSubshell(x.stack)
    BY <1>1, <1>3 DEF Leaving, At, RunnerOK, ModeOK
  <2>2. CASE HandleSignal(r, "lastpending", "leaving")
    BY <1>1, <2>1, <2>2, HandleSignalMoves, Places
  <2>3. CASE Become(r, [x EXCEPT !.mode = "drain"])
    BY <1>2, <2>1, <2>3
  <2> QED BY <1>3, <2>2, <2>3 DEF Leaving
<1>4. CASE Drain(r)
  <2>1. x.mode = "drain" /\ InSubshell(x.stack)
    BY <1>1, <1>4 DEF Drain, At, RunnerOK, ModeOK
  <2>2. CASE q # <<>> /\ Become(r, RunTrap(x, Head(q), "drain"))
    <3>1. Core(x) /\ Place(x.stack, "drain") /\ Len(x.stack) <= MaxDepth
      BY <1>1, <2>1, Places, RoomInSubshell DEF RunnerOK
    <3>2. Becomes(x, RunTrap(x, Head(q), "drain"))
      BY <1>1, <2>2, <3>1, RunTrapOK, Bounds
    <3> QED BY <2>2, <3>2 DEF Moves
  <2>3. CASE Become(r, [x EXCEPT !.mode = "exittrap"])
    BY <1>2, <2>1, <2>3
  <2> QED BY <1>4, <2>2, <2>3 DEF Drain
<1>5. CASE SubshellExitTrap(r)
  <2>1. x.mode = "exittrap" /\ InSubshell(x.stack)
    BY <1>1, <1>5 DEF SubshellExitTrap, At, RunnerOK, ModeOK
  <2> DEFINE z == [x EXCEPT !.lastStatus = IF x.exitFlag THEN x.exitCode ELSE x.code]
             y == Call(z, "subexit", "leave")
  <2>2. CASE Become(r, y)
    <3>1. /\ z \in States /\ z.stack = x.stack /\ z.inTrap = x.inTrap
          /\ z.trapStatus = x.trapStatus /\ z.inherited = x.inherited /\ z.forward = x.forward
          /\ z.exitFlag = x.exitFlag /\ z.traps = x.traps
      BY <1>1 DEF States
    <3> HIDE DEF z
    <3>2. Core(z) /\ InSubshell(z.stack) /\ Len(z.stack) <= MaxDepth
      BY <1>1, <2>1, <3>1, SameCore, RoomInSubshell
    <3>3. Becomes(z, y)
      <4>1. "subexit" \in ActionKinds
        BY DEF ActionKinds
      <4> QED BY <3>2, <4>1, CallOK, Bounds
    <3> HIDE DEF y
    <3>4. Becomes(x, y)
      BY <3>1, <3>3, BecomesFrom
    <3> QED BY <2>2, <3>4 DEF Moves
  <2>3. CASE Become(r, [x EXCEPT !.mode = "leave"])
    BY <1>2, <2>1, <2>3
  <2> QED BY <1>5, <2>2, <2>3 DEF SubshellExitTrap
<1>6. CASE Propagate(r)
  <2>1. x.mode = "propagate" /\ Len(x.stack) < MaxDepth
    BY <1>1, <1>6 DEF Propagate, At, RunnerOK, ModeOK
  <2>2. CASE Become(r, [Done(x, x.code) EXCEPT !.code = 0])
    <3> DEFINE y == [Done(x, x.code) EXCEPT !.code = 0]
    <3>1. "boundary" \in Modes /\ 0 \in Statuses
      BY Statuses0 DEF Modes
    <3>2. /\ y \in States /\ y.stack = x.stack /\ y.inTrap = x.inTrap
          /\ y.trapStatus = x.trapStatus /\ y.inherited = x.inherited /\ y.forward = x.forward /\ y.mode = "boundary"
          /\ y.exitFlag = x.exitFlag /\ y.traps = x.traps
      BY <1>1, <3>1 DEF States, Done
    <3> HIDE DEF y
    <3>3. Becomes(x, y)
      BY <1>1, <3>2, PlainStep
    <3> QED BY <2>2, <3>3 DEF Moves, y
  <2> DEFINE z == [x EXCEPT !.replay = Tail(@), !.lastStatus = x.code]
             y == RunTrap(z, Head(x.replay), "propagate")
  <2>3. CASE x.replay # <<>> /\ Become(r, y)
    <3>1. Head(x.replay) \in Signals /\ Tail(x.replay) \in Seq(Signals)
      BY <1>1, <2>3 DEF States
    <3>2. /\ z \in States /\ z.stack = x.stack /\ z.inTrap = x.inTrap
          /\ z.trapStatus = x.trapStatus /\ z.inherited = x.inherited /\ z.forward = x.forward
          /\ z.exitFlag = x.exitFlag /\ z.traps = x.traps
      BY <1>1, <3>1 DEF States
    <3> HIDE DEF z
    <3>3. Core(z) /\ Place(z.stack, "propagate") /\ Len(z.stack) <= MaxDepth
      <4>1. Len(x.stack) \in Nat
        BY <1>1 DEF States
      <4> QED BY <1>1, <2>1, <3>2, <4>1, SameCore, Places, Bounds
    <3>4. Becomes(z, y)
      BY <3>1, <3>3, RunTrapOK, Bounds
    <3> HIDE DEF y
    <3>5. Becomes(x, y)
      BY <3>2, <3>4, BecomesFrom
    <3> QED BY <2>3, <3>5 DEF Moves
  <2> QED BY <1>6, <2>2, <2>3 DEF Propagate
<1> QED BY <1>3, <1>4, <1>5, <1>6

-----------------------------------------------------------------------------
(* What every step does to the runners.                                     *)

Advances ==
    /\ sh' \in [Runners -> States]
    /\ \A q \in Runners : RunnerOK(sh'[q]) /\ Sticks(sh[q], sh'[q])

LEMMA BecomeAdvances ==
    ASSUME TInv, NEW r \in Runners, NEW y, Become(r, y), RunnerOK(y), Sticks(sh[r], y)
    PROVE  Advances
<1>1. sh \in [Runners -> States] /\ \A q \in Runners : RunnerOK(sh[q])
  BY DEF TInv, RunnersOK
<1>2. y \in States /\ sh' = [sh EXCEPT ![r] = y]
  BY DEF RunnerOK, Core, Become
<1>3. sh' \in [Runners -> States] /\ sh'[r] = y /\ \A q \in Runners \ {r} : sh'[q] = sh[q]
  BY <1>1, <1>2
<1>4. \A q \in Runners : Sticks(sh[q], sh[q])
  BY <1>1, SameStackSticks DEF States
<1> QED BY <1>1, <1>3, <1>4 DEF Advances

LEMMA MovesAdvance ==
    ASSUME TInv, NEW r \in Runners, Moves(r)
    PROVE  Advances
  BY BecomeAdvances DEF Moves, Becomes

LEMMA IdleAdvances ==
    ASSUME TInv, UNCHANGED sh
    PROVE  Advances
<1>1. sh \in [Runners -> States] /\ \A q \in Runners : RunnerOK(sh[q])
  BY DEF TInv, RunnersOK
<1>2. \A q \in Runners : Sticks(sh[q], sh[q])
  BY <1>1, SameStackSticks DEF States
<1> QED BY <1>1, <1>2 DEF Advances

\* trap: the handlers of the process come later.
LEMMA TrapAdvances ==
    ASSUME TInv, NEW r \in Runners, Trap(r)
    PROVE  Advances
<1> DEFINE x == sh[r]
<1>1. RunnerOK(x) /\ x \in States
  BY SignalOf
<1>2. PICK s \in Signals, a \in {"unset", "empty", "run"} :
         Become(r, Done([x EXCEPT !.traps[s] = a], 0))
  BY DEF Trap
<1> DEFINE z == [x EXCEPT !.traps[s] = a]
<1>3. /\ z \in States /\ z.stack = x.stack /\ z.inTrap = x.inTrap /\ z.trapStatus = x.trapStatus
      /\ z.inherited = x.inherited /\ z.forward = x.forward /\ z.mode = x.mode /\ z.exitFlag = x.exitFlag
  BY <1>1 DEF States, TrapStates
<1> HIDE DEF z
<1>4. Becomes(z, Done(z, 0)) /\ Sticks(x, Done(z, 0))
  BY <1>1, <1>3, DoneAfter, Statuses0
<1> QED BY <1>2, <1>4, BecomeAdvances DEF Becomes, z

LEMMA NewRunnerOK ==
    ASSUME NEW y \in States, y.stack = <<>>, y.inTrap = FALSE, y.mode \in {"none", "boundary"},
           y.exitFlag = FALSE
    PROVE  RunnerOK(y)
<1>1. StackOK(y.stack, FALSE, y.trapStatus)
  BY DEF StackOK, Knows, States
<1> QED BY <1>1 DEF RunnerOK, Core, ModeOK

LEMMA SubshellTrapsType ==
    ASSUME NEW traps
    PROVE  SubshellTraps(traps) \in [Signals -> TrapStates]
  BY DEF SubshellTraps, TrapStates

LEMMA StartJobAdvances ==
    ASSUME TInv, NEW r \in Runners, StartJob(r)
    PROVE  Advances
<1> DEFINE x == sh[r]
<1>1. RunnerOK(x) /\ x \in States /\ SignalCh(r) \in Channels
  BY SignalOf
<1>2. sh \in [Runners -> States] /\ \A q \in Runners : RunnerOK(sh[q])
  BY DEF TInv, RunnersOK
<1>3. PICK j \in Jobs :
         /\ sh[j].mode = "none"
         /\ sh' = [sh EXCEPT ![r] = Done(@, 0),
                             ![j] = Runner("boundary", SubshellTraps(sh[r].traps),
                                           ForwardTo(r), FALSE)]
  BY DEF StartJob
<1> DEFINE y == Runner("boundary", SubshellTraps(sh[r].traps), ForwardTo(r), FALSE)
<1>4. j \in Runners /\ x.mode \in {"command", "late"} /\ j # r
  BY <1>3 DEF Runners, StartJob, Ready, At
<1>5. RunnerOK(y) /\ y \in States /\ y.stack = <<>>
  <2>1. /\ SubshellTraps(sh[r].traps) \in [Signals -> TrapStates]
        /\ ForwardTo(r) \in Channels /\ 0 \in Statuses /\ "boundary" \in Modes
        /\ <<>> \in Seq(Frames) /\ <<>> \in Seq(Signals)
    BY <1>1, SubshellTrapsType, Statuses0 DEF ForwardTo, Modes
  <2>2. /\ y \in States /\ y.stack = <<>> /\ y.inTrap = FALSE /\ y.mode = "boundary"
        /\ y.exitFlag = FALSE
    BY <2>1 DEF Runner, States
  <2> QED BY <2>2, NewRunnerOK
<1>6. Becomes(x, Done(x, 0))
  BY <1>1, DoneOK, Statuses0
<1> HIDE DEF y
<1>7. Done(x, 0) \in States
  BY <1>6 DEF Becomes, RunnerOK, Core
<1>8. /\ sh' \in [Runners -> States] /\ sh'[j] = y /\ sh'[r] = Done(x, 0)
      /\ \A q \in Runners \ {r, j} : sh'[q] = sh[q]
  BY <1>2, <1>3, <1>4, <1>5, <1>7 DEF y
<1>9. Sticks(sh[j], y)
  <2>1. sh[j].stack = <<>> /\ ~sh[j].exitFlag
    BY <1>2, <1>3, <1>4 DEF RunnerOK, ModeOK
  <2> QED BY <2>1 DEF Sticks
<1>10. \A q \in Runners : Sticks(sh[q], sh[q])
  BY <1>2, SameStackSticks DEF States
<1> QED BY <1>2, <1>5, <1>6, <1>8, <1>9, <1>10 DEF Advances, Becomes

\* runSubshell saves the shell around it.
LEMMA SubshellAdvances ==
    ASSUME TInv, NEW r \in Runners, Subshell(r)
    PROVE  Advances
<1> DEFINE x == sh[r]
           f == Frame(x, "subshell", "apply", 0)
           T == {s \in Signals : x.traps[s] = "run"}
           y == [Push(x, "subshell", "apply", 0) EXCEPT
                    !.traps = SubshellTraps(@), !.exitTrap = "unset", !.inherited = T,
                    !.propagated = <<>>, !.pending = <<>>, !.forward = NoChannel,
                    !.lastStatus = 0, !.todo = Signals, !.mode = "enter"]
<1>1. /\ RunnerOK(x) /\ x \in States /\ x.stack \in Seq(Frames) /\ x.inTrap \in BOOLEAN
      /\ StackOK(x.stack, x.inTrap, x.trapStatus)
  BY SignalOf DEF RunnerOK, Core, States
<1>2. Become(r, y) /\ Len(x.stack) < MaxDepth
  BY DEF Subshell
<1>3. f \in Frames /\ f.kind = "subshell"
  <2>1. "apply" \in Froms /\ 0 \in Statuses
    BY Statuses0 DEF Froms
  <2> QED BY <1>1, <2>1 DEF Frame, Frames, States, TrapStates
<1>4. /\ y \in States /\ y.stack = Append(x.stack, f) /\ y.inTrap = x.inTrap
      /\ y.trapStatus = x.trapStatus /\ y.mode = "enter"
  <2>1. /\ Append(x.stack, f) \in Seq(Frames) /\ T \in SUBSET Signals /\ "enter" \in Modes
        /\ 0 \in Statuses /\ <<>> \in Seq(Signals) /\ Signals \in SUBSET Signals
    BY <1>1, <1>3, Statuses0 DEF Modes
  <2> HIDE DEF T
  <2> QED BY <1>1, <2>1, SubshellTrapsType DEF Push, f, States
<1> HIDE DEF f, y
<1>5. StackOK(Append(x.stack, f), x.inTrap, x.trapStatus)
  <2>1. Len(x.stack) \in Nat /\ Len(x.stack) <= MaxDepth
    BY <1>1, <1>2, Bounds
  <2>2. "subshell" \notin ActionKinds
    BY DEF ActionKinds
  <2> QED BY <1>1, <1>2, <1>3, <2>1, <2>2, PushOK, Bounds
<1>6. RunnerOK(y)
  BY <1>4, <1>5 DEF RunnerOK, Core, ModeOK
<1>7. Sticks(x, y)
  BY <1>1, <1>3, <1>4, PushedSticks
<1> QED BY <1>2, <1>6, <1>7, BecomeAdvances

LEMMA ApplyAdvances ==
    ASSUME TInv, NEW r \in Runners, Apply(r)
    PROVE  Advances
<1> DEFINE x == sh[r]
<1>1. /\ RunnerOK(x) /\ x \in States /\ x.stack \in Seq(Frames)
      /\ x.mode \in {"enter", "restore"}
  BY SignalOf DEF States, Apply, At
<1>2. ASSUME NEW s \in x.todo, Become(r, [x EXCEPT !.todo = @ \ {s}])
      PROVE  Advances
  <2> DEFINE y == [x EXCEPT !.todo = @ \ {s}]
  <2>1. /\ y \in States /\ y.stack = x.stack /\ y.inTrap = x.inTrap /\ y.trapStatus = x.trapStatus
        /\ y.mode = x.mode /\ y.exitFlag = x.exitFlag
    BY <1>1 DEF States
  <2> HIDE DEF y
  <2>2. RunnerOK(y)
    BY <1>1, <2>1 DEF RunnerOK, Core, ModeOK
  <2>3. Sticks(x, y)
    BY <1>1, <2>1, SameStackSticks
  <2> QED BY <1>2, <2>2, <2>3, BecomeAdvances DEF y
<1>3. ASSUME Become(r, [x EXCEPT !.mode = IF @ = "enter" THEN "boundary" ELSE "propagate"])
      PROVE  Advances
  <2> DEFINE y == [x EXCEPT !.mode = IF @ = "enter" THEN "boundary" ELSE "propagate"]
  <2>1. /\ y \in States /\ y.stack = x.stack /\ y.inTrap = x.inTrap /\ y.trapStatus = x.trapStatus
        /\ y.mode = "boundary" \/ (y.mode = "propagate" /\ x.mode = "restore")
        /\ y.exitFlag = x.exitFlag
    BY <1>1 DEF States, Modes
  <2> HIDE DEF y
  <2>2. RunnerOK(y)
    BY <1>1, <2>1 DEF RunnerOK, Core, ModeOK
  <2>3. Sticks(x, y)
    BY <1>1, <2>1, SameStackSticks
  <2> QED BY <1>3, <2>2, <2>3, BecomeAdvances DEF y
<1> QED BY <1>2, <1>3 DEF Apply

\* runSubshell puts back what it has saved.
LEMMA LeaveAdvances ==
    ASSUME TInv, NEW r \in Runners, Leave(r)
    PROVE  Advances
<1> DEFINE x == sh[r]
           f == Top(x)
           p == Pop(x)
           Lost(c) == IF c = SignalCh(r) THEN LostChannel ELSE c
           y == [p EXCEPT !.traps = f.traps, !.exitTrap = f.exitTrap,
                          !.pending = f.pending, !.lastStatus = f.entry,
                          !.exitFlag = f.exitFlag, !.exitCode = f.exitCode,
                          !.inherited = {}, !.forward = NoChannel,
                          !.propagated = <<>>, !.replay = x.propagated,
                          !.todo = Signals, !.mode = "restore"]
           Other(q) == [sh[q] EXCEPT !.forward = Lost(@), !.starter = Lost(@)]
<1>1. sh \in [Runners -> States] /\ \A q \in Runners : RunnerOK(sh[q])
  BY DEF TInv, RunnersOK
<1>2. RunnerOK(x) /\ x \in States /\ x.stack \in Seq(Frames) /\ InSubshell(x.stack)
  BY <1>1 DEF States, Leave, At, RunnerOK, ModeOK
<1>3. sh' = [q \in Runners |-> IF q = r THEN y ELSE Other(q)]
  BY DEF Leave
<1>4. f.kind = "subshell" /\ "subshell" \notin ActionKinds /\ x.stack # <<>> /\ f = Last(x.stack)
  BY <1>2 DEF InSubshell, Top, Last, ActionKinds
<1>5. /\ f \in Frames /\ Core(p) /\ Len(Front(x.stack)) < MaxDepth
  <2>1. RestoreTrap(p, f).stack = Front(x.stack)
    BY <1>2, <1>4, PopsOK, Bounds DEF RunnerOK
  <2> QED BY <1>2, <1>4, <2>1, PopsOK, Bounds DEF RunnerOK
<1>6. p.stack = Front(x.stack)
  BY <1>2 DEF Pop, States
<1>7. /\ y \in States /\ y.stack = p.stack /\ y.inTrap = p.inTrap /\ y.trapStatus = p.trapStatus
      /\ y.mode = "restore" /\ y.exitFlag = f.exitFlag
  <2>1. /\ f.traps \in [Signals -> TrapStates] /\ f.exitTrap \in {"unset", "run"}
        /\ f.pending \in Seq(Signals) /\ f.entry \in Statuses /\ f.exitFlag \in BOOLEAN
        /\ f.exitCode \in Statuses
    BY <1>5 DEF Frames
  <2>2. "restore" \in Modes /\ <<>> \in Seq(Signals) /\ x.propagated \in Seq(Signals)
        /\ p \in States
    BY <1>2, <1>5 DEF Modes, States, Core
  <2> HIDE DEF f, p
  <2> QED BY <2>1, <2>2 DEF States
<1>8. ASSUME NEW q \in Runners \ {r}
      PROVE  Other(q) \in States /\ RunnerOK(Other(q)) /\ Sticks(sh[q], Other(q))
  <2> DEFINE z == Other(q)
  <2>1. sh[q] \in States /\ RunnerOK(sh[q])
    BY <1>1
  <2>2. /\ z \in States /\ z.stack = sh[q].stack /\ z.inTrap = sh[q].inTrap
        /\ z.trapStatus = sh[q].trapStatus /\ z.mode = sh[q].mode
        /\ z.exitFlag = sh[q].exitFlag
    BY <2>1 DEF States
  <2> HIDE DEF z
  <2>3. RunnerOK(z)
    BY <2>1, <2>2 DEF RunnerOK, Core, ModeOK
  <2>4. sh[q].stack \in Seq(Frames)
    BY <2>1 DEF States
  <2>5. Sticks(sh[q], z)
    BY <2>2, <2>4, SameStackSticks
  <2> QED BY <2>2, <2>3, <2>5 DEF z
<1> HIDE DEF y, p, Other
<1>9. RunnerOK(y)
  BY <1>5, <1>6, <1>7 DEF RunnerOK, Core, ModeOK
<1>10. Sticks(x, y)
  BY <1>2, <1>4, <1>6, <1>7, PoppedSticks
<1>11. sh' \in [Runners -> States] /\ sh'[r] = y /\ \A q \in Runners \ {r} : sh'[q] = Other(q)
  BY <1>3, <1>7, <1>8
<1> QED BY <1>8, <1>9, <1>10, <1>11 DEF Advances

LEMMA StepAdvances ==
    ASSUME TInv, NEW r \in Runners, Step(r)
    PROVE  Advances
<1>1. CASE Boundary(r) \/ Late(r) \/ EndOfScript(r)
  BY <1>1, BoundaryMoves, LateMoves, EndOfScriptMoves, MovesAdvance
<1>2. CASE Simple(r) \/ TrapExit(r) \/ Exit(r) \/ Foreground(r) \/ Wait(r)
  BY <1>2, CommandMoves, MovesAdvance
<1>3. CASE \E s \in Signals : KillSelf(r, s) \/ KillJob(r, s)
  BY <1>3, KillMoves, MovesAdvance
<1>4. CASE ForegroundEnd(r) \/ WaitEnd(r)
  BY <1>4, EndMoves, MovesAdvance, IdleAdvances
<1>5. CASE Leaving(r) \/ Drain(r) \/ SubshellExitTrap(r) \/ Propagate(r)
  BY <1>5, LeavingMoves, MovesAdvance
<1>6. CASE Trap(r) \/ StartJob(r) \/ Subshell(r) \/ Apply(r) \/ Leave(r)
  BY <1>6, TrapAdvances, StartJobAdvances, SubshellAdvances, ApplyAdvances, LeaveAdvances
<1> QED BY <1>1, <1>2, <1>3, <1>4, <1>5, <1>6 DEF Step, Command

LEMMA NextAdvances ==
    ASSUME TInv, [Next]_vars
    PROVE  Advances
<1>1. ASSUME NEW r \in Runners, Step(r) PROVE Advances
  BY <1>1, StepAdvances
<1>2. CASE UNCHANGED sh
  BY <1>2, IdleAdvances
<1>3. ASSUME NEW s \in Signals, Deliver(s) PROVE UNCHANGED sh
  BY <1>3 DEF Deliver
<1> QED BY <1>1, <1>2, <1>3 DEF Next, ExitProcess, Stopped, vars

-----------------------------------------------------------------------------
(* Channels and dispositions.                                               *)

LEMMA OfferOK ==
    ASSUME NEW q \in Seq(Signals), Len(q) <= ChanCap, NEW s \in Signals
    PROVE  Offer(q, s) \in Seq(Signals) /\ Len(Offer(q, s)) <= ChanCap
<1>1. CASE Len(q) < ChanCap
  <2>1. Append(q, s) \in Seq(Signals) /\ Len(Append(q, s)) = Len(q) + 1
    BY AppendProperties
  <2> QED BY <1>1, <2>1, Bounds DEF Offer
<1>2. CASE ~(Len(q) < ChanCap)
  BY <1>2 DEF Offer
<1> QED BY <1>1, <1>2

LEMMA TakeOK ==
    ASSUME TInv, NEW r \in Runners, Take(r), queue[SignalCh(r)] # <<>>
    PROVE  QueuesOK'
<1> DEFINE q == queue[SignalCh(r)]
<1>1. /\ queue \in [Channels -> Seq(Signals)] /\ \A c \in Channels : Len(queue[c]) <= ChanCap
      /\ SignalCh(r) \in Channels
  BY SignalOf DEF TInv, QueuesOK
<1>2. q \in Seq(Signals) /\ q # <<>> /\ Len(q) <= ChanCap
  BY <1>1
<1>3. Tail(q) \in Seq(Signals) /\ Len(Tail(q)) <= ChanCap
  BY <1>2, Bounds
<1>4. queue' = [queue EXCEPT ![SignalCh(r)] = Tail(q)]
  BY DEF Take
<1> HIDE DEF q
<1> QED BY <1>1, <1>3, <1>4 DEF QueuesOK

\* Something is offered to some channels.
LEMMA OffersOK ==
    ASSUME TInv, NEW s \in Signals, NEW C,
           queue' = [c \in Channels |-> IF c \in C THEN Offer(queue[c], s) ELSE queue[c]]
    PROVE  QueuesOK'
  BY OfferOK DEF TInv, QueuesOK

LEMMA StepQueues ==
    ASSUME TInv, NEW r \in Runners, Step(r)
    PROVE  QueuesOK'
<1>0. QueuesOK /\ SignalCh(r) \in Channels
  BY SignalOf DEF TInv
<1>1. CASE UNCHANGED queue
  BY <1>0, <1>1 DEF QueuesOK
<1>2. CASE Take(r) /\ queue[SignalCh(r)] # <<>>
  BY <1>2, TakeOK
<1>3. ASSUME NEW s \in Signals, KillSelf(r, s)
      PROVE  QueuesOK'
  <2>1. CASE UNCHANGED queue
    BY <1>1, <2>1
  <2>2. CASE queue' = [c \in Channels |-> IF c = sh[r].forward THEN Offer(queue[c], s) ELSE queue[c]]
    BY <2>2, OfferOK DEF TInv, QueuesOK
  <2> QED BY <1>3, <2>1, <2>2 DEF KillSelf
<1>4. ASSUME NEW s \in Signals, KillJob(r, s)
      PROVE  QueuesOK'
  <2>1. PICK j \in Jobs : queue' = [queue EXCEPT ![SignalCh(j)] = Offer(@, s)]
    BY <1>4 DEF KillJob
  <2>2. j \in Runners
    BY DEF Runners
  <2>3. SignalCh(j) \in Channels
    BY <2>2, SignalOf
  <2>4. queue[SignalCh(j)] \in Seq(Signals) /\ Len(queue[SignalCh(j)]) <= ChanCap
    BY <1>0, <2>3 DEF QueuesOK
  <2>5. Offer(queue[SignalCh(j)], s) \in Seq(Signals) /\ Len(Offer(queue[SignalCh(j)], s)) <= ChanCap
    BY <2>4, OfferOK
  <2> QED BY <1>0, <2>1, <2>3, <2>5 DEF QueuesOK
<1>5. CASE queue' = [queue EXCEPT ![SignalCh(r)] = <<>>]
  BY <1>0, <1>5, Bounds DEF QueuesOK
<1>6. HandleSignal(r, "pending", "boundary") \/ HandleSignal(r, "late", "late")
        \/ HandleSignal(r, "lastpending", "leaving")
      => UNCHANGED queue \/ (Take(r) /\ queue[SignalCh(r)] # <<>>)
  BY DEF HandleSignal
<1>7. Boundary(r) \/ Late(r) \/ Leaving(r) => QueuesOK'
  BY <1>1, <1>2, <1>6 DEF Boundary, Late, Leaving
<1>8. ForegroundEnd(r) \/ WaitEnd(r) \/ Drain(r) => QueuesOK'
  BY <1>1, <1>2 DEF ForegroundEnd, WaitEnd, Drain
<1>9. Leave(r) => QueuesOK'
  BY <1>5 DEF Leave
<1>10. EndOfScript(r) \/ Simple(r) \/ Trap(r) \/ TrapExit(r) \/ Exit(r) \/ Foreground(r) \/ Wait(r)
         \/ Subshell(r) \/ StartJob(r) \/ Apply(r) \/ SubshellExitTrap(r) \/ Propagate(r)
       => UNCHANGED queue
  BY DEF EndOfScript, Simple, Trap, TrapExit, Exit, Foreground, Wait, Subshell, StartJob, Apply,
         SubshellExitTrap, Propagate
<1> QED BY <1>1, <1>3, <1>4, <1>7, <1>8, <1>9, <1>10 DEF Step, Command

\* What a runner may do to the dispositions of the process.
Disposes(r) ==
    /\ UNCHANGED <<process, notices>>
    /\ \/ UNCHANGED <<ignored, subscribers>>
       \/ \E s \in Signals : Notify(SignalCh(r), s) \/ Ignore(s) \/ Reset(s)
       \/ Stop(SignalCh(r))

LEMMA StepDisposes ==
    ASSUME TInv, NEW r \in Runners, Step(r)
    PROVE  Disposes(r)
<1>1. Trap(r) => Disposes(r)
  BY DEF Trap, Disposes
<1>2. Subshell(r) \/ Leave(r) => Disposes(r)
  BY DEF Subshell, Leave, Disposes
<1>3. Apply(r) => Disposes(r)
  <2> SUFFICES ASSUME Apply(r) PROVE Disposes(r)
    OBVIOUS
  <2>1. sh[r].todo \in SUBSET Signals
    BY SignalOf DEF States
  <2> QED BY <2>1 DEF Apply, Disposes
<1>4. Boundary(r) \/ Late(r) \/ EndOfScript(r) \/ Simple(r) \/ TrapExit(r) \/ Exit(r)
        \/ (\E s \in Signals : KillSelf(r, s) \/ KillJob(r, s))
        \/ Foreground(r) \/ Wait(r) \/ StartJob(r) \/ ForegroundEnd(r) \/ WaitEnd(r)
        \/ Leaving(r) \/ Drain(r) \/ SubshellExitTrap(r) \/ Propagate(r)
      => UNCHANGED procvars
  BY DEF Boundary, Late, EndOfScript, Simple, TrapExit, Exit, KillSelf, KillJob, Foreground, Wait,
         StartJob, ForegroundEnd, WaitEnd, Leaving, Drain, SubshellExitTrap, Propagate
<1>5. UNCHANGED procvars => Disposes(r)
  BY DEF procvars, Disposes
<1> QED BY <1>1, <1>2, <1>3, <1>4, <1>5 DEF Step, Command

LEMMA StepProcess ==
    ASSUME TInv, NEW r \in Runners, Step(r)
    PROVE  ProcessOK'
<1>1. ProcessOK /\ Disposes(r) /\ SignalCh(r) \in Channels
  BY StepDisposes, SignalOf DEF TInv
<1>2. CASE UNCHANGED <<ignored, subscribers>>
  BY <1>1, <1>2 DEF ProcessOK, Disposes
<1>3. ASSUME NEW s \in Signals, Notify(SignalCh(r), s) \/ Ignore(s) \/ Reset(s)
      PROVE  ProcessOK'
  BY <1>1, <1>3 DEF ProcessOK, Disposes, Notify, Ignore, Reset
<1>4. CASE Stop(SignalCh(r))
  BY <1>1, <1>4 DEF ProcessOK, Disposes, Stop
<1> QED BY <1>1, <1>2, <1>3, <1>4 DEF Disposes

-----------------------------------------------------------------------------
(* The theorems.                                                            *)

LEMMA InitTypes == Init => TInv
<1> SUFFICES ASSUME Init PROVE TInv
  OBVIOUS
<1>1. ProcessOK
  <2>1. <<Main, 0>> \in Channels
    BY Bounds DEF Channels, Runners
  <2> QED BY <2>1, Bounds, SignalsAssumption DEF Init, ProcessOK
<1>2. QueuesOK
  BY Bounds DEF Init, QueuesOK
<1>3. ASSUME NEW r \in Runners
      PROVE  sh[r] \in States /\ RunnerOK(sh[r])
  <2>1. /\ NoTraps \in [Signals -> TrapStates] /\ 0 \in Statuses
        /\ "boundary" \in Modes /\ "none" \in Modes
        /\ <<>> \in Seq(Frames) /\ <<>> \in Seq(Signals)
    BY Statuses0 DEF NoTraps, TrapStates, Modes
  <2>2. /\ sh[r] \in States /\ sh[r].stack = <<>> /\ sh[r].inTrap = FALSE
        /\ sh[r].mode \in {"boundary", "none"} /\ sh[r].exitFlag = FALSE
    <3>1. sh[r] = Runner(IF r = Main THEN "boundary" ELSE "none", NoTraps, NoChannel, r = Main)
      BY DEF Init
    <3> QED BY <2>1, <3>1 DEF Runner, States
  <2> QED BY <2>2, NewRunnerOK
<1>4. sh \in [Runners -> States]
  BY <1>3 DEF Init
<1> QED BY <1>1, <1>2, <1>3, <1>4 DEF TInv, RunnersOK

LEMMA NextTypes ==
    ASSUME TInv, [Next]_vars
    PROVE  TInv'
<1>1. RunnersOK'
  BY NextAdvances DEF Advances, RunnersOK
<1>2. ASSUME NEW r \in Runners, Step(r)
      PROVE  ProcessOK' /\ QueuesOK'
  BY <1>2, StepProcess, StepQueues
<1>3. ASSUME ExitProcess
      PROVE  ProcessOK' /\ QueuesOK'
  BY <1>3 DEF ExitProcess, TInv, ProcessOK, QueuesOK
<1>4. ASSUME NEW s \in Signals, Deliver(s)
      PROVE  ProcessOK' /\ QueuesOK'
  <2>1. ProcessOK'
    BY <1>4, Bounds DEF TInv, ProcessOK, Deliver
  <2>2. queue' = [c \in Channels |-> IF c \in subscribers[s] THEN Offer(queue[c], s) ELSE queue[c]]
    BY <1>4 DEF Deliver
  <2> QED BY <2>1, <2>2, OffersOK
<1>5. ASSUME UNCHANGED vars
      PROVE  ProcessOK' /\ QueuesOK'
  BY <1>5 DEF vars, procvars, TInv, ProcessOK, QueuesOK
<1>6. ProcessOK' /\ QueuesOK'
  BY <1>2, <1>3, <1>4, <1>5 DEF Next, Stopped, TInv
<1> QED BY <1>1, <1>6 DEF TInv

LEMMA TypesInvariant == Spec => []TInv
<1>1. TInv /\ [Next]_vars => TInv'
  BY NextTypes
<1> QED BY InitTypes, <1>1, PTL DEF Spec

\* For any signals, jobs, nesting and lengths of the queues, the fields of
\* the runners, the frames on their stacks, the channels and the dispositions
\* hold what they should, and no stack is deeper than the bound of the
\* scripts and one action (the shell of ash.go, runner.signalCh, runSubshell).
THEOREM TypesHold == Spec => []TypeOK
<1>1. TInv => TypeOK
  <2> SUFFICES ASSUME TInv PROVE TypeOK
    OBVIOUS
  <2>1. /\ process \in {"alive", "killed", "exited"} /\ ignored \subseteq Signals
        /\ notices \in 0..MaxNotices /\ \A s \in Signals : subscribers[s] \subseteq Channels
    BY DEF TInv, ProcessOK
  <2>2. ASSUME NEW q \in Seq(Signals) PROVE Range(q) \subseteq Signals
    BY DEF Range
  <2>3. \A c \in Channels : Len(queue[c]) <= ChanCap /\ Range(queue[c]) \subseteq Signals
    BY <2>2 DEF TInv, QueuesOK
  <2>4. ASSUME NEW r \in Runners
        PROVE  LET x == sh[r] IN
         /\ x.mode \in Modes /\ x.todo \subseteq Signals /\ x.inherited \subseteq Signals
         /\ x.traps \in [Signals -> {"unset", "empty", "run"}]
         /\ x.exitTrap \in {"unset", "run"}
         /\ {x.forward, x.starter} \subseteq Channels \cup {NoChannel, LostChannel}
         /\ \A q \in {x.propagated, x.pending, x.replay} : Range(q) \subseteq Signals
         /\ {x.code, x.lastStatus, x.trapStatus, x.exitCode} \subseteq Statuses
         /\ {x.top, x.inTrap, x.exitFlag} \subseteq BOOLEAN
    BY <2>2 DEF TInv, RunnersOK, States, TrapStates
  <2>5. ASSUME NEW r \in Runners
        PROVE  Len(sh[r].stack) <= MaxDepth + 1 /\ Range(sh[r].stack) \subseteq Frames
    <3> DEFINE s == sh[r].stack
    <3>1. s \in Seq(Frames) /\ \A i \in 1..Len(s) : FrameOK(s, i)
      BY DEF TInv, RunnersOK, RunnerOK, Core, StackOK
    <3>2. Len(s) <= MaxDepth + 1
      BY <3>1, Bounds DEF FrameOK
    <3> QED BY <3>1, <3>2 DEF Range
  <2>6. Frames \subseteq [kind : ActionKinds \cup {"wait", "subshell"}, from : Modes
               \cup {"kill", "pending", "lastpending", "apply"}, status : Statuses, entry : Statuses,
               inTrap : BOOLEAN, trapStatus : Statuses, exitFlag : BOOLEAN, exitCode : Statuses,
               code : Statuses, replay : Seq(Signals),
               traps : [Signals -> {"unset", "empty", "run"}], exitTrap : {"unset", "run"},
               pending : Seq(Signals)]
    BY DEF Frames, Froms, LeaveFroms, Modes, TrapStates
  <2> QED BY <2>1, <2>3, <2>4, <2>5, <2>6 DEF TypeOK
<1> QED BY <1>1, TypesInvariant, PTL

\* A runner that is in an action, at any depth of actions and subshells, and
\* only such a one, knows it, and knows the status it had on entry to the
\* innermost one (runTrap, inTrap, trapStatus).
THEOREM ActionsHold == Spec => []ActionsRemembered
<1>1. TInv => ActionsRemembered
  <2> SUFFICES ASSUME TInv, NEW r \in Runners
               PROVE  /\ Remembers(sh[r], ActionKinds)
                      /\ sh[r].inTrap =>
                           \E i \in DOMAIN sh[r].stack : sh[r].stack[i].kind \in ActionKinds
    BY DEF ActionsRemembered
  <2> DEFINE x == sh[r]
             s == x.stack
             at == {i \in DOMAIN s : s[i].kind \in ActionKinds}
  <2>1. s \in Seq(Frames) /\ Knows(s, Len(s), x.inTrap, x.trapStatus) /\ x.inTrap \in BOOLEAN
    BY DEF TInv, RunnersOK, RunnerOK, Core, StackOK, States
  <2>2. DOMAIN s = 1..Len(s) /\ Len(s) \in Nat
    BY <2>1
  <2>3. CASE ~x.inTrap
    BY <2>1, <2>2, <2>3 DEF Knows, Remembers
  <2>4. CASE x.inTrap
    <3>1. PICK k \in 1..Len(s) : /\ s[k].kind \in ActionKinds /\ x.trapStatus = s[k].entry
                                 /\ \A l \in k + 1..Len(s) : s[l].kind \notin ActionKinds
      BY <2>1, <2>4 DEF Knows
    <3>2. k \in at /\ \A i \in at : i <= k
      BY <2>2, <3>1
    <3>3. at \subseteq Nat
      BY <2>2
    <3> HIDE DEF at
    <3> DEFINE m == CHOOSE i \in at : \A j \in at : j <= i
    <3>4. m \in at /\ \A j \in at : j <= m
      BY <3>2
    <3> HIDE DEF m
    <3>5. m = k
      BY <3>2, <3>3, <3>4
    <3>6. Innermost(s, ActionKinds) = s[k]
      BY <3>5 DEF Innermost, at, m
    <3> QED BY <2>2, <2>4, <3>1, <3>6 DEF Remembers
  <2> QED BY <2>1, <2>3, <2>4
<1> QED BY <1>1, TypesInvariant, PTL

\* An exit of any runner stays asked for until the action, wait or subshell
\* it belongs to is gone, whatever actions run in between (runTrap restores
\* exitFlag, runSubshell that of the shell around it).
THEOREM ExitHolds == Spec => ExitSticks
<1>1. TInv /\ [Next]_vars =>
        [\A r \in Runners : LET x == sh[r]  y == sh'[r] IN
          /\ x.exitFlag /\ y.stack = x.stack => y.exitFlag
          /\ (x.stack # <<>> /\ y.stack = Front(x.stack) /\ Last(x.stack).kind \in {"trap", "subshell"}
                /\ Last(x.stack).exitFlag) => y.exitFlag]_vars
  BY NextAdvances DEF Advances, Sticks
<1> QED BY <1>1, TypesInvariant, PTL DEF Spec, ExitSticks

-----------------------------------------------------------------------------
(* Jobs that enter no subshell.                                             *)

\* Background jobs run no command of theirs in a subshell.
JobsAreFlat == \A j \in Jobs : "subshell" \notin Commands[j]

\* Nor do they set traps: they leave the dispositions of the process alone.
JobsSetNothing == \A j \in Jobs : Commands[j] \cap {"trap", "subshell"} = {}

JobFlat(x) == Depth(x) = 0 /\ x.mode \notin {"enter", "restore"}

JInv == \A j \in Jobs : JobFlat(sh[j])

-----------------------------------------------------------------------------
(* The dispositions of the process.                                         *)

\* The handler of s is the one the runner x with channel c wants, if the
\* process ignores the signals ign and has the subscribers subs.
Settled(x, c, s, ign, subs) ==
    /\ x.traps[s] = "empty" => s \in ign /\ subs[s] = {}
    /\ x.traps[s] # "empty" => s \notin ign
    /\ x.traps[s] = "run" => subs[s] = {c}
    /\ x.traps[s] = "unset" /\ s \in DefaultHandled => subs[s] = {c}
    /\ x.traps[s] = "unset" /\ s \notin DefaultHandled \cup x.inherited => subs[s] = {}

\* So it is for every signal that applySignalHandlers has not yet to set.
Disposed(x, c, ign, subs) ==
    /\ \A s \in Signals : subs[s] \subseteq {c}
    /\ Depth(x) = 0 => x.inherited = {}
    /\ \A s \in Signals :
          (x.mode \in {"enter", "restore"} => s \notin x.todo) => Settled(x, c, s, ign, subs)

DInv == Disposed(sh[Main], SignalCh(Main), ignored, subscribers)

\* A step that enters or leaves no subshell, sets no trap and starts no job.
Quiet(r) ==
    \/ Boundary(r) \/ Late(r) \/ EndOfScript(r) \/ Simple(r) \/ TrapExit(r) \/ Exit(r)
    \/ \E s \in Signals : KillSelf(r, s) \/ KillJob(r, s)
    \/ Foreground(r) \/ Wait(r) \/ ForegroundEnd(r) \/ WaitEnd(r)
    \/ Leaving(r) \/ Drain(r) \/ SubshellExitTrap(r) \/ Propagate(r)

LEMMA StepIsQuiet ==
    ASSUME NEW r, Step(r)
    PROVE  Quiet(r) \/ Trap(r) \/ StartJob(r) \/ Subshell(r) \/ Apply(r) \/ Leave(r)
  BY DEF Step, Command, Quiet

LEMMA QuietMoves ==
    ASSUME TInv, NEW r \in Runners, Quiet(r)
    PROVE  /\ UNCHANGED procvars /\ sh[r].mode \notin {"none", "enter", "restore"}
           /\ Moves(r) \/ UNCHANGED sh
<1>1. Moves(r) \/ UNCHANGED sh
  BY BoundaryMoves, LateMoves, EndOfScriptMoves, CommandMoves, KillMoves, EndMoves, LeavingMoves
     DEF Quiet
<1>2. UNCHANGED procvars /\ sh[r].mode \notin {"none", "enter", "restore"}
  BY DEF Quiet, At, Ready, Boundary, Late, EndOfScript, Simple, TrapExit, Exit, KillSelf, KillJob,
         Foreground, Wait, ForegroundEnd, WaitEnd, Leaving, Drain, SubshellExitTrap, Propagate
<1> QED BY <1>1, <1>2

LEMMA BecomeOne ==
    ASSUME TInv, NEW r \in Runners, NEW y, Become(r, y)
    PROVE  sh'[r] = y /\ \A q \in Runners \ {r} : sh'[q] = sh[q]
  BY DEF TInv, RunnersOK, Become

LEMMA MovesOne ==
    ASSUME TInv, NEW r \in Runners, Moves(r) \/ UNCHANGED sh
    PROVE  /\ \A q \in Runners \ {r} : sh'[q] = sh[q]
           /\ sh'[r] = sh[r] \/ Becomes(sh[r], sh'[r])
<1>1. CASE UNCHANGED sh
  BY <1>1
<1>2. ASSUME NEW y, Become(r, y), Becomes(sh[r], y)
      PROVE  /\ \A q \in Runners \ {r} : sh'[q] = sh[q]
             /\ Becomes(sh[r], sh'[r])
  BY <1>2, BecomeOne
<1> QED BY <1>1, <1>2 DEF Moves

LEMMA EmptyDepth ==
    ASSUME NEW x, x.stack = <<>>
    PROVE  Depth(x) = 0
<1>1. {i \in DOMAIN x.stack : x.stack[i].kind = "subshell"} = {}
  OBVIOUS
<1> QED BY <1>1, FS_EmptySet DEF Depth, DepthOf

LEMMA SubshellDepth ==
    ASSUME NEW x, Core(x), InSubshell(x.stack)
    PROVE  Depth(x) # 0
<1> DEFINE D == {i \in DOMAIN x.stack : x.stack[i].kind = "subshell"}
<1>1. x.stack \in Seq(Frames) /\ \A i \in 1..Len(x.stack) : FrameOK(x.stack, i)
  BY DEF Core, StackOK
<1>2. D \subseteq 1..MaxDepth
  BY <1>1, Bounds DEF FrameOK
<1>3. IsFiniteSet(1..MaxDepth)
  BY FS_Interval, Bounds
<1>4. Len(x.stack) \in D
  BY <1>1 DEF InSubshell
<1> HIDE DEF D
<1>5. IsFiniteSet(D)
  BY <1>2, <1>3, FS_Subset
<1>6. Cardinality(D) # 0
  BY <1>4, <1>5, FS_EmptySet
<1> QED BY <1>6 DEF Depth, DepthOf, D

\* Action a is set for s, where the signals of T are caught without one.
Handles(c, s, a, T) ==
    \/ a = "empty" /\ Ignore(s)
    \/ (a = "run" \/ (a = "unset" /\ s \in T)) /\ Notify(c, s)
    \/ a = "unset" /\ s \notin T /\ Reset(s)

\* What trap does to the runner r.
TrapSet(r, s, a) ==
    /\ Handles(SignalCh(r), s, a, DefaultHandled)
    /\ sh[r].mode \in {"command", "late"} /\ sh'[r].mode = "boundary"
    /\ sh'[r].traps = [sh[r].traps EXCEPT ![s] = a]
    /\ sh'[r].inherited = sh[r].inherited /\ sh'[r].forward = sh[r].forward
    /\ Depth(sh'[r]) = Depth(sh[r])

LEMMA TrapOne ==
    ASSUME TInv, NEW r \in Runners, Trap(r)
    PROVE  /\ UNCHANGED <<process, notices>> /\ "trap" \in Commands[r]
           /\ \A q \in Runners \ {r} : sh'[q] = sh[q]
           /\ \E s \in Signals, a \in TrapStates : TrapSet(r, s, a)
<1> DEFINE x == sh[r]
<1>1. RunnerOK(x) /\ x \in States
  BY SignalOf
<1>2. PICK s \in Signals, a \in {"unset", "empty", "run"} :
         /\ Become(r, Done([x EXCEPT !.traps[s] = a], 0))
         /\ CASE a = "empty" -> Ignore(s)
              [] a = "run" \/ (a = "unset" /\ s \in DefaultHandled) -> Notify(SignalCh(r), s)
              [] OTHER -> Reset(s)
  BY DEF Trap
<1> DEFINE z == [x EXCEPT !.traps[s] = a]
<1>3. /\ z \in States /\ z.stack = x.stack /\ z.traps = [x.traps EXCEPT ![s] = a]
      /\ z.inherited = x.inherited /\ z.forward = x.forward
  BY <1>1 DEF States, TrapStates
<1> HIDE DEF z
<1>4. Kept(z, Done(z, 0)) /\ Done(z, 0).mode = "boundary"
  BY <1>3, DoneKeeps, Statuses0
<1>5. sh'[r] = Done(z, 0) /\ \A q \in Runners \ {r} : sh'[q] = sh[q]
  BY <1>2, BecomeOne DEF z
<1>6. /\ UNCHANGED <<process, notices>> /\ sh[r].mode \in {"command", "late"}
      /\ "trap" \in Commands[r]
  BY DEF Trap, Ready, At
<1>7. /\ sh'[r].traps = [sh[r].traps EXCEPT ![s] = a]
      /\ sh'[r].inherited = sh[r].inherited /\ sh'[r].forward = sh[r].forward
      /\ Depth(sh'[r]) = Depth(sh[r]) /\ sh'[r].mode = "boundary"
  BY <1>3, <1>4, <1>5 DEF Kept, Depth
<1>8. Handles(SignalCh(r), s, a, DefaultHandled)
  <2>1. CASE a = "empty"
    <3>1. Ignore(s)
      BY <1>2, <2>1
    <3> QED BY <2>1, <3>1 DEF Handles
  <2>2. CASE a = "run"
    BY <1>2, <2>2 DEF Handles
  <2>3. CASE a = "unset" /\ s \in DefaultHandled
    BY <1>2, <2>3 DEF Handles
  <2>4. CASE a = "unset" /\ s \notin DefaultHandled
    BY <1>2, <2>4 DEF Handles
  <2> QED BY <2>1, <2>2, <2>3, <2>4
<1>9. TrapSet(r, s, a) /\ a \in TrapStates
  BY <1>6, <1>7, <1>8 DEF TrapSet, TrapStates
<1> QED BY <1>5, <1>6, <1>9

LEMMA SubshellOne ==
    ASSUME TInv, NEW r \in Runners, Subshell(r)
    PROVE  /\ UNCHANGED <<process, notices>> /\ Stop(SignalCh(r)) /\ "subshell" \in Commands[r]
           /\ sh'[r].mode = "enter" /\ sh'[r].todo = Signals /\ Depth(sh'[r]) # 0
           /\ \A q \in Runners \ {r} : sh'[q] = sh[q]
<1> DEFINE x == sh[r]
           T == {s \in Signals : x.traps[s] = "run"}
           y == [Push(x, "subshell", "apply", 0) EXCEPT
                    !.traps = SubshellTraps(@), !.exitTrap = "unset", !.inherited = T,
                    !.propagated = <<>>, !.pending = <<>>, !.forward = NoChannel,
                    !.lastStatus = 0, !.todo = Signals, !.mode = "enter"]
<1>1. Become(r, y) /\ x \in States
  BY SignalOf DEF Subshell
<1>2. y.mode = "enter" /\ y.todo = Signals
      /\ y.stack = Append(x.stack, Frame(x, "subshell", "apply", 0))
  BY <1>1 DEF States, Push
<1> HIDE DEF y
<1>3. sh'[r] = y /\ \A q \in Runners \ {r} : sh'[q] = sh[q]
  BY <1>1, BecomeOne
<1>4. RunnerOK(y)
  BY <1>3, SubshellAdvances DEF Advances
<1>5. InSubshell(y.stack)
  <2> DEFINE f == Frame(x, "subshell", "apply", 0)
  <2>1. f.kind = "subshell" /\ x.stack \in Seq(Frames)
    BY <1>1 DEF Frame, States
  <2> HIDE DEF f
  <2>2. /\ Append(x.stack, f) # <<>> /\ Len(Append(x.stack, f)) = Len(x.stack) + 1
        /\ Append(x.stack, f)[Len(x.stack) + 1] = f
    BY <2>1
  <2> QED BY <1>2, <2>1, <2>2 DEF InSubshell, f
<1>6. Depth(y) # 0
  BY <1>4, <1>5, SubshellDepth DEF RunnerOK
<1>7. UNCHANGED <<process, notices>> /\ Stop(SignalCh(r)) /\ "subshell" \in Commands[r]
  BY DEF Subshell, Ready
<1> QED BY <1>2, <1>3, <1>6, <1>7

LEMMA LeaveOne ==
    ASSUME TInv, NEW r \in Runners, Leave(r)
    PROVE  /\ UNCHANGED <<process, notices>> /\ Stop(SignalCh(r))
           /\ sh'[r].mode = "restore" /\ sh'[r].todo = Signals /\ sh'[r].inherited = {}
           /\ Depth(sh[r]) # 0
           /\ \A q \in Runners \ {r} :
                 /\ sh'[q].stack = sh[q].stack /\ sh'[q].mode = sh[q].mode
                 /\ sh'[q].forward \in {sh[q].forward, LostChannel}
<1> DEFINE x == sh[r]
           f == Top(x)
           p == Pop(x)
           Lost(c) == IF c = SignalCh(r) THEN LostChannel ELSE c
           y == [p EXCEPT !.traps = f.traps, !.exitTrap = f.exitTrap,
                          !.pending = f.pending, !.lastStatus = f.entry,
                          !.exitFlag = f.exitFlag, !.exitCode = f.exitCode,
                          !.inherited = {}, !.forward = NoChannel,
                          !.propagated = <<>>, !.replay = x.propagated,
                          !.todo = Signals, !.mode = "restore"]
           Other(q) == [sh[q] EXCEPT !.forward = Lost(@), !.starter = Lost(@)]
<1>1. sh' = [q \in Runners |-> IF q = r THEN y ELSE Other(q)]
  BY DEF Leave
<1>2. sh \in [Runners -> States] /\ \A q \in Runners : RunnerOK(sh[q])
  BY DEF TInv, RunnersOK
<1>3. Depth(x) # 0
  BY <1>2, SubshellDepth DEF Leave, At, RunnerOK, ModeOK
<1>4. y.mode = "restore" /\ y.todo = Signals /\ y.inherited = {}
  BY <1>2 DEF Pop, States
<1>5. ASSUME NEW q \in Runners \ {r}
      PROVE  /\ Other(q).stack = sh[q].stack /\ Other(q).mode = sh[q].mode
             /\ Other(q).forward \in {sh[q].forward, LostChannel}
  BY <1>2 DEF States
<1> HIDE DEF y, Other
<1>6. sh'[r] = y /\ \A q \in Runners \ {r} : sh'[q] = Other(q)
  BY <1>1
<1>7. UNCHANGED <<process, notices>> /\ Stop(SignalCh(r))
  BY DEF Leave
<1> QED BY <1>3, <1>4, <1>5, <1>6, <1>7

LEMMA ApplyOne ==
    ASSUME TInv, NEW r \in Runners, Apply(r)
    PROVE  LET x == sh[r]
               y == sh'[r]
           IN  /\ UNCHANGED <<process, notices>> /\ x.mode \in {"enter", "restore"}
               /\ y.traps = x.traps /\ y.inherited = x.inherited /\ y.forward = x.forward
               /\ Depth(y) = Depth(x)
               /\ \/ /\ y.mode = x.mode
                     /\ \E s \in x.todo :
                          /\ s \in Signals /\ y.todo = x.todo \ {s}
                          /\ CASE x.traps[s] = "empty" -> Ignore(s)
                               [] x.traps[s] = "run" -> Notify(SignalCh(r), s)
                               [] x.traps[s] = "unset" /\ s \in x.inherited \cup DefaultHandled ->
                                    Notify(SignalCh(r), s)
                               [] OTHER -> Reset(s)
                  \/ /\ x.todo = {} /\ y.mode \in {"boundary", "propagate"}
                     /\ UNCHANGED <<ignored, subscribers>>
               /\ \A q \in Runners \ {r} : sh'[q] = sh[q]
<1> DEFINE x == sh[r]
<1>1. x \in States /\ x.todo \in SUBSET Signals
  BY SignalOf DEF States
<1>2. UNCHANGED <<process, notices>> /\ x.mode \in {"enter", "restore"}
  BY DEF Apply, At
<1>3. ASSUME NEW s \in x.todo, Become(r, [x EXCEPT !.todo = @ \ {s}])
      PROVE  /\ sh'[r].traps = x.traps /\ sh'[r].inherited = x.inherited
             /\ sh'[r].forward = x.forward /\ Depth(sh'[r]) = Depth(x)
             /\ sh'[r].mode = x.mode /\ sh'[r].todo = x.todo \ {s}
             /\ \A q \in Runners \ {r} : sh'[q] = sh[q]
  <2> DEFINE y == [x EXCEPT !.todo = @ \ {s}]
  <2>1. y.traps = x.traps /\ y.inherited = x.inherited /\ y.forward = x.forward
        /\ y.stack = x.stack /\ y.mode = x.mode /\ y.todo = x.todo \ {s}
    BY <1>1 DEF States
  <2> HIDE DEF y
  <2>2. sh'[r] = y /\ \A q \in Runners \ {r} : sh'[q] = sh[q]
    BY <1>3, BecomeOne DEF y
  <2> QED BY <2>1, <2>2 DEF Depth
<1>4. ASSUME Become(r, [x EXCEPT !.mode = IF @ = "enter" THEN "boundary" ELSE "propagate"])
      PROVE  /\ sh'[r].traps = x.traps /\ sh'[r].inherited = x.inherited
             /\ sh'[r].forward = x.forward /\ Depth(sh'[r]) = Depth(x)
             /\ sh'[r].mode \in {"boundary", "propagate"}
             /\ \A q \in Runners \ {r} : sh'[q] = sh[q]
  <2> DEFINE y == [x EXCEPT !.mode = IF @ = "enter" THEN "boundary" ELSE "propagate"]
  <2>1. y.traps = x.traps /\ y.inherited = x.inherited /\ y.forward = x.forward
        /\ y.stack = x.stack /\ y.mode \in {"boundary", "propagate"}
    BY <1>1 DEF States
  <2> HIDE DEF y
  <2>2. sh'[r] = y /\ \A q \in Runners \ {r} : sh'[q] = sh[q]
    BY <1>4, BecomeOne DEF y
  <2> QED BY <2>1, <2>2 DEF Depth
<1>5. CASE \E s \in x.todo :
             /\ CASE x.traps[s] = "empty" -> Ignore(s)
                  [] x.traps[s] = "run" -> Notify(SignalCh(r), s)
                  [] x.traps[s] = "unset" /\ s \in x.inherited \cup DefaultHandled ->
                       Notify(SignalCh(r), s)
                  [] OTHER -> Reset(s)
             /\ Become(r, [x EXCEPT !.todo = @ \ {s}])
  BY <1>1, <1>2, <1>3, <1>5
<1>6. CASE /\ x.todo = {}
           /\ Become(r, [x EXCEPT !.mode = IF @ = "enter" THEN "boundary" ELSE "propagate"])
           /\ UNCHANGED <<ignored, subscribers>>
  BY <1>2, <1>4, <1>6
<1> QED BY <1>5, <1>6 DEF Apply

LEMMA StartJobOne ==
    ASSUME TInv, NEW r \in Runners, StartJob(r)
    PROVE  /\ UNCHANGED procvars /\ Becomes(sh[r], sh'[r])
           /\ sh[r].mode \notin {"none", "enter", "restore"}
           /\ \E j \in Jobs :
                 /\ j # r /\ sh'[j].stack = <<>> /\ sh'[j].mode = "boundary"
                 /\ sh'[j].forward = SignalCh(r)
                 /\ \A q \in Runners \ {r, j} : sh'[q] = sh[q]
<1> DEFINE x == sh[r]
<1>1. RunnerOK(x) /\ x \in States
  BY SignalOf
<1>2. sh \in [Runners -> States]
  BY DEF TInv, RunnersOK
<1>3. PICK j \in Jobs :
         /\ sh[j].mode = "none"
         /\ sh' = [sh EXCEPT ![r] = Done(@, 0),
                             ![j] = Runner("boundary", SubshellTraps(sh[r].traps),
                                           ForwardTo(r), FALSE)]
  BY DEF StartJob
<1> DEFINE y == Runner("boundary", SubshellTraps(sh[r].traps), ForwardTo(r), FALSE)
<1>4. j \in Runners /\ x.mode \in {"command", "late"} /\ j # r
  BY <1>3 DEF Runners, StartJob, Ready, At
<1>5. y.stack = <<>> /\ y.mode = "boundary" /\ y.forward = SignalCh(r)
  BY DEF Runner, ForwardTo
<1>6. Becomes(x, Done(x, 0))
  BY <1>1, DoneOK, Statuses0
<1> HIDE DEF y
<1>7. sh'[j] = y /\ sh'[r] = Done(x, 0) /\ \A q \in Runners \ {r, j} : sh'[q] = sh[q]
  BY <1>2, <1>3, <1>4 DEF y
<1>8. UNCHANGED procvars
  BY DEF StartJob
<1> QED BY <1>4, <1>5, <1>6, <1>7, <1>8

LEMMA BecomesFlat ==
    ASSUME NEW x, NEW y, JobFlat(x), Becomes(x, y)
    PROVE  JobFlat(y)
  BY DEF JobFlat, Becomes, Alike

LEMMA InitFlat == Init => JInv
<1> SUFFICES ASSUME Init, NEW j \in Jobs PROVE JobFlat(sh[j])
  BY DEF JInv
<1>1. sh[j] = Runner("none", NoTraps, NoChannel, FALSE)
  BY SignalsAssumption DEF Init, Runners
<1>2. sh[j].stack = <<>> /\ sh[j].mode = "none"
  BY <1>1 DEF Runner
<1> QED BY <1>2, EmptyDepth DEF JobFlat

LEMMA StepFlat ==
    ASSUME JobsAreFlat, TInv, JInv, NEW r \in Runners, Step(r)
    PROVE  JInv'
<1> SUFFICES ASSUME NEW j \in Jobs PROVE JobFlat(sh'[j])
  BY DEF JInv
<1>0. JobFlat(sh[j]) /\ j \in Runners /\ (r \in Jobs => JobFlat(sh[r]))
  BY DEF JInv, Runners
<1>1. CASE Quiet(r)
  BY <1>0, <1>1, QuietMoves, MovesOne, BecomesFlat
<1>2. CASE Trap(r)
  <2>1. CASE j = r
    <3>1. PICK s \in Signals, a \in TrapStates : TrapSet(r, s, a)
      BY <1>2, TrapOne
    <3> QED BY <1>0, <2>1, <3>1 DEF TrapSet, JobFlat
  <2>2. CASE j # r
    BY <1>0, <1>2, <2>2, TrapOne
  <2> QED BY <2>1, <2>2
<1>3. CASE StartJob(r)
  <2>1. PICK k \in Jobs : /\ k # r /\ sh'[k].stack = <<>> /\ sh'[k].mode = "boundary"
                          /\ \A q \in Runners \ {r, k} : sh'[q] = sh[q]
    BY <1>3, StartJobOne
  <2>2. CASE j = k
    BY <2>1, <2>2, EmptyDepth DEF JobFlat
  <2>3. CASE j = r
    BY <1>0, <1>3, <2>3, StartJobOne, BecomesFlat
  <2>4. CASE j \notin {k, r}
    BY <1>0, <2>1, <2>4
  <2> QED BY <2>2, <2>3, <2>4
<1>4. CASE Subshell(r)
  <2>1. r # j /\ sh'[j] = sh[j]
    BY <1>0, <1>4, SubshellOne DEF JobsAreFlat
  <2> QED BY <1>0, <2>1
<1>5. CASE Apply(r)
  <2>1. r # j /\ sh'[j] = sh[j]
    <3>1. sh[r].mode \in {"enter", "restore"} /\ \A q \in Runners \ {r} : sh'[q] = sh[q]
      BY <1>5, ApplyOne
    <3> QED BY <1>0, <3>1 DEF JobFlat
  <2> QED BY <1>0, <2>1
<1>6. CASE Leave(r)
  <2>1. /\ r # j /\ sh'[j].stack = sh[j].stack /\ sh'[j].mode = sh[j].mode
    BY <1>0, <1>6, LeaveOne DEF JobFlat
  <2> QED BY <1>0, <2>1 DEF JobFlat, Depth
<1> QED BY <1>1, <1>2, <1>3, <1>4, <1>5, <1>6, StepIsQuiet

LEMMA FlatInvariant ==
    ASSUME JobsAreFlat
    PROVE  Spec => [](TInv /\ JInv)
<1>1. TInv /\ JInv /\ [Next]_vars => (TInv /\ JInv)'
  <2> SUFFICES ASSUME TInv, JInv, [Next]_vars PROVE JInv'
    BY NextTypes
  <2>1. ASSUME NEW r \in Runners, Step(r) PROVE JInv'
    BY <2>1, StepFlat
  <2>2. ASSUME UNCHANGED sh PROVE JInv'
    BY <2>2 DEF JInv
  <2>3. ASSUME NEW s \in Signals, Deliver(s) PROVE UNCHANGED sh
    BY <2>3 DEF Deliver
  <2> QED BY <2>1, <2>2, <2>3 DEF Next, ExitProcess, Stopped, vars
<1> QED BY InitTypes, InitFlat, <1>1, PTL DEF Spec

LEMMA MainIsRunner == Main \in Runners /\ Main \notin Jobs
  BY SignalsAssumption DEF Runners

\* A step that keeps traps and dispositions.
LEMMA KeptDisposed ==
    ASSUME NEW x, NEW y, NEW c, NEW ign, NEW subs, Disposed(x, c, ign, subs),
           x.mode \notin {"enter", "restore"} \/ (y.mode = x.mode /\ y.todo = x.todo)
             \/ (y.mode \notin {"enter", "restore"} /\ x.todo = {}),
           y.mode \notin {"enter", "restore"} \/ (y.mode = x.mode /\ y.todo = x.todo),
           y.traps = x.traps, y.inherited = x.inherited, Depth(y) = Depth(x)
    PROVE  Disposed(y, c, ign, subs)
  BY DEF Disposed, Settled

LEMMA SameChannel ==
    ASSUME Depth(sh'[Main]) = Depth(sh[Main])
    PROVE  SignalCh(Main)' = SignalCh(Main)
  BY DEF SignalCh

LEMMA QuietDisposes ==
    ASSUME TInv, DInv, NEW y, sh'[Main] = y, y = sh[Main] \/ Becomes(sh[Main], y),
           UNCHANGED <<ignored, subscribers>>, sh[Main].mode \notin {"enter", "restore"} \/ y = sh[Main]
    PROVE  DInv'
<1> DEFINE x == sh[Main]
<1>1. Depth(y) = Depth(x) /\ y.traps = x.traps /\ y.inherited = x.inherited
  BY DEF Becomes, Alike
<1>2. y = x \/ (y.mode \notin {"enter", "restore"} /\ x.mode \notin {"enter", "restore"})
  BY DEF Becomes
<1>3. SignalCh(Main)' = SignalCh(Main)
  BY <1>1, SameChannel
<1>4. Disposed(y, SignalCh(Main), ignored, subscribers)
  BY <1>1, <1>2, KeptDisposed DEF DInv
<1> QED BY <1>3, <1>4 DEF DInv

\* trap and applySignalHandlers, for one signal.
LEMMA HandlerSet ==
    ASSUME TInv, NEW s \in Signals, NEW a \in TrapStates, NEW c, NEW T \in SUBSET Signals,
           subscribers[s] \subseteq {c}, Handles(c, s, a, T)
    PROVE  /\ a = "empty" => s \in ignored' /\ subscribers'[s] = {}
           /\ a # "empty" => s \notin ignored'
           /\ a = "run" \/ (a = "unset" /\ s \in T) => subscribers'[s] = {c}
           /\ a = "unset" /\ s \notin T => subscribers'[s] = {}
           /\ \A t \in Signals \ {s} : subscribers'[t] = subscribers[t]
                                       /\ (t \in ignored' <=> t \in ignored)
<1>1. subscribers \in [Signals -> SUBSET Channels]
  BY DEF TInv, ProcessOK
<1> QED BY <1>1 DEF Handles, Ignore, Notify, Reset, TrapStates

LEMMA TrapDisposes ==
    ASSUME TInv, DInv, Trap(Main)
    PROVE  DInv'
<1>1. PICK s \in Signals, a \in TrapStates : TrapSet(Main, s, a)
  BY TrapOne, MainIsRunner
<1> DEFINE x == sh[Main]
           y == sh'[Main]
           c == SignalCh(Main)
<1>2. Disposed(x, c, ignored, subscribers) /\ c' = c
  BY <1>1, SameChannel DEF DInv, TrapSet
<1>3. x.traps \in [Signals -> TrapStates] /\ DefaultHandled \in SUBSET Signals
  BY SignalOf, MainIsRunner, SignalsAssumption DEF States, TrapStates
<1>4. /\ Handles(c, s, a, DefaultHandled)
      /\ x.mode \in {"command", "late"} /\ y.mode = "boundary"
      /\ y.traps = [x.traps EXCEPT ![s] = a]
      /\ y.inherited = x.inherited /\ Depth(y) = Depth(x)
  BY <1>1 DEF TrapSet
<1>0. DInv' = Disposed(y, c', ignored', subscribers')
  BY DEF DInv
<1> HIDE DEF x, y, c
<1>5. subscribers[s] \subseteq {c}
  BY <1>2 DEF Disposed
<1>6. /\ a = "empty" => s \in ignored' /\ subscribers'[s] = {}
      /\ a # "empty" => s \notin ignored'
      /\ a = "run" \/ (a = "unset" /\ s \in DefaultHandled) => subscribers'[s] = {c}
      /\ a = "unset" /\ s \notin DefaultHandled => subscribers'[s] = {}
      /\ \A t \in Signals \ {s} : subscribers'[t] = subscribers[t]
                                  /\ (t \in ignored' <=> t \in ignored)
  BY <1>3, <1>4, <1>5, HandlerSet
<1>7. y.traps[s] = a /\ \A t \in Signals \ {s} : y.traps[t] = x.traps[t]
  BY <1>3, <1>4
<1>8. Settled(y, c, s, ignored', subscribers')
  BY <1>6, <1>7 DEF Settled
<1>9. ASSUME NEW t \in Signals \ {s}
      PROVE  Settled(y, c, t, ignored', subscribers')
  <2>1. Settled(x, c, t, ignored, subscribers)
    BY <1>2, <1>4 DEF Disposed
  <2> QED BY <1>4, <1>6, <1>7, <2>1 DEF Settled
<1>10. \A t \in Signals : subscribers'[t] \subseteq {c}
  BY <1>2, <1>3, <1>6 DEF Disposed, TrapStates
<1>11. Depth(y) = 0 => y.inherited = {}
  BY <1>2, <1>4 DEF Disposed
<1>12. Disposed(y, c, ignored', subscribers')
  BY <1>4, <1>8, <1>9, <1>10, <1>11 DEF Disposed
<1> QED BY <1>0, <1>2, <1>12

LEMMA ApplyDisposes ==
    ASSUME TInv, DInv, Apply(Main)
    PROVE  DInv'
<1> DEFINE x == sh[Main]
           y == sh'[Main]
           c == SignalCh(Main)
           T == x.inherited \cup DefaultHandled
<1>1. /\ x.mode \in {"enter", "restore"}
      /\ y.traps = x.traps /\ y.inherited = x.inherited /\ Depth(y) = Depth(x)
      /\ \/ /\ y.mode = x.mode
            /\ \E s \in x.todo :
                 /\ s \in Signals /\ y.todo = x.todo \ {s}
                 /\ CASE x.traps[s] = "empty" -> Ignore(s)
                      [] x.traps[s] = "run" -> Notify(SignalCh(Main), s)
                      [] x.traps[s] = "unset" /\ s \in T -> Notify(SignalCh(Main), s)
                      [] OTHER -> Reset(s)
         \/ /\ x.todo = {} /\ y.mode \in {"boundary", "propagate"}
            /\ UNCHANGED <<ignored, subscribers>>
  BY ApplyOne, MainIsRunner
<1>2. Disposed(x, c, ignored, subscribers) /\ c' = c
  BY <1>1, SameChannel DEF DInv
<1>3. /\ x.traps \in [Signals -> TrapStates] /\ DefaultHandled \in SUBSET Signals
      /\ x.inherited \in SUBSET Signals
  BY SignalOf, MainIsRunner, SignalsAssumption DEF States
<1>4. c' = c /\ DInv' = Disposed(y, c', ignored', subscribers')
  BY <1>2 DEF DInv
<1> HIDE DEF x, y, c
<1>5. ASSUME x.todo = {}, y.mode \in {"boundary", "propagate"}, UNCHANGED <<ignored, subscribers>>
      PROVE  Disposed(y, c, ignored', subscribers')
  BY <1>1, <1>2, <1>5, KeptDisposed
<1>6. ASSUME NEW s \in Signals, y.mode = x.mode, y.todo = x.todo \ {s},
             CASE x.traps[s] = "empty" -> Ignore(s)
               [] x.traps[s] = "run" -> Notify(c, s)
               [] x.traps[s] = "unset" /\ s \in T -> Notify(c, s)
               [] OTHER -> Reset(s)
      PROVE  Disposed(y, c, ignored', subscribers')
  <2> DEFINE a == x.traps[s]
  <2>1. a \in TrapStates /\ T \in SUBSET Signals /\ subscribers[s] \subseteq {c}
    BY <1>2, <1>3 DEF Disposed
  <2> HIDE DEF T
  <2>2. Handles(c, s, a, T)
    BY <1>6, <2>1 DEF TrapStates, Handles
  <2> HIDE DEF a
  <2>3. /\ a = "empty" => s \in ignored' /\ subscribers'[s] = {}
        /\ a # "empty" => s \notin ignored'
        /\ a = "run" \/ (a = "unset" /\ s \in T) => subscribers'[s] = {c}
        /\ a = "unset" /\ s \notin T => subscribers'[s] = {}
        /\ \A t \in Signals \ {s} : subscribers'[t] = subscribers[t]
                                    /\ (t \in ignored' <=> t \in ignored)
    BY <2>1, <2>2, HandlerSet
  <2>4. Settled(y, c, s, ignored', subscribers')
    BY <1>1, <2>3 DEF Settled, a, T
  <2>5. ASSUME NEW t \in Signals \ {s}, t \notin x.todo
        PROVE  Settled(y, c, t, ignored', subscribers')
    <3>1. Settled(x, c, t, ignored, subscribers)
      BY <1>2, <2>5 DEF Disposed
    <3> QED BY <1>1, <2>3, <3>1 DEF Settled
  <2>6. \A t \in Signals : subscribers'[t] \subseteq {c}
    BY <1>2, <2>1, <2>3 DEF Disposed, TrapStates
  <2>7. Depth(y) = 0 => y.inherited = {}
    BY <1>1, <1>2 DEF Disposed
  <2> QED BY <1>1, <1>6, <2>4, <2>5, <2>6, <2>7 DEF Disposed
<1>7. Disposed(y, c, ignored', subscribers')
  BY <1>1, <1>5, <1>6 DEF c
<1> QED BY <1>4, <1>7

\* After signal.Stop nobody is subscribed.
LEMMA StopDisposes ==
    ASSUME TInv, DInv, Stop(SignalCh(Main)), sh'[Main].mode \in {"enter", "restore"},
           sh'[Main].todo = Signals, Depth(sh'[Main]) = 0 => sh'[Main].inherited = {}
    PROVE  DInv'
<1>1. \A s \in Signals : subscribers'[s] = {}
  <2>1. \A s \in Signals : subscribers[s] \subseteq {SignalCh(Main)}
    BY DEF DInv, Disposed
  <2> QED BY <2>1 DEF Stop
<1> QED BY <1>1 DEF DInv, Disposed

LEMMA MainDisposes ==
    ASSUME TInv, DInv, Step(Main)
    PROVE  DInv'
<1>1. CASE Quiet(Main)
  BY <1>1, QuietMoves, MovesOne, QuietDisposes, MainIsRunner DEF procvars
<1>2. CASE Trap(Main)
  BY <1>2, TrapDisposes
<1>3. CASE StartJob(Main)
  BY <1>3, StartJobOne, QuietDisposes, MainIsRunner DEF procvars
<1>4. CASE Subshell(Main)
  BY <1>4, SubshellOne, StopDisposes, MainIsRunner
<1>5. CASE Apply(Main)
  BY <1>5, ApplyDisposes
<1>6. CASE Leave(Main)
  BY <1>6, LeaveOne, StopDisposes, MainIsRunner
<1> QED BY <1>1, <1>2, <1>3, <1>4, <1>5, <1>6, StepIsQuiet

\* A job leaves the shell and the dispositions alone.
LEMMA JobDisposes ==
    ASSUME JobsSetNothing, TInv, JInv, DInv, NEW r \in Jobs, Step(r)
    PROVE  DInv'
<1>0. r \in Runners /\ r # Main /\ Main \in Runners /\ JobFlat(sh[r])
  BY MainIsRunner DEF JInv, Runners
<1>1. ASSUME UNCHANGED procvars, sh'[Main] = sh[Main] PROVE DInv'
  BY <1>1, QuietDisposes DEF procvars
<1>2. CASE Quiet(r)
  BY <1>0, <1>1, <1>2, QuietMoves, MovesOne
<1>3. CASE Trap(r)
  BY <1>0, <1>3, TrapOne DEF JobsSetNothing
<1>4. CASE StartJob(r)
  <2>1. sh'[Main] = sh[Main]
    BY <1>0, <1>4, StartJobOne, MainIsRunner
  <2> QED BY <1>0, <1>1, <1>4, <2>1, StartJobOne
<1>5. CASE Subshell(r)
  BY <1>0, <1>5, SubshellOne DEF JobsSetNothing
<1>6. CASE Apply(r)
  BY <1>0, <1>6, ApplyOne DEF JobFlat
<1>7. CASE Leave(r)
  BY <1>0, <1>7, LeaveOne DEF JobFlat
<1> QED BY <1>2, <1>3, <1>4, <1>5, <1>6, <1>7, StepIsQuiet

LEMMA InitDisposed == Init => DInv
<1> SUFFICES ASSUME Init PROVE DInv
  OBVIOUS
<1> DEFINE x == sh[Main]
<1>1. x = Runner("boundary", NoTraps, NoChannel, TRUE)
  BY MainIsRunner DEF Init
<1>2. x.stack = <<>> /\ x.mode = "boundary" /\ x.traps = NoTraps /\ x.inherited = {}
  BY <1>1 DEF Runner
<1>3. SignalCh(Main) = <<Main, 0>>
  BY <1>2, EmptyDepth DEF SignalCh
<1>4. /\ ignored = {}
      /\ \A s \in Signals : subscribers[s] = IF s \in DefaultHandled THEN {<<Main, 0>>} ELSE {}
  BY DEF Init
<1>5. Depth(x) = 0 => x.inherited = {}
  BY <1>2
<1>6. DInv = Disposed(x, SignalCh(Main), ignored, subscribers)
  BY DEF DInv
<1> HIDE DEF x
<1>7. \A s \in Signals : Settled(x, <<Main, 0>>, s, ignored, subscribers)
  BY <1>2, <1>4 DEF Settled, NoTraps
<1>8. \A s \in Signals : subscribers[s] \subseteq {<<Main, 0>>}
  BY <1>4
<1> QED BY <1>3, <1>5, <1>6, <1>7, <1>8 DEF Disposed

LEMMA DisposedInvariant ==
    ASSUME JobsSetNothing
    PROVE  Spec => [](TInv /\ DInv)
<1>0. JobsAreFlat
  BY DEF JobsSetNothing, JobsAreFlat
<1>1. TInv /\ JInv /\ DInv /\ [Next]_vars => DInv'
  <2> SUFFICES ASSUME TInv, JInv, DInv, [Next]_vars PROVE DInv'
    OBVIOUS
  <2>1. ASSUME NEW r \in Runners, Step(r) PROVE DInv'
    BY <2>1, MainDisposes, JobDisposes DEF Runners
  <2>2. ASSUME UNCHANGED <<ignored, subscribers, sh>> PROVE DInv'
    BY <2>2 DEF DInv, SignalCh
  <2>3. ASSUME NEW s \in Signals, Deliver(s) PROVE UNCHANGED <<ignored, subscribers, sh>>
    BY <2>3 DEF Deliver
  <2> QED BY <2>1, <2>2, <2>3 DEF Next, ExitProcess, Stopped, vars, procvars
<1>2. Spec => [](TInv /\ JInv)
  BY <1>0, FlatInvariant
<1> QED BY InitDisposed, <1>1, <1>2, PTL DEF Spec

\* For any signals, defaults and nesting of subshells and actions: outside
\* subshells the process ignores, catches in the channel of the shell or
\* dies of each signal as the traps of the shell say, as long as background
\* jobs, which share the process, set no traps (trap, runSubshell,
\* applySignalHandlers).
THEOREM DispositionsHold ==
    ASSUME JobsSetNothing
    PROVE  Spec => []DispositionsMatch
<1>1. TInv /\ DInv => DispositionsMatch
  <2> SUFFICES ASSUME TInv, DInv, Depth(sh[Main]) = 0, sh[Main].mode \notin {"enter", "restore"}
               PROVE  /\ ignored = {s \in Signals : sh[Main].traps[s] = "empty"}
                      /\ \A s \in Signals : subscribers[s] = Wanted(sh[Main], <<Main, 0>>, s)
    BY DEF DispositionsMatch
  <2> DEFINE x == sh[Main]
  <2>1. /\ SignalCh(Main) = <<Main, 0>> /\ x.inherited = {}
        /\ \A s \in Signals : Settled(x, <<Main, 0>>, s, ignored, subscribers)
    BY DEF DInv, Disposed, SignalCh
  <2>2. x.traps \in [Signals -> TrapStates] /\ ignored \in SUBSET Signals
    BY SignalOf, MainIsRunner DEF States, TInv, ProcessOK
  <2> HIDE DEF x
  <2>3. ignored = {s \in Signals : x.traps[s] = "empty"}
    BY <2>1, <2>2 DEF Settled
  <2>4. ASSUME NEW s \in Signals
        PROVE  subscribers[s] = Wanted(x, <<Main, 0>>, s)
    <3>1. Settled(x, <<Main, 0>>, s, ignored, subscribers) /\ x.inherited = {}
      BY <2>1
    <3>2. CASE x.traps[s] = "empty"
      <4>1. Wanted(x, <<Main, 0>>, s) = {}
        BY <3>2 DEF Wanted
      <4> QED BY <3>1, <3>2, <4>1 DEF Settled
    <3>3. CASE x.traps[s] = "run"
      BY <3>1, <3>3 DEF Settled, Wanted
    <3>4. CASE x.traps[s] = "unset" /\ s \in DefaultHandled
      BY <3>1, <3>4 DEF Settled, Wanted
    <3>5. CASE x.traps[s] = "unset" /\ s \notin DefaultHandled
      BY <3>1, <3>5 DEF Settled, Wanted
    <3> QED BY <2>2, <3>2, <3>3, <3>4, <3>5 DEF TrapStates
  <2> QED BY <2>3, <2>4 DEF x
<1> QED BY <1>1, DisposedInvariant, PTL

\* Under the same assumption, in a subshell at any depth: what it traps comes
\* to its channel only, what it ignores is ignored.
THEOREM SubshellsHold ==
    ASSUME JobsSetNothing
    PROVE  Spec => []SubshellHearsItsTraps
<1>1. TInv /\ DInv => SubshellHearsItsTraps
  BY DEF DInv, Disposed, Settled, SubshellHearsItsTraps
<1> QED BY <1>1, DisposedInvariant, PTL

=============================================================================
