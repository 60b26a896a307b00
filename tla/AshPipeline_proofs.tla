------------------------- MODULE AshPipeline_proofs -------------------------
(***************************************************************************)
(* Safety of AshPipeline for pipelines of any length, pipes of any size    *)
(* and any amount of output.                                               *)
(***************************************************************************)
EXTENDS AshPipeline, TLAPS

IInv == TypeOK /\ PipelineInv

\* Everything but what a stage does to its own state and to its pipes.
Elsewhere == UNCHANGED <<kind, pipefail, shellvars>>

LEMMA StagesAndPipes ==
    /\ Pipes \subseteq Stages
    /\ \A p \in Pipes : p + 1 \in Stages
    /\ \A i \in Stages : i \in Int /\ (i < N => i \in Pipes) /\ (i > 1 => i - 1 \in Pipes)
    /\ N \in Stages
  BY PipelineAssumption DEF Stages, Pipes

\* The parts of the types that actions change apart from each other.
ShellTypes ==
    /\ kind \in [Stages -> {"external", "builtin"}] /\ pipefail \in BOOLEAN
    /\ pc \in {"external", "builtin", "wait", "done"} /\ next \in 1..N + 1
    /\ status \in Codes \cup {ExitFailure, 127, -1} /\ failed \in BOOLEAN

StageTypes ==
    /\ stage \in [Stages -> StageStates] /\ code \in [Stages -> Codes \cup {ExitFailure, 127, -1}]
    /\ redirected \subseteq Stages

BlockTypes ==
    /\ tried \in [Stages -> 0..MaxOut] /\ wrote \in [Stages -> 0..MaxOut]
    /\ got \in [Stages -> 0..MaxOut]
    /\ fill \in [Pipes -> 0..PipeCap] /\ orphan \in [Pipes -> 0..MaxOut]

FlagTypes ==
    /\ broken \in [Stages -> BOOLEAN] /\ timedOut \in [Stages -> BOOLEAN]
    /\ eof \in [Stages -> BOOLEAN] /\ inWrite \in [Pipes -> BOOLEAN]

EndTypes == wopen \in [Pipes -> BOOLEAN] /\ ropen \in [Pipes -> BOOLEAN]

LEMMA TypeParts == TypeOK <=> ShellTypes /\ StageTypes /\ BlockTypes /\ FlagTypes /\ EndTypes
  BY DEF TypeOK, ShellTypes, StageTypes, BlockTypes, FlagTypes, EndTypes

LEMMA TypePartsNext ==
    TypeOK' <=> ShellTypes' /\ StageTypes' /\ BlockTypes' /\ FlagTypes' /\ EndTypes'
  BY DEF TypeOK, ShellTypes, StageTypes, BlockTypes, FlagTypes, EndTypes

\* What a step leaves alone keeps its type.
LEMMA TypesKept ==
    /\ ShellTypes /\ UNCHANGED <<kind, pipefail, shellvars>> => ShellTypes'
    /\ StageTypes /\ UNCHANGED <<stage, code, redirected>> => StageTypes'
    /\ BlockTypes /\ UNCHANGED <<tried, wrote, got, fill, orphan>> => BlockTypes'
    /\ FlagTypes /\ UNCHANGED <<broken, timedOut, eof, inWrite>> => FlagTypes'
    /\ EndTypes /\ UNCHANGED <<wopen, ropen>> => EndTypes'
  BY DEF ShellTypes, StageTypes, BlockTypes, FlagTypes, EndTypes, shellvars

LEMMA CloseTypes ==
    ASSUME EndTypes, NEW i
    PROVE  /\ CloseWriter(i) /\ UNCHANGED ropen => EndTypes'
           /\ CloseReader(i) /\ UNCHANGED wopen => EndTypes'
  BY Zenon DEF EndTypes, CloseWriter, CloseReader

\* Closing a pipe for writing closes that one.
LEMMA Closed ==
    ASSUME NEW i, CloseWriter(i)
    PROVE  \A p \in Pipes : wopen'[p] <=> (wopen[p] /\ p # i)
  BY DEF CloseWriter

\* A step of a stage that starts no stage keeps the order of the shell.
LEMMA OrderKept ==
    StartInOrder /\ Elsewhere /\ (\A i \in Stages : stage'[i] = "idle" <=> stage[i] = "idle")
      => StartInOrder'
  BY DEF StartInOrder, Elsewhere, shellvars

\* A step that leaves the stages heard so far alone keeps the status.
LEMMA StatusKept ==
    ASSUME StatusSoFar, Elsewhere,
           \A i \in Stages : Ended(i) => (code'[i] = code[i] /\ Ended(i)')
    PROVE  StatusSoFar'
<1>1. CASE failed
  BY <1>1 DEF StatusSoFar, Elsewhere, shellvars
<1>2. CASE ~failed
  <2>1. HeardSoFar' = HeardSoFar
    BY DEF HeardSoFar, Elsewhere, shellvars
  <2>2. \A i \in HeardSoFar : Ended(i) /\ Ended(i)' /\ code'[i] = code[i]
    BY <1>2 DEF StatusSoFar, HeardSoFar
  <2>3. {i \in HeardSoFar : code'[i] # 0} = {i \in HeardSoFar : code[i] # 0}
    BY <2>2
  <2>4. pc = "done" => code'[N] = code[N]
    BY <2>2, StagesAndPipes DEF HeardSoFar
  <2>5. pc' = pc /\ pipefail' = pipefail /\ status' = status /\ failed' = failed
    BY DEF Elsewhere, shellvars
  <2> HIDE DEF HeardSoFar
  <2> QED BY <1>2, <2>1, <2>2, <2>3, <2>4, <2>5 DEF StatusSoFar
<1> QED BY <1>1, <1>2

\* A step that moves no block and opens no pipe keeps the account of blocks.
LEMMA BlocksKept ==
    ASSUME Conserved, UNCHANGED ioButEnds, \A p \in Pipes : wopen'[p] => wopen[p]
    PROVE  Conserved'
  BY DEF Conserved, ioButEnds

\* Before it waits, the shell has heard no stage.
LEMMA NothingHeard ==
    ASSUME StatusSoFar, ~failed, pc \in {"external", "builtin"}
    PROVE  HeardSoFar = {} /\ status = 0
  BY DEF StatusSoFar, HeardSoFar

\* A step of the shell that is not waiting yet and gives nothing up.
LEMMA StatusUnheard ==
    ASSUME StatusSoFar, ~failed, pc \in {"external", "builtin"},
           pc' \in {"external", "builtin", "wait"}, pc' = "wait" => next' = 1,
           UNCHANGED <<pipefail, status, failed>>
    PROVE  StatusSoFar'
<1>1. HeardSoFar' = {}
  BY PipelineAssumption DEF HeardSoFar, Stages
<1>2. status' = 0
  BY NothingHeard
<1> HIDE DEF HeardSoFar
<1> QED BY <1>1, <1>2 DEF StatusSoFar

LEMMA InitInv == Init => IInv
<1> HAVE Init
<1>1. TypeOK
  <2>1. kind \in [Stages -> {"external", "builtin"}] /\ pipefail \in BOOLEAN /\ next \in 1..N + 1
    BY PipelineAssumption DEF Init
  <2>2. status \in Codes \cup {ExitFailure, 127, -1} /\ failed \in BOOLEAN
        /\ pc \in {"external", "builtin", "wait", "done"}
    BY PipelineAssumption DEF Init
  <2>3. stage \in [Stages -> StageStates] /\ code \in [Stages -> Codes \cup {ExitFailure, 127, -1}]
    BY PipelineAssumption DEF Init, StageStates
  <2>4. broken \in [Stages -> BOOLEAN] /\ timedOut \in [Stages -> BOOLEAN] /\ eof \in [Stages -> BOOLEAN]
    BY DEF Init
  <2>5. {tried, wrote} \subseteq [Stages -> 0..MaxOut] /\ got \in [Stages -> 0..MaxOut]
    BY PipelineAssumption DEF Init
  <2>6. fill \in [Pipes -> 0..PipeCap] /\ orphan \in [Pipes -> 0..MaxOut]
    BY PipelineAssumption DEF Init
  <2>7. {inWrite, wopen, ropen} \subseteq [Pipes -> BOOLEAN] /\ redirected \subseteq Stages
    BY DEF Init
  <2> QED BY <2>1, <2>2, <2>3, <2>4, <2>5, <2>6, <2>7 DEF TypeOK
<1>2. StartInOrder /\ OpenForWriting
  BY PipelineAssumption, StagesAndPipes DEF Init, StartInOrder, OpenForWriting, Stages
<1>3. Conserved
  BY StagesAndPipes DEF Init, Conserved
<1>4. StatusSoFar
  BY DEF Init, StatusSoFar, HeardSoFar
<1> QED BY <1>1, <1>2, <1>3, <1>4 DEF IInv, PipelineInv

-----------------------------------------------------------------------------
(* The steps of the shell.                                                  *)

LEMMA StartExternalInv == IInv /\ StartExternal => IInv'
<1> SUFFICES ASSUME IInv, StartExternal PROVE IInv'
  OBVIOUS
<1> USE PipelineAssumption, StagesAndPipes
<1>0. /\ next \in Stages /\ stage[next] = "idle"
      /\ pc = "external" /\ ~failed
  BY DEF IInv, PipelineInv, StartInOrder, StartExternal, TypeOK, Stages
<1>1. TypeOK'
  <2>1. ShellTypes'
    <3>1. UNCHANGED <<kind, pipefail>> /\ next' \in {next, next + 1}
      BY DEF StartExternal
    <3>2. UNCHANGED <<pc, status, failed>> \/ (pc' = "done" /\ status' = ExitFailure /\ failed' = TRUE)
      BY DEF StartExternal
    <3>3. next' \in 1..N + 1
      BY <1>0, <3>1 DEF Stages
    <3> QED BY <3>1, <3>2, <3>3, TypeParts DEF IInv, ShellTypes
  <2>2. StageTypes'
    BY <1>0, TypeParts DEF IInv, StageTypes, StartExternal, StageStates
  <2>3. EndTypes'
    BY TypeParts, TypesKept, CloseTypes DEF IInv, StartExternal
  <2> QED BY <2>1, <2>2, <2>3, TypeParts, TypePartsNext, TypesKept DEF IInv, StartExternal, ioButEnds
<1>2. StartInOrder'
  <2>1. CASE failed' = TRUE /\ pc' = "done"
    BY <2>1 DEF StartInOrder
  <2>2. CASE UNCHANGED <<pc, failed>>
    <3>1. /\ next' = next + 1 /\ UNCHANGED kind
          /\ \A i \in Stages : i # next => stage'[i] = stage[i]
          /\ stage'[next] = "idle" <=> kind[next] = "builtin"
      BY <1>0, <2>2, TypeParts DEF IInv, StageTypes, ShellTypes, StartExternal
    <3>2. \A i \in Stages : stage[i] = "idle" <=> (kind[i] = "builtin" \/ i >= next)
      BY <1>0 DEF IInv, PipelineInv, StartInOrder
    <3>3. \A i \in Stages : i >= next + 1 <=> (i >= next /\ i # next)
      BY <1>0 DEF Stages
    <3> QED BY <1>0, <2>2, <3>1, <3>2, <3>3 DEF StartInOrder
  <2> QED BY <2>1, <2>2 DEF StartExternal
<1>3. OpenForWriting'
  <2>1. \A p \in Pipes : p # next =>
           (stage'[p] = stage[p] /\ wopen'[p] = wopen[p] /\ (pc = "done" => pc' = "done"))
    BY <1>0, TypeParts DEF IInv, StageTypes, EndTypes, StartExternal, CloseWriter
  <2>2. next \in Pipes => \/ stage'[next] = stage[next] /\ wopen'[next] = wopen[next] /\ pc' = pc
                          \/ stage'[next] = "looking" /\ wopen'[next] = wopen[next]
                          \/ stage'[next] = "gone" /\ ~wopen'[next]
                          \/ stage'[next] = "idle" /\ pc' = "done"
    BY <1>0, TypeParts DEF IInv, StageTypes, EndTypes, StartExternal, CloseWriter
  <2> QED BY <1>0, <2>1, <2>2 DEF IInv, PipelineInv, OpenForWriting, StartExternal, ioButEnds
<1>4. Conserved'
  BY BlocksKept DEF IInv, PipelineInv, StartExternal, CloseWriter
<1>5. StatusSoFar'
  <2>1. CASE failed' = TRUE
    BY <2>1 DEF StatusSoFar
  <2>2. CASE UNCHANGED <<pc, failed>>
    BY <2>2, StatusUnheard DEF IInv, PipelineInv, StartExternal, StartInOrder
  <2> QED BY <2>1, <2>2 DEF StartExternal
<1> QED BY <1>1, <1>2, <1>3, <1>4, <1>5 DEF IInv, PipelineInv

LEMMA StartBuiltinInv == IInv /\ StartBuiltin => IInv'
<1> SUFFICES ASSUME IInv, StartBuiltin PROVE IInv'
  OBVIOUS
<1> USE PipelineAssumption, StagesAndPipes
<1>0. /\ next \in Stages /\ kind[next] = "builtin" => stage[next] = "idle"
      /\ pc = "builtin" /\ ~failed
  BY DEF IInv, PipelineInv, StartInOrder, StartBuiltin, TypeOK, Stages
<1>1. TypeOK'
  <2>1. ShellTypes'
    BY <1>0, TypeParts DEF IInv, ShellTypes, StartBuiltin, Stages
  <2>2. StageTypes'
    BY <1>0, TypeParts DEF IInv, StageTypes, StartBuiltin, StageStates
  <2> QED BY <2>1, <2>2, TypeParts, TypePartsNext, TypesKept DEF IInv, StartBuiltin, iovars
<1>2. StartInOrder'
  BY <1>0, TypeParts DEF IInv, StageTypes, ShellTypes, PipelineInv, StartInOrder, StartBuiltin, Stages
<1>3. OpenForWriting'
  <2>1. \A p \in Pipes : \/ stage'[p] = stage[p]
                         \/ stage[p] = "idle" /\ stage'[p] = "running"
    BY <1>0, TypeParts DEF IInv, StageTypes, StartBuiltin
  <2> QED BY <1>0, <2>1 DEF IInv, PipelineInv, OpenForWriting, StartBuiltin, iovars
<1>4. Conserved'
  BY BlocksKept DEF IInv, PipelineInv, StartBuiltin, iovars, ioButEnds
<1>5. StatusSoFar'
  BY StatusUnheard DEF IInv, PipelineInv, StartBuiltin, StartInOrder
<1> QED BY <1>1, <1>2, <1>3, <1>4, <1>5 DEF IInv, PipelineInv

LEMMA NextLoopInv == IInv /\ NextLoop => IInv'
<1> SUFFICES ASSUME IInv, NextLoop PROVE IInv'
  OBVIOUS
<1> USE PipelineAssumption, StagesAndPipes
<1>1. TypeOK'
  <2>1. ShellTypes'
    BY TypeParts DEF IInv, ShellTypes, NextLoop
  <2> QED BY <2>1, TypeParts, TypePartsNext, TypesKept DEF IInv, NextLoop, iovars
<1>2. StartInOrder'
  <2>1. \A i \in Stages : i >= 1 /\ ~(i >= N + 1)
    BY DEF Stages
  <2>2. ~failed /\ next = N + 1 /\ next' = 1 /\ UNCHANGED <<kind, stage, failed>> /\ 1 \in Stages
    BY DEF IInv, PipelineInv, StartInOrder, NextLoop, Stages
  <2>3. CASE pc = "external" /\ pc' = "builtin"
    BY <2>1, <2>2, <2>3 DEF IInv, PipelineInv, StartInOrder
  <2>4. CASE pc = "builtin" /\ pc' = "wait"
    BY <2>1, <2>2, <2>4 DEF IInv, PipelineInv, StartInOrder
  <2> QED BY <2>3, <2>4 DEF NextLoop
<1>3. OpenForWriting'
  BY DEF IInv, PipelineInv, OpenForWriting, NextLoop, iovars
<1>4. Conserved'
  BY BlocksKept DEF IInv, PipelineInv, NextLoop, iovars, ioButEnds
<1>5. StatusSoFar'
  BY StatusUnheard DEF IInv, PipelineInv, NextLoop, StartInOrder
<1> QED BY <1>1, <1>2, <1>3, <1>4, <1>5 DEF IInv, PipelineInv

\* The status accounts for one stage more.
LEMMA WaitStageInv == IInv /\ WaitStage => IInv'
<1> SUFFICES ASSUME IInv, WaitStage PROVE IInv'
  OBVIOUS
<1> USE PipelineAssumption, StagesAndPipes
<1>0. next \in Stages /\ ~failed /\ code[next] \in Codes \cup {ExitFailure, 127, -1}
  BY DEF IInv, TypeOK, PipelineInv, StartInOrder, WaitStage
<1>1. TypeOK'
  <2>1. ShellTypes'
    BY <1>0, TypeParts DEF IInv, ShellTypes, WaitStage, StatusAfter, Stages
  <2> QED BY <2>1, TypeParts, TypePartsNext, TypesKept DEF IInv, WaitStage, iovars
<1>2. StartInOrder'
  BY <1>0 DEF IInv, PipelineInv, StartInOrder, WaitStage, Stages
<1>3. OpenForWriting'
  BY <1>0 DEF IInv, PipelineInv, StartInOrder, OpenForWriting, WaitStage, iovars
<1>4. Conserved'
  BY BlocksKept DEF IInv, PipelineInv, WaitStage, iovars, ioButEnds
<1>5. StatusSoFar'
  <2> DEFINE bad == {i \in HeardSoFar : code[i] # 0}
             badNext == {i \in HeardSoFar' : code'[i] # 0}
  <2>1. HeardSoFar' = HeardSoFar \cup {next} /\ \A i \in HeardSoFar : i < next
    BY <1>0 DEF HeardSoFar, WaitStage, Stages
  <2>2. /\ UNCHANGED <<code, pipefail, failed, stage>> /\ pc = "wait"
        /\ status' = StatusAfter(status, next, code[next])
        /\ pc' = "done" <=> next = N
    BY DEF WaitStage
  <2>3. \A i \in HeardSoFar' : Ended(i)'
    BY <1>0, <2>1, <2>2 DEF IInv, PipelineInv, StatusSoFar, WaitStage, Heard, Ended
  <2>4. /\ ~pipefail => status = 0
        /\ pipefail /\ bad = {} => status = 0
        /\ pipefail /\ bad # {} => \E i \in bad : status = code[i] /\ \A k \in bad : k <= i
    BY <1>0, <2>2 DEF IInv, PipelineInv, StatusSoFar
  <2>5. badNext = IF code[next] = 0 THEN bad ELSE bad \cup {next}
    BY <2>1, <2>2
  <2>6. \A i \in HeardSoFar : i \in Int
    BY DEF HeardSoFar, Stages
  <2>7. ~pipefail => status' = IF pc' = "done" THEN code[N] ELSE 0
    BY <2>2, <2>4 DEF StatusAfter
  <2>8. ASSUME pipefail, code[next] = 0
        PROVE  status' = status /\ badNext = bad
    BY <2>2, <2>4, <2>5, <2>8 DEF StatusAfter
  <2>9. ASSUME pipefail, code[next] # 0
        PROVE  status' = code[next] /\ next \in badNext /\ \A k \in badNext : k <= next
    BY <1>0, <2>1, <2>2, <2>5, <2>6, <2>9 DEF StatusAfter, Stages
  <2>10. /\ pipefail /\ badNext = {} => status' = 0
         /\ pipefail /\ badNext # {} =>
               \E i \in badNext : status' = code[i] /\ \A k \in badNext : k <= i
    <3> HIDE DEF bad, badNext
    <3> QED BY <2>4, <2>8, <2>9
  <2> QED BY <1>0, <2>2, <2>3, <2>7, <2>10 DEF StatusSoFar
<1> QED BY <1>1, <1>2, <1>3, <1>4, <1>5 DEF IInv, PipelineInv

-----------------------------------------------------------------------------
(* The steps of a stage.                                                    *)

LEMMA LaunchInv == ASSUME IInv, NEW i \in Stages, Launch(i) PROVE IInv'
<1> USE PipelineAssumption, StagesAndPipes
<1>0. /\ stage[i] = "looking" /\ stage'[i] \in {"running", "gone"}
      /\ \A j \in Stages : j # i => (stage'[j] = stage[j] /\ code'[j] = code[j])
      /\ Elsewhere
  BY TypeParts DEF IInv, StageTypes, Launch, Elsewhere
<1>1. TypeOK'
  <2>1. StageTypes'
    BY TypeParts DEF IInv, StageTypes, Launch, StageStates, ExitFailure
  <2>2. EndTypes'
    BY TypeParts, TypesKept, CloseTypes DEF IInv, Launch
  <2> QED BY <2>1, <2>2, TypeParts, TypePartsNext, TypesKept DEF IInv, Launch, ioButEnds
<1>2. StartInOrder'
  BY <1>0, OrderKept DEF IInv, PipelineInv
<1>3. OpenForWriting'
  <2>1. CASE stage'[i] = "running" /\ UNCHANGED wopen
    BY <1>0, <2>1 DEF IInv, PipelineInv, OpenForWriting, Launch, ioButEnds, shellvars
  <2>2. CASE stage'[i] = "gone" /\ CloseWriter(i)
    BY <1>0, <2>2, Closed DEF IInv, PipelineInv, OpenForWriting, Launch, ioButEnds, shellvars
  <2> QED BY <2>1, <2>2, TypeParts DEF IInv, StageTypes, Launch
<1>4. Conserved'
  <2>1. UNCHANGED wopen \/ CloseWriter(i)
    BY DEF Launch
  <2>2. \A p \in Pipes : wopen'[p] => wopen[p]
    BY <2>1, Closed
  <2> QED BY <2>2, BlocksKept DEF IInv, PipelineInv, Launch
<1>5. StatusSoFar'
  BY <1>0, StatusKept DEF IInv, PipelineInv, Ended
<1> QED BY <1>1, <1>2, <1>3, <1>4, <1>5 DEF IInv, PipelineInv

LEMMA KillStageInv == ASSUME IInv, NEW i \in Stages, KillStage(i) PROVE IInv'
<1> USE PipelineAssumption, StagesAndPipes
<1>0. /\ stage[i] = "running" /\ stage'[i] = "killed"
      /\ \A j \in Stages : j # i => stage'[j] = stage[j]
      /\ Elsewhere /\ UNCHANGED <<code, iovars, redirected>>
  BY TypeParts DEF IInv, StageTypes, KillStage, Elsewhere
<1>1. TypeOK'
  <2>1. StageTypes'
    BY TypeParts DEF IInv, StageTypes, KillStage, StageStates
  <2> QED BY <1>0, <2>1, TypeParts, TypePartsNext, TypesKept DEF IInv, Elsewhere, iovars
<1>2. StartInOrder'
  BY <1>0, OrderKept DEF IInv, PipelineInv
<1>3. OpenForWriting'
  BY <1>0 DEF IInv, PipelineInv, OpenForWriting, iovars, Elsewhere, shellvars
<1>4. Conserved'
  BY <1>0, BlocksKept DEF IInv, PipelineInv, iovars, ioButEnds
<1>5. StatusSoFar'
  BY <1>0, StatusKept DEF IInv, PipelineInv, Ended
<1> QED BY <1>1, <1>2, <1>3, <1>4, <1>5 DEF IInv, PipelineInv

LEMMA FinishInv == ASSUME IInv, NEW i \in Stages, Finish(i) PROVE IInv'
<1> USE PipelineAssumption, StagesAndPipes
<1>0. /\ stage[i] \in {"running", "killed"} /\ stage'[i] = "finished" /\ WritesDone(i)
      /\ \A j \in Stages : j # i => (stage'[j] = stage[j] /\ code'[j] = code[j])
      /\ Elsewhere /\ UNCHANGED <<ioButEnds, ropen, redirected>> /\ CloseWriter(i)
  BY TypeParts DEF IInv, StageTypes, Finish, Elsewhere
<1>1. TypeOK'
  <2>1. ExitCodes(i) \subseteq Codes \cup {ExitFailure, 127, -1}
    BY DEF ExitCodes
  <2>2. StageTypes'
    BY <2>1, TypeParts DEF IInv, StageTypes, Finish, StageStates
  <2>3. EndTypes'
    BY <1>0, TypeParts, TypesKept, CloseTypes DEF IInv
  <2> QED BY <1>0, <2>2, <2>3, TypeParts, TypePartsNext, TypesKept DEF IInv, Elsewhere, ioButEnds
<1>2. StartInOrder'
  BY <1>0, OrderKept DEF IInv, PipelineInv
<1>3. OpenForWriting'
  <2>1. i \in Pipes => ~inWrite[i]
    BY <1>0 DEF WritesDone, Pipes
  <2>2. UNCHANGED <<inWrite, pc>>
    BY <1>0 DEF ioButEnds, Elsewhere, shellvars
  <2> QED BY <1>0, <2>1, <2>2, Closed DEF IInv, PipelineInv, OpenForWriting
<1>4. Conserved'
  BY <1>0, BlocksKept, Closed DEF IInv, PipelineInv
<1>5. StatusSoFar'
  BY <1>0, StatusKept DEF IInv, PipelineInv, Ended
<1> QED BY <1>1, <1>2, <1>3, <1>4, <1>5 DEF IInv, PipelineInv

LEMMA ReportInv == ASSUME IInv, NEW i \in Stages, Report(i) PROVE IInv'
<1> USE PipelineAssumption, StagesAndPipes
<1>0. /\ stage[i] = "finished" /\ stage'[i] \in {"gone", "reported"}
      /\ \A j \in Stages : j # i => stage'[j] = stage[j]
      /\ Elsewhere /\ UNCHANGED <<code, iovars, redirected>>
  BY TypeParts DEF IInv, StageTypes, Report, Elsewhere
<1>1. TypeOK'
  <2>1. StageTypes'
    BY TypeParts DEF IInv, StageTypes, Report, StageStates
  <2> QED BY <1>0, <2>1, TypeParts, TypePartsNext, TypesKept DEF IInv, Elsewhere, iovars
<1>2. StartInOrder'
  BY <1>0, OrderKept DEF IInv, PipelineInv
<1>3. OpenForWriting'
  BY <1>0 DEF IInv, PipelineInv, OpenForWriting, iovars, Elsewhere, shellvars
<1>4. Conserved'
  BY <1>0, BlocksKept DEF IInv, PipelineInv, iovars, ioButEnds
<1>5. StatusSoFar'
  BY <1>0, StatusKept DEF IInv, PipelineInv, Ended
<1> QED BY <1>1, <1>2, <1>3, <1>4, <1>5 DEF IInv, PipelineInv

LEMMA HangUpInv == ASSUME IInv, NEW i \in Stages, HangUp(i) PROVE IInv'
<1> USE PipelineAssumption, StagesAndPipes
<1>0. /\ stage[i] = "reported" /\ stage'[i] = "over"
      /\ \A j \in Stages : j # i => stage'[j] = stage[j]
      /\ Elsewhere /\ UNCHANGED <<code, ioButEnds, wopen, redirected>> /\ CloseReader(i)
  BY TypeParts DEF IInv, StageTypes, HangUp, Elsewhere
<1>1. TypeOK'
  <2>1. StageTypes'
    BY TypeParts DEF IInv, StageTypes, HangUp, StageStates
  <2>2. EndTypes'
    BY <1>0, TypeParts, CloseTypes DEF IInv
  <2> QED BY <1>0, <2>1, <2>2, TypeParts, TypePartsNext, TypesKept DEF IInv, Elsewhere, ioButEnds
<1>2. StartInOrder'
  BY <1>0, OrderKept DEF IInv, PipelineInv
<1>3. OpenForWriting'
  BY <1>0 DEF IInv, PipelineInv, OpenForWriting, ioButEnds, Elsewhere, shellvars
<1>4. Conserved'
  BY <1>0, BlocksKept DEF IInv, PipelineInv
<1>5. StatusSoFar'
  BY <1>0, StatusKept DEF IInv, PipelineInv, Ended
<1> QED BY <1>1, <1>2, <1>3, <1>4, <1>5 DEF IInv, PipelineInv

\* Reading, writing and the time limit of a write change no stage.
LEMMA StagesStay ==
    ASSUME IInv, Elsewhere, UNCHANGED <<stage, code>>
    PROVE  StartInOrder' /\ StatusSoFar'
<1>1. \A i \in Stages : Ended(i) => (code'[i] = code[i] /\ Ended(i)')
  BY DEF Ended
<1> QED BY <1>1, OrderKept, StatusKept DEF IInv, PipelineInv

LEMMA ReadInv == ASSUME IInv, NEW i \in Stages, Read(i) PROVE IInv'
<1> USE PipelineAssumption, StagesAndPipes
<1>0. /\ Elsewhere /\ i - 1 \in Pipes /\ ~eof[i]
      /\ UNCHANGED <<stage, code, broken, timedOut, tried, wrote, inWrite, orphan, wopen, ropen, redirected>>
  BY DEF Read, Elsewhere
<1>1. TypeOK'
  <2>1. BlockTypes'
    <3>1. CASE fill[i - 1] > 0
      <4>1. fill[i - 1] - 1 \in 0..PipeCap
        BY <1>0, <3>1, TypeParts DEF IInv, BlockTypes
      <4>2. got[i] + 1 \in 0..MaxOut
        BY <1>0, <3>1, TypeParts DEF IInv, PipelineInv, Conserved, BlockTypes, FlagTypes
      <4> QED BY <1>0, <3>1, <4>1, <4>2, TypeParts DEF IInv, BlockTypes, Read
    <3>2. CASE ~(fill[i - 1] > 0)
      BY <1>0, <3>2, TypeParts DEF IInv, BlockTypes, Read
    <3> QED BY <3>1, <3>2
  <2>2. FlagTypes'
    BY <1>0, TypeParts DEF IInv, FlagTypes, Read
  <2> QED BY <1>0, <2>1, <2>2, TypeParts, TypePartsNext, TypesKept DEF IInv, Elsewhere
<1>2. StartInOrder' /\ StatusSoFar'
  BY <1>0, StagesStay
<1>3. OpenForWriting'
  BY <1>0 DEF IInv, PipelineInv, OpenForWriting, Elsewhere, shellvars
<1>4. Conserved'
  <2>1. \A p \in Pipes : /\ fill'[p] + got'[p + 1] = fill[p] + got[p + 1]
                         /\ eof'[p + 1] => \/ eof[p + 1] /\ fill'[p] = fill[p]
                                           \/ ~wopen[p] /\ fill'[p] = 0
    BY <1>0, TypeParts DEF IInv, PipelineInv, Conserved, BlockTypes, FlagTypes, Read
  <2>2. \A p \in Pipes : fill[p] \in Nat /\ fill'[p] \in Nat /\ got[p + 1] \in Nat /\ got'[p + 1] \in Nat
    BY <1>1, TypeParts, TypePartsNext DEF IInv, BlockTypes
  <2> QED BY <1>0, <2>1, <2>2, TypeParts DEF IInv, PipelineInv, Conserved, BlockTypes
<1> QED BY <1>1, <1>2, <1>3, <1>4 DEF IInv, PipelineInv

LEMMA WriteInv == ASSUME IInv, NEW i \in Stages, Write(i) PROVE IInv'
<1> USE PipelineAssumption, StagesAndPipes
<1>0. /\ Elsewhere /\ i \in Pipes /\ ~inWrite[i] /\ stage[i] \in {"running", "killed"} /\ tried[i] < MaxOut
      /\ inWrite' = [inWrite EXCEPT ![i] = TRUE] /\ tried' = [tried EXCEPT ![i] = @ + 1]
      /\ UNCHANGED <<stage, code, broken, timedOut, wrote, got, eof, fill, orphan, wopen, ropen, redirected>>
  BY DEF Write, Elsewhere
<1>1. TypeOK'
  <2>1. BlockTypes'
    BY <1>0, TypeParts DEF IInv, BlockTypes
  <2>2. FlagTypes'
    BY <1>0, TypeParts DEF IInv, FlagTypes
  <2> QED BY <1>0, <2>1, <2>2, TypeParts, TypePartsNext, TypesKept DEF IInv, Elsewhere
<1>2. StartInOrder' /\ StatusSoFar'
  BY <1>0, StagesStay
<1>3. OpenForWriting'
  BY <1>0, TypeParts DEF IInv, FlagTypes, PipelineInv, OpenForWriting, Elsewhere, shellvars
<1>4. Conserved'
  BY <1>0, TypeParts DEF IInv, PipelineInv, Conserved, BlockTypes, FlagTypes
<1> QED BY <1>1, <1>2, <1>3, <1>4 DEF IInv, PipelineInv

LEMMA WriteEndInv == ASSUME IInv, NEW i \in Stages, WriteEnd(i) PROVE IInv'
<1> USE PipelineAssumption, StagesAndPipes
<1>0. /\ Elsewhere /\ i \in Pipes /\ inWrite[i] /\ orphan[i] = 0
      /\ inWrite' = [inWrite EXCEPT ![i] = FALSE]
      /\ UNCHANGED <<stage, code, timedOut, tried, got, eof, orphan, wopen, ropen, redirected>>
  BY DEF WriteEnd, Elsewhere
<1>1. \/ /\ fill[i] # PipeCap /\ UNCHANGED broken
         /\ fill' = [fill EXCEPT ![i] = @ + 1] /\ wrote' = [wrote EXCEPT ![i] = @ + 1]
      \/ broken' = [broken EXCEPT ![i] = TRUE] /\ UNCHANGED <<fill, wrote>>
  BY DEF WriteEnd, Blocked
<1>2. wrote[i] + 1 <= tried[i] /\ wopen[i] /\ ~eof[i + 1]
  BY <1>0, TypeParts DEF IInv, PipelineInv, Conserved, OpenForWriting, BlockTypes
<1>3. TypeOK'
  <2>1. BlockTypes'
    BY <1>0, <1>1, <1>2, TypeParts DEF IInv, BlockTypes
  <2>2. FlagTypes'
    BY <1>0, <1>1, TypeParts DEF IInv, FlagTypes
  <2> QED BY <1>0, <2>1, <2>2, TypeParts, TypePartsNext, TypesKept DEF IInv, Elsewhere
<1>4. StartInOrder' /\ StatusSoFar'
  BY <1>0, StagesStay
<1>5. OpenForWriting'
  BY <1>0, TypeParts DEF IInv, FlagTypes, PipelineInv, OpenForWriting, Elsewhere, shellvars
<1>6. Conserved'
  BY <1>0, <1>1, <1>2, TypeParts DEF IInv, PipelineInv, Conserved, BlockTypes, FlagTypes
<1> QED BY <1>3, <1>4, <1>5, <1>6 DEF IInv, PipelineInv

LEMMA WriteTimeoutInv == ASSUME IInv, NEW i \in Stages, WriteTimeout(i) PROVE IInv'
<1> USE PipelineAssumption, StagesAndPipes
<1>0. /\ Elsewhere /\ i \in Pipes /\ inWrite[i]
      /\ inWrite' = [inWrite EXCEPT ![i] = FALSE] /\ orphan' = [orphan EXCEPT ![i] = @ + 1]
      /\ broken' = [broken EXCEPT ![i] = TRUE] /\ timedOut' = [timedOut EXCEPT ![i] = TRUE]
      /\ UNCHANGED <<stage, code, tried, wrote, got, eof, fill, wopen, ropen, redirected>>
  BY DEF WriteTimeout, Elsewhere, ioButWrites
<1>1. orphan[i] + 1 <= tried[i]
  BY <1>0, TypeParts DEF IInv, PipelineInv, Conserved, BlockTypes
<1>2. TypeOK'
  <2>1. BlockTypes'
    BY <1>0, <1>1, TypeParts DEF IInv, BlockTypes
  <2>2. FlagTypes'
    BY <1>0, TypeParts DEF IInv, FlagTypes
  <2> QED BY <1>0, <2>1, <2>2, TypeParts, TypePartsNext, TypesKept DEF IInv, Elsewhere
<1>3. StartInOrder' /\ StatusSoFar'
  BY <1>0, StagesStay
<1>4. OpenForWriting'
  BY <1>0, TypeParts DEF IInv, FlagTypes, PipelineInv, OpenForWriting, Elsewhere, shellvars
<1>5. Conserved'
  BY <1>0, TypeParts DEF IInv, PipelineInv, Conserved, BlockTypes, FlagTypes
<1> QED BY <1>2, <1>3, <1>4, <1>5 DEF IInv, PipelineInv

LEMMA OrphanEndInv == ASSUME IInv, NEW i \in Stages, OrphanEnd(i) PROVE IInv'
<1> USE PipelineAssumption, StagesAndPipes
<1>0. /\ Elsewhere /\ i \in Pipes /\ orphan[i] > 0 /\ orphan' = [orphan EXCEPT ![i] = @ - 1]
      /\ UNCHANGED <<stage, code, broken, timedOut, tried, wrote, got, eof, inWrite, wopen, ropen,
                     redirected>>
  BY DEF OrphanEnd, Elsewhere
<1>1. \/ fill[i] # PipeCap /\ wopen[i] /\ fill' = [fill EXCEPT ![i] = @ + 1]
      \/ UNCHANGED fill
  BY <1>0 DEF OrphanEnd, Blocked
<1>2. TypeOK'
  <2>1. orphan' \in [Pipes -> 0..MaxOut]
    <3>1. orphan[i] - 1 \in 0..MaxOut
      BY <1>0, TypeParts DEF IInv, BlockTypes
    <3> QED BY <1>0, <3>1, TypeParts DEF IInv, BlockTypes
  <2>2. fill' \in [Pipes -> 0..PipeCap]
    BY <1>0, <1>1, TypeParts DEF IInv, BlockTypes
  <2>3. BlockTypes'
    BY <1>0, <2>1, <2>2, TypeParts DEF IInv, BlockTypes
  <2> QED BY <1>0, <2>3, TypeParts, TypePartsNext, TypesKept DEF IInv, Elsewhere
<1>3. StartInOrder' /\ StatusSoFar'
  BY <1>0, StagesStay
<1>4. OpenForWriting'
  BY <1>0 DEF IInv, PipelineInv, OpenForWriting, Elsewhere, shellvars
<1>5. Conserved'
  BY <1>0, <1>1, TypeParts DEF IInv, PipelineInv, Conserved, BlockTypes
<1> QED BY <1>2, <1>3, <1>4, <1>5 DEF IInv, PipelineInv

LEMMA StageInv == ASSUME IInv, NEW i \in Stages, Stage(i) PROVE IInv'
  BY LaunchInv, ReadInv, WriteInv, WriteEndInv, WriteTimeoutInv, OrphanEndInv, KillStageInv,
     FinishInv, ReportInv, HangUpInv DEF Stage

LEMMA StutterInv == IInv /\ UNCHANGED vars => IInv'
<1> SUFFICES ASSUME IInv, UNCHANGED vars PROVE IInv'
  OBVIOUS
<1>1. TypeOK'
  BY TypeParts, TypePartsNext, TypesKept DEF IInv, vars, shellvars, iovars
<1>2. StartInOrder' /\ StatusSoFar'
  BY StagesStay DEF vars, Elsewhere
<1>3. OpenForWriting'
  BY DEF IInv, PipelineInv, OpenForWriting, vars, shellvars, iovars
<1>4. Conserved'
  BY BlocksKept DEF IInv, PipelineInv, vars, iovars, ioButEnds
<1> QED BY <1>1, <1>2, <1>3, <1>4 DEF IInv, PipelineInv

-----------------------------------------------------------------------------
(* The theorems.                                                            *)

\* Types and the strengthening hold of every pipeline.
THEOREM InvHolds == Spec => [](TypeOK /\ PipelineInv)
<1>1. Init => IInv
  BY InitInv
<1>2. IInv /\ [Next]_vars => IInv'
  <2> SUFFICES ASSUME IInv, [Next]_vars PROVE IInv'
    OBVIOUS
  <2>1. CASE Shell
    BY <2>1, StartExternalInv, StartBuiltinInv, NextLoopInv, WaitStageInv DEF Shell
  <2>2. CASE \E i \in Stages : Stage(i)
    BY <2>2, StageInv
  <2>3. CASE AllOver \/ UNCHANGED vars
    BY <2>3, StutterInv DEF AllOver
  <2> QED BY <2>1, <2>2, <2>3 DEF Next
<1> QED BY <1>1, <1>2, PTL DEF Spec, IInv

\* The end of its input tells a stage that it has read what was written.
THEOREM EofHolds == Spec => []EofIsHonest
<1>1. TypeOK /\ PipelineInv => EofIsHonest
  BY StagesAndPipes, TypeParts, PipelineAssumption
     DEF PipelineInv, OpenForWriting, Conserved, EofIsHonest, BlockTypes
<1> QED BY <1>1, InvHolds, PTL

\* When the shell goes on, every stage is over and every pipe written.
THEOREM ReturnHolds == Spec => []ReturnHearsAll
<1>1. TypeOK /\ PipelineInv => ReturnHearsAll
  BY StagesAndPipes
     DEF PipelineInv, OpenForWriting, StatusSoFar, HeardSoFar, Ended, ReturnHearsAll
<1> QED BY <1>1, InvHolds, PTL

\* The status is that of the last stage, or with pipefail of the last bad one.
THEOREM StatusHolds == Spec => []StatusIsReference
<1>1. TypeOK /\ PipelineInv => StatusIsReference
  <2> SUFFICES ASSUME PipelineInv, pc = "done", ~failed PROVE StatusIsReference
    BY DEF StatusIsReference
  <2> DEFINE bad == {i \in Stages : code[i] # 0}
  <2>1. HeardSoFar = Stages
    BY DEF HeardSoFar
  <2>2. /\ ~pipefail => status = code[N]
        /\ pipefail /\ bad = {} => status = 0
        /\ pipefail /\ bad # {} => \E i \in bad : status = code[i] /\ \A k \in bad : k <= i
    BY <2>1 DEF PipelineInv, StatusSoFar
  <2>3. ASSUME NEW i \in bad, \A k \in bad : k <= i
        PROVE  i = CHOOSE j \in bad : \A k \in bad : k <= j
    BY <2>3 DEF Stages
  <2> QED BY <2>2, <2>3 DEF StatusIsReference
<1> QED BY <1>1, InvHolds, PTL
=============================================================================
