------------------------------ MODULE SedEngine ------------------------------
(***************************************************************************)
(* The engine of src/pkg/applets/sed/sed.go: a cycle for each line, the     *)
(* commands of a script and of its groups, pattern and hold space, ranges,  *)
(* branches, the text that a queues, and the newline at the end.            *)
(*                                                                         *)
(* A script is a sequence of commands; in is the index of the group a       *)
(* command is in, 0 outside of groups.  A text is a sequence of letters and *)
(* NL; a regular expression is a letter.                                    *)
(***************************************************************************)
EXTENDS Naturals, SequencesExt, FiniteSets

VARIABLES
    prog, quiet,    \* the script, and -n
    input, noNL,    \* lines, and the numbers of those without a newline
    lr,             \* how many lines are read
    lineNum,
    pat, hold,      \* pattern and hold space
    pc,             \* the command that is next, and the list it is in
    lastLine,       \* for each list, the lastLine that execCmds was called with
    appendText,     \* what a has queued in this cycle
    subst,          \* substituted
    lastRegex,
    rangeActive, rangeStart,
    cycles,         \* lastFullCycleLine and prevCycleLine
    out,            \* [line, text, by]: what has been written
    lastOut,        \* lastOutputLineNum, and whether lastWasAppend
    picked,         \* history: [cmd, line] a numbered range was tried on, and if it took it at first
    queued          \* history: how many texts a has queued

source  == <<prog, quiet, input, noNL>>
ranges  == <<rangeActive, rangeStart, lastRegex, picked>>
output  == <<out, lastOut>>
sed == <<source, lr, lineNum, pat, hold, pc, lastLine, appendText, subst, ranges, cycles, queued,
         output>>

NL == "NL"
NoRegex == "none"

\* While commands run pc.at is the next, 0 at the end of its list pc.in; else
\* flow says how the cycle ended, that a line is next, or that all is done.
AtCmd(i, l) == [at |-> i, in |-> l, flow |-> "run"]
Line     == [at |-> 0, in |-> 0, flow |-> "line"]
Done     == [at |-> 0, in |-> 0, flow |-> "done"]
Flow(f)  == [at |-> 0, in |-> 0, flow |-> f]

\* The commands of a list are those with the same in.
Members(l) == {i \in DOMAIN prog : prog[i].in = l}
LeastOf(S) == IF S = {} THEN 0 ELSE CHOOSE i \in S : \A j \in S : i <= j
FirstOf(l) == AtCmd(LeastOf(Members(l)), l)
Next1(i)   == AtCmd(LeastOf({j \in Members(prog[i].in) : j > i}), prog[i].in)

SedInit(programs, inputs) ==
    /\ prog \in programs /\ input \in inputs
    /\ quiet \in BOOLEAN /\ noNL \in {{}, {Len(input)}}
    /\ lr = 0 /\ lineNum = 0 /\ pat = <<>> /\ hold = <<>> /\ pc = Line
    /\ lastLine = [l \in 0..Len(prog) |-> FALSE]
    /\ appendText = <<>> /\ subst = FALSE /\ lastRegex = NoRegex
    /\ rangeActive = {} /\ rangeStart = [i \in DOMAIN prog |-> 0]
    /\ cycles = [last |-> 0, prev |-> 0]
    /\ out = <<>> /\ lastOut = [line |-> 0, append |-> FALSE]
    /\ picked = {} /\ queued = 0

-----------------------------------------------------------------------------
(* Addresses.                                                               *)

Matches(re, text) == \E i \in DOMAIN text : text[i] = re

AddrHolds(a, text, num, last) ==
    CASE a.kind = "last"  -> last
      [] a.kind = "re"    -> Matches(a.re, text)
      [] a.kind = "reuse" -> lastRegex # NoRegex /\ Matches(lastRegex, text)
      [] a.kind = "step"  -> IF a.n = 0 THEN num % a.step = 0
                             ELSE num >= a.n /\ (num - a.n) % a.step = 0
      [] OTHER            -> num = a.n

\* addrMatch, with lastLine as it was when the list began.
AddrMatch(a, l) == AddrHolds(a, pat, lineNum, lastLine[l])

IsRange(c) == c.a1.kind # "none" /\ c.a2.kind # "none"

\* The lists that list l is in, l too: the fewest that have with each list the one around it.
Around(p, l) == {k \in 0..Len(p) : \A S \in SUBSET (0..Len(p)) :
                   (l \in S /\ \A j \in S \ {0} : p[j].in \in S) => k \in S}
Within(l) == {i \in DOMAIN prog : l \in Around(prog, prog[i].in)}
\* preActivateRanges: the ranges of a list and of the groups in it that begin at
\* this line, also those of commands that are not reached.
BeginLists(l, active, start, text, num, last) ==
    LET fresh == {i \in Within(l) : /\ IsRange(prog[i]) /\ i \notin active
                                    /\ AddrHolds(prog[i].a1, text, num, last)}
    IN /\ rangeActive' = active \union fresh
       /\ rangeStart' = [i \in DOMAIN prog |-> IF i \in fresh THEN num ELSE start[i]]

\* A line that N or n has skipped begins a range too.
Skipped(a) == /\ cycles.prev > 0 /\ a.kind \in {"line", "step"}
              /\ a.n > cycles.prev /\ a.n < lineNum

\* Mutated: a range ends only at its very last line.
EndMatchExact(i, l) ==
    LET a == prog[i].a2 IN
    CASE a.kind = "plus" -> lineNum = rangeStart[i] + a.n
      [] a.kind \in {"line", "step"} -> lineNum = a.n
      [] a.kind = "last" -> lastLine[l]
      [] a.kind = "re"   -> Matches(a.re, pat)
      [] OTHER           -> FALSE

EndMatch(i, l) ==
    LET a == prog[i].a2 IN
    CASE a.kind = "plus" -> lineNum >= rangeStart[i] + a.n
      [] a.kind \in {"line", "step"} -> a.n > 0 /\ lineNum >= a.n
      [] a.kind = "last" -> lastLine[l]
      [] a.kind = "re"   -> Matches(a.re, pat)
      [] OTHER           -> FALSE

\* What matches says of command i, and what it makes of the range.
Selection(i) ==
    LET c == prog[i]  l == c.in
        begins == AddrMatch(c.a1, l) \/ Skipped(c.a1)
        short  == \/ c.a2.kind = "plus" /\ c.a2.n = 0
                  \/ c.a2.kind \in {"line", "step"} /\ c.a2.n \in 1..lineNum
    IN CASE c.a1.kind = "none" -> [takes |-> TRUE, active |-> FALSE, start |-> 0]
         [] c.a1.kind # "none" /\ c.a2.kind = "none" ->
              [takes |-> AddrMatch(c.a1, l), active |-> FALSE, start |-> 0]
         [] IsRange(c) /\ i \notin rangeActive ->
              [takes |-> begins, active |-> begins /\ (c.neg \/ ~short),
               start |-> IF begins THEN lineNum ELSE rangeStart[i]]
         [] OTHER -> [takes |-> TRUE, active |-> ~EndMatch(i, l), start |-> rangeStart[i]]

\* 0 is no number of a line.
NumberedRange(c) == c.a1.kind = "line" /\ c.a2.kind = "line" /\ c.a1.n > 0 /\ c.a2.n > 0

ActiveAfter(i) == IF Selection(i).active THEN rangeActive \union {i} ELSE rangeActive \ {i}
StartAfter(i)  == [rangeStart EXCEPT ![i] = Selection(i).start]
RegexAfter(i)  == IF prog[i].a1.kind = "re" /\ i \notin rangeActive /\ Matches(prog[i].a1.re, pat)
                  THEN prog[i].a1.re ELSE lastRegex

\* What matches leaves behind when it was asked for command i.
TrackRange(i) == rangeActive' = ActiveAfter(i) /\ rangeStart' = StartAfter(i)
Tried(i) == picked' = IF NumberedRange(prog[i]) /\ ~\E p \in picked : p.cmd = i /\ p.line = lineNum
    THEN picked \union {[cmd |-> i, line |-> lineNum, takes |-> Selection(i).takes]} ELSE picked
Match(i) == TrackRange(i) /\ lastRegex' = RegexAfter(i) /\ Tried(i)

Runs(i) == Selection(i).takes # prog[i].neg

-----------------------------------------------------------------------------
(* The cycle.                                                               *)

Write(by, text) == out' = Append(out, [line |-> lineNum, text |-> text, by |-> by])

\* run and processLine: the next line, or the end.
BeginCycle ==
    /\ pc = Line /\ lr < Len(input)
    /\ lr' = lr + 1 /\ lineNum' = lineNum + 1 /\ pat' = input[lr + 1]
    /\ subst' = FALSE /\ appendText' = <<>>
    /\ cycles' = [last |-> lineNum + 1, prev |-> cycles.last]
    /\ pc' = FirstOf(0)
    /\ lastLine' = [lastLine EXCEPT ![0] = lr + 1 = Len(input)]
    /\ BeginLists(0, rangeActive, rangeStart, input[lr + 1], lineNum + 1, lr + 1 = Len(input))
    /\ UNCHANGED <<source, hold, lastRegex, picked, queued, output>>

EndOfInput ==
    /\ pc = Line /\ lr = Len(input)
    /\ pc' = Done
    /\ UNCHANGED <<source, lr, lineNum, pat, hold, lastLine, appendText, subst, ranges, cycles, queued, output>>

CycleAppends == IF pc.flow = "quitSilent" THEN <<>> ELSE appendText

\* The end of a cycle: the pattern space, then what a has queued.  Only the
\* normal end keeps account of the line that was written last.
Flows == {"normal", "delete", "quit", "quitSilent"}
EndCycle ==
    /\ pc.flow \in Flows
    /\ LET printed == pc.flow \in {"normal", "quit"} /\ ~quiet
           texts   == [k \in DOMAIN CycleAppends |->
                         [line |-> lineNum, text |-> CycleAppends[k], by |-> "a"]]
       IN /\ out' = (IF printed THEN Append(out, [line |-> lineNum, text |-> pat, by |-> "print"])
                     ELSE out) \o texts
          /\ lastOut' = [line |-> IF pc.flow = "normal" /\ (printed \/ texts # <<>>)
                                  THEN lineNum ELSE lastOut.line,
                         append |-> texts # <<>> \/ (lastOut.append /\ ~printed)]
    /\ appendText' = <<>>
    /\ pc' = IF pc.flow \in {"quit", "quitSilent"} THEN Done ELSE Line
    /\ UNCHANGED <<source, lr, lineNum, pat, hold, lastLine, subst, ranges, cycles, queued>>

\* The end of a list: of a group, whose command is done, or of the script.
EndOfList ==
    /\ pc.flow = "run" /\ pc.at = 0
    /\ pc' = IF pc.in = 0 THEN Flow("normal") ELSE Next1(pc.in)
    /\ UNCHANGED <<source, lr, lineNum, pat, hold, lastLine, appendText, subst, ranges, cycles, queued, output>>

-----------------------------------------------------------------------------
(* Commands.                                                                *)

Cmd(names) == pc.flow = "run" /\ pc.at # 0 /\ prog[pc.at].cmd \in names
Selected(names) == Cmd(names) /\ Runs(pc.at) /\ Match(pc.at)
Here == prog[pc.at]
Onward == pc' = Next1(pc.at)

NotSelected ==
    /\ pc.flow = "run" /\ pc.at # 0 /\ ~Runs(pc.at) /\ Match(pc.at) /\ Onward
    /\ UNCHANGED <<source, lr, lineNum, pat, hold, lastLine, appendText, subst, cycles, queued, output>>

\* { begins the list of the group.
Group ==
    /\ Cmd({"{"}) /\ Runs(pc.at)
    /\ lastLine' = [lastLine EXCEPT ![pc.at] = lastLine[Here.in]]
    /\ BeginLists(pc.at, ActiveAfter(pc.at), StartAfter(pc.at), pat, lineNum, lastLine[Here.in])
    /\ lastRegex' = RegexAfter(pc.at) /\ Tried(pc.at)
    /\ pc' = FirstOf(pc.at)
    /\ UNCHANGED <<source, lr, lineNum, pat, hold, appendText, subst, cycles, queued, output>>

\* d, q, Q and c end the cycle; c is silent until its range ends.
Ending ==
    /\ Selected({"d", "q", "Q", "c"})
    /\ pc' = Flow(CASE Here.cmd = "q" -> "quit" [] Here.cmd = "Q" -> "quitSilent"
                    [] OTHER -> "delete")
    /\ IF Here.cmd = "c" /\ (Here.a2.kind = "none" \/ pc.at \notin rangeActive')
       THEN Write("c", Here.text) ELSE UNCHANGED out
    /\ UNCHANGED <<source, lr, lineNum, pat, hold, lastLine, appendText, subst, cycles, queued, lastOut>>

\* p, P, l, =, i and r write at once; only p keeps account of it.
UpTo(text) == LET nls == {i \in DOMAIN text : text[i] = NL} IN
    IF nls = {} THEN text ELSE SubSeq(text, 1, LeastOf(nls) - 1)
Writing ==
    /\ Selected({"p", "P", "i", "=", "l", "r"}) /\ Onward
    /\ Write(Here.cmd, CASE Here.cmd \in {"p", "l"} -> pat [] Here.cmd = "P" -> UpTo(pat)
                         [] OTHER -> Here.text)
    /\ lastOut' = IF Here.cmd = "p" THEN [line |-> lineNum, append |-> FALSE] ELSE lastOut
    /\ UNCHANGED <<source, lr, lineNum, pat, hold, lastLine, appendText, subst, cycles, queued>>

Queue ==
    /\ Selected({"a"}) /\ Onward
    /\ appendText' = Append(appendText, Here.text) /\ queued' = queued + 1
    /\ UNCHANGED <<source, lr, lineNum, pat, hold, lastLine, subst, cycles, output>>

\* h, H, g, G, x, y and z.
Spaces ==
    /\ Selected({"h", "H", "g", "G", "x", "y", "z"}) /\ Onward
    /\ pat' = CASE Here.cmd \in {"g", "x"} -> hold [] Here.cmd = "z" -> <<>>
                [] Here.cmd = "y" -> [i \in DOMAIN pat |-> IF pat[i] = Here.re THEN Here.to ELSE pat[i]]
                [] Here.cmd = "G" -> pat \o <<NL>> \o hold [] OTHER -> pat
    /\ hold' = CASE Here.cmd \in {"h", "x"} -> pat [] Here.cmd = "H" -> hold \o <<NL>> \o pat
                 [] OTHER -> hold
    /\ UNCHANGED <<source, lr, lineNum, lastLine, appendText, subst, cycles, queued, output>>

BeginAgain(l) == FirstOf(l)

\* D: with a newline the rest is the pattern space, and its list begins again.
DeleteFirst ==
    /\ Selected({"D"})
    /\ IF Matches(NL, pat)
       THEN /\ pat' = SubSeq(pat, Len(UpTo(pat)) + 2, Len(pat))
            /\ pc' = BeginAgain(Here.in)
            /\ lastLine' = [lastLine EXCEPT ![Here.in] = lr = Len(input)]
       ELSE pc' = Flow("delete") /\ UNCHANGED <<pat, lastLine>>
    /\ UNCHANGED <<source, lr, lineNum, hold, appendText, subst, cycles, queued, output>>

More == lr < Len(input)

\* n: writes the pattern space, reads the next line, or ends the script.
NextLine ==
    /\ Selected({"n"})
    /\ IF quiet THEN UNCHANGED out ELSE Write("print", pat)
    /\ IF More
       THEN /\ lr' = lr + 1 /\ lineNum' = lineNum + 1 /\ pat' = input[lr + 1]
            /\ subst' = FALSE /\ Onward
       ELSE pat' = <<>> /\ pc' = Flow("delete") /\ UNCHANGED <<lr, lineNum, subst>>
    /\ UNCHANGED <<source, hold, lastLine, appendText, cycles, queued, lastOut>>

PrintAtEnd == IF quiet THEN UNCHANGED out ELSE Write("print", pat)

\* N: adds the next line, or writes the pattern space and quits.
JoinLine ==
    /\ Selected({"N"})
    /\ IF More
       THEN /\ lr' = lr + 1 /\ lineNum' = lineNum + 1 /\ pat' = pat \o <<NL>> \o input[lr + 1]
            /\ Onward /\ UNCHANGED out
       ELSE PrintAtEnd /\ pc' = Flow("quitSilent") /\ UNCHANGED <<lr, lineNum, pat>>
    /\ UNCHANGED <<source, hold, lastLine, appendText, subst, cycles, queued, lastOut>>

\* s: the first, the n-th or all of what matches, or with an empty expression
\* the last one that matched.
Replaced(re, c) ==
    LET hits == {i \in DOMAIN pat : pat[i] = re}
        nth(i) == Cardinality({j \in hits : j <= i})
    IN [i \in DOMAIN pat |-> IF i \in hits /\ (c.all \/ nth(i) = c.n) THEN c.to ELSE pat[i]]
Substitute ==
    /\ Cmd({"s"}) /\ Runs(pc.at) /\ TrackRange(pc.at) /\ Tried(pc.at) /\ Onward
    /\ LET re  == IF Here.re # NoRegex THEN Here.re ELSE RegexAfter(pc.at)
           new == Replaced(re, Here)
       IN /\ lastRegex' = re /\ pat' = new
          /\ subst' = (subst \/ new # pat)
          /\ IF Here.p /\ new # pat
             THEN Write("p", new) /\ lastOut' = [line |-> lineNum, append |-> FALSE]
             ELSE UNCHANGED output
    /\ UNCHANGED <<source, lr, lineNum, hold, lastLine, appendText, cycles, queued>>

\* b, t, T: to a label of the same list; without one, or if the label is in
\* another list, to the end of the list.
Branch ==
    /\ Selected({"b", "t", "T"})
    /\ LET jumps == CASE Here.cmd = "t" -> subst [] Here.cmd = "T" -> ~subst [] OTHER -> TRUE
           labels == {j \in Members(Here.in) : prog[j].cmd = ":" /\ prog[j].label = Here.label}
       IN /\ IF ~jumps THEN Onward
             ELSE IF Here.label = "" \/ labels = {} THEN pc' = AtCmd(0, Here.in)
             ELSE pc' = Next1(LeastOf(labels))
          /\ subst' = (subst /\ ~(jumps /\ Here.cmd = "t"))
    /\ UNCHANGED <<source, lr, lineNum, pat, hold, lastLine, appendText, cycles, queued, output>>

Label ==
    /\ Selected({":"}) /\ Onward
    /\ UNCHANGED <<source, lr, lineNum, pat, hold, lastLine, appendText, subst, cycles, queued, output>>

Finished == pc = Done /\ UNCHANGED sed

SedNext ==
    \/ BeginCycle \/ EndOfInput \/ EndCycle \/ EndOfList \/ NotSelected \/ Group
    \/ Ending \/ Writing \/ Queue \/ Spaces \/ DeleteFirst \/ NextLine \/ JoinLine
    \/ Substitute \/ Branch \/ Label \/ Finished

-----------------------------------------------------------------------------
(* Properties.                                                              *)

Commands == {prog[i].cmd : i \in DOMAIN prog}
Joined(texts) == FlattenSeq([k \in DOMAIN texts |-> IF k = 1 THEN texts[1] ELSE <<NL>> \o texts[k]])
Texts(by) == FlattenSeq([k \in DOMAIN out |-> IF out[k].by = by THEN <<out[k].text>> ELSE <<>>])
Text(by) == Joined(Texts(by))

\* A script that only adds to the output, reads ahead and branches prints every
\* line of the input once and in order, also those that n and N have read, and
\* at the end of the input.
LinesKept == pc = Done /\ ~quiet
    /\ Commands \subseteq {"p", "P", "i", "a", "=", "l", "r", "h", "H", "n", "N", "b", "t", "T", ":", "{"}
    => Text("print") = Joined(input)

\* The text that a queues is written before the next line is begun, and at the
\* end; Q, and N at the end of the input, leave it out.
AppendsWritten == pc \in {Line, Done} /\ Commands \intersect {"Q", "N"} = {}
    => Cardinality({k \in DOMAIN out : out[k].by = "a"}) = queued

\* A numbered range takes every line of it that it is tried on, when it is tried
\* there for the first time, and no line before it.  After it, in a script that
\* never goes back, it takes at most one: the first it is tried on, if it was not
\* tried on the last line of the range (a command before it may have deleted that
\* one, or have skipped the group it is in).  A script that does go back may leave
\* the range on: one with !, and one in a group that is entered twice.
RangesEnd == Commands \intersect {"n", "N"} = {} =>
    \A p \in picked :
        LET c == prog[p.cmd]  last == IF c.a2.n < c.a1.n THEN c.a1.n ELSE c.a2.n IN
        /\ p.line \in c.a1.n..last => p.takes
        /\ p.line < c.a1.n => ~p.takes
        /\ p.line > last /\ p.takes /\ Commands \intersect {"D", "b", "t", "T"} = {} =>
             ~\E q \in picked : q.cmd = p.cmd /\ q.line \in last..(p.line - 1)

\* 1!G;h;$!d writes the lines in reverse order, $!N;P;D as they are.
Reversed(s) == [k \in DOMAIN s |-> s[Len(s) + 1 - k]]
Scripts == [c \in DOMAIN prog |-> <<prog[c].a1.kind, prog[c].neg, prog[c].cmd>>]
OneAddress == \A c \in DOMAIN prog : prog[c].a2.kind = "none"
Tac == <<<<"line", TRUE, "G">>, <<"none", FALSE, "h">>, <<"last", TRUE, "d">>>>
Pairs == <<<<"last", TRUE, "N">>, <<"none", FALSE, "P">>, <<"none", FALSE, "D">>>>
WellKnown == pc = Done /\ OneAddress =>
    /\ Scripts = Tac /\ prog[1].a1.n = 1 /\ ~quiet => Text("print") = Joined(Reversed(input))
    /\ Scripts = Pairs => Joined([k \in DOMAIN out |-> out[k].text]) = Joined(input)

\* The last newline is left out if and only if the line that was written last is a line of
\* the input without one.  Not so with commands that write or end a cycle on their own: they
\* keep no account of the line that was written last.
StripsNewline == out # <<>> /\ ~lastOut.append /\ lastOut.line \in noNL
FinalNewline == pc = Done /\ out # <<>> /\ Commands \intersect {"q", "n", "N", "P", "D", "i", "c", "=", "l", "r"} = {} =>
    LET o == out[Len(out)] IN StripsNewline <=> o.by \in {"print", "p"} /\ o.line \in noNL

\* What sed makes of its input, cycle by cycle.  (process, execCmds, matchAddr)
SedRight == LinesKept /\ AppendsWritten /\ RangesEnd /\ FinalNewline /\ WellKnown
=============================================================================
