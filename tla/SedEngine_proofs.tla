--------------------------- MODULE SedEngine_proofs ---------------------------
(***************************************************************************)
(* sed loses, repeats and misplaces nothing, for any script and any input.  *)
(***************************************************************************)
EXTENDS Tools_proofs, SedEngine

-----------------------------------------------------------------------------
(* The scripts that parse can return: each command is in the list of the     *)
(* command before it, in one around that, or is the first of its group.      *)

Letters == STRING \ {NL}
Chars == STRING \union {NL}
AText == Seq(Chars)
AnAddress == [kind : {"none", "line", "last", "re", "reuse", "step", "plus"}, n : Nat,
              re : STRING, step : Nat]
CmdNames == {"{", "d", "q", "Q", "c", "p", "P", "i", "=", "l", "r", "a", "h", "H", "g", "G",
             "x", "y", "z", "D", "n", "N", "s", "b", "t", "T", ":"}
ACommand == [cmd : CmdNames, a1 : AnAddress, a2 : AnAddress, neg : BOOLEAN, in : Nat,
             text : AText, re : STRING, to : Chars, all : BOOLEAN, n : Nat, p : BOOLEAN,
             label : STRING]
Nested(p, i) == /\ p[i].in < i
                /\ p[i].in # 0 => p[p[i].in].cmd = "{"
                /\ i # 1 => p[i].in \in Around(p, i - 1)
SedScripts == {p \in Seq(ACommand) : \A i \in DOMAIN p : Nested(p, i)}
SedInputs == Seq(Seq(Letters))

-----------------------------------------------------------------------------
(* The invariant, a part for each property.                                  *)

Written == [line : Nat, text : AText, by : CmdNames \union {"print"}]
PcType ==
    \/ \E f \in Flows \union {"line", "done"} : pc = Flow(f)
    \/ \E l \in 0..Len(prog) : \E i \in Members(l) \union {0} : pc = AtCmd(i, l)
SedTypes ==
    /\ prog \in SedScripts /\ input \in SedInputs /\ quiet \in BOOLEAN
    /\ lr \in 0..Len(input) /\ lineNum = lr
    /\ pat \in AText /\ hold \in AText
    /\ appendText \in Seq(AText) /\ queued \in Nat
    /\ rangeActive \subseteq DOMAIN prog
    /\ lastLine \in [0..Len(prog) -> BOOLEAN]
    /\ out \in Seq(Written) /\ lastOut \in [line : Nat, append : BOOLEAN]
    /\ PcType

\* What is written and what the pattern space holds are the lines that are read.
OnlyAdds == {"p", "P", "i", "a", "=", "l", "r", "h", "H", "n", "N", "b", "t", "T", ":", "{"}
Read(k) == Joined(SubSeq(input, 1, k))
WithPattern == lr >= 1 /\ Joined(Append(Texts("print"), pat)) = Read(lr)
AllPrinted == Joined(Texts("print")) = Read(lr) /\ (Texts("print") = <<>> <=> lr = 0)
KeptInv == ~quiet /\ Commands \subseteq OnlyAdds =>
    /\ pc.flow # "quit"
    /\ pc.flow \in {"run", "normal"} => WithPattern
    /\ pc.flow \in {"line", "delete", "quitSilent", "done"} => AllPrinted
    /\ pc.flow \in {"delete", "quitSilent", "done"} => lr = Len(input)

\* What a has queued is written or waits for the end of the cycle.
CountOf(o, by) == Cardinality({k \in DOMAIN o : o[k].by = by})
AppendInv == Commands \intersect {"Q", "N"} = {} =>
    /\ CountOf(out, "a") + Len(appendText) = queued
    /\ pc.flow # "quitSilent"
    /\ pc.flow \in {"line", "done"} => appendText = <<>>

\* Where a numbered range is.
LastOf(i) == IF prog[i].a2.n < prog[i].a1.n THEN prog[i].a1.n ELSE prog[i].a2.n
GoesBack == Commands \intersect {"D", "b", "t", "T"} # {}
Ended(i, tries) == \E q \in tries : q.cmd = i /\ q.line >= LastOf(i)
RangeOk(i, active, num, tries) ==
    /\ i \in active => num >= prog[i].a1.n
    /\ num >= prog[i].a1.n => i \in active \/ Ended(i, tries)
    /\ ~GoesBack => ~(i \in active /\ Ended(i, tries))
PickedRight(p, tries) ==
    /\ p.line \in prog[p.cmd].a1.n..LastOf(p.cmd) => p.takes
    /\ p.line < prog[p.cmd].a1.n => ~p.takes
    /\ p.line > LastOf(p.cmd) /\ p.takes /\ ~GoesBack =>
         ~\E q \in tries : q.cmd = p.cmd /\ q.line \in LastOf(p.cmd)..(p.line - 1)
Behind(i) == pc.flow = "run" =>
    IF pc.at # 0 THEN i < pc.at ELSE pc.in = 0 \/ i <= pc.in \/ i \in Within(pc.in)
BehindInv == ~GoesBack => \A p \in picked : p.line = lineNum => Behind(p.cmd)
Picked == [cmd : DOMAIN prog, line : 0..lineNum, takes : BOOLEAN]
RangeInv == Commands \intersect {"n", "N"} = {} =>
    /\ cycles = [last |-> lineNum, prev |-> IF lineNum = 0 THEN 0 ELSE lineNum - 1]
    /\ picked \subseteq Picked
    /\ \A p \in picked : NumberedRange(prog[p.cmd]) /\ PickedRight(p, picked)
    /\ \A i \in DOMAIN prog : NumberedRange(prog[i]) => RangeOk(i, rangeActive, lineNum, picked)
    /\ BehindInv

\* What lastOut says of the text that was written last.
NewlineInv == Commands \intersect {"q", "n", "N", "P", "D", "i", "c", "=", "l", "r"} = {} =>
    /\ pc.flow # "quit"
    /\ out = <<>> => ~lastOut.append
    /\ out # <<>> => LET o == out[Len(out)] IN
         /\ o.by = "a" <=> lastOut.append
         /\ ~lastOut.append => o.by \in {"print", "p"} /\ o.line = lastOut.line

\* The two scripts.
NoAppends == "a" \notin Commands => appendText = <<>>
Back(k) == Joined(Reversed(SubSeq(input, 1, k)))
IsTac == OneAddress /\ Scripts = Tac /\ prog[1].a1.n = 1 /\ ~quiet
Nothing == out = <<>>
TacRun ==
    /\ pc.in = 0 /\ lr >= 1 /\ Nothing /\ lastLine[0] = (lr = Len(input))
    /\ pc.at = 1 => pat = input[lr] /\ hold = Back(lr - 1)
    /\ pc.at = 2 => pat = Back(lr)
    /\ pc.at = 3 => pat = Back(lr) /\ hold = Back(lr)
    /\ pc.at = 0 => pat = Back(lr) /\ lr = Len(input)
TacInv == IsTac =>
    /\ pc.flow \in {"run", "normal", "delete", "line", "done"}
    /\ pc.flow = "run" => TacRun
    /\ pc.flow = "normal" => Nothing /\ pat = Back(lr) /\ lr = Len(input)
    /\ pc.flow = "delete" => Nothing /\ hold = Back(lr) /\ lr < Len(input)
    /\ pc.flow = "line" => \/ lr < Len(input) /\ Nothing /\ hold = Back(lr)
                           \/ lr = Len(input) /\ Text("print") = Back(lr)
    /\ pc.flow = "done" => lr = Len(input) /\ Text("print") = Back(lr)

IsPairs == OneAddress /\ Scripts = Pairs
Lines == [k \in DOMAIN out |-> out[k].text]
Single(k) == lr = Len(input) /\ pat = input[lr] /\ Lines = SubSeq(input, 1, k)
Double(k) == lr >= 2 /\ pat = input[lr - 1] \o <<NL>> \o input[lr] /\ Lines = SubSeq(input, 1, k)
PairsRun ==
    /\ pc.in = 0 /\ lr >= 1 /\ pc.at \in 1..3
    /\ pc.at = 1 => /\ pat = input[lr] /\ Lines = SubSeq(input, 1, lr - 1)
                    /\ lastLine[0] = (lr = Len(input))
    /\ pc.at = 2 => Single(lr - 1) \/ Double(lr - 2)
    /\ pc.at = 3 => Single(lr) \/ Double(lr - 1)
PairsInv == IsPairs =>
    /\ pc.flow \in {"run", "delete", "line", "done"}
    /\ pc.flow = "run" => PairsRun
    /\ pc.flow # "run" => Lines = SubSeq(input, 1, lr)
    /\ pc.flow \in {"delete", "done"} => lr = Len(input)
    /\ pc.flow = "line" => lr \in {0, Len(input)}

SedInv == /\ SedTypes /\ KeptInv /\ AppendInv /\ RangeInv /\ NewlineInv /\ NoAppends
          /\ TacInv /\ PairsInv

-----------------------------------------------------------------------------
(* Joined, and the texts that one command has written.                       *)

Separated(s) == [k \in DOMAIN s |-> IF k = 1 THEN s[1] ELSE <<NL>> \o s[k]]

LEMMA NLType == <<NL>> \in AText /\ <<>> \in AText
<1>1. NL \in Chars
  BY DEF Chars
<1> QED BY <1>1 DEF AText

LEMMA SeparatedType ==
    ASSUME NEW s \in Seq(AText)
    PROVE  Separated(s) \in Seq(AText) /\ Len(Separated(s)) = Len(s)
<1>1. \A k \in 1..Len(s) : s[k] \in AText /\ <<NL>> \o s[k] \in AText
  BY NLType, ConcatProperties DEF AText
<1>2. \A k \in 1..Len(s) : (IF k = 1 THEN s[1] ELSE <<NL>> \o s[k]) \in AText
  BY <1>1
<1> DEFINE y(k) == IF k = 1 THEN s[1] ELSE <<NL>> \o s[k]
<1>3. Separated(s) = [k \in 1..Len(s) |-> y(k)] /\ Len(s) \in Nat
  BY DEF Separated
<1>4. \A k \in 1..Len(s) : y(k) \in AText
  BY <1>2
<1> HIDE DEF y
<1>5. Separated(s) \in [1..Len(s) -> AText]
  BY <1>3, <1>4
<1> QED BY <1>3, <1>5

LEMMA JoinedType ==
    ASSUME NEW s \in Seq(AText)
    PROVE  Joined(s) \in AText
<1>1. Joined(s) = FlattenSeq(Separated(s))
  BY DEF Joined, Separated
<1> QED BY <1>1, SeparatedType, FlattenType DEF AText

LEMMA JoinedEmpty == Joined(<<>>) = <<>>
<1>1. [k \in DOMAIN <<>> |-> IF k = 1 THEN (<<>>)[1] ELSE <<NL>> \o (<<>>)[k]] = <<>>
  OBVIOUS
<1> QED BY <1>1 DEF Joined, FlattenSeq

LEMMA JoinedAppend ==
    ASSUME NEW s \in Seq(AText), NEW x \in AText
    PROVE  Joined(Append(s, x)) = IF s = <<>> THEN x ELSE Joined(s) \o (<<NL>> \o x)
<1> DEFINE y == IF s = <<>> THEN x ELSE <<NL>> \o x
<1>1. <<NL>> \o x \in AText
  BY NLType, ConcatProperties DEF AText
<1>2. y \in AText
  BY <1>1
<1>3. Separated(Append(s, x)) = Append(Separated(s), y)
  <2> DEFINE t == Append(s, x)
  <2>1. Len(s) \in Nat /\ t \in Seq(AText) /\ Len(t) = Len(s) + 1 /\ t[Len(s) + 1] = x
        /\ \A k \in 1..Len(s) : t[k] = s[k]
    OBVIOUS
  <2>2. Separated(t) = [k \in 1..Len(s) + 1 |-> IF k = 1 THEN t[1] ELSE <<NL>> \o t[k]]
    BY <2>1 DEF Separated
  <2> HIDE DEF t, y
  <2>3. Append(Separated(s), y) \in Seq(AText) /\ Len(Append(Separated(s), y)) = Len(s) + 1
        /\ Append(Separated(s), y)[Len(s) + 1] = y
        /\ \A k \in 1..Len(s) : Append(Separated(s), y)[k] = Separated(s)[k]
    BY <1>2, SeparatedType
  <2>4. \A k \in 1..Len(s) : Separated(s)[k] = Separated(t)[k]
    BY <2>1, <2>2 DEF Separated
  <2>5. Separated(t)[Len(s) + 1] = y
    <3>1. CASE s = <<>>
      BY <2>1, <2>2, <3>1 DEF y
    <3>2. CASE s # <<>>
      BY <2>1, <2>2, <3>2 DEF y
    <3> QED BY <3>1, <3>2
  <2>6. Separated(t) \in Seq(AText) /\ Len(Separated(t)) = Len(s) + 1
    BY <2>1, SeparatedType
  <2>7. \A k \in 1..Len(s) + 1 : Separated(t)[k] = Append(Separated(s), y)[k]
    BY <2>1, <2>3, <2>4, <2>5
  <2>8. Separated(t) = Append(Separated(s), y)
    BY <2>3, <2>6, <2>7, SeqEqual
  <2> QED BY <2>8 DEF t
<1> HIDE DEF y
<1>4. Joined(Append(s, x)) = FlattenSeq(Separated(s)) \o y
  BY <1>2, <1>3, SeparatedType, FlattenAppend DEF Joined, Separated, AText
<1>5. FlattenSeq(Separated(s)) = Joined(s)
  BY DEF Joined, Separated
<1>6. CASE s = <<>>
  <2>1. Joined(s) = <<>>
    BY <1>6, JoinedEmpty
  <2> QED BY <1>4, <1>5, <1>6, <2>1, ConcatEmptySeq DEF y, AText
<1>7. CASE s # <<>>
  BY <1>4, <1>5, <1>7 DEF y
<1> QED BY <1>6, <1>7

\* A sequence with one element more.
LEMMA LastOfSeq ==
    ASSUME NEW S, NEW n \in Nat, NEW t \in Seq(S), Len(t) = n + 1
    PROVE  \E f \in Seq(S) : Len(f) = n /\ t = Append(f, t[n + 1]) /\ t[n + 1] \in S
<1> DEFINE f == SubSeq(t, 1, n)
<1>1. f \in Seq(S) /\ Len(f) = n /\ \A k \in 1..n : f[k] = t[k]
  <2>1. \A k \in 1..n : t[k] \in S
    OBVIOUS
  <2> QED BY <2>1, SubSeqProperties
<1> HIDE DEF f
<1>2. t[n + 1] \in S
  OBVIOUS
<1>3. t = Append(f, t[n + 1])
  <2>1. Append(f, t[n + 1]) \in Seq(S) /\ Len(Append(f, t[n + 1])) = n + 1
    BY <1>1, <1>2
  <2>2. \A k \in 1..n + 1 : Append(f, t[n + 1])[k] = t[k]
    BY <1>1, <1>2
  <2> QED BY <2>1, <2>2, SeqEqual
<1> QED BY <1>1, <1>2, <1>3

LEMMA ConcatAppend ==
    ASSUME NEW S, NEW s \in Seq(S), NEW t \in Seq(S), NEW x \in S
    PROVE  s \o Append(t, x) = Append(s \o t, x)
<1>1. <<x>> \in Seq(S) /\ s \o t \in Seq(S)
  BY ConcatProperties
<1>2. Append(t, x) = t \o <<x>> /\ Append(s \o t, x) = (s \o t) \o <<x>>
  BY <1>1, AppendIsConcat
<1> QED BY <1>1, <1>2, ConcatAssociative

LEMMA JoinedPrepend ==
    ASSUME NEW x \in AText, NEW s \in Seq(AText)
    PROVE  Joined(<<x>> \o s) = IF s = <<>> THEN x ELSE x \o (<<NL>> \o Joined(s))
<1> DEFINE Holds(t) == Joined(<<x>> \o t) = IF t = <<>> THEN x ELSE x \o (<<NL>> \o Joined(t))
           T == {n \in Nat : \A t \in Seq(AText) : Len(t) = n => Holds(t)}
<1>1. <<x>> \in Seq(AText) /\ <<x>> # <<>>
  OBVIOUS
<1>2. Joined(<<x>>) = x
  <2>1. <<>> \in Seq(AText) /\ Append(<<>>, x) = <<x>>
    OBVIOUS
  <2> QED BY <2>1, JoinedAppend
<1>3. 0 \in T
  <2>1. \A t \in Seq(AText) : Len(t) = 0 => t = <<>>
    OBVIOUS
  <2>2. <<x>> \o <<>> = <<x>>
    BY <1>1, ConcatEmptySeq
  <2>3. Holds(<<>>)
    BY <1>2, <2>2
  <2> QED BY <2>1, <2>3
<1>4. ASSUME NEW n \in Nat, n \in T PROVE n + 1 \in T
  <2> HIDE DEF Holds
  <2> SUFFICES ASSUME NEW t \in Seq(AText), Len(t) = n + 1 PROVE Holds(t)
    OBVIOUS
  <2> USE DEF Holds
  <2>1. PICK f \in Seq(AText) : Len(f) = n /\ t = Append(f, t[n + 1]) /\ t[n + 1] \in AText
    BY LastOfSeq
  <2> DEFINE y == t[n + 1]
  <2> HIDE DEF y
  <2>2. y \in AText /\ t = Append(f, y) /\ t # <<>>
    BY <2>1 DEF y
  <2>3. Holds(f)
    BY <1>4, <2>1
  <2>4. <<x>> \o t = Append(<<x>> \o f, y) /\ <<x>> \o f \in Seq(AText) /\ <<x>> \o f # <<>>
    <3>1. <<x>> \o f \in Seq(AText) /\ Len(<<x>> \o f) = 1 + Len(f)
      BY <1>1, ConcatProperties
    <3>2. <<x>> \o t = Append(<<x>> \o f, y)
      BY <1>1, <2>2, ConcatAppend
    <3>3. Len(f) \in Nat /\ (<<x>> \o f = <<>> => Len(<<x>> \o f) = 0)
      OBVIOUS
    <3> QED BY <3>1, <3>2, <3>3
  <2>5. Joined(<<x>> \o t) = Joined(<<x>> \o f) \o (<<NL>> \o y)
    BY <2>2, <2>4, JoinedAppend
  <2>6. <<NL>> \o y \in AText
    BY <2>2, NLType, ConcatProperties DEF AText
  <2>7. CASE f = <<>>
    <3>1. t = <<y>>
      BY <2>2, <2>7
    <3>2. <<>> \in Seq(AText) /\ Append(<<>>, y) = <<y>>
      BY <2>2
    <3>3. Joined(t) = y
      BY <2>2, <3>1, <3>2, JoinedAppend
    <3>4. Joined(<<x>> \o f) = x
      BY <2>3, <2>7
    <3> QED BY <2>2, <2>5, <3>3, <3>4
  <2>8. CASE f # <<>>
    <3> DEFINE j == Joined(f)
               z == <<NL>> \o y
    <3>1. j \in AText /\ z \in AText
      BY <2>6, JoinedType
    <3>2. Joined(t) = j \o z
      BY <2>2, <2>8, JoinedAppend
    <3>3. Joined(<<x>> \o f) = x \o (<<NL>> \o j)
      BY <2>3, <2>8
    <3> HIDE DEF j, z
    <3>4. <<NL>> \o j \in Seq(Chars) /\ <<NL>> \in Seq(Chars) /\ x \in Seq(Chars)
          /\ j \in Seq(Chars) /\ z \in Seq(Chars)
      BY <3>1, NLType, ConcatProperties DEF AText
    <3>5. (x \o (<<NL>> \o j)) \o z = x \o ((<<NL>> \o j) \o z)
      BY <3>4, ConcatAssociative
    <3>6. (<<NL>> \o j) \o z = <<NL>> \o (j \o z)
      BY <3>4, ConcatAssociative
    <3>7. Joined(<<x>> \o t) = (x \o (<<NL>> \o j)) \o z
      BY <2>5, <3>3 DEF z
    <3>8. Joined(<<x>> \o t) = x \o (<<NL>> \o (j \o z))
      BY <3>5, <3>6, <3>7
    <3> QED BY <2>2, <3>2, <3>8
  <2> QED BY <2>7, <2>8
<1> HIDE DEF T
<1>5. Len(s) \in T
  BY <1>3, <1>4, AllNumbers
<1> QED BY <1>5 DEF T

TextsOf(o, by) == FlattenSeq([k \in DOMAIN o |-> IF o[k].by = by THEN <<o[k].text>> ELSE <<>>])

LEMMA TextsType ==
    ASSUME NEW o \in Seq(Written), NEW by
    PROVE  TextsOf(o, by) \in Seq(AText)
<1> DEFINE e(k) == IF o[k].by = by THEN <<o[k].text>> ELSE <<>>
<1>1. ASSUME NEW k \in 1..Len(o) PROVE e(k) \in Seq(AText)
  <2>0. o[k] \in Written
    OBVIOUS
  <2>1. o[k].text \in AText
    BY <2>0 DEF Written
  <2> QED BY <2>1
<1>2. TextsOf(o, by) = FlattenSeq([k \in 1..Len(o) |-> e(k)]) /\ Len(o) \in Nat
  BY DEF TextsOf
<1> HIDE DEF e
<1>3. [k \in 1..Len(o) |-> e(k)] \in Seq(Seq(AText))
  BY <1>1, <1>2
<1> QED BY <1>2, <1>3, FlattenType

LEMMA TextsAppend ==
    ASSUME NEW o \in Seq(Written), NEW r \in Written, NEW by
    PROVE  TextsOf(Append(o, r), by) = IF r.by = by THEN Append(TextsOf(o, by), r.text)
                                       ELSE TextsOf(o, by)
<1> DEFINE e(p) == IF p.by = by THEN <<p.text>> ELSE <<>>
<1>1. ASSUME NEW p \in Written PROVE e(p) \in Seq(AText)
  <2>1. p.text \in AText
    BY DEF Written
  <2> QED BY <2>1
<1>2. ASSUME NEW q \in Seq(Written)
      PROVE  TextsOf(q, by) = FlattenSeq([k \in 1..Len(q) |-> e(q[k])])
  <2>1. DOMAIN q = 1..Len(q)
    OBVIOUS
  <2> QED BY <2>1 DEF TextsOf
<1>3. e(r) = IF r.by = by THEN <<r.text>> ELSE <<>>
  OBVIOUS
<1> HIDE DEF e
<1> DEFINE u == [k \in 1..Len(o) |-> e(o[k])]
<1>4. u \in Seq(Seq(AText)) /\ Len(u) = Len(o) /\ Len(o) \in Nat
  <2>1. \A k \in 1..Len(o) : o[k] \in Written
    OBVIOUS
  <2> QED BY <1>1, <2>1
<1>5. [k \in 1..Len(Append(o, r)) |-> e(Append(o, r)[k])] = Append(u, e(r))
  <2> DEFINE v == [k \in 1..Len(Append(o, r)) |-> e(Append(o, r)[k])]
  <2>1. Append(o, r) \in Seq(Written) /\ Len(Append(o, r)) = Len(o) + 1
        /\ \A k \in 1..Len(o) : Append(o, r)[k] = o[k]
    OBVIOUS
  <2>2. Append(o, r)[Len(o) + 1] = r
    BY <1>4
  <2>3. \A k \in 1..Len(o) + 1 : Append(o, r)[k] \in Written
    BY <2>1
  <2>4. v \in Seq(Seq(AText)) /\ Len(v) = Len(o) + 1
    BY <1>1, <1>4, <2>1, <2>3
  <2>5. Append(u, e(r)) \in Seq(Seq(AText)) /\ Len(Append(u, e(r))) = Len(o) + 1
        /\ \A k \in 1..Len(o) : Append(u, e(r))[k] = u[k]
    BY <1>1, <1>4
  <2>6. Append(u, e(r))[Len(o) + 1] = e(r)
    BY <1>1, <1>4
  <2>7. \A k \in 1..Len(o) : v[k] = u[k]
    BY <1>4, <2>1
  <2>8. v[Len(o) + 1] = e(r)
    BY <1>4, <2>1, <2>2
  <2> HIDE DEF u, v
  <2>9. \A k \in 1..Len(o) + 1 : v[k] = Append(u, e(r))[k]
    BY <1>4, <2>5, <2>6, <2>7, <2>8
  <2>10. v = Append(u, e(r))
    BY <2>4, <2>5, <2>9, SeqEqual
  <2> QED BY <2>10 DEF v
<1>6. TextsOf(Append(o, r), by) = FlattenSeq(Append(u, e(r)))
  <2>1. Append(o, r) \in Seq(Written)
    OBVIOUS
  <2> QED BY <1>2, <1>5, <2>1
<1>7. TextsOf(o, by) = FlattenSeq(u)
  BY <1>2
<1> HIDE DEF u
<1>8. FlattenSeq(Append(u, e(r))) = FlattenSeq(u) \o e(r)
  BY <1>1, <1>4, FlattenAppend
<1>9. TextsOf(o, by) \in Seq(AText) /\ r.text \in AText
  BY TextsType DEF Written
<1> DEFINE w == TextsOf(o, by)
           x == r.text
<1>10. w \o <<x>> = Append(w, x) /\ w \o <<>> = w
  <2> HIDE DEF w, x
  <2> QED BY <1>9, AppendIsConcat, ConcatEmptySeq DEF w, x
<1> QED BY <1>3, <1>6, <1>7, <1>8, <1>10

LEMMA TextsConcat ==
    ASSUME NEW o \in Seq(Written), NEW t \in Seq(Written), NEW by,
           \A k \in 1..Len(t) : t[k].by # by
    PROVE  TextsOf(o \o t, by) = TextsOf(o, by)
<1> DEFINE Others(q) == \A k \in 1..Len(q) : q[k].by # by
           SameTexts(q) == TextsOf(o \o q, by) = TextsOf(o, by)
           T == {n \in Nat : \A q \in Seq(Written) : Len(q) = n /\ Others(q) => SameTexts(q)}
<1>1. 0 \in T
  <2>1. \A q \in Seq(Written) : Len(q) = 0 => q = <<>>
    OBVIOUS
  <2>2. SameTexts(<<>>)
    BY ConcatEmptySeq
  <2> QED BY <2>1, <2>2
<1>2. ASSUME NEW n \in Nat, n \in T PROVE n + 1 \in T
  <2> HIDE DEF SameTexts, Others
  <2> SUFFICES ASSUME NEW q \in Seq(Written), Len(q) = n + 1, Others(q) PROVE SameTexts(q)
    OBVIOUS
  <2>1. PICK f \in Seq(Written) : Len(f) = n /\ q = Append(f, q[n + 1]) /\ q[n + 1] \in Written
    BY LastOfSeq
  <2> DEFINE r == q[n + 1]
  <2>2. r.by # by /\ Others(f)
    <3>1. \A k \in 1..n : f[k] = q[k] /\ k \in 1..Len(q)
      BY <2>1
    <3> QED BY <2>1, <3>1 DEF Others
  <2>3. SameTexts(f)
    BY <1>2, <2>1, <2>2
  <2> HIDE DEF r
  <2>4. o \o q = Append(o \o f, r) /\ o \o f \in Seq(Written) /\ r \in Written
    <3>1. q = Append(f, r) /\ r \in Written
      BY <2>1 DEF r
    <3>2. o \o Append(f, r) = Append(o \o f, r)
      BY <2>1, <3>1, ConcatAppend
    <3>3. o \o f \in Seq(Written)
      BY <2>1, ConcatProperties
    <3> QED BY <3>1, <3>2, <3>3
  <2>5. TextsOf(Append(o \o f, r), by) = TextsOf(o \o f, by)
    BY <2>2, <2>4, TextsAppend
  <2> QED BY <2>3, <2>4, <2>5 DEF SameTexts
<1> HIDE DEF T
<1>3. Len(t) \in T
  BY <1>1, <1>2, AllNumbers
<1> QED BY <1>3 DEF T

\* How many texts one command has written.
LEMMA CountAppend ==
    ASSUME NEW o \in Seq(Written), NEW r \in Written, NEW by
    PROVE  /\ CountOf(o, by) \in Nat
           /\ CountOf(Append(o, r), by) = IF r.by = by THEN CountOf(o, by) + 1 ELSE CountOf(o, by)
<1> DEFINE n == Len(o)
           q == Append(o, r)
           K == {k \in 1..n : o[k].by = by}
           M == {k \in 1..n + 1 : q[k].by = by}
<1>1. n \in Nat /\ DOMAIN o = 1..n /\ DOMAIN q = 1..n + 1 /\ q[n + 1] = r
      /\ \A k \in 1..n : q[k] = o[k]
  OBVIOUS
<1>2. CountOf(o, by) = Cardinality(K) /\ CountOf(q, by) = Cardinality(M)
  BY <1>1 DEF CountOf
<1> HIDE DEF n, q
<1>3. IsFiniteSet(K)
  <2>1. IsFiniteSet(1..n)
    BY <1>1, FS_Interval
  <2> QED BY <2>1, FS_Subset
<1>4. M = IF r.by = by THEN K \union {n + 1} ELSE K
  BY <1>1
<1>5. n + 1 \notin K
  BY <1>1
<1> HIDE DEF K, M
<1>6. Cardinality(K) \in Nat /\ Cardinality(K \union {n + 1}) = Cardinality(K) + 1
  BY <1>3, <1>5, FS_CardinalityType, FS_AddElement
<1> QED BY <1>2, <1>4, <1>6 DEF q

LEMMA CountConcat ==
    ASSUME NEW o \in Seq(Written), NEW t \in Seq(Written), NEW by,
           \A k \in 1..Len(t) : t[k].by = by
    PROVE  CountOf(o \o t, by) = CountOf(o, by) + Len(t)
<1> DEFINE All(q) == \A k \in 1..Len(q) : q[k].by = by
           Adds(q) == CountOf(o \o q, by) = CountOf(o, by) + Len(q)
           T == {n \in Nat : \A q \in Seq(Written) : Len(q) = n /\ All(q) => Adds(q)}
<1>1. 0 \in T
  <2>1. \A q \in Seq(Written) : Len(q) = 0 => q = <<>>
    OBVIOUS
  <2>2. CountOf(o, by) \in Nat
    <3>1. [line |-> 0, text |-> <<>>, by |-> "print"] \in Written
      BY NLType DEF Written
    <3> QED BY <3>1, CountAppend
  <2>3. Adds(<<>>)
    BY <2>2, ConcatEmptySeq
  <2> QED BY <2>1, <2>3
<1>2. ASSUME NEW n \in Nat, n \in T PROVE n + 1 \in T
  <2> HIDE DEF Adds, All
  <2> SUFFICES ASSUME NEW q \in Seq(Written), Len(q) = n + 1, All(q) PROVE Adds(q)
    OBVIOUS
  <2>1. PICK f \in Seq(Written) : Len(f) = n /\ q = Append(f, q[n + 1]) /\ q[n + 1] \in Written
    BY LastOfSeq
  <2> DEFINE r == q[n + 1]
  <2>2. r.by = by /\ All(f)
    <3>1. \A k \in 1..n : f[k] = q[k] /\ k \in 1..Len(q)
      BY <2>1
    <3>2. n + 1 \in 1..Len(q)
      OBVIOUS
    <3> QED BY <2>1, <3>1, <3>2 DEF All
  <2>3. Adds(f)
    BY <1>2, <2>1, <2>2
  <2> HIDE DEF r
  <2>4. o \o q = Append(o \o f, r) /\ o \o f \in Seq(Written) /\ r \in Written
    <3>1. q = Append(f, r) /\ r \in Written
      BY <2>1 DEF r
    <3>2. o \o Append(f, r) = Append(o \o f, r)
      BY <2>1, <3>1, ConcatAppend
    <3>3. o \o f \in Seq(Written)
      BY <2>1, ConcatProperties
    <3> QED BY <3>1, <3>2, <3>3
  <2>5. CountOf(Append(o \o f, r), by) = CountOf(o \o f, by) + 1
    BY <2>2, <2>4, CountAppend
  <2>6. CountOf(o, by) \in Nat
    BY <2>4, CountAppend
  <2> QED BY <2>1, <2>3, <2>4, <2>5, <2>6 DEF Adds
<1> HIDE DEF T
<1>3. Len(t) \in T
  BY <1>1, <1>2, AllNumbers
<1> QED BY <1>3 DEF T

\* The first lines, in order and in reverse order.
LEMMA FirstLines ==
    ASSUME NEW S, NEW s \in Seq(S), NEW k \in 0..Len(s)
    PROVE  /\ SubSeq(s, 1, k) \in Seq(S) /\ Len(SubSeq(s, 1, k)) = k
           /\ \A i \in 1..k : SubSeq(s, 1, k)[i] = s[i]
<1>1. \A i \in 1..k : s[i] \in S
  OBVIOUS
<1> QED BY <1>1, SubSeqProperties

LEMMA NextLineOf ==
    ASSUME NEW S, NEW s \in Seq(S), NEW k \in 0..Len(s), k < Len(s)
    PROVE  /\ s[k + 1] \in S
           /\ SubSeq(s, 1, k + 1) = Append(SubSeq(s, 1, k), s[k + 1])
           /\ Reversed(SubSeq(s, 1, k + 1)) = <<s[k + 1]>> \o Reversed(SubSeq(s, 1, k))
           /\ Reversed(SubSeq(s, 1, k)) \in Seq(S) /\ Len(Reversed(SubSeq(s, 1, k))) = k
<1> DEFINE a == SubSeq(s, 1, k)
           b == SubSeq(s, 1, k + 1)
           x == s[k + 1]
<1>1. k \in Nat /\ k + 1 \in 0..Len(s) /\ x \in S
  OBVIOUS
<1>2. a \in Seq(S) /\ Len(a) = k /\ \A i \in 1..k : a[i] = s[i]
  BY FirstLines
<1>3. b \in Seq(S) /\ Len(b) = k + 1 /\ \A i \in 1..k + 1 : b[i] = s[i]
  BY <1>1, FirstLines
<1> HIDE DEF a, b
<1>4. b = Append(a, x)
  <2>1. Append(a, x) \in Seq(S) /\ Len(Append(a, x)) = k + 1
        /\ \A i \in 1..k + 1 : Append(a, x)[i] = s[i]
    BY <1>1, <1>2
  <2> QED BY <1>3, <2>1, SeqEqual
<1>5. Reversed(a) \in Seq(S) /\ Len(Reversed(a)) = k
      /\ \A i \in 1..k : Reversed(a)[i] = s[k + 1 - i]
  <2>1. \A i \in 1..k : k + 1 - i \in 1..k
    BY <1>1
  <2>2. \A i \in 1..k : a[k + 1 - i] \in S /\ a[k + 1 - i] = s[k + 1 - i]
    BY <1>2, <2>1
  <2>3. Reversed(a) = [i \in 1..k |-> a[k + 1 - i]]
    BY <1>2 DEF Reversed
  <2> QED BY <1>1, <2>2, <2>3
<1>6. Reversed(b) \in Seq(S) /\ Len(Reversed(b)) = k + 1
      /\ \A i \in 1..k + 1 : Reversed(b)[i] = s[k + 2 - i]
  <2>1. \A i \in 1..k + 1 : k + 2 - i \in 1..k + 1 /\ k + 1 + 1 - i = k + 2 - i
    BY <1>1
  <2>2. \A i \in 1..k + 1 : b[k + 2 - i] \in S /\ b[k + 2 - i] = s[k + 2 - i]
    BY <1>3, <2>1
  <2>3. Reversed(b) = [i \in 1..k + 1 |-> b[k + 1 + 1 - i]]
    BY <1>3 DEF Reversed
  <2>4. Reversed(b) = [i \in 1..k + 1 |-> b[k + 2 - i]]
    BY <2>1, <2>3
  <2> QED BY <1>1, <2>2, <2>4
<1>7. Reversed(b) = <<x>> \o Reversed(a)
  <2>1. <<x>> \in Seq(S) /\ Len(<<x>>) = 1 /\ (<<x>>)[1] = x
    BY <1>1
  <2>2. <<x>> \o Reversed(a) \in Seq(S) /\ Len(<<x>> \o Reversed(a)) = 1 + k
        /\ \A i \in 1..1 + k : (<<x>> \o Reversed(a))[i] =
              IF i <= 1 THEN (<<x>>)[i] ELSE Reversed(a)[i - 1]
    BY <1>5, <2>1, ConcatProperties
  <2>3. ASSUME NEW i \in 1..k + 1 PROVE Reversed(b)[i] = (<<x>> \o Reversed(a))[i]
    <3>1. Reversed(b)[i] = s[k + 2 - i]
      BY <1>6
    <3>2. (<<x>> \o Reversed(a))[i] = IF i <= 1 THEN (<<x>>)[i] ELSE Reversed(a)[i - 1]
      BY <1>1, <2>2
    <3>3. CASE i = 1
      <4>1. k + 2 - i = k + 1
        BY <1>1, <3>3
      <4> QED BY <2>1, <3>1, <3>2, <3>3, <4>1
    <3>4. CASE i # 1
      <4>1. i - 1 \in 1..k /\ k + 1 - (i - 1) = k + 2 - i /\ ~(i <= 1)
        BY <1>1, <3>4
      <4> QED BY <1>5, <3>1, <3>2, <4>1
    <3> QED BY <3>3, <3>4
  <2>4. Len(Reversed(b)) = Len(<<x>> \o Reversed(a))
    BY <1>1, <1>6, <2>2
  <2> QED BY <1>6, <2>2, <2>3, <2>4, SeqEqual
<1> QED BY <1>1, <1>4, <1>5, <1>7 DEF a, b

-----------------------------------------------------------------------------
(* The least of some numbers, and the first line of a text.                  *)

LEMMA LeastType ==
    ASSUME NEW S \in SUBSET Nat, S # {}
    PROVE  LeastOf(S) \in S /\ \A j \in S : LeastOf(S) <= j
<1>1. \E i \in S : \A j \in S : i <= j
  BY LeastNumber
<1> QED BY <1>1 DEF LeastOf

LEMMA LeastIs ==
    ASSUME NEW S \in SUBSET Nat, NEW n \in S, \A j \in S : n <= j
    PROVE  LeastOf(S) = n
<1>1. LeastOf(S) \in S /\ \A j \in S : LeastOf(S) <= j
  BY LeastType
<1>2. LeastOf(S) <= n /\ n <= LeastOf(S) /\ n \in Nat /\ LeastOf(S) \in Nat
  BY <1>1
<1> QED BY <1>2

LEMMA NoNewline ==
    ASSUME NEW x \in Seq(Letters)
    PROVE  x \in AText /\ ~Matches(NL, x) /\ \A i \in 1..Len(x) : x[i] # NL
<1>1. NL \notin Letters /\ Letters \subseteq Chars
  BY DEF Letters, Chars
<1>2. \A i \in 1..Len(x) : x[i] \in Letters
  OBVIOUS
<1>3. x \in Seq(Chars)
  BY <1>1, SeqMonotonic
<1>4. DOMAIN x = 1..Len(x)
  OBVIOUS
<1> QED BY <1>1, <1>2, <1>3, <1>4 DEF Matches, AText

LEMMA UpToNewline ==
    ASSUME NEW x \in Seq(Letters), NEW y \in AText
    PROVE  LET z == x \o <<NL>> \o y IN
           /\ z \in AText /\ Matches(NL, z) /\ UpTo(z) = x /\ UpTo(x) = x
           /\ SubSeq(z, Len(UpTo(z)) + 2, Len(z)) = y
<1> DEFINE n == Len(x)
           w == x \o <<NL>>
           z == w \o y
           nls == {i \in DOMAIN z : z[i] = NL}
<1>1. x \in AText /\ (\A i \in 1..n : x[i] # NL) /\ n \in Nat
  BY NoNewline
<1>2. x \in Seq(Chars) /\ y \in Seq(Chars) /\ <<NL>> \in Seq(Chars) /\ Len(<<NL>>) = 1
  BY <1>1, NLType DEF AText
<1>3. w \in Seq(Chars) /\ Len(w) = n + 1 /\ (\A i \in 1..n : w[i] = x[i]) /\ w[n + 1] = NL
  <2>1. w \in Seq(Chars) /\ Len(w) = n + 1
        /\ \A i \in 1..n + 1 : w[i] = IF i <= n THEN x[i] ELSE (<<NL>>)[i - n]
    BY <1>2, ConcatProperties
  <2>2. n + 1 \in 1..n + 1 /\ ~(n + 1 <= n) /\ n + 1 - n = 1
    BY <1>1
  <2>3. w[n + 1] = (<<NL>>)[1]
    BY <2>1, <2>2
  <2> QED BY <1>1, <2>1, <2>3
<1> DEFINE m == Len(y)
<1>4. m \in Nat
  BY <1>2
<1> HIDE DEF w, n, m
<1>5. z \in Seq(Chars) /\ Len(z) = n + 1 + m
      /\ \A i \in 1..n + 1 + m : z[i] = IF i <= n + 1 THEN w[i] ELSE y[i - (n + 1)]
  <2>1. z \in Seq(Chars) /\ Len(z) = Len(w) + Len(y)
        /\ \A i \in 1..Len(w) + Len(y) : z[i] = IF i <= Len(w) THEN w[i] ELSE y[i - Len(w)]
    BY <1>2, <1>3, ConcatProperties
  <2>2. Len(w) + Len(y) = n + 1 + m /\ Len(w) = n + 1
    BY <1>3 DEF m
  <2> HIDE DEF z
  <2> QED BY <2>1, <2>2
<1>6. (\A i \in 1..n : z[i] = x[i]) /\ z[n + 1] = NL
  BY <1>1, <1>3, <1>4, <1>5
<1>7. DOMAIN z = 1..n + 1 + m
  BY <1>5
<1> HIDE DEF z
<1>8. n + 1 \in nls /\ nls \in SUBSET Nat /\ nls # {}
  BY <1>1, <1>4, <1>6, <1>7
<1>9. \A j \in nls : n + 1 <= j
  <2> SUFFICES ASSUME NEW j \in nls, j < n + 1 PROVE FALSE
    BY <1>1, <1>7
  <2>1. j \in 1..n
    BY <1>1, <1>7
  <2> QED BY <1>1, <1>6, <2>1
<1> HIDE DEF nls
<1>10. LeastOf(nls) = n + 1
  BY <1>8, <1>9, LeastIs
<1>11. UpTo(z) = SubSeq(z, 1, n)
  <2>1. UpTo(z) = IF nls = {} THEN z ELSE SubSeq(z, 1, LeastOf(nls) - 1)
    BY DEF UpTo, nls
  <2>2. LeastOf(nls) - 1 = n
    BY <1>1, <1>10
  <2> QED BY <1>8, <1>10, <2>1, <2>2
<1>12. SubSeq(z, 1, n) = x
  <2>1. n \in 0..Len(z)
    BY <1>1, <1>4, <1>5
  <2>2. SubSeq(z, 1, n) \in Seq(Chars) /\ Len(SubSeq(z, 1, n)) = n
        /\ \A i \in 1..n : SubSeq(z, 1, n)[i] = z[i]
    BY <1>5, <2>1, FirstLines
  <2> QED BY <1>2, <1>6, <2>2, SeqEqual DEF n
<1>13. Matches(NL, z)
  BY <1>8 DEF nls, Matches
<1>14. UpTo(x) = x
  <2>1. {i \in DOMAIN x : x[i] = NL} = {}
    BY <1>1, <1>2 DEF n
  <2> QED BY <2>1 DEF UpTo
<1>15. SubSeq(z, n + 2, Len(z)) = y
  <2> DEFINE a == n + 2
             b == n + 1 + m
  <2>1. a \in Int /\ b \in Int /\ b - a + 1 = m /\ (a <= b <=> m # 0)
        /\ \A i \in a..b : i \in 1..n + 1 + m
    BY <1>1, <1>4
  <2>2. \A i \in a..b : z[i] \in Chars
    BY <1>5, <1>7, <2>1
  <2>3. \A i \in 1..m : a + i - 1 \in 1..n + 1 + m /\ ~(a + i - 1 <= n + 1) /\ a + i - 1 - (n + 1) = i
    BY <1>1, <1>4
  <2> HIDE DEF a, b
  <2>4. SubSeq(z, a, b) \in Seq(Chars) /\ Len(SubSeq(z, a, b)) = (IF a <= b THEN b - a + 1 ELSE 0)
        /\ \A i \in 1..b - a + 1 : SubSeq(z, a, b)[i] = z[a + i - 1]
    BY <2>1, <2>2, SubSeqProperties
  <2>5. Len(SubSeq(z, a, b)) = m
    BY <1>4, <2>1, <2>4
  <2>6. ASSUME NEW i \in 1..m PROVE SubSeq(z, a, b)[i] = y[i]
    <3>1. SubSeq(z, a, b)[i] = z[a + i - 1]
      BY <2>1, <2>4
    <3>0. a + i - 1 \in 1..n + 1 + m /\ ~(a + i - 1 <= n + 1) /\ a + i - 1 - (n + 1) = i
      BY <2>3
    <3>2. PICK k : k = a + i - 1
      OBVIOUS
    <3>3. PICK h : h = k - (n + 1)
      OBVIOUS
    <3>4. k \in 1..n + 1 + m /\ ~(k <= n + 1) /\ h = i
      BY <1>1, <1>4, <2>1, <3>0, <3>2, <3>3
    <3>5. z[k] = IF k <= n + 1 THEN w[k] ELSE y[h]
      BY <1>5, <3>3, <3>4
    <3>6. z[k] = y[i]
      BY <3>4, <3>5
    <3> QED BY <3>1, <3>2, <3>6
  <2>7. SubSeq(z, a, b) = y
    BY <1>2, <2>4, <2>5, <2>6, SeqEqual DEF m
  <2> QED BY <1>5, <2>7 DEF a, b
<1>16. Len(UpTo(z)) + 2 = n + 2
  BY <1>11, <1>12 DEF n
<1>17. z \in AText
  BY <1>5 DEF AText
<1> QED BY <1>11, <1>12, <1>13, <1>14, <1>15, <1>16, <1>17 DEF z, w

-----------------------------------------------------------------------------
(* Groups in groups.                                                         *)

ClosedIn(p, S) == \A j \in S \ {0} : p[j].in \in S

LEMMA ScriptFacts ==
    ASSUME NEW p \in SedScripts
    PROVE  /\ p \in Seq(ACommand) /\ Len(p) \in Nat /\ DOMAIN p = 1..Len(p)
           /\ \A i \in 1..Len(p) : /\ p[i] \in ACommand /\ p[i].in \in 0..Len(p) /\ p[i].in < i
                                   /\ p[i].in # 0 => p[p[i].in].cmd = "{"
                                   /\ i # 1 => p[i].in \in Around(p, i - 1)
<1>1. p \in Seq(ACommand) /\ \A i \in DOMAIN p : Nested(p, i)
  BY DEF SedScripts
<1>2. Len(p) \in Nat /\ DOMAIN p = 1..Len(p)
  BY <1>1
<1>3. ASSUME NEW i \in 1..Len(p)
      PROVE  /\ p[i] \in ACommand /\ p[i].in \in 0..Len(p) /\ p[i].in < i
             /\ p[i].in # 0 => p[p[i].in].cmd = "{"
             /\ i # 1 => p[i].in \in Around(p, i - 1)
  <2>1. p[i] \in ACommand
    BY <1>1
  <2>2. p[i].in \in Nat
    BY <2>1 DEF ACommand
  <2>3. p[i].in < i /\ (p[i].in # 0 => p[p[i].in].cmd = "{") /\ (i # 1 => p[i].in \in Around(p, i - 1))
    BY <1>1, <1>2 DEF Nested
  <2>4. p[i].in \in 0..Len(p)
    <3> DEFINE g == p[i].in
    <3>1. g \in Nat /\ g < i
      BY <2>2, <2>3
    <3> HIDE DEF g
    <3>2. g \in 0..Len(p)
      BY <1>2, <3>1
    <3> QED BY <3>2 DEF g
  <2> QED BY <2>1, <2>3, <2>4
<1> QED BY <1>1, <1>2, <1>3

LEMMA AroundFacts ==
    ASSUME NEW p \in SedScripts, NEW l \in 0..Len(p)
    PROVE  /\ Around(p, l) \subseteq 0..l /\ Around(p, l) \subseteq 0..Len(p)
           /\ l \in Around(p, l) /\ ClosedIn(p, Around(p, l)) /\ 0 \in Around(p, l)
           /\ \A S \in SUBSET (0..Len(p)) : l \in S /\ ClosedIn(p, S) => Around(p, l) \subseteq S
<1> DEFINE A == Around(p, l)
<1>0. \A i \in 1..Len(p) : p[i].in \in 0..Len(p) /\ p[i].in < i
  BY ScriptFacts
<1>1. Len(p) \in Nat
  BY ScriptFacts
<1>2. A = {k \in 0..Len(p) : \A S \in SUBSET (0..Len(p)) : l \in S /\ ClosedIn(p, S) => k \in S}
  BY DEF Around, ClosedIn
<1> HIDE DEF A
<1>3. A \subseteq 0..Len(p) /\ l \in A
  BY <1>2
<1>4. \A S \in SUBSET (0..Len(p)) : l \in S /\ ClosedIn(p, S) => A \subseteq S
  BY <1>2
<1>5. ClosedIn(p, A)
  <2> SUFFICES ASSUME NEW j \in A \ {0} PROVE p[j].in \in A
    BY DEF ClosedIn
  <2>1. j \in 1..Len(p)
    BY <1>1, <1>3
  <2>2. p[j].in \in 0..Len(p)
    BY <1>0, <2>1
  <2>3. ASSUME NEW S \in SUBSET (0..Len(p)), l \in S, ClosedIn(p, S) PROVE p[j].in \in S
    <3>1. j \in S \ {0}
      BY <1>4, <2>3
    <3> QED BY <2>3, <3>1 DEF ClosedIn
  <2> QED BY <1>2, <2>2, <2>3
<1>6. A \subseteq 0..l
  <2>1. 0..l \in SUBSET (0..Len(p)) /\ l \in 0..l
    BY <1>1
  <2>2. ClosedIn(p, 0..l)
    <3> SUFFICES ASSUME NEW j \in (0..l) \ {0} PROVE p[j].in \in 0..l
      BY DEF ClosedIn
    <3>1. j \in 1..Len(p) /\ j <= l
      BY <1>1
    <3>2. p[j].in \in 0..Len(p) /\ p[j].in < j
      BY <1>0, <3>1
    <3> QED BY <1>1, <3>1, <3>2
  <2> QED BY <1>4, <2>1, <2>2
<1>7. 0 \in A
  <2>1. A \in SUBSET Nat /\ A # {}
    BY <1>1, <1>3
  <2>2. PICK n \in A : \A m \in A : n <= m
    BY <2>1, LeastNumber
  <2>3. ASSUME n # 0 PROVE FALSE
    <3>1. n \in 1..Len(p)
      BY <1>1, <1>3, <2>3
    <3>2. p[n].in \in A /\ p[n].in < n /\ p[n].in \in 0..Len(p)
      BY <1>0, <1>5, <2>3, <3>1 DEF ClosedIn
    <3>3. n <= p[n].in
      BY <2>2, <3>2
    <3> QED BY <1>1, <3>1, <3>2, <3>3
  <2> QED BY <2>2, <2>3
<1> QED BY <1>3, <1>4, <1>5, <1>6, <1>7 DEF A

\* What is around a list that is around l is around l.
LEMMA AroundAgain ==
    ASSUME NEW p \in SedScripts, NEW l \in 0..Len(p), NEW k \in Around(p, l)
    PROVE  Around(p, k) \subseteq Around(p, l)
<1>1. k \in 0..Len(p) /\ Around(p, l) \in SUBSET (0..Len(p)) /\ ClosedIn(p, Around(p, l))
  BY AroundFacts
<1> QED BY <1>1, AroundFacts

\* What is around a group is the group, or around the list it is in.
LEMMA AroundGroup ==
    ASSUME NEW p \in SedScripts, NEW l \in 1..Len(p), NEW k \in Around(p, l), k # l
    PROVE  k \in Around(p, p[l].in)
<1> DEFINE B == Around(p, p[l].in)
<1>0. Len(p) \in Nat /\ \A i \in 1..Len(p) : p[i].in \in 0..Len(p)
  BY ScriptFacts
<1>1. l \in 0..Len(p) /\ p[l].in \in 0..Len(p)
  BY <1>0
<1>2. B \in SUBSET (0..Len(p)) /\ ClosedIn(p, B) /\ p[l].in \in B
  BY <1>1, AroundFacts
<1>3. {l} \union B \in SUBSET (0..Len(p)) /\ ClosedIn(p, {l} \union B) /\ l \in {l} \union B
  BY <1>1, <1>2 DEF ClosedIn
<1>4. Around(p, l) \subseteq {l} \union B
  BY <1>1, <1>3, AroundFacts
<1> QED BY <1>4

\* The commands of a group stand together, behind it.
In(p, l) == {i \in 1..Len(p) : l \in Around(p, p[i].in)}

LEMMA InGroup ==
    ASSUME NEW p \in SedScripts, NEW l \in 0..Len(p), NEW i \in In(p, l)
    PROVE  l < i
<1>1. i \in 1..Len(p) /\ l \in Around(p, p[i].in) /\ Len(p) \in Nat
  BY ScriptFacts DEF In
<1>2. p[i].in \in 0..Len(p) /\ p[i].in < i
  BY <1>1, ScriptFacts
<1>3. l \in 0..p[i].in
  BY <1>1, <1>2, AroundFacts
<1> QED BY <1>1, <1>2, <1>3

LEMMA BehindGroup ==
    ASSUME NEW p \in SedScripts, NEW l \in 1..Len(p), NEW j \in 1..Len(p), l < j, j \notin In(p, l),
           NEW i \in 1..Len(p), j <= i
    PROVE  i \notin In(p, l)
<1> DEFINE T == {n \in Nat : j <= n /\ n <= Len(p) => n \notin In(p, l)}
<1>00. Len(p) \in Nat
  BY ScriptFacts
<1>0. Len(p) \in Nat /\ l \in 0..Len(p)
  BY <1>00
<1>1. 0 \in T
  OBVIOUS
<1>2. ASSUME NEW n \in Nat, n \in T PROVE n + 1 \in T
  <2> SUFFICES ASSUME j <= n + 1, n + 1 <= Len(p), n + 1 \in In(p, l) PROVE FALSE
    OBVIOUS
  <2>1. CASE j = n + 1
    BY <2>1
  <2>2. CASE j # n + 1
    <3>1. j <= n /\ n \in 1..Len(p) /\ n \notin In(p, l) /\ l # n /\ n + 1 \in 1..Len(p)
          /\ n \in 0..Len(p) /\ n + 1 # 1 /\ n + 1 - 1 = n
      BY <1>0, <1>2, <2>2
    <3>2. p[n + 1].in \in Around(p, n)
      <4> DEFINE m == n + 1
      <4>1. m \in 1..Len(p) /\ m # 1 /\ m - 1 = n
        BY <3>1
      <4> HIDE DEF m
      <4>2. p[m].in \in Around(p, m - 1)
        BY <4>1, ScriptFacts
      <4> QED BY <4>1, <4>2 DEF m
    <3>3. l \in Around(p, p[n + 1].in)
      BY DEF In
    <3>4. l \in Around(p, n)
      BY <3>1, <3>2, <3>3, AroundAgain
    <3>5. l \in Around(p, p[n].in)
      BY <3>1, <3>4, AroundGroup
    <3> QED BY <3>1, <3>5 DEF In
  <2> QED BY <2>1, <2>2
<1> HIDE DEF T
<1>3. i \in T
  BY <1>1, <1>2, AllNumbers
<1> QED BY <1>0, <1>3 DEF T

-----------------------------------------------------------------------------
(* Types.                                                                    *)

LEMMA UpToType ==
    ASSUME NEW x \in AText
    PROVE  UpTo(x) \in AText /\ SubSeq(x, Len(UpTo(x)) + 2, Len(x)) \in AText
<1> DEFINE nls == {i \in DOMAIN x : x[i] = NL}
<1>1. x \in Seq(Chars) /\ Len(x) \in Nat /\ DOMAIN x = 1..Len(x) /\ \A i \in 1..Len(x) : x[i] \in Chars
  BY DEF AText
<1>2. UpTo(x) \in Seq(Chars)
  <2>1. UpTo(x) = IF nls = {} THEN x ELSE SubSeq(x, 1, LeastOf(nls) - 1)
    BY DEF UpTo
  <2>2. nls \in SUBSET Nat /\ \A i \in nls : i \in 1..Len(x)
    BY <1>1
  <2> HIDE DEF nls
  <2>3. CASE nls = {}
    BY <1>1, <2>1, <2>3
  <2>4. CASE nls # {}
    <3>1. LeastOf(nls) \in 1..Len(x)
      BY <2>2, <2>4, LeastType
    <3>2. PICK k : k = LeastOf(nls) - 1
      OBVIOUS
    <3>3. k \in 0..Len(x)
      BY <1>1, <3>1, <3>2
    <3>4. SubSeq(x, 1, k) \in Seq(Chars)
      BY <1>1, <3>3, FirstLines
    <3> QED BY <2>1, <2>4, <3>2, <3>4
  <2> QED BY <2>3, <2>4
<1>3. PICK m : m = Len(UpTo(x)) + 2
  OBVIOUS
<1>4. Len(UpTo(x)) \in Nat
  BY <1>2
<1>5. m \in Nat /\ m >= 2
  BY <1>3, <1>4
<1>6. \A i \in m..Len(x) : x[i] \in Chars
  BY <1>1, <1>5
<1>7. SubSeq(x, m, Len(x)) \in Seq(Chars)
  BY <1>1, <1>5, <1>6, SubSeqProperties
<1> QED BY <1>2, <1>3, <1>7 DEF AText

LEMMA MappedType ==
    ASSUME NEW x \in AText, NEW S \in SUBSET Nat, NEW to \in Chars
    PROVE  [i \in DOMAIN x |-> IF i \in S THEN to ELSE x[i]] \in AText
<1>1. x \in Seq(Chars) /\ Len(x) \in Nat /\ DOMAIN x = 1..Len(x) /\ \A i \in 1..Len(x) : x[i] \in Chars
  BY DEF AText
<1> DEFINE e(i) == IF i \in S THEN to ELSE x[i]
<1>2. \A i \in 1..Len(x) : e(i) \in Chars
  BY <1>1
<1>3. [i \in DOMAIN x |-> IF i \in S THEN to ELSE x[i]] = [i \in 1..Len(x) |-> e(i)]
  BY <1>1
<1> HIDE DEF e
<1>4. [i \in 1..Len(x) |-> e(i)] \in Seq(Chars)
  BY <1>1, <1>2
<1> QED BY <1>3, <1>4 DEF AText

\* A place of the script.
PlaceIn(l) == {AtCmd(i, l) : i \in Members(l) \union {0}}

LEMMA ProgFacts ==
    ASSUME SedTypes
    PROVE  /\ Len(prog) \in Nat /\ DOMAIN prog = 1..Len(prog)
           /\ \A i \in 1..Len(prog) : prog[i] \in ACommand /\ prog[i].in \in 0..Len(prog)
<1>1. prog \in SedScripts
  BY DEF SedTypes
<1> QED BY <1>1, ScriptFacts

LEMMA FirstType ==
    ASSUME SedTypes, NEW l \in 0..Len(prog)
    PROVE  /\ FirstOf(l) \in PlaceIn(l)
           /\ FirstOf(l).at # 0 => l < FirstOf(l).at
<1>1. Len(prog) \in Nat /\ DOMAIN prog = 1..Len(prog) /\ \A i \in 1..Len(prog) : prog[i].in < i
  <2>1. prog \in SedScripts
    BY DEF SedTypes
  <2> QED BY <2>1, ScriptFacts
<1>2. Members(l) \in SUBSET Nat /\ \A i \in Members(l) : l < i
  BY <1>1 DEF Members
<1>3. LeastOf(Members(l)) \in Members(l) \union {0}
  <2>1. CASE Members(l) = {}
    BY <2>1 DEF LeastOf
  <2>2. CASE Members(l) # {}
    BY <1>2, <2>2, LeastType
  <2> QED BY <2>1, <2>2
<1>4. FirstOf(l).at = LeastOf(Members(l)) /\ FirstOf(l) = AtCmd(LeastOf(Members(l)), l)
  BY DEF FirstOf, AtCmd
<1> QED BY <1>2, <1>3, <1>4 DEF PlaceIn

LEMMA NextType ==
    ASSUME SedTypes, NEW i \in 1..Len(prog)
    PROVE  /\ Next1(i) \in PlaceIn(prog[i].in)
           /\ Next1(i).at # 0 => i < Next1(i).at
<1> DEFINE l == prog[i].in
           S == {j \in Members(l) : j > i}
<1>1. Len(prog) \in Nat /\ DOMAIN prog = 1..Len(prog)
  BY ProgFacts
<1>2. Next1(i) = AtCmd(LeastOf(S), l) /\ Next1(i).at = LeastOf(S)
  BY DEF Next1, AtCmd
<1>3. S \in SUBSET Nat /\ S \subseteq Members(l) /\ \A j \in S : i < j
  BY <1>1 DEF Members
<1> HIDE DEF S, l
<1>4. LeastOf(S) \in S \union {0} /\ (LeastOf(S) # 0 => LeastOf(S) \in S)
  <2>1. CASE S = {}
    BY <2>1 DEF LeastOf
  <2>2. CASE S # {}
    BY <1>3, <2>2, LeastType
  <2> QED BY <2>1, <2>2
<1>5. LeastOf(S) \in Members(l) \union {0}
  BY <1>3, <1>4
<1>6. Next1(i).at # 0 => i < Next1(i).at
  BY <1>2, <1>3, <1>4
<1>7. Next1(i) \in PlaceIn(l)
  BY <1>2, <1>5 DEF PlaceIn
<1> QED BY <1>6, <1>7 DEF l

LEMMA PlaceType ==
    ASSUME NEW l \in 0..Len(prog), NEW q \in PlaceIn(l), pc' = q, prog' = prog
    PROVE  PcType' /\ pc'.flow = "run" /\ pc'.in = l /\ pc'.at \in Members(l) \union {0}
<1>1. PICK i \in Members(l) \union {0} : q = AtCmd(i, l)
  BY DEF PlaceIn
<1>2. Members(l)' = Members(l)
  BY DEF Members
<1>3. PcType'
  <2>1. i \in Members(l)' \union {0} /\ l \in 0..Len(prog') /\ pc' = AtCmd(i, l)
    BY <1>1, <1>2
  <2> QED BY <2>1 DEF PcType, AtCmd
<1>4. pc'.flow = "run" /\ pc'.in = l /\ pc'.at = i
  BY <1>1 DEF AtCmd
<1> QED BY <1>1, <1>3, <1>4

LEMMA FlowType ==
    ASSUME NEW f \in Flows \union {"line", "done"}, pc' = Flow(f)
    PROVE  PcType' /\ pc'.flow = f /\ pc'.flow # "run" /\ pc'.at = 0 /\ pc'.in = 0
<1>1. PcType'
  BY DEF PcType, Flow
<1>2. pc'.flow = f /\ pc'.at = 0 /\ pc'.in = 0 /\ f # "run"
  BY DEF Flow, Flows
<1> QED BY <1>1, <1>2

\* Where a command runs, and where a list ends.
LEMMA RunFacts ==
    ASSUME SedTypes, pc.flow = "run"
    PROVE  /\ pc.in \in 0..Len(prog) /\ pc.at \in Members(pc.in) \union {0}
           /\ pc = AtCmd(pc.at, pc.in)
           /\ pc.at # 0 => pc.at \in 1..Len(prog) /\ pc.in = prog[pc.at].in
<1>1. ~\E f \in Flows \union {"line", "done"} : pc = Flow(f)
  BY DEF Flow, Flows
<1>20. PICK l \in 0..Len(prog) : \E i \in Members(l) \union {0} : pc = AtCmd(i, l)
  BY <1>1 DEF SedTypes, PcType
<1>2. PICK i \in Members(l) \union {0} : pc = AtCmd(i, l)
  BY <1>20
<1>3. pc.in = l /\ pc.at = i
  BY <1>2 DEF AtCmd
<1>4. DOMAIN prog = 1..Len(prog)
  BY ProgFacts
<1>5. i # 0 => i \in 1..Len(prog) /\ prog[i].in = l
  BY <1>4 DEF Members
<1> QED BY <1>2, <1>3, <1>5

LEMMA NotRunFacts ==
    ASSUME SedTypes, pc.flow # "run"
    PROVE  \E f \in Flows \union {"line", "done"} : pc = Flow(f) /\ pc.flow = f
<1>1. ~\E l \in 0..Len(prog) : \E i \in Members(l) \union {0} : pc = AtCmd(i, l)
  BY DEF AtCmd
<1> QED BY <1>1 DEF SedTypes, PcType, Flow

LEMMA ActiveType ==
    ASSUME SedTypes, NEW i \in 1..Len(prog)
    PROVE  ActiveAfter(i) \subseteq DOMAIN prog
BY ProgFacts DEF ActiveAfter, SedTypes

LEMMA WriteType ==
    ASSUME SedTypes, NEW by \in CmdNames \union {"print"}, NEW text \in AText, Write(by, text)
    PROVE  /\ [line |-> lineNum, text |-> text, by |-> by] \in Written
           /\ out' = Append(out, [line |-> lineNum, text |-> text, by |-> by])
           /\ out' \in Seq(Written)
<1>1. lineNum \in Nat /\ out \in Seq(Written)
  BY DEF SedTypes
<1>2. [line |-> lineNum, text |-> text, by |-> by] \in Written
  BY <1>1 DEF Written
<1> QED BY <1>1, <1>2 DEF Write

\* What a cycle writes at its end.
Printed == pc.flow \in {"normal", "quit"} /\ ~quiet
PrintText == [line |-> lineNum, text |-> pat, by |-> "print"]
AppendTexts == [k \in DOMAIN CycleAppends |-> [line |-> lineNum, text |-> CycleAppends[k], by |-> "a"]]

LEMMA CycleEndType ==
    ASSUME SedTypes
    PROVE  /\ PrintText \in Written /\ CycleAppends \in Seq(AText)
           /\ AppendTexts \in Seq(Written) /\ Len(AppendTexts) = Len(CycleAppends)
           /\ \A k \in 1..Len(AppendTexts) : AppendTexts[k].by = "a"
<1>1. lineNum \in Nat /\ pat \in AText /\ appendText \in Seq(AText)
  BY DEF SedTypes
<1>2. PrintText \in Written
  BY <1>1 DEF PrintText, Written
<1>3. CycleAppends \in Seq(AText)
  <2>1. <<>> \in Seq(AText)
    OBVIOUS
  <2> QED BY <1>1, <2>1 DEF CycleAppends
<1>4. DOMAIN CycleAppends = 1..Len(CycleAppends) /\ Len(CycleAppends) \in Nat
  BY <1>3
<1> DEFINE e(k) == [line |-> lineNum, text |-> CycleAppends[k], by |-> "a"]
<1>5. \A k \in 1..Len(CycleAppends) : e(k) \in Written /\ e(k).by = "a"
  BY <1>1, <1>3 DEF Written, CmdNames
<1>6. AppendTexts = [k \in 1..Len(CycleAppends) |-> e(k)]
  BY <1>4 DEF AppendTexts
<1> HIDE DEF e
<1>7. AppendTexts \in Seq(Written) /\ Len(AppendTexts) = Len(CycleAppends)
  BY <1>4, <1>5, <1>6
<1>8. \A k \in 1..Len(AppendTexts) : AppendTexts[k].by = "a"
  BY <1>4, <1>5, <1>6, <1>7
<1> QED BY <1>2, <1>3, <1>7, <1>8

LEMMA EndCycleOut ==
    ASSUME SedTypes, EndCycle
    PROVE  /\ out' = (IF Printed THEN Append(out, PrintText) ELSE out) \o AppendTexts
           /\ lastOut'.line = (IF pc.flow = "normal" /\ (Printed \/ AppendTexts # <<>>)
                               THEN lineNum ELSE lastOut.line)
           /\ lastOut'.append = (AppendTexts # <<>> \/ (lastOut.append /\ ~Printed))
           /\ out' \in Seq(Written)
           /\ lastOut' \in [line : Nat, append : BOOLEAN]
<1>1. /\ out' = (IF Printed THEN Append(out, PrintText) ELSE out) \o AppendTexts
      /\ lastOut' = [line |-> IF pc.flow = "normal" /\ (Printed \/ AppendTexts # <<>>)
                              THEN lineNum ELSE lastOut.line,
                     append |-> AppendTexts # <<>> \/ (lastOut.append /\ ~Printed)]
  BY DEF EndCycle, Printed, PrintText, AppendTexts
<1>2. AppendTexts \in Seq(Written) /\ PrintText \in Written
  BY CycleEndType
<1>3. out \in Seq(Written) /\ lineNum \in Nat /\ lastOut.line \in Nat /\ lastOut.append \in BOOLEAN
  BY DEF SedTypes
<1> DEFINE o == IF Printed THEN Append(out, PrintText) ELSE out
<1>4. o \in Seq(Written)
  BY <1>2, <1>3
<1> HIDE DEF o
<1>5. o \o AppendTexts \in Seq(Written)
  BY <1>2, <1>4, ConcatProperties
<1>6. out' \in Seq(Written)
  BY <1>1, <1>5 DEF o
<1> QED BY <1>1, <1>3, <1>6

LEMMA TypesAgain ==
    ASSUME SedTypes, prog' = prog, input' = input, quiet' = quiet,
           lr' \in 0..Len(input), lineNum' = lr', pat' \in AText, hold' \in AText,
           appendText' \in Seq(AText), queued' \in Nat, rangeActive' \subseteq DOMAIN prog,
           lastLine' \in [0..Len(prog) -> BOOLEAN], out' \in Seq(Written),
           lastOut' \in [line : Nat, append : BOOLEAN], PcType'
    PROVE  SedTypes'
BY DEF SedTypes

LEMMA TypesNow ==
    ASSUME SedTypes
    PROVE  /\ lr \in 0..Len(input) /\ lineNum = lr /\ lr \in Nat /\ pat \in AText /\ hold \in AText
           /\ input \in SedInputs /\ Len(input) \in Nat
           /\ appendText \in Seq(AText) /\ queued \in Nat /\ rangeActive \subseteq DOMAIN prog
           /\ lastLine \in [0..Len(prog) -> BOOLEAN] /\ out \in Seq(Written)
           /\ lastOut \in [line : Nat, append : BOOLEAN] /\ PcType
<1>1. input \in SedInputs /\ lr \in 0..Len(input) /\ lineNum = lr
  BY DEF SedTypes
<1>2. Len(input) \in Nat
  BY <1>1 DEF SedInputs
<1>3. lr \in Nat
  BY <1>1, <1>2
<1> QED BY <1>1, <1>2, <1>3 DEF SedTypes

LEMMA LineType ==
    ASSUME SedTypes, lr < Len(input)
    PROVE  input[lr + 1] \in Seq(Letters) /\ input[lr + 1] \in AText /\ lr + 1 \in 0..Len(input)
<1>1. input \in Seq(Seq(Letters)) /\ lr \in Nat /\ Len(input) \in Nat
  BY TypesNow DEF SedInputs
<1>2. lr + 1 \in 1..Len(input) /\ lr + 1 \in 0..Len(input)
  BY <1>1
<1>3. input[lr + 1] \in Seq(Letters)
  BY <1>1, <1>2
<1> QED BY <1>2, <1>3, NoNewline

LEMMA CommandFacts ==
    ASSUME SedTypes, NEW names, Cmd(names)
    PROVE  /\ pc.flow = "run" /\ pc.at \in 1..Len(prog) /\ Here \in ACommand /\ Here = prog[pc.at]
           /\ Here.cmd \in names /\ Here.cmd \in CmdNames /\ pc.in = Here.in
           /\ pc.in \in 0..Len(prog) /\ Here.cmd \in Commands
<1>1. pc.flow = "run" /\ pc.at # 0 /\ prog[pc.at].cmd \in names
  BY DEF Cmd
<1>2. pc.at \in 1..Len(prog) /\ pc.in = prog[pc.at].in /\ pc.in \in 0..Len(prog)
  BY <1>1, RunFacts
<1>3. prog[pc.at] \in ACommand /\ DOMAIN prog = 1..Len(prog)
  BY <1>2, ProgFacts
<1>4. Here \in ACommand /\ Here.cmd \in CmdNames
  BY <1>3 DEF Here, ACommand
<1>5. Here.cmd \in Commands
  BY <1>2, <1>3 DEF Here, Commands
<1> QED BY <1>1, <1>2, <1>4, <1>5 DEF Here

LEMMA SelectedFacts ==
    ASSUME SedTypes, NEW names, Selected(names)
    PROVE  /\ pc.flow = "run" /\ pc.at \in 1..Len(prog) /\ Here \in ACommand /\ Here = prog[pc.at]
           /\ Here.cmd \in names /\ Here.cmd \in CmdNames /\ pc.in = Here.in
           /\ pc.in \in 0..Len(prog) /\ Here.cmd \in Commands
           /\ Runs(pc.at) /\ Match(pc.at) /\ rangeActive' \subseteq DOMAIN prog
<1>1. Cmd(names) /\ Runs(pc.at) /\ Match(pc.at)
  BY DEF Selected
<1>2. rangeActive' = ActiveAfter(pc.at)
  BY <1>1 DEF Match, TrackRange
<1>3. pc.at \in 1..Len(prog)
  BY <1>1, CommandFacts
<1>4. rangeActive' \subseteq DOMAIN prog
  BY <1>2, <1>3, ActiveType
<1> QED BY <1>1, <1>4, CommandFacts

LEMMA OnwardFacts ==
    ASSUME SedTypes, pc.flow = "run", pc.at \in 1..Len(prog), Onward, prog' = prog
    PROVE  /\ PcType' /\ pc'.flow = "run" /\ pc'.in = pc.in /\ pc'.at \in Members(pc.in) \union {0}
           /\ pc' = Next1(pc.at) /\ (pc'.at # 0 => pc.at < pc'.at)
<1>1. pc' = Next1(pc.at)
  BY DEF Onward
<1>2. pc.at # 0
  BY ProgFacts
<1>3. pc.in = prog[pc.at].in /\ pc.in \in 0..Len(prog)
  BY <1>2, RunFacts
<1>4. Next1(pc.at) \in PlaceIn(pc.in) /\ (Next1(pc.at).at # 0 => pc.at < Next1(pc.at).at)
  BY <1>3, NextType
<1>5. PcType' /\ pc'.flow = "run" /\ pc'.in = pc.in /\ pc'.at \in Members(pc.in) \union {0}
  BY <1>1, <1>3, <1>4, PlaceType
<1> QED BY <1>1, <1>4, <1>5

LEMMA BeginTypes == ASSUME SedTypes, BeginCycle PROVE SedTypes' /\ pc' = FirstOf(0) /\ pc'.flow = "run" /\ pc'.in = 0
<1>1. /\ lr < Len(input) /\ prog' = prog /\ input' = input /\ quiet' = quiet
      /\ lr' = lr + 1 /\ lineNum' = lineNum + 1 /\ pat' = input[lr + 1] /\ appendText' = <<>>
      /\ hold' = hold /\ queued' = queued /\ out' = out /\ lastOut' = lastOut /\ pc' = FirstOf(0)
      /\ lastLine' = [lastLine EXCEPT ![0] = lr + 1 = Len(input)]
  BY DEF BeginCycle, source, output
<1>2. 0 \in 0..Len(prog)
  BY ProgFacts
<1>3. PcType' /\ pc'.flow = "run" /\ pc'.in = 0
  <2>1. FirstOf(0) \in PlaceIn(0)
    BY <1>2, FirstType
  <2> QED BY <1>1, <1>2, <2>1, PlaceType
<1>4. rangeActive' \subseteq DOMAIN prog
  <2>1. Within(0) \subseteq DOMAIN prog /\ rangeActive \subseteq DOMAIN prog
    BY TypesNow DEF Within
  <2> QED BY <2>1 DEF BeginCycle, BeginLists
<1>5. lastLine' \in [0..Len(prog) -> BOOLEAN]
  <2> DEFINE b == lr + 1 = Len(input)
  <2>1. b \in BOOLEAN
    OBVIOUS
  <2>2. lastLine' = [lastLine EXCEPT ![0] = b]
    BY <1>1
  <2> HIDE DEF b
  <2> QED BY <2>1, <2>2, TypesNow
<1>6. lr' \in 0..Len(input) /\ lineNum' = lr' /\ pat' \in AText
  BY <1>1, LineType, TypesNow
<1>7. <<>> \in Seq(AText)
  OBVIOUS
<1> QED BY <1>1, <1>3, <1>4, <1>5, <1>6, <1>7, TypesNow, TypesAgain

LEMMA EndOfInputTypes == ASSUME SedTypes, EndOfInput PROVE SedTypes' /\ pc'.flow = "done"
<1>1. /\ prog' = prog /\ input' = input /\ quiet' = quiet /\ lr' = lr /\ lineNum' = lineNum
      /\ pat' = pat /\ hold' = hold /\ lastLine' = lastLine /\ appendText' = appendText
      /\ rangeActive' = rangeActive /\ queued' = queued /\ out' = out /\ lastOut' = lastOut
      /\ pc' = Done
  BY DEF EndOfInput, source, ranges, output
<1>2. pc' = Flow("done") /\ "done" \in Flows \union {"line", "done"}
  BY <1>1 DEF Done, Flow
<1>3. PcType' /\ pc'.flow = "done"
  BY <1>2, FlowType
<1> QED BY <1>1, <1>3, TypesNow, TypesAgain

LEMMA EndCycleTypes ==
    ASSUME SedTypes, EndCycle
    PROVE  /\ SedTypes' /\ prog' = prog /\ input' = input /\ quiet' = quiet /\ noNL' = noNL /\ lr' = lr
           /\ hold' = hold /\ appendText' = <<>> /\ queued' = queued /\ pc.flow \in Flows
           /\ pc'.flow = (IF pc.flow \in {"quit", "quitSilent"} THEN "done" ELSE "line")
<1>1. /\ prog' = prog /\ input' = input /\ quiet' = quiet /\ noNL' = noNL /\ lr' = lr /\ lineNum' = lineNum
      /\ pat' = pat /\ hold' = hold /\ lastLine' = lastLine /\ appendText' = <<>>
      /\ rangeActive' = rangeActive /\ queued' = queued
      /\ pc.flow \in Flows
      /\ pc' = IF pc.flow \in {"quit", "quitSilent"} THEN Done ELSE Line
  BY DEF EndCycle, source, ranges
<1> DEFINE f == IF pc.flow \in {"quit", "quitSilent"} THEN "done" ELSE "line"
<1>2. pc' = Flow(f) /\ f \in Flows \union {"line", "done"}
  BY <1>1 DEF Done, Line, Flow
<1> HIDE DEF f
<1>3. PcType' /\ pc'.flow = f
  BY <1>2, FlowType
<1>4. out' \in Seq(Written) /\ lastOut' \in [line : Nat, append : BOOLEAN]
  BY EndCycleOut
<1>5. <<>> \in Seq(AText)
  OBVIOUS
<1>6. SedTypes'
  BY <1>1, <1>3, <1>4, <1>5, TypesNow, TypesAgain
<1> QED BY <1>1, <1>3, <1>6 DEF f

\* What the commands leave as it is.
Stays == /\ prog' = prog /\ input' = input /\ quiet' = quiet /\ noNL' = noNL
         /\ cycles' = cycles /\ SedTypes'
StaysAtLine == Stays /\ lr' = lr /\ lineNum' = lineNum
KeepsText == pat' = pat /\ hold' = hold /\ lastLine' = lastLine
KeepsOutput == appendText' = appendText /\ queued' = queued /\ out' = out /\ lastOut' = lastOut

LEMMA EndOfListTypes ==
    ASSUME SedTypes, EndOfList
    PROVE  /\ StaysAtLine /\ KeepsText /\ KeepsOutput /\ rangeActive' = rangeActive /\ picked' = picked
           /\ pc.flow = "run" /\ pc.at = 0
           /\ pc.in = 0 => pc'.flow = "normal"
           /\ pc.in # 0 => pc'.flow = "run" /\ pc.in \in 1..Len(prog) /\ pc' = Next1(pc.in)
<1>1. /\ prog' = prog /\ input' = input /\ quiet' = quiet /\ noNL' = noNL /\ lr' = lr /\ lineNum' = lineNum
      /\ KeepsText /\ KeepsOutput /\ rangeActive' = rangeActive /\ picked' = picked /\ cycles' = cycles
      /\ pc.flow = "run" /\ pc.at = 0
      /\ pc' = IF pc.in = 0 THEN Flow("normal") ELSE Next1(pc.in)
  BY DEF EndOfList, source, ranges, output, KeepsText, KeepsOutput
<1>2. pc.in \in 0..Len(prog) /\ Len(prog) \in Nat
  BY <1>1, RunFacts, ProgFacts
<1>3. PcType' /\ (pc.in = 0 => pc'.flow = "normal") /\ (pc.in # 0 => pc'.flow = "run" /\ pc.in \in 1..Len(prog) /\ pc' = Next1(pc.in))
  <2>1. CASE pc.in = 0
    <3>1. pc' = Flow("normal") /\ "normal" \in Flows \union {"line", "done"}
      BY <1>1, <2>1 DEF Flows
    <3> QED BY <2>1, <3>1, FlowType
  <2>2. CASE pc.in # 0
    <3>1. pc.in \in 1..Len(prog)
      BY <1>2, <2>2
    <3>2. Next1(pc.in) \in PlaceIn(prog[pc.in].in) /\ prog[pc.in].in \in 0..Len(prog)
      BY <3>1, NextType, ProgFacts
    <3>3. pc' = Next1(pc.in)
      BY <1>1, <2>2
    <3>4. PcType' /\ pc'.flow = "run"
      BY <1>1, <3>2, <3>3, PlaceType
    <3> QED BY <2>2, <3>1, <3>3, <3>4
  <2> QED BY <2>1, <2>2
<1>4. SedTypes'
  BY <1>1, <1>3, TypesNow, TypesAgain DEF KeepsText, KeepsOutput
<1> QED BY <1>1, <1>3, <1>4 DEF StaysAtLine, Stays

LEMMA NotSelectedTypes ==
    ASSUME SedTypes, NotSelected
    PROVE  /\ StaysAtLine /\ KeepsText /\ KeepsOutput
           /\ pc.flow = "run" /\ pc.at \in 1..Len(prog) /\ ~Runs(pc.at)
           /\ Match(pc.at) /\ Onward
<1>1. /\ prog' = prog /\ input' = input /\ quiet' = quiet /\ noNL' = noNL /\ lr' = lr /\ lineNum' = lineNum
      /\ KeepsText /\ KeepsOutput /\ cycles' = cycles
      /\ pc.flow = "run" /\ pc.at # 0 /\ ~Runs(pc.at) /\ Match(pc.at) /\ Onward
  BY DEF NotSelected, source, output, KeepsText, KeepsOutput
<1>2. pc.at \in 1..Len(prog)
  BY <1>1, RunFacts
<1>3. PcType'
  BY <1>1, <1>2, OnwardFacts
<1>4. rangeActive' \subseteq DOMAIN prog
  BY <1>1, <1>2, ActiveType DEF Match, TrackRange
<1>5. SedTypes'
  BY <1>1, <1>3, <1>4, TypesNow, TypesAgain DEF KeepsText, KeepsOutput
<1> QED BY <1>1, <1>2, <1>5 DEF StaysAtLine, Stays

LEMMA GroupTypes ==
    ASSUME SedTypes, Group
    PROVE  /\ StaysAtLine /\ pat' = pat /\ hold' = hold /\ KeepsOutput
           /\ pc.flow = "run" /\ pc.at \in 1..Len(prog) /\ Runs(pc.at) /\ Here.cmd = "{"
           /\ Here.cmd \in Commands
           /\ BeginLists(pc.at, ActiveAfter(pc.at), StartAfter(pc.at), pat, lineNum, lastLine[Here.in])
           /\ Tried(pc.at) /\ pc' = FirstOf(pc.at) /\ pc'.flow = "run" /\ pc'.in = pc.at
           /\ pc'.at # 0 => pc.at < pc'.at
<1>1. /\ prog' = prog /\ input' = input /\ quiet' = quiet /\ noNL' = noNL /\ lr' = lr /\ lineNum' = lineNum
      /\ pat' = pat /\ hold' = hold /\ KeepsOutput /\ cycles' = cycles /\ Runs(pc.at) /\ Cmd({"{"})
      /\ BeginLists(pc.at, ActiveAfter(pc.at), StartAfter(pc.at), pat, lineNum, lastLine[Here.in])
      /\ Tried(pc.at) /\ pc' = FirstOf(pc.at)
      /\ lastLine' = [lastLine EXCEPT ![pc.at] = lastLine[Here.in]]
  BY DEF Group, source, output, KeepsOutput
<1>2. pc.flow = "run" /\ pc.at \in 1..Len(prog) /\ Here.cmd \in {"{"} /\ Here.cmd \in Commands
      /\ Here.in \in 0..Len(prog) /\ pc.in = Here.in
  BY <1>1, CommandFacts
<1>3. pc.at \in 0..Len(prog)
  <2>1. Len(prog) \in Nat
    BY ProgFacts
  <2>2. PICK k \in 1..Len(prog) : pc.at = k
    BY <1>2
  <2>3. k \in 0..Len(prog)
    BY <2>1
  <2> QED BY <2>2, <2>3
<1>4. FirstOf(pc.at) \in PlaceIn(pc.at) /\ (FirstOf(pc.at).at # 0 => pc.at < FirstOf(pc.at).at)
  BY <1>3, FirstType
<1>5. PcType' /\ pc'.flow = "run" /\ pc'.in = pc.at
  BY <1>1, <1>3, <1>4, PlaceType
<1>6. rangeActive' \subseteq DOMAIN prog
  <2>1. Within(pc.at) \subseteq DOMAIN prog /\ ActiveAfter(pc.at) \subseteq DOMAIN prog
    BY <1>2, ActiveType DEF Within
  <2> QED BY <1>1, <2>1 DEF BeginLists
<1>7. lastLine' \in [0..Len(prog) -> BOOLEAN]
  <2>1. lastLine[Here.in] \in BOOLEAN /\ lastLine \in [0..Len(prog) -> BOOLEAN]
    BY <1>2, TypesNow
  <2> QED BY <1>1, <2>1
<1>8. SedTypes'
  BY <1>1, <1>5, <1>6, <1>7, TypesNow, TypesAgain DEF KeepsOutput
<1> QED BY <1>1, <1>2, <1>4, <1>5, <1>8 DEF StaysAtLine, Stays

\* Either nothing is written, or one text.
Writes(by, text) == /\ out' = Append(out, [line |-> lineNum, text |-> text, by |-> by])
                    /\ [line |-> lineNum, text |-> text, by |-> by] \in Written

LEMMA EndingTypes ==
    ASSUME SedTypes, Ending
    PROVE  /\ StaysAtLine /\ KeepsText /\ appendText' = appendText /\ queued' = queued /\ lastOut' = lastOut
           /\ Selected({"d", "q", "Q", "c"})
           /\ out' = out \/ (Here.cmd = "c" /\ Writes("c", Here.text))
           /\ pc'.flow = (CASE Here.cmd = "q" -> "quit" [] Here.cmd = "Q" -> "quitSilent"
                            [] OTHER -> "delete")
<1>1. /\ prog' = prog /\ input' = input /\ quiet' = quiet /\ noNL' = noNL /\ lr' = lr /\ lineNum' = lineNum
      /\ KeepsText /\ cycles' = cycles /\ appendText' = appendText /\ queued' = queued /\ lastOut' = lastOut
      /\ Selected({"d", "q", "Q", "c"})
      /\ IF Here.cmd = "c" /\ (Here.a2.kind = "none" \/ pc.at \notin rangeActive')
         THEN Write("c", Here.text) ELSE UNCHANGED out
      /\ pc' = Flow(CASE Here.cmd = "q" -> "quit" [] Here.cmd = "Q" -> "quitSilent"
                      [] OTHER -> "delete")
  BY DEF Ending, source, KeepsText
<1> DEFINE f == CASE Here.cmd = "q" -> "quit" [] Here.cmd = "Q" -> "quitSilent" [] OTHER -> "delete"
<1>2. pc' = Flow(f)
  BY <1>1
<1>3. f \in Flows \union {"line", "done"}
  BY DEF Flows
<1> HIDE DEF f
<1>4. PcType' /\ pc'.flow = f
  BY <1>2, <1>3, FlowType
<1>5. Here \in ACommand /\ rangeActive' \subseteq DOMAIN prog
  BY <1>1, SelectedFacts
<1>6. Here.text \in AText /\ "c" \in CmdNames \union {"print"}
  BY <1>5 DEF ACommand, CmdNames
<1>7. out' \in Seq(Written) /\ (out' = out \/ (Here.cmd = "c" /\ Writes("c", Here.text)))
  <2>1. CASE Here.cmd = "c" /\ Write("c", Here.text)
    BY <1>6, <2>1, WriteType DEF Writes
  <2>2. CASE UNCHANGED out
    BY <2>2, TypesNow
  <2> QED BY <1>1, <2>1, <2>2
<1>8. SedTypes'
  BY <1>1, <1>4, <1>5, <1>7, TypesNow, TypesAgain DEF KeepsText
<1> QED BY <1>1, <1>4, <1>7, <1>8 DEF StaysAtLine, Stays, f

LEMMA WritingTypes ==
    ASSUME SedTypes, Writing
    PROVE  /\ StaysAtLine /\ KeepsText /\ appendText' = appendText /\ queued' = queued
           /\ Selected({"p", "P", "i", "=", "l", "r"}) /\ Onward
           /\ Writes(Here.cmd, CASE Here.cmd \in {"p", "l"} -> pat [] Here.cmd = "P" -> UpTo(pat)
                                 [] OTHER -> Here.text)
           /\ Here.cmd # "p" => lastOut' = lastOut
           /\ Here.cmd = "p" => lastOut'.line = lineNum /\ lastOut'.append = FALSE
<1>1. /\ prog' = prog /\ input' = input /\ quiet' = quiet /\ noNL' = noNL /\ lr' = lr /\ lineNum' = lineNum
      /\ KeepsText /\ cycles' = cycles /\ appendText' = appendText /\ queued' = queued
      /\ Selected({"p", "P", "i", "=", "l", "r"}) /\ Onward
      /\ Write(Here.cmd, CASE Here.cmd \in {"p", "l"} -> pat [] Here.cmd = "P" -> UpTo(pat)
                           [] OTHER -> Here.text)
      /\ lastOut' = IF Here.cmd = "p" THEN [line |-> lineNum, append |-> FALSE] ELSE lastOut
  BY DEF Writing, source, KeepsText
<1> DEFINE text == CASE Here.cmd \in {"p", "l"} -> pat [] Here.cmd = "P" -> UpTo(pat) [] OTHER -> Here.text
<1>2. Here \in ACommand /\ Here.cmd \in CmdNames /\ rangeActive' \subseteq DOMAIN prog
      /\ pc.flow = "run" /\ pc.at \in 1..Len(prog)
  BY <1>1, SelectedFacts
<1>3. Here.text \in AText /\ pat \in AText /\ UpTo(pat) \in AText
  BY <1>2, TypesNow, UpToType DEF ACommand
<1>4. text \in AText
  BY <1>3
<1>5. Write(Here.cmd, text)
  BY <1>1
<1> HIDE DEF text
<1>6. out' \in Seq(Written) /\ Writes(Here.cmd, text)
  BY <1>2, <1>4, <1>5, WriteType DEF Writes
<1>7. PcType'
  BY <1>1, <1>2, OnwardFacts
<1>8. lastOut' \in [line : Nat, append : BOOLEAN]
  BY <1>1, TypesNow
<1>9. SedTypes'
  BY <1>1, <1>2, <1>6, <1>7, <1>8, TypesNow, TypesAgain DEF KeepsText
<1> QED BY <1>1, <1>6, <1>9 DEF StaysAtLine, Stays, text

LEMMA QueueTypes ==
    ASSUME SedTypes, Queue
    PROVE  /\ StaysAtLine /\ KeepsText /\ out' = out /\ lastOut' = lastOut /\ queued' = queued + 1
           /\ Selected({"a"}) /\ Onward /\ Len(appendText') = Len(appendText) + 1
<1>1. /\ prog' = prog /\ input' = input /\ quiet' = quiet /\ noNL' = noNL /\ lr' = lr /\ lineNum' = lineNum
      /\ KeepsText /\ cycles' = cycles /\ out' = out /\ lastOut' = lastOut /\ queued' = queued + 1
      /\ Selected({"a"}) /\ Onward /\ appendText' = Append(appendText, Here.text)
  BY DEF Queue, source, KeepsText, output
<1>2. Here \in ACommand /\ rangeActive' \subseteq DOMAIN prog
      /\ pc.flow = "run" /\ pc.at \in 1..Len(prog)
  BY <1>1, SelectedFacts
<1>3. Here.text \in AText
  BY <1>2 DEF ACommand
<1>4. appendText \in Seq(AText) /\ queued \in Nat
  BY TypesNow
<1>5. appendText' \in Seq(AText) /\ Len(appendText') = Len(appendText) + 1 /\ queued' \in Nat
  BY <1>1, <1>3, <1>4
<1>6. PcType'
  BY <1>1, <1>2, OnwardFacts
<1>7. SedTypes'
  BY <1>1, <1>2, <1>5, <1>6, TypesNow, TypesAgain DEF KeepsText
<1> QED BY <1>1, <1>5, <1>7 DEF StaysAtLine, Stays

LEMMA LabelTypes ==
    ASSUME SedTypes, Label
    PROVE  StaysAtLine /\ KeepsText /\ KeepsOutput /\ Selected({":"}) /\ Onward
<1>1. /\ prog' = prog /\ input' = input /\ quiet' = quiet /\ noNL' = noNL /\ lr' = lr /\ lineNum' = lineNum
      /\ KeepsText /\ KeepsOutput /\ cycles' = cycles /\ Selected({":"}) /\ Onward
  BY DEF Label, source, KeepsText, KeepsOutput, output
<1>2. rangeActive' \subseteq DOMAIN prog /\ pc.flow = "run" /\ pc.at \in 1..Len(prog)
  BY <1>1, SelectedFacts
<1>3. PcType'
  BY <1>1, <1>2, OnwardFacts
<1>4. SedTypes'
  BY <1>1, <1>2, <1>3, TypesNow, TypesAgain DEF KeepsText, KeepsOutput
<1> QED BY <1>1, <1>4 DEF StaysAtLine, Stays

LEMMA SpacesTypes ==
    ASSUME SedTypes, Spaces
    PROVE  /\ StaysAtLine /\ lastLine' = lastLine /\ KeepsOutput
           /\ Selected({"h", "H", "g", "G", "x", "y", "z"}) /\ Onward
           /\ Here.cmd \in {"h", "H"} => pat' = pat
           /\ Here.cmd = "h" => hold' = pat
           /\ Here.cmd = "G" => pat' = pat \o <<NL>> \o hold /\ hold' = hold
<1> DEFINE yielded == [i \in DOMAIN pat |-> IF pat[i] = Here.re THEN Here.to ELSE pat[i]]
           newPat == CASE Here.cmd \in {"g", "x"} -> hold [] Here.cmd = "z" -> <<>>
                       [] Here.cmd = "y" -> yielded
                       [] Here.cmd = "G" -> pat \o <<NL>> \o hold [] OTHER -> pat
           newHold == CASE Here.cmd \in {"h", "x"} -> pat [] Here.cmd = "H" -> hold \o <<NL>> \o pat
                        [] OTHER -> hold
<1>1. /\ prog' = prog /\ input' = input /\ quiet' = quiet /\ noNL' = noNL /\ lr' = lr /\ lineNum' = lineNum
      /\ lastLine' = lastLine /\ KeepsOutput /\ cycles' = cycles
      /\ Selected({"h", "H", "g", "G", "x", "y", "z"}) /\ Onward
      /\ pat' = newPat /\ hold' = newHold
  BY DEF Spaces, source, KeepsOutput, output
<1>2. Here \in ACommand /\ rangeActive' \subseteq DOMAIN prog
      /\ pc.flow = "run" /\ pc.at \in 1..Len(prog)
  BY <1>1, SelectedFacts
<1>3. pat \in AText /\ hold \in AText
  BY TypesNow
<1>4. pat \o <<NL>> \o hold \in AText /\ hold \o <<NL>> \o pat \in AText
  <2>1. pat \in Seq(Chars) /\ hold \in Seq(Chars) /\ <<NL>> \in Seq(Chars)
    BY <1>3, NLType DEF AText
  <2>2. pat \o <<NL>> \in Seq(Chars) /\ hold \o <<NL>> \in Seq(Chars)
    BY <2>1, ConcatProperties
  <2> QED BY <2>1, <2>2, ConcatProperties DEF AText
<1>5. yielded \in AText
  <2> DEFINE S == {i \in DOMAIN pat : pat[i] = Here.re}
  <2>1. Here.to \in Chars
    BY <1>2 DEF ACommand
  <2>2. DOMAIN pat \subseteq Nat
    BY <1>3 DEF AText
  <2>3. S \in SUBSET Nat
    BY <2>2
  <2>4. yielded = [i \in DOMAIN pat |-> IF i \in S THEN Here.to ELSE pat[i]]
    OBVIOUS
  <2> HIDE DEF S
  <2> QED BY <1>3, <2>1, <2>3, <2>4, MappedType
<1> HIDE DEF yielded
<1>6. newPat \in AText /\ newHold \in AText
  BY <1>3, <1>4, <1>5, NLType
<1>7. /\ Here.cmd \in {"h", "H"} => newPat = pat
      /\ Here.cmd = "h" => newHold = pat
      /\ Here.cmd = "G" => newPat = pat \o <<NL>> \o hold /\ newHold = hold
  OBVIOUS
<1> HIDE DEF newPat, newHold
<1>8. PcType'
  BY <1>1, <1>2, OnwardFacts
<1>9. SedTypes'
  BY <1>1, <1>2, <1>6, <1>8, TypesNow, TypesAgain DEF KeepsOutput
<1> QED BY <1>1, <1>7, <1>9 DEF StaysAtLine, Stays

LEMMA DeleteFirstTypes ==
    ASSUME SedTypes, DeleteFirst
    PROVE  /\ StaysAtLine /\ hold' = hold /\ KeepsOutput /\ Selected({"D"})
           /\ Matches(NL, pat) => /\ pat' = SubSeq(pat, Len(UpTo(pat)) + 2, Len(pat))
                                  /\ pc' = FirstOf(pc.in) /\ pc'.flow = "run" /\ pc'.in = pc.in
                                  /\ lastLine' = [lastLine EXCEPT ![pc.in] = (lr = Len(input))]
           /\ ~Matches(NL, pat) => pc'.flow = "delete" /\ pat' = pat /\ lastLine' = lastLine
<1>1. /\ prog' = prog /\ input' = input /\ quiet' = quiet /\ noNL' = noNL /\ lr' = lr /\ lineNum' = lineNum
      /\ hold' = hold /\ KeepsOutput /\ cycles' = cycles /\ Selected({"D"})
      /\ IF Matches(NL, pat)
         THEN /\ pat' = SubSeq(pat, Len(UpTo(pat)) + 2, Len(pat))
              /\ pc' = FirstOf(Here.in)
              /\ lastLine' = [lastLine EXCEPT ![Here.in] = lr = Len(input)]
         ELSE pc' = Flow("delete") /\ UNCHANGED <<pat, lastLine>>
  BY DEF DeleteFirst, source, KeepsOutput, output, BeginAgain
<1>2. Here \in ACommand /\ rangeActive' \subseteq DOMAIN prog /\ pc.in = Here.in
      /\ pc.flow = "run" /\ pc.at \in 1..Len(prog) /\ pc.in \in 0..Len(prog)
  BY <1>1, SelectedFacts
<1>3. CASE Matches(NL, pat)
  <2> DEFINE b == lr = Len(input)
             rest == SubSeq(pat, Len(UpTo(pat)) + 2, Len(pat))
  <2>1. pat' = rest /\ pc' = FirstOf(pc.in) /\ lastLine' = [lastLine EXCEPT ![pc.in] = b]
    BY <1>1, <1>2, <1>3
  <2>2. rest \in AText /\ b \in BOOLEAN
    BY TypesNow, UpToType
  <2> HIDE DEF b, rest
  <2>3. lastLine' \in [0..Len(prog) -> BOOLEAN]
    BY <2>1, <2>2, TypesNow
  <2>4. FirstOf(pc.in) \in PlaceIn(pc.in)
    BY <1>2, FirstType
  <2>5. PcType' /\ pc'.flow = "run" /\ pc'.in = pc.in
    BY <1>1, <1>2, <2>1, <2>4, PlaceType
  <2>6. SedTypes'
    BY <1>1, <1>2, <2>1, <2>2, <2>3, <2>5, TypesNow, TypesAgain DEF KeepsOutput
  <2> QED BY <1>1, <1>3, <2>1, <2>5, <2>6 DEF StaysAtLine, Stays, b, rest
<1>4. CASE ~Matches(NL, pat)
  <2>1. pc' = Flow("delete") /\ pat' = pat /\ lastLine' = lastLine
    BY <1>1, <1>4
  <2>2. PcType' /\ pc'.flow = "delete"
    <3>1. "delete" \in Flows \union {"line", "done"}
      BY DEF Flows
    <3> QED BY <2>1, <3>1, FlowType
  <2>3. SedTypes'
    BY <1>1, <1>2, <2>1, <2>2, TypesNow, TypesAgain DEF KeepsOutput
  <2> QED BY <1>1, <1>4, <2>1, <2>2, <2>3 DEF StaysAtLine, Stays
<1> QED BY <1>3, <1>4

LEMMA NextLineTypes ==
    ASSUME SedTypes, NextLine
    PROVE  /\ Stays /\ hold' = hold /\ lastLine' = lastLine /\ appendText' = appendText
           /\ queued' = queued /\ lastOut' = lastOut /\ Selected({"n"})
           /\ (quiet /\ out' = out) \/ (~quiet /\ Writes("print", pat))
           /\ lr < Len(input) => lr' = lr + 1 /\ pat' = input[lr + 1] /\ Onward
           /\ ~(lr < Len(input)) => lr' = lr /\ pc'.flow = "delete"
<1>1. /\ prog' = prog /\ input' = input /\ quiet' = quiet /\ noNL' = noNL /\ hold' = hold
      /\ lastLine' = lastLine /\ appendText' = appendText /\ queued' = queued /\ lastOut' = lastOut
      /\ cycles' = cycles /\ Selected({"n"})
      /\ (quiet /\ out' = out) \/ (~quiet /\ Write("print", pat))
      /\ IF lr < Len(input)
         THEN /\ lr' = lr + 1 /\ lineNum' = lineNum + 1 /\ pat' = input[lr + 1] /\ Onward
         ELSE pat' = <<>> /\ pc' = Flow("delete") /\ UNCHANGED <<lr, lineNum, subst>>
  BY DEF NextLine, source, More
<1>2. Here \in ACommand /\ rangeActive' \subseteq DOMAIN prog
      /\ pc.flow = "run" /\ pc.at \in 1..Len(prog)
  BY <1>1, SelectedFacts
<1>3. out' \in Seq(Written) /\ ((quiet /\ out' = out) \/ (~quiet /\ Writes("print", pat)))
  <2>1. CASE quiet /\ out' = out
    BY <2>1, TypesNow
  <2>2. CASE ~quiet /\ Write("print", pat)
    <3>1. pat \in AText /\ "print" \in CmdNames \union {"print"}
      BY TypesNow
    <3> QED BY <2>2, <3>1, WriteType DEF Writes
  <2> QED BY <1>1, <2>1, <2>2
<1>4. CASE lr < Len(input)
  <2>1. lr' = lr + 1 /\ lineNum' = lineNum + 1 /\ pat' = input[lr + 1] /\ Onward
    BY <1>1, <1>4
  <2>2. input[lr + 1] \in AText /\ lr + 1 \in 0..Len(input)
    BY <1>4, LineType
  <2>3. PcType'
    BY <1>1, <1>2, <2>1, OnwardFacts
  <2>4. lineNum' = lr' /\ pat' \in AText /\ lr' \in 0..Len(input)
    BY <2>1, <2>2, TypesNow
  <2>5. SedTypes'
    BY <1>1, <1>2, <1>3, <2>3, <2>4, TypesNow, TypesAgain
  <2> QED BY <1>1, <1>3, <1>4, <2>1, <2>5 DEF Stays
<1>5. CASE ~(lr < Len(input))
  <2>1. lr' = lr /\ lineNum' = lineNum /\ pat' = <<>> /\ pc' = Flow("delete")
    BY <1>1, <1>5
  <2>2. PcType' /\ pc'.flow = "delete"
    <3>1. "delete" \in Flows \union {"line", "done"}
      BY DEF Flows
    <3> QED BY <2>1, <3>1, FlowType
  <2>3. SedTypes'
    BY <1>1, <1>2, <1>3, <2>1, <2>2, NLType, TypesNow, TypesAgain
  <2> QED BY <1>1, <1>3, <1>5, <2>1, <2>2, <2>3 DEF Stays
<1> QED BY <1>4, <1>5

LEMMA JoinLineTypes ==
    ASSUME SedTypes, JoinLine
    PROVE  /\ Stays /\ hold' = hold /\ lastLine' = lastLine /\ appendText' = appendText
           /\ queued' = queued /\ lastOut' = lastOut /\ Selected({"N"})
           /\ lr < Len(input) => /\ lr' = lr + 1 /\ pat' = pat \o <<NL>> \o input[lr + 1] /\ Onward
                                 /\ out' = out
           /\ ~(lr < Len(input)) => /\ lr' = lr /\ pc'.flow = "quitSilent"
                                    /\ (quiet /\ out' = out) \/ (~quiet /\ Writes("print", pat))
<1>1. /\ prog' = prog /\ input' = input /\ quiet' = quiet /\ noNL' = noNL /\ hold' = hold
      /\ lastLine' = lastLine /\ appendText' = appendText /\ queued' = queued /\ lastOut' = lastOut
      /\ cycles' = cycles /\ Selected({"N"})
      /\ IF lr < Len(input)
         THEN /\ lr' = lr + 1 /\ lineNum' = lineNum + 1 /\ pat' = pat \o <<NL>> \o input[lr + 1]
              /\ Onward /\ out' = out
         ELSE /\ (quiet /\ out' = out) \/ (~quiet /\ Write("print", pat))
              /\ pc' = Flow("quitSilent") /\ lr' = lr /\ lineNum' = lineNum /\ pat' = pat
  BY DEF JoinLine, source, More, PrintAtEnd
<1>2. Here \in ACommand /\ rangeActive' \subseteq DOMAIN prog
      /\ pc.flow = "run" /\ pc.at \in 1..Len(prog)
  BY <1>1, SelectedFacts
<1>4. CASE lr < Len(input)
  <2>1. lr' = lr + 1 /\ lineNum' = lineNum + 1 /\ pat' = pat \o <<NL>> \o input[lr + 1] /\ Onward
        /\ out' = out
    BY <1>1, <1>4
  <2>2. input[lr + 1] \in AText /\ lr + 1 \in 0..Len(input)
    BY <1>4, LineType
  <2>3. PcType'
    BY <1>1, <1>2, <2>1, OnwardFacts
  <2>4. lineNum' = lr' /\ lr' \in 0..Len(input)
    BY <2>1, <2>2, TypesNow
  <2>5. pat \o <<NL>> \o input[lr + 1] \in AText
    <3>1. pat \in Seq(Chars) /\ <<NL>> \in Seq(Chars) /\ input[lr + 1] \in Seq(Chars)
      BY <2>2, NLType, TypesNow DEF AText
    <3>2. pat \o <<NL>> \in Seq(Chars)
      BY <3>1, ConcatProperties
    <3> QED BY <3>1, <3>2, ConcatProperties DEF AText
  <2>6. pat' \in AText
    BY <2>1, <2>5
  <2>7. SedTypes'
    BY <1>1, <1>2, <2>1, <2>3, <2>4, <2>6, TypesNow, TypesAgain
  <2> QED BY <1>1, <1>4, <2>1, <2>7 DEF Stays
<1>5. CASE ~(lr < Len(input))
  <2>1. lr' = lr /\ lineNum' = lineNum /\ pat' = pat /\ pc' = Flow("quitSilent")
        /\ ((quiet /\ out' = out) \/ (~quiet /\ Write("print", pat)))
    BY <1>1, <1>5
  <2>2. PcType' /\ pc'.flow = "quitSilent"
    <3>1. "quitSilent" \in Flows \union {"line", "done"}
      BY DEF Flows
    <3> QED BY <2>1, <3>1, FlowType
  <2>3. out' \in Seq(Written) /\ ((quiet /\ out' = out) \/ (~quiet /\ Writes("print", pat)))
    <3>1. CASE quiet /\ out' = out
      BY <3>1, TypesNow
    <3>2. CASE ~quiet /\ Write("print", pat)
      <4>1. pat \in AText /\ "print" \in CmdNames \union {"print"}
        BY TypesNow
      <4> QED BY <3>2, <4>1, WriteType DEF Writes
    <3> QED BY <2>1, <3>1, <3>2
  <2>4. SedTypes'
    BY <1>1, <1>2, <2>1, <2>2, <2>3, TypesNow, TypesAgain
  <2> QED BY <1>1, <1>5, <2>1, <2>2, <2>3, <2>4 DEF Stays
<1> QED BY <1>4, <1>5

LEMMA SubstituteTypes ==
    ASSUME SedTypes, Substitute
    PROVE  /\ StaysAtLine /\ hold' = hold /\ lastLine' = lastLine /\ appendText' = appendText
           /\ queued' = queued
           /\ Cmd({"s"}) /\ Runs(pc.at) /\ TrackRange(pc.at) /\ Tried(pc.at) /\ Onward
           /\ \/ out' = out /\ lastOut' = lastOut
              \/ \E text \in AText : Writes("p", text) /\ lastOut'.line = lineNum /\ lastOut'.append = FALSE
<1> DEFINE re  == IF Here.re # NoRegex THEN Here.re ELSE RegexAfter(pc.at)
           new == Replaced(re, Here)
<1>1. /\ prog' = prog /\ input' = input /\ quiet' = quiet /\ noNL' = noNL /\ lr' = lr /\ lineNum' = lineNum
      /\ hold' = hold /\ lastLine' = lastLine /\ appendText' = appendText /\ queued' = queued
      /\ cycles' = cycles
      /\ Cmd({"s"}) /\ Runs(pc.at) /\ TrackRange(pc.at) /\ Tried(pc.at) /\ Onward
      /\ pat' = new
      /\ IF Here.p /\ new # pat
         THEN Write("p", new) /\ lastOut' = [line |-> lineNum, append |-> FALSE]
         ELSE out' = out /\ lastOut' = lastOut
  BY DEF Substitute, source, output
<1>2. Here \in ACommand /\ pc.flow = "run" /\ pc.at \in 1..Len(prog)
  BY <1>1, CommandFacts
<1>3. rangeActive' \subseteq DOMAIN prog
  BY <1>1, <1>2, ActiveType DEF TrackRange
<1>4. new \in AText
  <2> DEFINE hits == {i \in DOMAIN pat : pat[i] = re}
             nth(i) == Cardinality({j \in hits : j <= i})
             S == {i \in hits : Here.all \/ nth(i) = Here.n}
  <2>1. new = [i \in DOMAIN pat |-> IF i \in S THEN Here.to ELSE pat[i]]
    BY DEF Replaced
  <2>2. Here.to \in Chars /\ pat \in AText
    BY <1>2, TypesNow DEF ACommand
  <2>3. DOMAIN pat \subseteq Nat
    BY <2>2 DEF AText
  <2>4. S \in SUBSET Nat
    BY <2>3
  <2> HIDE DEF S, new
  <2> QED BY <2>1, <2>2, <2>4, MappedType
<1> HIDE DEF re, new
<1>5. PcType'
  BY <1>1, <1>2, OnwardFacts
<1>6. /\ out' \in Seq(Written) /\ lastOut' \in [line : Nat, append : BOOLEAN]
      /\ \/ out' = out /\ lastOut' = lastOut
         \/ \E text \in AText : Writes("p", text) /\ lastOut'.line = lineNum /\ lastOut'.append = FALSE
  <2>1. CASE out' = out /\ lastOut' = lastOut
    BY <2>1, TypesNow
  <2>2. CASE Write("p", new) /\ lastOut' = [line |-> lineNum, append |-> FALSE]
    <3>1. "p" \in CmdNames \union {"print"}
      BY DEF CmdNames
    <3>2. out' \in Seq(Written) /\ Writes("p", new)
      BY <1>4, <2>2, <3>1, WriteType DEF Writes
    <3>3. lastOut'.line = lineNum /\ lastOut'.append = FALSE /\ lastOut' \in [line : Nat, append : BOOLEAN]
      BY <2>2, TypesNow
    <3> QED BY <1>4, <3>2, <3>3
  <2> QED BY <1>1, <2>1, <2>2
<1>7. SedTypes'
  BY <1>1, <1>3, <1>4, <1>5, <1>6, TypesNow, TypesAgain
<1> QED BY <1>1, <1>6, <1>7 DEF StaysAtLine, Stays

LEMMA BranchTypes ==
    ASSUME SedTypes, Branch
    PROVE  /\ StaysAtLine /\ KeepsText /\ KeepsOutput /\ Selected({"b", "t", "T"})
           /\ pc'.flow = "run"
<1> DEFINE labels == {j \in Members(Here.in) : prog[j].cmd = ":" /\ prog[j].label = Here.label}
<1>1. /\ prog' = prog /\ input' = input /\ quiet' = quiet /\ noNL' = noNL /\ lr' = lr /\ lineNum' = lineNum
      /\ KeepsText /\ KeepsOutput /\ cycles' = cycles /\ Selected({"b", "t", "T"})
      /\ \/ Onward
         \/ pc' = AtCmd(0, Here.in)
         \/ labels # {} /\ pc' = Next1(LeastOf(labels))
  BY DEF Branch, source, KeepsText, KeepsOutput, output
<1>2. Here \in ACommand /\ rangeActive' \subseteq DOMAIN prog /\ pc.in = Here.in
      /\ pc.flow = "run" /\ pc.at \in 1..Len(prog) /\ pc.in \in 0..Len(prog)
  BY <1>1, SelectedFacts
<1>3. PcType' /\ pc'.flow = "run"
  <2>1. CASE Onward
    BY <1>1, <1>2, <2>1, OnwardFacts
  <2>2. CASE pc' = AtCmd(0, Here.in)
    <3>1. AtCmd(0, Here.in) \in PlaceIn(Here.in)
      BY DEF PlaceIn
    <3> QED BY <1>1, <1>2, <2>2, <3>1, PlaceType
  <2>3. CASE labels # {} /\ pc' = Next1(LeastOf(labels))
    <3>1. labels \in SUBSET Nat /\ \A j \in labels : j \in 1..Len(prog)
      BY ProgFacts DEF Members
    <3> HIDE DEF labels
    <3>2. LeastOf(labels) \in 1..Len(prog)
      BY <2>3, <3>1, LeastType
    <3> DEFINE j == LeastOf(labels)
    <3> HIDE DEF j
    <3>3. j \in 1..Len(prog) /\ pc' = Next1(j)
      BY <2>3, <3>2 DEF j
    <3>4. Next1(j) \in PlaceIn(prog[j].in) /\ prog[j].in \in 0..Len(prog)
      BY <3>3, NextType, ProgFacts
    <3> QED BY <1>1, <3>3, <3>4, PlaceType
  <2> QED BY <1>1, <2>1, <2>2, <2>3
<1>4. SedTypes'
  BY <1>1, <1>2, <1>3, TypesNow, TypesAgain DEF KeepsText, KeepsOutput
<1> QED BY <1>1, <1>3, <1>4 DEF StaysAtLine, Stays

LEMMA StutterTypes ==
    ASSUME SedTypes, UNCHANGED sed
    PROVE  /\ SedTypes' /\ prog' = prog /\ input' = input /\ quiet' = quiet /\ noNL' = noNL /\ lr' = lr
           /\ lineNum' = lineNum /\ KeepsText /\ KeepsOutput /\ pc' = pc /\ cycles' = cycles
           /\ rangeActive' = rangeActive /\ picked' = picked
<1>1. /\ prog' = prog /\ input' = input /\ quiet' = quiet /\ noNL' = noNL /\ lr' = lr
      /\ lineNum' = lineNum /\ KeepsText /\ KeepsOutput /\ pc' = pc /\ cycles' = cycles
      /\ rangeActive' = rangeActive /\ picked' = picked
  BY DEF sed, source, ranges, output, KeepsText, KeepsOutput
<1>2. PcType'
  BY <1>1, TypesNow DEF PcType, Members
<1>3. SedTypes'
  BY <1>1, <1>2, TypesNow, TypesAgain DEF KeepsText, KeepsOutput
<1> QED BY <1>1, <1>3

LEMMA TypesKept ==
    ASSUME SedTypes, [SedNext]_sed
    PROVE  SedTypes'
<1>1. CASE BeginCycle BY <1>1, BeginTypes
<1>2. CASE EndOfInput BY <1>2, EndOfInputTypes
<1>3. CASE EndCycle BY <1>3, EndCycleTypes
<1>4. CASE EndOfList BY <1>4, EndOfListTypes DEF StaysAtLine, Stays
<1>5. CASE NotSelected BY <1>5, NotSelectedTypes DEF StaysAtLine, Stays
<1>6. CASE Group BY <1>6, GroupTypes DEF StaysAtLine, Stays
<1>7. CASE Ending BY <1>7, EndingTypes DEF StaysAtLine, Stays
<1>8. CASE Writing BY <1>8, WritingTypes DEF StaysAtLine, Stays
<1>9. CASE Queue BY <1>9, QueueTypes DEF StaysAtLine, Stays
<1>10. CASE Spaces BY <1>10, SpacesTypes DEF StaysAtLine, Stays
<1>11. CASE DeleteFirst BY <1>11, DeleteFirstTypes DEF StaysAtLine, Stays
<1>12. CASE NextLine BY <1>12, NextLineTypes DEF Stays
<1>13. CASE JoinLine BY <1>13, JoinLineTypes DEF Stays
<1>14. CASE Substitute BY <1>14, SubstituteTypes DEF StaysAtLine, Stays
<1>15. CASE Branch BY <1>15, BranchTypes DEF StaysAtLine, Stays
<1>16. CASE Label BY <1>16, LabelTypes DEF StaysAtLine, Stays
<1>17. CASE UNCHANGED sed BY <1>17, StutterTypes
<1> QED BY <1>1, <1>2, <1>3, <1>4, <1>5, <1>6, <1>7, <1>8, <1>9, <1>10, <1>11, <1>12, <1>13, <1>14,
           <1>15, <1>16, <1>17 DEF SedNext, Finished

-----------------------------------------------------------------------------
(* LinesKept.                                                                *)

LEMMA ConstStep ==
    ASSUME SedTypes, [SedNext]_sed
    PROVE  prog' = prog /\ input' = input /\ quiet' = quiet /\ noNL' = noNL /\ Commands' = Commands
<1>1. prog' = prog /\ input' = input /\ quiet' = quiet /\ noNL' = noNL
  BY DEF SedNext, sed, source, BeginCycle, EndOfInput, EndCycle, EndOfList, NotSelected, Group, Ending,
         Writing, Queue, Spaces, DeleteFirst, NextLine, JoinLine, Substitute, Branch, Label, Finished
<1> QED BY <1>1 DEF Commands

LEMMA TextsNow ==
    ASSUME SedTypes, NEW w
    PROVE  Texts(w) = TextsOf(out, w) /\ Texts(w)' = TextsOf(out', w) /\ Texts(w) \in Seq(AText)
<1>1. Texts(w) = TextsOf(out, w) /\ Texts(w)' = TextsOf(out', w)
  BY DEF Texts, TextsOf
<1>2. out \in Seq(Written)
  BY TypesNow
<1> QED BY <1>1, <1>2, TextsType

LEMMA TextsStay ==
    ASSUME SedTypes, NEW w, out' = out
    PROVE  Texts(w)' = Texts(w)
BY TextsNow

LEMMA WritesTexts ==
    ASSUME SedTypes, NEW by, NEW text, Writes(by, text), NEW w
    PROVE  Texts(w)' = IF by = w THEN Append(Texts(w), text) ELSE Texts(w)
<1> DEFINE r == [line |-> lineNum, text |-> text, by |-> by]
<1>1. r \in Written /\ out' = Append(out, r) /\ out \in Seq(Written)
  BY TypesNow DEF Writes
<1>2. r.by = by /\ r.text = text
  OBVIOUS
<1> HIDE DEF r
<1>3. TextsOf(Append(out, r), w) = IF r.by = w THEN Append(TextsOf(out, w), r.text) ELSE TextsOf(out, w)
  BY <1>1, TextsAppend
<1> QED BY <1>1, <1>2, <1>3, TextsNow

LEMMA ReadNext ==
    ASSUME SedTypes, lr < Len(input)
    PROVE  Read(lr + 1) = IF lr = 0 THEN input[lr + 1] ELSE Read(lr) \o (<<NL>> \o input[lr + 1])
<1>1. input \in Seq(AText) /\ lr \in 0..Len(input) /\ lr \in Nat
  <2>1. input \in Seq(Seq(Letters))
    BY TypesNow DEF SedInputs
  <2>2. Seq(Letters) \subseteq AText
    BY NoNewline
  <2> QED BY <2>1, <2>2, TypesNow, SeqMonotonic
<1> DEFINE s == SubSeq(input, 1, lr)
           x == input[lr + 1]
<1>2. x \in AText /\ SubSeq(input, 1, lr + 1) = Append(s, x)
  BY <1>1, NextLineOf
<1>3. s \in Seq(AText) /\ Len(s) = lr
  BY <1>1, FirstLines
<1> HIDE DEF s, x
<1>4. s = <<>> <=> lr = 0
  BY <1>3
<1>5. Joined(Append(s, x)) = IF s = <<>> THEN x ELSE Joined(s) \o (<<NL>> \o x)
  BY <1>2, <1>3, JoinedAppend
<1> QED BY <1>2, <1>4, <1>5 DEF Read, s, x

LEMMA ReadNone ==
    ASSUME SedTypes
    PROVE  Read(0) = <<>>
<1>1. SubSeq(input, 1, 0) = <<>>
  BY SubSeqEmpty
<1> QED BY <1>1, JoinedEmpty DEF Read

\* Nothing is printed or read: the pattern space stays.
LEMMA KeptSame ==
    ASSUME SedTypes, KeptInv, ~quiet, Commands \subseteq OnlyAdds, StaysAtLine, pat' = pat, pc.flow = "run",
           Texts("print")' = Texts("print"), pc'.flow \in {"run", "normal"}
    PROVE  KeptInv'
<1>1. WithPattern
  BY DEF KeptInv
<1>2. WithPattern'
  BY <1>1 DEF WithPattern, StaysAtLine, Stays, Read
<1> QED BY <1>2 DEF KeptInv

LEMMA KeptBegin ==
    ASSUME SedTypes, KeptInv, ~quiet, Commands \subseteq OnlyAdds, BeginCycle
    PROVE  KeptInv'
<1>1. /\ lr < Len(input) /\ pc = Line /\ lr' = lr + 1 /\ pat' = input[lr + 1] /\ out' = out
      /\ input' = input
  BY DEF BeginCycle, source, output
<1>2. AllPrinted
  BY <1>1 DEF KeptInv, Line
<1>3. pc'.flow = "run"
  BY BeginTypes
<1> DEFINE printed == Texts("print")
           x == input[lr + 1]
<1>4. printed \in Seq(AText) /\ x \in AText /\ Texts("print")' = printed
  BY <1>1, LineType, TextsNow, TextsStay
<1>5. Joined(printed) = Read(lr) /\ (printed = <<>> <=> lr = 0)
  BY <1>2 DEF AllPrinted
<1>6. Read(lr + 1) = IF lr = 0 THEN x ELSE Read(lr) \o (<<NL>> \o x)
  BY <1>1, ReadNext
<1> HIDE DEF printed
<1>7. Joined(Append(printed, x)) = IF printed = <<>> THEN x ELSE Joined(printed) \o (<<NL>> \o x)
  BY <1>4, JoinedAppend
<1>8. Joined(Append(printed, x)) = Read(lr + 1)
  BY <1>5, <1>6, <1>7
<1>10. lr' >= 1
  BY <1>1, TypesNow
<1>11. WithPattern'
  BY <1>1, <1>4, <1>8, <1>10 DEF WithPattern, Read
<1> QED BY <1>3, <1>11 DEF KeptInv

\* The pattern space is printed.
LEMMA KeptPrint ==
    ASSUME SedTypes, KeptInv, ~quiet, Commands \subseteq OnlyAdds, pc.flow \in {"run", "normal"},
           input' = input, lr' = lr, Texts("print")' = Append(Texts("print"), pat)
    PROVE  AllPrinted'
<1>1. WithPattern
  BY DEF KeptInv
<1>2. Texts("print") \in Seq(AText) /\ pat \in AText
  BY TextsNow, TypesNow
<1>3. Append(Texts("print"), pat) # <<>>
  BY <1>2
<1>4. lr # 0
  BY <1>1, TypesNow DEF WithPattern
<1> QED BY <1>1, <1>3, <1>4 DEF WithPattern, AllPrinted, Read

LEMMA KeptEnd ==
    ASSUME SedTypes, KeptInv, ~quiet, Commands \subseteq OnlyAdds, EndCycle
    PROVE  KeptInv'
<1>1. /\ input' = input /\ lr' = lr /\ pc.flow \in Flows
      /\ pc'.flow = (IF pc.flow \in {"quit", "quitSilent"} THEN "done" ELSE "line")
  BY EndCycleTypes
<1>2. pc.flow # "quit"
  BY DEF KeptInv
<1>3. /\ out' = (IF Printed THEN Append(out, PrintText) ELSE out) \o AppendTexts
      /\ out \in Seq(Written) /\ PrintText \in Written /\ AppendTexts \in Seq(Written)
      /\ \A k \in 1..Len(AppendTexts) : AppendTexts[k].by # "print"
  BY EndCycleOut, CycleEndType, TypesNow
<1>4. CASE pc.flow = "normal"
  <2>1. out' = Append(out, PrintText) \o AppendTexts
    BY <1>3, <1>4 DEF Printed
  <2>2. Append(out, PrintText) \in Seq(Written)
    BY <1>3
  <2>3. TextsOf(out', "print") = TextsOf(Append(out, PrintText), "print")
    <3> DEFINE o == Append(out, PrintText)
    <3> HIDE DEF o
    <3>1. o \in Seq(Written) /\ out' = o \o AppendTexts
      BY <2>1, <2>2 DEF o
    <3>2. TextsOf(o \o AppendTexts, "print") = TextsOf(o, "print")
      BY <1>3, <3>1, TextsConcat
    <3> QED BY <3>1, <3>2 DEF o
  <2>4. PrintText.by = "print" /\ PrintText.text = pat
    BY DEF PrintText
  <2>5. TextsOf(Append(out, PrintText), "print") = Append(TextsOf(out, "print"), pat)
    BY <1>3, <2>4, TextsAppend
  <2>6. Texts("print")' = Append(Texts("print"), pat)
    BY <2>3, <2>5, TextsNow
  <2>7. AllPrinted'
    BY <1>1, <1>4, <2>6, KeptPrint
  <2>8. pc'.flow = "line"
    BY <1>1, <1>4
  <2> QED BY <2>7, <2>8 DEF KeptInv
<1>5. CASE pc.flow # "normal"
  <2>1. pc.flow \in {"delete", "quitSilent"}
    BY <1>1, <1>2, <1>5 DEF Flows
  <2>2. out' = out \o AppendTexts
    BY <1>3, <2>1 DEF Printed
  <2>3. TextsOf(out', "print") = TextsOf(out, "print")
    BY <1>3, <2>2, TextsConcat
  <2>4. Texts("print")' = Texts("print")
    BY <2>3, TextsNow
  <2>5. AllPrinted /\ lr = Len(input)
    BY <2>1 DEF KeptInv
  <2>6. AllPrinted' /\ lr' = Len(input')
    BY <1>1, <2>4, <2>5 DEF AllPrinted, Read
  <2>7. pc'.flow \in {"line", "done"}
    BY <1>1
  <2> QED BY <2>6, <2>7 DEF KeptInv
<1> QED BY <1>4, <1>5

LEMMA KeptNextLine ==
    ASSUME SedTypes, KeptInv, ~quiet, Commands \subseteq OnlyAdds, NextLine
    PROVE  KeptInv'
<1>1. /\ input' = input /\ Writes("print", pat) /\ pc.flow = "run"
      /\ pc.at \in 1..Len(prog) /\ prog' = prog
      /\ lr < Len(input) => lr' = lr + 1 /\ pat' = input[lr + 1] /\ Onward
      /\ ~(lr < Len(input)) => lr' = lr /\ pc'.flow = "delete"
  BY NextLineTypes, SelectedFacts DEF Stays
<1>2. Texts("print")' = Append(Texts("print"), pat)
  BY <1>1, WritesTexts
<1>3. CASE ~(lr < Len(input))
  <2>1. AllPrinted'
    BY <1>1, <1>2, <1>3, KeptPrint
  <2>2. lr' = Len(input')
    BY <1>1, <1>3, TypesNow
  <2> QED BY <1>1, <1>3, <2>1, <2>2 DEF KeptInv
<1>4. CASE lr < Len(input)
  <2> DEFINE printed == Texts("print")
             Q == Append(printed, pat)
             x == input[lr + 1]
  <2>1. lr >= 1 /\ Joined(Q) = Read(lr)
    BY <1>1 DEF KeptInv, WithPattern
  <2>2. Q \in Seq(AText) /\ Q # <<>> /\ x \in AText
    <3>1. printed \in Seq(AText) /\ pat \in AText /\ x \in AText
      BY <1>4, TextsNow, TypesNow, LineType
    <3> HIDE DEF printed, x
    <3>2. Q \in Seq(AText)
      BY <3>1
    <3>3. Len(Q) = Len(printed) + 1
      BY <3>1
    <3>4. Q # <<>>
      BY <3>1, <3>3
    <3> QED BY <3>1, <3>2, <3>4
  <2> HIDE DEF Q
  <2>3. Joined(Append(Q, x)) = Joined(Q) \o (<<NL>> \o x)
    BY <2>2, JoinedAppend
  <2>4. lr # 0 /\ lr + 1 >= 1
    BY <2>1, TypesNow
  <2>5. Joined(Append(Q, x)) = Read(lr + 1)
    BY <1>4, <2>1, <2>3, <2>4, ReadNext
  <2>6. Texts("print")' = Q /\ pat' = x /\ lr' = lr + 1 /\ pc'.flow = "run"
    BY <1>1, <1>2, <1>4, OnwardFacts DEF Q
  <2>7. WithPattern'
    BY <1>1, <2>4, <2>5, <2>6 DEF WithPattern, Read
  <2> QED BY <2>6, <2>7 DEF KeptInv
<1> QED BY <1>3, <1>4

LEMMA KeptJoinLine ==
    ASSUME SedTypes, KeptInv, ~quiet, Commands \subseteq OnlyAdds, JoinLine
    PROVE  KeptInv'
<1>1. /\ input' = input /\ pc.flow = "run" /\ pc.at \in 1..Len(prog) /\ prog' = prog
      /\ lr < Len(input) => lr' = lr + 1 /\ pat' = pat \o <<NL>> \o input[lr + 1] /\ Onward /\ out' = out
      /\ ~(lr < Len(input)) => lr' = lr /\ pc'.flow = "quitSilent" /\ Writes("print", pat)
  BY JoinLineTypes, SelectedFacts DEF Stays
<1>3. CASE ~(lr < Len(input))
  <2>0. Texts("print")' = Append(Texts("print"), pat)
    BY <1>1, <1>3, WritesTexts
  <2>1. AllPrinted'
    BY <1>1, <1>3, <2>0, KeptPrint
  <2>2. lr' = Len(input')
    BY <1>1, <1>3, TypesNow
  <2> QED BY <1>1, <1>3, <2>1, <2>2 DEF KeptInv
<1>4. CASE lr < Len(input)
  <2> DEFINE printed == Texts("print")
             x == input[lr + 1]
             z == <<NL>> \o x
             y == pat \o <<NL>> \o x
  <2>1. lr >= 1 /\ Joined(Append(printed, pat)) = Read(lr)
    BY <1>1 DEF KeptInv, WithPattern
  <2>2. printed \in Seq(AText) /\ x \in AText /\ pat \in AText
    BY <1>4, TextsNow, TypesNow, LineType
  <2>3. z \in AText /\ y = pat \o z /\ y \in AText
    <3>1. pat \in Seq(Chars) /\ <<NL>> \in Seq(Chars) /\ x \in Seq(Chars)
      BY <2>2, NLType DEF AText
    <3> HIDE DEF x
    <3>2. z \in Seq(Chars) /\ y = pat \o z
      BY <3>1, ConcatProperties, ConcatAssociative
    <3> HIDE DEF z, y
    <3>3. pat \o z \in Seq(Chars)
      BY <3>1, <3>2, ConcatProperties
    <3> QED BY <3>2, <3>3 DEF AText
  <2>4. Read(lr + 1) = Read(lr) \o z
    <3>1. lr # 0
      BY <2>1, TypesNow
    <3>2. Read(lr + 1) = IF lr = 0 THEN x ELSE Read(lr) \o (<<NL>> \o x)
      BY <1>4, ReadNext
    <3> QED BY <3>1, <3>2
  <2> HIDE DEF printed, y, z
  <2>5. Joined(Append(printed, y)) = IF printed = <<>> THEN y ELSE Joined(printed) \o (<<NL>> \o y)
    BY <2>2, <2>3, JoinedAppend
  <2>6. Joined(Append(printed, pat)) = IF printed = <<>> THEN pat ELSE Joined(printed) \o (<<NL>> \o pat)
    BY <2>2, JoinedAppend
  <2>7. Joined(Append(printed, y)) = Joined(Append(printed, pat)) \o z
    <3>1. CASE printed = <<>>
      BY <2>3, <2>5, <2>6, <3>1
    <3>2. CASE printed # <<>>
      <4> DEFINE j == Joined(printed)
      <4>1. j \in Seq(Chars) /\ <<NL>> \in Seq(Chars) /\ pat \in Seq(Chars) /\ z \in Seq(Chars)
        BY <2>2, <2>3, NLType, JoinedType DEF AText
      <4> HIDE DEF j
      <4>2. <<NL>> \o pat \in Seq(Chars)
        BY <4>1, ConcatProperties
      <4>3. (<<NL>> \o pat) \o z = <<NL>> \o (pat \o z)
        BY <4>1, ConcatAssociative
      <4>4. (j \o (<<NL>> \o pat)) \o z = j \o ((<<NL>> \o pat) \o z)
        BY <4>1, <4>2, ConcatAssociative
      <4> QED BY <2>3, <2>5, <2>6, <3>2, <4>3, <4>4 DEF j
    <3> QED BY <3>1, <3>2
  <2>8. Joined(Append(printed, y)) = Read(lr + 1)
    BY <2>1, <2>4, <2>7
  <2>9. Texts("print")' = printed /\ pat' = y /\ lr' = lr + 1 /\ pc'.flow = "run"
    BY <1>1, <1>4, OnwardFacts, TextsStay DEF printed, y
  <2>10. lr + 1 >= 1
    BY TypesNow
  <2>11. WithPattern'
    BY <1>1, <2>8, <2>9, <2>10 DEF WithPattern, Read
  <2> QED BY <2>9, <2>11 DEF KeptInv
<1> QED BY <1>3, <1>4

LEMMA KeptStep ==
    ASSUME SedTypes, KeptInv, [SedNext]_sed
    PROVE  KeptInv'
<1>0. quiet' = quiet /\ Commands' = Commands /\ input' = input
  BY ConstStep
<1> SUFFICES ASSUME ~quiet, Commands \subseteq OnlyAdds PROVE KeptInv'
  BY <1>0 DEF KeptInv
<1>1. CASE BeginCycle BY <1>1, KeptBegin
<1>2. CASE EndOfInput
  <2>1. pc = Line /\ lr = Len(input) /\ lr' = lr /\ out' = out
    BY <1>2 DEF EndOfInput, output
  <2>2. AllPrinted
    BY <2>1 DEF KeptInv, Line
  <2>3. AllPrinted'
    BY <1>0, <2>1, <2>2, TextsStay DEF AllPrinted, Read
  <2> QED BY <1>0, <1>2, <2>1, <2>3, EndOfInputTypes DEF KeptInv
<1>3. CASE EndCycle BY <1>3, KeptEnd
<1>4. CASE EndOfList
  <2>1. StaysAtLine /\ pat' = pat /\ out' = out /\ pc.flow = "run" /\ pc'.flow \in {"run", "normal"}
    BY <1>4, EndOfListTypes DEF KeepsText, KeepsOutput
  <2> QED BY <2>1, KeptSame, TextsStay
<1>5. CASE NotSelected
  <2>1. StaysAtLine /\ pat' = pat /\ out' = out /\ pc.flow = "run"
        /\ pc.at \in 1..Len(prog) /\ Onward /\ prog' = prog
    BY <1>5, NotSelectedTypes DEF KeepsText, KeepsOutput, StaysAtLine, Stays
  <2>2. pc'.flow = "run"
    BY <2>1, OnwardFacts
  <2> QED BY <2>1, <2>2, KeptSame, TextsStay
<1>6. CASE Group
  <2>1. StaysAtLine /\ pat' = pat /\ out' = out /\ pc.flow = "run" /\ pc'.flow = "run"
    BY <1>6, GroupTypes DEF KeepsOutput
  <2> QED BY <2>1, KeptSame, TextsStay
<1>7. CASE Ending
  <2>1. Here.cmd \in Commands /\ Here.cmd \in {"d", "q", "Q", "c"}
    BY <1>7, EndingTypes, SelectedFacts
  <2> QED BY <2>1 DEF OnlyAdds
<1>8. CASE Writing
  <2> DEFINE text == CASE Here.cmd \in {"p", "l"} -> pat [] Here.cmd = "P" -> UpTo(pat) [] OTHER -> Here.text
  <2>1. StaysAtLine /\ pat' = pat /\ prog' = prog /\ pc.flow = "run" /\ pc.at \in 1..Len(prog) /\ Onward
        /\ Here.cmd \in {"p", "P", "i", "=", "l", "r"} /\ Writes(Here.cmd, text)
    BY <1>8, WritingTypes, SelectedFacts DEF KeepsText, StaysAtLine, Stays
  <2> HIDE DEF text
  <2>2. pc'.flow = "run"
    BY <2>1, OnwardFacts
  <2>3. Texts("print")' = Texts("print")
    BY <2>1, WritesTexts
  <2> QED BY <2>1, <2>2, <2>3, KeptSame
<1>9. CASE Queue
  <2>1. StaysAtLine /\ pat' = pat /\ out' = out /\ pc.flow = "run"
        /\ pc.at \in 1..Len(prog) /\ Onward /\ prog' = prog
    BY <1>9, QueueTypes, SelectedFacts DEF KeepsText, StaysAtLine, Stays
  <2>2. pc'.flow = "run"
    BY <2>1, OnwardFacts
  <2> QED BY <2>1, <2>2, KeptSame, TextsStay
<1>10. CASE Spaces
  <2>1. StaysAtLine /\ out' = out /\ pc.flow = "run" /\ (Here.cmd \in {"h", "H"} => pat' = pat)
        /\ pc.at \in 1..Len(prog) /\ Onward /\ prog' = prog /\ Here.cmd \in Commands
        /\ Here.cmd \in {"h", "H", "g", "G", "x", "y", "z"}
    BY <1>10, SpacesTypes, SelectedFacts DEF KeepsOutput, StaysAtLine, Stays
  <2>2. pc'.flow = "run"
    BY <2>1, OnwardFacts
  <2>3. Here.cmd \in {"h", "H"}
    BY <2>1 DEF OnlyAdds
  <2> QED BY <2>1, <2>2, <2>3, KeptSame, TextsStay
<1>11. CASE DeleteFirst
  <2>1. Here.cmd \in Commands /\ Here.cmd \in {"D"}
    BY <1>11, DeleteFirstTypes, SelectedFacts
  <2> QED BY <2>1 DEF OnlyAdds
<1>12. CASE NextLine BY <1>12, KeptNextLine
<1>13. CASE JoinLine BY <1>13, KeptJoinLine
<1>14. CASE Substitute
  <2>1. Here.cmd \in Commands /\ Here.cmd \in {"s"}
    BY <1>14, SubstituteTypes, CommandFacts
  <2> QED BY <2>1 DEF OnlyAdds
<1>15. CASE Branch
  <2>1. StaysAtLine /\ pat' = pat /\ out' = out /\ pc.flow = "run" /\ pc'.flow = "run"
    BY <1>15, BranchTypes, SelectedFacts DEF KeepsText, KeepsOutput
  <2> QED BY <2>1, KeptSame, TextsStay
<1>16. CASE Label
  <2>1. StaysAtLine /\ pat' = pat /\ out' = out /\ pc.flow = "run"
        /\ pc.at \in 1..Len(prog) /\ Onward /\ prog' = prog
    BY <1>16, LabelTypes, SelectedFacts DEF KeepsText, KeepsOutput, StaysAtLine, Stays
  <2>2. pc'.flow = "run"
    BY <2>1, OnwardFacts
  <2> QED BY <2>1, <2>2, KeptSame, TextsStay
<1>17. CASE UNCHANGED sed
  <2>1. lr' = lr /\ pat' = pat /\ out' = out /\ pc' = pc
    BY <1>17, StutterTypes DEF KeepsText, KeepsOutput
  <2> QED BY <1>0, <2>1, TextsStay DEF KeptInv, WithPattern, AllPrinted, Read
<1> QED BY <1>1, <1>2, <1>3, <1>4, <1>5, <1>6, <1>7, <1>8, <1>9, <1>10, <1>11, <1>12, <1>13, <1>14,
           <1>15, <1>16, <1>17 DEF SedNext, Finished

-----------------------------------------------------------------------------
(* AppendsWritten and FinalNewline.                                          *)

\* What a step of the script does to the output.
WritesSome ==
    \/ out' = out /\ lastOut' = lastOut
    \/ \E text \in AText : Writes("p", text) /\ lastOut'.line = lineNum /\ lastOut'.append = FALSE
    \/ \E by \in {"c", "P", "i", "=", "l", "r"} : \E text \in AText :
         Writes(by, text) /\ by \in Commands /\ lastOut' = lastOut
    \/ Writes("print", pat) /\ Commands \intersect {"n", "N"} # {} /\ lastOut' = lastOut
FlowsOn ==
    /\ pc'.flow \in {"run"} \union Flows
    /\ pc'.flow = "quit" => "q" \in Commands
    /\ pc'.flow = "quitSilent" => Commands \intersect {"Q", "N"} # {}
Queues ==
    \/ appendText' = appendText /\ queued' = queued
    \/ "a" \in Commands /\ Len(appendText') = Len(appendText) + 1 /\ queued' = queued + 1
ScriptStep == WritesSome /\ FlowsOn /\ Queues

LEMMA QuietStep ==
    ASSUME KeepsOutput, pc'.flow \in {"run", "normal", "delete"}
    PROVE  ScriptStep
BY DEF KeepsOutput, ScriptStep, WritesSome, FlowsOn, Queues, Flows

LEMMA ScriptSteps ==
    ASSUME SedTypes, SedNext, pc.flow = "run"
    PROVE  ScriptStep
<1>1. CASE BeginCycle \/ EndOfInput \/ Finished
  <2>1. pc \in {Line, Done}
    BY <1>1 DEF BeginCycle, EndOfInput, Finished
  <2> QED BY <2>1 DEF Line, Done
<1>2. CASE EndCycle
  BY <1>2 DEF EndCycle, Flows
<1>3. CASE EndOfList
  BY <1>3, EndOfListTypes, QuietStep
<1>4. CASE NotSelected
  BY <1>4, NotSelectedTypes, OnwardFacts, QuietStep DEF StaysAtLine, Stays
<1>5. CASE Group
  BY <1>5, GroupTypes, QuietStep
<1>6. CASE Spaces
  <2>1. KeepsOutput /\ Onward /\ prog' = prog /\ pc.at \in 1..Len(prog)
    BY <1>6, SpacesTypes, SelectedFacts DEF StaysAtLine, Stays
  <2> QED BY <2>1, OnwardFacts, QuietStep
<1>7. CASE Label
  <2>1. KeepsOutput /\ Onward /\ prog' = prog /\ pc.at \in 1..Len(prog)
    BY <1>7, LabelTypes, SelectedFacts DEF StaysAtLine, Stays
  <2> QED BY <2>1, OnwardFacts, QuietStep
<1>8. CASE Branch
  BY <1>8, BranchTypes, QuietStep
<1>9. CASE DeleteFirst
  BY <1>9, DeleteFirstTypes, QuietStep
<1>10. CASE Ending
  <2>1. /\ appendText' = appendText /\ queued' = queued /\ lastOut' = lastOut
        /\ out' = out \/ (Here.cmd = "c" /\ Writes("c", Here.text))
        /\ pc'.flow = (CASE Here.cmd = "q" -> "quit" [] Here.cmd = "Q" -> "quitSilent"
                         [] OTHER -> "delete")
        /\ Here.cmd \in Commands /\ Here \in ACommand
    BY <1>10, EndingTypes, SelectedFacts
  <2>2. FlowsOn
    BY <2>1 DEF FlowsOn, Flows
  <2>3. Here.text \in AText
    BY <2>1 DEF ACommand
  <2> QED BY <2>1, <2>2, <2>3 DEF ScriptStep, WritesSome, Queues
<1>11. CASE Writing
  <2> DEFINE text == CASE Here.cmd \in {"p", "l"} -> pat [] Here.cmd = "P" -> UpTo(pat) [] OTHER -> Here.text
  <2>1. /\ appendText' = appendText /\ queued' = queued /\ Onward /\ prog' = prog
        /\ pc.at \in 1..Len(prog) /\ Here.cmd \in Commands /\ Here.cmd \in {"p", "P", "i", "=", "l", "r"}
        /\ Writes(Here.cmd, text)
        /\ Here.cmd # "p" => lastOut' = lastOut
        /\ Here.cmd = "p" => lastOut'.line = lineNum /\ lastOut'.append = FALSE
    BY <1>11, WritingTypes, SelectedFacts DEF StaysAtLine, Stays
  <2> HIDE DEF text
  <2>2. FlowsOn
    BY <2>1, OnwardFacts DEF FlowsOn, Flows
  <2>3. text \in AText
    <3>1. [line |-> lineNum, text |-> text, by |-> Here.cmd] \in Written
      BY <2>1 DEF Writes
    <3> QED BY <3>1 DEF Written
  <2>4. WritesSome
    BY <2>1, <2>3 DEF WritesSome
  <2> QED BY <2>1, <2>2, <2>4 DEF ScriptStep, Queues
<1>12. CASE Queue
  <2>1. /\ out' = out /\ lastOut' = lastOut /\ queued' = queued + 1 /\ Onward /\ prog' = prog
        /\ Len(appendText') = Len(appendText) + 1 /\ pc.at \in 1..Len(prog) /\ Here.cmd \in Commands
        /\ Here.cmd \in {"a"}
    BY <1>12, QueueTypes, SelectedFacts DEF StaysAtLine, Stays
  <2>2. FlowsOn
    BY <2>1, OnwardFacts DEF FlowsOn, Flows
  <2> QED BY <2>1, <2>2 DEF ScriptStep, WritesSome, Queues
<1>13. CASE NextLine
  <2>1. /\ appendText' = appendText /\ queued' = queued /\ lastOut' = lastOut
        /\ (quiet /\ out' = out) \/ (~quiet /\ Writes("print", pat))
        /\ lr < Len(input) => Onward
        /\ ~(lr < Len(input)) => pc'.flow = "delete"
        /\ prog' = prog /\ pc.at \in 1..Len(prog) /\ Here.cmd \in Commands /\ Here.cmd \in {"n"}
    BY <1>13, NextLineTypes, SelectedFacts DEF Stays
  <2>2. FlowsOn
    BY <2>1, OnwardFacts DEF FlowsOn, Flows
  <2> QED BY <2>1, <2>2 DEF ScriptStep, WritesSome, Queues
<1>14. CASE JoinLine
  <2>1. /\ appendText' = appendText /\ queued' = queued /\ lastOut' = lastOut
        /\ lr < Len(input) => Onward /\ out' = out
        /\ ~(lr < Len(input)) => /\ pc'.flow = "quitSilent"
                                 /\ (quiet /\ out' = out) \/ (~quiet /\ Writes("print", pat))
        /\ prog' = prog /\ pc.at \in 1..Len(prog) /\ Here.cmd \in Commands /\ Here.cmd \in {"N"}
    BY <1>14, JoinLineTypes, SelectedFacts DEF Stays
  <2>2. FlowsOn
    BY <2>1, OnwardFacts DEF FlowsOn, Flows
  <2> QED BY <2>1, <2>2 DEF ScriptStep, WritesSome, Queues
<1>15. CASE Substitute
  <2>1. /\ appendText' = appendText /\ queued' = queued /\ Onward /\ prog' = prog
        /\ pc.at \in 1..Len(prog)
        /\ \/ out' = out /\ lastOut' = lastOut
           \/ \E text \in AText : Writes("p", text) /\ lastOut'.line = lineNum /\ lastOut'.append = FALSE
    BY <1>15, SubstituteTypes, CommandFacts DEF StaysAtLine, Stays
  <2>2. FlowsOn
    BY <2>1, OnwardFacts DEF FlowsOn, Flows
  <2> QED BY <2>1, <2>2 DEF ScriptStep, WritesSome, Queues
<1> QED BY <1>1, <1>2, <1>3, <1>4, <1>5, <1>6, <1>7, <1>8, <1>9, <1>10, <1>11, <1>12, <1>13, <1>14,
           <1>15 DEF SedNext

\* Who else can take a step.
LEMMA StepKinds ==
    ASSUME SedTypes, [SedNext]_sed
    PROVE  \/ BeginCycle \/ EndOfInput \/ EndCycle \/ UNCHANGED sed
           \/ pc.flow = "run" /\ ScriptStep
<1>1. pc.flow = "run" \/ BeginCycle \/ EndOfInput \/ EndCycle \/ UNCHANGED sed
  BY DEF SedNext, EndOfList, NotSelected, Group, Ending, Writing, Queue, Spaces, DeleteFirst, NextLine,
         JoinLine, Substitute, Branch, Label, Finished, Selected, Cmd
<1> QED BY <1>1, ScriptSteps

LEMMA WritesCount ==
    ASSUME SedTypes, NEW by, NEW text, Writes(by, text), by # "a"
    PROVE  CountOf(out', "a") = CountOf(out, "a")
<1> DEFINE r == [line |-> lineNum, text |-> text, by |-> by]
<1>1. r \in Written /\ out' = Append(out, r) /\ out \in Seq(Written)
  BY TypesNow DEF Writes
<1>2. r.by = by
  OBVIOUS
<1> HIDE DEF r
<1>3. CountOf(Append(out, r), "a") = CountOf(out, "a")
  BY <1>1, <1>2, CountAppend
<1> QED BY <1>1, <1>3

LEMMA AppendStep ==
    ASSUME SedTypes, AppendInv, [SedNext]_sed
    PROVE  AppendInv'
<1>0. Commands' = Commands
  BY ConstStep
<1> SUFFICES ASSUME Commands \intersect {"Q", "N"} = {} PROVE AppendInv'
  BY <1>0 DEF AppendInv
<1>1. /\ CountOf(out, "a") + Len(appendText) = queued /\ pc.flow # "quitSilent"
      /\ (pc.flow \in {"line", "done"} => appendText = <<>>)
  BY DEF AppendInv
<1>2. CountOf(out, "a") \in Nat /\ Len(appendText) \in Nat /\ queued \in Nat /\ out \in Seq(Written)
  <2>1. out \in Seq(Written) /\ PrintText \in Written
    BY CycleEndType, TypesNow
  <2>2. CountOf(out, "a") \in Nat
    BY <2>1, CountAppend
  <2> QED BY <2>1, <2>2, TypesNow
<1>3. CountOf(out, "a")' = CountOf(out', "a")
  BY DEF CountOf
<1>4. CASE BeginCycle
  <2>1. out' = out /\ queued' = queued /\ appendText' = <<>> /\ pc.flow = "line"
    BY <1>4 DEF BeginCycle, output, Line
  <2>2. appendText' = appendText
    BY <1>1, <2>1
  <2> QED BY <1>1, <1>3, <1>4, <2>1, <2>2, BeginTypes DEF AppendInv
<1>5. CASE EndOfInput
  <2>1. out' = out /\ queued' = queued /\ appendText' = appendText /\ pc.flow = "line"
    BY <1>5 DEF EndOfInput, output, Line
  <2> QED BY <1>1, <1>3, <1>5, <2>1, EndOfInputTypes DEF AppendInv
<1>6. CASE EndCycle
  <2> DEFINE o == IF Printed THEN Append(out, PrintText) ELSE out
  <2>1. out' = o \o AppendTexts /\ appendText' = <<>> /\ queued' = queued
        /\ pc'.flow \in {"line", "done"}
    BY <1>6, EndCycleOut, EndCycleTypes
  <2>2. AppendTexts \in Seq(Written) /\ Len(AppendTexts) = Len(appendText)
        /\ (\A k \in 1..Len(AppendTexts) : AppendTexts[k].by = "a") /\ PrintText \in Written
    BY <1>1, CycleEndType DEF CycleAppends
  <2>3. o \in Seq(Written) /\ CountOf(o, "a") = CountOf(out, "a")
    <3>1. PrintText.by # "a"
      BY DEF PrintText
    <3>2. CountOf(Append(out, PrintText), "a") = CountOf(out, "a") /\ Append(out, PrintText) \in Seq(Written)
      BY <1>2, <2>2, <3>1, CountAppend
    <3> QED BY <1>2, <3>2
  <2> HIDE DEF o
  <2>4. CountOf(o \o AppendTexts, "a") = CountOf(o, "a") + Len(AppendTexts)
    BY <2>2, <2>3, CountConcat
  <2>5. CountOf(out', "a") = queued' /\ Len(appendText') = 0
    BY <1>1, <2>1, <2>2, <2>3, <2>4
  <2>6. CountOf(out', "a") + Len(appendText') = queued'
    BY <1>2, <2>1, <2>5
  <2> QED BY <1>3, <2>1, <2>6 DEF AppendInv
<1>7. CASE pc.flow = "run" /\ ScriptStep
  <2>1. CountOf(out', "a") = CountOf(out, "a")
    <3>1. CASE out' = out
      BY <3>1
    <3>2. CASE \E by : \E text : Writes(by, text) /\ by # "a"
      BY <3>2, WritesCount
    <3> QED BY <1>7, <3>1, <3>2 DEF ScriptStep, WritesSome
  <2>2. \/ Len(appendText') = Len(appendText) /\ queued' = queued
        \/ Len(appendText') = Len(appendText) + 1 /\ queued' = queued + 1
    BY <1>7 DEF ScriptStep, Queues
  <2>3. CountOf(out', "a") + Len(appendText') = queued'
    BY <1>1, <1>2, <2>1, <2>2
  <2>4. pc'.flow # "quitSilent" /\ pc'.flow \notin {"line", "done"}
    BY <1>7 DEF ScriptStep, FlowsOn, Flows
  <2> QED BY <1>3, <2>3, <2>4 DEF AppendInv
<1>8. CASE UNCHANGED sed
  <2>1. out' = out /\ queued' = queued /\ appendText' = appendText /\ pc' = pc
    BY <1>8, StutterTypes DEF KeepsOutput
  <2> QED BY <1>1, <1>3, <2>1 DEF AppendInv
<1> QED BY <1>4, <1>5, <1>6, <1>7, <1>8, StepKinds

LEMMA NoAppendsStep ==
    ASSUME SedTypes, NoAppends, [SedNext]_sed
    PROVE  NoAppends'
<1>0. Commands' = Commands
  BY ConstStep
<1> SUFFICES ASSUME "a" \notin Commands PROVE appendText' = <<>>
  BY <1>0 DEF NoAppends
<1>1. appendText = <<>>
  BY DEF NoAppends
<1>2. CASE BeginCycle
  BY <1>2 DEF BeginCycle
<1>3. CASE EndOfInput
  BY <1>1, <1>3 DEF EndOfInput
<1>4. CASE EndCycle
  BY <1>4 DEF EndCycle
<1>5. CASE pc.flow = "run" /\ ScriptStep
  BY <1>1, <1>5 DEF ScriptStep, Queues
<1>6. CASE UNCHANGED sed
  BY <1>1, <1>6 DEF sed
<1> QED BY <1>2, <1>3, <1>4, <1>5, <1>6, StepKinds

\* lastOut after one more text.
LEMMA WritesLast ==
    ASSUME SedTypes, NEW by, NEW text, Writes(by, text)
    PROVE  out' # <<>> /\ out'[Len(out')].by = by /\ out'[Len(out')].line = lineNum
<1> DEFINE r == [line |-> lineNum, text |-> text, by |-> by]
<1>1. r \in Written /\ out' = Append(out, r) /\ out \in Seq(Written)
  BY TypesNow DEF Writes
<1>2. r.by = by /\ r.line = lineNum
  OBVIOUS
<1> HIDE DEF r
<1>3. Append(out, r) # <<>> /\ Append(out, r)[Len(Append(out, r))] = r
  BY <1>1
<1> QED BY <1>1, <1>2, <1>3

LEMMA NewlineStep ==
    ASSUME SedTypes, NewlineInv, [SedNext]_sed
    PROVE  NewlineInv'
<1>0. Commands' = Commands
  BY ConstStep
<1> SUFFICES ASSUME Commands \intersect {"q", "n", "N", "P", "D", "i", "c", "=", "l", "r"} = {}
             PROVE  NewlineInv'
  BY <1>0 DEF NewlineInv
<1>1. /\ pc.flow # "quit" /\ (out = <<>> => ~lastOut.append)
      /\ (out # <<>> => /\ out[Len(out)].by = "a" <=> lastOut.append
                        /\ ~lastOut.append => /\ out[Len(out)].by \in {"print", "p"}
                                              /\ out[Len(out)].line = lastOut.line)
  BY DEF NewlineInv
<1>2. ASSUME out' = out, lastOut'.append = lastOut.append, lastOut.append \/ lastOut'.line = lastOut.line,
             pc'.flow # "quit"
      PROVE  NewlineInv'
  BY <1>1, <1>2 DEF NewlineInv
<1>3. ASSUME out' # <<>>, out'[Len(out')].by = "a", lastOut'.append, pc'.flow # "quit"
      PROVE  NewlineInv'
  BY <1>3 DEF NewlineInv
<1>4. ASSUME out' # <<>>, out'[Len(out')].by \in {"print", "p"}, ~lastOut'.append,
             out'[Len(out')].line = lastOut'.line, pc'.flow # "quit"
      PROVE  NewlineInv'
  BY <1>4 DEF NewlineInv
<1>5. CASE BeginCycle
  <2>1. out' = out /\ lastOut' = lastOut
    BY <1>5 DEF BeginCycle, output
  <2> QED BY <1>2, <1>5, <2>1, BeginTypes
<1>6. CASE EndOfInput
  <2>1. out' = out /\ lastOut' = lastOut
    BY <1>6 DEF EndOfInput, output
  <2> QED BY <1>2, <1>6, <2>1, EndOfInputTypes
<1>7. CASE EndCycle
  <2> DEFINE o == IF Printed THEN Append(out, PrintText) ELSE out
  <2>1. /\ out' = o \o AppendTexts
        /\ lastOut'.line = (IF pc.flow = "normal" /\ (Printed \/ AppendTexts # <<>>)
                            THEN lineNum ELSE lastOut.line)
        /\ lastOut'.append = (AppendTexts # <<>> \/ (lastOut.append /\ ~Printed))
        /\ pc'.flow # "quit"
    BY <1>7, EndCycleOut, EndCycleTypes
  <2>2. AppendTexts \in Seq(Written) /\ (\A k \in 1..Len(AppendTexts) : AppendTexts[k].by = "a")
        /\ PrintText \in Written /\ out \in Seq(Written)
    BY CycleEndType, TypesNow
  <2>3. o \in Seq(Written)
    BY <2>2
  <2>4. CASE AppendTexts # <<>>
    <3> DEFINE t == AppendTexts
               n == Len(o) + Len(t)
    <3> HIDE DEF o, t
    <3>1. Len(o) \in Nat /\ Len(t) \in Nat /\ Len(t) # 0
      BY <2>2, <2>3, <2>4 DEF t
    <3>2. Len(o \o t) = n /\ n \in 1..n /\ ~(n <= Len(o)) /\ n - Len(o) = Len(t) /\ Len(t) \in 1..Len(t)
      BY <2>2, <2>3, <3>1, ConcatProperties DEF t
    <3>3. (o \o t)[n] = IF n <= Len(o) THEN o[n] ELSE t[n - Len(o)]
      BY <2>2, <2>3, <3>2, ConcatProperties DEF t
    <3> HIDE DEF n
    <3>4. (o \o t)[n] = t[Len(t)] /\ t[Len(t)].by = "a"
      BY <2>2, <3>2, <3>3 DEF t
    <3>5. out' = o \o t /\ out' # <<>> /\ out'[Len(out')].by = "a"
      <4>1. out' = o \o t
        BY <2>1 DEF t
      <4>2. Len(out') # 0 /\ out'[Len(out')].by = "a"
        BY <3>1, <3>2, <3>4, <4>1
      <4> QED BY <4>1, <4>2
    <3> QED BY <1>3, <2>1, <2>4, <3>5
  <2>5. CASE AppendTexts = <<>>
    <3>1. out' = o
      BY <2>1, <2>3, <2>5, ConcatEmptySeq
    <3>2. CASE Printed
      <4>1. pc.flow = "normal"
        BY <1>1, <3>2 DEF Printed
      <4>2. out' = Append(out, PrintText)
        BY <3>1, <3>2
      <4>3. Append(out, PrintText) # <<>> /\ Append(out, PrintText)[Len(Append(out, PrintText))] = PrintText
        BY <2>2
      <4>4. out' # <<>> /\ out'[Len(out')].by = "print" /\ out'[Len(out')].line = lineNum
        BY <4>2, <4>3 DEF PrintText
      <4>5. lastOut'.line = lineNum /\ ~lastOut'.append
        BY <2>1, <2>5, <3>2, <4>1
      <4> QED BY <1>4, <2>1, <4>4, <4>5
    <3>3. CASE ~Printed
      <4>1. out' = out
        BY <3>1, <3>3
      <4>2. lastOut'.line = lastOut.line /\ lastOut'.append = lastOut.append
        <5>1. lastOut.append \in BOOLEAN
          BY TypesNow
        <5> QED BY <2>1, <2>5, <3>3, <5>1
      <4> QED BY <1>2, <2>1, <4>1, <4>2
    <3> QED BY <3>2, <3>3
  <2> QED BY <2>4, <2>5
<1>8. CASE pc.flow = "run" /\ ScriptStep
  <2>1. pc'.flow # "quit"
    BY <1>8 DEF ScriptStep, FlowsOn
  <2>2. CASE out' = out /\ lastOut' = lastOut
    BY <1>2, <2>1, <2>2
  <2>3. CASE \E text \in AText : Writes("p", text) /\ lastOut'.line = lineNum /\ lastOut'.append = FALSE
    BY <1>4, <2>1, <2>3, WritesLast
  <2> QED BY <1>8, <2>2, <2>3 DEF ScriptStep, WritesSome
<1>9. CASE UNCHANGED sed
  <2>1. out' = out /\ lastOut' = lastOut /\ pc' = pc
    BY <1>9, StutterTypes DEF KeepsOutput
  <2> QED BY <1>1, <1>2, <2>1
<1> QED BY <1>5, <1>6, <1>7, <1>8, <1>9, StepKinds

-----------------------------------------------------------------------------
(* RangesEnd.                                                                *)

OneByOne == Commands \intersect {"n", "N"} = {}

LEMMA RangeNow ==
    ASSUME SedTypes, RangeInv, OneByOne
    PROVE  /\ cycles.last = lineNum /\ cycles.prev = (IF lineNum = 0 THEN 0 ELSE lineNum - 1)
           /\ lineNum \in Nat /\ DOMAIN prog = 1..Len(prog)
           /\ \A p \in picked : /\ p \in [cmd : 1..Len(prog), line : Nat, takes : BOOLEAN]
                                /\ p.cmd \in 1..Len(prog) /\ p.line \in Nat /\ p.line <= lineNum
                                /\ p.takes \in BOOLEAN
                                /\ NumberedRange(prog[p.cmd]) /\ PickedRight(p, picked)
           /\ \A i \in 1..Len(prog) : NumberedRange(prog[i]) => RangeOk(i, rangeActive, lineNum, picked)
           /\ BehindInv
<1>1. lineNum \in Nat /\ DOMAIN prog = 1..Len(prog)
  BY TypesNow, ProgFacts
<1>2. /\ cycles = [last |-> lineNum, prev |-> IF lineNum = 0 THEN 0 ELSE lineNum - 1]
      /\ picked \subseteq Picked
      /\ \A p \in picked : NumberedRange(prog[p.cmd]) /\ PickedRight(p, picked)
      /\ \A i \in 1..Len(prog) : NumberedRange(prog[i]) => RangeOk(i, rangeActive, lineNum, picked)
      /\ BehindInv
  BY <1>1 DEF RangeInv, OneByOne
<1>3. cycles.last = lineNum /\ cycles.prev = (IF lineNum = 0 THEN 0 ELSE lineNum - 1)
  BY <1>2
<1>4. ASSUME NEW p \in picked
      PROVE  /\ p \in [cmd : 1..Len(prog), line : Nat, takes : BOOLEAN]
             /\ p.cmd \in 1..Len(prog) /\ p.line \in Nat /\ p.line <= lineNum
             /\ p.takes \in BOOLEAN
  <2>1. p \in [cmd : 1..Len(prog), line : 0..lineNum, takes : BOOLEAN]
    BY <1>1, <1>2 DEF Picked
  <2>2. \A k \in 0..lineNum : k \in Nat /\ k <= lineNum
    BY <1>1
  <2> QED BY <2>1, <2>2
<1> QED BY <1>1, <1>2, <1>3, <1>4

LEMMA RangeNumbers ==
    ASSUME SedTypes, NEW i \in 1..Len(prog), NumberedRange(prog[i])
    PROVE  /\ prog[i].a1.n \in Nat /\ prog[i].a2.n \in Nat /\ LastOf(i) \in Nat
           /\ prog[i].a1.n > 0 /\ prog[i].a2.n > 0
           /\ prog[i].a1.n <= LastOf(i) /\ prog[i].a2.n <= LastOf(i)
           /\ \A k \in Nat : k >= prog[i].a1.n /\ k >= prog[i].a2.n => k >= LastOf(i)
           /\ prog[i].a1.kind = "line" /\ prog[i].a2.kind = "line" /\ IsRange(prog[i])
           /\ prog[i].neg \in BOOLEAN
<1>1. prog[i] \in ACommand
  BY ProgFacts
<1>2. prog[i].a1 \in AnAddress /\ prog[i].a2 \in AnAddress /\ prog[i].neg \in BOOLEAN
  BY <1>1 DEF ACommand
<1>3. prog[i].a1.n \in Nat /\ prog[i].a2.n \in Nat
  BY <1>2 DEF AnAddress
<1> QED BY <1>2, <1>3 DEF LastOf, NumberedRange, IsRange

LEMMA SelectionOfRange ==
    ASSUME SedTypes, cycles.prev = (IF lineNum = 0 THEN 0 ELSE lineNum - 1),
           NEW i \in 1..Len(prog), NumberedRange(prog[i])
    PROVE  /\ Selection(i).takes \in BOOLEAN /\ Selection(i).active \in BOOLEAN
           /\ Selection(i).takes <=> i \in rangeActive \/ lineNum = prog[i].a1.n
           /\ Selection(i).active =>
                IF i \in rangeActive THEN lineNum < prog[i].a2.n ELSE lineNum = prog[i].a1.n
           /\ i \in rangeActive /\ lineNum < prog[i].a2.n => Selection(i).active
<1> DEFINE c == prog[i]
           l == c.in
           begins == AddrMatch(c.a1, l) \/ Skipped(c.a1)
           short  == \/ c.a2.kind = "plus" /\ c.a2.n = 0
                     \/ c.a2.kind \in {"line", "step"} /\ c.a2.n \in 1..lineNum
<1>1. /\ c.a1.kind = "line" /\ c.a2.kind = "line" /\ IsRange(c)
      /\ c.a1.n \in Nat /\ c.a2.n \in Nat /\ c.a2.n > 0 /\ c.neg \in BOOLEAN /\ lineNum \in Nat
  BY RangeNumbers, TypesNow
<1>2. AddrMatch(c.a1, l) <=> lineNum = c.a1.n
  BY <1>1 DEF AddrMatch, AddrHolds
<1>3. ~Skipped(c.a1)
  BY <1>1 DEF Skipped
<1>4. begins <=> lineNum = c.a1.n
  BY <1>2, <1>3
<1>5. EndMatch(i, l) <=> lineNum >= c.a2.n
  BY <1>1 DEF EndMatch
<1> HIDE DEF begins, short
<1>6. CASE i \notin rangeActive
  <2>1. Selection(i) = [takes |-> begins, active |-> begins /\ (c.neg \/ ~short),
                        start |-> IF begins THEN lineNum ELSE rangeStart[i]]
    BY <1>1, <1>6 DEF Selection, begins, short
  <2>2. Selection(i).takes = begins /\ Selection(i).active = (begins /\ (c.neg \/ ~short))
    BY <2>1
  <2>3. begins \in BOOLEAN
    BY DEF begins
  <2> QED BY <1>4, <1>6, <2>2, <2>3
<1>7. CASE i \in rangeActive
  <2>1. Selection(i) = [takes |-> TRUE, active |-> ~EndMatch(i, l), start |-> rangeStart[i]]
    BY <1>1, <1>7 DEF Selection
  <2>2. Selection(i).takes = TRUE /\ Selection(i).active = ~EndMatch(i, l)
    BY <2>1
  <2>3. EndMatch(i, l) \in BOOLEAN
    BY <1>1 DEF EndMatch
  <2>4. Selection(i).active <=> lineNum < c.a2.n
    <3>1. ~EndMatch(i, l) <=> lineNum < c.a2.n
      BY <1>1, <1>5
    <3> QED BY <2>2, <3>1
  <2> QED BY <1>7, <2>2, <2>3, <2>4
<1> QED BY <1>6, <1>7

LEMMA TriedFacts ==
    ASSUME NEW i, Tried(i), NumberedRange(prog[i])
    PROVE  \/ /\ ~\E p \in picked : p.cmd = i /\ p.line = lineNum
              /\ picked' = picked \union {[cmd |-> i, line |-> lineNum, takes |-> Selection(i).takes]}
           \/ /\ \E p \in picked : p.cmd = i /\ p.line = lineNum
              /\ picked' = picked
BY DEF Tried

\* What is now known of the range that is tried.
LEMMA TriedRange ==
    ASSUME SedTypes, RangeInv, OneByOne, NEW i \in 1..Len(prog), pc.flow = "run", pc.at = i,
           Tried(i), NumberedRange(prog[i]), NEW active, i \in active <=> Selection(i).active
    PROVE  /\ RangeOk(i, active, lineNum, picked')
           /\ \A p \in picked' \ picked : /\ p.cmd = i /\ p.line = lineNum /\ p.takes \in BOOLEAN
                                          /\ PickedRight(p, picked')
<1> DEFINE A == prog[i].a1.n
           B == prog[i].a2.n
           L == LastOf(i)
           r == [cmd |-> i, line |-> lineNum, takes |-> Selection(i).takes]
           First == ~\E p \in picked : p.cmd = i /\ p.line = lineNum
<1>1. /\ A \in Nat /\ B \in Nat /\ L \in Nat /\ A <= L /\ B <= L /\ lineNum \in Nat
      /\ (lineNum >= A /\ lineNum >= B => lineNum >= L)
  BY RangeNumbers, TypesNow
<1>2. /\ Selection(i).takes \in BOOLEAN /\ Selection(i).active \in BOOLEAN
      /\ Selection(i).takes <=> i \in rangeActive \/ lineNum = A
      /\ Selection(i).active => IF i \in rangeActive THEN lineNum < B ELSE lineNum = A
      /\ i \in rangeActive /\ lineNum < B => Selection(i).active
  BY SelectionOfRange, RangeNow
<1>3. RangeOk(i, rangeActive, lineNum, picked) /\ \A q \in picked : q.line \in Nat /\ q.line <= lineNum
  BY RangeNow
<1>4. /\ i \in rangeActive => lineNum >= A
      /\ lineNum >= A => i \in rangeActive \/ Ended(i, picked)
      /\ ~GoesBack => ~(i \in rangeActive /\ Ended(i, picked))
  BY <1>3 DEF RangeOk
<1>5. r.cmd = i /\ r.line = lineNum /\ r.takes = Selection(i).takes
  OBVIOUS
<1>6. (First /\ picked' = picked \union {r}) \/ (~First /\ picked' = picked)
  BY TriedFacts
<1>7. Ended(i, picked') <=> Ended(i, picked) \/ lineNum >= L
  <2> HIDE DEF r
  <2>1. CASE First /\ picked' = picked \union {r}
    BY <1>5, <2>1 DEF Ended
  <2>2. CASE ~First /\ picked' = picked
    <3>1. lineNum >= L => Ended(i, picked)
      BY <2>2 DEF Ended
    <3> QED BY <2>2, <3>1
  <2> QED BY <1>6, <2>1, <2>2
<1>8. ~GoesBack => \A q \in picked : ~(q.cmd = i /\ q.line = lineNum)
  <2>1. ASSUME ~GoesBack, NEW q \in picked, q.cmd = i, q.line = lineNum PROVE FALSE
    <3>1. Behind(i) /\ i # 0 /\ i \in Nat
      BY <2>1, RangeNow, ProgFacts DEF BehindInv
    <3>2. i < i
      BY <2>1, <3>1 DEF Behind
    <3> QED BY <3>1, <3>2
  <2> QED BY <2>1
<1> HIDE DEF A, B, L, r, First
<1>10. RangeOk(i, active, lineNum, picked')
  <2>1. i \in active => lineNum >= A
    BY <1>1, <1>2, <1>4
  <2>2. lineNum >= A => i \in active \/ Ended(i, picked')
    BY <1>1, <1>2, <1>4, <1>7
  <2>3. ASSUME ~GoesBack, i \in active, Ended(i, picked') PROVE FALSE
    <3>1. CASE i \in rangeActive
      BY <1>1, <1>2, <1>4, <1>7, <2>3, <3>1
    <3>2. CASE i \notin rangeActive
      <4>1. lineNum = A /\ Ended(i, picked)
        BY <1>1, <1>2, <1>4, <2>3, <3>2
      <4>2. PICK q \in picked : q.cmd = i /\ q.line >= L
        BY <4>1 DEF Ended, L
      <4>3. q.line = lineNum
        BY <1>1, <1>3, <4>1, <4>2
      <4> QED BY <1>8, <2>3, <4>2, <4>3
    <3> QED BY <3>1, <3>2
  <2> QED BY <2>1, <2>2, <2>3 DEF RangeOk, A
<1>12. ASSUME NEW p \in picked' \ picked
       PROVE  p = r /\ First /\ picked' = picked \union {r}
  BY <1>6
<1>13. ASSUME First, picked' = picked \union {r}
       PROVE  /\ lineNum \in A..L => r.takes
              /\ lineNum < A => ~r.takes
              /\ lineNum > L /\ r.takes /\ ~GoesBack =>
                   ~\E q \in picked' : q.cmd = i /\ q.line \in L..(lineNum - 1)
  <2>1. ASSUME lineNum \in A..L, ~r.takes PROVE FALSE
    <3>1. Ended(i, picked) /\ lineNum <= L
      BY <1>1, <1>2, <1>4, <1>5, <2>1
    <3>2. PICK q \in picked : q.cmd = i /\ q.line >= L
      BY <3>1 DEF Ended, L
    <3>3. q.line = lineNum
      BY <1>1, <1>3, <3>1, <3>2
    <3> QED BY <1>13, <3>2, <3>3 DEF First
  <2>2. lineNum < A => ~r.takes
    BY <1>1, <1>2, <1>4, <1>5
  <2>3. ASSUME lineNum > L, r.takes, ~GoesBack, NEW q \in picked', q.cmd = i, q.line \in L..(lineNum - 1)
        PROVE  FALSE
    <3>1. lineNum # A
      BY <1>1, <2>3
    <3>2. i \in rangeActive
      BY <1>2, <1>5, <2>3, <3>1
    <3>3. q # r
      BY <1>1, <1>5, <2>3
    <3>4. q \in picked /\ q.line >= L
      BY <1>1, <1>13, <2>3, <3>3
    <3> QED BY <1>4, <2>3, <3>2, <3>4 DEF Ended, L
  <2> QED BY <2>1, <2>2, <2>3
<1>14. ASSUME NEW p \in picked' \ picked
       PROVE  /\ p.cmd = i /\ p.line = lineNum /\ p.takes \in BOOLEAN
              /\ PickedRight(p, picked')
  <2>1. p = r /\ First /\ picked' = picked \union {r}
    BY <1>12
  <2>2. p.cmd = i /\ p.line = lineNum /\ p.takes = Selection(i).takes
    BY <1>5, <2>1
  <2>3. /\ lineNum \in A..L => p.takes
        /\ lineNum < A => ~p.takes
        /\ lineNum > L /\ p.takes /\ ~GoesBack =>
             ~\E q \in picked' : q.cmd = i /\ q.line \in L..(lineNum - 1)
    BY <1>13, <2>1
  <2> QED BY <1>2, <2>2, <2>3 DEF PickedRight, A, L
<1> QED BY <1>10, <1>14

\* What a command that is tried does to all the ranges.
LEMMA TryRanges ==
    ASSUME SedTypes, RangeInv, OneByOne, NEW i \in 1..Len(prog), pc.flow = "run", pc.at = i,
           Tried(i), NEW fresh \in SUBSET Within(i), NEW active, active = ActiveAfter(i) \union fresh,
           \A j \in fresh : NumberedRange(prog[j]) => lineNum = prog[j].a1.n
    PROVE  /\ picked' \subseteq Picked
           /\ \A p \in picked' : /\ NumberedRange(prog[p.cmd]) /\ PickedRight(p, picked')
                                 /\ p \notin picked => p.cmd = i /\ p.line = lineNum
           /\ \A j \in 1..Len(prog) : NumberedRange(prog[j]) => RangeOk(j, active, lineNum, picked')
<1>1. /\ lineNum \in Nat /\ DOMAIN prog = 1..Len(prog) /\ Len(prog) \in Nat
      /\ \A p \in picked : /\ p.cmd \in 1..Len(prog) /\ p.line \in Nat /\ p.line <= lineNum
                           /\ NumberedRange(prog[p.cmd]) /\ PickedRight(p, picked)
  BY RangeNow, ProgFacts
<1>2. \A j \in fresh : j \in 1..Len(prog) /\ i < j
  <2>1. prog \in SedScripts /\ i \in 0..Len(prog)
    BY <1>1 DEF SedTypes
  <2>2. ASSUME NEW j \in fresh PROVE j \in In(prog, i)
    BY <1>1 DEF Within, In
  <2>3. ASSUME NEW j \in fresh PROVE j \in 1..Len(prog) /\ i < j
    <3>1. j \in In(prog, i)
      BY <2>2
    <3>2. i < j
      BY <2>1, <3>1, InGroup
    <3> QED BY <3>1, <3>2 DEF In
  <2> QED BY <2>3
<1>3. i \notin fresh
  BY <1>1, <1>2
<1>4. i \in active <=> Selection(i).active
  BY <1>3 DEF ActiveAfter
<1>5. \A j \in 1..Len(prog) : j # i => (j \in active <=> j \in rangeActive \/ j \in fresh)
  BY DEF ActiveAfter
<1>6. picked \subseteq picked' /\ \A p \in picked' \ picked :
         p.cmd = i /\ p.line = lineNum /\ NumberedRange(prog[i])
  BY DEF Tried
<1>7. \A p \in picked' \ picked : p.takes \in BOOLEAN /\ PickedRight(p, picked')
  BY <1>4, <1>6, TriedRange
<1>8. ASSUME NEW p \in picked PROVE PickedRight(p, picked')
  <2>1. \A q \in picked' : q.line \in LastOf(p.cmd)..(p.line - 1) => q \in picked
    <3> SUFFICES ASSUME NEW q \in picked', q.line \in LastOf(p.cmd)..(p.line - 1), q \notin picked
                 PROVE  FALSE
      OBVIOUS
    <3>1. q.line = lineNum /\ p.line <= lineNum /\ p.line \in Nat
      BY <1>1, <1>6
    <3>2. LastOf(p.cmd) \in Nat
      BY <1>1, RangeNumbers
    <3> QED BY <1>1, <3>1, <3>2
  <2> QED BY <1>1, <2>1 DEF PickedRight
<1>9. picked' \subseteq Picked
  <2> SUFFICES ASSUME NEW p \in picked' PROVE p \in Picked
    OBVIOUS
  <2>1. CASE p \in picked
    BY <2>1 DEF RangeInv, OneByOne
  <2>2. CASE p \notin picked
    <3>1. NumberedRange(prog[i])
      BY <1>6, <2>2
    <3>2. p = [cmd |-> i, line |-> lineNum, takes |-> Selection(i).takes]
      BY <2>2, <3>1, TriedFacts
    <3>3. Selection(i).takes \in BOOLEAN
      BY <3>1, SelectionOfRange, RangeNow
    <3> QED BY <1>1, <3>2, <3>3 DEF Picked
  <2> QED BY <2>1, <2>2
<1>10. ASSUME NEW j \in 1..Len(prog), NumberedRange(prog[j])
       PROVE  RangeOk(j, active, lineNum, picked')
  <2>1. CASE j = i
    BY <1>4, <1>10, <2>1, TriedRange
  <2>2. CASE j # i
    <3>1. Ended(j, picked') <=> Ended(j, picked)
      BY <1>6, <2>2 DEF Ended
    <3>2. RangeOk(j, rangeActive, lineNum, picked)
      BY <1>10, RangeNow
    <3>3. CASE j \notin fresh
      <4>1. j \in active <=> j \in rangeActive
        BY <1>5, <2>2, <3>3
      <4> QED BY <3>1, <3>2, <4>1 DEF RangeOk
    <3>4. CASE j \in fresh
      <4>1. lineNum = prog[j].a1.n /\ j \in active /\ i < j
        BY <1>2, <1>5, <1>10, <2>2, <3>4
      <4>2. ASSUME ~GoesBack, Ended(j, picked) PROVE FALSE
        <5>1. PICK q \in picked : q.cmd = j /\ q.line >= LastOf(j)
          BY <4>2 DEF Ended
        <5>2. LastOf(j) \in Nat /\ prog[j].a1.n <= LastOf(j)
          BY <1>10, RangeNumbers
        <5>3. q.line = lineNum
          BY <1>1, <4>1, <5>1, <5>2
        <5>4. Behind(j) /\ i # 0
          BY <1>1, <4>2, <5>1, <5>3, RangeNow DEF BehindInv
        <5>5. j < i
          BY <5>4 DEF Behind
        <5> QED BY <1>1, <4>1, <5>5
      <4>3. lineNum >= prog[j].a1.n
        BY <1>1, <4>1
      <4> QED BY <3>1, <4>1, <4>2, <4>3 DEF RangeOk
    <3> QED BY <3>3, <3>4
  <2> QED BY <2>1, <2>2
<1> QED BY <1>1, <1>6, <1>7, <1>8, <1>9, <1>10

\* What does not change with the script.
LEMMA SameScript ==
    ASSUME prog' = prog
    PROVE  /\ Commands' = Commands /\ (GoesBack <=> GoesBack')
           /\ \A i : /\ LastOf(i)' = LastOf(i) /\ (NumberedRange(prog[i])' <=> NumberedRange(prog[i]))
                     /\ Within(i)' = Within(i)
           /\ \A p, tries : PickedRight(p, tries)' <=> PickedRight(p, tries)
<1>1. Commands' = Commands
  BY DEF Commands
<1>2. GoesBack <=> GoesBack'
  BY <1>1 DEF GoesBack
<1>3. ASSUME NEW i PROVE LastOf(i)' = LastOf(i) /\ Within(i)' = Within(i)
  BY DEF LastOf, Within, Around
<1>4. ASSUME NEW p, NEW tries PROVE PickedRight(p, tries)' <=> PickedRight(p, tries)
  BY <1>2, <1>3 DEF PickedRight
<1> QED BY <1>1, <1>2, <1>3, <1>4 DEF NumberedRange

\* The invariant from its parts, in a step that does not read.
LEMMA RangeParts ==
    ASSUME SedTypes, RangeInv, OneByOne, prog' = prog, cycles' = cycles, lineNum' = lineNum,
           picked' \subseteq Picked,
           \A p \in picked' : NumberedRange(prog[p.cmd]) /\ PickedRight(p, picked'),
           \A j \in 1..Len(prog) : NumberedRange(prog[j]) => RangeOk(j, rangeActive', lineNum, picked'),
           BehindInv'
    PROVE  RangeInv'
<1>1. DOMAIN prog = 1..Len(prog)
  BY ProgFacts
<1>2. cycles = [last |-> lineNum, prev |-> IF lineNum = 0 THEN 0 ELSE lineNum - 1]
  BY DEF RangeInv, OneByOne
<1>3. Picked' = Picked
  BY DEF Picked
<1>4. \A p \in picked' : NumberedRange(prog'[p.cmd]) /\ PickedRight(p, picked)'
  BY SameScript DEF PickedRight
<1>5. \A i \in DOMAIN prog' : NumberedRange(prog'[i]) => RangeOk(i, rangeActive, lineNum, picked)'
  BY <1>1, SameScript DEF RangeOk, Ended
<1>6. NumberedRange(prog)' <=> NumberedRange(prog')
  OBVIOUS
<1> QED BY <1>2, <1>3, <1>4, <1>5 DEF RangeInv

LEMMA RangeTried ==
    ASSUME SedTypes, RangeInv, OneByOne, StaysAtLine, NEW i \in 1..Len(prog), pc.flow = "run", pc.at = i,
           Tried(i), NEW fresh \in SUBSET Within(i), rangeActive' = ActiveAfter(i) \union fresh,
           \A j \in fresh : NumberedRange(prog[j]) => lineNum = prog[j].a1.n,
           ~GoesBack => \A k \in 1..i : Behind(k)'
    PROVE  RangeInv'
<1>1. prog' = prog /\ cycles' = cycles /\ lineNum' = lineNum
  BY DEF StaysAtLine, Stays
<1>2. /\ picked' \subseteq Picked
      /\ \A p \in picked' : /\ NumberedRange(prog[p.cmd]) /\ PickedRight(p, picked')
                            /\ p \notin picked => p.cmd = i /\ p.line = lineNum
      /\ \A j \in 1..Len(prog) : NumberedRange(prog[j]) => RangeOk(j, rangeActive', lineNum, picked')
  BY TryRanges
<1>3. BehindInv'
  <2> SUFFICES ASSUME ~GoesBack, NEW p \in picked', p.line = lineNum PROVE Behind(p.cmd)'
    BY <1>1, SameScript DEF BehindInv
  <2>1. i \in Nat /\ i # 0
    BY ProgFacts
  <2>2. CASE p \in picked
    <3>1. p.cmd \in 1..Len(prog) /\ Behind(p.cmd)
      BY <2>2, RangeNow DEF BehindInv
    <3>2. p.cmd < i
      BY <2>1, <3>1 DEF Behind
    <3>3. p.cmd \in 1..i
      BY <2>1, <3>1, <3>2
    <3> QED BY <3>3
  <2>3. CASE p \notin picked
    <3>1. p.cmd = i /\ i \in 1..i
      BY <1>2, <2>1, <2>3
    <3> QED BY <3>1
  <2> QED BY <2>2, <2>3
<1> QED BY <1>1, <1>2, <1>3, RangeParts

\* A list that is left is a group whose commands are all behind.
LEMMA BehindNext ==
    ASSUME SedTypes, prog' = prog, NEW i \in 1..Len(prog), pc' = Next1(i), NEW k \in 1..i
    PROVE  Behind(k)'
<1>1. prog \in SedScripts /\ Len(prog) \in Nat /\ DOMAIN prog = 1..Len(prog)
      /\ \A j \in 1..Len(prog) : prog[j].in \in 0..Len(prog)
  BY ProgFacts DEF SedTypes
<1>2. pc'.in = prog[i].in /\ (pc'.at # 0 => i < pc'.at) /\ pc'.at \in Members(prog[i].in) \union {0}
  BY NextType DEF PlaceIn, AtCmd
<1>3. CASE pc'.at # 0
  <2>1. pc'.at \in 1..Len(prog)
    BY <1>1, <1>2, <1>3 DEF Members
  <2>2. k < pc'.at
    BY <1>1, <1>2, <1>3, <2>1
  <2> QED BY <1>3, <2>2 DEF Behind
<1>4. CASE pc'.at = 0
  <2> DEFINE l == prog[i].in
  <2>1. l \in 0..Len(prog)
    BY <1>1
  <2>2. ASSUME l # 0, l < k PROVE k \in Within(l)
    <3>1. l \in 1..Len(prog) /\ k \in 1..Len(prog) /\ k <= i
      BY <1>1, <2>1, <2>2
    <3>2. i \in In(prog, l)
      BY <1>1, <2>1, AroundFacts DEF In
    <3> HIDE DEF l
    <3>3. k \in In(prog, l)
      BY <1>1, <2>2, <3>1, <3>2, BehindGroup
    <3> QED BY <1>1, <3>3 DEF In, Within
  <2>3. l = 0 \/ k <= l \/ k \in Within(l)
    BY <1>1, <2>1, <2>2
  <2>4. Within(l)' = Within(l) /\ pc'.in = l
    BY <1>2, SameScript
  <2>5. l = l'
    BY SameScript
  <2> HIDE DEF l
  <2> QED BY <1>4, <2>3, <2>4, <2>5 DEF Behind
<1> QED BY <1>3, <1>4

LEMMA BehindList ==
    ASSUME SedTypes, EndOfList, BehindInv, prog' = prog, lineNum' = lineNum, picked' = picked,
           \A p \in picked : p.cmd \in 1..Len(prog)
    PROVE  BehindInv'
<1>1. prog \in SedScripts /\ Len(prog) \in Nat /\ DOMAIN prog = 1..Len(prog)
      /\ \A j \in 1..Len(prog) : prog[j].in \in 0..Len(prog)
  BY ProgFacts DEF SedTypes
<1> SUFFICES ASSUME ~GoesBack, NEW p \in picked, p.line = lineNum PROVE Behind(p.cmd)'
  BY SameScript DEF BehindInv
<1> DEFINE l == pc.in
           k == p.cmd
<1>2. pc.flow = "run" /\ pc.at = 0 /\ (l = 0 => pc'.flow = "normal")
      /\ (l # 0 => pc'.flow = "run" /\ l \in 1..Len(prog) /\ pc' = Next1(l))
  BY EndOfListTypes
<1>3. k \in 1..Len(prog) /\ (l = 0 \/ k <= l \/ k \in Within(l))
  BY <1>2 DEF BehindInv, Behind
<1> HIDE DEF l, k
<1>4. CASE l = 0
  BY <1>2, <1>4 DEF Behind, k
<1>5. CASE l # 0 /\ k <= l
  <2>1. l \in 1..Len(prog) /\ pc' = Next1(l) /\ k \in 1..l
    BY <1>1, <1>2, <1>3, <1>5
  <2>2. Behind(k)'
    BY <2>1, BehindNext
  <2> QED BY <2>2 DEF k
<1>6. CASE l # 0 /\ ~(k <= l)
  <2> DEFINE g == prog[l].in
  <2>1. l \in 1..Len(prog) /\ pc' = Next1(l) /\ l < k /\ k \in Within(l) /\ l \in 0..Len(prog)
    BY <1>1, <1>2, <1>3, <1>6
  <2>2. g \in 0..Len(prog) /\ g < l
    BY <1>1, <2>1, ScriptFacts
  <2>3. k \in In(prog, l)
    BY <1>1, <2>1 DEF In, Within
  <2>4. pc'.in = g /\ (pc'.at # 0 => l < pc'.at) /\ pc'.at \in Members(g) \union {0}
    BY <2>1, NextType DEF PlaceIn, AtCmd
  <2>5. CASE pc'.at # 0
    <3> DEFINE m == pc'.at
    <3>1. m \in 1..Len(prog) /\ l < m /\ prog[m].in = g
      BY <1>1, <2>4, <2>5 DEF Members
    <3>2. m \notin In(prog, l)
      <4>1. l \notin 0..g
        BY <1>1, <2>1, <2>2
      <4>2. Around(prog, g) \subseteq 0..g
        BY <1>1, <2>2, AroundFacts
      <4> QED BY <3>1, <4>1, <4>2 DEF In
    <3> HIDE DEF m, g
    <3>3. ~(m <= k)
      BY <1>1, <1>3, <2>1, <2>3, <3>1, <3>2, BehindGroup
    <3>4. k < m
      BY <1>1, <1>3, <3>1, <3>3
    <3> QED BY <2>5, <3>4 DEF Behind, k, m
  <2>6. CASE pc'.at = 0
    <3>1. l \in Around(prog, prog[k].in) /\ prog[k].in \in 0..Len(prog)
      BY <1>1, <1>3, <2>3 DEF In
    <3>2. g \in Around(prog, prog[k].in)
      <4>1. ClosedIn(prog, Around(prog, prog[k].in))
        BY <1>1, <3>1, AroundFacts
      <4> QED BY <1>6, <3>1, <4>1 DEF ClosedIn
    <3>3. k \in Within(g)
      BY <1>1, <1>3, <3>2 DEF Within
    <3> HIDE DEF g
    <3>5. k \in Within(pc'.in)
      BY <2>4, <3>3
    <3>6. p.cmd \in Within(pc.in)'
      BY <3>5 DEF k, Within, Around
    <3> QED BY <2>6, <3>6 DEF Behind
  <2> QED BY <2>5, <2>6
<1> QED BY <1>4, <1>5, <1>6

\* The next line.
LEMMA RangeBegin ==
    ASSUME SedTypes, RangeInv, OneByOne, BeginCycle
    PROVE  RangeInv'
<1> DEFINE num == lineNum + 1
           last == lr + 1 = Len(input)
           fresh == {i \in Within(0) : /\ IsRange(prog[i]) /\ i \notin rangeActive
                                       /\ AddrHolds(prog[i].a1, input[lr + 1], num, last)}
<1>1. /\ prog' = prog /\ lineNum' = num /\ picked' = picked
      /\ cycles' = [last |-> num, prev |-> cycles.last]
      /\ rangeActive' = rangeActive \union fresh
  BY DEF BeginCycle, source, BeginLists
<1>2. /\ cycles.last = lineNum /\ lineNum \in Nat /\ DOMAIN prog = 1..Len(prog) /\ Len(prog) \in Nat
      /\ \A p \in picked : /\ p.cmd \in 1..Len(prog) /\ p.line \in Nat /\ p.line <= lineNum
                           /\ NumberedRange(prog[p.cmd]) /\ PickedRight(p, picked)
  BY RangeNow, ProgFacts
<1>3. Within(0) = 1..Len(prog)
  <2>1. ASSUME NEW i \in 1..Len(prog) PROVE 0 \in Around(prog, prog[i].in)
    <3>1. prog \in SedScripts /\ prog[i].in \in 0..Len(prog)
      BY ProgFacts DEF SedTypes
    <3> QED BY <3>1, AroundFacts
  <2> QED BY <1>2, <2>1 DEF Within
<1>4. picked' \subseteq Picked'
  <2>1. ASSUME NEW p \in picked PROVE p \in [cmd : DOMAIN prog, line : 0..num, takes : BOOLEAN]
    <3>1. p \in [cmd : DOMAIN prog, line : 0..lineNum, takes : BOOLEAN]
      BY DEF RangeInv, OneByOne, Picked
    <3>2. 0..lineNum \subseteq 0..num
      BY <1>2
    <3> QED BY <3>1, <3>2
  <2> QED BY <1>1, <2>1 DEF Picked
<1>5. cycles' = [last |-> lineNum', prev |-> IF lineNum' = 0 THEN 0 ELSE lineNum' - 1]
  <2>1. num # 0 /\ num - 1 = lineNum
    BY <1>2
  <2> QED BY <1>1, <1>2, <2>1
<1>6. \A p \in picked' : NumberedRange(prog'[p.cmd]) /\ PickedRight(p, picked)'
  BY <1>1, <1>2, SameScript DEF PickedRight
<1>7. ASSUME NEW i \in 1..Len(prog), NumberedRange(prog[i])
      PROVE  RangeOk(i, rangeActive', num, picked)
  <2> DEFINE A == prog[i].a1.n
  <2>1. /\ A \in Nat /\ LastOf(i) \in Nat /\ A <= LastOf(i) /\ IsRange(prog[i]) /\ prog[i].a1.kind = "line"
    BY <1>7, RangeNumbers
  <2>2. /\ i \in rangeActive => lineNum >= A
        /\ lineNum >= A => i \in rangeActive \/ Ended(i, picked)
        /\ ~GoesBack => ~(i \in rangeActive /\ Ended(i, picked))
    BY <1>7, RangeNow DEF RangeOk
  <2>3. AddrHolds(prog[i].a1, input[lr + 1], num, last) <=> num = A
    BY <2>1 DEF AddrHolds
  <2>4. i \in rangeActive' <=> i \in rangeActive \/ num = A
    BY <1>1, <1>3, <2>1, <2>3
  <2>5. num = A => ~Ended(i, picked)
    <3> SUFFICES ASSUME num = A, NEW q \in picked, q.line >= LastOf(i) PROVE FALSE
      BY DEF Ended
    <3> QED BY <1>2, <2>1
  <2> HIDE DEF A
  <2>6. i \in rangeActive' => num >= A
    BY <1>2, <2>1, <2>2, <2>4
  <2>7. num >= A => i \in rangeActive' \/ Ended(i, picked)
    BY <1>2, <2>1, <2>2, <2>4
  <2>8. ~GoesBack => ~(i \in rangeActive' /\ Ended(i, picked))
    BY <2>2, <2>4, <2>5
  <2> QED BY <2>6, <2>7, <2>8 DEF RangeOk, A
<1>8. \A i \in DOMAIN prog' : NumberedRange(prog'[i]) => RangeOk(i, rangeActive, lineNum, picked)'
  BY <1>1, <1>2, <1>7, SameScript DEF RangeOk, Ended
<1>9. BehindInv'
  BY <1>1, <1>2 DEF BehindInv
<1> QED BY <1>4, <1>5, <1>6, <1>8, <1>9 DEF RangeInv

\* A command that tries its range and goes on, ends the cycle or goes back.
LEMMA RangeMatch ==
    ASSUME SedTypes, RangeInv, OneByOne, StaysAtLine, pc.flow = "run", pc.at \in 1..Len(prog),
           Tried(pc.at), TrackRange(pc.at), Onward \/ pc'.flow # "run" \/ GoesBack
    PROVE  RangeInv'
<1> SUFFICES ASSUME NEW i \in 1..Len(prog), pc.at = i PROVE RangeInv'
  OBVIOUS
<1>1. rangeActive' = ActiveAfter(i) \union {} /\ Tried(i)
  BY DEF TrackRange
<1>2. prog' = prog
  BY DEF StaysAtLine, Stays
<1>3. ASSUME ~GoesBack, NEW k \in 1..i PROVE Behind(k)'
  <2>1. CASE Onward
    <3>1. pc' = Next1(i)
      BY <2>1 DEF Onward
    <3> QED BY <1>2, <3>1, BehindNext
  <2>2. CASE pc'.flow # "run"
    BY <2>2 DEF Behind
  <2> QED BY <1>3, <2>1, <2>2
<1>4. {} \in SUBSET Within(i) /\ \A j \in {} : NumberedRange(prog[j]) => lineNum = prog[j].a1.n
  OBVIOUS
<1> QED BY <1>1, <1>3, <1>4, RangeTried

LEMMA RangeGroup ==
    ASSUME SedTypes, RangeInv, OneByOne, Group
    PROVE  RangeInv'
<1>1. /\ StaysAtLine /\ pc.flow = "run" /\ pc.at \in 1..Len(prog)
      /\ BeginLists(pc.at, ActiveAfter(pc.at), StartAfter(pc.at), pat, lineNum, lastLine[Here.in])
      /\ Tried(pc.at) /\ pc'.flow = "run" /\ pc'.in = pc.at /\ (pc'.at # 0 => pc.at < pc'.at)
      /\ pc'.at \in Nat
  <2>1. pc'.at \in Nat
    <3>1. pc' = FirstOf(pc.at) /\ pc.at \in 1..Len(prog)
      BY GroupTypes
    <3>2. Len(prog) \in Nat /\ DOMAIN prog = 1..Len(prog)
      BY ProgFacts
    <3>3. pc.at \in 0..Len(prog)
      BY <3>1, <3>2
    <3> QED BY <3>1, <3>2, <3>3, FirstType DEF PlaceIn, AtCmd, Members
  <2> QED BY <2>1, GroupTypes
<1> SUFFICES ASSUME NEW i \in 1..Len(prog), pc.at = i PROVE RangeInv'
  BY <1>1
<1> DEFINE fresh == {j \in Within(i) : /\ IsRange(prog[j]) /\ j \notin ActiveAfter(i)
                                       /\ AddrHolds(prog[j].a1, pat, lineNum, lastLine[Here.in])}
<1>2. rangeActive' = ActiveAfter(i) \union fresh /\ fresh \in SUBSET Within(i)
  BY <1>1 DEF BeginLists
<1>3. \A j \in fresh : NumberedRange(prog[j]) => lineNum = prog[j].a1.n
  BY DEF NumberedRange, AddrHolds
<1>4. ASSUME NEW k \in 1..i PROVE Behind(k)'
  <2>1. Len(prog) \in Nat
    BY ProgFacts
  <2>2. IF pc'.at # 0 THEN k < pc'.at ELSE k <= pc'.in
    BY <1>1, <2>1
  <2> QED BY <2>2 DEF Behind
<1> HIDE DEF fresh
<1> QED BY <1>1, <1>2, <1>3, <1>4, RangeTried

\* The other steps leave the ranges alone.
LEMMA RangeUntried ==
    ASSUME SedTypes, RangeInv, OneByOne, prog' = prog, cycles' = cycles, lineNum' = lineNum,
           rangeActive' = rangeActive, picked' = picked, BehindInv'
    PROVE  RangeInv'
BY RangeNow, RangeParts DEF RangeInv, OneByOne

LEMMA RangeStep ==
    ASSUME SedTypes, RangeInv, [SedNext]_sed
    PROVE  RangeInv'
<1>0. Commands' = Commands /\ prog' = prog
  BY ConstStep
<1> SUFFICES ASSUME OneByOne PROVE RangeInv'
  BY <1>0 DEF RangeInv, OneByOne
<1>1. CASE BeginCycle
  BY <1>1, RangeBegin
<1>2. CASE EndOfInput \/ EndCycle
  <2>1. /\ cycles' = cycles /\ lineNum' = lineNum /\ rangeActive' = rangeActive /\ picked' = picked
        /\ pc' \in {Line, Done}
    BY <1>2 DEF EndOfInput, EndCycle, ranges
  <2>2. pc'.flow # "run"
    BY <2>1 DEF Line, Done
  <2>3. BehindInv'
    BY <2>2 DEF BehindInv, Behind
  <2> QED BY <1>0, <2>1, <2>3, RangeUntried
<1>3. CASE EndOfList
  <2>1. StaysAtLine /\ rangeActive' = rangeActive /\ picked' = picked
    BY <1>3, EndOfListTypes
  <2>2. cycles' = cycles /\ lineNum' = lineNum
    BY <2>1 DEF StaysAtLine, Stays
  <2>3. BehindInv'
    BY <1>0, <1>3, <2>1, <2>2, BehindList, RangeNow
  <2> QED BY <1>0, <2>1, <2>2, <2>3, RangeUntried
<1>4. CASE NotSelected
  BY <1>4, NotSelectedTypes, RangeMatch DEF Match
<1>5. CASE Group
  BY <1>5, RangeGroup
<1>6. CASE Ending
  <2>1. StaysAtLine /\ Selected({"d", "q", "Q", "c"}) /\ pc'.flow # "run"
    BY <1>6, EndingTypes
  <2> QED BY <2>1, SelectedFacts, RangeMatch DEF Match
<1>7. CASE Writing
  <2>1. StaysAtLine /\ Selected({"p", "P", "i", "=", "l", "r"}) /\ Onward
    BY <1>7, WritingTypes
  <2> QED BY <2>1, SelectedFacts, RangeMatch DEF Match
<1>8. CASE Queue
  <2>1. StaysAtLine /\ Selected({"a"}) /\ Onward
    BY <1>8, QueueTypes
  <2> QED BY <2>1, SelectedFacts, RangeMatch DEF Match
<1>9. CASE Spaces
  <2>1. StaysAtLine /\ Selected({"h", "H", "g", "G", "x", "y", "z"}) /\ Onward
    BY <1>9, SpacesTypes
  <2> QED BY <2>1, SelectedFacts, RangeMatch DEF Match
<1>10. CASE DeleteFirst
  <2>1. StaysAtLine /\ Selected({"D"})
    BY <1>10, DeleteFirstTypes
  <2>2. /\ pc.flow = "run" /\ pc.at \in 1..Len(prog) /\ Match(pc.at)
        /\ Here.cmd \in {"D"} /\ Here.cmd \in Commands
    BY <2>1, SelectedFacts
  <2>3. GoesBack
    BY <2>2 DEF GoesBack
  <2> QED BY <2>1, <2>2, <2>3, RangeMatch DEF Match
<1>11. CASE Branch
  <2>1. StaysAtLine /\ Selected({"b", "t", "T"})
    BY <1>11, BranchTypes
  <2>2. /\ pc.flow = "run" /\ pc.at \in 1..Len(prog) /\ Match(pc.at)
        /\ Here.cmd \in {"b", "t", "T"} /\ Here.cmd \in Commands
    BY <2>1, SelectedFacts
  <2>3. GoesBack
    BY <2>2 DEF GoesBack
  <2> QED BY <2>1, <2>2, <2>3, RangeMatch DEF Match
<1>12. CASE Label
  <2>1. StaysAtLine /\ Selected({":"}) /\ Onward
    BY <1>12, LabelTypes
  <2> QED BY <2>1, SelectedFacts, RangeMatch DEF Match
<1>13. CASE Substitute
  <2>1. StaysAtLine /\ Cmd({"s"}) /\ TrackRange(pc.at) /\ Tried(pc.at) /\ Onward
    BY <1>13, SubstituteTypes
  <2> QED BY <2>1, CommandFacts, RangeMatch
<1>14. CASE NextLine \/ JoinLine
  <2>1. Selected({"n"}) \/ Selected({"N"})
    BY <1>14 DEF NextLine, JoinLine
  <2>2. Here.cmd \in {"n", "N"} /\ Here.cmd \in Commands
    BY <2>1, SelectedFacts
  <2> QED BY <2>2 DEF OneByOne
<1>15. CASE UNCHANGED sed
  <2>1. /\ cycles' = cycles /\ lineNum' = lineNum /\ rangeActive' = rangeActive /\ picked' = picked
        /\ pc' = pc
    BY <1>15, StutterTypes
  <2>2. BehindInv'
    <3>1. BehindInv
      BY RangeNow
    <3> QED BY <1>0, <2>1, <3>1, SameScript DEF BehindInv, Behind
  <2> QED BY <1>0, <2>1, <2>2, RangeUntried
<1> QED BY <1>1, <1>2, <1>3, <1>4, <1>5, <1>6, <1>7, <1>8, <1>9, <1>10, <1>11, <1>12, <1>13, <1>14, <1>15
        DEF SedNext, Finished

-----------------------------------------------------------------------------
(* WellKnown.                                                                *)

NoGroup == "{" \notin Commands

LEMMA NoGroups ==
    ASSUME SedTypes, Len(prog) = 3, NoGroup
    PROVE  /\ \A i \in 1..3 : prog[i].in = 0
           /\ FirstOf(0) = AtCmd(1, 0) /\ Next1(1) = AtCmd(2, 0) /\ Next1(2) = AtCmd(3, 0)
           /\ Next1(3) = AtCmd(0, 0)
<1>1. DOMAIN prog = 1..3 /\ prog \in SedScripts
  BY DEF SedTypes, SedScripts
<1>2. ASSUME NEW i \in 1..3 PROVE prog[i].in = 0
  <2>1. prog[i].in \in 0..3
    BY <1>1, ScriptFacts
  <2>2. prog[i].in # 0 => prog[i].in \in 1..3
    BY <2>1
  <2>3. prog[i].in # 0 => prog[prog[i].in].cmd = "{"
    BY <1>1, ScriptFacts
  <2> QED BY <1>1, <2>2, <2>3, Zenon DEF Commands, NoGroup
<1>3. Members(0) = {1, 2, 3}
  <2>1. Members(0) = 1..3
    BY <1>1, <1>2 DEF Members
  <2> QED BY <2>1
<1>4. LeastOf({1, 2, 3}) = 1
  BY LeastIs
<1>5. LeastOf({j \in {1, 2, 3} : j > 1}) = 2
  <2>1. {j \in {1, 2, 3} : j > 1} = {2, 3}
    OBVIOUS
  <2>2. LeastOf({2, 3}) = 2
    BY LeastIs
  <2> QED BY <2>1, <2>2
<1>6. LeastOf({j \in {1, 2, 3} : j > 2}) = 3
  <2>1. {j \in {1, 2, 3} : j > 2} = {3}
    OBVIOUS
  <2>2. LeastOf({3}) = 3
    BY LeastIs
  <2> QED BY <2>1, <2>2
<1>7. LeastOf({j \in {1, 2, 3} : j > 3}) = 0
  <2>1. {j \in {1, 2, 3} : j > 3} = {}
    OBVIOUS
  <2> QED BY <2>1 DEF LeastOf
<1>8. \A i \in 1..3 : Next1(i) = AtCmd(LeastOf({j \in {1, 2, 3} : j > i}), 0)
  BY <1>2, <1>3 DEF Next1
<1>9. Next1(1) = AtCmd(2, 0)
  BY <1>5, <1>8
<1>10. Next1(2) = AtCmd(3, 0)
  BY <1>6, <1>8
<1>11. Next1(3) = AtCmd(0, 0)
  BY <1>7, <1>8
<1> QED BY <1>2, <1>3, <1>4, <1>9, <1>10, <1>11 DEF FirstOf

\* A command with one address, or with none.
LEMMA OneSelects ==
    ASSUME SedTypes, NEW i \in 1..Len(prog), prog[i].a2.kind = "none"
    PROVE  /\ prog[i].a1.kind = "none" => (Runs(i) <=> ~prog[i].neg)
           /\ prog[i].a1.kind = "line" => (Runs(i) <=> (lineNum = prog[i].a1.n <=> ~prog[i].neg))
           /\ prog[i].a1.kind = "last" => (Runs(i) <=> (lastLine[prog[i].in] <=> ~prog[i].neg))
<1> DEFINE c == prog[i]
<1>1. c.neg \in BOOLEAN /\ lastLine[c.in] \in BOOLEAN
  <2>1. c \in ACommand /\ c.in \in 0..Len(prog) /\ lastLine \in [0..Len(prog) -> BOOLEAN]
    BY ProgFacts, TypesNow
  <2> QED BY <2>1 DEF ACommand
<1>2. CASE c.a1.kind = "none"
  <2>1. Selection(i).takes = TRUE
    BY <1>2 DEF Selection, IsRange
  <2> QED BY <1>1, <1>2, <2>1 DEF Runs
<1>3. CASE c.a1.kind = "line"
  <2>1. Selection(i) = [takes |-> AddrMatch(c.a1, c.in), active |-> FALSE, start |-> 0]
    BY <1>3 DEF Selection, IsRange
  <2>2. AddrMatch(c.a1, c.in) = (lineNum = c.a1.n)
    BY <1>3 DEF AddrMatch, AddrHolds
  <2>3. Selection(i).takes = (lineNum = c.a1.n)
    BY <2>1, <2>2
  <2> QED BY <1>1, <1>3, <2>3 DEF Runs
<1>4. CASE c.a1.kind = "last"
  <2>1. Selection(i) = [takes |-> AddrMatch(c.a1, c.in), active |-> FALSE, start |-> 0]
    BY <1>4 DEF Selection, IsRange
  <2>2. AddrMatch(c.a1, c.in) = lastLine[c.in]
    BY <1>4 DEF AddrMatch, AddrHolds
  <2>3. Selection(i).takes = lastLine[c.in]
    BY <2>1, <2>2
  <2> QED BY <1>1, <1>4, <2>3 DEF Runs
<1> QED BY <1>2, <1>3, <1>4

LEMMA TacFacts ==
    ASSUME SedTypes, IsTac
    PROVE  /\ Len(prog) = 3 /\ prog[1].cmd = "G" /\ prog[2].cmd = "h" /\ prog[3].cmd = "d"
           /\ FirstOf(0) = AtCmd(1, 0) /\ Next1(1) = AtCmd(2, 0) /\ Next1(2) = AtCmd(3, 0)
           /\ Next1(3) = AtCmd(0, 0)
           /\ (Runs(1) <=> lineNum # 1) /\ Runs(2) /\ (Runs(3) <=> ~lastLine[0])
           /\ "a" \notin Commands /\ ~quiet /\ lastLine[0] \in BOOLEAN
<1>1. Scripts = Tac /\ OneAddress /\ prog[1].a1.n = 1 /\ ~quiet
  BY DEF IsTac
<1>2. DOMAIN prog = 1..Len(prog) /\ Len(prog) \in Nat /\ \A i \in 1..Len(prog) : prog[i] \in ACommand
  BY ProgFacts
<1>3. DOMAIN prog = 1..3
  BY <1>1 DEF Scripts, Tac
<1>4. Len(prog) = 3
  BY <1>2, <1>3
<1>5. /\ <<prog[1].a1.kind, prog[1].neg, prog[1].cmd>> = <<"line", TRUE, "G">>
      /\ <<prog[2].a1.kind, prog[2].neg, prog[2].cmd>> = <<"none", FALSE, "h">>
      /\ <<prog[3].a1.kind, prog[3].neg, prog[3].cmd>> = <<"last", TRUE, "d">>
  <2>1. Scripts[1] = Tac[1] /\ Scripts[2] = Tac[2] /\ Scripts[3] = Tac[3]
    BY <1>1
  <2>2. \A c \in 1..3 : Scripts[c] = <<prog[c].a1.kind, prog[c].neg, prog[c].cmd>>
    BY <1>3 DEF Scripts
  <2>3. /\ Tac[1] = <<"line", TRUE, "G">> /\ Tac[2] = <<"none", FALSE, "h">>
        /\ Tac[3] = <<"last", TRUE, "d">>
    BY DEF Tac
  <2>4. /\ Scripts[1] = <<prog[1].a1.kind, prog[1].neg, prog[1].cmd>>
        /\ Scripts[2] = <<prog[2].a1.kind, prog[2].neg, prog[2].cmd>>
        /\ Scripts[3] = <<prog[3].a1.kind, prog[3].neg, prog[3].cmd>>
    <3>1. 1 \in 1..3 /\ 2 \in 1..3 /\ 3 \in 1..3
      OBVIOUS
    <3> QED BY <2>2, <3>1, Zenon
  <2> QED BY <2>1, <2>3, <2>4, Zenon
<1>6. /\ prog[1].a1.kind = "line" /\ prog[1].neg = TRUE /\ prog[1].cmd = "G"
      /\ prog[2].a1.kind = "none" /\ prog[2].neg = FALSE /\ prog[2].cmd = "h"
      /\ prog[3].a1.kind = "last" /\ prog[3].neg = TRUE /\ prog[3].cmd = "d"
  BY <1>5
<1>7. Commands = {"G", "h", "d"}
  <2>1. Commands = {prog[1].cmd, prog[2].cmd, prog[3].cmd}
    BY <1>3 DEF Commands
  <2> QED BY <1>6, <2>1
<1>8. /\ \A i \in 1..3 : prog[i].in = 0 /\ prog[i].a2.kind = "none"
      /\ FirstOf(0) = AtCmd(1, 0) /\ Next1(1) = AtCmd(2, 0) /\ Next1(2) = AtCmd(3, 0)
      /\ Next1(3) = AtCmd(0, 0)
  <2>1. NoGroup
    BY <1>7, Zenon DEF NoGroup
  <2> QED BY <1>1, <1>3, <1>4, <2>1, NoGroups DEF OneAddress
<1>9. lastLine[0] \in BOOLEAN
  <2>1. lastLine \in [0..Len(prog) -> BOOLEAN] /\ 0 \in 0..Len(prog)
    BY <1>2, TypesNow
  <2> QED BY <2>1
<1>10. Runs(1) <=> lineNum # 1
  BY <1>1, <1>4, <1>6, <1>8, OneSelects
<1>11. Runs(2)
  BY <1>4, <1>6, <1>8, OneSelects
<1>12. Runs(3) <=> ~lastLine[0]
  <2>1. prog[3].in = 0 /\ 3 \in 1..Len(prog) /\ prog[3].a2.kind = "none"
    BY <1>4, <1>8
  <2>2. Runs(3) <=> (lastLine[prog[3].in] <=> ~prog[3].neg)
    BY <1>6, <2>1, OneSelects
  <2> QED BY <1>6, <1>9, <2>1, <2>2
<1> QED BY <1>1, <1>4, <1>6, <1>7, <1>8, <1>9, <1>10, <1>11, <1>12

LEMMA BackNone == ASSUME SedTypes PROVE Back(0) = <<>>
<1>1. SubSeq(input, 1, 0) = <<>>
  BY SubSeqEmpty
<1>2. Reversed(<<>>) = <<>>
  BY DEF Reversed
<1> QED BY <1>1, <1>2, JoinedEmpty DEF Back

LEMMA BackNext ==
    ASSUME SedTypes, lr >= 1
    PROVE  Back(lr) = IF lr = 1 THEN input[lr] ELSE input[lr] \o <<NL>> \o Back(lr - 1)
<1>1. input \in Seq(AText) /\ lr \in 0..Len(input) /\ lr \in Nat /\ Len(input) \in Nat
  <2>1. input \in Seq(Seq(Letters))
    BY TypesNow DEF SedInputs
  <2>2. Seq(Letters) \subseteq AText
    BY NoNewline
  <2> QED BY <2>1, <2>2, TypesNow, SeqMonotonic
<1>2. PICK k \in Nat : lr = k + 1
  <2>1. lr - 1 \in Nat /\ lr = (lr - 1) + 1
    BY <1>1
  <2> QED BY <2>1
<1>3. k \in 0..Len(input) /\ k < Len(input) /\ lr - 1 = k /\ (lr = 1 <=> k = 0)
  BY <1>1, <1>2
<1> DEFINE x == input[k + 1]
           s == Reversed(SubSeq(input, 1, k))
<1>4. x \in AText /\ Reversed(SubSeq(input, 1, k + 1)) = <<x>> \o s /\ s \in Seq(AText) /\ Len(s) = k
  BY <1>1, <1>3, NextLineOf
<1>5. Back(lr) = Joined(<<x>> \o s) /\ Back(lr - 1) = Joined(s)
  BY <1>2, <1>3, <1>4 DEF Back
<1> HIDE DEF x, s
<1>6. Joined(<<x>> \o s) = IF s = <<>> THEN x ELSE x \o (<<NL>> \o Joined(s))
  BY <1>4, JoinedPrepend
<1>7. s = <<>> <=> k = 0
  BY <1>4
<1>8. x \o (<<NL>> \o Joined(s)) = x \o <<NL>> \o Joined(s)
  <2>1. x \in Seq(Chars) /\ <<NL>> \in Seq(Chars) /\ Joined(s) \in Seq(Chars)
    BY <1>4, NLType, JoinedType DEF AText
  <2> QED BY <2>1, ConcatAssociative
<1> QED BY <1>2, <1>3, <1>5, <1>6, <1>7, <1>8 DEF x

LEMMA NoAppendTexts ==
    ASSUME SedTypes, NoAppends, "a" \notin Commands
    PROVE  AppendTexts = <<>>
<1>1. appendText = <<>>
  BY DEF NoAppends
<1>2. CycleAppends = <<>>
  BY <1>1 DEF CycleAppends
<1>3. DOMAIN CycleAppends = {}
  BY <1>2
<1> QED BY <1>3 DEF AppendTexts

\* A step of the loop, from the number of the command that is next.
LEMMA TacRuns ==
    ASSUME SedTypes, IsTac, TacInv, pc.flow = "run", SedNext
    PROVE  \/ pc.at = 0 /\ EndOfList
           \/ pc.at = 1 /\ lineNum # 1 /\ Spaces /\ Here.cmd = "G"
           \/ pc.at = 1 /\ lineNum = 1 /\ NotSelected
           \/ pc.at = 2 /\ Spaces /\ Here.cmd = "h"
           \/ pc.at = 3 /\ ~lastLine[0] /\ Ending /\ Here.cmd = "d"
           \/ pc.at = 3 /\ lastLine[0] /\ NotSelected
<1>1. /\ Len(prog) = 3 /\ prog[1].cmd = "G" /\ prog[2].cmd = "h" /\ prog[3].cmd = "d"
      /\ (Runs(1) <=> lineNum # 1) /\ Runs(2) /\ (Runs(3) <=> ~lastLine[0])
      /\ lastLine[0] \in BOOLEAN
  BY TacFacts
<1>2. pc.at = 0 \/ pc.at \in 1..3
  <2>1. pc.at # 0 => pc.at \in 1..Len(prog)
    BY RunFacts
  <2> QED BY <1>1, <2>1
<1>3. ~BeginCycle /\ ~EndOfInput /\ ~EndCycle /\ ~Finished
  BY DEF BeginCycle, EndOfInput, EndCycle, Finished, Line, Done, Flows
<1>4. CASE pc.at = 0
  <2>1. \A names : ~Cmd(names)
    BY <1>4 DEF Cmd
  <2>2. ~NotSelected
    BY <1>4 DEF NotSelected
  <2>3. ~Group
    <3>1. Group => pc.at \in 1..Len(prog)
      BY GroupTypes
    <3> QED BY <1>1, <1>4, <3>1
  <2> QED BY <1>3, <1>4, <2>1, <2>2, <2>3 DEF SedNext, Ending, Writing, Queue, Spaces, DeleteFirst, NextLine,
         JoinLine, Substitute, Branch, Label, Selected
<1>5. CASE pc.at \in 1..3
  <2>1. ~EndOfList
    BY <1>5 DEF EndOfList
  <2>2. Here.cmd \in {"G", "h", "d"}
    BY <1>1, <1>5 DEF Here
  <2>3. \A names : Cmd(names) => Here.cmd \in names
    BY DEF Cmd, Here
  <2>4. NotSelected \/ (Ending /\ Here.cmd = "d") \/ (Spaces /\ Here.cmd \in {"G", "h"})
    <3>1. ~Group
      BY <2>2, GroupTypes, Zenon
    <3> QED BY <1>3, <2>1, <2>2, <2>3, <3>1 DEF SedNext, Ending, Writing, Queue, Spaces, DeleteFirst, NextLine,
         JoinLine, Substitute, Branch, Label, Selected
  <2>5. NotSelected => ~Runs(pc.at)
    BY DEF NotSelected
  <2>6. Spaces \/ Ending => Runs(pc.at)
    BY DEF Spaces, Ending, Selected
  <2>7. CASE pc.at = 1
    <3>1. Here.cmd = "G"
      BY <1>1, <2>7 DEF Here
    <3> QED BY <1>1, <2>4, <2>5, <2>6, <2>7, <3>1
  <2>8. CASE pc.at = 2
    <3>1. Here.cmd = "h"
      BY <1>1, <2>8 DEF Here
    <3> QED BY <1>1, <2>4, <2>5, <2>6, <2>8, <3>1
  <2>9. CASE pc.at = 3
    <3>1. Here.cmd = "d"
      BY <1>1, <2>9 DEF Here
    <3> QED BY <1>1, <2>4, <2>5, <2>6, <2>9, <3>1
  <2> QED BY <1>5, <2>7, <2>8, <2>9
<1> QED BY <1>2, <1>4, <1>5

LEMMA TacBegin ==
    ASSUME SedTypes, IsTac, TacInv, BeginCycle
    PROVE  TacInv'
<1>1. /\ prog' = prog /\ input' = input /\ lr' = lr + 1 /\ out' = out /\ hold' = hold
      /\ pat' = input[lr + 1] /\ lastLine' = [lastLine EXCEPT ![0] = lr + 1 = Len(input)]
      /\ pc.flow = "line" /\ lr < Len(input) /\ lr \in Nat /\ pc' = FirstOf(0)
  BY TypesNow DEF BeginCycle, source, output, Line
<1>2. Nothing /\ hold = Back(lr)
  BY <1>1, TypesNow DEF TacInv
<1>3. pc'.flow = "run" /\ pc'.at = 1 /\ pc'.in = 0
  BY <1>1, TacFacts DEF AtCmd
<1>4. lastLine'[0] = (lr' = Len(input'))
  <2>1. lastLine \in [0..Len(prog) -> BOOLEAN] /\ 0 \in 0..Len(prog)
    BY TypesNow, ProgFacts
  <2> QED BY <1>1, <2>1
<1>5. lr' >= 1 /\ lr' - 1 = lr /\ pat' = input'[lr']
  BY <1>1
<1>6. hold' = Back(lr - 1)'
  BY <1>1, <1>2, <1>5 DEF Back
<1>7. TacRun'
  BY <1>1, <1>2, <1>3, <1>4, <1>5, <1>6 DEF TacRun, Nothing
<1> QED BY <1>3, <1>7 DEF TacInv

LEMMA NoTexts == ASSUME NEW by PROVE TextsOf(<<>>, by) = <<>>
<1>1. [k \in DOMAIN <<>> |-> IF (<<>>)[k].by = by THEN <<(<<>>)[k].text>> ELSE <<>>] = <<>>
  OBVIOUS
<1> QED BY <1>1 DEF TextsOf, FlattenSeq

LEMMA TacEnd ==
    ASSUME SedTypes, IsTac, TacInv, NoAppends, EndCycle
    PROVE  TacInv'
<1>1. /\ input' = input /\ lr' = lr /\ hold' = hold
      /\ pc'.flow = (IF pc.flow \in {"quit", "quitSilent"} THEN "done" ELSE "line")
      /\ out' = (IF Printed THEN Append(out, PrintText) ELSE out) \o AppendTexts
  BY EndCycleTypes, EndCycleOut
<1>2. pc.flow \in {"normal", "delete"} /\ pc'.flow = "line" /\ ~quiet
  BY <1>1, TacFacts DEF TacInv, EndCycle, Flows
<1>3. AppendTexts = <<>>
  BY TacFacts, NoAppendTexts
<1>4. out \in Seq(Written) /\ PrintText \in Written /\ Nothing
  BY <1>2, TypesNow, CycleEndType DEF TacInv
<1>5. CASE pc.flow = "delete"
  <2>1. out' = out
    BY <1>1, <1>3, <1>4, <1>5, ConcatEmptySeq DEF Printed
  <2>2. hold' = Back(lr)' /\ lr' < Len(input') /\ Nothing'
    BY <1>1, <1>5, <2>1 DEF TacInv, Back, Nothing
  <2> QED BY <1>2, <2>2 DEF TacInv
<1>6. CASE pc.flow = "normal"
  <2>1. Printed
    BY <1>2, <1>6 DEF Printed
  <2>2. out' = Append(out, PrintText)
    <3>1. Append(out, PrintText) \in Seq(Written)
      BY <1>4
    <3> QED BY <1>1, <1>3, <2>1, <3>1, ConcatEmptySeq
  <2>3. Texts("print") = <<>>
    BY <1>4, TextsNow, NoTexts DEF Nothing
  <2>4. Texts("print")' = Append(Texts("print"), pat)
    <3>1. Writes("print", pat)
      BY <1>4, <2>2 DEF Writes, PrintText
    <3> QED BY <3>1, WritesTexts
  <2>5. Text("print")' = Joined(Append(<<>>, pat))
    <3>1. Text("print")' = Joined(Texts("print")')
      BY DEF Text
    <3> QED BY <2>3, <2>4, <3>1
  <2>6. Joined(Append(<<>>, pat)) = pat
    <3>1. <<>> \in Seq(AText) /\ pat \in AText
      BY TypesNow
    <3> QED BY <3>1, JoinedAppend
  <2>7. Text("print")' = Back(lr)' /\ lr' = Len(input')
    BY <1>1, <1>6, <2>5, <2>6 DEF TacInv, Back
  <2> QED BY <1>2, <2>7 DEF TacInv
<1> QED BY <1>2, <1>5, <1>6

\* The loop.
LEMMA TacLoop ==
    ASSUME SedTypes, IsTac, TacInv, SedNext, pc.flow = "run"
    PROVE  TacInv'
<1> DEFINE Frozen == lr' = lr /\ input' = input /\ lastLine' = lastLine /\ out' = out
<1>1. /\ pc.in = 0 /\ lr >= 1 /\ Nothing /\ lastLine[0] = (lr = Len(input))
      /\ pc.at = 1 => pat = input[lr] /\ hold = Back(lr - 1)
      /\ pc.at = 2 => pat = Back(lr)
      /\ pc.at = 3 => pat = Back(lr) /\ hold = Back(lr)
      /\ pc.at = 0 => pat = Back(lr) /\ lr = Len(input)
  BY DEF TacInv, TacRun
<1>2. /\ FirstOf(0) = AtCmd(1, 0) /\ Next1(1) = AtCmd(2, 0) /\ Next1(2) = AtCmd(3, 0)
      /\ Next1(3) = AtCmd(0, 0)
  BY TacFacts
<1>3. lr \in Nat /\ lr \in 0..Len(input) /\ Len(input) \in Nat /\ lineNum = lr
  BY TypesNow
<1>4. ASSUME Frozen, pc' = AtCmd(2, 0), pat' = Back(lr) PROVE TacInv'
  <2>1. pc'.flow = "run" /\ pc'.at = 2 /\ pc'.in = 0
    BY <1>4 DEF AtCmd
  <2>2. pat' = Back(lr)' /\ Nothing' /\ lr' >= 1 /\ lastLine'[0] = (lr' = Len(input'))
    BY <1>1, <1>4 DEF Back, Nothing
  <2> QED BY <2>1, <2>2 DEF TacInv, TacRun
<1>5. CASE pc.at = 0 /\ EndOfList
  <2>1. Frozen /\ pat' = pat /\ pc'.flow = "normal"
    BY <1>1, <1>5, EndOfListTypes DEF StaysAtLine, Stays, KeepsText, KeepsOutput
  <2>2. pat' = Back(lr)' /\ Nothing' /\ lr' = Len(input')
    BY <1>1, <1>5, <2>1 DEF Back, Nothing
  <2> QED BY <2>1, <2>2 DEF TacInv
<1>6. CASE pc.at = 1 /\ lineNum # 1 /\ Spaces /\ Here.cmd = "G"
  <2>1. Frozen /\ Onward /\ pat' = pat \o <<NL>> \o hold
    BY <1>6, SpacesTypes DEF StaysAtLine, Stays, KeepsOutput
  <2>2. pc' = AtCmd(2, 0)
    BY <1>2, <1>6, <2>1 DEF Onward
  <2>3. pat' = Back(lr)
    BY <1>1, <1>3, <1>6, <2>1, BackNext
  <2> QED BY <1>4, <2>1, <2>2, <2>3
<1>7. CASE pc.at = 1 /\ lineNum = 1 /\ NotSelected
  <2>1. Frozen /\ Onward /\ pat' = pat
    BY <1>7, NotSelectedTypes DEF StaysAtLine, Stays, KeepsText, KeepsOutput
  <2>2. pc' = AtCmd(2, 0)
    BY <1>2, <1>7, <2>1 DEF Onward
  <2>3. pat' = Back(lr)
    BY <1>1, <1>3, <1>7, <2>1, BackNext
  <2> QED BY <1>4, <2>1, <2>2, <2>3
<1>8. CASE pc.at = 2 /\ Spaces /\ Here.cmd = "h"
  <2>1. Frozen /\ Onward /\ pat' = pat /\ hold' = pat
    BY <1>8, SpacesTypes DEF StaysAtLine, Stays, KeepsOutput
  <2>2. pc' = AtCmd(3, 0)
    BY <1>2, <1>8, <2>1 DEF Onward
  <2>3. pc'.flow = "run" /\ pc'.at = 3 /\ pc'.in = 0
    BY <2>2 DEF AtCmd
  <2>4. pat' = Back(lr)' /\ hold' = Back(lr)' /\ Nothing' /\ lr' >= 1 /\ lastLine'[0] = (lr' = Len(input'))
    BY <1>1, <1>8, <2>1 DEF Back, Nothing
  <2> QED BY <2>3, <2>4 DEF TacInv, TacRun
<1>9. CASE pc.at = 3 /\ ~lastLine[0] /\ Ending /\ Here.cmd = "d"
  <2>1. Frozen /\ hold' = hold /\ pc'.flow = "delete"
    BY <1>9, EndingTypes DEF StaysAtLine, Stays, KeepsText
  <2>2. lr < Len(input)
    <3>1. lr # Len(input)
      BY <1>1, <1>9
    <3> QED BY <1>3, <3>1
  <2>3. hold' = Back(lr)' /\ Nothing' /\ lr' < Len(input')
    BY <1>1, <1>9, <2>1, <2>2 DEF Back, Nothing
  <2> QED BY <2>1, <2>3 DEF TacInv
<1>10. CASE pc.at = 3 /\ lastLine[0] /\ NotSelected
  <2>1. Frozen /\ Onward /\ pat' = pat
    BY <1>10, NotSelectedTypes DEF StaysAtLine, Stays, KeepsText, KeepsOutput
  <2>2. pc' = AtCmd(0, 0)
    BY <1>2, <1>10, <2>1 DEF Onward
  <2>3. pc'.flow = "run" /\ pc'.at = 0 /\ pc'.in = 0
    BY <2>2 DEF AtCmd
  <2>4. pat' = Back(lr)' /\ Nothing' /\ lr' >= 1 /\ lastLine'[0] = (lr' = Len(input')) /\ lr' = Len(input')
    BY <1>1, <1>10, <2>1 DEF Back, Nothing
  <2> QED BY <2>3, <2>4 DEF TacInv, TacRun
<1> QED BY <1>5, <1>6, <1>7, <1>8, <1>9, <1>10, TacRuns

LEMMA TacStep ==
    ASSUME SedTypes, TacInv, NoAppends, [SedNext]_sed
    PROVE  TacInv'
<1>1. prog' = prog /\ quiet' = quiet /\ input' = input
  BY ConstStep
<1>2. IsTac' <=> IsTac
  BY <1>1 DEF IsTac, OneAddress, Scripts
<1> SUFFICES ASSUME IsTac PROVE TacInv'
  BY <1>2 DEF TacInv
<1>3. CASE BeginCycle
  BY <1>3, TacBegin
<1>4. CASE EndCycle
  BY <1>4, TacEnd
<1>5. CASE EndOfInput
  <2>1. pc'.flow = "done" /\ out' = out /\ lr' = lr /\ pc.flow = "line" /\ lr = Len(input)
    BY <1>5, EndOfInputTypes DEF EndOfInput, output, Line
  <2>2. Text("print") = Back(lr) /\ lr \in Nat
    BY <2>1, TypesNow DEF TacInv
  <2>3. Text("print")' = Back(lr)' /\ lr' = Len(input')
    BY <1>1, <2>1, <2>2 DEF Text, Texts, Back
  <2> QED BY <2>1, <2>3 DEF TacInv
<1>6. CASE UNCHANGED sed
  <2>1. pc' = pc /\ out' = out /\ lr' = lr /\ pat' = pat /\ hold' = hold /\ lastLine' = lastLine
    BY <1>6, StutterTypes DEF KeepsText, KeepsOutput
  <2>2. Back(lr)' = Back(lr) /\ Back(lr - 1)' = Back(lr - 1) /\ Nothing' = Nothing
        /\ Text("print")' = Text("print")
    BY <1>1, <2>1 DEF Back, Nothing, Text, Texts
  <2>3. TacRun' = TacRun
    BY <1>1, <2>1, <2>2 DEF TacRun
  <2> QED BY <1>1, <2>1, <2>2, <2>3 DEF TacInv
<1>7. CASE SedNext /\ pc.flow = "run"
  BY <1>7, TacLoop
<1>8. pc.flow = "run" \/ BeginCycle \/ EndOfInput \/ EndCycle \/ UNCHANGED sed
  BY StepKinds
<1> QED BY <1>3, <1>4, <1>5, <1>6, <1>7, <1>8

LEMMA PairsFacts ==
    ASSUME SedTypes, IsPairs
    PROVE  /\ Len(prog) = 3 /\ prog[1].cmd = "N" /\ prog[2].cmd = "P" /\ prog[3].cmd = "D"
           /\ FirstOf(0) = AtCmd(1, 0) /\ Next1(1) = AtCmd(2, 0) /\ Next1(2) = AtCmd(3, 0)
           /\ (Runs(1) <=> ~lastLine[0]) /\ Runs(2) /\ Runs(3)
           /\ "a" \notin Commands /\ lastLine[0] \in BOOLEAN /\ 0 \in DOMAIN lastLine
<1>1. Scripts = Pairs /\ OneAddress
  BY DEF IsPairs
<1>2. DOMAIN prog = 1..Len(prog) /\ Len(prog) \in Nat /\ \A i \in 1..Len(prog) : prog[i] \in ACommand
  BY ProgFacts
<1>3. DOMAIN prog = 1..3
  BY <1>1 DEF Scripts, Pairs
<1>4. Len(prog) = 3
  BY <1>2, <1>3
<1>5. /\ <<prog[1].a1.kind, prog[1].neg, prog[1].cmd>> = <<"last", TRUE, "N">>
      /\ <<prog[2].a1.kind, prog[2].neg, prog[2].cmd>> = <<"none", FALSE, "P">>
      /\ <<prog[3].a1.kind, prog[3].neg, prog[3].cmd>> = <<"none", FALSE, "D">>
  <2>1. Scripts[1] = Pairs[1] /\ Scripts[2] = Pairs[2] /\ Scripts[3] = Pairs[3]
    BY <1>1
  <2>2. \A c \in 1..3 : Scripts[c] = <<prog[c].a1.kind, prog[c].neg, prog[c].cmd>>
    BY <1>3 DEF Scripts
  <2>3. /\ Pairs[1] = <<"last", TRUE, "N">> /\ Pairs[2] = <<"none", FALSE, "P">>
        /\ Pairs[3] = <<"none", FALSE, "D">>
    BY DEF Pairs
  <2>4. /\ Scripts[1] = <<prog[1].a1.kind, prog[1].neg, prog[1].cmd>>
        /\ Scripts[2] = <<prog[2].a1.kind, prog[2].neg, prog[2].cmd>>
        /\ Scripts[3] = <<prog[3].a1.kind, prog[3].neg, prog[3].cmd>>
    <3>1. 1 \in 1..3 /\ 2 \in 1..3 /\ 3 \in 1..3
      OBVIOUS
    <3> QED BY <2>2, <3>1, Zenon
  <2> QED BY <2>1, <2>3, <2>4, Zenon
<1>6. /\ prog[1].a1.kind = "last" /\ prog[1].neg = TRUE /\ prog[1].cmd = "N"
      /\ prog[2].a1.kind = "none" /\ prog[2].neg = FALSE /\ prog[2].cmd = "P"
      /\ prog[3].a1.kind = "none" /\ prog[3].neg = FALSE /\ prog[3].cmd = "D"
  BY <1>5
<1>7. Commands = {"N", "P", "D"}
  <2>1. Commands = {prog[1].cmd, prog[2].cmd, prog[3].cmd}
    BY <1>3 DEF Commands
  <2> QED BY <1>6, <2>1
<1>8. /\ \A i \in 1..3 : prog[i].in = 0 /\ prog[i].a2.kind = "none"
      /\ FirstOf(0) = AtCmd(1, 0) /\ Next1(1) = AtCmd(2, 0) /\ Next1(2) = AtCmd(3, 0)
  <2>1. NoGroup
    BY <1>7, Zenon DEF NoGroup
  <2> QED BY <1>1, <1>3, <1>4, <2>1, NoGroups DEF OneAddress
<1>9. lastLine[0] \in BOOLEAN /\ 0 \in DOMAIN lastLine
  <2>1. lastLine \in [0..Len(prog) -> BOOLEAN] /\ 0 \in 0..Len(prog)
    BY <1>2, TypesNow
  <2> QED BY <2>1
<1>10. Runs(2) /\ Runs(3)
  BY <1>4, <1>6, <1>8, OneSelects
<1>11. Runs(1) <=> ~lastLine[0]
  <2>1. prog[1].in = 0 /\ 1 \in 1..Len(prog) /\ prog[1].a2.kind = "none"
    BY <1>4, <1>8
  <2>2. Runs(1) <=> (lastLine[prog[1].in] <=> ~prog[1].neg)
    BY <1>6, <2>1, OneSelects
  <2> QED BY <1>6, <1>9, <2>1, <2>2
<1> QED BY <1>4, <1>6, <1>7, <1>8, <1>9, <1>10, <1>11

LEMMA PairsRuns ==
    ASSUME SedTypes, IsPairs, PairsInv, pc.flow = "run", SedNext
    PROVE  \/ pc.at = 1 /\ ~lastLine[0] /\ JoinLine
           \/ pc.at = 1 /\ lastLine[0] /\ NotSelected
           \/ pc.at = 2 /\ Writing /\ Here.cmd = "P"
           \/ pc.at = 3 /\ DeleteFirst
<1>1. /\ prog[1].cmd = "N" /\ prog[2].cmd = "P" /\ prog[3].cmd = "D"
      /\ (Runs(1) <=> ~lastLine[0]) /\ Runs(2) /\ Runs(3) /\ lastLine[0] \in BOOLEAN
  BY PairsFacts
<1>2. pc.at \in 1..3
  BY DEF PairsInv, PairsRun
<1>3. ~BeginCycle /\ ~EndOfInput /\ ~EndCycle /\ ~Finished
  BY DEF BeginCycle, EndOfInput, EndCycle, Finished, Line, Done, Flows
<1>4. ~EndOfList
  BY <1>2 DEF EndOfList
<1>5. Here.cmd \in {"N", "P", "D"}
  BY <1>1, <1>2 DEF Here
<1>6. \A names : Cmd(names) => Here.cmd \in names
  BY DEF Cmd, Here
<1>7. ~Group
  BY <1>5, GroupTypes, Zenon
<1>8. NotSelected \/ (JoinLine /\ Here.cmd = "N") \/ (Writing /\ Here.cmd = "P") \/ (DeleteFirst /\ Here.cmd = "D")
  BY <1>3, <1>4, <1>5, <1>6, <1>7 DEF SedNext, Ending, Writing, Queue, Spaces, DeleteFirst, NextLine,
     JoinLine, Substitute, Branch, Label, Selected
<1>9. NotSelected => ~Runs(pc.at)
  BY DEF NotSelected
<1>10. JoinLine => Runs(pc.at)
  BY DEF JoinLine, Selected
<1>11. CASE pc.at = 1
  <2>1. Here.cmd = "N"
    BY <1>1, <1>11 DEF Here
  <2> QED BY <1>1, <1>8, <1>9, <1>10, <1>11, <2>1
<1>12. CASE pc.at = 2
  <2>1. Here.cmd = "P"
    BY <1>1, <1>12 DEF Here
  <2> QED BY <1>1, <1>8, <1>9, <1>12, <2>1
<1>13. CASE pc.at = 3
  <2>1. Here.cmd = "D"
    BY <1>1, <1>13 DEF Here
  <2> QED BY <1>1, <1>8, <1>9, <1>13, <2>1
<1> QED BY <1>2, <1>11, <1>12, <1>13

\* The lines that are written.
LEMMA LinesAppend ==
    ASSUME SedTypes, NEW by, NEW text, Writes(by, text)
    PROVE  Lines' = Append(Lines, text) /\ Lines \in Seq(AText)
<1> DEFINE r == [line |-> lineNum, text |-> text, by |-> by]
<1>1. r \in Written /\ out \in Seq(Written) /\ out' = Append(out, r) /\ r.text = text
  BY TypesNow DEF Writes
<1> HIDE DEF r
<1>2. \A w \in Written : w.text \in AText
  BY DEF Written
<1> DEFINE n == Len(out)
<1>3. n \in Nat /\ DOMAIN out = 1..n /\ DOMAIN out' = 1..n + 1 /\ Len(out') = n + 1
      /\ (\A k \in 1..n : out'[k] = out[k]) /\ out'[n + 1] = r
  BY <1>1
<1>4. Lines = [k \in 1..n |-> out[k].text] /\ Lines' = [k \in 1..n + 1 |-> out'[k].text]
  BY <1>3 DEF Lines
<1>5. \A k \in 1..n : out[k].text \in AText
  BY <1>1, <1>2
<1>6. Lines \in Seq(AText) /\ Len(Lines) = n /\ \A k \in 1..n : Lines[k] = out[k].text
  <2> HIDE DEF n
  <2> QED BY <1>3, <1>4, <1>5
<1>7. text \in AText
  BY <1>1, <1>2
<1> DEFINE a == Append(Lines, text)
<1>8. a \in Seq(AText) /\ Len(a) = n + 1 /\ (\A k \in 1..n : a[k] = Lines[k]) /\ a[n + 1] = text
  BY <1>6, <1>7
<1>9. DOMAIN a = 1..n + 1
  BY <1>8
<1> HIDE DEF n, a
<1>10. \A k \in 1..n + 1 : k \in 1..n \/ k = n + 1
  BY <1>3
<1>11. \A k \in 1..n + 1 : a[k] = out'[k].text
  BY <1>1, <1>3, <1>6, <1>8, <1>10
<1>12. a = [k \in 1..n + 1 |-> a[k]]
  BY <1>8, <1>9
<1> QED BY <1>4, <1>6, <1>11, <1>12 DEF a

LEMMA LineOf ==
    ASSUME SedTypes, NEW k \in 1..Len(input)
    PROVE  input[k] \in Seq(Letters) /\ input[k] \in AText
<1>1. input \in Seq(Seq(Letters))
  BY TypesNow DEF SedInputs
<1>2. input[k] \in Seq(Letters)
  BY <1>1
<1> QED BY <1>2, NoNewline

LEMMA PairsBegin ==
    ASSUME SedTypes, IsPairs, PairsInv, BeginCycle
    PROVE  PairsInv'
<1>1. /\ prog' = prog /\ input' = input /\ lr' = lr + 1 /\ out' = out
      /\ pat' = input[lr + 1] /\ lastLine' = [lastLine EXCEPT ![0] = lr + 1 = Len(input)]
      /\ pc.flow = "line" /\ lr < Len(input) /\ lr \in Nat /\ Len(input) \in Nat /\ pc' = FirstOf(0)
  BY TypesNow DEF BeginCycle, source, output, Line
<1>2. Lines = SubSeq(input, 1, lr)
  BY <1>1 DEF PairsInv
<1>3. pc'.flow = "run" /\ pc'.at = 1 /\ pc'.in = 0
  BY <1>1, PairsFacts DEF AtCmd
<1>4. lastLine'[0] = (lr' = Len(input'))
  BY <1>1, PairsFacts
<1>5. lr' >= 1 /\ lr' - 1 = lr /\ pat' = input'[lr']
  BY <1>1
<1>6. Lines' = SubSeq(input', 1, lr' - 1)
  BY <1>1, <1>2, <1>5 DEF Lines
<1>7. PairsRun'
  BY <1>3, <1>4, <1>5, <1>6 DEF PairsRun
<1> QED BY <1>3, <1>7 DEF PairsInv

LEMMA PairsEnd ==
    ASSUME SedTypes, IsPairs, PairsInv, NoAppends, EndCycle
    PROVE  PairsInv'
<1>1. /\ input' = input /\ lr' = lr
      /\ pc'.flow = (IF pc.flow \in {"quit", "quitSilent"} THEN "done" ELSE "line")
      /\ out' = (IF Printed THEN Append(out, PrintText) ELSE out) \o AppendTexts
  BY EndCycleTypes, EndCycleOut
<1>2. pc.flow = "delete" /\ pc'.flow = "line"
  BY <1>1 DEF PairsInv, EndCycle, Flows
<1>3. AppendTexts = <<>>
  BY PairsFacts, NoAppendTexts
<1>4. out' = out
  BY <1>1, <1>2, <1>3, TypesNow, ConcatEmptySeq DEF Printed
<1>5. Lines' = SubSeq(input', 1, lr') /\ lr' = Len(input')
  BY <1>1, <1>2, <1>4 DEF PairsInv, Lines
<1> QED BY <1>2, <1>5 DEF PairsInv

LEMMA PairsLoop ==
    ASSUME SedTypes, IsPairs, PairsInv, SedNext, pc.flow = "run"
    PROVE  PairsInv'
<1>1. /\ pc.in = 0 /\ lr >= 1 /\ pc.at \in 1..3
      /\ pc.at = 1 => /\ pat = input[lr] /\ Lines = SubSeq(input, 1, lr - 1)
                      /\ lastLine[0] = (lr = Len(input))
      /\ pc.at = 2 => Single(lr - 1) \/ Double(lr - 2)
      /\ pc.at = 3 => Single(lr) \/ Double(lr - 1)
  BY DEF PairsInv, PairsRun
<1>2. FirstOf(0) = AtCmd(1, 0) /\ Next1(1) = AtCmd(2, 0) /\ Next1(2) = AtCmd(3, 0) /\ lastLine[0] \in BOOLEAN
      /\ 0 \in DOMAIN lastLine
  BY PairsFacts
<1>3. lr \in Nat /\ lr \in 0..Len(input) /\ Len(input) \in Nat /\ lr \in 1..Len(input)
  BY <1>1, TypesNow
<1>4. input \in Seq(Seq(Letters))
  BY TypesNow DEF SedInputs
<1>5. CASE pc.at = 1 /\ ~lastLine[0] /\ JoinLine
  <2>1. lr < Len(input)
    <3>1. lr # Len(input)
      BY <1>1, <1>2, <1>5
    <3> QED BY <1>3, <3>1
  <2>2. /\ input' = input /\ lr' = lr + 1 /\ pat' = pat \o <<NL>> \o input[lr + 1] /\ Onward /\ out' = out
    BY <1>5, <2>1, JoinLineTypes DEF Stays
  <2>3. pc'.flow = "run" /\ pc'.at = 2 /\ pc'.in = 0
    BY <1>2, <1>5, <2>2 DEF Onward, AtCmd
  <2>4. lr' - 1 = lr /\ lr' - 2 = lr - 1 /\ lr' >= 2 /\ lr' >= 1
    BY <1>1, <1>3, <2>2
  <2>5. Lines' = SubSeq(input', 1, lr' - 2)
    BY <1>1, <1>5, <2>2, <2>4 DEF Lines
  <2>6. pat' = input'[lr' - 1] \o <<NL>> \o input'[lr']
    BY <1>1, <1>5, <2>2, <2>4
  <2>7. Double(lr - 2)'
    BY <2>4, <2>5, <2>6 DEF Double
  <2> QED BY <2>3, <2>4, <2>7 DEF PairsInv, PairsRun
<1>6. CASE pc.at = 1 /\ lastLine[0] /\ NotSelected
  <2>1. lr' = lr /\ input' = input /\ out' = out /\ Onward /\ pat' = pat
    BY <1>6, NotSelectedTypes DEF StaysAtLine, Stays, KeepsText, KeepsOutput
  <2>2. pc'.flow = "run" /\ pc'.at = 2 /\ pc'.in = 0
    BY <1>2, <1>6, <2>1 DEF Onward, AtCmd
  <2>3. lr = Len(input)
    BY <1>1, <1>6
  <2>4. Single(lr - 1)'
    BY <1>1, <1>6, <2>1, <2>3 DEF Single, Lines
  <2> QED BY <1>1, <2>1, <2>2, <2>4 DEF PairsInv, PairsRun
<1>7. CASE pc.at = 2 /\ Writing /\ Here.cmd = "P"
  <2>1. lr' = lr /\ input' = input /\ Onward /\ pat' = pat /\ Writes("P", UpTo(pat))
    BY <1>7, WritingTypes DEF StaysAtLine, Stays, KeepsText
  <2>2. pc'.flow = "run" /\ pc'.at = 3 /\ pc'.in = 0
    BY <1>2, <1>7, <2>1 DEF Onward, AtCmd
  <2>3. Lines' = Append(Lines, UpTo(pat))
    BY <2>1, LinesAppend
  <2>4. CASE Single(lr - 1)
    <3>1. lr = Len(input) /\ pat = input[lr] /\ Lines = SubSeq(input, 1, lr - 1)
      BY <2>4 DEF Single
    <3>2. UpTo(pat) = pat
      <4>1. input[lr] \in Seq(Letters) /\ <<>> \in AText
        BY <1>3, LineOf, NLType
      <4>2. UpTo(input[lr]) = input[lr]
        BY <4>1, UpToNewline
      <4> QED BY <3>1, <4>2
    <3>3. SubSeq(input, 1, lr) = Append(SubSeq(input, 1, lr - 1), input[lr])
      <4> DEFINE k == lr - 1
      <4>1. k \in 0..Len(input) /\ k < Len(input) /\ k + 1 = lr
        BY <1>1, <1>3
      <4> HIDE DEF k
      <4>2. SubSeq(input, 1, k + 1) = Append(SubSeq(input, 1, k), input[k + 1])
        BY <1>4, <4>1, NextLineOf
      <4> QED BY <4>1, <4>2 DEF k
    <3>4. Single(lr)'
      BY <2>1, <2>3, <3>1, <3>2, <3>3 DEF Single
    <3> QED BY <1>1, <2>1, <2>2, <3>4 DEF PairsInv, PairsRun
  <2>5. CASE Double(lr - 2)
    <3>1. lr >= 2 /\ pat = input[lr - 1] \o <<NL>> \o input[lr] /\ Lines = SubSeq(input, 1, lr - 2)
      BY <2>5 DEF Double
    <3>2. UpTo(pat) = input[lr - 1]
      <4>1. lr - 1 \in 1..Len(input)
        BY <1>3, <3>1
      <4>2. input[lr - 1] \in Seq(Letters) /\ input[lr] \in AText
        BY <1>3, <4>1, LineOf
      <4>3. UpTo(input[lr - 1] \o <<NL>> \o input[lr]) = input[lr - 1]
        BY <4>2, UpToNewline
      <4> QED BY <3>1, <4>3
    <3>3. SubSeq(input, 1, lr - 1) = Append(SubSeq(input, 1, lr - 2), input[lr - 1])
      <4> DEFINE k == lr - 2
      <4>1. k \in 0..Len(input) /\ k < Len(input) /\ k + 1 = lr - 1
        BY <1>3, <3>1
      <4> HIDE DEF k
      <4>2. SubSeq(input, 1, k + 1) = Append(SubSeq(input, 1, k), input[k + 1])
        BY <1>4, <4>1, NextLineOf
      <4> QED BY <4>1, <4>2 DEF k
    <3>4. Double(lr - 1)'
      BY <2>1, <2>3, <3>1, <3>2, <3>3 DEF Double
    <3> QED BY <1>1, <2>1, <2>2, <3>4 DEF PairsInv, PairsRun
  <2> QED BY <1>1, <1>7, <2>4, <2>5
<1>8. CASE pc.at = 3 /\ DeleteFirst
  <2>1. /\ lr' = lr /\ input' = input /\ out' = out
        /\ Matches(NL, pat) => /\ pat' = SubSeq(pat, Len(UpTo(pat)) + 2, Len(pat))
                               /\ pc' = FirstOf(pc.in)
                               /\ lastLine' = [lastLine EXCEPT ![pc.in] = (lr = Len(input))]
        /\ ~Matches(NL, pat) => pc'.flow = "delete"
    BY <1>8, DeleteFirstTypes DEF StaysAtLine, Stays, KeepsOutput
  <2>2. CASE Single(lr)
    <3>1. lr = Len(input) /\ pat = input[lr] /\ Lines = SubSeq(input, 1, lr)
      BY <2>2 DEF Single
    <3>2. ~Matches(NL, pat)
      BY <1>3, <3>1, LineOf, NoNewline
    <3>3. Lines' = SubSeq(input', 1, lr') /\ lr' = Len(input')
      BY <2>1, <3>1 DEF Lines
    <3> QED BY <2>1, <3>2, <3>3 DEF PairsInv
  <2>3. CASE Double(lr - 1)
    <3>1. lr >= 2 /\ pat = input[lr - 1] \o <<NL>> \o input[lr] /\ Lines = SubSeq(input, 1, lr - 1)
      BY <2>3 DEF Double
    <3>2. Matches(NL, pat) /\ SubSeq(pat, Len(UpTo(pat)) + 2, Len(pat)) = input[lr]
      <4>1. lr - 1 \in 1..Len(input)
        BY <1>3, <3>1
      <4>2. input[lr - 1] \in Seq(Letters) /\ input[lr] \in AText
        BY <1>3, <4>1, LineOf
      <4> DEFINE z == input[lr - 1] \o <<NL>> \o input[lr]
      <4>3. Matches(NL, z) /\ SubSeq(z, Len(UpTo(z)) + 2, Len(z)) = input[lr]
        BY <4>2, UpToNewline
      <4> QED BY <3>1, <4>3
    <3>3. pc'.flow = "run" /\ pc'.at = 1 /\ pc'.in = 0
      BY <1>1, <1>2, <2>1, <3>2 DEF AtCmd
    <3>4. lastLine'[0] = (lr' = Len(input'))
      BY <1>1, <1>2, <2>1, <3>2
    <3>5. pat' = input'[lr'] /\ Lines' = SubSeq(input', 1, lr' - 1) /\ lr' >= 1
      BY <1>1, <2>1, <3>1, <3>2 DEF Lines
    <3>6. PairsRun'
      BY <3>3, <3>4, <3>5 DEF PairsRun
    <3> QED BY <3>3, <3>6 DEF PairsInv
  <2> QED BY <1>1, <1>8, <2>2, <2>3
<1> QED BY <1>5, <1>6, <1>7, <1>8, PairsRuns

LEMMA PairsStep ==
    ASSUME SedTypes, PairsInv, NoAppends, [SedNext]_sed
    PROVE  PairsInv'
<1>1. prog' = prog /\ quiet' = quiet /\ input' = input
  BY ConstStep
<1>2. IsPairs' <=> IsPairs
  BY <1>1 DEF IsPairs, OneAddress, Scripts
<1> SUFFICES ASSUME IsPairs PROVE PairsInv'
  BY <1>2 DEF PairsInv
<1>3. CASE BeginCycle
  BY <1>3, PairsBegin
<1>4. CASE EndCycle
  BY <1>4, PairsEnd
<1>5. CASE EndOfInput
  <2>1. pc'.flow = "done" /\ out' = out /\ lr' = lr /\ pc.flow = "line" /\ lr = Len(input)
    BY <1>5, EndOfInputTypes DEF EndOfInput, output, Line
  <2>2. Lines' = SubSeq(input', 1, lr') /\ lr' = Len(input')
    BY <1>1, <2>1 DEF PairsInv, Lines
  <2> QED BY <2>1, <2>2 DEF PairsInv
<1>6. CASE UNCHANGED sed
  <2>1. pc' = pc /\ out' = out /\ lr' = lr /\ pat' = pat /\ lastLine' = lastLine
    BY <1>6, StutterTypes DEF KeepsText, KeepsOutput
  <2>2. Lines' = Lines
    BY <2>1 DEF Lines
  <2>3. PairsRun' <=> PairsRun
    BY <1>1, <2>1, <2>2 DEF PairsRun, Single, Double
  <2> QED BY <1>1, <2>1, <2>2, <2>3 DEF PairsInv
<1>7. CASE SedNext /\ pc.flow = "run"
  BY <1>7, PairsLoop
<1>8. pc.flow = "run" \/ BeginCycle \/ EndOfInput \/ EndCycle \/ UNCHANGED sed
  BY StepKinds
<1> QED BY <1>3, <1>4, <1>5, <1>6, <1>7, <1>8

-----------------------------------------------------------------------------
(* SedRight.                                                                 *)

LEMMA SedInvInit ==
    ASSUME NEW programs \in SUBSET SedScripts, NEW inputs \in SUBSET SedInputs,
           SedInit(programs, inputs)
    PROVE  SedInv
<1>1. /\ prog \in SedScripts /\ input \in SedInputs /\ quiet \in BOOLEAN /\ lr = 0 /\ lineNum = 0
      /\ pat = <<>> /\ hold = <<>> /\ pc = Line /\ lastLine = [l \in 0..Len(prog) |-> FALSE]
      /\ appendText = <<>> /\ rangeActive = {} /\ cycles = [last |-> 0, prev |-> 0] /\ out = <<>>
      /\ lastOut = [line |-> 0, append |-> FALSE] /\ picked = {} /\ queued = 0
  BY DEF SedInit
<1>2. pc = Flow("line") /\ pc.flow = "line"
  BY <1>1 DEF Line, Flow
<1>3. SedTypes
  <2>1. PcType
    BY <1>2 DEF PcType
  <2>2. Len(input) \in Nat /\ 0 \in 0..Len(input)
    BY <1>1 DEF SedInputs
  <2>3. <<>> \in AText /\ <<>> \in Seq(AText) /\ <<>> \in Seq(Written)
    BY NLType
  <2>4. lastLine \in [0..Len(prog) -> BOOLEAN] /\ lastOut \in [line : Nat, append : BOOLEAN]
    BY <1>1
  <2> QED BY <1>1, <2>1, <2>2, <2>3, <2>4 DEF SedTypes
<1>4. Texts("print") = <<>> /\ Joined(<<>>) = <<>> /\ Read(0) = <<>> /\ Back(0) = <<>>
  BY <1>1, <1>3, TextsNow, NoTexts, JoinedEmpty, ReadNone, BackNone
<1>5. KeptInv
  <2>1. AllPrinted
    BY <1>1, <1>4 DEF AllPrinted
  <2> QED BY <1>2, <2>1 DEF KeptInv
<1>6. AppendInv
  <2>1. {k \in DOMAIN out : out[k].by = "a"} = {}
    BY <1>1
  <2>2. CountOf(out, "a") = 0 /\ Len(appendText) = 0
    BY <1>1, <2>1, FS_EmptySet DEF CountOf
  <2> QED BY <1>1, <1>2, <2>2 DEF AppendInv
<1>7. RangeInv
  <2>1. \A i \in 1..Len(prog) : NumberedRange(prog[i]) => RangeOk(i, rangeActive, lineNum, picked)
    <3> SUFFICES ASSUME NEW i \in 1..Len(prog), NumberedRange(prog[i])
                 PROVE  RangeOk(i, rangeActive, lineNum, picked)
      OBVIOUS
    <3>1. prog[i].a1.n \in Nat /\ prog[i].a1.n > 0
      BY <1>3, RangeNumbers
    <3>2. ~(lineNum >= prog[i].a1.n) /\ i \notin rangeActive
      BY <1>1, <3>1
    <3> QED BY <3>2 DEF RangeOk
  <2>2. DOMAIN prog = 1..Len(prog)
    BY <1>3, ProgFacts
  <2> QED BY <1>1, <2>1, <2>2 DEF RangeInv, BehindInv
<1>8. NewlineInv /\ NoAppends
  BY <1>1, <1>2 DEF NewlineInv, NoAppends
<1>9. TacInv
  <2>1. Text("print") = Back(lr) /\ hold = Back(lr) /\ Nothing
    BY <1>1, <1>4 DEF Text, Nothing
  <2>2. lr < Len(input) \/ lr = Len(input)
    BY <1>1, <1>3, TypesNow
  <2> QED BY <1>2, <2>1, <2>2 DEF TacInv
<1>10. PairsInv
  <2>1. Lines = <<>>
    BY <1>1 DEF Lines
  <2>2. SubSeq(input, 1, lr) = <<>>
    BY <1>1, SubSeqEmpty
  <2> QED BY <1>1, <1>2, <2>1, <2>2 DEF PairsInv
<1> QED BY <1>3, <1>5, <1>6, <1>7, <1>8, <1>9, <1>10 DEF SedInv

LEMMA SedInvStep ==
    ASSUME SedInv, [SedNext]_sed
    PROVE  SedInv'
BY TypesKept, KeptStep, AppendStep, RangeStep, NewlineStep, NoAppendsStep, TacStep, PairsStep DEF SedInv

LEMMA AllLines ==
    ASSUME SedTypes
    PROVE  SubSeq(input, 1, Len(input)) = input
<1>1. input \in Seq(Seq(Letters)) /\ Len(input) \in Nat
  BY TypesNow DEF SedInputs
<1>2. Len(input) \in 0..Len(input)
  BY <1>1
<1>3. /\ SubSeq(input, 1, Len(input)) \in Seq(Seq(Letters))
      /\ Len(SubSeq(input, 1, Len(input))) = Len(input)
      /\ \A i \in 1..Len(input) : SubSeq(input, 1, Len(input))[i] = input[i]
  BY <1>1, <1>2, FirstLines
<1> QED BY <1>1, <1>3, SeqEqual

LEMMA SedInvRight ==
    ASSUME SedInv
    PROVE  SedRight
<1>0. /\ SedTypes /\ KeptInv /\ AppendInv /\ RangeInv /\ NewlineInv /\ TacInv /\ PairsInv
      /\ pc = Line => pc.flow = "line"
      /\ pc = Done => pc.flow = "done"
  BY DEF SedInv, Line, Done
<1>1. LinesKept
  <2> SUFFICES ASSUME pc = Done, ~quiet, Commands \subseteq OnlyAdds PROVE Text("print") = Joined(input)
    BY Zenon DEF LinesKept, OnlyAdds
  <2>1. AllPrinted /\ lr = Len(input)
    BY <1>0 DEF KeptInv
  <2> QED BY <1>0, <2>1, AllLines DEF AllPrinted, Read, Text
<1>2. AppendsWritten
  <2> SUFFICES ASSUME pc \in {Line, Done}, Commands \intersect {"Q", "N"} = {}
               PROVE  CountOf(out, "a") = queued
    BY DEF AppendsWritten, CountOf
  <2>1. CountOf(out, "a") + Len(appendText) = queued /\ appendText = <<>>
    BY <1>0 DEF AppendInv
  <2>2. CountOf(out, "a") \in Nat
    <3>1. out \in Seq(Written) /\ PrintText \in Written
      BY <1>0, TypesNow, CycleEndType
    <3> QED BY <3>1, CountAppend
  <2> QED BY <2>1, <2>2
<1>3. RangesEnd
  <2> SUFFICES ASSUME OneByOne, NEW p \in picked
               PROVE  LET c == prog[p.cmd]  last == IF c.a2.n < c.a1.n THEN c.a1.n ELSE c.a2.n IN
                      /\ p.line \in c.a1.n..last => p.takes
                      /\ p.line < c.a1.n => ~p.takes
                      /\ p.line > last /\ p.takes /\ Commands \intersect {"D", "b", "t", "T"} = {} =>
                           ~\E q \in picked : q.cmd = p.cmd /\ q.line \in last..(p.line - 1)
    BY DEF RangesEnd, OneByOne
  <2>1. PickedRight(p, picked)
    BY <1>0, RangeNow
  <2> QED BY <2>1 DEF PickedRight, LastOf, GoesBack
<1>4. FinalNewline
  <2> SUFFICES ASSUME pc = Done, out # <<>>,
                      Commands \intersect {"q", "n", "N", "P", "D", "i", "c", "=", "l", "r"} = {}
               PROVE  StripsNewline <=> out[Len(out)].by \in {"print", "p"} /\ out[Len(out)].line \in noNL
    BY DEF FinalNewline
  <2>1. /\ out[Len(out)].by = "a" <=> lastOut.append
        /\ ~lastOut.append => out[Len(out)].by \in {"print", "p"} /\ out[Len(out)].line = lastOut.line
    BY <1>0 DEF NewlineInv
  <2> QED BY <2>1 DEF StripsNewline
<1>5. WellKnown
  <2>1. ASSUME pc = Done, OneAddress, Scripts = Tac, prog[1].a1.n = 1, ~quiet
        PROVE  Text("print") = Joined(Reversed(input))
    <3>1. IsTac
      BY <2>1 DEF IsTac
    <3>2. lr = Len(input) /\ Text("print") = Back(lr)
      BY <1>0, <2>1, <3>1 DEF TacInv
    <3> QED BY <1>0, <3>2, AllLines DEF Back
  <2>2. ASSUME pc = Done, OneAddress, Scripts = Pairs
        PROVE  Joined([k \in DOMAIN out |-> out[k].text]) = Joined(input)
    <3>1. IsPairs
      BY <2>2 DEF IsPairs
    <3>2. lr = Len(input) /\ Lines = SubSeq(input, 1, lr)
      BY <1>0, <2>2, <3>1 DEF PairsInv
    <3>3. Joined(Lines) = Joined(input)
      BY <1>0, <3>2, AllLines
    <3> QED BY <3>3 DEF Lines
  <2> QED BY <2>1, <2>2 DEF WellKnown
<1> QED BY <1>1, <1>2, <1>3, <1>4, <1>5 DEF SedRight

\* sed, for every script that can be parsed and for every input: a script that
\* only adds and reads ahead prints each line once and in order; the texts of a
\* are all written by the end of the cycle; a numbered range takes its lines and
\* no line before them; the last newline is left out when it was missing; and
\* 1!G;h;$!d and $!N;printed;D do what they are known for.  (process, execCmds, matchAddr)
THEOREM SedHolds ==
    ASSUME NEW programs \in SUBSET SedScripts, NEW inputs \in SUBSET SedInputs
    PROVE  SedInit(programs, inputs) /\ [][SedNext]_sed => []SedRight
<1>1. SedInit(programs, inputs) => SedInv
  BY SedInvInit
<1>2. SedInv /\ [SedNext]_sed => SedInv'
  BY SedInvStep
<1>3. SedInv => SedRight
  BY SedInvRight
<1> QED BY <1>1, <1>2, <1>3, PTL

=============================================================================
