--------------------------- MODULE AshControl_proofs ---------------------------
(***************************************************************************)
(* The jumps of AshControl, for any nesting of calls, any argument of      *)
(* break and continue, and any statuses.                                   *)
(***************************************************************************)
EXTENDS AshControl, FiniteSetTheorems, WellFoundedInduction, TLAPS

-----------------------------------------------------------------------------
(* Finite sets of positions.                                                *)

\* A set of numbers up to n that is not empty has a largest one.
LEMMA LargestExists ==
    ASSUME NEW n \in Nat, NEW S \in SUBSET (1..n), S # {}
    PROVE  \E x \in S : \A y \in S : y <= x
<1> DEFINE T == {n - x : x \in S}
<1>0. \A x \in S : x \in Nat /\ n - x \in Nat
  OBVIOUS
<1>1. T \subseteq Nat /\ T # {}
  BY <1>0
<1>2. PICK t \in T : \A y \in T : ~(<<y, t>> \in OpToRel(<, Nat))
  BY <1>1, WFMin, NatLessThanWellFounded
<1>3. PICK x \in S : t = n - x
  OBVIOUS
<1>4. ASSUME NEW y \in S PROVE y <= x
  <2>1. n - y \in T /\ n - y \in Nat
    BY <1>1
  <2>2. ~(n - y < t)
    BY <1>1, <1>2, <2>1 DEF OpToRel
  <2> QED BY <1>0, <1>3, <2>2
<1> QED BY <1>3, <1>4

\* Those of a set of positions that are at least i.
From(S, i) == {x \in S : x >= i}

LEMMA FromNext ==
    ASSUME NEW S \in SUBSET Int, NEW i \in Int
    PROVE  /\ i \notin From(S, i + 1)
           /\ From(S, i) = IF i \in S THEN From(S, i + 1) \cup {i} ELSE From(S, i + 1)
<1>1. i \notin From(S, i + 1)
  BY DEF From
<1>2. CASE i \in S
  <2>1. \A x \in S : x >= i <=> x >= i + 1 \/ x = i
    OBVIOUS
  <2> QED BY <1>1, <1>2, <2>1 DEF From
<1>3. CASE i \notin S
  <2>1. \A x \in S : x >= i <=> x >= i + 1
    BY <1>3
  <2> QED BY <1>1, <1>3, <2>1 DEF From
<1> QED BY <1>2, <1>3

LEMMA FromEnds ==
    ASSUME NEW n \in Int, NEW S \in SUBSET Int, \A x \in S : 1 <= x /\ x <= n
    PROVE  From(S, 1) = S /\ From(S, n + 1) = {}
<1>1. \A x \in S : x >= 1 /\ ~(x >= n + 1)
  OBVIOUS
<1> QED BY <1>1 DEF From

LEMMA PositionsFinite ==
    ASSUME NEW n \in Nat, NEW S \in SUBSET (1..n)
    PROVE  /\ IsFiniteSet(S) /\ Cardinality(S) \in Nat /\ Cardinality(S) <= n
           /\ S \in SUBSET Int /\ \A x \in S : 1 <= x /\ x <= n
<1>1. IsFiniteSet(1..n) /\ Cardinality(1..n) = n
  BY FS_Interval
<1>2. IsFiniteSet(S) /\ Cardinality(S) <= n /\ Cardinality(S) \in Nat
  BY <1>1, FS_Subset, FS_CardinalityType
<1>3. S \in SUBSET Int /\ \A x \in S : 1 <= x /\ x <= n
  OBVIOUS
<1> QED BY <1>2, <1>3

\* How many there are from a position on.
LEMMA FromCount ==
    ASSUME NEW n \in Nat, NEW S \in SUBSET (1..n), NEW i \in Int
    PROVE  /\ IsFiniteSet(From(S, i))
           /\ Cardinality(From(S, i)) \in Nat /\ Cardinality(From(S, i)) <= Cardinality(S)
           /\ Cardinality(From(S, i)) = Cardinality(From(S, i + 1)) + (IF i \in S THEN 1 ELSE 0)
<1>1. IsFiniteSet(S) /\ S \in SUBSET Int
  BY PositionsFinite
<1>2. \A T \in SUBSET S : /\ IsFiniteSet(T) /\ Cardinality(T) <= Cardinality(S)
                          /\ Cardinality(T) \in Nat
  BY <1>1, FS_Subset, FS_CardinalityType
<1>3. From(S, i) \in SUBSET S /\ From(S, i + 1) \in SUBSET S
  BY DEF From
<1>4. /\ i \notin From(S, i + 1)
      /\ From(S, i) = IF i \in S THEN From(S, i + 1) \cup {i} ELSE From(S, i + 1)
  BY <1>1, FromNext
<1>5. Cardinality(From(S, i + 1) \cup {i}) = Cardinality(From(S, i + 1)) + 1
  BY <1>2, <1>3, <1>4, FS_AddElement
<1> QED BY <1>2, <1>3, <1>4, <1>5

\* The loop that break 2 is for exists: of a set of positions there is, for
\* each count up to its size, one from which on there are so many.
LEMMA TargetExists ==
    ASSUME NEW n \in Nat, NEW S \in SUBSET (1..n), NEW k \in 1..Cardinality(S)
    PROVE  \E i \in S : Cardinality(From(S, i)) = k
<1> DEFINE E == {i \in 1..n : Cardinality(From(S, i)) >= k}
<1>1. /\ Cardinality(S) \in Nat /\ Cardinality(S) <= n
      /\ From(S, 1) = S /\ From(S, n + 1) = {}
  BY PositionsFinite, FromEnds
<1>2. 1 \in E
  BY <1>1
<1>3. PICK i \in E : \A y \in E : y <= i
  <2>1. E \in SUBSET (1..n)
    OBVIOUS
  <2> QED BY <1>2, <2>1, LargestExists
<1>4. i \in 1..n /\ i \in Int /\ i + 1 \in Int /\ i + 1 \notin E /\ Cardinality(From(S, i)) >= k
  BY <1>3
<1>5. /\ Cardinality(From(S, i)) \in Nat /\ Cardinality(From(S, i + 1)) \in Nat
      /\ Cardinality(From(S, i)) = Cardinality(From(S, i + 1)) + (IF i \in S THEN 1 ELSE 0)
  BY <1>4, FromCount
<1>6. Cardinality(From(S, i + 1)) < k
  <2>1. CASE i = n
    BY <1>1, <2>1, FS_EmptySet
  <2>2. CASE i # n
    BY <1>4, <1>5, <2>2
  <2> QED BY <2>1, <2>2
<1> QED BY <1>1, <1>4, <1>5, <1>6

-----------------------------------------------------------------------------
(* Stacks of calls.                                                         *)

Phases == {"body", "cond", "elif", "next"}

FunctionSaves ==
    [returnFlag : BOOLEAN, returnCode : Codes, exitCode : Codes, home : 0..MaxDepth]
SubshellSaves ==
    [breakCount : 0..MaxJump, continueCount : 0..MaxJump,
     returnFlag : BOOLEAN, returnCode : Codes, exitFlag : BOOLEAN, exitCode : Codes,
     loopDepth : 0..MaxDepth, errexit : BOOLEAN,
     inSubshell : BOOLEAN, jump : 0..MaxDepth, home : 0..MaxDepth]
Saves == {NoSave} \union Codes \union FunctionSaves \union SubshellSaves

Frames == [kind : Kinds, phase : Phases, status : Codes, saved : Saves]

\* Since for the first n calls of a stack.
SinceAt(s, n, K) == {i \in 1..n : s[i].kind \in K /\ \A j \in i + 1..n : s[j].kind # "subshell"}
LoopsAt(s, n) == Cardinality(SinceAt(s, n, Loops))
SubshellAt(s, n) == \E i \in 1..n : s[i].kind = "subshell"

LEMMA SinceAgree ==
    ASSUME NEW n \in Nat, NEW s, NEW t, NEW K, \A i \in 1..n : t[i].kind = s[i].kind
    PROVE  SinceAt(t, n, K) = SinceAt(s, n, K)
<1>1. \A i \in 1..n : \A j \in i + 1..n : j \in 1..n
  OBVIOUS
<1> QED BY <1>1 DEF SinceAt

\* One more call: a subshell hides the calls around it.
LEMMA SinceGrow ==
    ASSUME NEW n \in Nat, NEW s, NEW K
    PROVE  /\ SinceAt(s, n, K) \in SUBSET (1..n) /\ n + 1 \notin SinceAt(s, n, K)
           /\ s[n + 1].kind \notin {"subshell"} \union K =>
                SinceAt(s, n + 1, K) = SinceAt(s, n, K)
           /\ s[n + 1].kind \in K \ {"subshell"} =>
                SinceAt(s, n + 1, K) = SinceAt(s, n, K) \union {n + 1}
           /\ s[n + 1].kind = "subshell" /\ "subshell" \notin K => SinceAt(s, n + 1, K) = {}
<1>1. SinceAt(s, n, K) \in SUBSET (1..n) /\ n + 1 \notin SinceAt(s, n, K)
  BY DEF SinceAt
<1>2. n + 1 \in SinceAt(s, n + 1, K) <=> s[n + 1].kind \in K
  BY DEF SinceAt
<1>3. ASSUME NEW i \in 1..n
      PROVE  i \in SinceAt(s, n + 1, K) <=> i \in SinceAt(s, n, K) /\ s[n + 1].kind # "subshell"
  <2>1. i + 1..n + 1 = (i + 1..n) \union {n + 1} /\ i \in 1..n + 1
    OBVIOUS
  <2> QED BY <2>1 DEF SinceAt
<1>4. SinceAt(s, n + 1, K) \in SUBSET (1..n + 1) /\ 1..n + 1 = (1..n) \union {n + 1}
  BY DEF SinceAt
<1> QED BY <1>1, <1>2, <1>3, <1>4

LEMMA LoopsGrow ==
    ASSUME NEW n \in Nat, NEW s
    PROVE  /\ LoopsAt(s, n) \in Nat /\ LoopsAt(s, n) <= n
           /\ s[n + 1].kind = "subshell" => LoopsAt(s, n + 1) = 0
           /\ s[n + 1].kind \in Loops => LoopsAt(s, n + 1) = LoopsAt(s, n) + 1
           /\ s[n + 1].kind \notin {"subshell"} \union Loops => LoopsAt(s, n + 1) = LoopsAt(s, n)
<1> DEFINE S == SinceAt(s, n, Loops)
<1>0. "subshell" \notin Loops
  BY DEF Loops
<1>1. S \in SUBSET (1..n) /\ n + 1 \notin S
  BY SinceGrow
<1>2. IsFiniteSet(S) /\ Cardinality(S) \in Nat /\ Cardinality(S) <= n
  BY <1>1, PositionsFinite
<1>3. Cardinality(S \union {n + 1}) = Cardinality(S) + 1
  BY <1>1, <1>2, FS_AddElement
<1>4. ASSUME s[n + 1].kind = "subshell" PROVE LoopsAt(s, n + 1) = 0
  <2>1. SinceAt(s, n + 1, Loops) = {}
    BY <1>0, <1>4, SinceGrow
  <2> QED BY <2>1, FS_EmptySet DEF LoopsAt
<1>5. ASSUME s[n + 1].kind \in Loops PROVE LoopsAt(s, n + 1) = LoopsAt(s, n) + 1
  <2>1. s[n + 1].kind \in Loops \ {"subshell"}
    BY <1>0, <1>5
  <2>2. SinceAt(s, n + 1, Loops) = S \union {n + 1}
    BY <2>1, SinceGrow
  <2> QED BY <1>3, <2>2 DEF LoopsAt
<1>6. ASSUME s[n + 1].kind \notin {"subshell"} \union Loops
      PROVE  LoopsAt(s, n + 1) = LoopsAt(s, n)
  <2>1. SinceAt(s, n + 1, Loops) = S
    BY <1>6, SinceGrow
  <2> QED BY <2>1 DEF LoopsAt
<1> QED BY <1>2, <1>4, <1>5, <1>6 DEF LoopsAt

LEMMA SubshellGrow ==
    ASSUME NEW n \in Nat, NEW s
    PROVE  SubshellAt(s, n + 1) <=> SubshellAt(s, n) \/ s[n + 1].kind = "subshell"
<1>1. 1..n + 1 = (1..n) \union {n + 1}
  OBVIOUS
<1> QED BY <1>1 DEF SubshellAt

-----------------------------------------------------------------------------
(* loopDepth and inSubshell, and what subshells save of them.               *)

SavedFits(s, i) ==
    /\ s[i].kind = "function" => s[i].saved \in FunctionSaves
    /\ s[i].kind = "command" => s[i].saved \in Codes
    /\ s[i].kind = "subshell" =>
         /\ s[i].saved \in SubshellSaves
         /\ s[i].saved.loopDepth = LoopsAt(s, i - 1)
         /\ s[i].saved.inSubshell <=> SubshellAt(s, i - 1)

Nested(s, loops, sub) ==
    /\ loops = LoopsAt(s, Len(s)) /\ (sub <=> SubshellAt(s, Len(s)))
    /\ \A i \in 1..Len(s) : SavedFits(s, i)

\* Two stacks whose first n calls are the same, at different places perhaps.
SameCalls(s, t, n) == \A i \in 1..n : t[i].kind = s[i].kind /\ t[i].saved = s[i].saved

LEMMA SameFits ==
    ASSUME NEW n \in Nat, NEW s, NEW t, SameCalls(s, t, n)
    PROVE  /\ LoopsAt(t, n) = LoopsAt(s, n) /\ (SubshellAt(t, n) <=> SubshellAt(s, n))
           /\ \A i \in 1..n : SavedFits(t, i) <=> SavedFits(s, i)
<1>1. ASSUME NEW m \in 0..n
      PROVE  LoopsAt(t, m) = LoopsAt(s, m) /\ (SubshellAt(t, m) <=> SubshellAt(s, m))
  <2>1. m \in Nat /\ \A i \in 1..m : i \in 1..n /\ t[i].kind = s[i].kind
    BY DEF SameCalls
  <2>2. SinceAt(t, m, Loops) = SinceAt(s, m, Loops)
    BY <2>1, SinceAgree
  <2> QED BY <2>1, <2>2 DEF LoopsAt, SubshellAt
<1>2. ASSUME NEW i \in 1..n PROVE SavedFits(t, i) <=> SavedFits(s, i)
  <2>1. i - 1 \in 0..n
    OBVIOUS
  <2>2. /\ LoopsAt(t, i - 1) = LoopsAt(s, i - 1)
        /\ SubshellAt(t, i - 1) <=> SubshellAt(s, i - 1)
    BY <1>1, <2>1
  <2> QED BY <2>2 DEF SavedFits, SameCalls
<1>3. n \in 0..n
  OBVIOUS
<1> QED BY <1>1, <1>2, <1>3

\* A call goes on: its phase or its status changes.
LEMMA NestedSame ==
    ASSUME NEW s, NEW t, Len(s) \in Nat, Len(t) = Len(s), SameCalls(s, t, Len(s)),
           NEW loops, NEW sub, Nested(s, loops, sub)
    PROVE  Nested(t, loops, sub)
  BY SameFits DEF Nested

\* A call begins.
LEMMA NestedPush ==
    ASSUME NEW s \in Seq(Frames), NEW f \in Frames, NEW loops, NEW sub, Nested(s, loops, sub),
           f.kind = "function" => f.saved \in FunctionSaves,
           f.kind = "command" => f.saved \in Codes
    PROVE  /\ Append(s, f) \in Seq(Frames) /\ Len(Append(s, f)) = Len(s) + 1
           /\ SameCalls(s, Append(s, f), Len(s))
           /\ f.kind \notin Loops \union {"subshell"} => Nested(Append(s, f), loops, sub)
           /\ f.kind \in Loops => Nested(Append(s, f), loops + 1, sub)
           /\ /\ f.kind = "subshell" /\ f.saved \in SubshellSaves
              /\ f.saved.loopDepth = loops /\ f.saved.inSubshell = sub
              => Nested(Append(s, f), 0, TRUE)
<1> DEFINE t == Append(s, f)
           n == Len(s)
<1>1. /\ t \in Seq(Frames) /\ Len(t) = n + 1 /\ t[n + 1] = f /\ n \in Nat
      /\ \A i \in 1..n : t[i] = s[i]
  OBVIOUS
<1> HIDE DEF t, n
<1>2. SameCalls(s, t, n)
  BY <1>1 DEF SameCalls
<1>3. /\ LoopsAt(t, n) = loops /\ (SubshellAt(t, n) <=> sub)
      /\ \A i \in 1..n : SavedFits(t, i)
  BY <1>1, <1>2, SameFits DEF Nested, n
<1>4. /\ f.kind = "subshell" => LoopsAt(t, n + 1) = 0
      /\ f.kind \in Loops => LoopsAt(t, n + 1) = loops + 1
      /\ f.kind \notin Loops \union {"subshell"} => LoopsAt(t, n + 1) = loops
      /\ SubshellAt(t, n + 1) <=> sub \/ f.kind = "subshell"
  BY <1>1, <1>3, LoopsGrow, SubshellGrow
<1>5. SavedFits(t, n + 1) \/ f.kind = "subshell"
  BY <1>1 DEF SavedFits
<1>6. f.kind = "subshell" /\ f.saved \in SubshellSaves /\ f.saved.loopDepth = loops
        /\ f.saved.inSubshell = sub => SavedFits(t, n + 1)
  <2>1. n + 1 - 1 = n
    BY <1>1
  <2> QED BY <1>1, <1>3, <2>1 DEF SavedFits
<1>7. 1..Len(t) = (1..n) \union {n + 1} /\ "subshell" \notin Loops
  BY <1>1 DEF Loops
<1> QED BY <1>1, <1>2, <1>3, <1>4, <1>5, <1>6, <1>7 DEF Nested, t, n

\* The innermost call ends.
LEMMA NestedPop ==
    ASSUME NEW s \in Seq(Frames), s # <<>>, NEW loops, NEW sub, Nested(s, loops, sub)
    PROVE  LET t == SubSeq(s, 1, Len(s) - 1)
               f == s[Len(s)]
           IN  /\ t \in Seq(Frames) /\ Len(t) = Len(s) - 1
               /\ \A i \in 1..Len(s) - 1 : t[i] = s[i]
               /\ f \in Frames /\ SavedFits(s, Len(s))
               /\ f.kind \notin Loops \union {"subshell"} => Nested(t, loops, sub)
               /\ f.kind \in Loops => loops \in Nat \ {0} /\ Nested(t, loops - 1, sub)
               /\ f.kind = "subshell" => Nested(t, f.saved.loopDepth, f.saved.inSubshell)
<1> DEFINE t == SubSeq(s, 1, Len(s) - 1)
           f == s[Len(s)]
           n == Len(s) - 1
<1>1. /\ t \in Seq(Frames) /\ Len(t) = n /\ n \in Nat /\ Len(s) = n + 1
      /\ f \in Frames /\ \A i \in 1..n : t[i] = s[i]
  OBVIOUS
<1> HIDE DEF t, n
<1>2. SameCalls(s, t, n)
  BY <1>1 DEF SameCalls
<1>3. /\ LoopsAt(t, n) = LoopsAt(s, n) /\ (SubshellAt(t, n) <=> SubshellAt(s, n))
      /\ \A i \in 1..n : SavedFits(t, i)
  BY <1>1, <1>2, SameFits DEF Nested
<1>4. SavedFits(s, n + 1) /\ loops = LoopsAt(s, n + 1) /\ (sub <=> SubshellAt(s, n + 1))
  BY <1>1 DEF Nested
<1>5. /\ LoopsAt(s, n) \in Nat
      /\ f.kind \in Loops => loops = LoopsAt(s, n) + 1
      /\ f.kind \notin Loops \union {"subshell"} => loops = LoopsAt(s, n)
      /\ f.kind # "subshell" => (SubshellAt(s, n) <=> sub)
  BY <1>1, <1>4, LoopsGrow, SubshellGrow
<1>6. f.kind = "subshell" => /\ f.saved.loopDepth = LoopsAt(s, n)
                             /\ f.saved.inSubshell <=> SubshellAt(s, n)
  <2>1. n + 1 - 1 = n
    BY <1>1
  <2> QED BY <1>1, <1>4, <2>1 DEF SavedFits
<1>7. "subshell" \notin Loops
  BY DEF Loops
<1> QED BY <1>1, <1>3, <1>4, <1>5, <1>6, <1>7 DEF Nested, t, n

-----------------------------------------------------------------------------
(* The stack in every script.                                               *)

\* Calls that run a script after another one have room for it.
Room(s) == \A i \in 1..Len(s) : s[i].kind \in Loops \union {"if"} => i < MaxDepth

CallsOK(s, loops, sub) ==
    s \in Seq(Frames) /\ Len(s) <= MaxDepth /\ Room(s) /\ Nested(s, loops, sub)

\* What functions and subshells save when no jump is under way.
StraightFrame(f) ==
    /\ f.kind \in {"function", "subshell"} => ~f.saved.returnFlag
    /\ f.kind = "subshell" =>
         f.saved.breakCount = 0 /\ f.saved.continueCount = 0 /\ f.saved.jump = 0
StraightCalls(s) == \A i \in 1..Len(s) : StraightFrame(s[i])

\* The calls a jump may be for are the same.
SameAims(s, t) == \A K \in {Loops, Homes} : SinceAt(t, Len(t), K) = SinceAt(s, Len(s), K)

\* A call goes on.
LEMMA CallsSame ==
    ASSUME NEW s, NEW loops, NEW sub, CallsOK(s, loops, sub), s # <<>>,
           NEW f \in Frames, f.kind = s[Len(s)].kind, f.saved = s[Len(s)].saved
    PROVE  LET t == [s EXCEPT ![Len(s)] = f]
           IN  /\ CallsOK(t, loops, sub) /\ Len(t) = Len(s) /\ t[Len(t)] = f
               /\ SameAims(s, t) /\ (StraightCalls(s) => StraightCalls(t))
<1> DEFINE t == [s EXCEPT ![Len(s)] = f]
<1>1. /\ t \in Seq(Frames) /\ Len(t) = Len(s) /\ Len(s) \in Nat /\ t[Len(t)] = f
      /\ \A i \in 1..Len(s) : t[i] = IF i = Len(s) THEN f ELSE s[i]
  BY DEF CallsOK
<1> HIDE DEF t
<1>2. SameCalls(s, t, Len(s))
  BY <1>1 DEF SameCalls
<1>3. Nested(t, loops, sub)
  BY <1>1, <1>2, NestedSame DEF CallsOK
<1>4. Room(t)
  BY <1>1, <1>2 DEF Room, SameCalls, CallsOK
<1>5. SameAims(s, t)
  BY <1>1, <1>2, SinceAgree DEF SameAims, SameCalls
<1>6. StraightCalls(s) => StraightCalls(t)
  BY <1>1, <1>2 DEF StraightCalls, StraightFrame, SameCalls
<1> QED BY <1>1, <1>3, <1>4, <1>5, <1>6 DEF CallsOK, t

\* A call that is not for a jump begins.
LEMMA CallsPush ==
    ASSUME NEW s, NEW loops, NEW sub, CallsOK(s, loops, sub), Len(s) < MaxDepth, NEW f \in Frames,
           f.kind \in Loops \union {"if"} => Len(s) + 1 < MaxDepth,
           f.kind = "function" => f.saved \in FunctionSaves,
           f.kind = "command" => f.saved \in Codes
    PROVE  LET t == Append(s, f)
           IN  /\ t # <<>> /\ Len(t) = Len(s) + 1 /\ t[Len(t)] = f
               /\ f.kind \notin Loops \union {"subshell"} => CallsOK(t, loops, sub)
               /\ f.kind \in Loops => CallsOK(t, loops + 1, sub)
               /\ /\ f.kind = "subshell" /\ f.saved \in SubshellSaves
                  /\ f.saved.loopDepth = loops /\ f.saved.inSubshell = sub
                  => CallsOK(t, 0, TRUE)
               /\ f.kind \notin Loops \union Homes => SameAims(s, t)
               /\ StraightCalls(s) /\ StraightFrame(f) => StraightCalls(t)
<1> DEFINE t == Append(s, f)
<1>1. /\ t \in Seq(Frames) /\ Len(t) = Len(s) + 1 /\ Len(s) \in Nat /\ t[Len(t)] = f /\ t # <<>>
      /\ \A i \in 1..Len(s) : t[i] = s[i]
  BY DEF CallsOK
<1>2. /\ SameCalls(s, t, Len(s))
      /\ f.kind \notin Loops \union {"subshell"} => Nested(t, loops, sub)
      /\ f.kind \in Loops => Nested(t, loops + 1, sub)
      /\ /\ f.kind = "subshell" /\ f.saved \in SubshellSaves
         /\ f.saved.loopDepth = loops /\ f.saved.inSubshell = sub
         => Nested(t, 0, TRUE)
  BY NestedPush DEF CallsOK
<1> HIDE DEF t
<1>3. MaxDepth \in Nat /\ Len(t) <= MaxDepth
  BY <1>1, ControlAssumption DEF CallsOK
<1>4. \A i \in 1..Len(t) : i = Len(t) \/ i \in 1..Len(s)
  BY <1>1
<1>5. Room(t)
  BY <1>1, <1>3, <1>4 DEF Room, CallsOK
<1>6. f.kind \notin Loops \union Homes => SameAims(s, t)
  <2>1. ASSUME NEW K \in {Loops, Homes}, f.kind \notin Loops \union Homes
        PROVE  SinceAt(t, Len(t), K) = SinceAt(s, Len(s), K)
    <3>1. SinceAt(t, Len(s), K) = SinceAt(s, Len(s), K)
      BY <1>1, SinceAgree
    <3>2. t[Len(s) + 1].kind \notin {"subshell"} \union K
      BY <1>1, <2>1 DEF Homes
    <3> QED BY <1>1, <3>1, <3>2, SinceGrow
  <2> QED BY <2>1 DEF SameAims
<1>7. StraightCalls(s) /\ StraightFrame(f) => StraightCalls(t)
  BY <1>1, <1>4 DEF StraightCalls
<1> QED BY <1>1, <1>2, <1>3, <1>5, <1>6, <1>7 DEF CallsOK, t

LEMMA BelowFacts ==
    ASSUME NEW s \in Seq(Frames), s # <<>>
    PROVE  LET t == SubSeq(s, 1, Len(s) - 1)
               n == Len(s) - 1
           IN  /\ t \in Seq(Frames) /\ Len(t) = n /\ n \in Nat /\ Len(s) = n + 1
               /\ s[Len(s)] \in Frames /\ \A i \in 1..n : t[i] = s[i] /\ i \in 1..Len(s)
<1> DEFINE t == SubSeq(s, 1, Len(s) - 1)
           f == s[Len(s)]
           n == Len(s) - 1
<1>1. /\ t \in Seq(Frames) /\ Len(t) = n /\ n \in Nat /\ Len(s) = n + 1
      /\ f \in Frames /\ \A i \in 1..n : t[i] = s[i]
  <2>1. Len(s) \in Nat \ {0}
    OBVIOUS
  <2>2. n \in Nat /\ Len(s) = n + 1 /\ Len(s) \in 1..Len(s)
    BY <2>1
  <2>3. f \in Frames
    BY <2>2
  <2>4. t \in Seq(Frames) /\ Len(t) = n
    BY <2>2
  <2>5. \A i \in 1..n : t[i] = s[i]
    BY <2>2
  <2> QED BY <2>2, <2>3, <2>4, <2>5
<1>2. \A i \in 1..n : i \in 1..Len(s)
  BY <1>1
<1> QED BY <1>1, <1>2

\* A call ends.
LEMMA CallsPop ==
    ASSUME NEW s, NEW loops, NEW sub, CallsOK(s, loops, sub), s # <<>>
    PROVE  LET t == SubSeq(s, 1, Len(s) - 1)
               f == s[Len(s)]
           IN  /\ Len(t) = Len(s) - 1 /\ f \in Frames /\ SavedFits(s, Len(s))
               /\ f.kind \notin Loops \union {"subshell"} => CallsOK(t, loops, sub)
               /\ f.kind \in Loops => loops \in Nat \ {0} /\ CallsOK(t, loops - 1, sub)
               /\ f.kind = "subshell" => CallsOK(t, f.saved.loopDepth, f.saved.inSubshell)
               /\ f.kind \notin Loops \union {"subshell"} =>
                    SinceAt(t, Len(t), Loops) = SinceAt(s, Len(s), Loops)
               /\ f.kind \in Loops =>
                    /\ Len(s) \notin SinceAt(t, Len(t), Loops)
                    /\ SinceAt(s, Len(s), Loops) = SinceAt(t, Len(t), Loops) \union {Len(s)}
               /\ f.kind \notin Homes =>
                    SinceAt(t, Len(t), Homes) = SinceAt(s, Len(s), Homes)
               /\ StraightCalls(s) => StraightCalls(t) /\ StraightFrame(f)
<1> DEFINE t == SubSeq(s, 1, Len(s) - 1)
           f == s[Len(s)]
           n == Len(s) - 1
<1>1. /\ t \in Seq(Frames) /\ Len(t) = n /\ n \in Nat /\ Len(s) = n + 1 /\ f \in Frames
      /\ \A i \in 1..n : t[i] = s[i] /\ i \in 1..Len(s)
  <2>1. s \in Seq(Frames) /\ Len(s) \in Nat \ {0} /\ Len(s) \in 1..Len(s)
    BY DEF CallsOK
  <2> QED BY <2>1, BelowFacts
<1>2. /\ SavedFits(s, Len(s))
      /\ f.kind \notin Loops \union {"subshell"} => Nested(t, loops, sub)
      /\ f.kind \in Loops => loops \in Nat \ {0} /\ Nested(t, loops - 1, sub)
      /\ f.kind = "subshell" => Nested(t, f.saved.loopDepth, f.saved.inSubshell)
  BY NestedPop DEF CallsOK
<1> HIDE DEF t, n
<1>3. Len(t) <= MaxDepth /\ MaxDepth \in Nat
  BY <1>1, ControlAssumption DEF CallsOK
<1>4. Room(t)
  BY <1>1 DEF Room, CallsOK
<1>5. \A K : SinceAt(t, n, K) = SinceAt(s, n, K)
  BY <1>1, SinceAgree
<1>6. /\ "subshell" \notin Loops /\ "subshell" \in Homes
      /\ f.kind \in Loops => f.kind \in Loops \ {"subshell"}
      /\ f.kind \notin Homes => f.kind \notin {"subshell"} \union Homes
  BY DEF Loops, Homes
<1>7. f.kind \notin Loops \union {"subshell"} =>
        SinceAt(t, Len(t), Loops) = SinceAt(s, Len(s), Loops)
  <2>1. ASSUME f.kind \notin Loops \union {"subshell"} PROVE s[n + 1].kind \notin {"subshell"} \union Loops
    BY <1>1, <2>1
  <2> QED BY <1>1, <1>5, <2>1, SinceGrow
<1>8. f.kind \in Loops =>
        /\ Len(s) \notin SinceAt(t, Len(t), Loops)
        /\ SinceAt(s, Len(s), Loops) = SinceAt(t, Len(t), Loops) \union {Len(s)}
  <2>1. ASSUME f.kind \in Loops PROVE s[n + 1].kind \in Loops \ {"subshell"}
    BY <1>1, <1>6, <2>1
  <2>2. SinceAt(t, n, Loops) = SinceAt(s, n, Loops)
    BY <1>5
  <2>3. n + 1 \notin SinceAt(s, n, Loops)
    BY <1>1, SinceGrow
  <2> QED BY <1>1, <2>1, <2>2, <2>3, SinceGrow
<1>9. f.kind \notin Homes => SinceAt(t, Len(t), Homes) = SinceAt(s, Len(s), Homes)
  BY <1>1, <1>5, <1>6, SinceGrow
<1>10. StraightCalls(s) => StraightCalls(t) /\ StraightFrame(f)
  <2>1. Len(s) \in 1..Len(s)
    BY <1>1
  <2> QED BY <1>1, <2>1 DEF StraightCalls
<1> QED BY <1>1, <1>2, <1>3, <1>4, <1>7, <1>8, <1>9, <1>10 DEF CallsOK, t, n

-----------------------------------------------------------------------------
(* The invariant.                                                           *)

Rets == [done : BOOLEAN, code : Codes, exit : BOOLEAN]

FlagsOK ==
    /\ breakCount \in 0..MaxJump /\ continueCount \in 0..MaxJump
    /\ returnFlag \in BOOLEAN /\ returnCode \in Codes
    /\ exitFlag \in BOOLEAN /\ exitCode \in Codes
    /\ errexit \in BOOLEAN /\ inSubshell \in BOOLEAN /\ ret \in Rets
    /\ jump \in 0..MaxDepth /\ home \in 0..MaxDepth

StackOK == CallsOK(stack, loopDepth, inSubshell)

\* No command was run during a jump: at most one of break, continue, return
\* and exit is under way, it knows where it ends, and the one command a jump
\* comes back to is a later part of a list or the script after a condition.
Straight ==
    /\ Jumping => /\ jump \in Since(Loops)
                  /\ breakCount + continueCount = Cardinality(From(Since(Loops), jump))
                  /\ breakCount = 0 \/ continueCount = 0
                  /\ ~returnFlag /\ ~exitFlag
                  /\ ret = NoRet => Top.kind \in {"script", "list"}
    /\ ~Jumping => jump = 0
    /\ returnFlag => home = Innermost(Homes)
    /\ StraightCalls(stack)

CInv == FlagsOK /\ StackOK /\ astray \in BOOLEAN /\ (astray \/ Straight)

LEMMA Constants ==
    /\ MaxDepth \in Nat /\ MaxDepth # 0 /\ MaxJump \in Nat /\ MaxJump # 0
    /\ Codes \subseteq Nat /\ ExitSuccess \in Codes /\ ExitFailure \in Codes
    /\ NoRet \in Rets /\ 0 \in 0..MaxJump /\ 0 \in 0..MaxDepth
<1>1. MaxDepth \in Nat /\ MaxDepth # 0 /\ MaxJump \in Nat /\ MaxJump # 0
  BY ControlAssumption
<1>2. Codes \subseteq Nat /\ ExitSuccess \in Codes /\ ExitFailure \in Codes
  BY ControlAssumption DEF ExitSuccess, ExitFailure
<1>3. NoRet \in Rets
  BY <1>2 DEF NoRet, Rets
<1> QED BY <1>1, <1>2, <1>3

LEMMA NewFrames ==
    ASSUME NEW kind \in Kinds, NEW phase \in Phases, NEW saved \in Saves
    PROVE  /\ Frame(kind, phase, saved) \in Frames
           /\ Frame(kind, phase, saved).kind = kind /\ Frame(kind, phase, saved).saved = saved
  BY Constants DEF Frame, Frames

LEMMA ScriptFrame ==
    Script \in Frames /\ Script.kind = "script" /\ StraightFrame(Script) /\ NoSave \in Saves
<1>1. NoSave \in Saves /\ "script" \in Kinds /\ "body" \in Phases
  BY DEF Saves, Kinds, Phases
<1>2. Script \in Frames /\ Script.kind = "script"
  BY <1>1, NewFrames DEF Script
<1> QED BY <1>1, <1>2 DEF StraightFrame

LEMMA CallsInit == CallsOK(<<Script>>, 0, FALSE) /\ StraightCalls(<<Script>>)
<1>1. Nested(<<>>, 0, FALSE)
  <2>1. SinceAt(<<>>, 0, Loops) = {}
    BY DEF SinceAt
  <2> QED BY <2>1, FS_EmptySet DEF Nested, LoopsAt, SubshellAt
<1>2. CallsOK(<<>>, 0, FALSE) /\ Len(<<>>) < MaxDepth /\ StraightCalls(<<>>)
  <2>1. <<>> \in Seq(Frames) /\ Len(<<>>) = 0 /\ 1..0 = {}
    OBVIOUS
  <2>2. Len(<<>>) <= MaxDepth /\ Len(<<>>) < MaxDepth
    BY <2>1, Constants
  <2>3. Room(<<>>) /\ StraightCalls(<<>>)
    BY <2>1 DEF Room, StraightCalls
  <2> QED BY <1>1, <2>1, <2>2, <2>3 DEF CallsOK
<1>3. Append(<<>>, Script) = <<Script>>
  OBVIOUS
<1>4. "script" \notin Loops \union {"subshell", "function", "command", "if"}
  BY DEF Loops
<1> QED BY <1>2, <1>3, <1>4, ScriptFrame, CallsPush

LEMMA InitInv == Init => CInv
<1> SUFFICES ASSUME Init PROVE CInv
  OBVIOUS
<1>1. StackOK /\ StraightCalls(stack)
  BY CallsInit DEF Init, StackOK
<1>2. FlagsOK /\ astray \in BOOLEAN
  BY Constants DEF Init, FlagsOK
<1>3. Straight
  <2>1. ~Jumping /\ jump = 0 /\ ~returnFlag
    BY DEF Init, Jumping
  <2> QED BY <1>1, <2>1 DEF Straight
<1> QED BY <1>1, <1>2, <1>3 DEF CInv

LEMMA SinceIs ==
    /\ \A K : Since(K) = SinceAt(stack, Len(stack), K)
    /\ \A K : Since(K)' = SinceAt(stack', Len(stack'), K)
  BY DEF Since, SinceAt, Depth

\* The innermost call.
LEMMA TopFacts ==
    ASSUME StackOK, stack # <<>>
    PROVE  /\ Depth \in Nat \ {0} /\ Depth \in 1..Depth /\ Depth <= MaxDepth
           /\ Top \in Frames /\ Top.kind \in Kinds /\ Top.phase \in Phases /\ Top.status \in Codes
           /\ Top.kind \in Loops \union {"if"} => Depth < MaxDepth
           /\ Top.kind = "function" => Top.saved \in FunctionSaves
           /\ Top.kind = "command" => Top.saved \in Codes
           /\ Top.kind = "subshell" => Top.saved \in SubshellSaves
<1>1. Depth \in Nat \ {0} /\ Depth \in 1..Depth /\ Depth <= MaxDepth /\ Top \in Frames
  BY DEF StackOK, CallsOK, Depth, Top
<1>2. SavedFits(stack, Depth) /\ (Top.kind \in Loops \union {"if"} => Depth < MaxDepth)
  BY <1>1 DEF StackOK, CallsOK, Nested, Room, Depth, Top
<1>3. Top.kind \in Kinds /\ Top.phase \in Phases /\ Top.status \in Codes
  BY <1>1 DEF Frames
<1> QED BY <1>1, <1>2, <1>3 DEF SavedFits, Top

-----------------------------------------------------------------------------
(* What a step does to the stack.                                           *)

\* A call whose phase or status has changed.
LEMMA GoesOn ==
    ASSUME StackOK, stack # <<>>, NEW phase \in Phases, NEW status \in Codes,
           NEW t \in {[stack EXCEPT ![Depth].phase = phase], [stack EXCEPT ![Depth].status = status],
                      [stack EXCEPT ![Depth].phase = phase, ![Depth].status = status]}
    PROVE  /\ CallsOK(t, loopDepth, inSubshell) /\ Len(t) = Depth /\ t[Len(t)].kind = Top.kind
           /\ SameAims(stack, t) /\ (StraightCalls(stack) => StraightCalls(t))
<1>1. /\ Top \in Frames /\ Depth \in 1..Depth
      /\ \A f \in Frames : DOMAIN f = {"kind", "phase", "status", "saved"}
  BY TopFacts DEF Frames
<1>2. ASSUME NEW f \in {[Top EXCEPT !.phase = phase], [Top EXCEPT !.status = status],
                        [Top EXCEPT !.phase = phase, !.status = status]}
      PROVE  f \in Frames /\ f.kind = Top.kind /\ f.saved = Top.saved
  <2>1. CASE f = [Top EXCEPT !.phase = phase]
    BY <1>1, <2>1 DEF Frames
  <2>2. CASE f = [Top EXCEPT !.status = status]
    BY <1>1, <2>2 DEF Frames
  <2>3. CASE f = [Top EXCEPT !.phase = phase, !.status = status]
    BY <1>1, <2>3 DEF Frames
  <2> QED BY <2>1, <2>2, <2>3
<1>3. \E f \in {[Top EXCEPT !.phase = phase], [Top EXCEPT !.status = status],
                [Top EXCEPT !.phase = phase, !.status = status]} :
        t = [stack EXCEPT ![Depth] = f]
  <2>1. CASE t = [stack EXCEPT ![Depth].phase = phase]
    BY <2>1 DEF Top
  <2>2. CASE t = [stack EXCEPT ![Depth].status = status]
    BY <2>2 DEF Top
  <2>3. CASE t = [stack EXCEPT ![Depth].phase = phase, ![Depth].status = status]
    <3>1. stack \in Seq(Frames) /\ Depth \in DOMAIN stack
      BY <1>1 DEF StackOK, CallsOK, Depth
    <3>2. t = [stack EXCEPT ![Depth] = [Top EXCEPT !.phase = phase, !.status = status]]
      BY <2>3, <3>1 DEF Top
    <3> QED BY <3>2
  <2> QED BY <2>1, <2>2, <2>3
<1>4. PICK f : /\ f \in Frames /\ f.kind = Top.kind /\ f.saved = Top.saved
               /\ t = [stack EXCEPT ![Depth] = f]
  BY <1>2, <1>3
<1> QED BY <1>4, CallsSame DEF StackOK, Depth, Top

\* A script begins in some calls.
LEMMA RunsScript ==
    ASSUME NEW t, NEW loops, NEW sub, CallsOK(t, loops, sub), Len(t) < MaxDepth, RunScript(t)
    PROVE  /\ CallsOK(stack', loops, sub) /\ SameAims(t, stack')
           /\ StraightCalls(t) => StraightCalls(stack')
           /\ Top'.kind = "script" /\ ret' = NoRet /\ ret' \in Rets
           /\ exitFlag' = FALSE /\ exitCode' \in Codes
<1>1. stack' = Append(t, Script)
  BY DEF RunScript, CallsOK
<1>2. "script" \notin Loops \union Homes \union {"command", "if"}
  BY DEF Loops, Homes
<1>3. /\ CallsOK(stack', loops, sub) /\ SameAims(t, stack')
      /\ StraightCalls(t) => StraightCalls(stack')
      /\ stack'[Len(stack')] = Script
  BY <1>1, <1>2, ScriptFrame, CallsPush DEF Homes
<1>4. Top'.kind = "script"
  BY <1>3, ScriptFrame DEF Top, Depth
<1> QED BY <1>3, <1>4, Constants DEF RunScript

LEMMA SameAimsTrans ==
    ASSUME NEW s, NEW t, NEW u, SameAims(s, t), SameAims(t, u)
    PROVE  SameAims(s, u)
  BY DEF SameAims

LEMMA Returns ==
    ASSUME NEW code \in Codes, NEW exit \in BOOLEAN, Return(code, exit)
    PROVE  ret' \in Rets /\ ret' # NoRet
  BY DEF Return, Rets, NoRet

LEMMA RetFacts ==
    ASSUME FlagsOK PROVE ret.code \in Codes /\ ret.exit \in BOOLEAN
  BY DEF FlagsOK, Rets

\* A call ends that is neither a loop nor a subshell.
LEMMA PopPlain ==
    ASSUME StackOK, stack # <<>>, stack' = Below, UNCHANGED <<loopDepth, inSubshell>>,
           Top.kind \notin Loops \union {"subshell"}
    PROVE  /\ StackOK' /\ Since(Loops)' = Since(Loops)
           /\ Top.kind \notin Homes => SameAims(stack, stack')
           /\ StraightCalls(stack) => StraightCalls(stack')
<1>1. CallsOK(stack, loopDepth, inSubshell) /\ stack[Len(stack)].kind \notin Loops \union {"subshell"}
      /\ stack' = SubSeq(stack, 1, Len(stack) - 1)
  BY DEF StackOK, Below, Top, Depth
<1>2. /\ CallsOK(stack', loopDepth, inSubshell)
      /\ SinceAt(stack', Len(stack'), Loops) = SinceAt(stack, Len(stack), Loops)
      /\ Top.kind \notin Homes =>
           SinceAt(stack', Len(stack'), Homes) = SinceAt(stack, Len(stack), Homes)
      /\ StraightCalls(stack) => StraightCalls(stack')
  BY <1>1, CallsPop DEF Top, Depth
<1>3. StackOK'
  BY <1>2 DEF StackOK
<1> QED BY <1>2, <1>3, SinceIs DEF SameAims

\* A loop is left.
LEMMA PopLoop ==
    ASSUME StackOK, stack # <<>>, stack' = Below, loopDepth' = loopDepth - 1,
           UNCHANGED inSubshell, Top.kind \in Loops
    PROVE  /\ StackOK' /\ loopDepth \in Nat \ {0}
           /\ Depth \notin Since(Loops)' /\ Since(Loops) = Since(Loops)' \union {Depth}
           /\ Since(Loops)' \in SUBSET (1..Depth - 1)
           /\ Since(Homes)' = Since(Homes)
           /\ StraightCalls(stack) => StraightCalls(stack')
<1>1. CallsOK(stack, loopDepth, inSubshell) /\ stack[Len(stack)].kind \in Loops
      /\ stack' = SubSeq(stack, 1, Len(stack) - 1) /\ stack[Len(stack)].kind \notin Homes
  BY DEF StackOK, Below, Top, Depth, Loops, Homes
<1>2. /\ CallsOK(stack', loopDepth - 1, inSubshell) /\ loopDepth \in Nat \ {0}
      /\ Len(stack) \notin SinceAt(stack', Len(stack'), Loops)
      /\ SinceAt(stack, Len(stack), Loops) = SinceAt(stack', Len(stack'), Loops) \union {Len(stack)}
      /\ SinceAt(stack', Len(stack'), Homes) = SinceAt(stack, Len(stack), Homes)
      /\ StraightCalls(stack) => StraightCalls(stack')
      /\ Len(stack') = Len(stack) - 1
  BY <1>1, CallsPop
<1>3. StackOK'
  BY <1>2 DEF StackOK
<1>4. SinceAt(stack', Len(stack'), Loops) \in SUBSET (1..Len(stack'))
  BY DEF SinceAt
<1> QED BY <1>2, <1>3, <1>4, SinceIs DEF Depth

\* A subshell ends.
LEMMA PopSubshell ==
    ASSUME StackOK, stack # <<>>, stack' = Below, Top.kind = "subshell",
           loopDepth' = Top.saved.loopDepth, inSubshell' = Top.saved.inSubshell
    PROVE  StackOK' /\ (StraightCalls(stack) => StraightCalls(stack') /\ StraightFrame(Top))
<1>1. CallsOK(stack, loopDepth, inSubshell) /\ stack' = SubSeq(stack, 1, Len(stack) - 1)
  BY DEF StackOK, Below, Depth
<1>2. /\ CallsOK(stack', Top.saved.loopDepth, Top.saved.inSubshell)
      /\ StraightCalls(stack) => StraightCalls(stack') /\ StraightFrame(Top)
  BY <1>1, CallsPop DEF Top, Depth
<1> QED BY <1>2 DEF StackOK

-----------------------------------------------------------------------------
(* What a step does to a jump.                                              *)

\* A jump goes on, or there is none.
LEMMA KeepsStraight ==
    ASSUME Straight, SameAims(stack, stack'), StraightCalls(stack'),
           UNCHANGED <<breakCount, continueCount, jump>>,
           returnFlag' => returnFlag /\ home' = home,
           exitFlag' => exitFlag \/ ~Jumping,
           Jumping /\ ret' = NoRet => Top'.kind \in {"script", "list"}
    PROVE  Straight'
<1>1. Since(Loops)' = Since(Loops) /\ Since(Homes)' = Since(Homes)
  BY SinceIs DEF SameAims
<1>2. Innermost(Homes)' = Innermost(Homes)
  BY <1>1 DEF Innermost
<1>3. Jumping' = Jumping
  BY DEF Jumping
<1>4. ASSUME Jumping
      PROVE  /\ jump' \in Since(Loops)'
             /\ breakCount' + continueCount' = Cardinality(From(Since(Loops)', jump'))
             /\ breakCount' = 0 \/ continueCount' = 0
             /\ ~returnFlag' /\ ~exitFlag'
             /\ ret' = NoRet => Top'.kind \in {"script", "list"}
  BY <1>1, <1>4 DEF Straight
<1> QED BY <1>1, <1>2, <1>3, <1>4 DEF Straight

\* There is none after the step.
LEMMA NoJump ==
    ASSUME breakCount' = 0, continueCount' = 0, jump' = 0, StraightCalls(stack'),
           returnFlag' => home' = Innermost(Homes)'
    PROVE  Straight'
  BY DEF Straight, Jumping

LEMMA NotJumping ==
    ASSUME FlagsOK, Straight, ~Jumping
    PROVE  breakCount = 0 /\ continueCount = 0 /\ jump = 0
<1>1. breakCount \in Nat /\ continueCount \in Nat
  BY Constants DEF FlagsOK
<1> QED BY <1>1 DEF Straight, Jumping

\* A command that begins with no jump under way.
LEMMA BeginFacts ==
    ASSUME CInv, Begin
    PROVE  /\ stack # <<>> /\ ret = NoRet /\ astray' \in BOOLEAN
           /\ Top.kind \in {"script", "list", "not", "command"}
           /\ ~astray' => /\ Straight /\ ~Jumping /\ ~returnFlag /\ ~exitFlag
                          /\ breakCount = 0 /\ continueCount = 0 /\ jump = 0
<1>1. stack # <<>> /\ ret = NoRet /\ Top.kind \in {"script", "list", "not", "command"}
      /\ astray' \in BOOLEAN
  BY DEF CInv, Begin, AtCommand, FlagsOK, Jumping
<1>2. ~astray' => Straight /\ ~Jumping /\ ~returnFlag /\ ~exitFlag
  BY DEF CInv, Begin
<1> QED BY <1>1, <1>2, NotJumping DEF CInv

-----------------------------------------------------------------------------
(* Simple commands.                                                         *)

LEMMA Stays ==
    ASSUME StackOK, UNCHANGED <<stack, loopDepth, inSubshell>>
    PROVE  /\ StackOK' /\ SameAims(stack, stack')
           /\ Since(Loops)' = Since(Loops) /\ Since(Homes)' = Since(Homes)
           /\ StraightCalls(stack) => StraightCalls(stack')
<1>1. SameAims(stack, stack')
  BY DEF SameAims
<1>2. Since(Loops)' = Since(Loops) /\ Since(Homes)' = Since(Homes)
  BY SinceIs
<1> QED BY <1>1, <1>2 DEF StackOK

LEMMA SincePositions ==
    ASSUME StackOK
    PROVE  /\ Depth \in Nat /\ Depth <= MaxDepth
           /\ \A K : Since(K) \in SUBSET (1..Depth) /\ Innermost(K) \in 0..MaxDepth
<1>1. Depth \in Nat /\ Depth <= MaxDepth
  BY DEF StackOK, CallsOK, Depth
<1>2. ASSUME NEW K PROVE Since(K) \in SUBSET (1..Depth) /\ Innermost(K) \in 0..MaxDepth
  <2>1. Since(K) \in SUBSET (1..Depth)
    BY DEF Since
  <2>2. CASE Since(K) = {}
    <3>1. Innermost(K) = 0
      BY <2>2 DEF Innermost, Max0
    <3> QED BY <2>1, <3>1, Constants
  <2>3. CASE Since(K) # {}
    <3>1. \E x \in Since(K) : \A y \in Since(K) : y <= x
      BY <1>1, <2>1, <2>3, LargestExists
    <3>2. Innermost(K) \in Since(K)
      BY <2>3, <3>1 DEF Innermost, Max0
    <3>3. Innermost(K) \in 1..Depth
      BY <2>1, <3>2
    <3>4. Innermost(K) \in 0..MaxDepth
      BY <1>1, <3>3, Constants
    <3> QED BY <2>1, <3>4
  <2> QED BY <2>2, <2>3
<1> QED BY <1>1, <1>2

\* break n is for a loop, and its count is that loop's distance.
LEMMA TargetFacts ==
    ASSUME StackOK, loopDepth > 0, NEW n \in 1..MaxJump
    PROVE  /\ Levels(n) \in 1..MaxJump
           /\ Target(Levels(n)) \in Since(Loops) /\ Target(Levels(n)) \in 0..MaxDepth
           /\ Cardinality(From(Since(Loops), Target(Levels(n)))) = Levels(n)
<1>1. Since(Loops) \in SUBSET (1..Depth) /\ Depth \in Nat /\ Depth <= MaxDepth
  BY SincePositions
<1>2. loopDepth = Cardinality(Since(Loops)) /\ loopDepth \in Nat
  BY <1>1, SinceIs, PositionsFinite DEF StackOK, CallsOK, Nested, LoopsAt
<1>3. n \in Nat /\ 1 <= n /\ n <= MaxJump /\ MaxJump \in Nat
  BY Constants
<1>4. Levels(n) \in 1..MaxJump /\ Levels(n) \in 1..Cardinality(Since(Loops))
  BY <1>2, <1>3 DEF Levels
<1>5. \E i \in Since(Loops) : Cardinality(From(Since(Loops), i)) = Levels(n)
  BY <1>1, <1>4, TargetExists
<1>6. /\ Target(Levels(n)) \in Since(Loops)
      /\ Cardinality(From(Since(Loops), Target(Levels(n)))) = Levels(n)
  BY <1>5 DEF Target, From
<1>7. Target(Levels(n)) \in 1..Depth
  BY <1>1, <1>6
<1>8. Target(Levels(n)) \in 0..MaxDepth
  BY <1>1, <1>7, Constants
<1> QED BY <1>4, <1>6, <1>8

LEMMA StepSimple ==
    CInv /\ (ExitPending \/ Builtin \/ SetErrexit \/ BreakSubshell \/ ReturnCommand \/ Exit
               \/ CaseNoMatch) => CInv'
<1> SUFFICES ASSUME CInv, \/ ExitPending \/ Builtin \/ SetErrexit \/ BreakSubshell
                          \/ ReturnCommand \/ Exit \/ CaseNoMatch
             PROVE  CInv'
  OBVIOUS
<1>1. FlagsOK /\ StackOK /\ ret \in Rets
  BY DEF CInv, FlagsOK
<1>2. Begin /\ UNCHANGED <<stack, breakCount, continueCount, loopDepth, inSubshell, jump>>
  BY DEF ExitPending, Builtin, SetErrexit, BreakSubshell, ReturnCommand, Exit, CaseNoMatch,
         BeginSimple, flags, counters, exiting, returning
<1>3. /\ StackOK' /\ Since(Homes)' = Since(Homes)
      /\ StraightCalls(stack) => StraightCalls(stack')
  BY <1>1, <1>2, Stays
<1>4. /\ astray' \in BOOLEAN
      /\ ~astray' => /\ Straight /\ ~Jumping /\ ~returnFlag
                     /\ breakCount = 0 /\ continueCount = 0 /\ jump = 0
  BY <1>2, BeginFacts
<1>5. /\ ret' \in Rets /\ returnFlag' \in BOOLEAN /\ returnCode' \in Codes
      /\ exitFlag' \in BOOLEAN /\ exitCode' \in Codes /\ errexit' \in BOOLEAN
      /\ home' \in 0..MaxDepth /\ (returnFlag' => returnFlag \/ home' = Innermost(Homes))
  <2>1. CASE ExitPending
    BY <1>1, <2>1, Returns DEF ExitPending, FlagsOK, flags
  <2>2. CASE Builtin
    BY <1>1, <2>2, Returns DEF Builtin, FlagsOK, flags
  <2>3. CASE SetErrexit
    BY <1>1, <2>3, Returns, Constants DEF SetErrexit, FlagsOK, flags
  <2>4. CASE BreakSubshell
    BY <1>1, <2>4, Returns, Constants DEF BreakSubshell, FlagsOK, returning
  <2>5. CASE ReturnCommand
    <3>1. Innermost(Homes) \in 0..MaxDepth
      BY <1>1, SincePositions
    <3>2. PICK code \in Codes : returnFlag' = TRUE /\ returnCode' = code /\ Return(code, TRUE)
      BY <2>5 DEF ReturnCommand
    <3>3. home' = Innermost(Homes) /\ UNCHANGED <<exiting, errexit>>
      BY <2>5 DEF ReturnCommand
    <3> QED BY <1>1, <3>1, <3>2, <3>3, Returns DEF FlagsOK, exiting
  <2>6. CASE Exit
    BY <1>1, <2>6, Returns DEF Exit, FlagsOK, returning
  <2>7. CASE CaseNoMatch
    BY <1>1, <2>7, Returns, Constants DEF CaseNoMatch, FlagsOK, returning, exiting
  <2> QED BY <2>1, <2>2, <2>3, <2>4, <2>5, <2>6, <2>7
<1>6. FlagsOK'
  BY <1>1, <1>2, <1>5 DEF FlagsOK
<1>7. ASSUME ~astray' PROVE Straight'
  <2>1. Innermost(Homes)' = Innermost(Homes)
    BY <1>3 DEF Innermost
  <2>2. StraightCalls(stack')
    BY <1>3, <1>4, <1>7 DEF Straight
  <2> QED BY <1>2, <1>4, <1>5, <1>7, <2>1, <2>2, NoJump
<1> QED BY <1>3, <1>4, <1>6, <1>7 DEF CInv

LEMMA StepJump == CInv /\ (Break \/ Continue) => CInv'
<1> SUFFICES ASSUME CInv, Break \/ Continue PROVE CInv'
  OBVIOUS
<1>1. FlagsOK /\ StackOK /\ MaxJump \in Nat
  BY Constants DEF CInv
<1>2. /\ Begin /\ loopDepth > 0
      /\ UNCHANGED <<stack, returning, exiting, loopDepth, errexit, inSubshell, home>>
      /\ Return(ExitSuccess, FALSE)
  BY DEF Break, Continue, BeginSimple
<1>3. PICK n \in 1..MaxJump :
        /\ jump' = Target(Levels(n))
        /\ \/ breakCount' = Levels(n) /\ continueCount' = 0
           \/ continueCount' = Levels(n) /\ breakCount' = 0
  BY DEF Break, Continue
<1>4. /\ Levels(n) \in 1..MaxJump
      /\ Target(Levels(n)) \in Since(Loops) /\ Target(Levels(n)) \in 0..MaxDepth
      /\ Cardinality(From(Since(Loops), Target(Levels(n)))) = Levels(n)
  BY <1>1, <1>2, TargetFacts
<1>5. /\ StackOK' /\ Since(Loops)' = Since(Loops)
      /\ StraightCalls(stack) => StraightCalls(stack')
  BY <1>1, <1>2, Stays
<1>6. ret' \in Rets /\ ret' # NoRet
  BY <1>2, Returns, Constants
<1>7. /\ breakCount' \in 0..MaxJump /\ continueCount' \in 0..MaxJump
      /\ breakCount' + continueCount' = Levels(n) /\ (breakCount' = 0 \/ continueCount' = 0)
      /\ breakCount' + continueCount' > 0
  BY <1>1, <1>3, <1>4
<1>8. FlagsOK'
  BY <1>1, <1>2, <1>3, <1>4, <1>6, <1>7 DEF FlagsOK, returning, exiting
<1>9. astray' \in BOOLEAN
  BY <1>2, BeginFacts
<1>10. ASSUME ~astray' PROVE Straight'
  <2>1. Straight /\ ~returnFlag /\ ~exitFlag
    BY <1>2, <1>10, BeginFacts
  <2>2. StraightCalls(stack') /\ ~returnFlag' /\ ~exitFlag' /\ Jumping'
    BY <1>2, <1>5, <1>7, <2>1 DEF Straight, Jumping, returning, exiting
  <2> QED BY <1>3, <1>4, <1>5, <1>6, <1>7, <2>2 DEF Straight
<1> QED BY <1>5, <1>8, <1>9, <1>10 DEF CInv

-----------------------------------------------------------------------------
(* Calls that end.                                                          *)

LEMMA StepEnd ==
    CInv /\ (EndScript \/ ScriptStops \/ CompoundEnd \/ NotEnd \/ CommandEnd \/ ListEnd \/ EvalEnd)
      => CInv'
<1> SUFFICES ASSUME CInv, \/ EndScript \/ ScriptStops \/ CompoundEnd \/ NotEnd \/ CommandEnd
                          \/ ListEnd \/ EvalEnd
             PROVE  CInv'
  OBVIOUS
<1>1. FlagsOK /\ StackOK /\ ret \in Rets /\ ret.code \in Codes /\ ret.exit \in BOOLEAN
  BY RetFacts DEF CInv, FlagsOK
<1>2. /\ stack # <<>> /\ stack' = Below
      /\ Top.kind \in {"script", "if", "case", "brace", "not", "command", "list", "eval"}
      /\ UNCHANGED <<breakCount, continueCount, returnFlag, returnCode, loopDepth, errexit,
                     inSubshell, jump, home, astray>>
  BY DEF EndScript, ScriptStops, CompoundEnd, NotEnd, CommandEnd, ListEnd, EvalEnd, Returned,
         flags, history, counters, returning
<1>3. Top.kind \notin Loops \union {"subshell"} /\ Top.kind \notin Homes
  BY <1>2 DEF Loops, Homes
<1>4. /\ StackOK' /\ SameAims(stack, stack')
      /\ StraightCalls(stack) => StraightCalls(stack')
  BY <1>1, <1>2, <1>3, PopPlain
<1>5. /\ ret' \in Rets /\ ret' # NoRet
      /\ exitFlag' \in BOOLEAN /\ exitCode' \in Codes /\ (exitFlag' => exitFlag)
  <2>1. CASE EndScript
    <3>1. Top.status \in Codes /\ returnCode \in Codes
      BY <1>1, <1>2, TopFacts DEF FlagsOK
    <3>2. PICK code \in Codes : Return(code, FALSE)
      BY <2>1, <3>1 DEF EndScript
    <3> QED BY <1>1, <2>1, <3>2, Returns DEF EndScript, FlagsOK, flags
  <2>2. CASE ScriptStops
    BY <1>1, <2>2, Returns DEF ScriptStops, FlagsOK, flags
  <2>3. CASE CompoundEnd
    <3>1. PICK code \in Codes, exit \in BOOLEAN : Return(code, exit)
      BY <1>1, <2>3 DEF CompoundEnd, AfterInner, FlagsOK
    <3> QED BY <1>1, <2>3, <3>1, Returns DEF CompoundEnd, FlagsOK, flags
  <2>4. CASE NotEnd
    <3>1. PICK code \in Codes, exit \in BOOLEAN : Return(code, exit)
      BY <1>1, <2>4, Constants DEF NotEnd
    <3> QED BY <1>1, <2>4, <3>1, Returns DEF NotEnd, FlagsOK, flags
  <2>5. CASE CommandEnd
    <3>1. PICK code \in Codes : Return(code, FALSE)
      BY <1>1, <2>5 DEF CommandEnd, FlagsOK
    <3>2. Top.saved \in Codes /\ exitFlag' = FALSE /\ exitCode' = Top.saved
      BY <1>1, <1>2, <2>5, TopFacts DEF CommandEnd, Returned
    <3> QED BY <3>1, <3>2, Returns
  <2>6. CASE ListEnd
    BY <1>1, <2>6 DEF ListEnd, Returned, FlagsOK, flags
  <2>7. CASE EvalEnd
    BY <1>1, <2>7, Returns DEF EvalEnd, FlagsOK, flags
  <2> QED BY <2>1, <2>2, <2>3, <2>4, <2>5, <2>6, <2>7
<1>6. FlagsOK'
  BY <1>1, <1>2, <1>5 DEF FlagsOK
<1>7. Straight => Straight'
  <2>1. ASSUME Straight PROVE Straight'
    <3>1. StraightCalls(stack')
      BY <1>4, <2>1 DEF Straight
    <3> QED BY <1>2, <1>4, <1>5, <2>1, <3>1, KeepsStraight
  <2> QED BY <2>1
<1> QED BY <1>2, <1>4, <1>6, <1>7 DEF CInv

\* A return ends with its function or file.
LEMMA StepHome == CInv /\ (FunctionEnd \/ SourceEnd) => CInv'
<1> SUFFICES ASSUME CInv, FunctionEnd \/ SourceEnd PROVE CInv'
  OBVIOUS
<1>1. FlagsOK /\ StackOK /\ ret \in Rets /\ ret.code \in Codes
  BY RetFacts DEF CInv, FlagsOK
<1>2. /\ stack # <<>> /\ stack' = Below /\ ret # NoRet
      /\ Top.kind \in {"function", "source"}
      /\ UNCHANGED <<breakCount, continueCount, exitFlag, loopDepth, errexit, inSubshell, jump, astray>>
  BY DEF FunctionEnd, SourceEnd, Returned, counters, exiting
<1>3. Top.kind \notin Loops \union {"subshell"}
  BY <1>2 DEF Loops
<1>4. /\ StackOK' /\ Since(Loops)' = Since(Loops)
      /\ StraightCalls(stack) => StraightCalls(stack')
  BY <1>1, <1>2, <1>3, PopPlain
<1>5. ret' \in Rets /\ ret' # NoRet
  <2>1. PICK code \in Codes : Return(code, FALSE)
    BY <1>1 DEF FunctionEnd, SourceEnd, FlagsOK
  <2> QED BY <2>1, Returns
<1>6. /\ returnFlag' \in BOOLEAN /\ returnCode' \in Codes /\ exitCode' \in Codes
      /\ home' \in 0..MaxDepth
  <2>1. CASE FunctionEnd
    <3>1. Top.saved \in FunctionSaves
      BY <1>1, <1>2, <2>1, TopFacts DEF FunctionEnd, Returned
    <3>2. /\ Top.saved.returnFlag \in BOOLEAN /\ Top.saved.returnCode \in Codes
          /\ Top.saved.exitCode \in Codes /\ Top.saved.home \in 0..MaxDepth
      BY <3>1 DEF FunctionSaves
    <3> QED BY <1>1, <2>1, <3>2 DEF FunctionEnd, RestoreReturn, FlagsOK
  <2>2. CASE SourceEnd
    BY <1>1, <2>2, Constants DEF SourceEnd, FlagsOK, exiting
  <2> QED BY <2>1, <2>2
<1>7. FlagsOK'
  BY <1>1, <1>2, <1>5, <1>6 DEF FlagsOK
<1>8. ASSUME Straight PROVE Straight'
  <2>1. StraightCalls(stack') /\ StraightFrame(Top)
    <3>1. Depth \in 1..Depth
      BY <1>1, <1>2, TopFacts
    <3> QED BY <1>4, <1>8, <3>1 DEF Straight, StraightCalls, Depth, Top
  <2>2. ~returnFlag'
    <3>1. CASE FunctionEnd
      BY <2>1, <3>1 DEF FunctionEnd, Returned, RestoreReturn, StraightFrame
    <3>2. CASE SourceEnd
      BY <3>2 DEF SourceEnd
    <3> QED BY <3>1, <3>2
  <2>3. Jumping' = Jumping
    BY <1>2 DEF Jumping
  <2> QED BY <1>2, <1>4, <1>5, <1>8, <2>1, <2>2, <2>3 DEF Straight
<1> QED BY <1>2, <1>4, <1>7, <1>8 DEF CInv

\* A subshell ends, and what was under way around it is restored: nothing.
LEMMA StepSubshellEnd == CInv /\ SubshellEnd => CInv'
<1> SUFFICES ASSUME CInv, SubshellEnd PROVE CInv'
  OBVIOUS
<1>1. FlagsOK /\ StackOK /\ ret \in Rets /\ ret.code \in Codes
  BY RetFacts DEF CInv, FlagsOK
<1>2. stack # <<>> /\ stack' = Below /\ Top.kind = "subshell"
      /\ loopDepth' = Top.saved.loopDepth /\ inSubshell' = Top.saved.inSubshell
      /\ Return(ret.code, FALSE) /\ UNCHANGED astray
  BY DEF SubshellEnd, Returned
<1>3. StackOK' /\ (StraightCalls(stack) => StraightCalls(stack') /\ StraightFrame(Top))
  BY <1>1, <1>2, PopSubshell
<1>4. ret' \in Rets
  BY <1>1, <1>2, Returns
<1>5. Top.saved \in SubshellSaves
  BY <1>1, <1>2, TopFacts
<1>6. FlagsOK'
  <2>1. /\ Top.saved.breakCount \in 0..MaxJump /\ Top.saved.continueCount \in 0..MaxJump
        /\ Top.saved.returnFlag \in BOOLEAN /\ Top.saved.returnCode \in Codes
        /\ Top.saved.exitFlag \in BOOLEAN /\ Top.saved.exitCode \in Codes
        /\ Top.saved.errexit \in BOOLEAN /\ Top.saved.inSubshell \in BOOLEAN
        /\ Top.saved.jump \in 0..MaxDepth /\ Top.saved.home \in 0..MaxDepth
    BY <1>5 DEF SubshellSaves
  <2> QED BY <1>4, <2>1 DEF SubshellEnd, RestoreReturn, FlagsOK
<1>7. ASSUME Straight PROVE Straight'
  <2>1. StraightCalls(stack') /\ StraightFrame(Top)
    BY <1>3, <1>7 DEF Straight
  <2>2. breakCount' = 0 /\ continueCount' = 0 /\ jump' = 0 /\ ~returnFlag'
    BY <1>2, <2>1 DEF SubshellEnd, RestoreReturn, StraightFrame
  <2> QED BY <2>1, <2>2, NoJump
<1> QED BY <1>2, <1>3, <1>6, <1>7 DEF CInv

-----------------------------------------------------------------------------
(* Calls that go on.                                                        *)

LEMMA StepGoesOn == CInv /\ (ScriptGoesOn \/ ListGoesOn) => CInv'
<1> SUFFICES ASSUME CInv, ScriptGoesOn \/ ListGoesOn PROVE CInv'
  OBVIOUS
<1>1. FlagsOK /\ StackOK /\ ret.code \in Codes
  BY RetFacts DEF CInv
<1>2. /\ stack # <<>> /\ ret' = NoRet /\ Top.kind \in {"script", "list"}
      /\ UNCHANGED <<flags, loopDepth, errexit, inSubshell, history>>
      /\ stack' = stack \/ stack' = [stack EXCEPT ![Depth].status = ret.code]
      /\ Jumping => stack' = stack
  BY DEF ScriptGoesOn, ListGoesOn, Returned
<1>3. /\ StackOK' /\ SameAims(stack, stack') /\ (StraightCalls(stack) => StraightCalls(stack'))
  <2>1. CASE stack' = stack
    BY <1>1, <1>2, <2>1, Stays
  <2>2. CASE stack' = [stack EXCEPT ![Depth].status = ret.code]
    <3> DEFINE t == [stack EXCEPT ![Depth].status = ret.code]
    <3>1. "body" \in Phases
      BY DEF Phases
    <3>2. /\ CallsOK(t, loopDepth, inSubshell)
          /\ SameAims(stack, t) /\ (StraightCalls(stack) => StraightCalls(t))
      BY <1>1, <1>2, <3>1, GoesOn
    <3>3. stack' = t
      BY <2>2
    <3> HIDE DEF t
    <3> QED BY <1>2, <3>2, <3>3 DEF StackOK
  <2> QED BY <1>2, <2>1, <2>2
<1>4. FlagsOK'
  BY <1>1, <1>2, Constants DEF FlagsOK, flags, history
<1>5. ASSUME Straight PROVE Straight'
  <2>1. StraightCalls(stack')
    BY <1>3, <1>5 DEF Straight
  <2>2. Jumping => Top' = Top
    BY <1>2 DEF Top, Depth
  <2> QED BY <1>2, <1>3, <1>5, <2>1, <2>2, KeepsStraight DEF flags, history
<1> QED BY <1>2, <1>3, <1>4, <1>5 DEF CInv, history

\* The next script of a call.
LEMMA NextScript ==
    ASSUME StackOK, stack # <<>>, Top.kind \in Loops \union {"if"}, NEW phase \in Phases,
           RunScript([stack EXCEPT ![Depth].phase = phase]), UNCHANGED <<loopDepth, inSubshell>>
    PROVE  /\ StackOK' /\ SameAims(stack, stack') /\ (StraightCalls(stack) => StraightCalls(stack'))
           /\ ret' \in Rets /\ Top'.kind = "script"
           /\ exitFlag' = FALSE /\ exitCode' \in Codes
<1> DEFINE t == [stack EXCEPT ![Depth].phase = phase]
<1>1. /\ CallsOK(t, loopDepth, inSubshell) /\ Len(t) = Depth
      /\ SameAims(stack, t) /\ (StraightCalls(stack) => StraightCalls(t))
  BY GoesOn, Constants
<1>2. Len(t) < MaxDepth /\ RunScript(t)
  BY <1>1, TopFacts
<1> HIDE DEF t
<1>3. /\ CallsOK(stack', loopDepth, inSubshell) /\ SameAims(t, stack')
      /\ StraightCalls(t) => StraightCalls(stack')
      /\ Top'.kind = "script" /\ ret' \in Rets
      /\ exitFlag' = FALSE /\ exitCode' \in Codes
  BY <1>1, <1>2, RunsScript
<1>4. SameAims(stack, stack')
  BY <1>1, <1>3, SameAimsTrans
<1> QED BY <1>1, <1>3, <1>4 DEF StackOK

LEMMA StepIfCondition == CInv /\ IfCondition => CInv'
<1> SUFFICES ASSUME CInv, IfCondition PROVE CInv'
  OBVIOUS
<1>1. FlagsOK /\ StackOK /\ ret \in Rets
  BY DEF CInv, FlagsOK
<1>2. /\ stack # <<>> /\ Top.kind = "if" /\ ~exitFlag
      /\ UNCHANGED <<breakCount, continueCount, returnFlag, returnCode, loopDepth, errexit,
                     inSubshell, jump, home, astray>>
      /\ \/ \E phase \in Phases : RunScript([stack EXCEPT ![Depth].phase = phase])
         \/ stack' = Below /\ Return(ExitSuccess, FALSE) /\ UNCHANGED exiting
  BY DEF IfCondition, Returned, counters, returning, history, Phases
<1>3. /\ StackOK' /\ SameAims(stack, stack') /\ (StraightCalls(stack) => StraightCalls(stack'))
      /\ ret' \in Rets /\ exitFlag' = FALSE /\ exitCode' \in Codes
      /\ ret' = NoRet => Top'.kind = "script"
  <2>1. CASE \E phase \in Phases : RunScript([stack EXCEPT ![Depth].phase = phase])
    BY <1>1, <1>2, <2>1, NextScript
  <2>2. CASE stack' = Below /\ Return(ExitSuccess, FALSE) /\ UNCHANGED exiting
    <3>1. Top.kind \notin Loops \union {"subshell"} /\ Top.kind \notin Homes
      BY <1>2 DEF Loops, Homes
    <3>2. /\ StackOK' /\ SameAims(stack, stack')
          /\ StraightCalls(stack) => StraightCalls(stack')
      BY <1>1, <1>2, <2>2, <3>1, PopPlain
    <3>3. ret' \in Rets /\ ret' # NoRet
      BY <2>2, Returns, Constants
    <3>4. exitFlag' = FALSE /\ exitCode' \in Codes
      BY <1>1, <1>2, <2>2 DEF FlagsOK, exiting
    <3> QED BY <3>2, <3>3, <3>4
  <2> QED BY <1>2, <2>1, <2>2
<1>4. FlagsOK'
  BY <1>1, <1>2, <1>3 DEF FlagsOK
<1>5. ASSUME Straight PROVE Straight'
  <2>1. StraightCalls(stack')
    BY <1>3, <1>5 DEF Straight
  <2> QED BY <1>2, <1>3, <1>5, <2>1, KeepsStraight
<1> QED BY <1>2, <1>3, <1>4, <1>5 DEF CInv

-----------------------------------------------------------------------------
(* Loops.                                                                   *)

\* A round of a loop begins.
LEMMA StepRound == CInv /\ (Round \/ LoopBody) => CInv'
<1> SUFFICES ASSUME CInv, Round \/ LoopBody PROVE CInv'
  OBVIOUS
<1>1. FlagsOK /\ StackOK /\ ret.code \in Codes
  BY RetFacts DEF CInv
<1>2. /\ stack # <<>> /\ Top.kind \in Loops
      /\ UNCHANGED <<breakCount, continueCount, returnFlag, returnCode, loopDepth, errexit,
                     inSubshell, jump, home, astray>>
  BY DEF Round, AtLoop, LoopBody, LoopGoesOn, Returned, counters, returning, flags, history
<1>3. Top.kind \notin {"script", "list"}
  BY <1>2 DEF Loops
<1>4. /\ StackOK' /\ SameAims(stack, stack') /\ (StraightCalls(stack) => StraightCalls(stack'))
      /\ ret' \in Rets /\ exitFlag' \in BOOLEAN /\ exitCode' \in Codes /\ (exitFlag' => exitFlag)
  <2>1. CASE Round
    <3>1. PICK phase \in Phases : RunScript([stack EXCEPT ![Depth].phase = phase])
      BY <2>1 DEF Round, Phases
    <3>2. exitFlag' = FALSE
      BY <3>1 DEF RunScript
    <3> QED BY <1>1, <1>2, <3>1, <3>2, NextScript
  <2>2. CASE LoopBody
    <3>1. LoopStatus \in Codes /\ "next" \in Phases
      BY <1>1, <1>2, TopFacts DEF LoopStatus, Phases
    <3>2. PICK phase \in Phases, status \in Codes :
            stack' = [stack EXCEPT ![Depth].phase = phase, ![Depth].status = status]
      BY <2>2, <3>1 DEF LoopBody, NextRound
    <3> DEFINE t == [stack EXCEPT ![Depth].phase = phase, ![Depth].status = status]
    <3>3. /\ CallsOK(t, loopDepth, inSubshell)
          /\ SameAims(stack, t) /\ (StraightCalls(stack) => StraightCalls(t))
      BY <1>1, <1>2, GoesOn
    <3>4. stack' = t
      BY <3>2
    <3> HIDE DEF t
    <3>5. ret' \in Rets /\ UNCHANGED <<exitFlag, exitCode>>
      BY <2>2, Constants DEF LoopBody, NextRound, flags
    <3> QED BY <1>1, <1>2, <3>3, <3>4, <3>5 DEF StackOK, FlagsOK
  <2> QED BY <2>1, <2>2
<1>5. FlagsOK'
  BY <1>1, <1>2, <1>4 DEF FlagsOK
<1>6. ASSUME Straight PROVE Straight'
  <2>1. StraightCalls(stack')
    BY <1>4, <1>6 DEF Straight
  <2>2. ~Jumping
    BY <1>3, <1>6 DEF Round, LoopBody, LoopGoesOn, Straight
  <2> QED BY <1>2, <1>4, <1>6, <2>1, <2>2, KeepsStraight
<1> QED BY <1>2, <1>4, <1>5, <1>6 DEF CInv

\* A loop ends that no break or continue is for.
LEMMA StepLeaves ==
    ASSUME CInv, stack # <<>>, Top.kind \in Loops, NEW status \in Codes, LeaveLoop(status),
           UNCHANGED <<flags, errexit, inSubshell, history>>, Straight => ~Jumping
    PROVE  CInv'
<1>1. FlagsOK /\ StackOK
  BY DEF CInv
<1>2. stack' = Below /\ Return(status, FALSE) /\ loopDepth' = loopDepth - 1
  BY DEF LeaveLoop
<1>3. StackOK' /\ Since(Homes)' = Since(Homes) /\ (StraightCalls(stack) => StraightCalls(stack'))
  BY <1>1, <1>2, PopLoop
<1>4. ret' \in Rets
  BY <1>2, Returns
<1>5. FlagsOK'
  BY <1>1, <1>4 DEF FlagsOK, flags, history
<1>6. ASSUME Straight PROVE Straight'
  <2>1. breakCount = 0 /\ continueCount = 0 /\ jump = 0
    BY <1>1, <1>6, NotJumping
  <2>2. StraightCalls(stack')
    BY <1>3, <1>6 DEF Straight
  <2>3. returnFlag' => home' = Innermost(Homes)'
    BY <1>3, <1>6 DEF Straight, Innermost, flags, history
  <2> QED BY <2>1, <2>2, <2>3, NoJump DEF flags, history
<1> QED BY <1>3, <1>5, <1>6 DEF CInv, history

LEMMA StepLoopEnd == CInv /\ (NoMoreWords \/ LoopStops \/ LoopCondition) => CInv'
<1> SUFFICES ASSUME CInv, NoMoreWords \/ LoopStops \/ LoopCondition PROVE CInv'
  OBVIOUS
<1>1. FlagsOK /\ StackOK
  BY DEF CInv
<1>2. stack # <<>> /\ Top.kind \in Loops
  BY DEF NoMoreWords, LoopStops, LoopCondition, LoopGoesOn, Returned, AtLoop
<1>3. Top.status \in Codes /\ returnCode \in Codes /\ exitCode \in Codes /\ Top.kind \notin {"script", "list"}
  BY <1>1, <1>2, TopFacts DEF FlagsOK, Loops
<1>4. CASE NoMoreWords
  <2>1. LeaveLoop(Top.status) /\ UNCHANGED <<flags, errexit, inSubshell, history>>
    BY <1>4 DEF NoMoreWords
  <2>2. Straight => ~Jumping
    BY <1>3, <1>4 DEF NoMoreWords, Straight
  <2> QED BY <1>2, <1>3, <2>1, <2>2, StepLeaves
<1>5. CASE LoopStops
  <2>1. PICK status \in Codes : LeaveLoop(status)
    BY <1>3, <1>5 DEF LoopStops
  <2>2. UNCHANGED <<flags, errexit, inSubshell, history>>
    BY <1>5 DEF LoopStops
  <2>3. Straight => ~Jumping
    BY <1>5 DEF LoopStops, Straight
  <2> QED BY <1>2, <2>1, <2>2, <2>3, StepLeaves
<1>6. CASE LoopCondition
  <2>1. ~Jumping /\ UNCHANGED <<counters, returning, errexit, inSubshell, history>>
    BY <1>6 DEF LoopCondition, LoopGoesOn
  <2>2. CASE RunScript([stack EXCEPT ![Depth].phase = "body"]) /\ UNCHANGED loopDepth
    <3>1. "body" \in Phases
      BY DEF Phases
    <3>2. /\ StackOK' /\ SameAims(stack, stack') /\ (StraightCalls(stack) => StraightCalls(stack'))
          /\ ret' \in Rets /\ exitFlag' = FALSE /\ exitCode' \in Codes
      BY <1>1, <1>2, <2>1, <2>2, <3>1, NextScript
    <3>3. FlagsOK'
      BY <1>1, <2>1, <3>2 DEF FlagsOK, counters, returning, history
    <3>4. ASSUME Straight PROVE Straight'
      <4>1. StraightCalls(stack')
        BY <3>2, <3>4 DEF Straight
      <4> QED BY <2>1, <3>2, <3>4, <4>1, KeepsStraight DEF counters, returning, history
    <3> QED BY <2>1, <3>2, <3>3, <3>4 DEF CInv, history
  <2>3. CASE LeaveLoop(Top.status) /\ UNCHANGED exiting
    <3>1. UNCHANGED <<flags, errexit, inSubshell, history>>
      BY <2>1, <2>3 DEF flags, counters, returning, exiting
    <3> QED BY <1>2, <1>3, <2>1, <2>3, <3>1, StepLeaves
  <2> QED BY <1>6, <2>2, <2>3 DEF LoopCondition
<1> QED BY <1>4, <1>5, <1>6

\* break and continue leave a loop that is not the one they are for: one less
\* to leave, and theirs is still there.
LEMMA StepPasses ==
    ASSUME CInv, stack # <<>>, Top.kind \in Loops, NEW status \in Codes, LeaveLoop(status),
           breakCount + continueCount > 0, ~returnFlag, ~exitFlag,
           \/ breakCount > 0 /\ breakCount' = breakCount - 1 /\ continueCount' = continueCount
           \/ /\ breakCount = 0 /\ breakCount' = breakCount
              /\ continueCount' = continueCount - 1,
           jump' \in {0, jump},
           Straight => jump' = IF breakCount + continueCount = 1 THEN 0 ELSE jump,
           UNCHANGED <<returning, exiting, errexit, inSubshell, home, astray>>
    PROVE  CInv'
<1>1. FlagsOK /\ StackOK /\ breakCount \in Nat /\ continueCount \in Nat
  BY Constants DEF CInv, FlagsOK
<1>2. stack' = Below /\ Return(status, FALSE) /\ loopDepth' = loopDepth - 1
  BY DEF LeaveLoop
<1>3. /\ StackOK' /\ (StraightCalls(stack) => StraightCalls(stack'))
      /\ Depth \notin Since(Loops)' /\ Since(Loops) = Since(Loops)' \union {Depth}
      /\ Since(Loops)' \in SUBSET (1..Depth - 1)
  BY <1>1, <1>2, PopLoop
<1>4. ret' \in Rets /\ ret' # NoRet
  BY <1>2, Returns
<1>5. FlagsOK'
  <2>1. breakCount' \in 0..MaxJump /\ continueCount' \in 0..MaxJump
    BY <1>1, Constants DEF FlagsOK
  <2>2. jump' \in 0..MaxDepth
    BY <1>1, Constants DEF FlagsOK
  <2> QED BY <1>1, <1>4, <2>1, <2>2 DEF FlagsOK, returning, exiting
<1>6. ASSUME Straight PROVE Straight'
  <2>1. StraightCalls(stack') /\ ~returnFlag' /\ ~exitFlag'
    BY <1>3, <1>6 DEF Straight, returning, exiting
  <2>2. /\ jump \in Since(Loops)
        /\ breakCount + continueCount = Cardinality(From(Since(Loops), jump))
        /\ breakCount = 0 \/ continueCount = 0
    BY <1>6 DEF Straight, Jumping
  <2>3. CASE breakCount + continueCount = 1
    <3>1. breakCount' = 0 /\ continueCount' = 0 /\ jump' = 0
      BY <1>1, <1>6, <2>2, <2>3
    <3> QED BY <2>1, <3>1, NoJump
  <2>4. CASE breakCount + continueCount > 1
    <3> DEFINE S == Since(Loops)'
    <3>1. Depth \in Nat \ {0} /\ Depth - 1 \in Nat /\ S \in SUBSET (1..Depth - 1)
      BY <1>1, <1>3, TopFacts
    <3>2. IsFiniteSet(S) /\ \A x \in S : x \in Int /\ 1 <= x /\ x <= Depth - 1
      BY <3>1, PositionsFinite
    <3>3. jump \in Int /\ jump <= Depth
      BY <1>3, <2>2, <3>1, <3>2
    <3>4. From(Since(Loops), jump) = From(S, jump) \union {Depth} /\ Depth \notin From(S, jump)
      BY <1>3, <3>1, <3>3 DEF From
    <3>5. IsFiniteSet(From(S, jump)) /\ Cardinality(From(S, jump)) \in Nat
      BY <3>1, <3>3, FromCount
    <3>6. breakCount + continueCount = Cardinality(From(S, jump)) + 1
      BY <2>2, <3>4, <3>5, FS_AddElement
    <3>7. jump \in S
      <4>1. CASE jump = Depth
        <5>1. From(S, jump) = {}
          BY <3>1, <3>2, <4>1 DEF From
        <5> QED BY <2>4, <3>6, <5>1, FS_EmptySet
      <4> QED BY <1>3, <2>2, <4>1
    <3>8. jump' = jump
      BY <1>1, <1>6, <2>4
    <3>9. /\ breakCount' + continueCount' = Cardinality(From(S, jump'))
          /\ breakCount' + continueCount' > 0 /\ (breakCount' = 0 \/ continueCount' = 0)
      BY <1>1, <2>2, <2>4, <3>5, <3>6, <3>8
    <3> QED BY <1>4, <2>1, <3>7, <3>8, <3>9 DEF Straight, Jumping
  <2> QED BY <1>1, <2>3, <2>4
<1> QED BY <1>3, <1>5, <1>6 DEF CInv

LEMMA StepLoopJump == CInv /\ (LoopBreak \/ LoopContinue) => CInv'
<1> SUFFICES ASSUME CInv, LoopBreak \/ LoopContinue PROVE CInv'
  OBVIOUS
<1>1. FlagsOK /\ StackOK /\ breakCount \in Nat /\ continueCount \in Nat /\ ret.code \in Codes
  BY RetFacts, Constants DEF CInv, FlagsOK
<1>2. stack # <<>> /\ Top.kind \in Loops /\ ~returnFlag /\ ~exitFlag
  BY DEF LoopBreak, LoopContinue, Returned
<1>3. LoopStatus \in Codes
  BY <1>1, <1>2, TopFacts DEF LoopStatus
<1>4. Straight /\ breakCount + continueCount > 0 => breakCount = 0 \/ continueCount = 0
  BY DEF Straight, Jumping
<1>5. CASE LoopBreak
  <2>1. /\ breakCount > 0 /\ breakCount' = breakCount - 1 /\ continueCount' = continueCount
        /\ jump' = IF breakCount = 1 THEN 0 ELSE jump
        /\ LeaveLoop(LoopStatus)
        /\ UNCHANGED <<returning, exiting, errexit, inSubshell, home, astray>>
    BY <1>5 DEF LoopBreak
  <2>2. breakCount + continueCount > 0
    BY <1>1, <2>1
  <2>3. jump' \in {0, jump} /\ (Straight => jump' = IF breakCount + continueCount = 1 THEN 0 ELSE jump)
    BY <1>1, <1>4, <2>1, <2>2
  <2> QED BY <1>2, <1>3, <2>1, <2>2, <2>3, StepPasses
<1>6. CASE LoopContinue
  <2>1. /\ breakCount = 0 /\ continueCount > 0 /\ continueCount' = continueCount - 1
        /\ UNCHANGED <<breakCount, returning, exiting, errexit, inSubshell, home, astray>>
    BY <1>6 DEF LoopContinue
  <2>2. CASE continueCount = 1 /\ NextRound /\ jump' = 0 /\ UNCHANGED loopDepth
    <3> DEFINE t == [stack EXCEPT ![Depth].phase = "next", ![Depth].status = LoopStatus]
    <3>1. "next" \in Phases
      BY DEF Phases
    <3>2. CallsOK(t, loopDepth, inSubshell) /\ (StraightCalls(stack) => StraightCalls(t))
      BY <1>1, <1>2, <1>3, <3>1, GoesOn
    <3>3. stack' = t /\ ret' \in Rets
      BY <2>2, Constants DEF NextRound
    <3> HIDE DEF t
    <3>4. StackOK'
      BY <2>1, <2>2, <3>2, <3>3 DEF StackOK
    <3>5. FlagsOK'
      BY <1>1, <2>1, <2>2, <3>3, Constants DEF FlagsOK, returning, exiting
    <3>6. ASSUME Straight PROVE Straight'
      <4>1. breakCount' = 0 /\ continueCount' = 0 /\ jump' = 0 /\ ~returnFlag'
        BY <1>2, <2>1, <2>2 DEF returning
      <4>2. StraightCalls(stack')
        BY <3>2, <3>3, <3>6 DEF Straight
      <4> QED BY <4>1, <4>2, NoJump
    <3> QED BY <2>1, <3>4, <3>5, <3>6 DEF CInv
  <2>3. CASE continueCount > 1 /\ LeaveLoop(LoopStatus) /\ UNCHANGED jump
    <3>1. breakCount + continueCount > 0 /\ breakCount + continueCount # 1
      BY <1>1, <2>1, <2>3
    <3> QED BY <1>2, <1>3, <2>1, <2>3, <3>1, StepPasses
  <2> QED BY <1>6, <2>2, <2>3 DEF LoopContinue
<1> QED BY <1>5, <1>6

-----------------------------------------------------------------------------
(* Calls that begin.                                                        *)

\* What a command that begins does to the flags when none is set.
LEMMA BeginStraight ==
    ASSUME CInv, Begin, UNCHANGED <<breakCount, continueCount, jump>>,
           returnFlag' => returnFlag, StraightCalls(stack) => StraightCalls(stack'), ~astray'
    PROVE  Straight'
<1>1. Straight /\ ~returnFlag /\ breakCount = 0 /\ continueCount = 0 /\ jump = 0
  BY BeginFacts
<1> QED BY <1>1, NoJump DEF Straight

\* ! and lists, and the command builtin.
LEMMA StepPrefix == CInv /\ Prefix => CInv'
<1> SUFFICES ASSUME CInv, Prefix PROVE CInv'
  OBVIOUS
<1>1. FlagsOK /\ StackOK
  BY DEF CInv
<1>2. /\ Begin /\ Deeper(1) /\ ret' = NoRet
      /\ UNCHANGED <<breakCount, continueCount, returnFlag, returnCode, loopDepth, errexit,
                     inSubshell, jump, home>>
  BY DEF Prefix, counters, returning
<1>3. Len(stack) < MaxDepth
  BY <1>1, <1>2, Constants DEF Deeper, Depth, StackOK, CallsOK
<1>4. /\ exitFlag' \in BOOLEAN /\ exitCode' \in Codes
      /\ \E kind \in {"not", "list", "command"}, saved \in {NoSave} \union Codes :
           /\ kind = "command" => saved \in Codes
           /\ stack' = Append(stack, Frame(kind, "body", saved))
  BY <1>1, Constants DEF Prefix, FlagsOK, exiting
<1>5. PICK kind \in {"not", "list", "command"}, saved \in {NoSave} \union Codes :
        /\ kind = "command" => saved \in Codes
        /\ stack' = Append(stack, Frame(kind, "body", saved))
  BY <1>4
<1>6. /\ kind \in Kinds /\ "body" \in Phases /\ saved \in Saves
      /\ kind \notin Loops \union {"subshell", "function", "if"}
  BY DEF Kinds, Phases, Saves, Loops
<1> DEFINE f == Frame(kind, "body", saved)
<1>7. f \in Frames /\ f.kind = kind /\ f.saved = saved
  BY <1>6, NewFrames
<1>8. StraightFrame(f)
  BY <1>6, <1>7 DEF StraightFrame
<1> HIDE DEF f
<1>9. stack' = Append(stack, f)
  BY <1>5 DEF f
<1>10. CallsOK(stack', loopDepth, inSubshell) /\ (StraightCalls(stack) => StraightCalls(stack'))
  <2>1. CallsOK(stack, loopDepth, inSubshell)
    BY <1>1 DEF StackOK
  <2>2. /\ f.kind \notin Loops \union {"if", "function", "subshell"}
        /\ f.kind = "command" => f.saved \in Codes
    BY <1>5, <1>6, <1>7
  <2> QED BY <1>3, <1>7, <1>8, <1>9, <2>1, <2>2, CallsPush
<1>11. StackOK'
  BY <1>2, <1>10 DEF StackOK
<1>12. FlagsOK'
  BY <1>1, <1>2, <1>4, Constants DEF FlagsOK
<1>13. ~astray' => Straight'
  BY <1>2, <1>10, BeginStraight
<1> QED BY <1>2, <1>11, <1>12, <1>13, BeginFacts DEF CInv

\* Two calls begin: a command and its script.
LEMMA PushRun ==
    ASSUME StackOK, Deeper(2), NEW f \in Frames, RunScript(Append(stack, f)),
           f.kind \notin Loops \union {"command"},
           f.kind = "function" => f.saved \in FunctionSaves,
           NEW loops, NEW sub,
           \/ f.kind # "subshell" /\ loops = loopDepth /\ sub = inSubshell
           \/ /\ f.kind = "subshell" /\ f.saved \in SubshellSaves
              /\ f.saved.loopDepth = loopDepth /\ f.saved.inSubshell = inSubshell
              /\ loops = 0 /\ sub = TRUE
    PROVE  /\ CallsOK(stack', loops, sub)
           /\ StraightCalls(stack) /\ StraightFrame(f) => StraightCalls(stack')
           /\ ret' \in Rets /\ exitFlag' = FALSE /\ exitCode' \in Codes
<1> DEFINE t == Append(stack, f)
<1>1. /\ CallsOK(stack, loopDepth, inSubshell) /\ Len(stack) \in Nat
      /\ Len(stack) + 1 < MaxDepth /\ Len(stack) < MaxDepth
  <2>1. CallsOK(stack, loopDepth, inSubshell) /\ Len(stack) \in Nat
    BY DEF StackOK, CallsOK
  <2> QED BY <2>1, Constants DEF Deeper, Depth
<1>2. /\ Len(t) = Len(stack) + 1 /\ CallsOK(t, loops, sub)
      /\ StraightCalls(stack) /\ StraightFrame(f) => StraightCalls(t)
  <2>1. f.kind \notin Loops /\ f.kind # "command"
    OBVIOUS
  <2>2. /\ Len(t) = Len(stack) + 1
        /\ f.kind \notin Loops \union {"subshell"} => CallsOK(t, loopDepth, inSubshell)
        /\ /\ f.kind = "subshell" /\ f.saved \in SubshellSaves
           /\ f.saved.loopDepth = loopDepth /\ f.saved.inSubshell = inSubshell
           => CallsOK(t, 0, TRUE)
        /\ StraightCalls(stack) /\ StraightFrame(f) => StraightCalls(t)
    BY <1>1, <2>1, CallsPush
  <2> HIDE DEF t
  <2> QED BY <2>1, <2>2
<1>3. RunScript(t)
  OBVIOUS
<1> HIDE DEF t
<1>4. /\ CallsOK(stack', loops, sub) /\ (StraightCalls(t) => StraightCalls(stack'))
      /\ ret' \in Rets /\ exitFlag' = FALSE /\ exitCode' \in Codes
  BY <1>1, <1>2, <1>3, RunsScript
<1> QED BY <1>2, <1>4

LEMMA StepCompound == CInv /\ (Compound \/ SourceOrEval) => CInv'
<1> SUFFICES ASSUME CInv, Compound \/ SourceOrEval PROVE CInv'
  OBVIOUS
<1>1. FlagsOK /\ StackOK
  BY DEF CInv
<1>2. /\ Begin /\ Deeper(2)
      /\ UNCHANGED <<breakCount, continueCount, returnFlag, returnCode, loopDepth, errexit,
                     inSubshell, jump, home>>
  BY DEF Compound, SourceOrEval, BeginSimple, counters, returning
<1>3. PICK kind \in {"if", "case", "brace", "source", "eval"}, phase \in {"cond", "body"} :
        RunScript(Append(stack, Frame(kind, phase, NoSave)))
  <2>1. CASE Compound
    <3>1. PICK kind \in {"if", "case", "brace"} :
            RunScript(Append(stack, Frame(kind, IF kind = "if" THEN "cond" ELSE "body", NoSave)))
      BY <2>1 DEF Compound
    <3>2. PICK phase \in {"cond", "body"} : phase = IF kind = "if" THEN "cond" ELSE "body"
      OBVIOUS
    <3> QED BY <3>1, <3>2
  <2>2. CASE SourceOrEval
    BY <2>2 DEF SourceOrEval
  <2> QED BY <2>1, <2>2
<1>4. /\ kind \in Kinds /\ phase \in Phases /\ NoSave \in Saves
      /\ kind \notin Loops \union {"command", "function", "subshell"}
  BY DEF Kinds, Phases, Saves, Loops, Homes
<1> DEFINE f == Frame(kind, phase, NoSave)
<1>5. f \in Frames /\ f.kind = kind
  BY <1>4, NewFrames
<1>6. StraightFrame(f)
  BY <1>4, <1>5 DEF StraightFrame
<1>7. RunScript(Append(stack, f))
  BY <1>3
<1> HIDE DEF f
<1>8. /\ CallsOK(stack', loopDepth, inSubshell)
      /\ StraightCalls(stack) => StraightCalls(stack')
      /\ ret' \in Rets /\ exitFlag' = FALSE /\ exitCode' \in Codes
  BY <1>1, <1>2, <1>4, <1>5, <1>6, <1>7, PushRun
<1>9. StackOK' /\ FlagsOK'
  BY <1>1, <1>2, <1>8 DEF StackOK, FlagsOK
<1>10. ~astray' => Straight'
  BY <1>2, <1>8, BeginStraight
<1> QED BY <1>2, <1>9, <1>10, BeginFacts DEF CInv

LEMMA StepFunctionCall == CInv /\ FunctionCall => CInv'
<1> SUFFICES ASSUME CInv, FunctionCall PROVE CInv'
  OBVIOUS
<1>1. FlagsOK /\ StackOK
  BY DEF CInv
<1>2. /\ Begin /\ Deeper(2) /\ RunScript(Append(stack, Frame("function", "body", Saved)))
      /\ returnFlag' = FALSE /\ returnCode' = ExitSuccess /\ home' = 0
      /\ UNCHANGED <<breakCount, continueCount, loopDepth, errexit, inSubshell, jump>>
  BY DEF FunctionCall, BeginSimple, counters
<1>3. Saved \in FunctionSaves /\ Saved.returnFlag = returnFlag
  BY <1>1 DEF Saved, FunctionSaves, FlagsOK
<1> DEFINE f == Frame("function", "body", Saved)
<1>4. f \in Frames /\ f.kind = "function" /\ f.saved = Saved
  <2>1. "function" \in Kinds /\ "body" \in Phases /\ Saved \in Saves
    BY <1>3 DEF Kinds, Homes, Phases, Saves
  <2> QED BY <2>1, NewFrames
<1>5. "function" \notin Loops \union {"command"}
  BY DEF Loops
<1>6. ~returnFlag => StraightFrame(f)
  BY <1>3, <1>4 DEF StraightFrame
<1>7. RunScript(Append(stack, f))
  BY <1>2
<1> HIDE DEF f
<1>8. /\ CallsOK(stack', loopDepth, inSubshell)
      /\ StraightCalls(stack) /\ StraightFrame(f) => StraightCalls(stack')
      /\ ret' \in Rets /\ exitFlag' = FALSE /\ exitCode' \in Codes
  BY <1>1, <1>2, <1>3, <1>4, <1>5, <1>7, PushRun
<1>9. StackOK' /\ FlagsOK'
  BY <1>1, <1>2, <1>8, Constants DEF StackOK, FlagsOK
<1>10. ASSUME ~astray' PROVE Straight'
  <2>1. ~returnFlag
    BY <1>2, <1>10, BeginFacts
  <2> QED BY <1>2, <1>6, <1>8, <1>10, <2>1, BeginStraight
<1> QED BY <1>2, <1>9, <1>10, BeginFacts DEF CInv

LEMMA StepSubshell == CInv /\ Subshell => CInv'
<1> SUFFICES ASSUME CInv, Subshell PROVE CInv'
  OBVIOUS
<1>1. FlagsOK /\ StackOK
  BY DEF CInv
<1>2. /\ Begin /\ Deeper(2) /\ RunScript(Append(stack, Frame("subshell", "body", Snapshot)))
      /\ breakCount' = 0 /\ continueCount' = 0
      /\ returnFlag' = FALSE /\ returnCode' = ExitSuccess
      /\ loopDepth' = 0 /\ inSubshell' = TRUE /\ jump' = 0 /\ home' = 0 /\ UNCHANGED errexit
  BY DEF Subshell
<1>3. loopDepth \in 0..MaxDepth
  <2>1. Depth \in Nat /\ Depth <= MaxDepth /\ Since(Loops) \in SUBSET (1..Depth)
    BY <1>1, SincePositions
  <2>2. loopDepth = Cardinality(Since(Loops))
    BY <1>1, SinceIs DEF StackOK, CallsOK, Nested, LoopsAt
  <2> QED BY <2>1, <2>2, PositionsFinite, Constants
<1>4. /\ Snapshot \in SubshellSaves
      /\ Snapshot.loopDepth = loopDepth /\ Snapshot.inSubshell = inSubshell
      /\ Snapshot.returnFlag = returnFlag /\ Snapshot.breakCount = breakCount
      /\ Snapshot.continueCount = continueCount /\ Snapshot.jump = jump
  BY <1>1, <1>3 DEF Snapshot, SubshellSaves, FlagsOK
<1> DEFINE f == Frame("subshell", "body", Snapshot)
<1>5. f \in Frames /\ f.kind = "subshell" /\ f.saved = Snapshot
  <2>1. "subshell" \in Kinds /\ "body" \in Phases /\ Snapshot \in Saves
    BY <1>4 DEF Kinds, Homes, Phases, Saves
  <2> QED BY <2>1, NewFrames
<1>6. "subshell" \notin Loops \union {"command"}
  BY DEF Loops
<1>7. RunScript(Append(stack, f))
  BY <1>2
<1>8. ~astray' => StraightCalls(stack) /\ StraightFrame(f)
  BY <1>2, <1>4, <1>5, BeginFacts DEF StraightFrame, Straight
<1> HIDE DEF f
<1>9. /\ CallsOK(stack', 0, TRUE)
      /\ StraightCalls(stack) /\ StraightFrame(f) => StraightCalls(stack')
      /\ ret' \in Rets /\ exitFlag' = FALSE /\ exitCode' \in Codes
  BY <1>1, <1>2, <1>4, <1>5, <1>6, <1>7, PushRun
<1>10. StackOK' /\ FlagsOK'
  BY <1>1, <1>2, <1>9, Constants DEF StackOK, FlagsOK
<1>11. ~astray' => Straight'
  BY <1>2, <1>8, <1>9, NoJump
<1> QED BY <1>2, <1>10, <1>11, BeginFacts DEF CInv

LEMMA StepLoopBegin == CInv /\ LoopBegin => CInv'
<1> SUFFICES ASSUME CInv, LoopBegin PROVE CInv'
  OBVIOUS
<1>1. FlagsOK /\ StackOK
  BY DEF CInv
<1>2. /\ Begin /\ Deeper(2) /\ loopDepth' = loopDepth + 1
      /\ UNCHANGED <<ret, breakCount, continueCount, returnFlag, returnCode, errexit,
                     inSubshell, jump, home>>
      /\ exitFlag' \in BOOLEAN /\ exitCode' \in Codes
  BY <1>1, Constants DEF LoopBegin, counters, returning, exiting, FlagsOK
<1>3. PICK kind \in Loops : stack' = Append(stack, Frame(kind, "next", NoSave))
  BY DEF LoopBegin
<1>4. /\ kind \in Kinds /\ "next" \in Phases /\ NoSave \in Saves
      /\ kind \notin {"command", "function", "subshell", "if"}
  BY DEF Kinds, Phases, Saves, Loops
<1> DEFINE f == Frame(kind, "next", NoSave)
<1>5. f \in Frames /\ f.kind = kind
  BY <1>4, NewFrames
<1>6. StraightFrame(f)
  BY <1>4, <1>5 DEF StraightFrame
<1>7. stack' = Append(stack, f)
  BY <1>3
<1> HIDE DEF f
<1>8. /\ CallsOK(stack, loopDepth, inSubshell)
      /\ Len(stack) + 1 < MaxDepth /\ Len(stack) < MaxDepth
  <2>1. CallsOK(stack, loopDepth, inSubshell) /\ Len(stack) \in Nat
    BY <1>1 DEF StackOK, CallsOK
  <2> QED BY <1>2, <2>1, Constants DEF Deeper, Depth
<1>9. CallsOK(stack', loopDepth + 1, inSubshell) /\ (StraightCalls(stack) => StraightCalls(stack'))
  BY <1>4, <1>5, <1>6, <1>7, <1>8, CallsPush
<1>10. StackOK' /\ FlagsOK'
  BY <1>1, <1>2, <1>9 DEF StackOK, FlagsOK
<1>11. ~astray' => Straight'
  BY <1>2, <1>9, BeginStraight
<1> QED BY <1>2, <1>10, <1>11, BeginFacts DEF CInv

-----------------------------------------------------------------------------
(* Every step.                                                              *)

LEMMA StepStutter == CInv /\ UNCHANGED vars => CInv'
<1> SUFFICES ASSUME CInv, UNCHANGED vars PROVE CInv'
  OBVIOUS
<1>1. UNCHANGED <<stack, ret, breakCount, continueCount, returnFlag, returnCode, exitFlag,
                  exitCode, loopDepth, errexit, inSubshell, jump, home, astray>>
  BY DEF vars, flags, history
<1>2. /\ StackOK' /\ SameAims(stack, stack')
      /\ StraightCalls(stack) => StraightCalls(stack')
  BY <1>1, Stays DEF CInv
<1>3. FlagsOK'
  BY <1>1 DEF CInv, FlagsOK
<1>4. ASSUME Straight PROVE Straight'
  <2>1. Top' = Top
    BY <1>1 DEF Top, Depth
  <2>2. Jumping /\ ret' = NoRet => Top'.kind \in {"script", "list"}
    BY <1>1, <1>4, <2>1 DEF Straight
  <2>3. StraightCalls(stack')
    BY <1>2, <1>4 DEF Straight
  <2> QED BY <1>1, <1>2, <1>4, <2>2, <2>3, KeepsStraight
<1> QED BY <1>1, <1>2, <1>3, <1>4 DEF CInv

LEMMA StepInv == CInv /\ [Next]_vars => CInv'
<1> SUFFICES ASSUME CInv, [Next]_vars PROVE CInv'
  OBVIOUS
<1>1. CASE ExitPending \/ Builtin \/ SetErrexit \/ BreakSubshell \/ ReturnCommand \/ Exit
             \/ CaseNoMatch
  BY <1>1, StepSimple
<1>2. CASE Break \/ Continue
  BY <1>2, StepJump
<1>3. CASE EndScript \/ ScriptStops \/ CompoundEnd \/ NotEnd \/ CommandEnd \/ ListEnd \/ EvalEnd
  BY <1>3, StepEnd
<1>4. CASE ScriptGoesOn \/ ListGoesOn
  BY <1>4, StepGoesOn
<1>5. CASE IfCondition
  BY <1>5, StepIfCondition
<1>6. CASE Round \/ LoopBody
  BY <1>6, StepRound
<1>7. CASE NoMoreWords \/ LoopStops \/ LoopCondition
  BY <1>7, StepLoopEnd
<1>8. CASE LoopBreak \/ LoopContinue
  BY <1>8, StepLoopJump
<1>9. CASE Prefix
  BY <1>9, StepPrefix
<1>10. CASE Compound \/ SourceOrEval
  BY <1>10, StepCompound
<1>11. CASE LoopBegin
  BY <1>11, StepLoopBegin
<1>12. CASE FunctionCall
  BY <1>12, StepFunctionCall
<1>13. CASE FunctionEnd \/ SourceEnd
  BY <1>13, StepHome
<1>14. CASE Subshell
  BY <1>14, StepSubshell
<1>15. CASE SubshellEnd
  BY <1>15, StepSubshellEnd
<1>16. CASE Ended \/ UNCHANGED vars
  BY <1>16, StepStutter DEF Ended
<1> QED BY <1>1, <1>2, <1>3, <1>4, <1>5, <1>6, <1>7, <1>8, <1>9, <1>10, <1>11, <1>12, <1>13,
           <1>14, <1>15, <1>16 DEF Next

LEMMA InvJumpsRight == CInv => JumpsRight
<1> SUFFICES ASSUME CInv PROVE JumpsRight
  OBVIOUS
<1>1. FlagsOK /\ StackOK /\ astray \in BOOLEAN /\ (astray \/ Straight)
  BY DEF CInv
<1>2. Depth \in Nat /\ Depth <= MaxDepth /\ Since(Loops) \in SUBSET (1..Depth)
  BY <1>1, SincePositions
<1>3. /\ loopDepth = Cardinality(Since(Loops)) /\ loopDepth \in 0..MaxDepth
      /\ Since(Loops) \in SUBSET Int
  <2>1. loopDepth = Cardinality(Since(Loops))
    BY <1>1, SinceIs DEF StackOK, CallsOK, Nested, LoopsAt
  <2> QED BY <1>2, <2>1, PositionsFinite, Constants
<1>4. TypeOK
  <2>1. \A i \in 1..Depth : stack[i].kind \in Kinds /\ stack[i].status \in Codes
    <3>1. \A i \in 1..Depth : stack[i] \in Frames
      BY <1>1 DEF StackOK, CallsOK, Depth
    <3> QED BY <3>1 DEF Frames
  <2>2. ret.code \in Codes /\ {ret.done, ret.exit} \subseteq BOOLEAN
    BY <1>1 DEF FlagsOK, Rets
  <2> QED BY <1>1, <1>3, <2>1, <2>2 DEF TypeOK, FlagsOK
<1>5. CountsFitLoops
  <2>1. astray \/ breakCount + continueCount <= loopDepth
    <3>1. CASE Jumping /\ Straight
      <4>1. jump \in Int /\ breakCount + continueCount = Cardinality(From(Since(Loops), jump))
        BY <1>3, <3>1 DEF Straight
      <4>2. Cardinality(From(Since(Loops), jump)) <= Cardinality(Since(Loops))
        BY <1>2, <4>1, FromCount
      <4> QED BY <1>3, <4>1, <4>2
    <3>2. CASE ~Jumping /\ Straight
      <4>1. breakCount = 0 /\ continueCount = 0
        BY <1>1, <3>2, NotJumping
      <4> QED BY <1>3, <4>1
    <3> QED BY <1>1, <3>1, <3>2
  <2>2. inSubshell = (\E i \in 1..Depth : stack[i].kind = "subshell")
    BY <1>1 DEF StackOK, CallsOK, Nested, SubshellAt, Depth, FlagsOK
  <2> QED BY <1>3, <2>1, <2>2 DEF CountsFitLoops
<1>6. JumpReaches
  BY <1>1 DEF JumpReaches, Straight, From
<1>7. ReturnReaches
  BY <1>1 DEF ReturnReaches, Straight
<1> QED BY <1>4, <1>5, <1>6, <1>7 DEF JumpsRight

\* For every nesting of calls: loopDepth counts the loops, a break or continue
\* under way counts the loops up to the one it is for, and a return has not
\* passed its function, as long as no command was run during a jump.
\* (runWhileScript, runForScript, runFunction, runSubshell)
THEOREM JumpsHold == Spec => []JumpsRight
<1>1. Spec => []CInv
  BY InitInv, StepInv, PTL DEF Spec
<1> QED BY <1>1, InvJumpsRight, PTL

-----------------------------------------------------------------------------
(* Where a jump is run past.                                                *)

\* A list or an if, which a jump may come back to.
HasChoice(s) == \E i \in 1..Len(s) : s[i].kind \in {"list", "if"}

\* Where the shell may go on although something is under way: an exit is never
\* seen by the next command of a script, a loop begins no round, and for the
\* rest there is a list or an if to blame.
Seen ==
    /\ exitFlag /\ ret = NoRet /\ stack # <<>> => Top.kind # "script"
    /\ \/ astray
       \/ ret = NoRet /\ stack # <<>> =>
            /\ Top.kind \in Loops => ~returnFlag
            /\ UnderWay /\ Top.kind \notin Loops => HasChoice(stack)

SInv == CInv /\ Seen

LEMMA InitSeen == Init => Seen
<1> SUFFICES ASSUME Init PROVE Seen
  OBVIOUS
<1>1. ~UnderWay /\ ~exitFlag /\ ~returnFlag
  BY DEF Init, UnderWay, Jumping
<1> QED BY <1>1 DEF Seen

\* Steps that return from a call.
LEMMA ReturnsSeen == ret' # NoRet => Seen'
  BY DEF Seen

LEMMA AlwaysReturns ==
    ASSUME NEW code, NEW exit, Return(code, exit)
    PROVE  ret' # NoRet
  BY DEF Return, NoRet

\* Steps after which nothing is under way.
LEMMA NothingSeen == ~UnderWay' => Seen'
  BY DEF Seen, UnderWay

\* A script begins in a command: nothing is under way.
LEMMA RunSeen ==
    ASSUME SInv, Begin, NEW t, RunScript(t), returnFlag' => returnFlag,
           \/ UNCHANGED <<breakCount, continueCount>>
           \/ breakCount' = 0 /\ continueCount' = 0
    PROVE  Seen'
<1>1. exitFlag' = FALSE
  BY DEF RunScript
<1>2. ASSUME ~astray' PROVE ~UnderWay'
  <2>1. ~returnFlag /\ breakCount = 0 /\ continueCount = 0
    BY <1>2, BeginFacts DEF SInv
  <2> QED BY <1>1, <2>1 DEF UnderWay, Jumping
<1> QED BY <1>1, <1>2 DEF Seen, UnderWay

LEMMA StepSeen == SInv /\ [Next]_vars => Seen'
<1> SUFFICES ASSUME SInv, [Next]_vars PROVE Seen'
  OBVIOUS
<1>0. CInv /\ StackOK /\ FlagsOK
  BY DEF SInv, CInv
<1>1. CASE ExitPending \/ Builtin \/ SetErrexit \/ BreakSubshell \/ ReturnCommand \/ Exit
             \/ CaseNoMatch \/ Break \/ Continue
  BY <1>1, ReturnsSeen, AlwaysReturns
     DEF ExitPending, Builtin, SetErrexit, BreakSubshell, ReturnCommand, Exit, CaseNoMatch,
         Break, Continue
<1>2. CASE EndScript \/ ScriptStops \/ CompoundEnd \/ NotEnd \/ CommandEnd \/ ListEnd \/ EvalEnd
             \/ FunctionEnd \/ SourceEnd \/ SubshellEnd
  BY <1>2, ReturnsSeen, AlwaysReturns
     DEF EndScript, ScriptStops, CompoundEnd, AfterInner, NotEnd, CommandEnd, ListEnd, Returned,
         EvalEnd, FunctionEnd, SourceEnd, SubshellEnd
<1>3. CASE NoMoreWords \/ LoopStops \/ LoopBreak
  BY <1>3, ReturnsSeen, AlwaysReturns DEF NoMoreWords, LoopStops, LoopBreak, LeaveLoop
<1>4. CASE ScriptGoesOn
  <2>1. ~UnderWay'
    BY <1>4 DEF ScriptGoesOn, flags, UnderWay, Jumping
  <2> QED BY <2>1, NothingSeen
<1>5. CASE ListGoesOn
  <2>1. /\ stack # <<>> /\ Top.kind = "list" /\ Top' = Top /\ stack' = stack
        /\ "list" \notin Loops
    BY <1>5 DEF ListGoesOn, Returned, Top, Depth, Loops
  <2>2. HasChoice(stack')
    <3>1. Depth \in 1..Len(stack)
      BY <1>0, <2>1, TopFacts DEF Depth
    <3> QED BY <2>1, <3>1 DEF HasChoice, Top
  <2> QED BY <2>1, <2>2 DEF Seen
<1>6. CASE IfCondition
  <2>1. CASE \E phase \in Phases : RunScript([stack EXCEPT ![Depth].phase = phase])
    <3>1. PICK phase \in Phases : RunScript([stack EXCEPT ![Depth].phase = phase])
      BY <2>1
    <3> DEFINE t == [stack EXCEPT ![Depth].phase = phase]
    <3>2. stack # <<>> /\ Top.kind = "if"
      BY <1>6 DEF IfCondition, Returned
    <3>3. t \in Seq(Frames) /\ Len(t) = Depth /\ Depth \in Nat \ {0} /\ t[Len(t)].kind = "if"
      BY <1>0, <3>2, GoesOn, TopFacts, Constants DEF CallsOK
    <3>4. RunScript(t)
      BY <3>1
    <3> HIDE DEF t
    <3>5. stack' = Append(t, Script) /\ exitFlag' = FALSE
      BY <3>3, <3>4 DEF RunScript
    <3>6. HasChoice(stack') /\ Top'.kind = "script"
      <4>1. Len(t) \in 1..Len(stack') /\ stack'[Len(t)] = t[Len(t)] /\ stack'[Len(stack')] = Script
        BY <3>3, <3>5, ScriptFrame
      <4> QED BY <3>3, <4>1, ScriptFrame DEF HasChoice, Top, Depth
    <3>7. "script" \notin Loops
      BY DEF Loops
    <3> QED BY <3>5, <3>6, <3>7 DEF Seen
  <2>2. CASE Return(ExitSuccess, FALSE)
    BY <2>2, ReturnsSeen, AlwaysReturns
  <2> QED BY <1>6, <2>1, <2>2 DEF IfCondition, Phases
<1>7. CASE Compound \/ SourceOrEval \/ FunctionCall \/ Subshell
  <2>1. /\ Begin /\ \E f : RunScript(Append(stack, f))
        /\ returnFlag' => returnFlag
        /\ \/ UNCHANGED <<breakCount, continueCount>>
           \/ breakCount' = 0 /\ continueCount' = 0
    BY <1>7 DEF Compound, SourceOrEval, FunctionCall, Subshell, BeginSimple, counters, returning
  <2> QED BY <2>1, RunSeen
<1>8. CASE Prefix
  <2>1. Begin /\ (exitFlag' => exitFlag) /\ UNCHANGED <<breakCount, continueCount, returnFlag>>
    BY <1>8 DEF Prefix, exiting, counters, returning
  <2>2. ~astray' => ~UnderWay'
    BY <1>0, <2>1, BeginFacts DEF UnderWay, Jumping
  <2>3. Top'.kind # "script"
    <3>1. PICK kind \in {"not", "list", "command"} : \E saved :
            stack' = Append(stack, Frame(kind, "body", saved))
      BY <1>8 DEF Prefix
    <3>2. PICK saved : stack' = Append(stack, Frame(kind, "body", saved))
      BY <3>1
    <3>3. stack'[Len(stack')] = Frame(kind, "body", saved)
      BY <1>0, <3>2 DEF StackOK, CallsOK
    <3> QED BY <3>3 DEF Top, Depth, Frame
  <2> QED BY <2>2, <2>3 DEF Seen, UnderWay
<1>9. CASE LoopBegin
  <2>1. Begin /\ UNCHANGED returnFlag
    BY <1>9 DEF LoopBegin, returning
  <2>2. Top'.kind \in Loops /\ "script" \notin Loops
    <3>1. PICK kind \in Loops : stack' = Append(stack, Frame(kind, "next", NoSave))
      BY <1>9 DEF LoopBegin
    <3>2. stack'[Len(stack')] = Frame(kind, "next", NoSave)
      BY <1>0, <3>1 DEF StackOK, CallsOK
    <3> QED BY <3>2 DEF Top, Depth, Frame, Loops
  <2>3. ~astray' => ~returnFlag'
    BY <1>0, <2>1, BeginFacts
  <2> QED BY <2>2, <2>3 DEF Seen
<1>10. CASE Round
  <2>1. /\ stack # <<>> /\ Top.kind \in Loops /\ ret = NoRet /\ exitFlag' = FALSE
        /\ UNCHANGED <<breakCount, continueCount, returnFlag, astray>>
    BY <1>10 DEF Round, AtLoop, RunScript, counters, returning, history
  <2>2. Top.kind \notin {"script", "list"}
    BY <2>1 DEF Loops
  <2>3. ~astray => ~returnFlag /\ ~Jumping
    BY <2>1, <2>2 DEF SInv, Seen, CInv, Straight
  <2>4. ~astray' => ~UnderWay'
    BY <2>1, <2>3 DEF UnderWay, Jumping
  <2> QED BY <2>1, <2>4 DEF Seen, UnderWay
<1>11. CASE LoopCondition
  <2>1. ~Jumping /\ ~returnFlag /\ UNCHANGED <<breakCount, continueCount, returnFlag>>
    BY <1>11 DEF LoopCondition, LoopGoesOn, counters, returning
  <2>2. CASE RunScript([stack EXCEPT ![Depth].phase = "body"])
    <3>1. ~UnderWay'
      BY <2>1, <2>2 DEF RunScript, UnderWay, Jumping
    <3> QED BY <3>1, NothingSeen
  <2>3. CASE LeaveLoop(Top.status)
    BY <2>3, ReturnsSeen, AlwaysReturns DEF LeaveLoop
  <2> QED BY <1>11, <2>2, <2>3 DEF LoopCondition
<1>12. CASE LoopBody
  <2>1. ~UnderWay'
    BY <1>12 DEF LoopBody, LoopGoesOn, flags, UnderWay, Jumping
  <2> QED BY <2>1, NothingSeen
<1>13. CASE LoopContinue
  <2>1. /\ breakCount = 0 /\ ~returnFlag /\ ~exitFlag
        /\ UNCHANGED <<breakCount, returning, exiting>> /\ continueCount' = continueCount - 1
    BY <1>13 DEF LoopContinue
  <2>2. CASE continueCount = 1
    <3>1. ~UnderWay'
      BY <2>1, <2>2 DEF UnderWay, Jumping, returning, exiting
    <3> QED BY <3>1, NothingSeen
  <2>3. CASE LeaveLoop(LoopStatus)
    BY <2>3, ReturnsSeen, AlwaysReturns DEF LeaveLoop
  <2> QED BY <1>13, <2>2, <2>3 DEF LoopContinue
<1>14. CASE Ended \/ UNCHANGED vars
  <2>1. /\ UNCHANGED <<stack, ret, breakCount, continueCount, returnFlag, exitFlag, astray>>
        /\ Top' = Top /\ (UnderWay' <=> UnderWay)
    BY <1>14 DEF Ended, vars, flags, history, Top, Depth, UnderWay, Jumping
  <2> QED BY <2>1 DEF SInv, Seen
<1> QED BY <1>1, <1>2, <1>3, <1>4, <1>5, <1>6, <1>7, <1>8, <1>9, <1>10, <1>11, <1>12, <1>13,
           <1>14 DEF Next

LEMMA SeenHolds == Spec => []SInv
<1>1. Init => SInv
  BY InitInv, InitSeen DEF SInv
<1>2. SInv /\ [Next]_vars => SInv'
  BY StepInv, StepSeen DEF SInv
<1> QED BY <1>1, <1>2, PTL DEF Spec

\* What the stack holds when a command begins, or a script does.
LEMMA AstrayStep ==
    ASSUME SInv, [Next]_vars, astray', ~astray
    PROVE  \E i \in 1..Depth : stack[i].kind \in {"list", "if"}
<1>1. Begin
  BY DEF Next, Ended, vars, history, ExitPending, Builtin, SetErrexit, Break, Continue,
         BreakSubshell, ReturnCommand, Exit, EndScript, ScriptStops, ScriptGoesOn, Compound,
         CaseNoMatch, IfCondition, CompoundEnd, Prefix, NotEnd, CommandEnd, ListGoesOn, ListEnd,
         LoopBegin, Round, NoMoreWords, LoopStops, LoopBreak, LoopContinue, LoopCondition,
         LoopBody, FunctionCall, FunctionEnd, SourceOrEval, EvalEnd, SourceEnd, Subshell,
         SubshellEnd, BeginSimple
<1>2. /\ UnderWay /\ ret = NoRet /\ stack # <<>>
      /\ Top.kind \in {"script", "list", "not", "command"}
  BY <1>1 DEF Begin, AtCommand, UnderWay
<1>3. Top.kind \notin Loops
  BY <1>2 DEF Loops
<1> QED BY <1>2, <1>3 DEF SInv, Seen, HasChoice, Depth

LEMMA ForgottenStep ==
    ASSUME SInv, [Next]_vars, exitFlag, ~exitFlag'
    PROVE  Top.kind \in {"subshell", "command", "list", "not", "for"}
<1>1. \/ Begin \/ Top.kind = "subshell" \/ Top.kind = "command" \/ Top.kind = "for"
  BY DEF Next, Ended, vars, flags, exiting, ExitPending, Builtin, SetErrexit, Break, Continue,
         BreakSubshell, ReturnCommand, Exit, EndScript, ScriptStops, ScriptGoesOn, Compound,
         CaseNoMatch, IfCondition, CompoundEnd, Prefix, NotEnd, CommandEnd, ListGoesOn, ListEnd,
         LoopBegin, Round, NoMoreWords, LoopStops, LoopBreak, LoopContinue, LoopCondition,
         LoopGoesOn, LoopBody, FunctionCall, FunctionEnd, SourceOrEval, EvalEnd, SourceEnd,
         Subshell, SubshellEnd, Returned, BeginSimple
<1>2. Begin => ret = NoRet /\ stack # <<>> /\ Top.kind \in {"script", "list", "not", "command"}
  BY DEF Begin, AtCommand
<1> QED BY <1>1, <1>2 DEF SInv, Seen

\* For every nesting of calls: a command is run during a jump only with a list
\* or an if around it, and an exit is forgotten only by the five commands that
\* ExitForgotten names.  (runScript, runCommand)
THEOREM FlagsHold == Spec => FlagsKept
<1>1. SInv /\ [Next]_vars =>
        [astray' /\ ~astray => \E i \in 1..Depth : stack[i].kind \in {"list", "if"}]_vars
  BY AstrayStep
<1>2. SInv /\ [Next]_vars =>
        [exitFlag /\ ~exitFlag' => Top.kind \in {"subshell", "command", "list", "not", "for"}]_vars
  BY ForgottenStep
<1>3. Spec => AstrayOnlyInLists
  BY <1>1, SeenHolds, PTL DEF Spec, AstrayOnlyInLists
<1>4. Spec => ExitForgotten
  BY <1>2, SeenHolds, PTL DEF Spec, ExitForgotten
<1> QED BY <1>3, <1>4 DEF FlagsKept

=============================================================================
