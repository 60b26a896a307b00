----------------------------- MODULE Tools_proofs -----------------------------
(***************************************************************************)
(* xargs and timeout run what they are given and tell the truth about it,  *)
(* for any input, options and statuses, and any order of the timer, the    *)
(* command and the goroutine; find visits what it should, once, or says    *)
(* that it did not, for any tree and call, whatever vanishes meanwhile.    *)
(* gzip and gunzip lose nothing, for any files, options, faults and kills: *)
(* for one process, what its inputs hold is always whole somewhere and its *)
(* status is true; for several, it is whole again at the end; for any      *)
(* number of gunzip, other files are left alone.                           *)
(***************************************************************************)
EXTENDS Runners, FindWalk, GzipFiles, SequenceTheorems, FiniteSetTheorems, FunctionTheorems,
        WellFoundedInduction, TLAPS

-----------------------------------------------------------------------------
(* Induction over the numbers, for a set of them.                           *)

LEMMA LeastNumber ==
    ASSUME NEW T \in SUBSET Nat, T # {}
    PROVE  \E n \in T : \A m \in T : n <= m
<1>1. PICK n \in T : \A m \in T : ~(<<m, n>> \in OpToRel(<, Nat))
  BY WFMin, NatLessThanWellFounded
<1>2. ASSUME NEW m \in T PROVE n <= m
  <2>1. m \in Nat /\ n \in Nat /\ ~(<<m, n>> \in OpToRel(<, Nat))
    BY <1>1
  <2>2. ~(m < n)
    BY <2>1 DEF OpToRel
  <2>3. \A a, b \in Nat : ~(a < b) => b <= a
    OBVIOUS
  <2> QED BY <2>1, <2>2, <2>3
<1> QED BY <1>2

LEMMA AllNumbers ==
    ASSUME NEW T, 0 \in T, \A n \in Nat : n \in T => n + 1 \in T
    PROVE  \A n \in Nat : n \in T
<1> SUFFICES ASSUME Nat \ T # {} PROVE FALSE
  OBVIOUS
<1>1. PICK n \in Nat \ T : \A m \in Nat \ T : n <= m
  BY LeastNumber
<1>2. n # 0 /\ n - 1 \in Nat
  BY <1>1
<1>3. n - 1 \in T
  BY <1>1, <1>2
<1> QED BY <1>1, <1>2, <1>3

-----------------------------------------------------------------------------
(* FlattenSeq.                                                              *)

\* f[i] is the first i sequences of s, one after the other.
Flattens(f, s) == f = [i \in 1..Len(s) |-> IF i = 1 THEN s[i] ELSE f[i - 1] \o s[i]]

LEMMA FlattensAt ==
    ASSUME NEW s, NEW f, Flattens(f, s), NEW i \in 1..Len(s)
    PROVE  f[i] = IF i = 1 THEN s[i] ELSE f[i - 1] \o s[i]
<1> DEFINE Row(h, j) == IF j = 1 THEN s[j] ELSE h[j - 1] \o s[j]
<1>1. f = [j \in 1..Len(s) |-> Row(f, j)]
  BY DEF Flattens
<1> HIDE DEF Row
<1>2. f[i] = Row(f, i)
  BY <1>1
<1> QED BY <1>2 DEF Row

LEMMA FlattensOnce ==
    ASSUME NEW S, NEW s \in Seq(Seq(S)), NEW f, NEW g, Flattens(f, s), Flattens(g, s)
    PROVE  f = g
<1> DEFINE T == {m \in Nat : m \in 1..Len(s) => f[m] = g[m]}
<1>1. Len(s) \in Nat
  OBVIOUS
<1>2. 0 \in T
  OBVIOUS
<1>3. ASSUME NEW m \in Nat, m \in T PROVE m + 1 \in T
  <2>1. CASE m + 1 \in 1..Len(s)
    <3>1. f[m + 1] = IF m + 1 = 1 THEN s[m + 1] ELSE f[m + 1 - 1] \o s[m + 1]
      BY <2>1, FlattensAt
    <3>2. g[m + 1] = IF m + 1 = 1 THEN s[m + 1] ELSE g[m + 1 - 1] \o s[m + 1]
      BY <2>1, FlattensAt
    <3>3. m + 1 # 1 => f[m] = g[m]
      BY <1>1, <1>3, <2>1
    <3>4. m + 1 - 1 = m
      OBVIOUS
    <3> QED BY <3>1, <3>2, <3>3, <3>4
  <2> QED BY <2>1
<1> HIDE DEF T
<1>4. \A m \in Nat : m \in T
  BY <1>2, <1>3, AllNumbers
<1>5. \A m \in 1..Len(s) : f[m] = g[m]
  BY <1>4 DEF T
<1>6. DOMAIN f = 1..Len(s) /\ DOMAIN g = 1..Len(s)
  BY DEF Flattens
<1>7. f = [m \in 1..Len(s) |-> f[m]] /\ g = [m \in 1..Len(s) |-> g[m]]
  BY DEF Flattens
<1> QED BY <1>5, <1>7

LEMMA FlattenIs ==
    ASSUME NEW S, NEW s \in Seq(Seq(S)), s # <<>>, NEW f, Flattens(f, s)
    PROVE  FlattenSeq(s) = f[Len(s)]
<1> DEFINE g == CHOOSE g : Flattens(g, s)
<1>1. FlattenSeq(s) = g[Len(s)]
  BY DEF FlattenSeq, Flattens
<1>2. Flattens(g, s)
  OBVIOUS
<1> HIDE DEF g
<1> QED BY <1>1, <1>2, FlattensOnce

\* There is such a function, and its values are sequences.
LEMMA FlattensExists ==
    ASSUME NEW S, NEW s \in Seq(Seq(S))
    PROVE  \E f \in [1..Len(s) -> Seq(S)] : Flattens(f, s)
<1> DEFINE Upto(f, m) == \A i \in 1..m : f[i] = IF i = 1 THEN s[i] ELSE f[i - 1] \o s[i]
           There(m) == \E f \in [1..m -> Seq(S)] : Upto(f, m)
           T == {m \in Nat : m <= Len(s) => There(m)}
<1>1. Len(s) \in Nat
  OBVIOUS
<1>2. 0 \in T
  <2>1. 1..0 = {}
    OBVIOUS
  <2>2. [i \in {} |-> <<>>] \in [{} -> Seq(S)] /\ \A f : Upto(f, 0)
    BY <2>1
  <2> QED BY <2>1, <2>2
<1>3. ASSUME NEW m \in Nat, m \in T PROVE m + 1 \in T
  <2> HIDE DEF There
  <2> SUFFICES ASSUME m + 1 <= Len(s) PROVE There(m + 1)
    OBVIOUS
  <2>0. There(m)
    BY <1>1, <1>3
  <2> USE DEF There
  <2>1. PICK f \in [1..m -> Seq(S)] : Upto(f, m)
    BY <2>0
  <2>2. s[m + 1] \in Seq(S)
    BY <1>1
  <2> DEFINE last == IF m + 1 = 1 THEN s[m + 1] ELSE f[m] \o s[m + 1]
             g == [i \in 1..m + 1 |-> IF i = m + 1 THEN last ELSE f[i]]
  <2>3. last \in Seq(S)
    <3>1. CASE m = 0
      BY <2>2, <3>1
    <3>2. CASE m # 0
      <4>1. f[m] \in Seq(S)
        BY <2>1, <3>2
      <4> QED BY <2>2, <4>1, ConcatProperties
    <3> QED BY <3>1, <3>2
  <2> HIDE DEF last
  <2>4. g \in [1..m + 1 -> Seq(S)]
    BY <2>1, <2>3
  <2>5. ASSUME NEW i \in 1..m + 1
        PROVE  g[i] = IF i = 1 THEN s[i] ELSE g[i - 1] \o s[i]
    <3>1. CASE i = m + 1
      <4>1. g[i] = last
        BY <3>1
      <4>2. i # 1 => g[i - 1] = f[m]
        BY <3>1
      <4> QED BY <3>1, <4>1, <4>2 DEF last
    <3>2. CASE i # m + 1
      <4>1. i \in 1..m /\ g[i] = f[i]
        BY <3>2
      <4>2. i # 1 => g[i - 1] = f[i - 1]
        BY <4>1
      <4>3. f[i] = IF i = 1 THEN s[i] ELSE f[i - 1] \o s[i]
        BY <2>1, <4>1
      <4> QED BY <4>1, <4>2, <4>3
    <3> QED BY <3>1, <3>2
  <2> QED BY <2>4, <2>5
<1> HIDE DEF T
<1>4. Len(s) \in T
  BY <1>1, <1>2, <1>3, AllNumbers
<1>5. PICK f \in [1..Len(s) -> Seq(S)] : Upto(f, Len(s))
  BY <1>1, <1>4 DEF T
<1>6. f = [i \in 1..Len(s) |-> f[i]]
  OBVIOUS
<1>7. Flattens(f, s)
  BY <1>5, <1>6 DEF Flattens
<1> QED BY <1>7

LEMMA FlattenType ==
    ASSUME NEW S, NEW s \in Seq(Seq(S))
    PROVE  FlattenSeq(s) \in Seq(S)
<1>1. CASE s = <<>>
  BY <1>1 DEF FlattenSeq
<1>2. CASE s # <<>>
  <2>1. PICK f \in [1..Len(s) -> Seq(S)] : Flattens(f, s)
    BY FlattensExists
  <2>2. Len(s) \in 1..Len(s)
    BY <1>2
  <2>3. f[Len(s)] \in Seq(S)
    BY <2>1, <2>2
  <2>4. FlattenSeq(s) = f[Len(s)]
    BY <1>2, <2>1, FlattenIs
  <2> QED BY <2>3, <2>4
<1> QED BY <1>1, <1>2

\* One more sequence.
LEMMA FlattenAppend ==
    ASSUME NEW S, NEW s \in Seq(Seq(S)), NEW x \in Seq(S)
    PROVE  FlattenSeq(Append(s, x)) = FlattenSeq(s) \o x
<1> DEFINE n == Len(s)
           t == Append(s, x)
<1>1. n \in Nat /\ t \in Seq(Seq(S)) /\ Len(t) = n + 1 /\ t[n + 1] = x /\ t # <<>>
      /\ \A i \in 1..n : t[i] = s[i]
  OBVIOUS
<1>2. PICK f \in [1..Len(t) -> Seq(S)] : Flattens(f, t)
  BY <1>1, FlattensExists
<1>3. FlattenSeq(t) = f[n + 1]
  BY <1>1, <1>2, FlattenIs
<1> HIDE DEF t
<1>4. \A i \in 1..n + 1 : f[i] = IF i = 1 THEN t[i] ELSE f[i - 1] \o t[i]
  <2> SUFFICES ASSUME NEW i \in 1..n + 1
               PROVE  f[i] = IF i = 1 THEN t[i] ELSE f[i - 1] \o t[i]
    OBVIOUS
  <2>1. i \in 1..Len(t)
    BY <1>1
  <2> QED BY <1>2, <2>1, FlattensAt
<1>5. CASE s = <<>>
  <2>1. n = 0 /\ FlattenSeq(s) = <<>>
    BY <1>5 DEF FlattenSeq
  <2>2. f[n + 1] = x
    BY <1>1, <1>4, <2>1
  <2> QED BY <1>3, <2>1, <2>2, ConcatEmptySeq DEF t
<1>6. CASE s # <<>>
  <2>1. n \in 1..n /\ n + 1 \in 1..n + 1 /\ n + 1 # 1 /\ n + 1 - 1 = n
    BY <1>1, <1>6
  <2> DEFINE g == [i \in 1..n |-> f[i]]
  <2>2. ASSUME NEW i \in 1..n PROVE g[i] = IF i = 1 THEN s[i] ELSE g[i - 1] \o s[i]
    <3>0. i \in 1..n + 1 /\ t[i] = s[i]
      BY <1>1
    <3>1. f[i] = IF i = 1 THEN t[i] ELSE f[i - 1] \o t[i]
      BY <3>0, <1>4
    <3>2. i # 1 => g[i - 1] = f[i - 1]
      BY <1>1
    <3> QED BY <3>0, <3>1, <3>2
  <2>3. Flattens(g, s)
    BY <2>2 DEF Flattens
  <2>4. FlattenSeq(s) = g[n]
    BY <1>6, <2>3, FlattenIs
  <2>6. n + 1 \in 1..Len(t)
    BY <1>1
  <2> DEFINE k == n + 1
  <2>7. k \in 1..Len(t) /\ k # 1 /\ k - 1 = n /\ t[k] = x
    BY <1>1, <2>1, <2>6
  <2> HIDE DEF k, n
  <2>8. f[k] = IF k = 1 THEN t[k] ELSE f[k - 1] \o t[k]
    BY <1>2, <2>7, FlattensAt
  <2>9. f[k] = f[n] \o x
    BY <2>7, <2>8
  <2>5. f[n + 1] = f[n] \o x
    BY <2>9 DEF k
  <2> QED BY <1>3, <2>1, <2>4, <2>5 DEF t
<1> QED BY <1>5, <1>6

-----------------------------------------------------------------------------
(* The calls: the input is lines of words; -n and -s are numbers, 0 when not given. *)

Words == [name : STRING, len : Nat]

XargsCalls ==
    [tool : {"xargs"}, lines : Seq(Seq(Words)), maxArgs : Nat, maxSize : Nat, noRun : BOOLEAN,
     eofOn : BOOLEAN, eof : STRING, zero : BOOLEAN, base : Nat]
TimeoutCalls == [tool : {"timeout"}, sig : STRING, ignores : BOOLEAN]

LEMMA LeastIn ==
    ASSUME NEW I \in SUBSET Nat, I # {}
    PROVE  Min(I) \in I /\ \A m \in I : Min(I) <= m
<1>1. \E n \in I : \A m \in I : n <= m
  BY LeastNumber
<1> QED BY <1>1 DEF Min

\* What comes before the first element that ends the input.
LEMMA BeforeIs ==
    ASSUME NEW S, NEW s \in Seq(S), NEW E
    PROVE  /\ Before(s, E) \in Seq(S)
           /\ \E n \in 0..Len(s) : /\ Before(s, E) = SubSeq(s, 1, n)
                                   /\ \A i \in 1..n : s[i] \notin E
                                   /\ n # Len(s) => s[n + 1] \in E
<1> DEFINE I == {i \in 1..Len(s) : s[i] \in E}
           k == IF I # {} THEN Min(I) ELSE 0
           n == IF k = 0 THEN Len(s) ELSE k - 1
<1>1. Before(s, E) = IF k = 0 THEN s ELSE SubSeq(s, 1, k - 1)
  BY DEF Before, SelectInSeq
<1>2. Len(s) \in Nat /\ I \in SUBSET Nat
  OBVIOUS
<1>3. CASE I = {}
  <2>1. k = 0 /\ Before(s, E) = s
    BY <1>1, <1>3
  <2>2. s = SubSeq(s, 1, Len(s))
    BY SubSeqFull
  <2>3. \A i \in 1..Len(s) : s[i] \notin E
    BY <1>3
  <2>4. Len(s) \in 0..Len(s)
    BY <1>2
  <2> QED BY <2>1, <2>2, <2>3, <2>4
<1>4. CASE I # {}
  <2>1. k \in I /\ \A m \in I : k <= m
    BY <1>2, <1>4, LeastIn
  <2> HIDE DEF k
  <2>2. k \in 1..Len(s) /\ s[k] \in E
    BY <2>1
  <2>3. k # 0 /\ k - 1 \in 0..Len(s) /\ k - 1 + 1 = k
    BY <1>2, <2>2
  <2>4. Before(s, E) = SubSeq(s, 1, k - 1)
    BY <1>1, <2>3
  <2>5. ASSUME NEW i \in 1..k - 1 PROVE s[i] \notin E
    <3>1. i \in 1..Len(s) /\ ~(k <= i)
      BY <1>2, <2>2
    <3> QED BY <2>1, <3>1
  <2>6. Before(s, E) \in Seq(S)
    <3>1. k - 1 \in Int /\ \A i \in 1..k - 1 : s[i] \in S
      BY <1>2, <2>2
    <3> QED BY <2>4, <3>1, SubSeqProperties
  <2> QED BY <2>2, <2>3, <2>4, <2>5, <2>6
<1> QED BY <1>3, <1>4

\* The words that are given to commands are those up to the logical end.
LEMMA ReadWordsRight ==
    ASSUME NEW c \in XargsCalls
    PROVE  ReadWords(c) \in Seq(Words) /\ UpToEnd(c, ReadWords(c))
<1> DEFINE words == FlattenSeq(c.lines)
           ends == {w \in ToSet(words) : w.name = c.eof}
<1>1. c.lines \in Seq(Seq(Words)) /\ words \in Seq(Words)
  <2>1. c.lines \in Seq(Seq(Words))
    BY DEF XargsCalls
  <2> QED BY <2>1, FlattenType
<1>2. CASE c.zero \/ ~c.eofOn
  <2>1. ReadWords(c) = words
    BY <1>2 DEF ReadWords
  <2> QED BY <1>1, <1>2, <2>1 DEF UpToEnd
<1>3. CASE ~(c.zero \/ ~c.eofOn) /\ c.eof = ""
  <2> DEFINE b == Before(c.lines, {<<>>})
  <2>1. ReadWords(c) = FlattenSeq(b)
    BY <1>3 DEF ReadWords
  <2>2. b \in Seq(Seq(Words))
    BY <1>1, BeforeIs
  <2>3. PICK n \in 0..Len(c.lines) : /\ b = SubSeq(c.lines, 1, n)
                                     /\ \A i \in 1..n : c.lines[i] \notin {<<>>}
                                     /\ n # Len(c.lines) => c.lines[n + 1] \in {<<>>}
    BY <1>1, BeforeIs
  <2> HIDE DEF b
  <2>4. ReadWords(c) = FlattenSeq(SubSeq(c.lines, 1, n))
    BY <2>1, <2>3
  <2>5. ReadWords(c) \in Seq(Words)
    BY <2>1, <2>2, FlattenType
  <2>6. UpToEnd(c, ReadWords(c))
    <3>1. \E k \in 0..Len(c.lines) : /\ ReadWords(c) = FlattenSeq(SubSeq(c.lines, 1, k))
                                     /\ \A i \in 1..k : c.lines[i] # <<>>
                                     /\ k # Len(c.lines) => c.lines[k + 1] = <<>>
      <4>1. \A i \in 1..n : c.lines[i] # <<>>
        BY <2>3
      <4>2. n # Len(c.lines) => c.lines[n + 1] = <<>>
        BY <2>3
      <4> QED BY <2>4, <4>1, <4>2
    <3>2. c.eofOn /\ ~c.zero /\ c.eof = ""
      BY <1>3
    <3> HIDE DEF words, ends
    <3> QED BY <3>1, <3>2 DEF UpToEnd
  <2> QED BY <2>5, <2>6
<1>4. CASE ~(c.zero \/ ~c.eofOn) /\ c.eof # ""
  <2>1. ReadWords(c) = Before(words, ends)
    BY <1>4 DEF ReadWords
  <2> HIDE DEF words, ends
  <2>2. PICK n \in 0..Len(words) : /\ Before(words, ends) = SubSeq(words, 1, n)
                                   /\ \A i \in 1..n : words[i] \notin ends
                                   /\ n # Len(words) => words[n + 1] \in ends
    BY <1>1, BeforeIs
  <2>3. Len(words) \in Nat /\ \A i \in 1..Len(words) : (words[i] \in ends <=> words[i].name = c.eof)
    BY <1>1 DEF ends, ToSet
  <2>4. ASSUME NEW i \in 1..n PROVE words[i].name # c.eof
    <3>1. i \in 1..Len(words)
      BY <2>3
    <3> QED BY <2>2, <2>3, <3>1
  <2>5. ASSUME n # Len(words) PROVE words[n + 1].name = c.eof
    <3>1. n + 1 \in 1..Len(words)
      BY <2>3, <2>5
    <3> QED BY <2>2, <2>3, <2>5, <3>1
  <2>6. ReadWords(c) \in Seq(Words)
    BY <1>1, <2>1, BeforeIs
  <2>7. ReadWords(c) = SubSeq(words, 1, n)
    BY <2>1, <2>2
  <2> USE DEF words
  <2>8. UpToEnd(c, ReadWords(c))
    BY <1>4, <2>4, <2>5, <2>7 DEF UpToEnd
  <2> QED BY <2>6, <2>8
<1> QED BY <1>2, <1>3, <1>4

-----------------------------------------------------------------------------
(* The batch of the next command is the first n words, for an n that the     *)
(* options allow and, with -s, that cannot be larger.                        *)

Batch(c, w, n) ==
    /\ n \in 0..Len(w) /\ (w # <<>> => n # 0)
    /\ NextBatch(c, w) = SubSeq(w, 1, n)
    /\ (c.maxSize = 0 /\ c.maxArgs > 0) => n <= c.maxArgs /\ (n = Len(w) \/ n = c.maxArgs)
    /\ c.maxSize > 0 =>
          /\ n = 1 \/ Fits(c, SubSeq(w, 1, n))
          /\ n = Len(w) \/ ~Fits(c, SubSeq(w, 1, n + 1))
    /\ (c.maxSize = 0 /\ c.maxArgs = 0) => n = Len(w)

LEMMA BatchSize ==
    ASSUME NEW c \in XargsCalls, NEW w \in Seq(Words), w # <<>>, c.maxSize > 0
    PROVE  \E n \in 0..Len(w) : Batch(c, w, n)
<1> DEFINE fits(n) == Fits(c, SubSeq(w, 1, n))
           Ok(n) == (n = Len(w) \/ ~fits(n + 1)) /\ \A m \in 2..n : fits(m)
           T == {n \in 1..Len(w) : n = Len(w) \/ ~fits(n + 1)}
           n == CHOOSE n \in 1..Len(w) : Ok(n)
<1>1. Len(w) \in Nat /\ Len(w) # 0 /\ c.maxSize \in Nat
  BY DEF XargsCalls
<1>2. NextBatch(c, w) = SubSeq(w, 1, n)
  <2>1. NextBatch(c, w) = BatchBySize(c, w)
    BY <1>1 DEF NextBatch
  <2>2. BatchBySize(c, w) = SubSeq(w, 1, n)
    BY DEF BatchBySize, Fits
  <2> QED BY <2>1, <2>2
<1> HIDE DEF fits
<1>3. \E l \in 1..Len(w) : Ok(l)
  <2>1. T \in SUBSET Nat /\ Len(w) \in T
    BY <1>1
  <2>2. PICK l \in T : \A m \in T : l <= m
    BY <2>1, LeastNumber
  <2>3. ASSUME NEW m \in 2..l PROVE fits(m)
    <3>1. m - 1 \in 1..Len(w) /\ m - 1 < l /\ m - 1 + 1 = m /\ m - 1 # Len(w)
      BY <1>1, <2>2
    <3>2. ASSUME m - 1 \in T PROVE FALSE
      <4> HIDE DEF T
      <4>1. l <= m - 1 /\ l \in Nat
        BY <2>1, <2>2, <3>2
      <4> QED BY <3>1, <4>1
    <3> QED BY <3>1, <3>2
  <2>4. Ok(l) /\ l \in 1..Len(w)
    BY <2>2, <2>3
  <2> QED BY <2>4
<1> HIDE DEF Ok
<1>4. n \in 1..Len(w) /\ Ok(n)
  BY <1>3
<1> HIDE DEF n
<1>5. n = 1 \/ fits(n)
  BY <1>1, <1>4 DEF Ok
<1>6. n = Len(w) \/ ~fits(n + 1)
  BY <1>4 DEF Ok
<1>7. n \in 0..Len(w) /\ n # 0
  BY <1>1, <1>4
<1> QED BY <1>1, <1>2, <1>5, <1>6, <1>7 DEF Batch, fits

LEMMA BatchIs ==
    ASSUME NEW c \in XargsCalls, NEW w \in Seq(Words), w # <<>> \/ RunsEmpty(c)
    PROVE  \E n \in 0..Len(w) : Batch(c, w, n)
<1>1. Len(w) \in Nat /\ c.maxSize \in Nat /\ c.maxArgs \in Nat /\ (w # <<>> => Len(w) # 0)
  BY DEF XargsCalls
<1>2. CASE c.maxSize > 0
  BY <1>1, <1>2, BatchSize DEF RunsEmpty
<1>3. CASE c.maxSize = 0 /\ c.maxArgs > 0
  <2> DEFINE n == IF c.maxArgs < Len(w) THEN c.maxArgs ELSE Len(w)
  <2>1. NextBatch(c, w) = SubSeq(w, 1, n)
    BY <1>1, <1>3 DEF NextBatch, BatchByArgs
  <2>2. n \in 0..Len(w) /\ n <= c.maxArgs /\ (w # <<>> => n # 0) /\ (n = Len(w) \/ n = c.maxArgs)
    BY <1>1, <1>3
  <2> HIDE DEF n
  <2> QED BY <1>1, <1>3, <2>1, <2>2 DEF Batch
<1>4. CASE c.maxSize = 0 /\ c.maxArgs = 0
  <2>1. NextBatch(c, w) = w
    BY <1>4 DEF NextBatch
  <2>2. w = SubSeq(w, 1, Len(w))
    BY SubSeqFull
  <2>3. Batch(c, w, Len(w))
    BY <1>1, <1>4, <2>1, <2>2 DEF Batch
  <2> QED BY <1>1, <2>3
<1> QED BY <1>1, <1>2, <1>3, <1>4

\* What is given and what is left are all the words, and the one that comes next is the
\* one that did not fit.
LEMMA BatchAndRest ==
    ASSUME NEW w \in Seq(Words), NEW n \in 0..Len(w)
    PROVE  LET b == SubSeq(w, 1, n)
               rest == SubSeq(w, n + 1, Len(w))
           IN /\ b \in Seq(Words) /\ Len(b) = n
              /\ rest \in Seq(Words) /\ (rest = <<>> <=> n = Len(w))
              /\ b \o rest = w
              /\ n # 0 => b[1] = w[1]
              /\ n # Len(w) => Append(b, rest[1]) = SubSeq(w, 1, n + 1)
<1> DEFINE b == SubSeq(w, 1, n)
           rest == SubSeq(w, n + 1, Len(w))
<1>1. Len(w) \in Nat /\ n \in Nat /\ n <= Len(w) /\ \A i \in 1..Len(w) : w[i] \in Words
  OBVIOUS
<1>2. b \in Seq(Words) /\ Len(b) = (IF 1 <= n THEN n - 1 + 1 ELSE 0) /\ \A i \in 1..n - 1 + 1 : b[i] = w[1 + i - 1]
  <2>1. \A i \in 1..n : w[i] \in Words
    BY <1>1
  <2> QED BY <1>1, <2>1, SubSeqProperties
<1>3. /\ rest \in Seq(Words)
      /\ Len(rest) = (IF n + 1 <= Len(w) THEN Len(w) - (n + 1) + 1 ELSE 0)
      /\ \A i \in 1..Len(w) - (n + 1) + 1 : rest[i] = w[n + 1 + i - 1]
  <2>1. n + 1 \in Int /\ Len(w) \in Int /\ \A i \in n + 1..Len(w) : w[i] \in Words
    BY <1>1
  <2> QED BY <2>1, SubSeqProperties
<1>4. b \o rest = w
  <2>1. 1 \in 1..Len(w) + 1 /\ n \in 1 - 1..Len(w) /\ Len(w) \in n..Len(w)
    BY <1>1
  <2>2. b \o rest = SubSeq(w, 1, Len(w))
    BY <2>1, ConcatAdjacentSubSeq
  <2> QED BY <2>2, SubSeqFull
<1>5. ASSUME n # Len(w) PROVE Append(b, rest[1]) = SubSeq(w, 1, n + 1)
  <2>1. 1 \in 1..Len(w) /\ n + 1 \in 1..Len(w) /\ n + 1 - 1 = n
    BY <1>1, <1>5
  <2>2. SubSeq(w, 1, n + 1) = SubSeq(w, 1, n + 1 - 1) \o <<w[n + 1]>>
    BY <2>1, SubSeqRecursiveSecond
  <2>3. rest[1] = w[n + 1] /\ w[n + 1] \in Words
    <3>1. 1 \in 1..Len(w) - (n + 1) + 1 /\ n + 1 + 1 - 1 = n + 1
      BY <1>1, <1>5
    <3>2. rest[1] = w[n + 1 + 1 - 1]
      BY <1>3, <3>1
    <3> QED BY <1>1, <2>1, <3>1, <3>2
  <2>4. Append(b, rest[1]) = b \o <<rest[1]>>
    BY <1>2, <2>3, AppendIsConcat
  <2> HIDE DEF rest
  <2> QED BY <2>1, <2>2, <2>3, <2>4
<1>6. n # 0 => b[1] = w[1]
  <2>1. n # 0 => 1 \in 1..n - 1 + 1 /\ 1 + 1 - 1 = 1
    BY <1>1
  <2> QED BY <1>2, <2>1
<1>7. Len(b) = n
  BY <1>1, <1>2
<1>8. rest = <<>> <=> n = Len(w)
  <2> HIDE DEF rest
  <2>1. rest = <<>> <=> Len(rest) = 0
    BY <1>3
  <2> QED BY <1>1, <1>3, <2>1
<1> HIDE DEF b, rest
<1>9. /\ b \in Seq(Words) /\ Len(b) = n
      /\ rest \in Seq(Words) /\ (rest = <<>> <=> n = Len(w))
      /\ b \o rest = w
      /\ n # 0 => b[1] = w[1]
      /\ n # Len(w) => Append(b, rest[1]) = SubSeq(w, 1, n + 1)
  BY <1>2, <1>3, <1>4, <1>5, <1>6, <1>7, <1>8
<1> QED BY <1>9 DEF b, rest

-----------------------------------------------------------------------------
(* The inductive invariant.                                                  *)

Statuses == Codes \union {BySignal, NotYet, 0, 1, 143}

RunFields ==
    [call : XargsCalls \union TimeoutCalls, todo : Seq(Words), batches : Seq(Seq(Words)),
     ends : Seq(Codes \union {BySignal}), rc : Statuses, pc : {"batch", "start", "select", "over"},
     child : {"none", "running", "ended", "reaped"}, status : Statuses,
     done : {<<>>} \union {<<code>> : code \in Statuses}, fired : BOOLEAN, sent : BOOLEAN]

\* What a command was given is within the options, and the command after it starts with a
\* word that would have been too much.
BatchesFit ==
    LET b == run.batches
    IN /\ \A i \in 1..Len(b) : WithinLimits(C, b[i])
       /\ \A i \in 1..Len(b) - 1 : Full(C, b[i], b[i + 1][1])
\* So does the command that is next.
NextTooMuch ==
    LET b == run.batches
    IN (b # <<>> /\ run.todo # <<>>) => Full(C, b[Len(b)], run.todo[1])
\* The status of the last command that failed.
LastFailure(ends, rc) ==
    \/ rc = 0 /\ \A i \in 1..Len(ends) : ends[i] = 0
    \/ \E i \in 1..Len(ends) : ends[i] = rc /\ rc # 0 /\ \A j \in 1..Len(ends) : j > i => ends[j] = 0
XargsInv ==
    C.tool = "xargs" =>
        /\ C \in XargsCalls
        /\ run.pc \in {"batch", "over"} /\ run.child = "none"
        /\ run.pc = "over" => run.todo = <<>>
        /\ FlattenSeq(run.batches) \o run.todo = ReadWords(C)
        /\ run.batches # <<>> /\ run.todo = <<>> => run.pc = "over"
        /\ BatchesFit /\ NextTooMuch
        /\ LastFailure(run.ends, run.rc)

\* The channel done holds the status of a command that was waited for, and the tool that
\* did not wait to the end has sent the signal.
Verdict ==
    \/ run.child = "none" /\ run.rc = 1
    \/ run.child = "reaped" /\ run.rc = run.status /\ ~run.sent
    \/ run.fired /\ (run.sent \/ run.child = "reaped") /\ run.rc = SignalStatus(C.sig)
TimeoutInv ==
    C.tool = "timeout" =>
        /\ run.pc \in {"start", "select", "over"}
        /\ run.pc = "start" => run.child = "none" /\ ~run.sent
        /\ run.pc = "select" => run.child # "none" /\ ~run.sent
        /\ (run.pc = "select" /\ run.child = "reaped") => run.done = <<run.status>>
        /\ run.done # <<>> => run.child = "reaped" /\ run.done = <<run.status>>
        /\ run.sent => run.fired /\ run.pc = "over"
        /\ run.pc = "over" => Verdict

RunInv == run \in RunFields /\ XargsInv /\ TimeoutInv

LEMMA InvImplies ==
    ASSUME RunInv
    PROVE  RunnersRight
<1>1. run.batches \in Seq(Seq(Words)) /\ run.ends \in Seq(Codes \union {BySignal}) /\ run.todo \in Seq(Words)
  BY DEF RunInv, RunFields
<1>2. DOMAIN run.batches = 1..Len(run.batches) /\ DOMAIN run.ends = 1..Len(run.ends)
      /\ Len(run.batches) \in Nat
  BY <1>1
<1>3. VerdictTrue
  BY DEF RunInv, TimeoutInv, Verdict, SignalStatus, VerdictTrue, ToolOver
<1>4. FailuresTold
  BY <1>2 DEF RunInv, XargsInv, LastFailure, FailuresTold, ToolOver
<1>5. ASSUME C.tool = "xargs", ToolOver PROVE AllWordsRun
  <2>1. C \in XargsCalls /\ run.todo = <<>> /\ FlattenSeq(run.batches) \o run.todo = ReadWords(C) /\ BatchesFit
    BY <1>5 DEF RunInv, XargsInv, ToolOver
  <2>2. FlattenSeq(run.batches) = ReadWords(C)
    <3>1. FlattenSeq(run.batches) \in Seq(Words)
      BY <1>1, FlattenType
    <3>2. FlattenSeq(run.batches) \o <<>> = FlattenSeq(run.batches)
      BY <3>1, ConcatEmptySeq
    <3> QED BY <2>1, <3>2
  <2> DEFINE b == run.batches
  <2>3. ASSUME NEW i \in 1..Len(b) PROVE WithinLimits(C, b[i])
    BY <2>1 DEF BatchesFit
  <2>4. ASSUME NEW i \in 1..Len(b), i # Len(b) PROVE Full(C, b[i], b[i + 1][1])
    <3>1. i \in 1..Len(b) - 1
      BY <1>2, <2>4
    <3> QED BY <2>1, <3>1 DEF BatchesFit
  <2>5. UpToEnd(C, FlattenSeq(b))
    BY <2>1, <2>2, ReadWordsRight
  <2> QED BY <1>2, <2>3, <2>4, <2>5 DEF AllWordsRun
<1>6. AllWordsRun
  BY <1>5 DEF AllWordsRun
<1> QED BY <1>3, <1>4, <1>6 DEF RunnersRight

LEMMA InvInit ==
    ASSUME NEW calls \in SUBSET (XargsCalls \union TimeoutCalls), RunInit(calls)
    PROVE  RunInv
<1>1. PICK c \in calls :
          run = [call |-> c, todo |-> IF c.tool = "xargs" THEN ReadWords(c) ELSE <<>>, batches |-> <<>>, ends |-> <<>>, rc |-> 0,
                 pc |-> IF c.tool = "xargs" THEN "batch" ELSE "start",
                 child |-> "none", status |-> NotYet, done |-> <<>>, fired |-> FALSE, sent |-> FALSE]
  BY DEF RunInit
<1> DEFINE todo == IF c.tool = "xargs" THEN ReadWords(c) ELSE <<>>
           pc == IF c.tool = "xargs" THEN "batch" ELSE "start"
<1>2. c.tool = "xargs" => c \in XargsCalls
  BY DEF XargsCalls, TimeoutCalls
<1>3. todo \in Seq(Words)
  BY <1>2, ReadWordsRight
<1>4. pc \in {"batch", "start"} /\ (c.tool = "xargs" => pc = "batch") /\ (c.tool = "timeout" => pc = "start")
  OBVIOUS
<1>5. c.tool = "xargs" => todo = ReadWords(c)
  OBVIOUS
<1> HIDE DEF todo, pc
<1>6. run = [call |-> c, todo |-> todo, batches |-> <<>>, ends |-> <<>>, rc |-> 0, pc |-> pc,
             child |-> "none", status |-> NotYet, done |-> <<>>, fired |-> FALSE, sent |-> FALSE]
  BY <1>1 DEF todo, pc
<1>7. run \in RunFields
  BY <1>3, <1>4, <1>6 DEF RunFields, Statuses
<1>8. XargsInv
  <2>1. FlattenSeq(<<>>) \o todo = todo
    BY <1>3, ConcatEmptySeq DEF FlattenSeq
  <2>2. BatchesFit /\ NextTooMuch
    BY <1>6 DEF BatchesFit, NextTooMuch
  <2>3. LastFailure(run.ends, run.rc)
    BY <1>6 DEF LastFailure
  <2> QED BY <1>2, <1>4, <1>5, <1>6, <2>1, <2>2, <2>3 DEF XargsInv, C
<1>9. TimeoutInv
  BY <1>4, <1>6 DEF TimeoutInv, C
<1> QED BY <1>7, <1>8, <1>9 DEF RunInv

-----------------------------------------------------------------------------
(* One command of xargs.                                                     *)

LEMMA RunBatchKeeps ==
    ASSUME RunInv, RunBatch
    PROVE  RunInv'
<1> DEFINE words == NextBatch(C, run.todo)
           rest == SubSeq(run.todo, Len(words) + 1, Len(run.todo))
           b == run.batches
           w == run.todo
<1>1. run.pc = "batch" /\ (w # <<>> \/ RunsEmpty(C))
  BY DEF RunBatch
<1>2. PICK code \in Codes \union {BySignal} :
          run' = [run EXCEPT !.todo = rest, !.batches = Append(@, words), !.ends = Append(@, code), !.rc = Failure(@, code),
                             !.pc = IF rest = <<>> THEN "over" ELSE "batch"]
  BY DEF RunBatch
<1>3. run \in RunFields
  BY DEF RunInv
<1>4. /\ C \in XargsCalls \union TimeoutCalls /\ w \in Seq(Words) /\ b \in Seq(Seq(Words))
      /\ run.ends \in Seq(Codes \union {BySignal}) /\ run.rc \in Statuses
  BY <1>3 DEF RunFields, C
<1>5. C.tool = "xargs"
  BY <1>1, <1>4 DEF RunInv, TimeoutInv, XargsCalls, TimeoutCalls
<1>6. C \in XargsCalls
  BY <1>5 DEF RunInv, XargsInv
<1>7. PICK n \in 0..Len(w) : Batch(C, w, n)
  BY <1>1, <1>4, <1>6, BatchIs
<1>8. words = SubSeq(w, 1, n)
  BY <1>7 DEF Batch
<1>9. words \in Seq(Words) /\ Len(words) = n
  BY <1>4, <1>8, BatchAndRest
<1>10. rest = SubSeq(w, n + 1, Len(w))
  BY <1>9
<1> HIDE DEF words, rest, w
<1>11. /\ rest \in Seq(Words) /\ (rest = <<>> <=> n = Len(w))
       /\ words \o rest = w
       /\ n # 0 => words[1] = w[1]
       /\ n # Len(w) => Append(words, rest[1]) = SubSeq(w, 1, n + 1)
  BY <1>4, <1>7, <1>8, <1>10, BatchAndRest DEF Batch
<1> DEFINE pc == IF rest = <<>> THEN "over" ELSE "batch"
           rc == Failure(run.rc, code)
           bb == Append(b, words)
           ends == Append(run.ends, code)
<1>12. pc \in {"over", "batch"} /\ (pc = "over" <=> rest = <<>>)
  OBVIOUS
<1>13. rc \in Statuses /\ rc = (IF code # 0 THEN code ELSE run.rc)
  BY <1>4 DEF Failure, Statuses
<1>14. bb \in Seq(Seq(Words)) /\ Len(bb) = Len(b) + 1 /\ Len(b) \in Nat /\ bb[Len(b) + 1] = words
       /\ \A i \in 1..Len(b) : bb[i] = b[i]
  BY <1>4, <1>9, AppendProperties
<1>15. ends \in Seq(Codes \union {BySignal}) /\ Len(ends) = Len(run.ends) + 1 /\ ends[Len(run.ends) + 1] = code
       /\ \A i \in 1..Len(run.ends) : ends[i] = run.ends[i]
       /\ Len(run.ends) \in Nat
  BY <1>4, AppendProperties
<1>16. run' = [run EXCEPT !.todo = rest, !.batches = bb, !.ends = ends, !.rc = rc, !.pc = pc]
  <2>1. run' = [run EXCEPT !.todo = rest, !.batches = Append(run.batches, words), !.ends = Append(run.ends, code),
                           !.rc = Failure(run.rc, code), !.pc = IF rest = <<>> THEN "over" ELSE "batch"]
    BY <1>2, <1>3 DEF RunFields
  <2> QED BY <2>1
<1>17. FlattenSeq(bb) = FlattenSeq(b) \o words
  BY <1>4, <1>9, FlattenAppend
<1> HIDE DEF words, rest, pc, rc, bb, ends
<1>18. /\ run'.todo = rest /\ run'.batches = bb /\ run'.ends = ends /\ run'.rc = rc /\ run'.pc = pc
       /\ run'.call = run.call /\ run'.child = run.child
       /\ run' \in RunFields
  BY <1>3, <1>9, <1>11, <1>12, <1>13, <1>14, <1>15, <1>16 DEF RunFields
<1>19. FlattenSeq(bb) \o rest = ReadWords(C)
  <2>1. FlattenSeq(b) \in Seq(Words)
    BY <1>4, FlattenType
  <2>2. FlattenSeq(bb) \o rest = FlattenSeq(b) \o (words \o rest)
    <3> DEFINE f == FlattenSeq(b)
    <3> HIDE DEF f
    <3>1. f \in Seq(Words) /\ FlattenSeq(bb) = f \o words
      BY <1>17, <2>1 DEF f
    <3>2. (f \o words) \o rest = f \o (words \o rest)
      <4>1. words \in Seq(Words) /\ rest \in Seq(Words) /\ f \in Seq(Words)
        BY <1>9, <1>11, <3>1
      <4>2. \A s, t, u \in Seq(Words) : (s \o t) \o u = s \o (t \o u)
        BY ConcatAssociative
      <4> QED BY <4>1, <4>2
    <3> QED BY <3>1, <3>2 DEF f
  <2>3. FlattenSeq(b) \o w = ReadWords(C)
    BY <1>5 DEF RunInv, XargsInv, w
  <2> QED BY <1>11, <2>2, <2>3
<1>20. LastFailure(ends, rc)
  <2>1. LastFailure(run.ends, run.rc)
    BY <1>5 DEF RunInv, XargsInv
  <2>2. 1..Len(ends) = 1..Len(run.ends) \union {Len(run.ends) + 1}
    BY <1>15
  <2>3. CASE code # 0
    <3>1. Len(run.ends) + 1 \in 1..Len(ends) /\ ends[Len(run.ends) + 1] = rc /\ rc # 0
      BY <1>13, <1>15, <2>3
    <3>2. \A j \in 1..Len(ends) : ~(j > Len(run.ends) + 1)
      BY <1>15
    <3> QED BY <3>1, <3>2 DEF LastFailure
  <2>4. CASE code = 0
    <3>1. rc = run.rc /\ ends[Len(run.ends) + 1] = 0
      BY <1>13, <1>15, <2>4
    <3>2. CASE run.rc = 0 /\ \A i \in 1..Len(run.ends) : run.ends[i] = 0
      BY <1>15, <2>2, <3>1, <3>2 DEF LastFailure
    <3>3. ASSUME NEW i \in 1..Len(run.ends), run.ends[i] = run.rc, run.rc # 0,
                 \A j \in 1..Len(run.ends) : j > i => run.ends[j] = 0
          PROVE  LastFailure(ends, rc)
      <4>1. i \in 1..Len(ends) /\ ends[i] = rc /\ rc # 0
        BY <1>15, <2>2, <3>1, <3>3
      <4>2. \A j \in 1..Len(ends) : j > i => ends[j] = 0
        BY <1>15, <2>2, <3>1, <3>3
      <4> QED BY <4>1, <4>2 DEF LastFailure
    <3> QED BY <2>1, <3>2, <3>3 DEF LastFailure
  <2> QED BY <2>3, <2>4
<1>21. run.batches # <<>> => w # <<>> /\ n # 0
  <2>1. run.batches # <<>> => w # <<>>
    BY <1>1, <1>5 DEF RunInv, XargsInv, w
  <2> QED BY <1>7, <2>1 DEF Batch
<1>22. BatchesFit
  BY <1>5 DEF RunInv, XargsInv
<1>23. ASSUME NEW i \in 1..Len(bb) PROVE WithinLimits(C, bb[i])
  <2>1. CASE i = Len(b) + 1
    <3>1. bb[i] = words
      BY <1>14, <2>1
    <3>2. C.maxSize > 0 => (n = 1 \/ Fits(C, words))
      BY <1>7, <1>8 DEF Batch
    <3>3. ~(C.maxSize > 0) => (C.maxArgs > 0 => n <= C.maxArgs)
      BY <1>6, <1>7 DEF Batch, XargsCalls
    <3> QED BY <1>9, <3>1, <3>2, <3>3 DEF WithinLimits
  <2>2. CASE i # Len(b) + 1
    <3>1. i \in 1..Len(b) /\ bb[i] = b[i]
      BY <1>14, <2>2
    <3> QED BY <1>22, <3>1 DEF BatchesFit
  <2> QED BY <2>1, <2>2
<1>24. ASSUME NEW i \in 1..Len(bb) - 1 PROVE Full(C, bb[i], bb[i + 1][1])
  <2>0. Len(bb) - 1 = Len(b)
    BY <1>14
  <2>1. i \in 1..Len(b) /\ bb[i] = b[i] /\ i + 1 \in 1..Len(b) + 1
    BY <1>14, <2>0
  <2>2. CASE i = Len(b)
    <3>1. b # <<>>
      BY <2>1
    <3>2. bb[i + 1][1] = w[1]
      BY <1>11, <1>14, <1>21, <2>2, <3>1
    <3>3. Full(C, b[Len(b)], w[1])
      BY <1>5, <1>21, <3>1 DEF RunInv, XargsInv, NextTooMuch, w
    <3> QED BY <2>1, <2>2, <3>2, <3>3
  <2>3. CASE i # Len(b)
    <3>1. i \in 1..Len(b) - 1 /\ i + 1 \in 1..Len(b)
      <4>1. i \in 1..Len(b)
        BY <2>1
      <4>2. Len(b) \in Nat
        BY <1>14
      <4> QED BY <4>1, <4>2, <2>3
    <3>3. bb[i + 1] = b[i + 1]
      BY <1>14, <3>1
    <3>2. Full(C, b[i], b[i + 1][1])
      BY <1>22, <3>1 DEF BatchesFit
    <3> QED BY <2>1, <3>2, <3>3
  <2> QED BY <2>2, <2>3
<1>25. rest # <<>> => Full(C, words, rest[1])
  <2>1. rest # <<>> => n # Len(w)
    BY <1>11
  <2>2. C.maxSize \in Nat /\ C.maxArgs \in Nat
    BY <1>6 DEF XargsCalls
  <2>3. CASE C.maxSize > 0
    BY <1>7, <1>11, <2>1, <2>3 DEF Batch, Full
  <2>4. CASE ~(C.maxSize > 0)
    <3>1. C.maxSize = 0
      BY <2>2, <2>4
    <3>2. rest # <<>> => C.maxArgs > 0 /\ n = C.maxArgs
      BY <1>7, <2>1, <2>2, <3>1 DEF Batch
    <3> QED BY <1>9, <2>4, <3>2 DEF Full
  <2> QED BY <2>3, <2>4
<1>26. C' = C
  BY <1>18 DEF C
<1>27. BatchesFit'
  BY <1>18, <1>23, <1>24, <1>26 DEF BatchesFit
<1>28. NextTooMuch'
  <2>1. bb[Len(bb)] = words
    BY <1>14
  <2> QED BY <1>18, <1>25, <1>26, <2>1 DEF NextTooMuch
<1>29. ReadWords(C)' = ReadWords(C)
  BY <1>26
<1>30. XargsInv'
  <2>1. run.child = "none"
    BY <1>5 DEF RunInv, XargsInv
  <2> QED BY <1>6, <1>12, <1>18, <1>19, <1>20, <1>26, <1>27, <1>28, <1>29, <2>1 DEF XargsInv
<1>31. TimeoutInv'
  BY <1>5, <1>26 DEF TimeoutInv
<1> QED BY <1>18, <1>30, <1>31 DEF RunInv

LEMMA XargsReturnsKeeps ==
    ASSUME RunInv, XargsReturns
    PROVE  RunInv'
<1>1. run \in RunFields /\ run.pc = "batch" /\ run.todo = <<>> /\ run' = [run EXCEPT !.pc = "over"]
  BY DEF RunInv, XargsReturns
<1>2. /\ run' \in RunFields /\ run'.pc = "over" /\ run'.call = run.call /\ run'.todo = run.todo
      /\ run'.batches = run.batches /\ run'.ends = run.ends /\ run'.rc = run.rc /\ run'.child = run.child
  BY <1>1 DEF RunFields
<1>3. C' = C
  BY <1>2 DEF C
<1>4. C.tool # "timeout"
  BY <1>1 DEF RunInv, TimeoutInv
<1>5. ReadWords(C)' = ReadWords(C)
  BY <1>3
<1>6. BatchesFit => BatchesFit'
  BY <1>2, <1>3 DEF BatchesFit
<1>7. NextTooMuch'
  BY <1>1, <1>2 DEF NextTooMuch
<1>8. XargsInv'
  BY <1>1, <1>2, <1>3, <1>5, <1>6, <1>7 DEF RunInv, XargsInv
<1>9. TimeoutInv'
  BY <1>3, <1>4 DEF TimeoutInv
<1> QED BY <1>2, <1>8, <1>9 DEF RunInv

-----------------------------------------------------------------------------
(* timeout: the tool, the timer, the command and the goroutine.              *)

\* A step that leaves the call alone and keeps the verdict keeps the invariant: what is
\* said of xargs is not about it.
LEMMA TimeoutStep ==
    ASSUME RunInv, run' \in RunFields, run'.call = run.call, C.tool # "xargs", TimeoutInv'
    PROVE  RunInv'
<1>1. C' = C
  BY DEF C
<1>2. XargsInv'
  BY <1>1 DEF XargsInv
<1> QED BY <1>2 DEF RunInv

LEMMA StartCommandKeeps ==
    ASSUME RunInv, StartCommand
    PROVE  RunInv'
<1>1. run \in RunFields /\ run.pc = "start"
  BY DEF RunInv, StartCommand
<1>2. C.tool # "xargs"
  BY <1>1 DEF RunInv, XargsInv
<1>3. CASE run' = [run EXCEPT !.pc = "select", !.child = "running"]
  <2>1. run' \in RunFields /\ run'.call = run.call
    BY <1>1, <1>3 DEF RunFields
  <2>2. TimeoutInv'
    <3>1. run'.pc = "select" /\ run'.child = "running" /\ run'.sent = run.sent /\ run'.fired = run.fired /\ run'.done = run.done
      BY <1>1, <1>3 DEF RunFields
    <3>2. C.tool = "timeout" => run.child = "none" /\ run.done = <<>> /\ ~run.sent
      BY <1>1 DEF RunInv, TimeoutInv, RunFields
    <3> QED BY <1>1, <2>1, <3>1, <3>2 DEF TimeoutInv, C
  <2> QED BY <1>2, <2>1, <2>2, TimeoutStep
<1>4. CASE run' = [run EXCEPT !.pc = "over", !.rc = 1]
  <2>1. run' \in RunFields /\ run'.call = run.call
    BY <1>1, <1>4 DEF RunFields, Statuses
  <2>2. TimeoutInv'
    <3>1. run'.pc = "over" /\ run'.child = run.child /\ run'.sent = run.sent /\ run'.fired = run.fired /\ run'.done = run.done
      BY <1>1, <1>4 DEF RunFields
    <3>2. run'.rc = 1
      BY <1>1, <1>4 DEF RunFields
    <3> QED BY <1>1, <2>1, <3>1, <3>2 DEF RunInv, TimeoutInv, Verdict, C
  <2> QED BY <1>2, <2>1, <2>2, TimeoutStep
<1> QED BY <1>3, <1>4 DEF StartCommand

LEMMA CommandEndsKeeps ==
    ASSUME RunInv, CommandEnds \/ SignalEnds
    PROVE  RunInv'
<1>1. run \in RunFields /\ run.child = "running"
  BY DEF RunInv, CommandEnds, SignalEnds
<1>2. PICK code \in Codes \union {BySignal} : run' = [run EXCEPT !.child = "ended", !.status = code]
  BY DEF CommandEnds, SignalEnds
<1>3. C.tool # "xargs"
  BY <1>1 DEF RunInv, XargsInv
<1>4. /\ run' \in RunFields /\ run'.call = run.call /\ run'.child = "ended" /\ run'.status = code
      /\ run'.pc = run.pc /\ run'.sent = run.sent /\ run'.fired = run.fired /\ run'.done = run.done
      /\ run'.rc = run.rc
  BY <1>1, <1>2 DEF RunFields, Statuses
<1>5. TimeoutInv'
  BY <1>1, <1>4 DEF RunInv, TimeoutInv, Verdict, C
<1> QED BY <1>3, <1>4, <1>5, TimeoutStep

LEMMA WaitReturnsKeeps ==
    ASSUME RunInv, WaitReturns
    PROVE  RunInv'
<1>1. run \in RunFields /\ run.child = "ended" /\ run' = [run EXCEPT !.child = "reaped", !.done = <<run.status>>]
  BY DEF RunInv, WaitReturns
<1>2. C.tool # "xargs"
  BY <1>1 DEF RunInv, XargsInv
<1>3. /\ run' \in RunFields /\ run'.call = run.call /\ run'.child = "reaped" /\ run'.status = run.status
      /\ run'.pc = run.pc /\ run'.sent = run.sent /\ run'.fired = run.fired /\ run'.done = <<run.status>>
      /\ run'.rc = run.rc
  BY <1>1 DEF RunFields
<1>4. TimeoutInv'
  BY <1>1, <1>3 DEF RunInv, TimeoutInv, Verdict, C
<1> QED BY <1>2, <1>3, <1>4, TimeoutStep

LEMMA TimerFiresKeeps ==
    ASSUME RunInv, TimerFires
    PROVE  RunInv'
<1>1. run \in RunFields /\ run.pc = "select" /\ run' = [run EXCEPT !.fired = TRUE]
  BY DEF RunInv, TimerFires
<1>2. C.tool # "xargs"
  BY <1>1 DEF RunInv, XargsInv
<1>3. /\ run' \in RunFields /\ run'.call = run.call /\ run'.child = run.child /\ run'.status = run.status
      /\ run'.pc = run.pc /\ run'.sent = run.sent /\ run'.fired /\ run'.done = run.done
  BY <1>1 DEF RunFields
<1>4. TimeoutInv'
  BY <1>1, <1>3 DEF RunInv, TimeoutInv, C
<1> QED BY <1>2, <1>3, <1>4, TimeoutStep

LEMMA TakeDoneKeeps ==
    ASSUME RunInv, TakeDone
    PROVE  RunInv'
<1>1. /\ run \in RunFields /\ run.pc = "select" /\ run.done # <<>>
      /\ run' = [run EXCEPT !.pc = "over", !.rc = run.done[1], !.done = <<>>]
  BY DEF RunInv, TakeDone
<1>2. C.tool # "xargs"
  BY <1>1 DEF RunInv, XargsInv
<1>3. run.done[1] \in Statuses
  BY <1>1 DEF RunFields
<1>4. /\ run' \in RunFields /\ run'.call = run.call /\ run'.child = run.child /\ run'.status = run.status
      /\ run'.pc = "over" /\ run'.sent = run.sent /\ run'.fired = run.fired /\ run'.done = <<>> /\ run'.rc = run.done[1]
  BY <1>1, <1>3 DEF RunFields
<1>5. C.tool = "timeout" => run.child = "reaped" /\ run.done = <<run.status>> /\ run.done[1] = run.status
  BY <1>1 DEF RunInv, TimeoutInv
<1>6. TimeoutInv'
  BY <1>1, <1>4, <1>5 DEF RunInv, TimeoutInv, Verdict, C
<1> QED BY <1>2, <1>4, <1>6, TimeoutStep

LEMMA TakeTimerKeeps ==
    ASSUME RunInv, TakeTimer
    PROVE  RunInv'
<1> DEFINE rc == SignalStatus(C.sig)
           sent == run.child # "reaped"
<1>1. run \in RunFields /\ run.pc = "select" /\ run.fired
  BY DEF RunInv, TakeTimer
<1>2. run' = [run EXCEPT !.pc = "over", !.rc = rc, !.sent = sent]
  BY DEF TakeTimer
<1>3. C.tool # "xargs"
  BY <1>1 DEF RunInv, XargsInv
<1>4. rc \in Statuses /\ sent \in BOOLEAN /\ (sent <=> run.child # "reaped")
  BY DEF SignalStatus, Statuses
<1> HIDE DEF rc, sent
<1>5. /\ run' \in RunFields /\ run'.call = run.call /\ run'.child = run.child /\ run'.status = run.status
      /\ run'.pc = "over" /\ run'.sent = sent /\ run'.fired /\ run'.done = run.done
      /\ run'.rc = SignalStatus(C.sig)
  BY <1>1, <1>2, <1>4 DEF RunFields, rc
<1>6. TimeoutInv'
  BY <1>1, <1>4, <1>5 DEF RunInv, TimeoutInv, Verdict, C
<1> QED BY <1>3, <1>5, <1>6, TimeoutStep

-----------------------------------------------------------------------------

\* Whatever words xargs reads and whatever -n, -s, -r, -0 and -E are: the words up to the
\* logical end are given to commands once and in order, in batches that are neither larger
\* than -s, or without it -n, allows nor needlessly small, and the status is that of the last
\* command that failed.  Whatever command timeout runs, however it ends and whenever the
\* timer fires: the status is the command's own, or says that the time is over, and then the
\* command was signalled or had been waited for.  (Run of xargs and of timeout)
THEOREM RunnersHold ==
    ASSUME NEW calls \in SUBSET (XargsCalls \union TimeoutCalls)
    PROVE  RunInit(calls) /\ [][RunNext]_run => []RunnersRight
<1>1. RunInit(calls) => RunInv
  BY InvInit
<1>2. RunInv /\ [RunNext]_run => RunInv'
  <2> SUFFICES ASSUME RunInv, [RunNext]_run PROVE RunInv'
    OBVIOUS
  <2>1. CASE UNCHANGED run
    <3>1. C' = C
      BY <2>1 DEF C
    <3>2. ReadWords(C)' = ReadWords(C)
      BY <3>1
    <3>3. BatchesFit' = BatchesFit /\ NextTooMuch' = NextTooMuch
      BY <2>1, <3>1 DEF BatchesFit, NextTooMuch
    <3>4. XargsInv'
      BY <2>1, <3>1, <3>2, <3>3 DEF RunInv, XargsInv
    <3>5. TimeoutInv'
      BY <2>1, <3>1 DEF RunInv, TimeoutInv, Verdict
    <3>6. run' \in RunFields
      BY <2>1 DEF RunInv
    <3> QED BY <3>4, <3>5, <3>6 DEF RunInv
  <2>2. CASE RunBatch
    BY <2>2, RunBatchKeeps
  <2>3. CASE XargsReturns
    BY <2>3, XargsReturnsKeeps
  <2>4. CASE StartCommand
    BY <2>4, StartCommandKeeps
  <2>5. CASE CommandEnds \/ SignalEnds
    BY <2>5, CommandEndsKeeps
  <2>6. CASE WaitReturns
    BY <2>6, WaitReturnsKeeps
  <2>7. CASE TimerFires
    BY <2>7, TimerFiresKeeps
  <2>8. CASE TakeDone
    BY <2>8, TakeDoneKeeps
  <2>9. CASE TakeTimer
    BY <2>9, TakeTimerKeeps
  <2> QED BY <2>1, <2>2, <2>3, <2>4, <2>5, <2>6, <2>7, <2>8, <2>9 DEF RunNext
<1>3. RunInv => RunnersRight
  BY InvImplies
<1> QED BY <1>1, <1>2, <1>3, PTL

-----------------------------------------------------------------------------
(* What find may be called with: a name is a sequence of characters, a path   *)
(* one of names; what a path is in, is a directory.                           *)

FileName == Seq(STRING)
FilePath == Seq(FileName) \ {<<>>}
Operands == {p \in FilePath : Len(p) = 1}
AFile == {x \in [kind : {"file", "dir", "link"}, to : Seq(FileName)] : x.kind = "link" => x.to # <<>>}
InDirs(fs) == \A q \in DOMAIN fs : Len(q) > 1 => Front(q) \in DOMAIN fs /\ fs[Front(q)].kind = "dir"
Tree(fs) == /\ DOMAIN fs \in SUBSET FilePath /\ IsFiniteSet(DOMAIN fs) /\ fs \in [DOMAIN fs -> AFile]
            /\ InDirs(fs)
FindCall(c) ==
    /\ c \in [fs : {c.fs}, roots : Seq(Operands), name : FileName,
              type : {"", "f", "d", "l"}, minDepth : Int, maxDepth : Int,
              prune : BOOLEAN, print : BOOLEAN, delete : BOOLEAN, follow : BOOLEAN]
    /\ Tree(c.fs)

-----------------------------------------------------------------------------
(* The invariant.                                                             *)

AFrame == [path : FilePath, todo : Seq(FileName)]
FindStates(s) ==
    [call : {s.call}, fs : {s.fs}, roots : Seq(Operands), stack : Seq(AFrame), at : Seq(FileName),
     info : AFile \union {NoFile}, pc : {"root", "visit", "read", "entry"}, out : Seq(FilePath),
     deleted : SUBSET FilePath, gone : SUBSET DOMAIN s.call.fs, rc : {0, 1}]
FindTypes == find \in FindStates(find) /\ FindCall(Asked)

\* What is left of the tree: all but what was removed, by find or beside it.
LeftOf ==
    /\ DOMAIN find.fs \subseteq DOMAIN Asked.fs
    /\ find.fs = [q \in DOMAIN find.fs |-> Asked.fs[q]]
    /\ InDirs(find.fs)
    /\ \A q \in DOMAIN Asked.fs :
          q \in find.gone \/ q \in DOMAIN find.fs \/ \E d \in find.deleted : q = Physical(Asked.fs, d)
    /\ \A d \in find.deleted : Physical(Asked.fs, d) \notin DOMAIN find.fs
    /\ Asked.delete \/ find.deleted = {}

\* The stack holds the directories above the path the walk is at, which is on none
\* of their lists.
PlaceOf(stack, pc, at) == IF pc = "entry" THEN stack[Len(stack)].path ELSE at
PlacedAt(roots, stack, pc, at) ==
    /\ pc = "root" => stack = <<>>
    /\ pc # "root" =>
         LET p == PlaceOf(stack, pc, at) IN
         /\ roots # <<>> /\ p \in FilePath
         /\ Len(p) = IF pc = "entry" THEN Len(stack) ELSE Len(stack) + 1
         /\ Upper(p, 1) = Head(roots)
         /\ \A k \in 1..Len(stack) : stack[k].path = Upper(p, k)
         /\ \A k \in 1..Len(stack) : k < Len(p) => p[k + 1] \notin ToSet(stack[k].todo)
    /\ \A k \in 1..Len(stack) : IsInjective(stack[k].todo)
Placed ==
    /\ PlacedAt(find.roots, find.stack, find.pc, find.at)
    /\ ToSet(find.roots) \subseteq ToSet(Asked.roots)
    /\ RootsOnce => IsInjective(find.roots)

\* Every directory above it was one to go into, when it was looked at.
Entered(p) == Enters(Asked, InfoAt(p), MatchTests(Asked, p, InfoAt(p)), Len(p) - 1)
CameTo ==
    /\ find.pc \in {"visit", "read"} => Reached(find.at) /\ find.info = InfoAt(find.at)
    /\ find.pc = "visit" => Asked.maxDepth < 0 \/ Depth <= Asked.maxDepth
    /\ find.pc = "read" => Entered(find.at)
    /\ \A k \in 1..Depth : Entered(find.stack[k].path)

\* What is still to come: later operands, what is left of the directories on the
\* stack, and what the walk is at.
OnRoot(p, roots, pc) == \E i \in DOMAIN roots : (pc = "root" \/ i > 1) /\ Upper(p, 1) = roots[i]
OnStack(p, stack) == \E k \in 1..Len(stack) : k < Len(p) /\ Upper(p, k) = stack[k].path /\ p[k + 1] \in ToSet(stack[k].todo)
Begins(p, q) == Len(q) <= Len(p) /\ Upper(p, Len(q)) = q
OnPath(p, pc, at) == pc \in {"visit", "read"} /\ Begins(p, at) /\ (pc = "read" => Len(at) < Len(p))
WaitsAt(p, roots, stack, pc, at) == OnRoot(p, roots, pc) \/ OnStack(p, stack) \/ OnPath(p, pc, at)
Waiting(p) == WaitsAt(p, find.roots, find.stack, find.pc, find.at)
HandledOnce == RootsOnce =>
    /\ \A i \in DOMAIN find.out : ~Waiting(find.out[i])
    /\ \A p \in find.deleted : ~Waiting(p)
    /\ IsInjective(find.out)
    /\ \A i, j \in DOMAIN find.out : IsStrictPrefix(find.out[j], find.out[i]) => j < i
HandledRight == PlainNames =>
    /\ \A i \in DOMAIN find.out : IsWanted(find.out[i])
    /\ \A p \in find.deleted : IsWanted(p)
DeletedLeft == \A p \in find.deleted : \A k \in 1..Depth : find.stack[k].path # p
\* A path that is wanted waits, or was handled, or something on it is gone.
Handled(p) == (Asked.print => p \in ToSet(find.out)) /\ (Asked.delete => p \in find.deleted)
Missing == PlainNames /\ RootsOnce /\ PlainDelete /\ find.rc = 0 =>
    \A p \in FilePath : IsWanted(p) /\ ~Gone(p) => Waiting(p) \/ Handled(p)
FindInv == /\ FindTypes /\ LeftOf /\ Placed /\ CameTo
           /\ HandledOnce /\ HandledRight /\ DeletedLeft /\ Missing

-----------------------------------------------------------------------------
(* The beginnings of a path.                                                  *)

LEMMA UpperIs ==
    ASSUME NEW p \in FilePath, NEW n \in 1..Len(p)
    PROVE  /\ Upper(p, n) \in FilePath /\ Len(Upper(p, n)) = n
           /\ \A i \in 1..n : Upper(p, n)[i] = p[i]
<1>1. p \in Seq(FileName) /\ Len(p) \in Nat /\ n \in Nat
  BY DEF FilePath
<1>2. /\ Upper(p, n) \in Seq(FileName) /\ Len(Upper(p, n)) = n
      /\ \A i \in 1..n : Upper(p, n)[i] = p[i]
  BY <1>1 DEF Upper
<1> QED BY <1>2 DEF FilePath

LEMMA SameSequence ==
    ASSUME NEW S, NEW s \in Seq(S), NEW t \in Seq(S), Len(s) = Len(t), \A i \in 1..Len(s) : s[i] = t[i]
    PROVE  s = t
  BY SeqEqual

LEMMA PathLen ==
    ASSUME NEW p \in FilePath
    PROVE  Len(p) \in Nat /\ Len(p) >= 1 /\ p \in Seq(FileName) /\ \A i \in 1..Len(p) : p[i] \in FileName
  BY DEF FilePath

LEMMA UpperFull ==
    ASSUME NEW p \in FilePath
    PROVE  Upper(p, Len(p)) = p
<1>1. Len(p) \in 1..Len(p)
  BY PathLen
<1>2. Upper(p, Len(p)) \in FilePath /\ Len(Upper(p, Len(p))) = Len(p) /\ \A i \in 1..Len(p) : Upper(p, Len(p))[i] = p[i]
  BY <1>1, UpperIs
<1> QED BY <1>2, SameSequence DEF FilePath

LEMMA UpperUpper ==
    ASSUME NEW p \in FilePath, NEW n \in 1..Len(p), NEW m \in 1..n
    PROVE  Upper(Upper(p, n), m) = Upper(p, m)
<1>1. n \in Nat /\ m \in 1..Len(p) /\ Len(p) \in Nat
  BY PathLen
<1>2. Upper(p, n) \in FilePath /\ Len(Upper(p, n)) = n /\ \A i \in 1..n : Upper(p, n)[i] = p[i]
  BY UpperIs
<1> DEFINE q == Upper(p, n)
           a == Upper(q, m)
           b == Upper(p, m)
<1>3. a \in FilePath /\ Len(a) = m /\ \A i \in 1..m : a[i] = q[i]
  BY <1>2, UpperIs
<1>4. b \in FilePath /\ Len(b) = m /\ \A i \in 1..m : b[i] = p[i]
  BY <1>1, UpperIs
<1> HIDE DEF a, b
<1>5. \A i \in 1..m : i \in 1..n
  BY <1>1
<1>6. \A i \in 1..m : a[i] = b[i]
  BY <1>2, <1>3, <1>4, <1>5
<1>7. a = b
  BY <1>3, <1>4, <1>6, SameSequence DEF FilePath
<1> QED BY <1>7 DEF a, b

LEMMA AppendIs ==
    ASSUME NEW p \in FilePath, NEW x \in FileName
    PROVE  /\ Append(p, x) \in FilePath /\ Len(Append(p, x)) = Len(p) + 1
           /\ Append(p, x)[Len(p) + 1] = x
           /\ \A i \in 1..Len(p) : Append(p, x)[i] = p[i]
<1>1. p \in Seq(FileName) /\ Len(p) \in Nat
  BY PathLen
<1>2. /\ Append(p, x) \in Seq(FileName) /\ Len(Append(p, x)) = Len(p) + 1
      /\ Append(p, x)[Len(p) + 1] = x
      /\ \A i \in 1..Len(p) : Append(p, x)[i] = p[i]
  BY <1>1
<1> QED BY <1>1, <1>2 DEF FilePath

LEMMA UpperAppend ==
    ASSUME NEW p \in FilePath, NEW x \in FileName, NEW n \in 1..Len(p)
    PROVE  Upper(Append(p, x), n) = Upper(p, n)
<1> DEFINE q == Append(p, x)
           a == Upper(q, n)
           b == Upper(p, n)
<1>1. q \in FilePath /\ Len(q) = Len(p) + 1 /\ \A i \in 1..Len(p) : q[i] = p[i]
  BY AppendIs
<1>2. Len(p) \in Nat /\ n \in 1..Len(q) /\ \A i \in 1..n : i \in 1..Len(p)
  BY <1>1, PathLen
<1>3. b \in FilePath /\ Len(b) = n /\ \A i \in 1..n : b[i] = p[i]
  BY UpperIs
<1> HIDE DEF b, q
<1>4. a \in FilePath /\ Len(a) = n /\ \A i \in 1..n : a[i] = q[i]
  BY <1>1, <1>2, UpperIs
<1> HIDE DEF a
<1>5. a = b
  BY <1>1, <1>2, <1>3, <1>4, SameSequence DEF FilePath
<1> QED BY <1>5 DEF a, b, q

LEMMA UpperNext ==
    ASSUME NEW p \in FilePath, NEW n \in 1..Len(p), n < Len(p)
    PROVE  Upper(p, n + 1) = Append(Upper(p, n), p[n + 1])
<1> DEFINE a == Upper(p, n + 1)
           b == Upper(p, n)
           c == Append(b, p[n + 1])
<1>1. n \in Nat /\ Len(p) \in Nat /\ n + 1 \in 1..Len(p) /\ p[n + 1] \in FileName
  BY PathLen
<1>2. a \in FilePath /\ Len(a) = n + 1 /\ \A i \in 1..n + 1 : a[i] = p[i]
  BY <1>1, UpperIs
<1>3. b \in FilePath /\ Len(b) = n /\ \A i \in 1..n : b[i] = p[i]
  BY UpperIs
<1> HIDE DEF a, b
<1>4. c \in FilePath /\ Len(c) = n + 1 /\ c[n + 1] = p[n + 1] /\ \A i \in 1..n : c[i] = b[i]
  BY <1>1, <1>3, AppendIs
<1> HIDE DEF c
<1>5. \A i \in 1..n + 1 : i \in 1..n \/ i = n + 1
  BY <1>1
<1>6. \A i \in 1..n + 1 : a[i] = c[i]
  BY <1>2, <1>3, <1>4, <1>5
<1>7. a = c
  BY <1>2, <1>4, <1>6, SameSequence DEF FilePath
<1> QED BY <1>7 DEF a, b, c

LEMMA UpperParts ==
    ASSUME NEW p \in FilePath, Len(p) > 1
    PROVE  /\ Len(p) - 1 \in 1..Len(p) /\ Front(p) = Upper(p, Len(p) - 1) /\ Front(p) \in FilePath
           /\ Len(Front(p)) = Len(p) - 1 /\ Last(p) \in FileName /\ p = Append(Front(p), Last(p))
<1>1. Len(p) \in Nat /\ Len(p) - 1 \in 1..Len(p) /\ Len(p) - 1 < Len(p) /\ Len(p) - 1 + 1 = Len(p) /\ p[Len(p)] \in FileName
  BY PathLen
<1>2. Front(p) = Upper(p, Len(p) - 1) /\ Last(p) = p[Len(p)]
  BY DEF Front, Last, Upper
<1>3. Upper(p, Len(p) - 1) \in FilePath /\ Len(Upper(p, Len(p) - 1)) = Len(p) - 1
  BY <1>1, UpperIs
<1>4. Upper(p, Len(p) - 1 + 1) = Append(Upper(p, Len(p) - 1), p[Len(p) - 1 + 1])
  BY <1>1, UpperNext
<1>5. p = Append(Upper(p, Len(p) - 1), p[Len(p)])
  BY <1>1, <1>4, UpperFull
<1> QED BY <1>1, <1>2, <1>3, <1>5

LEMMA AppendParts ==
    ASSUME NEW p \in FilePath, NEW x \in FileName
    PROVE  Front(Append(p, x)) = p /\ Last(Append(p, x)) = x /\ Upper(Append(p, x), Len(p)) = p
<1>1. /\ Append(p, x) \in FilePath /\ Len(Append(p, x)) = Len(p) + 1 /\ Append(p, x)[Len(p) + 1] = x
  BY AppendIs
<1>2. Len(p) \in Nat /\ Len(p) + 1 - 1 = Len(p) /\ Len(p) \in 1..Len(p)
  BY PathLen
<1>3. Upper(Append(p, x), Len(p)) = p
  BY <1>2, UpperAppend, UpperFull
<1> QED BY <1>1, <1>2, <1>3 DEF Front, Last, Upper

LEMMA OneName ==
    ASSUME NEW p \in FilePath
    PROVE  <<p[1]>> \in FilePath /\ Len(<<p[1]>>) = 1 /\ Upper(p, 1) = <<p[1]>> /\ (Len(p) = 1 => p = <<p[1]>>)
<1>1. p[1] \in FileName /\ 1 \in 1..Len(p) /\ Len(p) \in Nat
  BY PathLen
<1> DEFINE o == <<p[1]>>
<1>2. o \in Seq(FileName) /\ Len(o) = 1 /\ o # <<>> /\ o[1] = p[1]
  BY <1>1
<1>3. Upper(p, 1) \in FilePath /\ Len(Upper(p, 1)) = 1 /\ \A i \in 1..1 : Upper(p, 1)[i] = p[i]
  BY <1>1, UpperIs
<1> HIDE DEF o
<1>4. \A i \in 1..1 : Upper(p, 1)[i] = o[i]
  BY <1>2, <1>3
<1>5. Upper(p, 1) = o
  BY <1>2, <1>3, <1>4, SameSequence DEF FilePath
<1>6. Len(p) = 1 => p = o
  BY <1>5, UpperFull
<1> QED BY <1>2, <1>5, <1>6 DEF FilePath, o

-----------------------------------------------------------------------------
(* Functions that are defined over 1..N by recursion.                         *)

Recurs(g, N, a, h) == \A n \in 1..N : g[n] = IF n = 1 THEN a ELSE h[<<n, g[n - 1]>>]
LEMMA Recursion ==
    ASSUME NEW S, NEW N \in Nat, NEW a \in S, NEW h \in [Nat \X S -> S]
    PROVE  \E g \in [1..N -> S] : Recurs(g, N, a, h)
<1> DEFINE Upto(g, m) == \A n \in 1..m : g[n] = IF n = 1 THEN a ELSE h[<<n, g[n - 1]>>]
           There(m) == \E g \in [1..m -> S] : Upto(g, m)
           T == {m \in Nat : There(m)}
<1>1. 0 \in T
  <2>1. 1..0 = {}
    OBVIOUS
  <2>2. [i \in {} |-> a] \in [{} -> S] /\ \A g : Upto(g, 0)
    BY <2>1
  <2> QED BY <2>1, <2>2
<1>2. ASSUME NEW m \in Nat, m \in T PROVE m + 1 \in T
  <2>1. PICK g \in [1..m -> S] : Upto(g, m)
    BY <1>2
  <2> DEFINE last == IF m = 0 THEN a ELSE h[<<m + 1, g[m]>>]
             f == [i \in 1..m + 1 |-> IF i = m + 1 THEN last ELSE g[i]]
  <2>2. last \in S
    <3>1. CASE m = 0
      BY <3>1
    <3>2. CASE m # 0
      <4>1. m \in 1..m /\ m + 1 \in Nat
        BY <3>2
      <4>2. g[m] \in S /\ <<m + 1, g[m]>> \in Nat \X S
        BY <4>1
      <4> QED BY <3>2, <4>2
    <3> QED BY <3>1, <3>2
  <2>3. \A i \in 1..m + 1 : i \in 1..m \/ i = m + 1
    OBVIOUS
  <2>4. f \in [1..m + 1 -> S]
    <3> HIDE DEF last
    <3>1. ASSUME NEW i \in 1..m + 1 PROVE (IF i = m + 1 THEN last ELSE g[i]) \in S
      BY <2>2, <2>3
    <3> QED BY <3>1
  <2>5. f[m + 1] = last /\ \A i \in 1..m : f[i] = g[i]
    <3> HIDE DEF last
    <3>1. m + 1 \in 1..m + 1 /\ \A i \in 1..m : i \in 1..m + 1 /\ i # m + 1
      OBVIOUS
    <3> QED BY <3>1
  <2> HIDE DEF f
  <2>6. ASSUME NEW n \in 1..m + 1 PROVE f[n] = IF n = 1 THEN a ELSE h[<<n, f[n - 1]>>]
    <3>1. CASE n = m + 1
      <4>1. CASE m = 0
        BY <2>5, <3>1, <4>1
      <4>2. CASE m # 0
        <5>1. n # 1 /\ n - 1 = m /\ m \in 1..m
          BY <3>1, <4>2
        <5>2. f[n - 1] = g[m] /\ f[n] = h[<<m + 1, g[m]>>]
          BY <2>5, <3>1, <4>2, <5>1
        <5> QED BY <3>1, <5>1, <5>2
      <4> QED BY <4>1, <4>2
    <3>2. CASE n \in 1..m
      <4>1. g[n] = IF n = 1 THEN a ELSE h[<<n, g[n - 1]>>]
        BY <2>1, <3>2
      <4>2. n # 1 => n - 1 \in 1..m
        BY <3>2
      <4> QED BY <2>5, <3>2, <4>1, <4>2
    <3> QED BY <2>3, <3>1, <3>2
  <2>7. There(m + 1)
    BY <2>4, <2>6
  <2> QED BY <2>7
<1> HIDE DEF T
<1>3. \A m \in Nat : m \in T
  BY <1>1, <1>2, AllNumbers
<1>4. N \in T
  BY <1>3
<1> QED BY <1>4 DEF T, Recurs

-----------------------------------------------------------------------------
(* Where a path leads.                                                        *)

Files(fs) == DOMAIN fs \in SUBSET FilePath /\ fs \in [DOMAIN fs -> AFile]
Follow(fs, p, f) ==
    f = [n \in 1..Len(p) |-> IF n = 1 THEN <<p[1]>> ELSE Append(Target(fs, f[n - 1]), p[n])]
StepsAt(fs, p, f, n) == f[n] = IF n = 1 THEN <<p[1]>> ELSE Append(Target(fs, f[n - 1]), p[n])

LEMMA LstatType ==
    ASSUME NEW fs, Files(fs), NEW q
    PROVE  /\ Lstat(fs, q) \in AFile \union {NoFile}
           /\ q \in DOMAIN fs => Lstat(fs, q) = fs[q] /\ fs[q] \in AFile /\ Lstat(fs, q).kind # "none"
           /\ q \notin DOMAIN fs => Lstat(fs, q) = NoFile /\ Lstat(fs, q).kind = "none" /\ Target(fs, q) = q
           /\ Lstat(fs, q).kind # "link" => Target(fs, q) = q
           /\ Lstat(fs, q).kind \in {"none", "file", "dir", "link"}
<1>1. CASE q \in DOMAIN fs
  <2>1. Lstat(fs, q) = fs[q] /\ fs[q] \in AFile
    BY <1>1 DEF Lstat, Files
  <2>2. fs[q].kind \in {"file", "dir", "link"}
    BY <2>1 DEF AFile
  <2> QED BY <1>1, <2>1, <2>2 DEF Target
<1>2. CASE q \notin DOMAIN fs
  <2>1. Lstat(fs, q) = NoFile /\ NoFile.kind = "none"
    BY <1>2 DEF Lstat, NoFile
  <2> QED BY <1>2, <2>1 DEF Target
<1> QED BY <1>1, <1>2

LEMMA TargetType ==
    ASSUME NEW fs, Files(fs), NEW q \in FilePath
    PROVE  Target(fs, q) \in FilePath
<1>1. CASE q \in DOMAIN fs
  <2>1. fs[q] \in AFile
    BY <1>1, LstatType
  <2>2. CASE Lstat(fs, q).kind = "link"
    <3>1. fs[q].to \in FilePath
      BY <1>1, <2>1, <2>2, LstatType DEF AFile, FilePath
    <3> QED BY <2>2, <3>1 DEF Target
  <2>3. CASE Lstat(fs, q).kind # "link"
    BY <2>3, LstatType
  <2> QED BY <2>2, <2>3
<1>2. CASE q \notin DOMAIN fs
  BY <1>2, LstatType
<1> QED BY <1>1, <1>2

LEMMA FollowAt ==
    ASSUME NEW fs, NEW p \in FilePath, NEW f
    PROVE  Follow(fs, p, f) <=> (f = [n \in 1..Len(p) |-> f[n]] /\ \A n \in 1..Len(p) : StepsAt(fs, p, f, n))
<1> DEFINE Row(n) == IF n = 1 THEN <<p[1]>> ELSE Append(Target(fs, f[n - 1]), p[n])
<1>1. Follow(fs, p, f) <=> f = [n \in 1..Len(p) |-> Row(n)]
  BY DEF Follow
<1>2. \A n : StepsAt(fs, p, f, n) <=> f[n] = Row(n)
  BY DEF StepsAt
<1> HIDE DEF Row
<1>3. ASSUME f = [n \in 1..Len(p) |-> Row(n)]
      PROVE  f = [n \in 1..Len(p) |-> f[n]] /\ \A n \in 1..Len(p) : f[n] = Row(n)
  BY <1>3
<1>4. ASSUME f = [n \in 1..Len(p) |-> f[n]], \A n \in 1..Len(p) : f[n] = Row(n)
      PROVE  f = [n \in 1..Len(p) |-> Row(n)]
  BY <1>4
<1> QED BY <1>1, <1>2, <1>3, <1>4

LEMMA FollowExists ==
    ASSUME NEW fs, Files(fs), NEW p \in FilePath
    PROVE  \E f \in [1..Len(p) -> FilePath] : Follow(fs, p, f)
<1> DEFINE N == Len(p)
           a == <<p[1]>>
           h == [z \in Nat \X FilePath |-> IF z[1] \in 1..N THEN Append(Target(fs, z[2]), p[z[1]]) ELSE a]
<1>1. N \in Nat /\ a \in FilePath /\ \A n \in 1..N : p[n] \in FileName
  BY PathLen, OneName
<1>2. h \in [Nat \X FilePath -> FilePath]
  <2> HIDE DEF a, N
  <2>1. ASSUME NEW z \in Nat \X FilePath
        PROVE  (IF z[1] \in 1..N THEN Append(Target(fs, z[2]), p[z[1]]) ELSE a) \in FilePath
    <3>1. CASE z[1] \in 1..N
      <4>1. Target(fs, z[2]) \in FilePath /\ p[z[1]] \in FileName
        BY <1>1, <3>1, TargetType
      <4> QED BY <3>1, <4>1, AppendIs
    <3>2. CASE z[1] \notin 1..N
      BY <1>1, <3>2
    <3> QED BY <3>1, <3>2
  <2> QED BY <2>1
<1>3. \A n \in 1..N, q \in FilePath : h[<<n, q>>] = Append(Target(fs, q), p[n])
  <2>1. ASSUME NEW n \in 1..N, NEW q \in FilePath PROVE h[<<n, q>>] = Append(Target(fs, q), p[n])
    <3>1. <<n, q>> \in Nat \X FilePath /\ <<n, q>>[1] = n /\ <<n, q>>[2] = q
      BY <1>1
    <3> HIDE DEF a, N
    <3> QED BY <3>1
  <2> QED BY <2>1
<1> HIDE DEF h, a, N
<1>4. PICK g \in [1..N -> FilePath] : Recurs(g, N, a, h)
  BY <1>1, <1>2, Recursion
<1>5. ASSUME NEW n \in 1..N PROVE StepsAt(fs, p, g, n)
  <2>1. CASE n = 1
    BY <1>4, <2>1 DEF StepsAt, a, Recurs
  <2>2. CASE n # 1
    <3>1. n - 1 \in 1..N
      BY <1>1, <2>2
    <3>2. g[n - 1] \in FilePath /\ g[n] = h[<<n, g[n - 1]>>]
      BY <1>4, <2>2, <3>1 DEF Recurs
    <3> QED BY <1>3, <2>2, <3>2 DEF StepsAt
  <2> QED BY <2>1, <2>2
<1>6. g = [n \in 1..N |-> g[n]]
  BY <1>4
<1> USE DEF N
<1>7. Follow(fs, p, g)
  BY <1>5, <1>6, FollowAt
<1> QED BY <1>4, <1>7

Agree(f, g, N) == \A n \in 1..N : f[n] = g[n]
\* Two paths with one beginning lead to the same place up to there.
LEMMA FollowOnce ==
    ASSUME NEW fs, NEW p \in FilePath, NEW q \in FilePath, NEW f, NEW g, Follow(fs, p, f), Follow(fs, q, g),
           NEW N \in 1..Len(p), N <= Len(q), Agree(p, q, N)
    PROVE  Agree(f, g, N)
<1> DEFINE T == {m \in Nat : m \in 1..N => f[m] = g[m]}
<1>1. Len(p) \in Nat /\ Len(q) \in Nat /\ N \in Nat
  BY PathLen
<1>2. 0 \in T
  OBVIOUS
<1>3. ASSUME NEW m \in Nat, m \in T PROVE m + 1 \in T
  <2> SUFFICES ASSUME m + 1 \in 1..N PROVE f[m + 1] = g[m + 1]
    OBVIOUS
  <2>1. m + 1 \in 1..Len(p) /\ m + 1 \in 1..Len(q) /\ p[m + 1] = q[m + 1] /\ p[1] = q[1]
    BY <1>1 DEF Agree
  <2>2. StepsAt(fs, p, f, m + 1) /\ StepsAt(fs, q, g, m + 1)
    BY <2>1, FollowAt
  <2>3. m + 1 # 1 => f[m] = g[m]
    BY <1>1, <1>3
  <2>4. m + 1 - 1 = m
    OBVIOUS
  <2> QED BY <2>1, <2>2, <2>3, <2>4 DEF StepsAt
<1> HIDE DEF T
<1>4. \A m \in Nat : m \in T
  BY <1>2, <1>3, AllNumbers
<1> QED BY <1>1, <1>4 DEF T, Agree

LEMMA PhysicalIs ==
    ASSUME NEW fs, Files(fs), NEW p \in FilePath
    PROVE  \E f : /\ Follow(fs, p, f) /\ Physical(fs, p) = f[Len(p)] /\ f \in [1..Len(p) -> FilePath]
<1> DEFINE g == CHOOSE g : Follow(fs, p, g)
<1>1. Physical(fs, p) = g[Len(p)]
  BY DEF Physical, Follow
<1>2. PICK f \in [1..Len(p) -> FilePath] : Follow(fs, p, f)
  BY FollowExists
<1>3. Follow(fs, p, g)
  BY <1>2
<1> HIDE DEF g
<1>4. Len(p) \in 1..Len(p) /\ Len(p) <= Len(p)
  BY PathLen
<1>5. Agree(f, g, Len(p))
  <2>1. Agree(p, p, Len(p))
    BY DEF Agree
  <2> QED BY <1>2, <1>3, <1>4, <2>1, FollowOnce
<1>6. f[Len(p)] = g[Len(p)]
  BY <1>4, <1>5 DEF Agree
<1> QED BY <1>1, <1>2, <1>6

LEMMA PhysicalOne ==
    ASSUME NEW fs, Files(fs), NEW p \in FilePath, Len(p) = 1
    PROVE  Physical(fs, p) = p
<1>1. PICK f : Follow(fs, p, f) /\ Physical(fs, p) = f[Len(p)]
  BY PhysicalIs
<1>2. StepsAt(fs, p, f, 1)
  <2>1. 1 \in 1..Len(p)
    BY PathLen
  <2> QED BY <1>1, <2>1, FollowAt
<1> QED BY <1>1, <1>2, OneName DEF StepsAt

LEMMA PhysicalAppend ==
    ASSUME NEW fs, Files(fs), NEW p \in FilePath, NEW x \in FileName
    PROVE  Physical(fs, Append(p, x)) = Append(Target(fs, Physical(fs, p)), x)
<1> DEFINE q == Append(p, x)
<1>1. /\ q \in FilePath /\ Len(q) = Len(p) + 1 /\ q[Len(p) + 1] = x /\ \A i \in 1..Len(p) : q[i] = p[i]
  BY AppendIs
<1>2. Len(p) \in Nat /\ Len(p) >= 1
  BY PathLen
<1> HIDE DEF q
<1>3. PICK f : Follow(fs, p, f) /\ Physical(fs, p) = f[Len(p)]
  BY PhysicalIs
<1>4. PICK g : Follow(fs, q, g) /\ Physical(fs, q) = g[Len(q)]
  BY <1>1, PhysicalIs
<1>5. Len(p) \in 1..Len(p) /\ Len(p) <= Len(q) /\ Agree(p, q, Len(p))
  BY <1>1, <1>2 DEF Agree
<1>6. Agree(f, g, Len(p))
  BY <1>1, <1>3, <1>4, <1>5, FollowOnce
<1>7. Len(p) + 1 \in 1..Len(q) /\ Len(p) + 1 # 1 /\ Len(p) + 1 - 1 = Len(p)
  BY <1>1, <1>2
<1>8. StepsAt(fs, q, g, Len(p) + 1)
  BY <1>1, <1>4, <1>7, FollowAt
<1>9. g[Len(p) + 1] = Append(Target(fs, g[Len(p)]), x)
  BY <1>1, <1>7, <1>8 DEF StepsAt
<1>10. g[Len(p)] = Physical(fs, p)
  BY <1>3, <1>5, <1>6 DEF Agree
<1> QED BY <1>1, <1>4, <1>9, <1>10 DEF q

LEMMA PhysicalType ==
    ASSUME NEW fs, Files(fs), NEW p \in FilePath
    PROVE  Physical(fs, p) \in FilePath /\ Last(Physical(fs, p)) = Last(p)
<1>1. PICK f : Follow(fs, p, f) /\ Physical(fs, p) = f[Len(p)] /\ f \in [1..Len(p) -> FilePath]
  BY PhysicalIs
<1>2. Physical(fs, p) \in FilePath
  <2>1. Len(p) \in 1..Len(p)
    BY PathLen
  <2> QED BY <1>1, <2>1
<1>3. CASE Len(p) = 1
  BY <1>2, <1>3, PhysicalOne
<1>4. CASE Len(p) > 1
  <2>1. Front(p) \in FilePath /\ Last(p) \in FileName /\ p = Append(Front(p), Last(p))
    BY <1>4, UpperParts
  <2>2. Physical(fs, p) = Append(Target(fs, Physical(fs, Front(p))), Last(p))
    BY <2>1, PhysicalAppend
  <2>3. PICK d : Follow(fs, Front(p), d) /\ Physical(fs, Front(p)) = d[Len(Front(p))] /\ d \in [1..Len(Front(p)) -> FilePath]
    BY <2>1, PhysicalIs
  <2>4. Len(Front(p)) \in 1..Len(Front(p))
    BY <2>1, PathLen
  <2>5. Physical(fs, Front(p)) \in FilePath
    BY <2>3, <2>4
  <2>6. Target(fs, Physical(fs, Front(p))) \in FilePath
    BY <2>5, TargetType
  <2> QED BY <1>2, <2>1, <2>2, <2>6, AppendParts
<1>5. Len(p) = 1 \/ Len(p) > 1
  <2>1. Len(p) \in Nat /\ Len(p) >= 1
    BY PathLen
  <2>2. \A n \in Nat : n >= 1 => n = 1 \/ n > 1
    OBVIOUS
  <2> QED BY <2>1, <2>2
<1> QED BY <1>3, <1>4, <1>5

-----------------------------------------------------------------------------
(* Paths in a tree, and in what is left of it.                                *)

LEMMA PathSizes ==
    ASSUME NEW p \in FilePath
    PROVE  Len(p) = 1 \/ Len(p) > 1
<1>1. Len(p) \in Nat /\ Len(p) >= 1
  BY PathLen
<1>2. \A n \in Nat : n >= 1 => n = 1 \/ n > 1
  OBVIOUS
<1> QED BY <1>1, <1>2

\* A path of files and directories, without links on its way, is where it leads.
LEMMA PhysicalReal ==
    ASSUME NEW fs, Files(fs), InDirs(fs), NEW p \in DOMAIN fs
    PROVE  Physical(fs, p) = p
<1> DEFINE T == {m \in Nat : \A q \in DOMAIN fs : Len(q) = m => Physical(fs, q) = q}
<1>1. \A q \in DOMAIN fs : q \in FilePath
  BY DEF Files
<1>2. 0 \in T
  <2>1. \A q \in DOMAIN fs : Len(q) # 0
    BY <1>1, PathLen
  <2> QED BY <2>1
<1>3. ASSUME NEW m \in Nat, m \in T PROVE m + 1 \in T
  <2> SUFFICES ASSUME NEW q \in DOMAIN fs, Len(q) = m + 1 PROVE Physical(fs, q) = q
    OBVIOUS
  <2>1. q \in FilePath
    BY <1>1
  <2>2. CASE Len(q) = 1
    BY <2>1, <2>2, PhysicalOne
  <2>3. CASE Len(q) > 1
    <3>1. /\ Front(q) \in FilePath /\ Len(Front(q)) = Len(q) - 1 /\ Last(q) \in FileName /\ q = Append(Front(q), Last(q))
      BY <2>1, <2>3, UpperParts
    <3>2. Front(q) \in DOMAIN fs /\ fs[Front(q)].kind = "dir"
      BY <2>3 DEF InDirs
    <3>3. Len(Front(q)) = m
      BY <3>1
    <3>4. Physical(fs, Front(q)) = Front(q)
      BY <1>3, <3>2, <3>3
    <3>5. Target(fs, Front(q)) = Front(q)
      BY <3>2, LstatType
    <3>6. Physical(fs, Append(Front(q), Last(q))) = Append(Target(fs, Physical(fs, Front(q))), Last(q))
      BY <3>1, PhysicalAppend
    <3> QED BY <3>1, <3>4, <3>5, <3>6
  <2> QED BY <2>1, <2>2, <2>3, PathSizes
<1> HIDE DEF T
<1>4. \A m \in Nat : m \in T
  BY <1>2, <1>3, AllNumbers
<1>5. Len(p) \in T
  BY <1>1, <1>4, PathLen
<1> QED BY <1>5 DEF T

PartOf(fs, F) ==
    /\ Files(fs) /\ Files(F) /\ InDirs(fs) /\ InDirs(F)
    /\ DOMAIN fs \subseteq DOMAIN F /\ \A q \in DOMAIN fs : fs[q] = F[q]

LEMMA SameTarget ==
    ASSUME NEW fs, NEW F, PartOf(fs, F), NEW q \in DOMAIN fs
    PROVE  Target(fs, q) = Target(F, q) /\ Lstat(fs, q) = Lstat(F, q)
  BY DEF PartOf, Target, Lstat

\* What is there, is where it was.
LEMMA SamePhysical ==
    ASSUME NEW fs, NEW F, PartOf(fs, F), NEW p \in FilePath, Physical(fs, p) \in DOMAIN fs
    PROVE  Physical(fs, p) = Physical(F, p)
<1> DEFINE T == {m \in Nat : \A q \in FilePath : Len(q) = m /\ Physical(fs, q) \in DOMAIN fs => Physical(fs, q) = Physical(F, q)}
<1>0. Files(fs) /\ Files(F) /\ InDirs(fs)
  BY DEF PartOf
<1>1. \A q \in DOMAIN fs : q \in FilePath
  BY <1>0 DEF Files
<1>2. 0 \in T
  <2>1. \A q \in FilePath : Len(q) # 0
    BY PathLen
  <2> QED BY <2>1
<1>3. ASSUME NEW m \in Nat, m \in T PROVE m + 1 \in T
  <2> SUFFICES ASSUME NEW q \in FilePath, Len(q) = m + 1, Physical(fs, q) \in DOMAIN fs
               PROVE  Physical(fs, q) = Physical(F, q)
    OBVIOUS
  <2>2. CASE Len(q) = 1
    BY <1>0, <2>2, PhysicalOne
  <2>3. CASE Len(q) > 1
    <3> DEFINE d == Front(q)
               x == Last(q)
               real == Physical(fs, d)
               D == Target(fs, real)
    <3>1. d \in FilePath /\ Len(d) = m /\ x \in FileName /\ q = Append(d, x)
      BY <2>3, UpperParts
    <3>2. real \in FilePath
      BY <1>0, <3>1, PhysicalType
    <3>3. D \in FilePath
      BY <1>0, <3>2, TargetType
    <3>4. Physical(fs, q) = Append(D, x)
      BY <1>0, <3>1, PhysicalAppend
    <3>5. Physical(F, q) = Append(Target(F, Physical(F, d)), x)
      BY <1>0, <3>1, PhysicalAppend
    <3> HIDE DEF d, x, real, D
    <3>6. Len(Append(D, x)) > 1 /\ Front(Append(D, x)) = D
      <4>1. Len(D) \in Nat /\ Len(D) >= 1 /\ Len(Append(D, x)) = Len(D) + 1
        BY <3>1, <3>3, PathLen, AppendIs
      <4>2. \A n \in Nat : n >= 1 => n + 1 > 1
        OBVIOUS
      <4>3. Len(Append(D, x)) > 1
        BY <4>1, <4>2
      <4> QED BY <3>1, <3>3, <4>3, AppendParts
    <3>7. D \in DOMAIN fs
      BY <1>0, <3>4, <3>6 DEF InDirs
    <3>8. real \in DOMAIN fs
      BY <1>0, <3>7, LstatType DEF D
    <3>9. real = Physical(F, d)
      BY <1>3, <3>1, <3>8 DEF real
    <3>10. D = Target(F, real)
      BY <3>8, SameTarget DEF D
    <3> QED BY <3>4, <3>5, <3>9, <3>10
  <2> QED BY <2>2, <2>3, PathSizes
<1> HIDE DEF T
<1>4. \A m \in Nat : m \in T
  BY <1>2, <1>3, AllNumbers
<1>5. Len(p) \in T
  BY <1>4, PathLen
<1> QED BY <1>5 DEF T

LEMMA SameInfo ==
    ASSUME NEW fs, NEW F, PartOf(fs, F), NEW p \in FilePath, NEW follow \in BOOLEAN, Info(fs, p, follow).kind # "none"
    PROVE  /\ Info(fs, p, follow) = Info(F, p, follow)
           /\ Physical(fs, p) \in DOMAIN fs /\ Physical(fs, p) = Physical(F, p)
<1> DEFINE q == Physical(fs, p)
<1>1. Files(fs) /\ Files(F)
  BY DEF PartOf
<1>2. Info(fs, p, follow) = IF follow THEN Lstat(fs, Target(fs, q)) ELSE Lstat(fs, q)
  BY DEF Info
<1>3. Info(F, p, follow) = IF follow THEN Lstat(F, Target(F, Physical(F, p))) ELSE Lstat(F, Physical(F, p))
  BY DEF Info
<1> HIDE DEF q
<1>4. q \in DOMAIN fs
  <2> SUFFICES ASSUME q \notin DOMAIN fs PROVE FALSE
    OBVIOUS
  <2>1. Target(fs, q) = q /\ Lstat(fs, q).kind = "none"
    BY <1>1, LstatType
  <2> QED BY <1>2, <2>1
<1>5. q = Physical(F, p)
  BY <1>4, SamePhysical DEF q
<1>6. Target(fs, q) = Target(F, q) /\ Lstat(fs, q) = Lstat(F, q)
  BY <1>4, SameTarget
<1>7. CASE follow
  <2>1. Lstat(fs, Target(fs, q)).kind # "none"
    BY <1>2, <1>7
  <2>2. Target(fs, q) \in DOMAIN fs
    BY <1>1, <2>1, LstatType
  <2>3. Lstat(fs, Target(fs, q)) = Lstat(F, Target(fs, q))
    BY <2>2, SameTarget
  <2> QED BY <1>2, <1>3, <1>4, <1>5, <1>6, <1>7, <2>3 DEF q
<1>8. CASE ~follow
  BY <1>2, <1>3, <1>4, <1>5, <1>6, <1>8 DEF q
<1> QED BY <1>7, <1>8

\* What was not removed is still there, and leads where it led.
StaysIn(fs, F, q) == q \in DOMAIN F => q \in DOMAIN fs

LEMMA StaysSame ==
    ASSUME NEW fs, NEW F, PartOf(fs, F), NEW q, StaysIn(fs, F, q)
    PROVE  Target(fs, q) = Target(F, q) /\ Lstat(fs, q) = Lstat(F, q)
<1>1. CASE q \in DOMAIN fs
  BY <1>1, SameTarget
<1>2. CASE q \notin DOMAIN fs
  <2>1. q \notin DOMAIN F /\ Files(fs) /\ Files(F)
    BY <1>2 DEF StaysIn, PartOf
  <2>2. Lstat(fs, q) = NoFile /\ Target(fs, q) = q
    BY <1>2, <2>1, LstatType
  <2>3. Lstat(F, q) = NoFile /\ Target(F, q) = q
    BY <2>1, LstatType
  <2> QED BY <2>2, <2>3
<1> QED BY <1>1, <1>2

LEMMA StaysPhysical ==
    ASSUME NEW fs, NEW F, PartOf(fs, F), NEW p \in FilePath,
           \A n \in 1..Len(p) : n < Len(p) => StaysIn(fs, F, Physical(F, Upper(p, n)))
    PROVE  Physical(fs, p) = Physical(F, p)
<1> DEFINE T == {m \in Nat : m \in 1..Len(p) => Physical(fs, Upper(p, m)) = Physical(F, Upper(p, m))}
<1>0. Files(fs) /\ Files(F) /\ Len(p) \in Nat /\ Len(p) >= 1
  BY PathLen DEF PartOf
<1>1. 0 \in T
  OBVIOUS
<1>2. ASSUME NEW m \in Nat, m \in T PROVE m + 1 \in T
  <2> SUFFICES ASSUME m + 1 \in 1..Len(p) PROVE Physical(fs, Upper(p, m + 1)) = Physical(F, Upper(p, m + 1))
    OBVIOUS
  <2>1. Upper(p, m + 1) \in FilePath /\ Len(Upper(p, m + 1)) = m + 1
    BY UpperIs
  <2>2. CASE m = 0
    <3>1. Len(Upper(p, m + 1)) = 1
      BY <2>1, <2>2
    <3> QED BY <1>0, <2>1, <3>1, PhysicalOne
  <2>3. CASE m # 0
    <3>1. m \in 1..Len(p) /\ m < Len(p) /\ p[m + 1] \in FileName
      BY <1>0, <2>3, PathLen
    <3>2. Upper(p, m + 1) = Append(Upper(p, m), p[m + 1]) /\ Upper(p, m) \in FilePath
      BY <3>1, UpperNext, UpperIs
    <3>3. Physical(fs, Upper(p, m)) = Physical(F, Upper(p, m))
      BY <1>2, <3>1
    <3>4. Target(fs, Physical(F, Upper(p, m))) = Target(F, Physical(F, Upper(p, m)))
      BY <3>1, StaysSame
    <3>5. Physical(fs, Append(Upper(p, m), p[m + 1])) = Append(Target(fs, Physical(fs, Upper(p, m))), p[m + 1])
      BY <1>0, <3>1, <3>2, PhysicalAppend
    <3>6. Physical(F, Append(Upper(p, m), p[m + 1])) = Append(Target(F, Physical(F, Upper(p, m))), p[m + 1])
      BY <1>0, <3>1, <3>2, PhysicalAppend
    <3> QED BY <3>2, <3>3, <3>4, <3>5, <3>6
  <2> QED BY <2>2, <2>3
<1> HIDE DEF T
<1>3. \A m \in Nat : m \in T
  BY <1>1, <1>2, AllNumbers
<1>4. Len(p) \in T /\ Len(p) \in 1..Len(p)
  BY <1>0, <1>3
<1> QED BY <1>4, UpperFull DEF T

\* Below directories that are no links, a path is where it leads.
LEMMA RealPath ==
    ASSUME NEW F, Files(F), NEW p \in FilePath,
           \A n \in 1..Len(p) : n < Len(p) => Target(F, Physical(F, Upper(p, n))) = Physical(F, Upper(p, n))
    PROVE  \A n \in 1..Len(p) : Physical(F, Upper(p, n)) = Upper(p, n)
<1> DEFINE T == {m \in Nat : m \in 1..Len(p) => Physical(F, Upper(p, m)) = Upper(p, m)}
<1>0. Len(p) \in Nat
  BY PathLen
<1>1. 0 \in T
  OBVIOUS
<1>2. ASSUME NEW m \in Nat, m \in T PROVE m + 1 \in T
  <2> SUFFICES ASSUME m + 1 \in 1..Len(p) PROVE Physical(F, Upper(p, m + 1)) = Upper(p, m + 1)
    OBVIOUS
  <2>1. Upper(p, m + 1) \in FilePath /\ Len(Upper(p, m + 1)) = m + 1
    BY UpperIs
  <2>2. CASE m = 0
    <3>1. Len(Upper(p, m + 1)) = 1
      BY <2>1, <2>2
    <3> QED BY <2>1, <3>1, PhysicalOne
  <2>3. CASE m # 0
    <3>1. m \in 1..Len(p) /\ m < Len(p) /\ p[m + 1] \in FileName
      BY <1>0, <2>3, PathLen
    <3>2. Upper(p, m + 1) = Append(Upper(p, m), p[m + 1]) /\ Upper(p, m) \in FilePath
      BY <3>1, UpperNext, UpperIs
    <3>3. Physical(F, Upper(p, m)) = Upper(p, m)
      BY <1>2, <3>1
    <3>4. Target(F, Physical(F, Upper(p, m))) = Physical(F, Upper(p, m))
      BY <3>1
    <3>5. Physical(F, Append(Upper(p, m), p[m + 1])) = Append(Target(F, Physical(F, Upper(p, m))), p[m + 1])
      BY <3>1, <3>2, PhysicalAppend
    <3> QED BY <3>2, <3>3, <3>4, <3>5
  <2> QED BY <2>2, <2>3
<1> HIDE DEF T
<1>3. \A m \in Nat : m \in T
  BY <1>1, <1>2, AllNumbers
<1> QED BY <1>0, <1>3 DEF T

\* The entries of a directory, each once.
InDir(fs, d) == {Last(q) : q \in {x \in DOMAIN fs : Len(x) = Len(d) + 1 /\ Front(x) = d}}

LEMMA EntriesAre ==
    ASSUME NEW fs, Files(fs), IsFiniteSet(DOMAIN fs), NEW p \in FilePath
    PROVE  /\ Entries(fs, p) \in Seq(FileName) /\ IsInjective(Entries(fs, p))
           /\ ToSet(Entries(fs, p)) = InDir(fs, Target(fs, Physical(fs, p)))
<1> DEFINE d == Target(fs, Physical(fs, p))
           X == {x \in DOMAIN fs : Len(x) = Len(d) + 1 /\ Front(x) = d}
           S == InDir(fs, d)
           e == Entries(fs, p)
           n == Cardinality(S)
<1>1. d \in FilePath
  BY PhysicalType, TargetType
<1>2. \A x \in X : x \in FilePath /\ Len(x) > 1
  <2>1. ASSUME NEW x \in X PROVE x \in FilePath /\ Len(x) > 1
    <3>1. Len(x) = Len(d) + 1 /\ Len(d) \in Nat /\ Len(d) >= 1 /\ x \in FilePath
      BY <1>1, PathLen DEF Files
    <3> HIDE DEF d
    <3> QED BY <3>1
  <2> QED BY <2>1
<1>3. S \subseteq FileName
  <2>1. S = {Last(q) : q \in X}
    BY DEF InDir
  <2> HIDE DEF X, S
  <2>2. ASSUME NEW x \in X PROVE Last(x) \in FileName
    BY <1>2, UpperParts
  <2> QED BY <2>1, <2>2
<1>4. e = CHOOSE f \in [1..n -> S] : IsInjective(f)
  BY DEF Entries, SetToSeq, InDir
<1>5. IsFiniteSet(S)
  <2> DEFINE g == [q \in X |-> Last(q)]
  <2>1. IsFiniteSet(X)
    BY FS_Subset
  <2>2. g \in Surjection(X, S)
    <3>1. S = {Last(q) : q \in X}
      BY DEF InDir
    <3> HIDE DEF S, X
    <3>2. g \in [X -> S] /\ \A t \in S : \E s \in X : g[s] = t
      BY <3>1
    <3> QED BY <3>2 DEF Surjection
  <2> HIDE DEF g, X, S
  <2> QED BY <2>1, <2>2, FS_Surjection
<1> HIDE DEF S, e, X
<1>6. n \in Nat /\ ExistsBijection(1..n, S)
  BY <1>5, FS_CardinalityType
<1>7. \E f \in [1..n -> S] : IsInjective(f)
  BY <1>6 DEF ExistsBijection, Bijection, Injection
<1> HIDE DEF n
<1>8. e \in [1..n -> S] /\ IsInjective(e)
  BY <1>4, <1>7
<1>9. e \in Surjection(1..n, S)
  <2>1. IsFiniteSet(1..n) /\ Cardinality(1..n) = n
    <3>1. IsFiniteSet(1..n) /\ Cardinality(1..n) = IF 1 > n THEN 0 ELSE n - 1 + 1
      BY <1>6, FS_Interval
    <3> QED BY <1>6, <3>1
  <2>2. e \in Injection(1..n, S)
    BY <1>8 DEF Injection
  <2> QED BY <1>5, <2>1, <2>2, FS_Injection DEF n
<1>10. e \in Seq(FileName)
  <2>1. e \in [1..n -> FileName]
    BY <1>3, <1>8
  <2> QED BY <1>6, <2>1
<1>11. ToSet(e) = S
  BY <1>8, <1>9 DEF ToSet, Surjection
<1> QED BY <1>8, <1>10, <1>11 DEF e, S

-----------------------------------------------------------------------------
(* Sequences that lose or change an end.                                      *)

LEMMA FrontIs ==
    ASSUME NEW S, NEW s \in Seq(S), Len(s) >= 1
    PROVE  Front(s) \in Seq(S) /\ Len(Front(s)) = Len(s) - 1 /\ \A k \in 1..Len(s) - 1 : Front(s)[k] = s[k]
<1> DEFINE n == Len(s) - 1
<1>1. n \in Nat /\ \A k \in 1..n : s[k] \in S
  OBVIOUS
<1>2. SubSeq(s, 1, n) \in Seq(S) /\ Len(SubSeq(s, 1, n)) = n /\ \A k \in 1..n : SubSeq(s, 1, n)[k] = s[k]
  <2> HIDE DEF n
  <2> QED BY <1>1
<1> QED BY <1>2 DEF Front, n

LEMMA TopSet ==
    ASSUME NEW S, NEW s \in Seq(S), Len(s) >= 1, NEW f \in S
    PROVE  LET t == Append(Front(s), f) IN
           /\ t \in Seq(S) /\ Len(t) = Len(s) /\ t[Len(s)] = f
           /\ \A k \in 1..Len(s) : k < Len(s) => t[k] = s[k]
<1> DEFINE r == Front(s)
           t == Append(r, f)
<1>1. r \in Seq(S) /\ Len(r) = Len(s) - 1 /\ \A k \in 1..Len(s) - 1 : r[k] = s[k]
  BY FrontIs
<1>2. Len(s) \in Nat
  OBVIOUS
<1> HIDE DEF r
<1>3. t \in Seq(S) /\ Len(t) = Len(r) + 1 /\ t[Len(r) + 1] = f /\ \A k \in 1..Len(r) : t[k] = r[k]
  BY <1>1
<1> HIDE DEF t
<1>4. Len(r) + 1 = Len(s) /\ \A k \in 1..Len(s) : k < Len(s) => k \in 1..Len(r) /\ k \in 1..Len(s) - 1
  BY <1>1, <1>2
<1>5. t \in Seq(S) /\ Len(t) = Len(s) /\ t[Len(s)] = f /\ \A k \in 1..Len(s) : k < Len(s) => t[k] = s[k]
  BY <1>1, <1>3, <1>4
<1> QED BY <1>5 DEF t, r

LEMMA TailIs ==
    ASSUME NEW S, NEW s \in Seq(S), s # <<>>
    PROVE  /\ Tail(s) \in Seq(S) /\ Head(s) \in S /\ Head(s) = s[1] /\ ToSet(Tail(s)) \subseteq ToSet(s)
           /\ Head(s) \in ToSet(s) /\ ToSet(s) \subseteq {Head(s)} \union ToSet(Tail(s))
           /\ IsInjective(s) => IsInjective(Tail(s)) /\ Head(s) \notin ToSet(Tail(s))
           /\ Len(Tail(s)) = Len(s) - 1 /\ Len(s) >= 1 /\ \A i \in DOMAIN Tail(s) : i + 1 \in DOMAIN s /\ Tail(s)[i] = s[i + 1]
<1> DEFINE t == Tail(s)
           n == Len(s)
<1>1. /\ t \in Seq(S) /\ Head(s) \in S /\ Head(s) = s[1] /\ Len(t) = n - 1 /\ n \in Nat /\ n >= 1
      /\ DOMAIN s = 1..n /\ DOMAIN t = 1..n - 1 /\ \A i \in 1..n - 1 : t[i] = s[i + 1]
  BY HeadTailProperties
<1> HIDE DEF t, n
<1>2. 1 \in 1..n /\ \A i \in 1..n - 1 : i + 1 \in 1..n /\ i + 1 # 1
  BY <1>1
<1>3. \A i \in 1..n : i # 1 => i - 1 \in 1..n - 1 /\ i - 1 + 1 = i
  BY <1>1
<1>4. ToSet(t) \subseteq ToSet(s) /\ Head(s) \in ToSet(s)
  <2>1. ASSUME NEW x \in ToSet(t) PROVE x \in ToSet(s)
    <3>1. PICK i \in 1..n - 1 : x = t[i]
      BY <1>1 DEF ToSet
    <3> QED BY <1>1, <1>2, <3>1 DEF ToSet
  <2> QED BY <1>1, <1>2, <2>1 DEF ToSet
<1>5. ToSet(s) \subseteq {Head(s)} \union ToSet(t)
  <2>1. ASSUME NEW x \in ToSet(s) PROVE x = Head(s) \/ x \in ToSet(t)
    <3>1. PICK i \in 1..n : x = s[i]
      BY <1>1 DEF ToSet
    <3>2. CASE i = 1
      BY <1>1, <3>1, <3>2
    <3>3. CASE i # 1
      <4>1. i - 1 \in 1..n - 1 /\ t[i - 1] = s[i - 1 + 1] /\ i - 1 + 1 = i
        BY <1>1, <1>3, <3>3
      <4> QED BY <1>1, <3>1, <4>1 DEF ToSet
    <3> QED BY <3>2, <3>3
  <2> QED BY <2>1
<1>6. ASSUME IsInjective(s) PROVE IsInjective(t) /\ Head(s) \notin ToSet(t)
  <2>1. ASSUME NEW i \in 1..n - 1, NEW j \in 1..n - 1, t[i] = t[j] PROVE i = j
    <3>1. s[i + 1] = s[j + 1]
      BY <1>1, <2>1
    <3>2. i + 1 = j + 1
      BY <1>1, <1>2, <1>6, <3>1 DEF IsInjective
    <3> QED BY <3>2
  <2>2. ASSUME NEW i \in 1..n - 1, t[i] = s[1] PROVE FALSE
    <3>1. s[i + 1] = s[1] /\ i + 1 \in 1..n /\ 1 \in 1..n /\ i + 1 # 1
      BY <1>1, <1>2, <2>2
    <3> QED BY <1>1, <1>6, <3>1 DEF IsInjective
  <2> QED BY <1>1, <2>1, <2>2 DEF IsInjective, ToSet
<1> QED BY <1>1, <1>2, <1>4, <1>5, <1>6 DEF t, n

LEMMA PushIs ==
    ASSUME NEW S, NEW s \in Seq(S), NEW f \in S
    PROVE  /\ Append(s, f) \in Seq(S) /\ Len(Append(s, f)) = Len(s) + 1 /\ Append(s, f)[Len(s) + 1] = f
           /\ \A k \in 1..Len(s) : Append(s, f)[k] = s[k]
  OBVIOUS

-----------------------------------------------------------------------------
(* What waits, as the walk goes on.                                           *)

LEMMA RootsWait ==
    ASSUME NEW roots \in Seq(Operands), roots # <<>>, NEW p \in FilePath
    PROVE  /\ OnRoot(p, roots, "root") <=> Upper(p, 1) = Head(roots) \/ OnRoot(p, roots, "visit")
           /\ OnRoot(p, Tail(roots), "root") <=> OnRoot(p, roots, "visit")
           /\ \A pc : pc # "root" => (OnRoot(p, roots, pc) <=> OnRoot(p, roots, "visit"))
           /\ IsInjective(roots) /\ Upper(p, 1) = Head(roots) => ~OnRoot(p, roots, "visit")
<1> DEFINE t == Tail(roots)
           n == Len(roots)
           u == Upper(p, 1)
<1>1. /\ Head(roots) = roots[1] /\ n \in Nat /\ n >= 1
      /\ DOMAIN roots = 1..n /\ DOMAIN t = 1..n - 1 /\ \A i \in 1..n - 1 : t[i] = roots[i + 1]
  BY HeadTailProperties
<1> HIDE DEF t, n, u
<1>2. 1 \in 1..n /\ ~(1 > 1) /\ \A i \in 1..n : i = 1 \/ i > 1
  BY <1>1
<1>3. \A i \in 1..n : i > 1 => i - 1 \in 1..n - 1 /\ i - 1 + 1 = i
  BY <1>1
<1>4. \A i \in 1..n - 1 : i + 1 \in 1..n /\ i + 1 > 1
  BY <1>1
<1>5. OnRoot(p, roots, "root") <=> \E i \in 1..n : u = roots[i]
  BY <1>1 DEF OnRoot, u
<1>6. \A pc : pc # "root" => (OnRoot(p, roots, pc) <=> \E i \in 1..n : i > 1 /\ u = roots[i])
  BY <1>1 DEF OnRoot, u
<1>7. OnRoot(p, t, "root") <=> \E i \in 1..n - 1 : u = t[i]
  BY <1>1 DEF OnRoot, u
<1>8. OnRoot(p, roots, "visit") <=> \E i \in 1..n : i > 1 /\ u = roots[i]
  BY <1>6
<1>9. (\E i \in 1..n - 1 : u = t[i]) <=> (\E i \in 1..n : i > 1 /\ u = roots[i])
  <2>1. ASSUME NEW i \in 1..n - 1, u = t[i] PROVE \E j \in 1..n : j > 1 /\ u = roots[j]
    BY <1>1, <1>4, <2>1
  <2>2. ASSUME NEW i \in 1..n, i > 1, u = roots[i] PROVE \E j \in 1..n - 1 : u = t[j]
    <3>1. i - 1 \in 1..n - 1 /\ t[i - 1] = roots[i - 1 + 1] /\ i - 1 + 1 = i
      BY <1>1, <1>3, <2>2
    <3> QED BY <2>2, <3>1
  <2> QED BY <2>1, <2>2
<1>10. IsInjective(roots) /\ u = roots[1] => ~\E i \in 1..n : i > 1 /\ u = roots[i]
  BY <1>1, <1>2 DEF IsInjective
<1> QED BY <1>1, <1>2, <1>5, <1>6, <1>7, <1>8, <1>9, <1>10 DEF t, u

LEMMA BeginsUp ==
    ASSUME NEW p \in FilePath, NEW n \in 1..Len(p), NEW q \in FilePath, Begins(Upper(p, n), q)
    PROVE  Begins(p, q) /\ (Len(q) < n => Len(q) < Len(p))
<1>1. Upper(p, n) \in FilePath /\ Len(Upper(p, n)) = n /\ Len(p) \in Nat /\ n \in Nat /\ Len(q) \in Nat /\ Len(q) >= 1
  BY UpperIs, PathLen
<1>2. Len(q) <= n /\ Upper(Upper(p, n), Len(q)) = q
  BY <1>1 DEF Begins
<1>3. Len(q) \in 1..n
  BY <1>1, <1>2
<1>4. Upper(p, Len(q)) = q
  BY <1>2, <1>3, UpperUpper
<1>5. Len(q) <= Len(p) /\ (Len(q) < n => Len(q) < Len(p))
  BY <1>1, <1>2
<1> QED BY <1>4, <1>5 DEF Begins

\* What is below a path that waits, waits.
LEMMA WaitsBelow ==
    ASSUME NEW roots, NEW stack, NEW pc, NEW at,
           PlacedAt(roots, stack, pc, at), NEW p \in FilePath, NEW n \in 1..Len(p),
           WaitsAt(Upper(p, n), roots, stack, pc, at), Len(stack) \in Nat
    PROVE  WaitsAt(p, roots, stack, pc, at)
<1> DEFINE q == Upper(p, n)
<1>1. q \in FilePath /\ Len(q) = n /\ Len(p) \in Nat /\ n \in Nat /\ n >= 1 /\ n <= Len(p) /\ \A i \in 1..n : q[i] = p[i]
  BY UpperIs, PathLen
<1>2. \A m \in 1..n : Upper(q, m) = Upper(p, m)
  BY UpperUpper
<1>3. OnRoot(q, roots, pc) => OnRoot(p, roots, pc)
  <2>1. 1 \in 1..n
    BY <1>1
  <2>2. Upper(q, 1) = Upper(p, 1)
    BY <1>2, <2>1
  <2> HIDE DEF q
  <2> QED BY <2>2 DEF OnRoot
<1>4. OnStack(q, stack) => OnStack(p, stack)
  <2> HIDE DEF q
  <2> SUFFICES ASSUME OnStack(q, stack) PROVE OnStack(p, stack)
    OBVIOUS
  <2>1. PICK k \in 1..Len(stack) : k < Len(q) /\ Upper(q, k) = stack[k].path /\ q[k + 1] \in ToSet(stack[k].todo)
    BY DEF OnStack
  <2>2. k \in 1..n /\ k + 1 \in 1..n /\ k < Len(p)
    BY <1>1, <2>1
  <2>3. Upper(p, k) = stack[k].path /\ p[k + 1] = q[k + 1]
    BY <1>1, <1>2, <2>1, <2>2
  <2> QED BY <2>1, <2>2, <2>3 DEF OnStack
<1>5. OnPath(q, pc, at) => OnPath(p, pc, at)
  <2> SUFFICES ASSUME OnPath(q, pc, at) PROVE OnPath(p, pc, at)
    OBVIOUS
  <2>1. pc \in {"visit", "read"} /\ Begins(q, at) /\ (pc = "read" => Len(at) < Len(q))
    BY DEF OnPath
  <2>2. pc # "root" /\ pc # "entry"
    BY <2>1
  <2>3. at \in FilePath
    BY <2>2 DEF PlacedAt, PlaceOf
  <2>4. Begins(p, at) /\ (Len(at) < n => Len(at) < Len(p))
    BY <2>1, <2>3, BeginsUp
  <2>5. pc = "read" => Len(at) < Len(p)
    BY <1>1, <2>1, <2>4
  <2> QED BY <2>1, <2>4, <2>5 DEF OnPath
<1> QED BY <1>3, <1>4, <1>5 DEF WaitsAt

-----------------------------------------------------------------------------
(* The moves of the walk, in its place and in what waits.                      *)

\* The walk of an operand ends.
LEMMA LeaveRoot ==
    ASSUME NEW roots \in Seq(Operands), roots # <<>>, NEW stack \in Seq(AFrame), NEW pc, NEW at
    PROVE  /\ PlacedAt(Tail(roots), <<>>, "root", at)
           /\ \A p \in FilePath : WaitsAt(p, Tail(roots), <<>>, "root", at) <=> OnRoot(p, roots, "visit")
<1>1. Len(<<>>) = 0 /\ 1..0 = {}
  OBVIOUS
<1>2. PlacedAt(Tail(roots), <<>>, "root", at)
  BY <1>1 DEF PlacedAt
<1>3. ASSUME NEW p \in FilePath
      PROVE  WaitsAt(p, Tail(roots), <<>>, "root", at) <=> OnRoot(p, roots, "visit")
  <2>1. ~OnStack(p, <<>>)
    BY <1>1 DEF OnStack
  <2>2. ~OnPath(p, "root", at)
    BY DEF OnPath
  <2>3. OnRoot(p, Tail(roots), "root") <=> OnRoot(p, roots, "visit")
    BY RootsWait
  <2> QED BY <2>1, <2>2, <2>3 DEF WaitsAt
<1> QED BY <1>2, <1>3

LEMMA BeginRoot ==
    ASSUME NEW roots \in Seq(Operands), roots # <<>>, NEW at
    PROVE  /\ PlacedAt(roots, <<>>, "visit", Head(roots))
           /\ \A p \in FilePath : WaitsAt(p, roots, <<>>, "visit", Head(roots)) <=> WaitsAt(p, roots, <<>>, "root", at)
<1> DEFINE r == Head(roots)
<1>1. Len(<<>>) = 0 /\ 1..0 = {}
  OBVIOUS
<1>2. r \in FilePath /\ Len(r) = 1
  BY TailIs DEF Operands
<1>3. Upper(r, 1) = r
  BY <1>2, UpperFull
<1>4. PlacedAt(roots, <<>>, "visit", r)
  BY <1>1, <1>2, <1>3 DEF PlacedAt, PlaceOf
<1>5. ASSUME NEW p \in FilePath
      PROVE  WaitsAt(p, roots, <<>>, "visit", r) <=> WaitsAt(p, roots, <<>>, "root", at)
  <2>1. ~OnStack(p, <<>>)
    BY <1>1 DEF OnStack
  <2>2. ~OnPath(p, "root", at)
    BY DEF OnPath
  <2>3. OnPath(p, "visit", r) <=> Upper(p, 1) = r
    <3>1. 1 <= Len(p)
      BY PathLen
    <3> QED BY <1>2, <3>1 DEF OnPath, Begins
  <2>4. OnRoot(p, roots, "root") <=> Upper(p, 1) = Head(roots) \/ OnRoot(p, roots, "visit")
    BY RootsWait
  <2> QED BY <2>1, <2>2, <2>3, <2>4 DEF WaitsAt
<1> QED BY <1>4, <1>5

\* The next entry of the directory on top, or of none.
Dropped(stack) == Append(Front(stack), Frame(stack[Len(stack)].path, Tail(stack[Len(stack)].todo)))
NextPath(stack) == Append(stack[Len(stack)].path, Head(stack[Len(stack)].todo))

LEMMA DroppedIs ==
    ASSUME NEW stack \in Seq(AFrame), Len(stack) >= 1, stack[Len(stack)].todo # <<>>
    PROVE  LET n == Len(stack)
               t == stack[n].todo
               s == Dropped(stack)
           IN /\ n \in Nat /\ n \in 1..n /\ s \in Seq(AFrame) /\ Len(s) = n
              /\ stack[n].path \in FilePath /\ t \in Seq(FileName) /\ t # <<>>
              /\ s[n].path = stack[n].path /\ s[n].todo = Tail(t)
              /\ \A k \in 1..n : k < n => s[k] = stack[k]
              /\ \A k \in 1..n : s[k].path = stack[k].path /\ ToSet(s[k].todo) \subseteq ToSet(stack[k].todo)
              /\ \A k \in 1..n : IsInjective(stack[k].todo) => IsInjective(s[k].todo)
<1> DEFINE n == Len(stack)
           f == stack[n]
           g == Frame(f.path, Tail(f.todo))
           s == Dropped(stack)
<1>1. n \in Nat /\ n \in 1..n /\ f \in AFrame
  OBVIOUS
<1>2. f.path \in FilePath /\ f.todo \in Seq(FileName)
  BY <1>1 DEF AFrame
<1>3. /\ Tail(f.todo) \in Seq(FileName) /\ ToSet(Tail(f.todo)) \subseteq ToSet(f.todo)
      /\ IsInjective(f.todo) => IsInjective(Tail(f.todo))
  BY <1>2, TailIs
<1>4. g \in AFrame /\ g.path = f.path /\ g.todo = Tail(f.todo)
  BY <1>2, <1>3 DEF AFrame, Frame
<1>5. s = Append(Front(stack), g)
  BY DEF Dropped
<1> HIDE DEF f, g, n, s
<1>6. /\ s \in Seq(AFrame) /\ Len(s) = n /\ s[n] = g
      /\ \A k \in 1..n : k < n => s[k] = stack[k]
  BY <1>1, <1>4, <1>5, TopSet DEF n
<1>7. \A k \in 1..n : k < n \/ k = n
  BY <1>1
<1>8. ASSUME NEW k \in 1..n
      PROVE  /\ s[k].path = stack[k].path /\ ToSet(s[k].todo) \subseteq ToSet(stack[k].todo)
             /\ IsInjective(stack[k].todo) => IsInjective(s[k].todo)
  <2>1. CASE k < n
    <3>1. s[k] = stack[k]
      BY <1>6, <2>1
    <3> QED BY <3>1
  <2>2. CASE k = n
    BY <1>3, <1>4, <1>6, <2>2 DEF f
  <2> QED BY <1>7, <2>1, <2>2
<1> QED BY <1>1, <1>2, <1>4, <1>6, <1>8 DEF n, f, s

LEMMA SkipPlaced ==
    ASSUME NEW roots, NEW stack \in Seq(AFrame), NEW at, PlacedAt(roots, stack, "entry", at),
           stack[Len(stack)].todo # <<>>
    PROVE  /\ PlacedAt(roots, Dropped(stack), "entry", at) /\ Dropped(stack) \in Seq(AFrame)
           /\ \A p \in FilePath : /\ WaitsAt(p, roots, Dropped(stack), "entry", at) => WaitsAt(p, roots, stack, "entry", at)
                                  /\ WaitsAt(p, roots, stack, "entry", at) /\ ~Begins(p, NextPath(stack))
                                       => WaitsAt(p, roots, Dropped(stack), "entry", at)
<1> DEFINE n == Len(stack)
           s == Dropped(stack)
           h == stack[n].path
           t == stack[n].todo
<1>1. roots # <<>> /\ h \in FilePath /\ Len(h) = n /\ Upper(h, 1) = Head(roots)
  BY DEF PlacedAt, PlaceOf
<1>2. n \in Nat /\ n >= 1
  BY <1>1, PathLen
<1>3. /\ n \in 1..n /\ s \in Seq(AFrame) /\ Len(s) = n
      /\ t \in Seq(FileName) /\ t # <<>> /\ s[n].path = h /\ s[n].todo = Tail(t)
      /\ \A k \in 1..n : k < n => s[k] = stack[k]
      /\ \A k \in 1..n : s[k].path = stack[k].path /\ ToSet(s[k].todo) \subseteq ToSet(stack[k].todo)
      /\ \A k \in 1..n : IsInjective(stack[k].todo) => IsInjective(s[k].todo)
  BY <1>2, DroppedIs
<1>4. /\ \A k \in 1..n : stack[k].path = Upper(h, k)
      /\ \A k \in 1..n : k < n => h[k + 1] \notin ToSet(stack[k].todo)
      /\ \A k \in 1..n : IsInjective(stack[k].todo)
  BY <1>1 DEF PlacedAt, PlaceOf
<1>5. NextPath(stack) = Append(h, Head(t))
  BY DEF NextPath
<1>6. ToSet(t) \subseteq {Head(t)} \union ToSet(Tail(t)) /\ Head(t) \in FileName
  BY <1>3, TailIs
<1> HIDE DEF h, t, s, n
<1>7. PlaceOf(s, "entry", at) = h
  BY <1>3 DEF PlaceOf
<1>8. PlacedAt(roots, s, "entry", at)
  <2>1. \A k \in 1..n : s[k].path = Upper(h, k) /\ IsInjective(s[k].todo)
    BY <1>3, <1>4
  <2>2. \A k \in 1..n : k < n => h[k + 1] \notin ToSet(s[k].todo)
    BY <1>3, <1>4
  <2>3. "entry" # "root" /\ "entry" = "entry"
    OBVIOUS
  <2>4. \A k \in 1..Len(s) : /\ s[k].path = Upper(h, k) /\ IsInjective(s[k].todo)
                             /\ k < Len(h) => h[k + 1] \notin ToSet(s[k].todo)
    BY <1>1, <1>3, <2>1, <2>2
  <2>5. Len(h) = Len(s)
    BY <1>1, <1>3
  <2> QED BY <1>1, <1>7, <2>3, <2>4, <2>5 DEF PlacedAt
<1>9. ASSUME NEW p \in FilePath PROVE OnStack(p, s) => OnStack(p, stack)
  BY <1>3 DEF OnStack, n
<1>10. ASSUME NEW p \in FilePath, OnStack(p, stack), ~Begins(p, Append(h, Head(t))) PROVE OnStack(p, s)
  <2>1. PICK k \in 1..n : k < Len(p) /\ Upper(p, k) = stack[k].path /\ p[k + 1] \in ToSet(stack[k].todo)
    BY <1>10 DEF OnStack, n
  <2>2. CASE k < n
    <3>1. s[k] = stack[k]
      BY <1>3, <2>2
    <3> QED BY <1>3, <2>1, <3>1 DEF OnStack
  <2>3. CASE k = n
    <3>1. p[n + 1] \in ToSet(t) /\ Upper(p, n) = h /\ n < Len(p)
      BY <2>1, <2>3 DEF h, t
    <3>2. CASE p[n + 1] = Head(t)
      <4>1. Len(p) \in Nat /\ n \in 1..Len(p)
        BY <1>2, <3>1, PathLen
      <4>2. Upper(p, n + 1) = Append(h, Head(t))
        BY <3>1, <3>2, <4>1, UpperNext
      <4>3. Len(Append(h, Head(t))) = n + 1
        BY <1>1, <1>6, AppendIs
      <4>4. n + 1 <= Len(p)
        BY <1>2, <3>1, <4>1
      <4> QED BY <1>10, <4>2, <4>3, <4>4 DEF Begins
    <3>3. CASE p[n + 1] \in ToSet(Tail(t))
      BY <1>3, <3>1, <3>3 DEF OnStack
    <3> QED BY <1>6, <3>1, <3>2, <3>3
  <2>4. k < n \/ k = n
    BY <1>2
  <2> QED BY <2>2, <2>3, <2>4
<1>11. \A p : ~OnPath(p, "entry", at)
  BY DEF OnPath
<1> QED BY <1>3, <1>5, <1>8, <1>9, <1>10, <1>11 DEF WaitsAt, s

LEMMA EntryPlaced ==
    ASSUME NEW roots, NEW stack \in Seq(AFrame), NEW at, PlacedAt(roots, stack, "entry", at),
           stack[Len(stack)].todo # <<>>
    PROVE  /\ NextPath(stack) \in FilePath /\ Len(NextPath(stack)) = Len(stack) + 1
           /\ \A k \in 1..Len(stack) : Upper(NextPath(stack), k) = stack[k].path
           /\ PlacedAt(roots, Dropped(stack), "visit", NextPath(stack)) /\ Dropped(stack) \in Seq(AFrame)
           /\ \A p \in FilePath : WaitsAt(p, roots, Dropped(stack), "visit", NextPath(stack)) <=> WaitsAt(p, roots, stack, "entry", at)
<1> DEFINE n == Len(stack)
           s == Dropped(stack)
           h == stack[n].path
           t == stack[n].todo
           q == NextPath(stack)
<1>1. roots # <<>> /\ h \in FilePath /\ Len(h) = n /\ Upper(h, 1) = Head(roots)
  BY DEF PlacedAt, PlaceOf
<1>2. n \in Nat /\ n >= 1
  BY <1>1, PathLen
<1>3. /\ n \in 1..n /\ s \in Seq(AFrame) /\ Len(s) = n
      /\ t \in Seq(FileName) /\ t # <<>> /\ s[n].path = h /\ s[n].todo = Tail(t)
      /\ \A k \in 1..n : k < n => s[k] = stack[k]
      /\ \A k \in 1..n : s[k].path = stack[k].path /\ ToSet(s[k].todo) \subseteq ToSet(stack[k].todo)
      /\ \A k \in 1..n : IsInjective(stack[k].todo) => IsInjective(s[k].todo)
  BY <1>2, DroppedIs
<1>4. /\ \A k \in 1..n : stack[k].path = Upper(h, k)
      /\ \A k \in 1..n : k < n => h[k + 1] \notin ToSet(stack[k].todo)
      /\ \A k \in 1..n : IsInjective(stack[k].todo)
  BY <1>1 DEF PlacedAt, PlaceOf
<1>5. q = Append(h, Head(t))
  BY DEF NextPath
<1>6. Head(t) \in FileName /\ Head(t) \in ToSet(t) /\ (IsInjective(t) => Head(t) \notin ToSet(Tail(t)))
  BY <1>3, TailIs
<1>7. IsInjective(t)
  BY <1>3, <1>4
<1> HIDE DEF h, t, s, n, q
<1>8. /\ q \in FilePath /\ Len(q) = n + 1 /\ q[n + 1] = Head(t) /\ \A i \in 1..n : q[i] = h[i]
      /\ \A k \in 1..n : Upper(q, k) = Upper(h, k)
  BY <1>1, <1>5, <1>6, AppendIs, UpperAppend
<1>9. PlacedAt(roots, s, "visit", q)
  <2>1. \A k \in 1..n : s[k].path = Upper(q, k) /\ IsInjective(s[k].todo)
    BY <1>3, <1>4, <1>8
  <2>2. ASSUME NEW k \in 1..n PROVE q[k + 1] \notin ToSet(s[k].todo)
    <3>1. CASE k < n
      <4>1. k + 1 \in 1..n
        BY <1>2, <3>1
      <4>2. q[k + 1] = h[k + 1]
        BY <1>8, <4>1
      <4> QED BY <1>3, <1>4, <3>1, <4>2
    <3>2. CASE k = n
      BY <1>3, <1>6, <1>7, <1>8, <3>2
    <3>3. k < n \/ k = n
      BY <1>2
    <3> QED BY <3>1, <3>2, <3>3
  <2>3. Upper(q, 1) = Head(roots)
    <3>1. 1 \in 1..n
      BY <1>2
    <3> QED BY <1>1, <1>8, <3>1
  <2>4. PlaceOf(s, "visit", q) = q
    BY DEF PlaceOf
  <2> QED BY <1>1, <1>3, <1>8, <2>1, <2>2, <2>3, <2>4 DEF PlacedAt
<1>10. \A p \in FilePath : OnStack(p, s) => OnStack(p, stack)
  BY <1>3 DEF OnStack, n
<1>11. ASSUME NEW p \in FilePath PROVE OnPath(p, "visit", q) <=> Begins(p, q)
  BY DEF OnPath
<1>12. ASSUME NEW p \in FilePath, Begins(p, q) PROVE OnStack(p, stack)
  <2>1. Len(p) \in Nat /\ n + 1 <= Len(p) /\ Upper(p, n + 1) = q
    BY <1>8, <1>12, PathLen DEF Begins
  <2>2. n + 1 \in 1..Len(p) /\ n < Len(p) /\ n \in 1..n + 1 /\ n + 1 \in 1..n + 1
    BY <1>2, <2>1
  <2>3. Upper(Upper(p, n + 1), n) = Upper(p, n)
    BY <2>2, UpperUpper
  <2>4. Upper(q, n) = h
    BY <1>1, <1>3, <1>8, UpperFull
  <2>5. Upper(p, n + 1)[n + 1] = p[n + 1]
    BY <2>2, UpperIs
  <2>6. Upper(p, n) = stack[n].path /\ p[n + 1] \in ToSet(stack[n].todo)
    BY <1>6, <1>8, <2>1, <2>3, <2>4, <2>5 DEF h, t
  <2> QED BY <1>3, <2>2, <2>6 DEF OnStack, n
<1>13. ASSUME NEW p \in FilePath, OnStack(p, stack), ~Begins(p, q) PROVE OnStack(p, s)
  <2>1. ~Begins(p, NextPath(stack)) /\ ~OnPath(p, "entry", at)
    BY <1>13 DEF q, OnPath
  <2>2. WaitsAt(p, <<>>, stack, "entry", at)
    BY <1>13 DEF WaitsAt
  <2>3. PICK k \in 1..n : k < Len(p) /\ Upper(p, k) = stack[k].path /\ p[k + 1] \in ToSet(stack[k].todo)
    BY <1>13 DEF OnStack, n
  <2>4. CASE k < n
    <3>1. s[k] = stack[k]
      BY <1>3, <2>4
    <3> QED BY <1>3, <2>3, <3>1 DEF OnStack
  <2>5. CASE k = n
    <3>1. p[n + 1] \in ToSet(t) /\ Upper(p, n) = h /\ n < Len(p)
      BY <2>3, <2>5 DEF h, t
    <3>2. p[n + 1] # Head(t)
      <4> SUFFICES ASSUME p[n + 1] = Head(t) PROVE FALSE
        OBVIOUS
      <4>1. Len(p) \in Nat /\ n \in 1..Len(p)
        BY <1>2, <3>1, PathLen
      <4>2. Upper(p, n + 1) = q
        BY <1>5, <3>1, <4>1, UpperNext
      <4>3. n + 1 <= Len(p)
        BY <1>2, <3>1, <4>1
      <4> QED BY <1>8, <1>13, <4>2, <4>3 DEF Begins
    <3>3. p[n + 1] \in ToSet(Tail(t))
      BY <1>3, <3>1, <3>2, TailIs
    <3> QED BY <1>3, <3>1, <3>3 DEF OnStack
  <2>6. k < n \/ k = n
    BY <1>2
  <2> QED BY <2>4, <2>5, <2>6
<1>14. \A p : ~OnPath(p, "entry", at)
  BY DEF OnPath
<1>15. \A p : OnRoot(p, roots, "visit") <=> OnRoot(p, roots, "entry")
  BY DEF OnRoot
<1>16. \A p \in FilePath : WaitsAt(p, roots, s, "visit", q) <=> WaitsAt(p, roots, stack, "entry", at)
  BY <1>10, <1>11, <1>12, <1>13, <1>14, <1>15 DEF WaitsAt
<1> QED BY <1>3, <1>4, <1>8, <1>9, <1>16 DEF s, q, n

\* A directory is left: nothing of it was still to come.
LEMMA LeavePlaced ==
    ASSUME NEW roots, NEW stack \in Seq(AFrame), NEW at, PlacedAt(roots, stack, "entry", at),
           stack[Len(stack)].todo = <<>>, Len(stack) # 1
    PROVE  /\ PlacedAt(roots, Front(stack), "entry", at) /\ Front(stack) \in Seq(AFrame)
           /\ Len(Front(stack)) = Len(stack) - 1 /\ Len(stack) >= 1
           /\ \A k \in 1..Len(Front(stack)) : k \in 1..Len(stack) /\ Front(stack)[k] = stack[k]
           /\ \A p \in FilePath : WaitsAt(p, roots, Front(stack), "entry", at) <=> WaitsAt(p, roots, stack, "entry", at)
<1> DEFINE n == Len(stack)
           s == Front(stack)
           h == stack[n].path
           m == n - 1
<1>1. roots # <<>> /\ h \in FilePath /\ Len(h) = n /\ Upper(h, 1) = Head(roots)
  BY DEF PlacedAt, PlaceOf
<1>2. n \in Nat /\ n >= 2 /\ m \in Nat /\ m >= 1 /\ m \in 1..n /\ m \in 1..m /\ 1 \in 1..m
  <2>1. n \in Nat /\ n >= 1 /\ n # 1
    BY <1>1, PathLen
  <2>2. \A i \in Nat : i >= 1 /\ i # 1 =>
           i >= 2 /\ i - 1 \in Nat /\ i - 1 >= 1 /\ i - 1 \in 1..i /\ i - 1 \in 1..i - 1 /\ 1 \in 1..i - 1
    OBVIOUS
  <2> QED BY <2>1, <2>2
<1>3. s \in Seq(AFrame) /\ Len(s) = m /\ \A k \in 1..m : s[k] = stack[k]
  BY <1>2, FrontIs
<1>4. /\ \A k \in 1..n : stack[k].path = Upper(h, k)
      /\ \A k \in 1..n : k < n => h[k + 1] \notin ToSet(stack[k].todo)
      /\ \A k \in 1..n : IsInjective(stack[k].todo)
  BY <1>1 DEF PlacedAt, PlaceOf
<1>5. ToSet(stack[n].todo) = {}
  BY DEF ToSet
<1> HIDE DEF h, s, n, m
<1>6. \A k \in 1..m : k \in 1..n /\ k < n
  BY <1>2 DEF m
<1>7. \A k \in 1..n : k \in 1..m \/ k = n
  BY <1>2 DEF m
<1>8. PlacedAt(roots, s, "entry", at)
  <2> DEFINE g == Upper(h, m)
  <2>1. g \in FilePath /\ Len(g) = m /\ \A i \in 1..m : g[i] = h[i]
    BY <1>1, <1>2, UpperIs
  <2>2. PlaceOf(s, "entry", at) = g
    BY <1>2, <1>3, <1>4 DEF PlaceOf
  <2>3. \A k \in 1..m : Upper(g, k) = Upper(h, k)
    BY <1>1, <1>2, UpperUpper
  <2> HIDE DEF g
  <2>4. Upper(g, 1) = Head(roots)
    BY <1>1, <1>2, <2>3
  <2>5. ASSUME NEW k \in 1..m
        PROVE  /\ s[k].path = Upper(g, k) /\ IsInjective(s[k].todo)
               /\ k < m => g[k + 1] \notin ToSet(s[k].todo)
    <3>1. s[k] = stack[k] /\ k \in 1..n /\ k < n
      BY <1>3, <1>6
    <3>2. ASSUME k < m PROVE g[k + 1] = h[k + 1]
      <4>1. k + 1 \in 1..m
        BY <1>2, <3>2
      <4> QED BY <2>1, <4>1
    <3> QED BY <1>4, <2>3, <3>1, <3>2
  <2>6. "entry" # "root" /\ "entry" = "entry"
    OBVIOUS
  <2> QED BY <1>1, <1>3, <2>1, <2>2, <2>4, <2>5, <2>6 DEF PlacedAt
<1>9. ASSUME NEW p \in FilePath PROVE OnStack(p, s) <=> OnStack(p, stack)
  <2>1. OnStack(p, s) => OnStack(p, stack)
    BY <1>3, <1>6 DEF OnStack, n
  <2>2. ASSUME OnStack(p, stack) PROVE OnStack(p, s)
    <3>1. PICK k \in 1..n : k < Len(p) /\ Upper(p, k) = stack[k].path /\ p[k + 1] \in ToSet(stack[k].todo)
      BY <2>2 DEF OnStack, n
    <3>2. k \in 1..m
      BY <1>5, <1>7, <3>1
    <3> QED BY <1>3, <3>1, <3>2 DEF OnStack
  <2> QED BY <2>1, <2>2
<1>10. \A p : ~OnPath(p, "entry", at)
  BY DEF OnPath
<1>11. \A p \in FilePath : WaitsAt(p, roots, s, "entry", at) <=> WaitsAt(p, roots, stack, "entry", at)
  BY <1>9, <1>10 DEF WaitsAt
<1>12. n >= 1
  BY <1>2
<1> QED BY <1>3, <1>6, <1>8, <1>11, <1>12 DEF s, n, m

\* The path the walk is at, does not wait once it was visited.
LEMMA AtOnce ==
    ASSUME NEW roots \in Seq(Operands), NEW stack, NEW at, PlacedAt(roots, stack, "visit", at), IsInjective(roots)
    PROVE  ~OnRoot(at, roots, "visit") /\ ~OnStack(at, stack)
<1>1. roots # <<>> /\ at \in FilePath /\ Upper(at, 1) = Head(roots) /\ Len(at) = Len(stack) + 1
  BY DEF PlacedAt, PlaceOf
<1>2. \A k \in 1..Len(stack) : k < Len(at) => at[k + 1] \notin ToSet(stack[k].todo)
  BY DEF PlacedAt, PlaceOf
<1>3. ~OnRoot(at, roots, "visit")
  BY <1>1, RootsWait
<1>4. ~OnStack(at, stack)
  BY <1>2 DEF OnStack
<1> QED BY <1>3, <1>4

LEMMA BeginsSelf ==
    ASSUME NEW p \in FilePath
    PROVE  Begins(p, p) /\ \A q \in FilePath : Begins(q, p) /\ q # p => Len(p) < Len(q)
<1>1. Begins(p, p)
  BY UpperFull, PathLen DEF Begins
<1>2. ASSUME NEW q \in FilePath, Begins(q, p), q # p PROVE Len(p) < Len(q)
  <2>1. Len(p) \in Nat /\ Len(q) \in Nat /\ Len(p) <= Len(q) /\ Upper(q, Len(p)) = p
    BY <1>2, PathLen DEF Begins
  <2>2. Len(p) # Len(q)
    BY <1>2, <2>1, UpperFull
  <2> QED BY <2>1, <2>2
<1> QED BY <1>1, <1>2

LEMMA VisitRead ==
    ASSUME NEW roots \in Seq(Operands), NEW stack \in Seq(AFrame), NEW at, PlacedAt(roots, stack, "visit", at)
    PROVE  /\ PlacedAt(roots, stack, "read", at)
           /\ \A p \in FilePath : WaitsAt(p, roots, stack, "read", at) => WaitsAt(p, roots, stack, "visit", at)
           /\ \A p \in FilePath : WaitsAt(p, roots, stack, "visit", at) /\ p # at => WaitsAt(p, roots, stack, "read", at)
           /\ IsInjective(roots) => ~WaitsAt(at, roots, stack, "read", at)
<1>1. at \in FilePath
  BY DEF PlacedAt, PlaceOf
<1>2. PlacedAt(roots, stack, "read", at)
  BY DEF PlacedAt, PlaceOf
<1>3. \A p : OnRoot(p, roots, "read") <=> OnRoot(p, roots, "visit")
  BY DEF OnRoot
<1>4. \A p : OnPath(p, "read", at) <=> Begins(p, at) /\ Len(at) < Len(p)
  BY DEF OnPath
<1>5. \A p : OnPath(p, "visit", at) <=> Begins(p, at)
  BY DEF OnPath
<1>6. \A p \in FilePath : Begins(p, at) /\ p # at => Len(at) < Len(p)
  BY <1>1, BeginsSelf
<1>7. ~(Len(at) < Len(at))
  BY <1>1, PathLen
<1>8. ASSUME IsInjective(roots) PROVE ~WaitsAt(at, roots, stack, "read", at)
  <2>1. ~OnRoot(at, roots, "visit") /\ ~OnStack(at, stack)
    BY <1>8, AtOnce
  <2>2. ~OnPath(at, "read", at)
    BY <1>4, <1>7
  <2> QED BY <1>3, <2>1, <2>2 DEF WaitsAt
<1> QED BY <1>2, <1>3, <1>4, <1>5, <1>6, <1>8 DEF WaitsAt

LEMMA VisitEntry ==
    ASSUME NEW roots \in Seq(Operands), NEW stack \in Seq(AFrame), NEW at, PlacedAt(roots, stack, "visit", at), Len(stack) # 0
    PROVE  /\ PlacedAt(roots, stack, "entry", at)
           /\ \A p \in FilePath : WaitsAt(p, roots, stack, "entry", at) => WaitsAt(p, roots, stack, "visit", at)
           /\ \A p \in FilePath : WaitsAt(p, roots, stack, "visit", at) /\ ~Begins(p, at) => WaitsAt(p, roots, stack, "entry", at)
           /\ IsInjective(roots) => ~WaitsAt(at, roots, stack, "entry", at)
<1> DEFINE n == Len(stack)
           h == Upper(at, n)
<1>1. roots # <<>> /\ at \in FilePath /\ Upper(at, 1) = Head(roots) /\ Len(at) = n + 1
  BY DEF PlacedAt, PlaceOf
<1>2. /\ \A k \in 1..n : stack[k].path = Upper(at, k)
      /\ \A k \in 1..n : k < Len(at) => at[k + 1] \notin ToSet(stack[k].todo)
      /\ \A k \in 1..n : IsInjective(stack[k].todo)
  BY DEF PlacedAt, PlaceOf
<1>3. n \in Nat /\ n >= 1 /\ n \in 1..n /\ n \in 1..Len(at) /\ 1 \in 1..n
  BY <1>1
<1>4. h \in FilePath /\ Len(h) = n /\ \A i \in 1..n : h[i] = at[i]
  BY <1>1, <1>3, UpperIs
<1>5. PlaceOf(stack, "entry", at) = h
  BY <1>2, <1>3 DEF PlaceOf
<1>6. \A k \in 1..n : Upper(h, k) = Upper(at, k)
  BY <1>1, <1>3, UpperUpper
<1> HIDE DEF h
<1>7. ASSUME NEW k \in 1..n
      PROVE  stack[k].path = Upper(h, k) /\ IsInjective(stack[k].todo) /\ (k < n => h[k + 1] \notin ToSet(stack[k].todo))
  <2>1. ASSUME k < n PROVE h[k + 1] = at[k + 1] /\ k < Len(at)
    <3>1. k + 1 \in 1..n /\ k < Len(at)
      BY <1>1, <1>3, <2>1
    <3> QED BY <1>4, <3>1
  <2> QED BY <1>2, <1>6, <2>1
<1>8. PlacedAt(roots, stack, "entry", at)
  <2>1. "entry" # "root" /\ "entry" = "entry" /\ Len(h) = Len(stack) /\ Upper(h, 1) = Head(roots)
    BY <1>1, <1>3, <1>4, <1>6
  <2> QED BY <1>1, <1>4, <1>5, <1>7, <2>1 DEF PlacedAt
<1>9. \A p : OnRoot(p, roots, "entry") <=> OnRoot(p, roots, "visit")
  BY DEF OnRoot
<1>10. \A p : (OnPath(p, "visit", at) <=> Begins(p, at)) /\ ~OnPath(p, "entry", at)
  BY DEF OnPath
<1>11. IsInjective(roots) => ~WaitsAt(at, roots, stack, "entry", at)
  BY <1>9, <1>10, AtOnce DEF WaitsAt
<1> QED BY <1>8, <1>9, <1>10, <1>11 DEF WaitsAt

LEMMA RootsRemain ==
    ASSUME NEW roots \in Seq(Operands), roots # <<>>, NEW stack \in Seq(AFrame), NEW pc, NEW at
    PROVE  \A p \in FilePath : WaitsAt(p, Tail(roots), <<>>, "root", at) => WaitsAt(p, roots, stack, pc, at)
<1>1. \A p \in FilePath : WaitsAt(p, Tail(roots), <<>>, "root", at) <=> OnRoot(p, roots, "visit")
  BY LeaveRoot
<1>2. \A p \in FilePath : OnRoot(p, roots, "visit") => OnRoot(p, roots, pc)
  BY DEF OnRoot
<1> QED BY <1>1, <1>2 DEF WaitsAt

\* The end of the walk of an operand, early or not, seen from any place in it.
LEMMA RootLeft ==
    ASSUME NEW roots \in Seq(Operands), roots # <<>>, NEW stack \in Seq(AFrame), NEW at
    PROVE  /\ PlacedAt(roots, stack, "visit", at) /\ Len(stack) = 0 =>
                \A p \in FilePath : WaitsAt(p, roots, stack, "visit", at) /\ ~Begins(p, at) => WaitsAt(p, Tail(roots), <<>>, "root", at)
           /\ PlacedAt(roots, stack, "visit", at) /\ IsInjective(roots) => ~WaitsAt(at, Tail(roots), <<>>, "root", at)
           /\ stack[Len(stack)].todo = <<>> /\ Len(stack) = 1 =>
                \A p \in FilePath : WaitsAt(p, roots, stack, "entry", at) => WaitsAt(p, Tail(roots), <<>>, "root", at)
<1>1. \A p \in FilePath : WaitsAt(p, Tail(roots), <<>>, "root", at) <=> OnRoot(p, roots, "visit")
  BY LeaveRoot
<1>3. ASSUME PlacedAt(roots, stack, "visit", at), Len(stack) = 0, NEW p \in FilePath,
             WaitsAt(p, roots, stack, "visit", at), ~Begins(p, at)
      PROVE  OnRoot(p, roots, "visit")
  <2>1. ~OnStack(p, stack)
    BY <1>3 DEF OnStack
  <2>2. ~OnPath(p, "visit", at)
    BY <1>3 DEF OnPath
  <2> QED BY <1>3, <2>1, <2>2 DEF WaitsAt
<1>4. ASSUME PlacedAt(roots, stack, "visit", at), IsInjective(roots)
      PROVE  ~OnRoot(at, roots, "visit") /\ at \in FilePath
  BY <1>4, AtOnce DEF PlacedAt, PlaceOf
<1>5. ASSUME stack[Len(stack)].todo = <<>>, Len(stack) = 1, NEW p \in FilePath, WaitsAt(p, roots, stack, "entry", at)
      PROVE  OnRoot(p, roots, "visit")
  <2>1. ToSet(stack[1].todo) = {}
    BY <1>5 DEF ToSet
  <2>2. 1..1 = {1}
    OBVIOUS
  <2>3. ~OnStack(p, stack)
    BY <1>5, <2>1, <2>2 DEF OnStack
  <2>4. ~OnPath(p, "entry", at) /\ (OnRoot(p, roots, "entry") <=> OnRoot(p, roots, "visit"))
    BY DEF OnPath, OnRoot
  <2> QED BY <1>5, <2>3, <2>4 DEF WaitsAt
<1> QED BY <1>1, <1>3, <1>4, <1>5 DEF WaitsAt

\* The entries of a directory are read: what is not one of them, does not wait.
Pushed(roots, stack, at, e, s) ==
    /\ s \in Seq(AFrame) /\ PlacedAt(roots, s, "entry", at) /\ Len(s) = Len(stack) + 1
    /\ \A k \in 1..Len(s) : (k \in 1..Len(stack) /\ s[k] = stack[k]) \/ s[k].path = at
    /\ \A p \in FilePath : WaitsAt(p, roots, s, "entry", at) => WaitsAt(p, roots, stack, "read", at)
    /\ \A p \in FilePath :
          WaitsAt(p, roots, stack, "read", at) /\ (Begins(p, at) /\ Len(at) < Len(p) => p[Len(at) + 1] \in ToSet(e))
            => WaitsAt(p, roots, s, "entry", at)
LEMMA ReadPlaced ==
    ASSUME NEW roots, NEW stack \in Seq(AFrame), NEW at, PlacedAt(roots, stack, "read", at),
           NEW e \in Seq(FileName), IsInjective(e), NEW s, s = Append(stack, Frame(at, e))
    PROVE  Pushed(roots, stack, at, e, s)
<1> DEFINE n == Len(stack)
<1>1. roots # <<>> /\ at \in FilePath /\ Upper(at, 1) = Head(roots) /\ Len(at) = n + 1
  BY DEF PlacedAt, PlaceOf
<1>2. /\ \A k \in 1..n : stack[k].path = Upper(at, k)
      /\ \A k \in 1..n : k < Len(at) => at[k + 1] \notin ToSet(stack[k].todo)
      /\ \A k \in 1..n : IsInjective(stack[k].todo)
  BY DEF PlacedAt, PlaceOf
<1>3. n \in Nat /\ n + 1 \in 1..n + 1 /\ Frame(at, e) \in AFrame /\ Frame(at, e).path = at /\ Frame(at, e).todo = e
  BY <1>1 DEF AFrame, Frame
<1>4. s \in Seq(AFrame) /\ Len(s) = n + 1 /\ s[n + 1].path = at /\ s[n + 1].todo = e /\ \A k \in 1..n : s[k] = stack[k]
  BY <1>3, PushIs
<1> HIDE DEF n
<1>5. \A k \in 1..n + 1 : (k \in 1..n /\ k < n + 1) \/ k = n + 1
  BY <1>3
<1>6. PlacedAt(roots, s, "entry", at)
  <2>1. PlaceOf(s, "entry", at) = at
    BY <1>4 DEF PlaceOf
  <2>2. ASSUME NEW k \in 1..n + 1
        PROVE  s[k].path = Upper(at, k) /\ IsInjective(s[k].todo) /\ (k < n + 1 => at[k + 1] \notin ToSet(s[k].todo))
    <3>1. CASE k \in 1..n /\ k < n + 1
      <4>1. s[k] = stack[k]
        BY <1>4, <3>1
      <4> QED BY <1>1, <1>2, <3>1, <4>1
    <3>2. CASE k = n + 1
      <4>1. ~(k < n + 1) /\ s[k].path = at /\ s[k].todo = e
        BY <1>3, <1>4, <3>2
      <4> QED BY <1>1, <3>2, <4>1, UpperFull
    <3> QED BY <1>5, <3>1, <3>2
  <2>3. "entry" # "root" /\ "entry" = "entry" /\ Len(at) = Len(s)
    BY <1>1, <1>4
  <2>4. \A k \in 1..Len(s) : s[k].path = Upper(at, k) /\ IsInjective(s[k].todo) /\ (k < Len(at) => at[k + 1] \notin ToSet(s[k].todo))
    BY <1>1, <1>4, <2>2
  <2> QED BY <1>1, <2>1, <2>3, <2>4 DEF PlacedAt
<1>7. \A k \in 1..Len(s) : (k \in 1..n /\ s[k] = stack[k]) \/ s[k].path = at
  BY <1>4, <1>5
<1>8. \A p : (OnPath(p, "read", at) <=> Begins(p, at) /\ Len(at) < Len(p)) /\ ~OnPath(p, "entry", at)
  BY DEF OnPath
<1>9. \A p : OnRoot(p, roots, "entry") <=> OnRoot(p, roots, "read")
  BY DEF OnRoot
<1>10. ASSUME NEW p \in FilePath, OnStack(p, s) PROVE OnStack(p, stack) \/ OnPath(p, "read", at)
  <2>1. PICK k \in 1..n + 1 : k < Len(p) /\ Upper(p, k) = s[k].path /\ p[k + 1] \in ToSet(s[k].todo)
    BY <1>4, <1>10 DEF OnStack
  <2>2. CASE k \in 1..n /\ k < n + 1
    <3>1. s[k] = stack[k]
      BY <1>4, <2>2
    <3> QED BY <2>1, <2>2, <3>1 DEF OnStack, n
  <2>3. CASE k = n + 1
    <3>1. Len(at) < Len(p) /\ Upper(p, Len(at)) = at
      BY <1>1, <1>4, <2>1, <2>3
    <3>2. Len(at) <= Len(p)
      BY <1>1, <3>1, PathLen
    <3> QED BY <1>8, <3>1, <3>2 DEF Begins
  <2> QED BY <1>5, <2>2, <2>3
<1>11. ASSUME NEW p \in FilePath, OnStack(p, stack) PROVE OnStack(p, s)
  <2>1. PICK k \in 1..n : k < Len(p) /\ Upper(p, k) = stack[k].path /\ p[k + 1] \in ToSet(stack[k].todo)
    BY <1>11 DEF OnStack, n
  <2>2. s[k] = stack[k] /\ k \in 1..Len(s)
    BY <1>3, <1>4
  <2> QED BY <2>1, <2>2 DEF OnStack
<1>12. ASSUME NEW p \in FilePath, Begins(p, at), Len(at) < Len(p), p[Len(at) + 1] \in ToSet(e) PROVE OnStack(p, s)
  <2>1. n + 1 \in 1..Len(s) /\ n + 1 < Len(p) /\ Upper(p, n + 1) = s[n + 1].path /\ p[(n + 1) + 1] \in ToSet(s[n + 1].todo)
    BY <1>1, <1>3, <1>4, <1>12 DEF Begins
  <2> QED BY <2>1 DEF OnStack
<1>13. \A p \in FilePath : WaitsAt(p, roots, s, "entry", at) => WaitsAt(p, roots, stack, "read", at)
  BY <1>8, <1>9, <1>10 DEF WaitsAt
<1>14. ASSUME NEW p \in FilePath, WaitsAt(p, roots, stack, "read", at),
              Begins(p, at) /\ Len(at) < Len(p) => p[Len(at) + 1] \in ToSet(e)
       PROVE  WaitsAt(p, roots, s, "entry", at)
  BY <1>8, <1>9, <1>11, <1>12, <1>14 DEF WaitsAt
<1> QED BY <1>1, <1>4, <1>6, <1>7, <1>13, <1>14 DEF n, Pushed

-----------------------------------------------------------------------------
(* The reference: what is wanted.                                             *)

LEMMA SameCall ==
    ASSUME find'.call = find.call
    PROVE  /\ Asked' = Asked
           /\ \A p : InfoAt(p)' = InfoAt(p) /\ (Reached(p)' <=> Reached(p)) /\ (IsWanted(p)' <=> IsWanted(p)) /\ (Entered(p)' <=> Entered(p))
           /\ (PlainNames' <=> PlainNames) /\ (PlainDelete' <=> PlainDelete) /\ (RootsOnce' <=> RootsOnce)
<1>1. Asked' = Asked
  BY DEF Asked
<1>2. ASSUME NEW p PROVE InfoAt(p)' = InfoAt(p)
  BY <1>1 DEF InfoAt
<1>3. ASSUME NEW p PROVE (IsDir(p)' <=> IsDir(p)) /\ (IsThere(p)' <=> IsThere(p))
  BY <1>2 DEF IsDir, IsThere
<1>4. ASSUME NEW p PROVE Reached(p)' <=> Reached(p)
  BY <1>1, <1>3 DEF Reached, Upper
<1>5. ASSUME NEW p PROVE Passes(p)' <=> Passes(p)
  BY <1>1, <1>2 DEF Passes, NameFits
<1>6. ASSUME NEW p PROVE Pruned(p)' <=> Pruned(p)
  BY <1>1, <1>5 DEF Pruned, Upper
<1>7. ASSUME NEW p PROVE DepthFits(p)' <=> DepthFits(p)
  BY <1>1 DEF DepthFits
<1>8. ASSUME NEW p PROVE IsWanted(p)' <=> IsWanted(p)
  BY <1>4, <1>5, <1>6, <1>7 DEF IsWanted
<1>9. ASSUME NEW p PROVE Entered(p)' <=> Entered(p)
  BY <1>1, <1>2 DEF Entered
<1>10. PlainNames' <=> PlainNames
  BY <1>1 DEF PlainNames
<1>11. PlainDelete' <=> PlainDelete
  BY <1>1 DEF PlainDelete
<1>12. RootsOnce' <=> RootsOnce
  BY <1>1 DEF RootsOnce
<1> QED BY <1>1, <1>2, <1>4, <1>8, <1>9, <1>10, <1>11, <1>12

LEMMA CallIs ==
    ASSUME FindCall(Asked)
    PROVE  /\ Files(Asked.fs) /\ InDirs(Asked.fs) /\ IsFiniteSet(DOMAIN Asked.fs) /\ PartOf(Asked.fs, Asked.fs)
           /\ Asked.roots \in Seq(Operands) /\ Asked.name \in FileName
           /\ Asked.minDepth \in Int /\ Asked.maxDepth \in Int
           /\ Asked.prune \in BOOLEAN /\ Asked.print \in BOOLEAN /\ Asked.delete \in BOOLEAN /\ Asked.follow \in BOOLEAN
<1>1. Tree(Asked.fs)
  BY DEF FindCall
<1>2. Files(Asked.fs) /\ InDirs(Asked.fs) /\ IsFiniteSet(DOMAIN Asked.fs)
  BY <1>1 DEF Tree, Files
<1>3. PartOf(Asked.fs, Asked.fs)
  BY <1>2 DEF PartOf
<1> HIDE DEF Asked
<1> QED BY <1>2, <1>3 DEF FindCall

\* A path that is there, leads to a file of the tree.
LEMMA ThereIs ==
    ASSUME FindCall(Asked), NEW p \in FilePath, IsThere(p)
    PROVE  Physical(Asked.fs, p) \in DOMAIN Asked.fs
<1> DEFINE f == Len(p) = 1 \/ Asked.follow
<1>1. f \in BOOLEAN
  BY CallIs
<1>2. Info(Asked.fs, p, f).kind # "none"
  BY DEF IsThere, InfoAt
<1> HIDE DEF f, Asked
<1>3. PartOf(Asked.fs, Asked.fs)
  BY CallIs
<1> QED BY <1>1, <1>2, <1>3, SameInfo

LEMMA ReachedUp ==
    ASSUME FindCall(Asked), NEW p \in FilePath, Reached(p), NEW n \in 1..Len(p)
    PROVE  Reached(Upper(p, n)) /\ Upper(p, n) \in FilePath /\ (n < Len(p) => IsDir(Upper(p, n)))
<1> DEFINE u == Upper(p, n)
<1>0. Len(p) \in Nat /\ n \in Nat /\ 1 \in 1..n
  BY PathLen
<1>1. u \in FilePath /\ Len(u) = n /\ \A m \in 1..n : Upper(u, m) = Upper(p, m)
  BY UpperIs, UpperUpper
<1>2. \A m \in 1..Len(p) - 1 : IsDir(Upper(p, m))
  BY DEF Reached
<1>3. \A m \in 1..n - 1 : m \in 1..n /\ m \in 1..Len(p) - 1
  BY <1>0
<1>4. n < Len(p) => IsDir(u)
  BY <1>0, <1>2
<1>5. IsThere(u)
  <2>1. CASE n < Len(p)
    BY <1>4, <2>1 DEF IsThere, IsDir
  <2>2. CASE n = Len(p)
    <3>1. u = p
      BY <2>2, UpperFull
    <3> QED BY <3>1 DEF Reached
  <2>3. n < Len(p) \/ n = Len(p)
    BY <1>0
  <2> QED BY <2>1, <2>2, <2>3
<1>6. \E i \in DOMAIN Asked.roots : Upper(u, 1) = Asked.roots[i]
  BY <1>0, <1>1 DEF Reached
<1> HIDE DEF u
<1>7. Reached(u)
  BY <1>1, <1>2, <1>3, <1>5, <1>6 DEF Reached
<1> QED BY <1>1, <1>4, <1>7 DEF u

\* The names of an operand are its own; below it, a name is one of the tree.
LEMMA WholeName ==
    ASSUME FindCall(Asked), PlainNames, NEW p \in FilePath, Reached(p)
    PROVE  MatchTests(Asked, p, InfoAt(p)) <=> Passes(p)
<1> DEFINE q == Physical(Asked.fs, p)
           x == Last(p)
           i == InfoAt(p)
           d == [Asked EXCEPT !.name = <<>>]
<1>1. q \in DOMAIN Asked.fs /\ Last(q) = x
  <2>1. IsThere(p)
    BY DEF Reached
  <2> QED BY <2>1, ThereIs, CallIs, PhysicalType
<1>2. x \in FileName
  <2>1. Len(p) \in 1..Len(p)
    BY PathLen
  <2> QED BY <2>1, PathLen DEF Last
<1>3. MatchPattern(Asked.name, x) => Asked.name = <<>> \/ Glob(Asked.name, x)
  BY <1>1 DEF PlainNames
<1>4. Glob(Asked.name, x) => MatchPattern(Asked.name, x)
  <2>1. x \in Seq(STRING)
    BY <1>2 DEF FileName
  <2>2. From(x, 1) = x /\ 1 \in 1..Len(x) + 1
    BY <2>1 DEF From
  <2> QED BY <2>2 DEF MatchPattern
<1>5. d.name = <<>> /\ d.type = Asked.type
  BY DEF FindCall
<1> HIDE DEF q, x, i, d
<1>6. MatchTests(d, p, i) <=>
        (Asked.type = "" \/ (Asked.type = "f" /\ i.kind = "file") \/ (Asked.type = "d" /\ i.kind = "dir") \/ (Asked.type = "l" /\ i.kind = "link"))
  BY <1>5 DEF MatchTests
<1>7. MatchTests(Asked, p, i) <=> (Asked.name = <<>> \/ MatchPattern(Asked.name, x)) /\ MatchTests(d, p, i)
  BY <1>6 DEF MatchTests, x
<1>8. Passes(p) <=> (Asked.name = <<>> \/ Glob(Asked.name, x)) /\ MatchTests(d, p, i)
  BY DEF Passes, NameFits, x, d, i
<1> QED BY <1>3, <1>4, <1>7, <1>8 DEF i

\* What is wanted is below directories that the walk goes into.
LEMMA WantedEntered ==
    ASSUME FindCall(Asked), PlainNames, NEW p \in FilePath, IsWanted(p), NEW n \in 1..Len(p), n < Len(p)
    PROVE  Entered(Upper(p, n))
<1> DEFINE u == Upper(p, n)
<1>0. Len(p) \in Nat /\ n \in Nat /\ n \in 1..Len(p) - 1
  BY PathLen
<1>1. Reached(p) /\ DepthFits(p) /\ ~Pruned(p)
  BY DEF IsWanted
<1>2. Reached(u) /\ u \in FilePath /\ IsDir(u) /\ Len(u) = n
  BY <1>1, ReachedUp, UpperIs
<1>3. Asked.maxDepth < 0 \/ Len(u) - 1 < Asked.maxDepth
  BY <1>0, <1>1, <1>2, CallIs DEF DepthFits
<1>4. ~(MatchTests(Asked, u, InfoAt(u)) /\ Asked.prune)
  <2>1. ~(Passes(u) /\ Asked.prune)
    BY <1>0, <1>1 DEF Pruned
  <2> QED BY <1>2, <2>1, WholeName
<1> QED BY <1>2, <1>3, <1>4 DEF Entered, Enters, IsDir

LEMMA EnteredWanted ==
    ASSUME FindCall(Asked), PlainNames, NEW p \in FilePath, Reached(p), MatchTests(Asked, p, InfoAt(p)),
           Len(p) - 1 >= Asked.minDepth, Asked.maxDepth < 0 \/ Len(p) - 1 <= Asked.maxDepth,
           \A n \in 1..Len(p) - 1 : Entered(Upper(p, n))
    PROVE  IsWanted(p)
<1>0. Len(p) \in Nat
  BY PathLen
<1>1. Passes(p)
  BY WholeName
<1>2. DepthFits(p)
  BY DEF DepthFits
<1>3. ASSUME Asked.prune, NEW n \in 1..Len(p) - 1, Passes(Upper(p, n)) PROVE FALSE
  <2>1. n \in 1..Len(p)
    BY <1>0
  <2>2. Reached(Upper(p, n)) /\ Upper(p, n) \in FilePath
    BY <2>1, ReachedUp
  <2>3. MatchTests(Asked, Upper(p, n), InfoAt(Upper(p, n)))
    BY <1>3, <2>2, WholeName
  <2>4. Entered(Upper(p, n))
    BY <1>3
  <2> QED BY <1>3, <2>3, <2>4 DEF Entered, Enters
<1>4. ~Pruned(p)
  BY <1>3 DEF Pruned
<1> QED BY <1>1, <1>2, <1>4 DEF IsWanted

Below(S) == {p \in {Append(q, x) : q \in {d \in S : IsDir(d)}, x \in Names} : IsThere(p)}
FirstLevel == {p \in ToSet(Asked.roots) : IsThere(p)}
LevelIs(f) == f = [n \in 1..Longest |-> IF n = 1 THEN FirstLevel ELSE Below(f[n - 1])]

LEMMA WantedPath ==
    ASSUME FindCall(Asked)
    PROVE  \A p \in Wanted : p \in FilePath /\ IsWanted(p)
<1>1. FirstLevel \in SUBSET FilePath
  <2>1. Asked.roots \in Seq(Operands)
    BY CallIs
  <2>2. ToSet(Asked.roots) \subseteq Operands
    BY <2>1 DEF ToSet
  <2> QED BY <2>2 DEF FirstLevel, Operands
<1>2. Names \subseteq FileName
  <2>1. ASSUME NEW q \in FilePath PROVE Last(q) \in FileName
    <3>1. Len(q) \in 1..Len(q)
      BY PathLen
    <3> QED BY <3>1, PathLen DEF Last
  <2>2. DOMAIN Asked.fs \subseteq FilePath
    BY CallIs DEF Files
  <2> QED BY <2>1, <2>2 DEF Names
<1>3. ASSUME NEW S \in SUBSET FilePath PROVE Below(S) \in SUBSET FilePath
  <2>1. ASSUME NEW q \in S, NEW x \in Names PROVE Append(q, x) \in FilePath
    <3>1. q \in FilePath /\ x \in FileName
      BY <1>2
    <3> QED BY <3>1, AppendIs
  <2>2. ASSUME NEW z \in Below(S) PROVE z \in FilePath
    <3>1. PICK q \in S, x \in Names : z = Append(q, x)
      BY DEF Below
    <3> QED BY <2>1, <3>1
  <2>3. Below(S) \subseteq FilePath
    BY <2>2
  <2> QED BY <2>3
<1> DEFINE h == [z \in Nat \X SUBSET FilePath |-> Below(z[2])]
<1>4. h \in [Nat \X SUBSET FilePath -> SUBSET FilePath] /\ \A n \in Nat, S \in SUBSET FilePath : h[<<n, S>>] = Below(S)
  BY <1>3
<1> HIDE DEF h
<1>5. Longest \in Nat
  BY LongestAssumption
<1>6. PICK g \in [1..Longest -> SUBSET FilePath] : Recurs(g, Longest, FirstLevel, h)
  BY <1>1, <1>4, <1>5, Recursion
<1>7. LevelIs(g)
  <2>1. ASSUME NEW n \in 1..Longest PROVE g[n] = IF n = 1 THEN FirstLevel ELSE Below(g[n - 1])
    <3>1. g[n] = IF n = 1 THEN FirstLevel ELSE h[<<n, g[n - 1]>>]
      BY <1>6 DEF Recurs
    <3>2. n # 1 => n - 1 \in 1..Longest /\ n \in Nat
      BY <1>5
    <3>3. n # 1 => g[n - 1] \in SUBSET FilePath
      BY <3>2
    <3> QED BY <1>4, <3>1, <3>2, <3>3
  <2> QED BY <2>1 DEF LevelIs
<1>8. Level = CHOOSE f : LevelIs(f)
  BY DEF Level, LevelIs, Below, FirstLevel
<1>9. LevelIs(Level)
  BY <1>7, <1>8
<1> DEFINE T == {n \in Nat : n \in 1..Longest => Level[n] \in SUBSET FilePath}
<1>10. 0 \in T
  OBVIOUS
<1>11. ASSUME NEW n \in Nat, n \in T PROVE n + 1 \in T
  <2> SUFFICES ASSUME n + 1 \in 1..Longest PROVE Level[n + 1] \in SUBSET FilePath
    OBVIOUS
  <2>1. Level[n + 1] = IF n + 1 = 1 THEN FirstLevel ELSE Below(Level[(n + 1) - 1])
    BY <1>9 DEF LevelIs
  <2>2. (n + 1) - 1 = n
    OBVIOUS
  <2>3. n + 1 # 1 => n \in 1..Longest
    BY <1>5
  <2>4. n + 1 # 1 => Level[n] \in SUBSET FilePath
    BY <1>11, <2>3
  <2> QED BY <1>1, <1>3, <2>1, <2>2, <2>4
<1> HIDE DEF T
<1>12. \A n \in Nat : n \in T
  BY <1>10, <1>11, AllNumbers
<1>13. \A n \in 1..Longest : Level[n] \in SUBSET FilePath
  BY <1>5, <1>12 DEF T
<1> QED BY <1>13 DEF Wanted

-----------------------------------------------------------------------------
(* What is left of the tree.                                                  *)

LEMMA PartLeft ==
    ASSUME FindTypes, LeftOf
    PROVE  PartOf(find.fs, Asked.fs) /\ IsFiniteSet(DOMAIN find.fs) /\ DOMAIN find.fs \in SUBSET FilePath
<1>1. FindCall(Asked)
  BY DEF FindTypes, FindStates
<1>2. Files(Asked.fs) /\ InDirs(Asked.fs) /\ IsFiniteSet(DOMAIN Asked.fs)
  BY <1>1, CallIs
<1>3. DOMAIN find.fs \subseteq DOMAIN Asked.fs /\ InDirs(find.fs) /\ find.fs = [q \in DOMAIN find.fs |-> Asked.fs[q]]
  BY DEF LeftOf
<1>4. \A q \in DOMAIN find.fs : find.fs[q] = Asked.fs[q]
  BY <1>3
<1>5. DOMAIN find.fs \in SUBSET FilePath
  BY <1>2, <1>3 DEF Files
<1>6. find.fs \in [DOMAIN find.fs -> AFile]
  <2>1. \A q \in DOMAIN find.fs : Asked.fs[q] \in AFile
    BY <1>2, <1>3 DEF Files
  <2> QED BY <1>3, <2>1
<1>7. IsFiniteSet(DOMAIN find.fs)
  BY <1>2, <1>3, FS_Subset
<1> QED BY <1>2, <1>3, <1>4, <1>5, <1>6, <1>7 DEF PartOf, Files

\* With -delete, and neither -L nor an operand that is a link, a path is what it names.
LEMMA RealReached ==
    ASSUME FindCall(Asked), PlainDelete, Asked.delete, NEW p \in FilePath, Reached(p)
    PROVE  /\ \A n \in 1..Len(p) : Physical(Asked.fs, Upper(p, n)) = Upper(p, n)
           /\ \A n \in 1..Len(p) : n < Len(p) => Target(Asked.fs, Physical(Asked.fs, Upper(p, n))) = Physical(Asked.fs, Upper(p, n))
           /\ \A n \in 1..Len(p) : n = 1 => Target(Asked.fs, Upper(p, n)) = Upper(p, n)
<1> DEFINE F == Asked.fs
<1>1. Files(F)
  BY CallIs
<1>2. ~Asked.follow
  BY DEF PlainDelete
<1>3. 1 \in 1..Len(p)
  BY PathLen
<1>4. Target(F, Upper(p, 1)) = Upper(p, 1)
  <2>1. Lstat(F, Upper(p, 1)).kind # "link"
    BY DEF PlainDelete, Reached
  <2> HIDE DEF F
  <2> QED BY <1>1, <2>1, LstatType
<1>5. ASSUME NEW n \in 1..Len(p), n < Len(p) PROVE Target(F, Physical(F, Upper(p, n))) = Physical(F, Upper(p, n))
  <2> DEFINE u == Upper(p, n)
  <2>1. IsDir(u) /\ u \in FilePath /\ Len(u) = n
    BY <1>5, ReachedUp, UpperIs
  <2>2. CASE n = 1
    <3>1. Physical(F, u) = u
      BY <1>1, <2>1, <2>2, PhysicalOne
    <3> QED BY <1>4, <2>2, <3>1
  <2>3. CASE n # 1
    <3>1. InfoAt(u) = Lstat(F, Physical(F, u))
      BY <1>2, <2>1, <2>3 DEF InfoAt, Info
    <3>2. Lstat(F, Physical(F, u)).kind # "link"
      BY <2>1, <3>1 DEF IsDir
    <3> HIDE DEF F
    <3> QED BY <1>1, <3>2, LstatType
  <2> QED BY <2>2, <2>3
<1> HIDE DEF F
<1>6. \A n \in 1..Len(p) : Physical(F, Upper(p, n)) = Upper(p, n)
  BY <1>1, <1>5, RealPath
<1> QED BY <1>4, <1>5, <1>6 DEF F

LEMMA StaysThere ==
    ASSUME FindTypes, LeftOf, HandledRight, PlainNames, PlainDelete, NEW p \in FilePath, Reached(p), ~Gone(p),
           NEW m \in 1..Len(p), Upper(p, m) \notin find.deleted
    PROVE  /\ StaysIn(find.fs, Asked.fs, Physical(Asked.fs, Upper(p, m)))
           /\ ~Asked.delete \/ m = 1 => StaysIn(find.fs, Asked.fs, Target(Asked.fs, Physical(Asked.fs, Upper(p, m))))
<1> DEFINE F == Asked.fs
           u == Upper(p, m)
           q == Physical(F, u)
<1>1. FindCall(Asked) /\ find.deleted \subseteq FilePath
  BY DEF FindTypes, FindStates
<1>2. q \notin find.gone /\ Target(F, q) \notin find.gone
  BY DEF Gone
<1>3. \A x \in DOMAIN F : x \in find.gone \/ x \in DOMAIN find.fs \/ \E d \in find.deleted : x = Physical(F, d)
  BY DEF LeftOf
<1>4. CASE ~Asked.delete
  <2>1. find.deleted = {}
    BY <1>4 DEF LeftOf
  <2> QED BY <1>2, <1>3, <2>1 DEF StaysIn
<1>5. CASE Asked.delete
  <2>1. q = u
    BY <1>1, <1>5, RealReached
  <2>2. ASSUME NEW d \in find.deleted PROVE Physical(F, d) = d
    <3>1. d \in FilePath /\ IsWanted(d)
      BY <1>1 DEF HandledRight
    <3>2. Reached(d) /\ Len(d) \in 1..Len(d) /\ Upper(d, Len(d)) = d
      BY <3>1, PathLen, UpperFull DEF IsWanted
    <3> QED BY <1>1, <1>5, <3>1, <3>2, RealReached
  <2>3. m = 1 => Target(F, q) = q
    BY <1>1, <1>5, <2>1, RealReached
  <2> HIDE DEF F, q
  <2>4. q \in DOMAIN F => q \in DOMAIN find.fs
    BY <1>2, <1>3, <2>1, <2>2
  <2> QED BY <1>5, <2>3, <2>4 DEF StaysIn, q, F
<1> QED BY <1>4, <1>5

\* What is wanted and was not removed, is where it was.
LEMMA StillThere ==
    ASSUME FindTypes, LeftOf, HandledRight, PlainNames, PlainDelete, NEW p \in FilePath, Reached(p), ~Gone(p),
           NEW n \in 1..Len(p), \A m \in 1..n : Upper(p, m) \notin find.deleted
    PROVE  LET u == Upper(p, n)
               q == Physical(Asked.fs, u)
           IN /\ Physical(find.fs, u) = q /\ StaysIn(find.fs, Asked.fs, q)
              /\ Target(find.fs, q) = Target(Asked.fs, q)
              /\ Info(find.fs, u, Len(u) = 1 \/ Asked.follow) = InfoAt(u)
<1> DEFINE F == Asked.fs
           fs == find.fs
           u == Upper(p, n)
           q == Physical(F, u)
           f == Len(u) = 1 \/ Asked.follow
<1>0. Len(p) \in Nat /\ \A m \in 1..n : m \in 1..Len(p)
  BY PathLen
<1>1. FindCall(Asked) /\ PartOf(fs, F)
  BY PartLeft DEF FindTypes, FindStates
<1>2. u \in FilePath /\ Len(u) = n /\ \A m \in 1..n : Upper(u, m) = Upper(p, m)
  BY UpperIs, UpperUpper
<1>3. ASSUME NEW m \in 1..n
      PROVE  /\ StaysIn(fs, F, Physical(F, Upper(p, m)))
             /\ ~Asked.delete \/ m = 1 => StaysIn(fs, F, Target(F, Physical(F, Upper(p, m))))
  BY <1>0, StaysThere
<1>4. n \in 1..n
  BY <1>0
<1>5. StaysIn(fs, F, q) /\ (~Asked.delete \/ n = 1 => StaysIn(fs, F, Target(F, q)))
  BY <1>3, <1>4
<1>6. InfoAt(u) = Info(F, u, f)
  BY DEF InfoAt
<1>7. Asked.follow \in BOOLEAN /\ (Asked.delete => ~Asked.follow)
  BY <1>1, CallIs DEF PlainDelete
<1> HIDE DEF F, fs, u
<1>8. Physical(fs, u) = q
  <2>1. \A m \in 1..Len(u) : m < Len(u) => StaysIn(fs, F, Physical(F, Upper(u, m)))
    BY <1>2, <1>3
  <2> QED BY <1>1, <1>2, <2>1, StaysPhysical
<1> HIDE DEF q
<1>9. Target(fs, q) = Target(F, q) /\ Lstat(fs, q) = Lstat(F, q)
  BY <1>1, <1>5, StaysSame
<1>10. Info(fs, u, f) = Info(F, u, f)
  <2>1. CASE f
    <3>1. ~Asked.delete \/ n = 1
      BY <1>2, <1>7, <2>1
    <3>2. Lstat(fs, Target(F, q)) = Lstat(F, Target(F, q))
      BY <1>1, <1>5, <3>1, StaysSame
    <3> QED BY <1>8, <1>9, <2>1, <3>2 DEF Info, q
  <2>2. CASE ~f
    BY <1>8, <1>9, <2>2 DEF Info, q
  <2> QED BY <2>1, <2>2
<1> QED BY <1>5, <1>6, <1>8, <1>9, <1>10 DEF q, u, f, F, fs

-----------------------------------------------------------------------------
(* The parts of the invariant, each kept by what a step changes.               *)

LEMMA LeftSame ==
    ASSUME LeftOf, find'.call = find.call, find'.fs = find.fs, find'.gone = find.gone, find'.deleted = find.deleted
    PROVE  LeftOf'
BY DEF LeftOf, Asked

LEMMA Removes ==
    ASSUME FindTypes, LeftOf, NEW p \in FilePath, Removable(find.fs, p), find'.call = find.call,
           find'.fs = Without(find.fs, p),
           \/ Asked.delete /\ find'.deleted = find.deleted \union {p} /\ find'.gone = find.gone
           \/ p \in DOMAIN find.fs /\ find'.gone = find.gone \union {p} /\ find'.deleted = find.deleted
    PROVE  LeftOf'
<1> DEFINE F == Asked.fs
           fs == find.fs
           real == Physical(fs, p)
<1>1. PartOf(fs, F)
  BY PartLeft
<1>2. real \in DOMAIN fs /\ \A q \in DOMAIN fs : ~(Len(q) > 1 /\ Front(q) = real)
  BY DEF Removable
<1>3. real = Physical(F, p)
  BY <1>1, <1>2, SamePhysical
<1>4. p \in DOMAIN fs => real = p
  BY <1>1, PhysicalReal DEF PartOf
<1>5. DOMAIN find'.fs = DOMAIN fs \ {real} /\ \A q \in DOMAIN fs \ {real} : find'.fs[q] = fs[q]
  BY DEF Without
<1>6. find'.fs = [q \in DOMAIN fs \ {real} |-> fs[q]]
  BY DEF Without
<1>7. Asked'.fs = F
  BY DEF Asked
<1>8. /\ DOMAIN fs \subseteq DOMAIN F /\ \A q \in DOMAIN fs : fs[q] = F[q]
      /\ \A q \in DOMAIN F : q \in find.gone \/ q \in DOMAIN fs \/ \E d \in find.deleted : q = Physical(F, d)
      /\ \A d \in find.deleted : Physical(F, d) \notin DOMAIN fs
      /\ Asked.delete \/ find.deleted = {}
  BY <1>1 DEF LeftOf, PartOf
<1>9. InDirs(fs)
  BY DEF LeftOf
<1> HIDE DEF F, fs, real
<1>10. InDirs(find'.fs)
  <2> SUFFICES ASSUME NEW q \in DOMAIN find'.fs, Len(q) > 1
               PROVE  Front(q) \in DOMAIN find'.fs /\ find'.fs[Front(q)].kind = "dir"
    BY DEF InDirs
  <2>1. q \in DOMAIN fs
    BY <1>5
  <2>2. Front(q) \in DOMAIN fs /\ fs[Front(q)].kind = "dir" /\ Front(q) # real
    BY <1>2, <1>9, <2>1 DEF InDirs
  <2> QED BY <1>5, <2>2
<1>11. find'.fs = [q \in DOMAIN find'.fs |-> F[q]]
  BY <1>5, <1>6, <1>8
<1>12. \A q \in DOMAIN F : q \in find'.gone \/ q \in DOMAIN find'.fs \/ \E d \in find'.deleted : q = Physical(F, d)
  <2>1. find.gone \subseteq find'.gone /\ find.deleted \subseteq find'.deleted
    OBVIOUS
  <2>2. real \in find'.gone \/ \E d \in find'.deleted : real = Physical(F, d)
    BY <1>3, <1>4 DEF fs
  <2> QED BY <1>5, <1>8, <2>1, <2>2
<1>13. \A d \in find'.deleted : Physical(F, d) \notin DOMAIN find'.fs
  BY <1>3, <1>5, <1>8
<1>14. Asked'.delete \/ find'.deleted = {}
  BY <1>8 DEF Asked
<1>15. DOMAIN find'.fs \subseteq DOMAIN F
  BY <1>5, <1>8
<1> QED BY <1>7, <1>10, <1>11, <1>12, <1>13, <1>14, <1>15 DEF LeftOf

LEMMA PrefixUpper ==
    ASSUME NEW p \in FilePath, NEW q \in FilePath, IsStrictPrefix(p, q)
    PROVE  Len(p) \in 1..Len(q) /\ p = Upper(q, Len(p)) /\ p # q
<1>1. Len(p) <= Len(q) /\ SubSeq(p, 1, Len(p)) = SubSeq(q, 1, Len(p)) /\ p # q
  BY DEF IsStrictPrefix, IsPrefix
<1>2. SubSeq(p, 1, Len(p)) = p
  BY UpperFull DEF Upper
<1>3. Len(p) \in Nat /\ Len(p) >= 1 /\ Len(q) \in Nat
  BY PathLen
<1> QED BY <1>1, <1>2, <1>3 DEF Upper

LEMMA PlacedRoots ==
    ASSUME FindTypes, Placed, find.pc # "root"
    PROVE  find.roots # <<>>
BY DEF Placed, PlacedAt

\* What will be still to come.
WaitsNext(p) == WaitsAt(p, find'.roots, find'.stack, find'.pc, find'.at)
Grows ==
    \/ find'.out = find.out /\ find'.deleted = find.deleted
    \/ /\ find.at \in FilePath /\ Waiting(find.at) /\ (IsInjective(find.roots) => ~WaitsNext(find.at))
       /\ find'.out \in {find.out, Append(find.out, find.at)} /\ find'.deleted \in {find.deleted, find.deleted \union {find.at}}
       /\ PlainNames => IsWanted(find.at)

LEMMA OnceKept ==
    ASSUME FindTypes, Placed, HandledOnce, find'.call = find.call, Grows,
           \A p \in FilePath : WaitsNext(p) => Waiting(p)
    PROVE  HandledOnce'
<1> DEFINE out == find.out
           at == find.at
           L == Len(out)
<1>1. RootsOnce' <=> RootsOnce
  BY SameCall
<1> SUFFICES ASSUME RootsOnce
    PROVE  /\ \A i \in DOMAIN find'.out : ~WaitsNext(find'.out[i])
           /\ \A p \in find'.deleted : ~WaitsNext(p)
           /\ IsInjective(find'.out)
           /\ \A i, j \in DOMAIN find'.out : IsStrictPrefix(find'.out[j], find'.out[i]) => j < i
  BY <1>1 DEF HandledOnce, Waiting, WaitsNext
<1>2. /\ \A i \in DOMAIN out : ~Waiting(out[i])
      /\ \A p \in find.deleted : ~Waiting(p)
      /\ IsInjective(out)
      /\ \A i, j \in DOMAIN out : IsStrictPrefix(out[j], out[i]) => j < i
  BY DEF HandledOnce
<1>3. out \in Seq(FilePath) /\ find.deleted \subseteq FilePath /\ find.stack \in Seq(AFrame)
  BY DEF FindTypes, FindStates
<1>4. L \in Nat /\ DOMAIN out = 1..L /\ \A i \in 1..L : out[i] \in FilePath
  BY <1>3
<1>5. IsInjective(find.roots)
  BY DEF Placed
<1>6. CASE find'.out = out /\ find'.deleted = find.deleted
  BY <1>2, <1>3, <1>4, <1>6
<1>7. CASE /\ at \in FilePath /\ Waiting(at) /\ ~WaitsNext(at)
           /\ find'.out \in {out, Append(out, at)} /\ find'.deleted \in {find.deleted, find.deleted \union {at}}
  <2>1. \A p \in find'.deleted : ~WaitsNext(p)
    <3>1. \A p \in find.deleted : p \in FilePath /\ ~Waiting(p)
      BY <1>2, <1>3
    <3>2. \A p \in find'.deleted : p \in find.deleted \/ p = at
      BY <1>7
    <3> QED BY <1>7, <3>1, <3>2
  <2>2. \A i \in 1..L : out[i] \in FilePath /\ ~Waiting(out[i]) /\ ~WaitsNext(out[i])
    BY <1>2, <1>4
  <2>3. CASE find'.out = out
    BY <1>2, <1>4, <2>1, <2>2, <2>3
  <2>4. CASE find'.out = Append(out, at)
    <3> DEFINE new == Append(out, at)
    <3>1. /\ Len(new) = L + 1 /\ new[L + 1] = at /\ \A i \in 1..L : new[i] = out[i]
          /\ new \in Seq(FilePath)
      BY <1>3, <1>7, PushIs
    <3>2. DOMAIN new = 1..L + 1
      BY <1>4, <3>1
    <3> HIDE DEF new, L, out, at
    <3>3. \A i \in 1..L + 1 : i \in 1..L \/ i = L + 1
      BY <1>4
    <3>4. \A i \in 1..L : out[i] # at
      BY <1>7, <2>2
    <3>5. \A i \in 1..L + 1 : ~WaitsNext(new[i])
      <4>1. ASSUME NEW i \in 1..L + 1 PROVE ~WaitsNext(new[i])
        <5>1. CASE i \in 1..L
          <6>1. new[i] = out[i] /\ ~WaitsNext(out[i])
            BY <2>2, <3>1, <5>1
          <6> QED BY <6>1
        <5>2. CASE i = L + 1
          <6>1. new[i] = at
            BY <3>1, <5>2
          <6>2. ~WaitsNext(at)
            BY <1>7
          <6> QED BY <6>1, <6>2
        <5> QED BY <3>3, <5>1, <5>2
      <4> QED BY <4>1
    <3>6. IsInjective(new)
      <4>1. \A i, j \in 1..L : out[i] = out[j] => i = j
        BY <1>2, <1>4 DEF IsInjective
      <4>2. \A i, j \in 1..L + 1 : new[i] = new[j] => i = j
        BY <3>1, <3>3, <3>4, <4>1
      <4> QED BY <3>2, <4>2 DEF IsInjective
    <3>7. ASSUME NEW i \in 1..L + 1, NEW j \in 1..L + 1, IsStrictPrefix(new[j], new[i]) PROVE j < i
      <4>1. CASE i \in 1..L /\ j \in 1..L
        BY <1>2, <1>4, <3>1, <3>7, <4>1
      <4>2. CASE i = L + 1 /\ j \in 1..L
        BY <1>4, <4>2
      <4>3. CASE j = L + 1 /\ i \in 1..L
        <5>1. IsStrictPrefix(at, out[i]) /\ out[i] \in FilePath
          BY <1>4, <3>1, <3>7, <4>3
        <5>2. Len(at) \in 1..Len(out[i]) /\ at = Upper(out[i], Len(at))
          BY <1>7, <5>1, PrefixUpper
        <5>3. Waiting(Upper(out[i], Len(at)))
          BY <1>7, <5>2 DEF Waiting
        <5>4. PlacedAt(find.roots, find.stack, find.pc, find.at) /\ Len(find.stack) \in Nat
          BY <1>3 DEF Placed
        <5>5. Waiting(out[i])
          BY <5>1, <5>2, <5>3, <5>4, WaitsBelow DEF Waiting
        <5> QED BY <2>2, <4>3, <5>5
      <4>4. CASE i = L + 1 /\ j = L + 1
        <5>1. IsStrictPrefix(at, at)
          BY <3>1, <3>7, <4>4
        <5> QED BY <1>7, <5>1, PrefixUpper
      <4> QED BY <3>3, <4>1, <4>2, <4>3, <4>4
    <3>8. find'.out = new
      BY <2>4 DEF new
    <3> QED BY <2>1, <3>2, <3>5, <3>6, <3>7, <3>8
  <2> QED BY <1>7, <2>3, <2>4
<1> QED BY <1>5, <1>6, <1>7 DEF Grows

LEMMA RightKept ==
    ASSUME FindTypes, HandledRight, find'.call = find.call, Grows
    PROVE  HandledRight'
<1> SUFFICES ASSUME PlainNames
    PROVE  (\A i \in DOMAIN find'.out : IsWanted(find'.out[i])) /\ (\A p \in find'.deleted : IsWanted(p))
  BY SameCall DEF HandledRight
<1>1. (\A i \in DOMAIN find.out : IsWanted(find.out[i])) /\ (\A p \in find.deleted : IsWanted(p))
  BY DEF HandledRight
<1>2. find.out \in Seq(FilePath)
  BY DEF FindTypes, FindStates
<1>3. CASE find'.out = find.out /\ find'.deleted = find.deleted
  BY <1>1, <1>3
<1>4. CASE /\ find.at \in FilePath /\ IsWanted(find.at)
           /\ find'.out \in {find.out, Append(find.out, find.at)} /\ find'.deleted \in {find.deleted, find.deleted \union {find.at}}
  <2>1. \A p \in find'.deleted : IsWanted(p)
    BY <1>1, <1>4
  <2>2. ASSUME find'.out = Append(find.out, find.at), NEW i \in DOMAIN find'.out PROVE IsWanted(find'.out[i])
    <3> DEFINE L == Len(find.out)
               new == Append(find.out, find.at)
    <3>1. L \in Nat /\ Len(new) = L + 1 /\ new[L + 1] = find.at /\ new \in Seq(FilePath)
          /\ \A k \in 1..L : new[k] = find.out[k]
      BY <1>2, <1>4, PushIs
    <3>2. i \in 1..L \/ i = L + 1
      BY <2>2, <3>1
    <3>3. DOMAIN find.out = 1..L
      BY <1>2
    <3> HIDE DEF new, L
    <3>4. find'.out = new
      BY <2>2 DEF new
    <3>5. CASE i \in 1..L
      <4>1. find'.out[i] = find.out[i] /\ IsWanted(find.out[i])
        BY <1>1, <3>1, <3>3, <3>4, <3>5
      <4> QED BY <4>1
    <3>6. CASE i = L + 1
      <4>1. find'.out[i] = find.at
        BY <3>1, <3>4, <3>6
      <4> QED BY <1>4, <4>1
    <3> QED BY <3>2, <3>5, <3>6
  <2> QED BY <1>1, <1>4, <2>1, <2>2
<1> QED BY <1>3, <1>4 DEF Grows

\* What a step does not lose is still to come, or was handled by it.
Loses == \E p \in FilePath : IsWanted(p) /\ ~Gone(p) /\ Waiting(p) /\ ~WaitsNext(p) /\ ~Handled(p)'

LEMMA MissingKept ==
    ASSUME FindTypes, Missing, find'.call = find.call, Grows, find.gone \subseteq find'.gone, find'.rc = 0 => find.rc = 0,
           PlainNames /\ RootsOnce /\ PlainDelete /\ find'.rc = 0 => ~Loses
    PROVE  Missing'
<1>1. /\ (PlainNames' <=> PlainNames) /\ (RootsOnce' <=> RootsOnce) /\ (PlainDelete' <=> PlainDelete)
      /\ \A p : IsWanted(p)' <=> IsWanted(p)
  BY SameCall
<1> SUFFICES ASSUME PlainNames, RootsOnce, PlainDelete, find'.rc = 0, NEW p \in FilePath, IsWanted(p), ~Gone(p)'
             PROVE  WaitsNext(p) \/ Handled(p)'
  BY <1>1 DEF Missing, Waiting, WaitsNext
<1>2. ~Gone(p)
  BY DEF Gone, Asked
<1>3. ToSet(find.out) \subseteq ToSet(find'.out) /\ find.deleted \subseteq find'.deleted
  <2>1. find.out \in Seq(FilePath)
    BY DEF FindTypes, FindStates
  <2>2. CASE find'.out = find.out
    BY <2>2 DEF Grows
  <2>3. CASE find.at \in FilePath /\ find'.out = Append(find.out, find.at)
    <3>1. \A k \in 1..Len(find.out) : Append(find.out, find.at)[k] = find.out[k]
      BY <2>1, <2>3, PushIs
    <3>2. DOMAIN find.out = 1..Len(find.out) /\ DOMAIN Append(find.out, find.at) = 1..Len(find.out) + 1 /\ Len(find.out) \in Nat
      BY <2>1, <2>3
    <3>3. \A k \in DOMAIN find.out : k \in DOMAIN find'.out /\ find'.out[k] = find.out[k]
      BY <2>3, <3>1, <3>2
    <3>4. find.deleted \subseteq find'.deleted
      BY DEF Grows
    <3> QED BY <3>3, <3>4 DEF ToSet
  <2> QED BY <2>2, <2>3 DEF Grows
<1>4. Handled(p) => Handled(p)'
  BY <1>3 DEF Handled, Asked
<1>5. Waiting(p) \/ Handled(p)
  BY <1>2 DEF Missing
<1>6. Waiting(p) => WaitsNext(p) \/ Handled(p)'
  BY <1>2 DEF Loses
<1> QED BY <1>4, <1>5, <1>6

-----------------------------------------------------------------------------
(* What the steps change.                                                     *)

LEMMA AbortIs ==
    ASSUME NEW s, s \in FindStates(s), s.roots # <<>>
    PROVE  LET t == Abort(s) IN
           /\ t \in FindStates(t) /\ t.call = s.call /\ t.fs = s.fs /\ t.roots = Tail(s.roots) /\ t.stack = <<>>
           /\ t.at = s.at /\ t.pc = "root" /\ t.out = s.out /\ t.deleted = s.deleted /\ t.gone = s.gone /\ t.rc = 1
<1>1. s.roots \in Seq(Operands) /\ Tail(s.roots) \in Seq(Operands) /\ <<>> \in Seq(AFrame)
  BY TailIs DEF FindStates
<1> QED BY <1>1 DEF Abort, FindStates

LEMMA PrintIs ==
    ASSUME FindTypes, find.at \in FilePath
    PROVE  LET t == WithPrint(find) IN
           /\ t \in FindStates(t) /\ t.call = find.call /\ t.fs = find.fs /\ t.roots = find.roots /\ t.stack = find.stack
           /\ t.at = find.at /\ t.info = find.info /\ t.pc = find.pc /\ t.deleted = find.deleted /\ t.gone = find.gone /\ t.rc = find.rc
           /\ t.out = IF Asked.print THEN Append(find.out, find.at) ELSE find.out
<1>1. find \in FindStates(find) /\ find.out \in Seq(FilePath)
  BY DEF FindTypes, FindStates
<1>2. Append(find.out, find.at) \in Seq(FilePath)
  BY <1>1
<1> HIDE DEF Asked
<1> QED BY <1>1, <1>2 DEF WithPrint, FindStates

LEMMA ActionsAre ==
    ASSUME FindTypes, find.at \in FilePath
    PROVE  LET t == ApplyActions(find) IN
           /\ t \in FindStates(t) /\ t.call = find.call /\ t.roots = find.roots /\ t.stack = find.stack
           /\ t.at = find.at /\ t.info = find.info /\ t.pc = find.pc /\ t.gone = find.gone /\ t.rc = find.rc
           /\ t.fs = IF Asked.delete THEN Without(find.fs, find.at) ELSE find.fs
           /\ t.deleted = IF Asked.delete THEN find.deleted \union {find.at} ELSE find.deleted
           /\ t.out = IF Asked.print THEN Append(find.out, find.at) ELSE find.out
<1> DEFINE w == WithPrint(find)
<1>1. /\ w \in FindStates(w) /\ w.call = find.call /\ w.fs = find.fs /\ w.roots = find.roots /\ w.stack = find.stack
      /\ w.at = find.at /\ w.info = find.info /\ w.pc = find.pc /\ w.deleted = find.deleted /\ w.gone = find.gone /\ w.rc = find.rc
      /\ w.out = IF Asked.print THEN Append(find.out, find.at) ELSE find.out
  BY PrintIs
<1> HIDE DEF w, Asked
<1>2. CASE ~Asked.delete
  <2>1. ApplyActions(find) = w
    BY <1>2 DEF ApplyActions, w
  <2> QED BY <1>1, <1>2, <2>1
<1>3. CASE Asked.delete
  <2> DEFINE t == [w EXCEPT !.fs = Without(@, find.at), !.deleted = @ \union {find.at}]
  <2>1. ApplyActions(find) = t
    BY <1>3 DEF ApplyActions, w
  <2>2. t.fs = Without(find.fs, find.at) /\ t.deleted = find.deleted \union {find.at}
    BY <1>1 DEF FindStates
  <2>3. /\ t.call = w.call /\ t.roots = w.roots /\ t.stack = w.stack /\ t.at = w.at /\ t.info = w.info /\ t.pc = w.pc
        /\ t.gone = w.gone /\ t.rc = w.rc /\ t.out = w.out
    BY <1>1 DEF FindStates
  <2>4. w.deleted \union {find.at} \in SUBSET FilePath
    BY <1>1 DEF FindStates
  <2>5. t \in FindStates(t)
    BY <1>1, <2>4 DEF FindStates
  <2> HIDE DEF t
  <2> QED BY <1>1, <1>3, <2>1, <2>2, <2>3, <2>5
<1> QED BY <1>2, <1>3

LEMMA BackIs ==
    ASSUME NEW s, s \in FindStates(s), s.roots # <<>>
    PROVE  LET t == GoBack(s) IN
           /\ t \in FindStates(t) /\ t.call = s.call /\ t.fs = s.fs /\ t.stack = s.stack
           /\ t.at = s.at /\ t.out = s.out /\ t.deleted = s.deleted /\ t.gone = s.gone /\ t.rc = s.rc
           /\ Depth = 0 => t.pc = "root" /\ t.roots = Tail(s.roots)
           /\ Depth # 0 => t.pc = "entry" /\ t.roots = s.roots
<1>1. s.roots \in Seq(Operands) /\ Tail(s.roots) \in Seq(Operands)
  BY TailIs DEF FindStates
<1> HIDE DEF Depth
<1>2. CASE Depth = 0
  BY <1>1, <1>2 DEF GoBack, FindStates
<1>3. CASE Depth # 0
  BY <1>1, <1>3 DEF GoBack, FindStates
<1> QED BY <1>2, <1>3

\* The walk of an operand is given up.
LEMMA Aborted ==
    ASSUME FindInv, NEW s, s \in FindStates(s), find' = Abort(s), find.roots # <<>>,
           s.call = find.call, s.fs = find.fs, s.roots = find.roots, s.at = find.at, s.deleted = find.deleted, s.gone = find.gone,
           \/ s.out = find.out
           \/ /\ s.out = Append(find.out, find.at) /\ find.pc = "visit"
              /\ PlainNames => IsWanted(find.at)
    PROVE  FindInv'
<1>1. /\ find' \in FindStates(find') /\ find'.call = find.call /\ find'.fs = find.fs /\ find'.roots = Tail(find.roots)
      /\ find'.stack = <<>> /\ find'.at = find.at /\ find'.pc = "root" /\ find'.out = s.out /\ find'.deleted = find.deleted
      /\ find'.gone = find.gone /\ find'.rc = 1
  BY AbortIs
<1>2. FindTypes /\ find.roots \in Seq(Operands) /\ find.stack \in Seq(AFrame)
  BY DEF FindInv, FindTypes, FindStates
<1>3. FindTypes'
  BY <1>1, <1>2 DEF FindTypes, Asked
<1>4. LeftOf'
  BY <1>1, LeftSame DEF FindInv
<1>5. Placed'
  <2>1. PlacedAt(Tail(find.roots), <<>>, "root", find.at)
    BY <1>2, LeaveRoot
  <2>2. ToSet(Tail(find.roots)) \subseteq ToSet(find.roots) /\ (IsInjective(find.roots) => IsInjective(Tail(find.roots)))
    BY <1>2, TailIs
  <2>3. (RootsOnce' <=> RootsOnce) /\ Asked' = Asked
    BY <1>1, SameCall
  <2> QED BY <1>1, <2>1, <2>2, <2>3 DEF Placed, FindInv
<1>6. CameTo'
  <2>1. Depth' = 0
    BY <1>1 DEF Depth
  <2> QED BY <1>1, <2>1 DEF CameTo
<1>7. \A p \in FilePath : WaitsNext(p) => Waiting(p)
  <2>1. \A p \in FilePath : WaitsAt(p, Tail(find.roots), <<>>, "root", find.at) => WaitsAt(p, find.roots, find.stack, find.pc, find.at)
    BY <1>2, RootsRemain
  <2> QED BY <1>1, <2>1 DEF WaitsNext, Waiting
<1>8. Grows
  <2>1. CASE s.out = find.out
    BY <1>1, <2>1 DEF Grows
  <2>2. CASE s.out = Append(find.out, find.at) /\ find.pc = "visit" /\ (PlainNames => IsWanted(find.at))
    <3>1. PlacedAt(find.roots, find.stack, "visit", find.at)
      BY <2>2 DEF FindInv, Placed
    <3>2. find.at \in FilePath
      BY <3>1 DEF PlacedAt, PlaceOf
    <3>3. Waiting(find.at)
      BY <2>2, <3>2, BeginsSelf DEF Waiting, WaitsAt, OnPath
    <3>4. IsInjective(find.roots) => ~WaitsNext(find.at)
      <4>1. IsInjective(find.roots) => ~WaitsAt(find.at, Tail(find.roots), <<>>, "root", find.at)
        BY <1>2, <3>1, RootLeft
      <4> QED BY <1>1, <4>1 DEF WaitsNext
    <3> QED BY <1>1, <2>2, <3>2, <3>3, <3>4 DEF Grows
  <2> QED BY <2>1, <2>2
<1>9. HandledOnce' /\ HandledRight'
  BY <1>1, <1>2, <1>7, <1>8, OnceKept, RightKept DEF FindInv
<1>10. DeletedLeft'
  BY <1>1 DEF DeletedLeft, Depth
<1>11. Missing'
  BY <1>1 DEF Missing
<1> QED BY <1>3, <1>4, <1>5, <1>6, <1>9, <1>10, <1>11 DEF FindInv

-----------------------------------------------------------------------------
(* The steps keep the invariant.                                              *)

LEMMA InfoType ==
    ASSUME NEW fs, Files(fs), NEW p, NEW follow
    PROVE  Info(fs, p, follow) \in AFile \union {NoFile}
BY LstatType DEF Info

\* A step that neither acts on a path nor removes a file.
LEMMA QuietKept ==
    ASSUME FindInv, find'.call = find.call, find'.fs = find.fs, find'.gone = find.gone,
           find'.out = find.out, find'.deleted = find.deleted, find'.rc = find.rc,
           \A p \in FilePath : WaitsNext(p) => Waiting(p),
           PlainNames /\ RootsOnce /\ PlainDelete => ~Loses
    PROVE  LeftOf' /\ HandledOnce' /\ HandledRight' /\ Missing'
<1>1. Grows
  BY DEF Grows
<1>2. LeftOf'
  BY LeftSame DEF FindInv
<1>3. HandledOnce' /\ HandledRight'
  BY <1>1, OnceKept, RightKept DEF FindInv
<1>4. Missing'
  BY <1>1, MissingKept DEF FindInv
<1> QED BY <1>2, <1>3, <1>4

LEMMA StartRootKeeps ==
    ASSUME FindInv, StartRoot
    PROVE  FindInv'
<1> DEFINE r == Head(find.roots)
           info == Info(find.fs, r, TRUE)
<1>1. find.pc = "root" /\ find.roots # <<>>
  BY DEF StartRoot
<1>2. FindTypes /\ find \in FindStates(find) /\ FindCall(Asked) /\ find.roots \in Seq(Operands) /\ find.stack = <<>>
  BY <1>1 DEF FindInv, FindTypes, FindStates, Placed, PlacedAt
<1>3. r \in Operands /\ r \in FilePath /\ Len(r) = 1 /\ r \in Seq(FileName) /\ r \in ToSet(find.roots) /\ Upper(r, 1) = r
  <2>1. r \in Operands /\ r \in ToSet(find.roots)
    BY <1>1, <1>2, TailIs
  <2>2. r \in FilePath /\ Len(r) = 1
    BY <2>1 DEF Operands
  <2> QED BY <2>1, <2>2, UpperFull, PathLen
<1>4. PartOf(find.fs, Asked.fs) /\ Files(find.fs)
  BY <1>2, PartLeft DEF FindInv, PartOf
<1>5. CASE info.kind = "none"
  <2>1. find' = Abort(find)
    BY <1>5 DEF StartRoot
  <2> QED BY <1>1, <1>2, <2>1, Aborted
<1>6. CASE info.kind # "none"
  <2>1. find' = [find EXCEPT !.at = r, !.info = info, !.pc = "visit"]
    BY <1>6 DEF StartRoot
  <2>2. info \in AFile \union {NoFile}
    BY <1>4, InfoType
  <2> HIDE DEF r, info
  <2>3. /\ find' \in FindStates(find') /\ find'.call = find.call /\ find'.fs = find.fs /\ find'.roots = find.roots
        /\ find'.stack = <<>> /\ find'.at = r /\ find'.pc = "visit" /\ find'.info = info /\ find'.out = find.out
        /\ find'.deleted = find.deleted /\ find'.gone = find.gone /\ find'.rc = find.rc
    BY <1>2, <1>3, <2>1, <2>2 DEF FindStates
  <2>4. FindTypes'
    BY <1>2, <2>3 DEF FindTypes, Asked
  <2>5. PlacedAt(find.roots, <<>>, "visit", r)
    BY <1>1, <1>2, BeginRoot DEF r
  <2>6. \A p \in FilePath : WaitsAt(p, find.roots, <<>>, "visit", r) <=> WaitsAt(p, find.roots, <<>>, "root", find.at)
    BY <1>1, <1>2, BeginRoot DEF r
  <2>7. \A p \in FilePath : WaitsNext(p) <=> Waiting(p)
    BY <1>1, <1>2, <2>3, <2>6 DEF WaitsNext, Waiting
  <2>8. LeftOf' /\ HandledOnce' /\ HandledRight' /\ Missing'
    BY <2>3, <2>7, QuietKept DEF Loses
  <2>9. Placed'
    BY <2>3, <2>5, SameCall DEF Placed, FindInv
  <2>10. Reached(r) /\ info = InfoAt(r)
    <3>1. info = Info(Asked.fs, r, TRUE)
      BY <1>3, <1>4, <1>6, SameInfo DEF info
    <3>2. InfoAt(r) = Info(Asked.fs, r, TRUE)
      BY <1>3 DEF InfoAt
    <3>3. IsThere(r)
      BY <1>6, <3>1, <3>2 DEF IsThere
    <3>4. r \in ToSet(Asked.roots)
      BY <1>3 DEF FindInv, Placed
    <3>5. \E i \in DOMAIN Asked.roots : Upper(r, 1) = Asked.roots[i]
      BY <1>3, <3>4 DEF ToSet
    <3>6. 1..Len(r) - 1 = {}
      BY <1>3
    <3> QED BY <3>1, <3>2, <3>3, <3>5, <3>6 DEF Reached
  <2>11. CameTo'
    <3>1. Depth' = 0 /\ 1..0 = {}
      BY <2>3 DEF Depth
    <3>2. Reached(find.at)' /\ find'.info = InfoAt(find.at)'
      BY <2>3, <2>10, SameCall
    <3>3. Asked'.maxDepth < 0 \/ Depth' <= Asked'.maxDepth
      <4>1. Asked' = Asked /\ Asked.maxDepth \in Int
        BY <1>2, <2>3, SameCall, CallIs
      <4> QED BY <3>1, <4>1
    <3> QED BY <2>3, <3>1, <3>2, <3>3 DEF CameTo
  <2>12. DeletedLeft'
    BY <2>3 DEF DeletedLeft, Depth
  <2> QED BY <2>4, <2>8, <2>9, <2>11, <2>12 DEF FindInv
<1> QED BY <1>5, <1>6

\* What is known of the directory that the walk takes the next entry of.
LEMMA InEntry ==
    ASSUME FindInv, find.pc = "entry"
    PROVE  /\ FindTypes /\ find \in FindStates(find) /\ FindCall(Asked) /\ find.stack \in Seq(AFrame) /\ find.roots \in Seq(Operands)
           /\ PlacedAt(find.roots, find.stack, "entry", find.at) /\ Depth \in Nat /\ Depth >= 1 /\ find.roots # <<>>
           /\ Top.path \in FilePath /\ Len(Top.path) = Depth /\ Upper(Top.path, 1) = Head(find.roots)
           /\ \A k \in 1..Depth : find.stack[k].path = Upper(Top.path, k) /\ Entered(find.stack[k].path)
           /\ Head(find.roots) \in ToSet(Asked.roots)
<1>1. FindTypes /\ find \in FindStates(find) /\ FindCall(Asked) /\ find.stack \in Seq(AFrame) /\ find.roots \in Seq(Operands)
  BY DEF FindInv, FindTypes, FindStates
<1>2. PlacedAt(find.roots, find.stack, "entry", find.at)
  BY DEF FindInv, Placed
<1>3. /\ find.roots # <<>> /\ Top.path \in FilePath /\ Len(Top.path) = Depth /\ Upper(Top.path, 1) = Head(find.roots)
      /\ \A k \in 1..Depth : find.stack[k].path = Upper(Top.path, k)
  BY <1>2 DEF PlacedAt, PlaceOf, Top, Depth
<1>4. Depth \in Nat /\ Depth >= 1
  BY <1>3, PathLen
<1>5. \A k \in 1..Depth : Entered(find.stack[k].path)
  BY DEF FindInv, CameTo
<1>6. Head(find.roots) \in ToSet(Asked.roots)
  <2>1. Head(find.roots) \in ToSet(find.roots)
    BY <1>1, <1>3, TailIs
  <2> QED BY <2>1 DEF FindInv, Placed
<1> QED BY <1>1, <1>2, <1>3, <1>4, <1>5, <1>6

\* An entry that is no longer there was not wanted, or is gone.
LEMMA SkipLoses ==
    ASSUME FindInv, find.pc = "entry", Top.todo # <<>>, PlainNames, RootsOnce, PlainDelete,
           Info(find.fs, NextPath(find.stack), Asked.follow).kind = "none", NEW p \in FilePath, IsWanted(p), ~Gone(p),
           Begins(p, NextPath(find.stack))
    PROVE  FALSE
<1> DEFINE q == NextPath(find.stack)
           n == Depth
<1>1. /\ FindTypes /\ FindCall(Asked) /\ PlacedAt(find.roots, find.stack, "entry", find.at) /\ n \in Nat /\ n >= 1
      /\ find.stack \in Seq(AFrame)
  BY InEntry
<1>2. find.stack[Len(find.stack)].todo # <<>> /\ Len(find.stack) = n
  BY DEF Top, Depth
<1>3. /\ q \in FilePath /\ Len(q) = n + 1 /\ \A k \in 1..n : Upper(q, k) = find.stack[k].path
      /\ \A x \in FilePath : WaitsAt(x, find.roots, Dropped(find.stack), "visit", q) <=> WaitsAt(x, find.roots, find.stack, "entry", find.at)
  BY <1>1, <1>2, EntryPlaced
<1> HIDE DEF q, n
<1>4. n + 1 \in 1..Len(p) /\ Upper(p, n + 1) = q
  <2>1. n + 1 <= Len(p) /\ Upper(p, n + 1) = q
    BY <1>3 DEF Begins, q
  <2> QED BY <1>1, <2>1, PathLen
<1>5. q \notin find.deleted
  <2>1. WaitsAt(q, find.roots, Dropped(find.stack), "visit", q)
    BY <1>3, BeginsSelf DEF WaitsAt, OnPath
  <2>2. Waiting(q)
    BY <1>3, <2>1 DEF Waiting
  <2> QED BY <2>2 DEF FindInv, HandledOnce
<1>6. ASSUME NEW m \in 1..n + 1 PROVE Upper(p, m) \notin find.deleted
  <2>1. Upper(p, m) = Upper(q, m)
    BY <1>4, UpperUpper
  <2>2. CASE m = n + 1
    BY <1>4, <1>5, <2>2
  <2>3. CASE m \in 1..n
    <3>1. Upper(p, m) = find.stack[m].path
      BY <1>3, <2>1, <2>3
    <3> QED BY <2>3, <3>1 DEF FindInv, DeletedLeft, n
  <2>4. m \in 1..n \/ m = n + 1
    BY <1>1
  <2> QED BY <2>2, <2>3, <2>4
<1>7. Reached(p)
  BY DEF IsWanted
<1>8. Info(find.fs, q, Len(q) = 1 \/ Asked.follow) = InfoAt(q)
  <2>1. LeftOf /\ HandledRight
    BY DEF FindInv
  <2>2. Info(find.fs, Upper(p, n + 1), Len(Upper(p, n + 1)) = 1 \/ Asked.follow) = InfoAt(Upper(p, n + 1))
    BY <1>1, <1>4, <1>6, <1>7, <2>1, StillThere
  <2> QED BY <1>4, <2>2
<1>9. (Len(q) = 1 \/ Asked.follow) = Asked.follow
  <2>1. Len(q) # 1 /\ Asked.follow \in BOOLEAN
    BY <1>1, <1>3, CallIs
  <2> QED BY <2>1
<1>10. IsThere(q)
  BY <1>1, <1>4, <1>7, ReachedUp DEF Reached
<1> QED BY <1>8, <1>9, <1>10 DEF IsThere, q

LEMMA NextEntryKeeps ==
    ASSUME FindInv, NextEntry
    PROVE  FindInv'
<1> DEFINE n == Depth
           q == NextPath(find.stack)
           s == Dropped(find.stack)
           info == Info(find.fs, q, Asked.follow)
<1>1. find.pc = "entry" /\ Top.todo # <<>> /\ find.stack[Len(find.stack)].todo # <<>> /\ Len(find.stack) = n
  BY DEF NextEntry, Top, Depth
<1>2. /\ FindTypes /\ find \in FindStates(find) /\ FindCall(Asked) /\ find.stack \in Seq(AFrame) /\ find.roots \in Seq(Operands)
      /\ PlacedAt(find.roots, find.stack, "entry", find.at) /\ n \in Nat /\ n >= 1
      /\ Top.path \in FilePath /\ Len(Top.path) = n /\ Upper(Top.path, 1) = Head(find.roots)
      /\ \A k \in 1..n : find.stack[k].path = Upper(Top.path, k) /\ Entered(find.stack[k].path)
      /\ Head(find.roots) \in ToSet(Asked.roots)
  BY <1>1, InEntry
<1>3. s \in Seq(AFrame) /\ Len(s) = n /\ \A k \in 1..n : s[k].path = find.stack[k].path
  BY <1>1, <1>2, DroppedIs
<1>4. \A k \in 1..n : Entered(s[k].path)
  BY <1>2, <1>3
<1>5. q = Append(Top.path, Head(Top.todo)) /\ s = Append(Front(find.stack), Frame(Top.path, Tail(Top.todo)))
  BY DEF NextPath, Dropped, Top
<1>6. Last(find.stack) = Top
  BY DEF Last, Top
<1>7. /\ q \in FilePath /\ Len(q) = n + 1 /\ \A k \in 1..n : Upper(q, k) = find.stack[k].path
      /\ PlacedAt(find.roots, s, "visit", q)
      /\ \A p \in FilePath : WaitsAt(p, find.roots, s, "visit", q) <=> WaitsAt(p, find.roots, find.stack, "entry", find.at)
  BY <1>1, <1>2, EntryPlaced
<1>8. /\ PlacedAt(find.roots, s, "entry", find.at)
      /\ \A p \in FilePath : /\ WaitsAt(p, find.roots, s, "entry", find.at) => WaitsAt(p, find.roots, find.stack, "entry", find.at)
                             /\ WaitsAt(p, find.roots, find.stack, "entry", find.at) /\ ~Begins(p, q)
                                  => WaitsAt(p, find.roots, s, "entry", find.at)
  BY <1>1, <1>2, SkipPlaced
<1>9. ASSUME find'.stack = s, find'.deleted = find.deleted PROVE DeletedLeft'
  <2>1. \A p \in find.deleted : \A k \in 1..n : s[k].path # p
    BY <1>3 DEF FindInv, DeletedLeft
  <2> QED BY <1>3, <1>9, <2>1 DEF DeletedLeft, Depth
<1>10. ASSUME find'.stack = s, find'.roots = find.roots, find'.call = find.call, PlacedAt(find.roots, s, find'.pc, find'.at)
       PROVE  Placed'
  BY <1>10, SameCall DEF FindInv, Placed
<1>11. CASE info.kind = "none"
  <2>1. find' = SkipEntry(find)
    BY <1>5, <1>11 DEF NextEntry
  <2>2. find' = [find EXCEPT !.stack = s]
    BY <1>2, <1>5, <1>6, <2>1 DEF SkipEntry, FindStates
  <2> HIDE DEF s, q, n, info
  <2>3. /\ find' \in FindStates(find') /\ find'.call = find.call /\ find'.fs = find.fs /\ find'.roots = find.roots
        /\ find'.stack = s /\ find'.at = find.at /\ find'.pc = "entry" /\ find'.out = find.out
        /\ find'.deleted = find.deleted /\ find'.gone = find.gone /\ find'.rc = find.rc
    BY <1>1, <1>2, <1>3, <2>2 DEF FindStates
  <2>4. FindTypes'
    BY <1>2, <2>3 DEF FindTypes, Asked
  <2>5. \A p \in FilePath : /\ WaitsNext(p) => Waiting(p)
                            /\ Waiting(p) /\ ~Begins(p, q) => WaitsNext(p)
    BY <1>1, <1>8, <2>3 DEF WaitsNext, Waiting
  <2>6. ASSUME PlainNames, RootsOnce, PlainDelete, Loses PROVE FALSE
    <3>1. PICK p \in FilePath : IsWanted(p) /\ ~Gone(p) /\ Waiting(p) /\ ~WaitsNext(p)
      BY <2>6 DEF Loses
    <3>2. Begins(p, q)
      BY <2>5, <3>1
    <3> QED BY <1>1, <1>11, <2>6, <3>1, <3>2, SkipLoses DEF q, info
  <2>7. LeftOf' /\ HandledOnce' /\ HandledRight' /\ Missing'
    BY <2>3, <2>5, <2>6, QuietKept
  <2>8. Placed' /\ DeletedLeft'
    BY <1>8, <1>9, <1>10, <2>3
  <2>9. CameTo'
    <3>1. Depth' = n
      BY <1>3, <2>3 DEF Depth
    <3>2. \A k \in 1..n : Entered(find.stack[k].path)'
      BY <1>4, <2>3, SameCall
    <3> QED BY <2>3, <3>1, <3>2 DEF CameTo
  <2> QED BY <2>4, <2>7, <2>8, <2>9 DEF FindInv
<1>12. CASE info.kind # "none"
  <2>1. find' = [[find EXCEPT !.stack = s] EXCEPT !.at = q, !.info = info, !.pc = "visit"]
    <3>1. [find EXCEPT !.stack = Append(Front(@), Frame(Top.path, Tail(Top.todo)))] = [find EXCEPT !.stack = s]
      BY <1>2, <1>5 DEF FindStates
    <3> QED BY <1>5, <1>12, <3>1 DEF NextEntry
  <2>2. PartOf(find.fs, Asked.fs) /\ Files(find.fs)
    BY <1>2, PartLeft DEF FindInv, PartOf
  <2>3. info \in AFile \union {NoFile}
    BY <2>2, InfoType
  <2>4. q \in Seq(FileName)
    BY <1>7, PathLen
  <2>5. info = InfoAt(q)
    <3>1. Asked.follow \in BOOLEAN
      BY <1>2, CallIs
    <3>2. info = Info(Asked.fs, q, Asked.follow)
      BY <1>7, <1>12, <2>2, <3>1, SameInfo
    <3>3. (Len(q) = 1 \/ Asked.follow) = Asked.follow
      BY <1>2, <1>7, <3>1
    <3> QED BY <3>2, <3>3 DEF InfoAt
  <2> HIDE DEF s, q, n, info
  <2>6. /\ find' \in FindStates(find') /\ find'.call = find.call /\ find'.fs = find.fs /\ find'.roots = find.roots
        /\ find'.stack = s /\ find'.at = q /\ find'.info = info /\ find'.pc = "visit" /\ find'.out = find.out
        /\ find'.deleted = find.deleted /\ find'.gone = find.gone /\ find'.rc = find.rc
    BY <1>1, <1>2, <1>3, <2>1, <2>3, <2>4 DEF FindStates
  <2>7. FindTypes'
    BY <1>2, <2>6 DEF FindTypes, Asked
  <2>8. \A p \in FilePath : WaitsNext(p) <=> Waiting(p)
    BY <1>1, <1>7, <2>6 DEF WaitsNext, Waiting
  <2>9. LeftOf' /\ HandledOnce' /\ HandledRight' /\ Missing'
    BY <2>6, <2>8, QuietKept DEF Loses
  <2>10. Placed' /\ DeletedLeft'
    BY <1>7, <1>9, <1>10, <2>6
  <2>11. Reached(q)
    <3>1. \A k \in 1..Len(q) - 1 : IsDir(Upper(q, k))
      <4>1. Len(q) - 1 = n
        BY <1>2, <1>7
      <4>2. \A k \in 1..n : Entered(Upper(q, k))
        BY <1>2, <1>7
      <4> QED BY <4>1, <4>2 DEF Entered, Enters, IsDir
    <3>2. \E i \in DOMAIN Asked.roots : Upper(q, 1) = Asked.roots[i]
      <4>1. 1 \in 1..n
        BY <1>2
      <4>2. Upper(q, 1) = Upper(Top.path, 1)
        BY <1>2, <1>7, <4>1
      <4> QED BY <1>2, <4>2 DEF ToSet
    <3>3. IsThere(q)
      BY <1>12, <2>5 DEF IsThere
    <3> QED BY <3>1, <3>2, <3>3 DEF Reached
  <2>12. CameTo'
    <3>1. Depth' = n
      BY <1>3, <2>6 DEF Depth
    <3>2. \A k \in 1..n : Entered(find.stack[k].path)'
      BY <1>4, <2>6, SameCall
    <3>3. Reached(find.at)' /\ find'.info = InfoAt(find.at)'
      BY <2>5, <2>6, <2>11, SameCall
    <3>4. Asked.maxDepth < 0 \/ n <= Asked.maxDepth
      <4>1. Entered(find.stack[n].path) /\ find.stack[n].path = Top.path
        <5>1. n \in 1..n
          BY <1>2
        <5> QED BY <1>2, <5>1, UpperFull
      <4>2. Asked.maxDepth < 0 \/ n - 1 < Asked.maxDepth
        BY <1>2, <4>1 DEF Entered, Enters
      <4>3. Asked.maxDepth \in Int
        BY <1>2, CallIs
      <4> QED BY <1>2, <4>2, <4>3
    <3>5. Asked' = Asked
      BY <2>6, SameCall
    <3> QED BY <2>6, <3>1, <3>2, <3>3, <3>4, <3>5 DEF CameTo
  <2> QED BY <2>7, <2>9, <2>10, <2>12 DEF FindInv
<1> QED BY <1>11, <1>12

LEMMA LeaveDirKeeps ==
    ASSUME FindInv, LeaveDir
    PROVE  FindInv'
<1>1. find.pc = "entry" /\ Top.todo = <<>> /\ find.stack[Len(find.stack)].todo = <<>> /\ Len(find.stack) = Depth
  BY DEF LeaveDir, Top, Depth
<1>2. /\ FindTypes /\ find \in FindStates(find) /\ FindCall(Asked) /\ find.stack \in Seq(AFrame) /\ find.roots \in Seq(Operands)
      /\ PlacedAt(find.roots, find.stack, "entry", find.at) /\ Depth \in Nat /\ Depth >= 1 /\ find.roots # <<>>
      /\ \A k \in 1..Depth : Entered(find.stack[k].path)
  BY <1>1, InEntry
<1>3. CASE Depth = 1
  <2>1. find' = [find EXCEPT !.stack = <<>>, !.roots = Tail(find.roots), !.pc = "root"]
    BY <1>2, <1>3 DEF LeaveDir, FindStates
  <2>2. /\ Tail(find.roots) \in Seq(Operands) /\ ToSet(Tail(find.roots)) \subseteq ToSet(find.roots)
        /\ (IsInjective(find.roots) => IsInjective(Tail(find.roots)))
    BY <1>2, TailIs
  <2>3. /\ find' \in FindStates(find') /\ find'.call = find.call /\ find'.fs = find.fs /\ find'.roots = Tail(find.roots)
        /\ find'.stack = <<>> /\ find'.at = find.at /\ find'.pc = "root" /\ find'.out = find.out
        /\ find'.deleted = find.deleted /\ find'.gone = find.gone /\ find'.rc = find.rc
    <3>1. <<>> \in Seq(AFrame)
      OBVIOUS
    <3> QED BY <1>2, <2>1, <2>2, <3>1 DEF FindStates
  <2>4. FindTypes'
    BY <1>2, <2>3 DEF FindTypes, Asked
  <2>5. \A p \in FilePath : WaitsNext(p) => Waiting(p)
    <3>1. \A p \in FilePath : WaitsAt(p, Tail(find.roots), <<>>, "root", find.at) => WaitsAt(p, find.roots, find.stack, "entry", find.at)
      BY <1>2, RootsRemain
    <3> QED BY <1>1, <2>3, <3>1 DEF WaitsNext, Waiting
  <2>6. \A p \in FilePath : Waiting(p) => WaitsNext(p)
    <3>1. \A p \in FilePath : WaitsAt(p, find.roots, find.stack, "entry", find.at) => WaitsAt(p, Tail(find.roots), <<>>, "root", find.at)
      BY <1>1, <1>2, <1>3, RootLeft
    <3> QED BY <1>1, <2>3, <3>1 DEF WaitsNext, Waiting
  <2>7. LeftOf' /\ HandledOnce' /\ HandledRight' /\ Missing'
    BY <2>3, <2>5, <2>6, QuietKept DEF Loses
  <2>8. Placed'
    <3>1. PlacedAt(Tail(find.roots), <<>>, "root", find.at)
      BY <1>2, LeaveRoot
    <3> QED BY <2>2, <2>3, <3>1, SameCall DEF FindInv, Placed
  <2>9. Depth' = 0
    BY <2>3 DEF Depth
  <2>10. CameTo' /\ DeletedLeft'
    BY <2>3, <2>9 DEF CameTo, DeletedLeft
  <2> QED BY <2>4, <2>7, <2>8, <2>10 DEF FindInv
<1>4. CASE Depth # 1
  <2> DEFINE s == Front(find.stack)
  <2>1. /\ PlacedAt(find.roots, s, "entry", find.at) /\ s \in Seq(AFrame)
        /\ \A k \in 1..Len(s) : k \in 1..Len(find.stack) /\ s[k] = find.stack[k]
        /\ \A p \in FilePath : WaitsAt(p, find.roots, s, "entry", find.at) <=> WaitsAt(p, find.roots, find.stack, "entry", find.at)
    BY <1>1, <1>2, <1>4, LeavePlaced
  <2>2. find' = [find EXCEPT !.stack = s]
    BY <1>2, <1>4 DEF LeaveDir, FindStates
  <2> HIDE DEF s
  <2>3. /\ find' \in FindStates(find') /\ find'.call = find.call /\ find'.fs = find.fs /\ find'.roots = find.roots
        /\ find'.stack = s /\ find'.at = find.at /\ find'.pc = "entry" /\ find'.out = find.out
        /\ find'.deleted = find.deleted /\ find'.gone = find.gone /\ find'.rc = find.rc
    BY <1>1, <1>2, <2>1, <2>2 DEF FindStates
  <2>4. FindTypes'
    BY <1>2, <2>3 DEF FindTypes, Asked
  <2>5. \A p \in FilePath : WaitsNext(p) <=> Waiting(p)
    BY <1>1, <2>1, <2>3 DEF WaitsNext, Waiting
  <2>6. LeftOf' /\ HandledOnce' /\ HandledRight' /\ Missing'
    BY <2>3, <2>5, QuietKept DEF Loses
  <2>7. Placed'
    BY <2>1, <2>3, SameCall DEF FindInv, Placed
  <2>8. Depth' = Len(s) /\ \A k \in 1..Len(s) : k \in 1..Depth /\ s[k].path = find.stack[k].path
    BY <1>1, <2>1, <2>3 DEF Depth
  <2>9. CameTo'
    <3>1. \A k \in 1..Len(s) : Entered(find.stack[k].path)'
      BY <1>2, <2>3, <2>8, SameCall
    <3> QED BY <2>3, <2>8, <3>1 DEF CameTo
  <2>10. DeletedLeft'
    BY <2>3, <2>8 DEF FindInv, DeletedLeft
  <2> QED BY <2>4, <2>6, <2>7, <2>9, <2>10 DEF FindInv
<1> QED BY <1>3, <1>4

\* What is known of the path that the walk is at.
LEMMA InPath ==
    ASSUME FindInv, find.pc \in {"visit", "read"}
    PROVE  /\ FindTypes /\ find \in FindStates(find) /\ FindCall(Asked) /\ find.stack \in Seq(AFrame) /\ find.roots \in Seq(Operands)
           /\ PlacedAt(find.roots, find.stack, find.pc, find.at) /\ Depth \in Nat /\ find.roots # <<>>
           /\ find.at \in FilePath /\ Len(find.at) = Depth + 1 /\ Upper(find.at, 1) = Head(find.roots)
           /\ \A k \in 1..Depth : find.stack[k].path = Upper(find.at, k) /\ Entered(find.stack[k].path) /\ find.stack[k].path # find.at
           /\ Reached(find.at) /\ find.info = InfoAt(find.at)
<1>1. FindTypes /\ find \in FindStates(find) /\ FindCall(Asked) /\ find.stack \in Seq(AFrame) /\ find.roots \in Seq(Operands)
  BY DEF FindInv, FindTypes, FindStates
<1>2. PlacedAt(find.roots, find.stack, find.pc, find.at)
  BY DEF FindInv, Placed
<1>3. /\ find.roots # <<>> /\ find.at \in FilePath /\ Len(find.at) = Depth + 1 /\ Upper(find.at, 1) = Head(find.roots)
      /\ \A k \in 1..Depth : find.stack[k].path = Upper(find.at, k)
  BY <1>2 DEF PlacedAt, PlaceOf, Depth
<1>4. Depth \in Nat
  BY <1>1 DEF Depth
<1>5. \A k \in 1..Depth : Entered(find.stack[k].path)
  BY DEF FindInv, CameTo
<1>6. ASSUME NEW k \in 1..Depth PROVE find.stack[k].path # find.at
  <2>1. k \in 1..Len(find.at) /\ k # Len(find.at)
    BY <1>3, <1>4
  <2>2. Len(Upper(find.at, k)) = k
    BY <1>3, <2>1, UpperIs
  <2> QED BY <1>3, <2>1, <2>2
<1>7. Reached(find.at) /\ find.info = InfoAt(find.at)
  BY DEF FindInv, CameTo
<1> QED BY <1>1, <1>2, <1>3, <1>4, <1>5, <1>6, <1>7

\* The actions apply to what is wanted, and to all of it.
LEMMA ActsRight ==
    ASSUME FindInv, find.pc = "visit", PlainNames
    PROVE  MatchTests(Asked, find.at, find.info) /\ Depth >= Asked.minDepth <=> IsWanted(find.at)
<1> DEFINE at == find.at
<1>1. /\ FindCall(Asked) /\ Depth \in Nat /\ at \in FilePath /\ Len(at) = Depth + 1 /\ Reached(at) /\ find.info = InfoAt(at)
      /\ \A k \in 1..Depth : find.stack[k].path = Upper(at, k) /\ Entered(find.stack[k].path)
  BY InPath
<1>2. Asked.maxDepth < 0 \/ Depth <= Asked.maxDepth
  BY DEF FindInv, CameTo
<1> HIDE DEF at
<1>3. Len(at) - 1 = Depth
  BY <1>1
<1>4. ASSUME MatchTests(Asked, at, find.info), Depth >= Asked.minDepth PROVE IsWanted(at)
  <2>1. \A k \in 1..Len(at) - 1 : Entered(Upper(at, k))
    BY <1>1, <1>3
  <2> QED BY <1>1, <1>2, <1>3, <1>4, <2>1, EnteredWanted
<1>5. ASSUME IsWanted(at) PROVE MatchTests(Asked, at, find.info) /\ Depth >= Asked.minDepth
  <2>1. Passes(at) /\ DepthFits(at)
    BY <1>5 DEF IsWanted
  <2> QED BY <1>1, <1>3, <2>1, WholeName DEF DepthFits
<1> QED BY <1>4, <1>5 DEF at

LEMMA VisitKeeps ==
    ASSUME FindInv, Visit
    PROVE  FindInv'
<1> DEFINE at == find.at
           matched == MatchTests(Asked, at, find.info)
           acts == matched /\ Depth >= Asked.minDepth
           after == IF acts THEN ApplyActions(find) ELSE find
           enters == Enters(Asked, find.info, matched, Depth)
<1>1. find.pc = "visit"
  BY DEF Visit
<1>2. /\ FindTypes /\ find \in FindStates(find) /\ FindCall(Asked) /\ find.stack \in Seq(AFrame) /\ find.roots \in Seq(Operands)
      /\ PlacedAt(find.roots, find.stack, "visit", at) /\ Depth \in Nat /\ find.roots # <<>>
      /\ at \in FilePath /\ Len(at) = Depth + 1
      /\ \A k \in 1..Depth : Entered(find.stack[k].path) /\ find.stack[k].path # at
      /\ Reached(at) /\ find.info = InfoAt(at)
  BY <1>1, InPath
<1>3. PlainNames => (acts <=> IsWanted(at))
  BY <1>1, ActsRight
<1>4. Asked.delete \in BOOLEAN /\ Asked.print \in BOOLEAN /\ Asked.prune \in BOOLEAN
  BY <1>2, CallIs
<1>5. CASE acts /\ Asked.delete /\ ~Removable(find.fs, at)
  <2> DEFINE w == WithPrint(find)
  <2>1. find' = Abort(w)
    BY <1>5 DEF Visit
  <2>2. /\ w \in FindStates(w) /\ w.call = find.call /\ w.fs = find.fs /\ w.roots = find.roots
        /\ w.at = find.at /\ w.deleted = find.deleted /\ w.gone = find.gone
        /\ w.out = IF Asked.print THEN Append(find.out, find.at) ELSE find.out
    BY <1>2, PrintIs
  <2> HIDE DEF w
  <2>3. \/ w.out = find.out
        \/ w.out = Append(find.out, find.at) /\ find.pc = "visit" /\ (PlainNames => IsWanted(find.at))
    BY <1>1, <1>3, <1>5, <2>2
  <2> QED BY <1>2, <2>1, <2>2, <2>3, Aborted
<1>6. CASE ~(acts /\ Asked.delete /\ ~Removable(find.fs, at))
  <2>1. find' = IF enters THEN [after EXCEPT !.pc = "read"] ELSE GoBack(after)
    BY <1>6 DEF Visit
  <2>2. /\ after \in FindStates(after) /\ after.call = find.call /\ after.roots = find.roots /\ after.stack = find.stack
        /\ after.at = at /\ after.info = find.info /\ after.gone = find.gone /\ after.rc = find.rc
        /\ after.fs = IF acts /\ Asked.delete THEN Without(find.fs, at) ELSE find.fs
        /\ after.deleted = IF acts /\ Asked.delete THEN find.deleted \union {at} ELSE find.deleted
        /\ after.out = IF acts /\ Asked.print THEN Append(find.out, at) ELSE find.out
    <3>1. CASE acts
      <4>1. after = ApplyActions(find)
        BY <3>1
      <4> HIDE DEF after
      <4> QED BY <1>2, <3>1, <4>1, ActionsAre
    <3>2. CASE ~acts
      <4>1. after = find
        BY <3>2
      <4> HIDE DEF after
      <4> QED BY <1>2, <3>2, <4>1
    <3> QED BY <3>1, <3>2
  <2> DEFINE leaves == ~enters /\ Depth = 0
  <2> HIDE DEF after, enters, acts, matched
  <2>3. /\ find' \in FindStates(find') /\ find'.call = find.call /\ find'.stack = find.stack
        /\ find'.at = at /\ find'.gone = find.gone /\ find'.rc = find.rc
        /\ find'.fs = after.fs /\ find'.deleted = after.deleted /\ find'.out = after.out
        /\ enters => find'.pc = "read" /\ find'.roots = find.roots /\ find'.info = find.info
        /\ ~enters /\ Depth # 0 => find'.pc = "entry" /\ find'.roots = find.roots
        /\ leaves => find'.pc = "root" /\ find'.roots = Tail(find.roots)
    <3>1. CASE enters
      <4>1. find' = [after EXCEPT !.pc = "read"]
        BY <2>1, <3>1
      <4> QED BY <2>2, <3>1, <4>1 DEF FindStates
    <3>2. CASE ~enters
      <4>1. find' = GoBack(after)
        BY <2>1, <3>2
      <4> QED BY <1>2, <2>2, <3>2, <4>1, BackIs
    <3> QED BY <3>1, <3>2
  <2>4. FindTypes'
    BY <1>2, <2>3 DEF FindTypes, Asked
  <2>5. find.stack = <<>> <=> Depth = 0
    BY <1>2 DEF Depth
  <2>6. LeftOf'
    <3>1. CASE acts /\ Asked.delete
      <4>1. LeftOf /\ Removable(find.fs, at)
        BY <1>6, <3>1 DEF FindInv
      <4> QED BY <1>2, <2>2, <2>3, <3>1, <4>1, Removes
    <3>2. CASE ~(acts /\ Asked.delete)
      BY <2>2, <2>3, <3>2, LeftSame DEF FindInv
    <3> QED BY <3>1, <3>2
  <2>7. /\ \A p \in FilePath : WaitsNext(p) => Waiting(p)
        /\ \A p \in FilePath : Waiting(p) /\ ~Begins(p, at) => WaitsNext(p)
        /\ enters => \A p \in FilePath : Waiting(p) /\ p # at => WaitsNext(p)
        /\ IsInjective(find.roots) => ~WaitsNext(at)
        /\ PlacedAt(find'.roots, find'.stack, find'.pc, find'.at)
    <3>1. CASE enters
      <4>1. /\ PlacedAt(find.roots, find.stack, "read", at)
            /\ \A p \in FilePath : WaitsAt(p, find.roots, find.stack, "read", at) => WaitsAt(p, find.roots, find.stack, "visit", at)
            /\ \A p \in FilePath : WaitsAt(p, find.roots, find.stack, "visit", at) /\ p # at => WaitsAt(p, find.roots, find.stack, "read", at)
            /\ IsInjective(find.roots) => ~WaitsAt(at, find.roots, find.stack, "read", at)
        BY <1>2, VisitRead
      <4>2. Begins(at, at)
        BY <1>2, BeginsSelf
      <4> QED BY <1>1, <2>3, <3>1, <4>1, <4>2 DEF WaitsNext, Waiting
    <3>2. CASE ~enters /\ Depth # 0
      <4>1. Len(find.stack) # 0
        BY <3>2 DEF Depth
      <4>2. /\ PlacedAt(find.roots, find.stack, "entry", at)
            /\ \A p \in FilePath : WaitsAt(p, find.roots, find.stack, "entry", at) => WaitsAt(p, find.roots, find.stack, "visit", at)
            /\ \A p \in FilePath : WaitsAt(p, find.roots, find.stack, "visit", at) /\ ~Begins(p, at) => WaitsAt(p, find.roots, find.stack, "entry", at)
            /\ IsInjective(find.roots) => ~WaitsAt(at, find.roots, find.stack, "entry", at)
        BY <1>2, <4>1, VisitEntry
      <4> QED BY <1>1, <2>3, <3>2, <4>2 DEF WaitsNext, Waiting
    <3>3. CASE leaves
      <4>1. find.stack = <<>> /\ Len(find.stack) = 0
        BY <2>5, <3>3
      <4>2. PlacedAt(Tail(find.roots), <<>>, "root", at)
        BY <1>2, LeaveRoot
      <4>3. \A p \in FilePath : WaitsAt(p, Tail(find.roots), <<>>, "root", at) => WaitsAt(p, find.roots, find.stack, "visit", at)
        BY <1>2, RootsRemain
      <4>4. /\ \A p \in FilePath : WaitsAt(p, find.roots, find.stack, "visit", at) /\ ~Begins(p, at) => WaitsAt(p, Tail(find.roots), <<>>, "root", at)
            /\ IsInjective(find.roots) => ~WaitsAt(at, Tail(find.roots), <<>>, "root", at)
        BY <1>2, <4>1, RootLeft
      <4> QED BY <1>1, <2>3, <3>3, <4>1, <4>2, <4>3, <4>4 DEF WaitsNext, Waiting
    <3> QED BY <3>1, <3>2, <3>3
  <2>8. Grows
    <3>1. Waiting(at)
      BY <1>1, <1>2, BeginsSelf DEF Waiting, WaitsAt, OnPath
    <3>2. CASE acts
      BY <1>2, <1>3, <2>2, <2>3, <2>7, <3>1, <3>2 DEF Grows
    <3>3. CASE ~acts
      BY <2>2, <2>3, <3>3 DEF Grows
    <3> QED BY <3>2, <3>3
  <2>9. HandledOnce' /\ HandledRight'
    BY <1>2, <2>3, <2>7, <2>8, OnceKept, RightKept DEF FindInv
  <2>10. Placed'
    <3>1. /\ ToSet(Tail(find.roots)) \subseteq ToSet(find.roots)
          /\ (IsInjective(find.roots) => IsInjective(Tail(find.roots)))
      BY <1>2, TailIs
    <3>2. find'.roots \in {find.roots, Tail(find.roots)}
      BY <2>3
    <3>3. (RootsOnce' <=> RootsOnce) /\ Asked' = Asked
      BY <2>3, SameCall
    <3> QED BY <2>7, <3>1, <3>2, <3>3 DEF FindInv, Placed
  <2>11. CameTo'
    <3>1. Depth' = Depth
      BY <2>3 DEF Depth
    <3>2. \A k \in 1..Depth : Entered(find.stack[k].path)'
      BY <1>2, <2>3, SameCall
    <3>3. ASSUME enters PROVE Reached(find.at)' /\ find'.info = InfoAt(find.at)' /\ Entered(find.at)'
      <4>1. Entered(at)
        <5>1. Len(at) - 1 = Depth
          BY <1>2
        <5> QED BY <1>2, <3>3, <5>1 DEF Entered, enters, matched
      <4> QED BY <1>2, <2>3, <3>3, <4>1, SameCall
    <3>4. find'.pc # "visit" /\ (find'.pc = "read" => enters)
      BY <2>3
    <3> QED BY <3>1, <3>2, <3>3, <3>4 DEF CameTo
  <2>12. DeletedLeft'
    <3>1. \A p \in find.deleted \union {at} : \A k \in 1..Depth : find.stack[k].path # p
      BY <1>2 DEF FindInv, DeletedLeft
    <3>2. find'.deleted \subseteq find.deleted \union {at}
      BY <2>2, <2>3
    <3> QED BY <2>3, <3>1, <3>2 DEF DeletedLeft, Depth
  <2>13. ASSUME PlainNames, Loses PROVE FALSE
    <3>1. PICK p \in FilePath : IsWanted(p) /\ Waiting(p) /\ ~WaitsNext(p) /\ ~Handled(p)'
      BY <2>13 DEF Loses
    <3>2. Begins(p, at)
      BY <2>7, <3>1
    <3>3. CASE p = at
      <4>1. acts
        BY <1>3, <2>13, <3>1, <3>3
      <4>2. Asked.delete => p \in find'.deleted
        BY <2>2, <2>3, <3>3, <4>1
      <4>3. Asked.print => p \in ToSet(find'.out)
        <5> SUFFICES ASSUME Asked.print PROVE at \in ToSet(find'.out)
          BY <3>3
        <5>1. find.out \in Seq(FilePath) /\ find'.out = Append(find.out, at)
          BY <1>2, <2>2, <2>3, <4>1 DEF FindStates
        <5>2. Append(find.out, at)[Len(find.out) + 1] = at /\ Len(find.out) + 1 \in DOMAIN Append(find.out, at)
          BY <1>2, <5>1
        <5> QED BY <5>1, <5>2 DEF ToSet
      <4>4. Asked' = Asked
        BY <2>3, SameCall
      <4> QED BY <3>1, <4>2, <4>3, <4>4 DEF Handled
    <3>4. CASE p # at
      <4>1. Len(at) < Len(p) /\ Len(at) \in 1..Len(p) /\ Upper(p, Len(at)) = at
        <5>1. Len(at) < Len(p)
          BY <1>2, <3>2, <3>4, BeginsSelf
        <5>2. Len(at) \in Nat /\ Len(at) >= 1 /\ Len(p) \in Nat
          BY <1>2, PathLen
        <5> QED BY <3>2, <5>1, <5>2 DEF Begins
      <4>2. Entered(at)
        BY <1>2, <2>13, <3>1, <4>1, WantedEntered
      <4>3. enters
        <5>1. Len(at) - 1 = Depth
          BY <1>2
        <5> QED BY <1>2, <4>2, <5>1 DEF Entered, enters, matched
      <4> QED BY <2>7, <3>1, <3>4, <4>3
    <3> QED BY <3>3, <3>4
  <2>14. Missing'
    BY <1>2, <2>3, <2>8, <2>13, MissingKept DEF FindInv
  <2> QED BY <2>4, <2>6, <2>9, <2>10, <2>11, <2>12, <2>14 DEF FindInv
<1> QED BY <1>5, <1>6

\* What is read of a directory, has every entry that is wanted and was not removed.
LEMMA ReadLoses ==
    ASSUME FindInv, find.pc = "read", PlainNames, RootsOnce, PlainDelete, find.at \notin find.deleted,
           NEW p \in FilePath, IsWanted(p), ~Gone(p), Begins(p, find.at), Len(find.at) < Len(p)
    PROVE  p[Len(find.at) + 1] \in ToSet(Entries(find.fs, find.at))
<1> DEFINE at == find.at
           n == Len(at)
           x == p[n + 1]
           u == Append(at, x)
           F == Asked.fs
           fs == find.fs
           d == Target(F, Physical(F, at))
<1>1. /\ FindTypes /\ FindCall(Asked) /\ at \in FilePath /\ n = Depth + 1 /\ Depth \in Nat
      /\ \A k \in 1..Depth : find.stack[k].path = Upper(at, k)
      /\ PlacedAt(find.roots, find.stack, "read", at)
  BY InPath
<1>2. n \in Nat /\ n >= 1 /\ Len(p) \in Nat /\ n \in 1..Len(p) /\ n + 1 \in 1..Len(p) /\ Upper(p, n) = at /\ x \in FileName
  <2>1. n \in Nat /\ n >= 1 /\ Len(p) \in Nat /\ Upper(p, n) = at
    BY <1>1, PathLen DEF Begins
  <2>2. n \in 1..Len(p) /\ n + 1 \in 1..Len(p)
    BY <2>1
  <2> QED BY <2>1, <2>2, PathLen
<1>3. Upper(p, n + 1) = u
  BY <1>2, UpperNext
<1>4. u \in FilePath /\ Len(u) = n + 1 /\ Upper(u, n) = at
  BY <1>1, <1>2, AppendIs, AppendParts
<1>5. LeftOf /\ HandledRight /\ PartOf(fs, F) /\ IsFiniteSet(DOMAIN fs) /\ Reached(p)
  BY <1>1, PartLeft DEF FindInv, IsWanted
<1> HIDE DEF n, x, u, at, d, F, fs
<1>6. u \notin find.deleted
  <2>1. n <= n + 1 /\ n < n + 1
    BY <1>2
  <2>2. OnPath(u, "read", at)
    BY <1>4, <2>1 DEF OnPath, Begins, n
  <2>3. Waiting(u)
    BY <2>2 DEF Waiting, WaitsAt, at
  <2> QED BY <2>3 DEF FindInv, HandledOnce
<1>7. ASSUME NEW m \in 1..n + 1 PROVE Upper(p, m) \notin find.deleted
  <2>1. CASE m = n + 1
    BY <1>3, <1>6, <2>1
  <2>2. CASE m = n
    BY <1>2, <2>2 DEF at
  <2>3. CASE m \in 1..Depth
    <3>1. m \in 1..n
      BY <1>1, <2>3
    <3>2. Upper(p, m) = Upper(at, m)
      BY <1>2, <3>1, UpperUpper
    <3>3. Upper(p, m) = find.stack[m].path
      BY <1>1, <2>3, <3>2
    <3> QED BY <2>3, <3>3 DEF FindInv, DeletedLeft
  <2>4. m \in 1..Depth \/ m = n \/ m = n + 1
    BY <1>1, <1>2
  <2> QED BY <2>1, <2>2, <2>3, <2>4
<1>8. \A m \in 1..n : Upper(p, m) \notin find.deleted
  BY <1>2, <1>7
<1>9. Physical(fs, at) = Physical(F, at) /\ Target(fs, Physical(F, at)) = d
  <2>1. /\ Physical(find.fs, Upper(p, n)) = Physical(Asked.fs, Upper(p, n))
        /\ Target(find.fs, Physical(Asked.fs, Upper(p, n))) = Target(Asked.fs, Physical(Asked.fs, Upper(p, n)))
    BY <1>1, <1>2, <1>5, <1>8, StillThere
  <2> QED BY <1>2, <2>1 DEF F, fs, d
<1>10. StaysIn(fs, F, Physical(F, u))
  <2>1. StaysIn(find.fs, Asked.fs, Physical(Asked.fs, Upper(p, n + 1)))
    BY <1>1, <1>2, <1>5, <1>7, StillThere
  <2> QED BY <1>3, <2>1 DEF F, fs
<1>11. Physical(F, u) \in DOMAIN F
  <2>1. IsThere(u)
    BY <1>1, <1>2, <1>3, <1>5, ReachedUp DEF Reached
  <2> QED BY <1>1, <1>4, <2>1, ThereIs DEF F
<1>12. Files(F) /\ Files(fs)
  BY <1>5 DEF PartOf
<1>13. Physical(F, u) = Append(d, x) /\ d \in FilePath
  BY <1>1, <1>2, <1>12, PhysicalAppend, PhysicalType, TargetType DEF u, d
<1>14. Append(d, x) \in DOMAIN fs
  BY <1>10, <1>11, <1>13 DEF StaysIn
<1>15. Front(Append(d, x)) = d /\ Last(Append(d, x)) = x /\ Len(Append(d, x)) = Len(d) + 1
  BY <1>2, <1>13, AppendParts, AppendIs
<1>16. x \in InDir(fs, d)
  BY <1>14, <1>15 DEF InDir
<1>17. ToSet(Entries(fs, at)) = InDir(fs, d)
  BY <1>1, <1>5, <1>9, <1>12, EntriesAre
<1> QED BY <1>16, <1>17 DEF x, n, at, fs

LEMMA ReadDirKeeps ==
    ASSUME FindInv, ReadDir
    PROVE  FindInv'
<1> DEFINE at == find.at
           e == Entries(find.fs, at)
           s == Append(find.stack, Frame(at, e))
<1>1. find.pc = "read"
  BY DEF ReadDir
<1>2. /\ FindTypes /\ find \in FindStates(find) /\ FindCall(Asked) /\ find.stack \in Seq(AFrame) /\ find.roots \in Seq(Operands)
      /\ PlacedAt(find.roots, find.stack, "read", at) /\ Depth \in Nat /\ find.roots # <<>>
      /\ at \in FilePath /\ Len(at) = Depth + 1
      /\ \A k \in 1..Depth : Entered(find.stack[k].path) /\ find.stack[k].path # at
      /\ Reached(at) /\ find.info = InfoAt(at)
  BY <1>1, InPath
<1>3. CASE ~Readable(find.fs, at)
  <2>1. find' = Abort(find)
    BY <1>3 DEF ReadDir
  <2> QED BY <1>2, <2>1, Aborted
<1>4. CASE Readable(find.fs, at)
  <2>1. find' = [find EXCEPT !.stack = Append(@, Frame(find.at, Entries(find.fs, find.at))), !.pc = "entry"]
    BY <1>4 DEF ReadDir
  <2>2. find' = [find EXCEPT !.stack = s, !.pc = "entry"]
    BY <1>2, <2>1 DEF FindStates
  <2>3. PartOf(find.fs, Asked.fs) /\ Files(find.fs) /\ IsFiniteSet(DOMAIN find.fs)
    BY <1>2, PartLeft DEF FindInv, PartOf
  <2>4. e \in Seq(FileName) /\ IsInjective(e)
    BY <1>2, <2>3, EntriesAre
  <2>5. at \notin find.deleted
    <3>1. Lstat(find.fs, Target(find.fs, Physical(find.fs, at))).kind = "dir"
      BY <1>4 DEF Readable
    <3>2. Physical(find.fs, at) \in DOMAIN find.fs
      BY <2>3, <3>1, LstatType
    <3>3. Physical(find.fs, at) = Physical(Asked.fs, at)
      BY <1>2, <2>3, <3>2, SamePhysical
    <3> QED BY <3>2, <3>3 DEF FindInv, LeftOf
  <2>6. /\ s \in Seq(AFrame) /\ PlacedAt(find.roots, s, "entry", at) /\ Len(s) = Len(find.stack) + 1
        /\ \A k \in 1..Len(s) : (k \in 1..Len(find.stack) /\ s[k] = find.stack[k]) \/ s[k].path = at
        /\ \A p \in FilePath : WaitsAt(p, find.roots, s, "entry", at) => WaitsAt(p, find.roots, find.stack, "read", at)
        /\ \A p \in FilePath :
              WaitsAt(p, find.roots, find.stack, "read", at) /\ (Begins(p, at) /\ Len(at) < Len(p) => p[Len(at) + 1] \in ToSet(e))
                => WaitsAt(p, find.roots, s, "entry", at)
    <3>1. s = Append(find.stack, Frame(at, e))
      OBVIOUS
    <3> HIDE DEF at, e, s
    <3>2. Pushed(find.roots, find.stack, at, e, s)
      BY <1>2, <2>4, <3>1, ReadPlaced
    <3> QED BY <3>2 DEF Pushed
  <2> HIDE DEF s, e
  <2>7. /\ find' \in FindStates(find') /\ find'.call = find.call /\ find'.fs = find.fs /\ find'.roots = find.roots
        /\ find'.stack = s /\ find'.at = at /\ find'.pc = "entry" /\ find'.out = find.out
        /\ find'.deleted = find.deleted /\ find'.gone = find.gone /\ find'.rc = find.rc
    BY <1>2, <2>2, <2>6 DEF FindStates
  <2>8. FindTypes'
    BY <1>2, <2>7 DEF FindTypes, Asked
  <2>9. \A p \in FilePath : WaitsNext(p) => Waiting(p)
    BY <1>1, <2>6, <2>7 DEF WaitsNext, Waiting
  <2>10. ASSUME PlainNames, RootsOnce, PlainDelete, Loses PROVE FALSE
    <3>1. PICK p \in FilePath : IsWanted(p) /\ ~Gone(p) /\ Waiting(p) /\ ~WaitsNext(p)
      BY <2>10 DEF Loses
    <3>2. WaitsAt(p, find.roots, find.stack, "read", at)
      BY <1>1, <3>1 DEF Waiting
    <3>3. ~WaitsAt(p, find.roots, s, "entry", at)
      BY <2>7, <3>1 DEF WaitsNext
    <3>4. Begins(p, at) /\ Len(at) < Len(p) /\ p[Len(at) + 1] \notin ToSet(e)
      BY <2>6, <3>1, <3>2, <3>3
    <3> QED BY <1>1, <2>5, <2>10, <3>1, <3>4, ReadLoses DEF e
  <2>11. LeftOf' /\ HandledOnce' /\ HandledRight' /\ Missing'
    BY <2>7, <2>9, <2>10, QuietKept
  <2>12. Placed'
    BY <2>6, <2>7, SameCall DEF FindInv, Placed
  <2>13. /\ Depth' = Len(s)
         /\ \A k \in 1..Len(s) : (k \in 1..Depth /\ s[k].path = find.stack[k].path) \/ s[k].path = at
    BY <2>6, <2>7 DEF Depth
  <2>14. Entered(at)
    BY <1>1 DEF FindInv, CameTo
  <2>15. CameTo'
    <3>1. \A k \in 1..Len(s) : Entered(s[k].path)
      BY <1>2, <2>13, <2>14
    <3>2. \A k \in 1..Len(s) : Entered(find.stack[k].path)'
      BY <2>7, <3>1, SameCall
    <3> QED BY <2>7, <2>13, <3>2 DEF CameTo
  <2>16. DeletedLeft'
    <3>1. \A p \in find.deleted : p # at /\ \A k \in 1..Depth : find.stack[k].path # p
      BY <2>5 DEF FindInv, DeletedLeft
    <3>2. \A p \in find.deleted : \A k \in 1..Len(s) : s[k].path # p
      BY <2>13, <3>1
    <3> QED BY <2>7, <2>13, <3>2 DEF DeletedLeft
  <2> QED BY <2>8, <2>11, <2>12, <2>15, <2>16 DEF FindInv
<1> QED BY <1>3, <1>4

\* Nothing of the walk itself changes.
LEMMA WalkKept ==
    ASSUME FindInv, find'.call = find.call, find'.roots = find.roots, find'.stack = find.stack, find'.at = find.at,
           find'.info = find.info, find'.pc = find.pc, find'.out = find.out, find'.deleted = find.deleted, find'.rc = find.rc,
           find.gone \subseteq find'.gone, FindTypes', LeftOf'
    PROVE  FindInv'
<1>1. Grows
  BY DEF Grows
<1>2. \A p \in FilePath : WaitsNext(p) <=> Waiting(p)
  BY DEF WaitsNext, Waiting
<1>3. HandledOnce' /\ HandledRight'
  BY <1>1, <1>2, OnceKept, RightKept DEF FindInv
<1>4. Missing'
  BY <1>1, <1>2, MissingKept DEF FindInv, Loses
<1>5. Placed' /\ DeletedLeft'
  BY SameCall DEF FindInv, Placed, DeletedLeft, Depth
<1>6. CameTo'
  <2>1. Depth' = Depth /\ Asked' = Asked
    BY SameCall DEF Depth
  <2>2. find.pc \in {"visit", "read"} => Reached(find.at)' /\ find'.info = InfoAt(find.at)'
    BY SameCall DEF FindInv, CameTo
  <2>3. find.pc = "read" => Entered(find.at)'
    BY SameCall DEF FindInv, CameTo
  <2>4. \A k \in 1..Depth : Entered(find.stack[k].path)'
    BY SameCall DEF FindInv, CameTo
  <2>5. find.pc = "visit" => Asked.maxDepth < 0 \/ Depth <= Asked.maxDepth
    BY DEF FindInv, CameTo
  <2> QED BY <2>1, <2>2, <2>3, <2>4, <2>5 DEF CameTo
<1> QED BY <1>3, <1>4, <1>5, <1>6 DEF FindInv

LEMMA VanishKeeps ==
    ASSUME FindInv, Vanish
    PROVE  FindInv'
<1>1. PICK p \in DOMAIN find.fs :
         Removable(find.fs, p) /\ find' = [find EXCEPT !.fs = Without(@, p), !.gone = @ \union {p}]
  BY DEF Vanish
<1>2. FindTypes /\ LeftOf /\ find \in FindStates(find) /\ FindCall(Asked)
  BY DEF FindInv, FindTypes
<1>3. p \in FilePath /\ p \in DOMAIN Asked.fs
  BY <1>2, PartLeft DEF LeftOf
<1>4. find.gone \union {p} \in SUBSET DOMAIN find.call.fs
  BY <1>2, <1>3 DEF FindStates, Asked
<1>5. /\ find' \in FindStates(find') /\ find'.call = find.call /\ find'.roots = find.roots
      /\ find'.stack = find.stack /\ find'.at = find.at /\ find'.info = find.info /\ find'.pc = find.pc /\ find'.out = find.out
      /\ find'.deleted = find.deleted /\ find'.rc = find.rc
      /\ find'.fs = Without(find.fs, p) /\ find'.gone = find.gone \union {p}
  BY <1>1, <1>2, <1>4 DEF FindStates
<1>6. FindTypes'
  BY <1>2, <1>5 DEF FindTypes, Asked
<1>7. LeftOf'
  BY <1>1, <1>2, <1>3, <1>5, Removes
<1> QED BY <1>5, <1>6, <1>7, WalkKept

LEMMA SameFind ==
    ASSUME FindInv, UNCHANGED find
    PROVE  FindInv'
<1>1. FindTypes'
  BY DEF FindInv, FindTypes, Asked
<1>2. LeftOf'
  BY LeftSame DEF FindInv
<1> QED BY <1>1, <1>2, WalkKept

LEMMA FindStarts ==
    ASSUME NEW calls, \A c \in calls : FindCall(c), FindInit(calls)
    PROVE  FindInv
<1>1. PICK c \in calls :
         find = [call |-> c, fs |-> c.fs, roots |-> c.roots, stack |-> <<>>, at |-> <<>>, info |-> NoFile,
                 pc |-> "root", out |-> <<>>, deleted |-> {}, gone |-> {}, rc |-> 0]
  BY DEF FindInit
<1>2. /\ find.call = c /\ find.fs = c.fs /\ find.roots = c.roots /\ find.stack = <<>> /\ find.at = <<>> /\ find.info = NoFile
      /\ find.pc = "root" /\ find.out = <<>> /\ find.deleted = {} /\ find.gone = {} /\ find.rc = 0 /\ Asked = c
  BY <1>1 DEF Asked
<1>3. FindCall(Asked)
  BY <1>2
<1>4. c.roots \in Seq(Operands)
  BY <1>2, <1>3, CallIs
<1>5. FindTypes
  <2>1. <<>> \in Seq(AFrame) /\ <<>> \in Seq(FileName) /\ <<>> \in Seq(FilePath)
    OBVIOUS
  <2> QED BY <1>1, <1>2, <1>3, <1>4, <2>1 DEF FindTypes, FindStates
<1>6. LeftOf
  <2>1. find.fs = Asked.fs /\ Asked.fs = [q \in DOMAIN Asked.fs |-> Asked.fs[q]] /\ InDirs(Asked.fs)
    BY <1>2, <1>3, CallIs DEF Files
  <2> QED BY <1>2, <2>1 DEF LeftOf
<1>7. Depth = 0
  BY <1>2 DEF Depth
<1>8. Placed
  <2>1. PlacedAt(find.roots, <<>>, "root", find.at)
    BY DEF PlacedAt
  <2>2. RootsOnce => IsInjective(find.roots)
    BY <1>2 DEF RootsOnce, IsInjective
  <2> QED BY <1>2, <2>1, <2>2 DEF Placed
<1>9. CameTo /\ DeletedLeft
  BY <1>2, <1>7 DEF CameTo, DeletedLeft
<1>10. HandledOnce /\ HandledRight
  <2>1. DOMAIN find.out = {}
    BY <1>2
  <2> QED BY <1>2, <2>1 DEF HandledOnce, HandledRight, IsInjective
<1>11. Missing
  <2> SUFFICES ASSUME NEW p \in FilePath, IsWanted(p) PROVE Waiting(p)
    BY DEF Missing
  <2>1. OnRoot(p, find.roots, "root")
    BY <1>2 DEF IsWanted, Reached, OnRoot
  <2> QED BY <1>2, <2>1 DEF Waiting, WaitsAt
<1> QED BY <1>5, <1>6, <1>8, <1>9, <1>10, <1>11 DEF FindInv

LEMMA FindStep ==
    ASSUME FindInv, [FindNext]_find
    PROVE  FindInv'
<1>1. CASE StartRoot
  BY <1>1, StartRootKeeps
<1>2. CASE NextEntry
  BY <1>2, NextEntryKeeps
<1>3. CASE LeaveDir
  BY <1>3, LeaveDirKeeps
<1>4. CASE Visit
  BY <1>4, VisitKeeps
<1>5. CASE ReadDir
  BY <1>5, ReadDirKeeps
<1>6. CASE Vanish
  BY <1>6, VanishKeeps
<1>7. CASE UNCHANGED find
  BY <1>7, SameFind
<1> QED BY <1>1, <1>2, <1>3, <1>4, <1>5, <1>6, <1>7 DEF FindNext

\* When no operand is left, nothing waits.
LEMMA NoneWaits ==
    ASSUME FindInv, WalkOver, NEW p
    PROVE  ~Waiting(p)
<1>1. find.roots = <<>> /\ find.pc = "root" /\ find.stack = <<>>
  BY DEF WalkOver, FindInv, Placed, PlacedAt
<1>2. DOMAIN find.roots = {} /\ 1..Len(find.stack) = {}
  BY <1>1
<1> QED BY <1>1, <1>2 DEF Waiting, WaitsAt, OnRoot, OnStack, OnPath

LEMMA FindInvRight ==
    ASSUME FindInv
    PROVE  FindRight
<1>1. FindCall(Asked) /\ \A p \in Wanted : p \in FilePath /\ IsWanted(p)
  BY WantedPath DEF FindInv, FindTypes
<1>2. ASSUME PlainNames, RootsOnce, PlainDelete, WalkOver, find.rc = 0, NEW p \in Wanted, ~Gone(p) PROVE Handled(p)
  BY <1>1, <1>2, NoneWaits DEF FindInv, Missing
<1>3. WalkWhole
  <2> SUFFICES ASSUME WalkOver, find.rc = 0, PlainNames, PlainDelete, Asked.print, RootsOnce, NEW p \in Wanted, ~Gone(p)
               PROVE  Times(p) = 1
    BY DEF WalkWhole
  <2>1. p \in ToSet(find.out)
    BY <1>2 DEF Handled
  <2>2. PICK i \in DOMAIN find.out : find.out[i] = p
    BY <2>1 DEF ToSet
  <2>3. IsInjective(find.out)
    BY DEF FindInv, HandledOnce
  <2>4. {j \in DOMAIN find.out : find.out[j] = p} = {i}
    BY <2>2, <2>3 DEF IsInjective
  <2> QED BY <2>4, FS_Singleton DEF Times
<1>4. OnlyWanted
  BY DEF OnlyWanted, FindInv, HandledRight, HandledOnce
<1>5. DeletesWanted
  BY <1>2 DEF DeletesWanted, FindInv, HandledRight, Handled
<1> QED BY <1>3, <1>4, <1>5 DEF FindRight

\* find: FindRight holds of every walk, of every tree and every call of it.
THEOREM FindHolds ==
    ASSUME NEW calls, \A c \in calls : FindCall(c)
    PROVE  FindInit(calls) /\ [][FindNext]_find => []FindRight
<1>1. FindInit(calls) => FindInv
  BY FindStarts
<1>2. FindInv /\ [FindNext]_find => FindInv'
  BY FindStep
<1>3. FindInv => FindRight
  BY FindInvRight
<1> QED BY <1>1, <1>2, <1>3, PTL

-----------------------------------------------------------------------------
(* Calls.                                                                   *)

KnownSuffixes == {".gz", ".Z", ".tgz"}
\* A name is not itself a suffix: gunzip of a file ".gz" is left out.
Paths == {p \in Seq(STRING) : Len(p) > 0 /\ p[1] \notin KnownSuffixes}
Contents == [kind : {"plain", "gz", "cut", "partial", "dir"}, payload : STRING \union {Partial.payload}]
ProcCalls == [tool : {"gzip", "gunzip", "gzip -d"}, files : Seq(Paths),
              keep : BOOLEAN, force : BOOLEAN, stdout : BOOLEAN]
\* Any tree, and any number of processes on it.
IsCall(c) == /\ IsFiniteSet(DOMAIN c.tree) /\ c.tree \in [DOMAIN c.tree -> Contents]
             /\ c.procs \in Seq(ProcCalls)

-----------------------------------------------------------------------------
(* Types.                                                                   *)

States == {"next", "look", "open", "header", "create", "copy", "remove", "killed"}
Procs == [call : ProcCalls, i : Nat, pc : States, in : Nat, out : Nat,
          rc : {0, 1}, done : Seq(BOOLEAN)]

\* What the place of a process says of its call and of what it has open, when
\* there are n inodes.
ProcOK(p, n) ==
    /\ p.in <= n /\ p.out <= n /\ p.i > 0 /\ p.i <= Len(p.call.files) + 1
    /\ p.pc # "next" => p.i <= Len(p.call.files)
    /\ p.pc \notin {"next", "killed"} => p.call.tool # "gzip -d"
    /\ p.pc \in {"look", "open"} => ~Gzipping(p.call)
    /\ p.pc \in {"look", "create", "remove"} => ~p.call.stdout
    /\ p.pc = "remove" => ~p.call.keep
    /\ p.pc \in {"header", "create", "copy", "remove"} => p.in > 0
    /\ p.pc \in {"next", "look", "open", "header", "create"} => p.out = 0
    /\ p.pc \in {"copy", "remove"} => (p.out = 0 <=> p.call.stdout)

Fields == {"procs", "fs", "faults", "tree", "data"}
Disk(fs, data) ==
    /\ data \in Seq(Contents) /\ fs \in [DOMAIN fs -> 1..Len(data)]
    /\ \A p, q \in DOMAIN fs : p # q => fs[p] # fs[q]
Types ==
    /\ gz = [x \in Fields |-> gz[x]]
    /\ gz.procs \in Seq(Procs) /\ gz.tree \in [DOMAIN gz.tree -> Contents]
    /\ Disk(gz.fs, gz.data)
    /\ \A k \in DOMAIN gz.procs : ProcOK(P(k), Len(gz.data))

-----------------------------------------------------------------------------
(* Files that were not given.                                               *)

Unforced(c) == c.tool = "gunzip" /\ ~c.force
\* A call that never writes over anything.
Careful(c) == c.stdout \/ c.tool = "gzip -d" \/ Unforced(c)
OutOf(p) == OutPath(p.call, p.call.files[p.i])

\* A process that is about to create its output has seen that p is not that, and
\* does not have p open.
Spares(p, path, inode) ==
    /\ p.pc \in {"open", "header", "create"} /\ ~p.call.stdout => OutOf(p) # path
    /\ p.out # inode
NotGiven(path) == \A k \in DOMAIN gz.procs : path \notin ToSet(P(k).call.files)
-----------------------------------------------------------------------------
(* What a step of process k does, which becomes q.                           *)

Changes(k, q) ==
    /\ gz'.procs = [gz.procs EXCEPT ![k] = q] /\ gz'.tree = gz.tree
    /\ gz' = [x \in Fields |-> gz'[x]]
Still == gz'.fs = gz.fs /\ gz'.data = gz.data

\* It goes on with its file.
Goes(k, q) ==
    /\ Still /\ q.i = P(k).i /\ q.rc = P(k).rc
    /\ q.pc = "killed" \/ P(k).pc \notin {"copy", "remove", "killed"}
    /\ \/ q.pc = "killed" /\ q.out = P(k).out /\ gz'.faults = gz.faults + 1
       \/ q.pc = "look"
       \/ q.pc = "open" /\ (P(k).call.stdout \/ LookAllows(P(k).call, OutOf(P(k))))
       \/ /\ q.pc = "header" /\ Exists(Path(k)) /\ q.in = gz.fs[Path(k)]
          /\ P(k).pc = "open" \/ Gzipping(P(k).call)
       \/ /\ P(k).pc = "header" /\ q.in = P(k).in
          /\ Gzipping(P(k).call) \/ HeaderRead(gz.data[P(k).in])
          /\ q.pc = "create" \/ (q.pc = "copy" /\ P(k).call.stdout)
\* It has failed with this file, or with all.
Misses(k, q) ==
    /\ Still /\ q.pc = "next" /\ q.rc = 1 /\ q.i > P(k).i
    /\ P(k).pc = "copy" => ~Copies(P(k).call, gz.data[P(k).in]) \/ gz'.faults = gz.faults + 1
\* It has shown the file.
Shows(k, q) ==
    /\ Still /\ P(k).pc = "copy" /\ P(k).call.stdout
    /\ q.pc = "next" /\ q.rc = P(k).rc /\ q.i = P(k).i + 1
Creates(k, q) ==
    LET o == OutOf(P(k)) IN
    /\ P(k).pc = "create" /\ q.pc = "copy" /\ q.i = P(k).i /\ q.rc = P(k).rc /\ q.in = P(k).in
    /\ q.out = IF Exists(o) THEN gz.fs[o] ELSE Len(gz.data) + 1
    /\ gz'.fs = [r \in DOMAIN gz.fs \union {o} |-> IF r = o THEN q.out ELSE gz.fs[r]]
    /\ Len(gz'.data) >= Len(gz.data) /\ gz'.data[q.out] = Partial
    /\ \A m \in 1..Len(gz.data) : m # q.out => gz'.data[m] = gz.data[m]
Fills(k, q) ==
    /\ P(k).pc = "copy" /\ ~P(k).call.stdout /\ Copies(P(k).call, gz.data[P(k).in])
    /\ gz'.fs = gz.fs
    /\ gz'.data = [gz.data EXCEPT ![P(k).out] = Convert(P(k).call, gz.data[P(k).in])]
    /\ q.rc = P(k).rc
    /\ \/ P(k).call.keep /\ q.pc = "next" /\ q.i = P(k).i + 1
       \/ ~P(k).call.keep /\ q.pc = "remove" /\ q.i = P(k).i /\ q.in = P(k).in /\ q.out = P(k).out
Deletes(k, q) ==
    /\ P(k).pc = "remove" /\ q.pc = "next" /\ q.i = P(k).i + 1
    /\ gz'.fs = [r \in DOMAIN gz.fs \ {Path(k)} |-> gz.fs[r]] /\ gz'.data = gz.data
    /\ Exists(Path(k)) => q.rc = P(k).rc
Moves(k, q) ==
    Goes(k, q) \/ Misses(k, q) \/ Shows(k, q) \/ Creates(k, q) \/ Fills(k, q) \/ Deletes(k, q)

-----------------------------------------------------------------------------
(* One process.                                                             *)

ThePath == Path(1)
TheOut == OutOf(P(1))
Steady ==
    LET p == P(1) IN
    /\ p.pc \in {"header", "create", "copy", "remove"} => Exists(ThePath) /\ gz.fs[ThePath] = p.in
    /\ p.pc \in {"copy", "remove"} /\ ~p.call.stdout => Exists(TheOut) /\ gz.fs[TheOut] = p.out
    /\ p.pc = "copy" /\ ~p.call.stdout => gz.data[p.out] = Partial
    /\ p.pc = "remove" => /\ Copies(p.call, gz.data[p.in])
                          /\ gz.data[p.out] = Convert(p.call, gz.data[p.in])
    /\ p.pc \in {"open", "header", "create"} /\ Unforced(p.call) /\ ~p.call.stdout => ~Exists(TheOut)

\* Path p has payload x, and nothing will write to p: an input whose output is p
\* is gone, and so are those that could bring it back.
Final(p, S) ==
    LET files == ToSet(P(1).call.files) IN
    /\ S \in SUBSET files /\ S \intersect DOMAIN gz.fs = {}
    /\ \A f \in files : OutPath(P(1).call, f) \in S \union {p} => f \in S
Safe(x) ==
    \E p \in DOMAIN gz.fs :
        /\ Whole(At(p)) /\ At(p).payload = x
        /\ Careful(P(1).call) \/ \E S \in SUBSET ToSet(P(1).call.files) : Final(p, S)
Inputs == {f \in ToSet(P(1).call.files) : f \notin Outputs(P(1).call)}
Trail == ~Clash(P(1).call) =>
    \A q \in Inputs \intersect DOMAIN gz.tree : Whole(gz.tree[q]) => Safe(gz.tree[q].payload)

\* An input that is no output is as it was, if it is there.
Untouched == \A q \in Inputs : Exists(q) => q \in DOMAIN gz.tree /\ At(q) = gz.tree[q]
\* The j-th file was converted.
Converted(j) ==
    LET c == P(1).call
        q == c.files[j]
        out == OutPath(c, q)
    IN q \in Inputs =>
         /\ q \in DOMAIN gz.tree
         /\ ~c.stdout /\ out \notin ToSet(c.files) =>
              /\ Exists(out)
              /\ At(out) = Convert(c, gz.tree[q]) \/ (P(1).pc = "copy" /\ ThePath = q)
         /\ Exists(q) <=> (c.keep \/ c.stdout)
Told == ~Clash(P(1).call) /\ P(1).pc # "killed" /\ P(1).rc = 0 => \A j \in 1..P(1).i - 1 : Converted(j)
OneInv == Len(gz.procs) = 1 /\ Steady /\ Trail /\ Untouched /\ Told

-----------------------------------------------------------------------------
(* Steps.                                                                   *)

LEMMA ProcFacts ==
    ASSUME Types, NEW k \in DOMAIN gz.procs
    PROVE  /\ P(k) \in Procs /\ ProcOK(P(k), Len(gz.data)) /\ P(k).call \in ProcCalls
           /\ Len(gz.data) \in Nat /\ P(k).call.files \in Seq(Paths)
           /\ Len(P(k).call.files) \in Nat
<1>1. gz.procs \in Seq(Procs) /\ k \in DOMAIN gz.procs /\ gz.data \in Seq(Contents)
  BY DEF Types, Disk
<1>2. P(k) \in Procs
  BY <1>1 DEF P
<1>3. ProcOK(P(k), Len(gz.data))
  BY DEF Types
<1> DEFINE p == P(k)
<1> HIDE DEF p
<1>4. p.call \in ProcCalls
  BY <1>2 DEF Procs, p
<1>5. p.call.files \in Seq(Paths)
  BY <1>4 DEF ProcCalls
<1>6. Len(p.call.files) \in Nat
  BY <1>5
<1> QED BY <1>1, <1>2, <1>3, <1>4, <1>5, <1>6 DEF p

\* The record of the files, field by field.
LEMMA Kept ==
    ASSUME Types, NEW k, NEW q, gz' = [gz EXCEPT !.procs = Now(k, q)]
    PROVE  Changes(k, q) /\ Still
<1> DEFINE X == Now(k, q)
<1>1. X = [gz.procs EXCEPT ![k] = q]
  BY DEF Now
<1> HIDE DEF X
<1>2. gz = [x \in Fields |-> gz[x]]
  BY DEF Types
<1>3. gz' = [gz EXCEPT !.procs = X]
  BY DEF X
<1>4. gz' = [x \in Fields |-> gz'[x]]
  BY <1>2, <1>3
<1>5. gz'.procs = X /\ gz'.tree = gz.tree /\ gz'.fs = gz.fs /\ gz'.data = gz.data
  BY <1>2, <1>3 DEF Fields
<1> QED BY <1>1, <1>4, <1>5 DEF Changes, Still

LEMMA KeptFault ==
    ASSUME Types, NEW k, NEW q, gz' = [gz EXCEPT !.faults = @ + 1, !.procs = Now(k, q)]
    PROVE  Changes(k, q) /\ Still /\ gz'.faults = gz.faults + 1
<1> DEFINE X == Now(k, q)
<1>1. X = [gz.procs EXCEPT ![k] = q]
  BY DEF Now
<1> HIDE DEF X
<1>2. gz = [x \in Fields |-> gz[x]]
  BY DEF Types
<1>3. gz' = [gz EXCEPT !.faults = gz.faults + 1, !.procs = X]
  BY DEF X
<1>4. gz' = [x \in Fields |-> gz'[x]]
  BY <1>2, <1>3
<1>5. gz'.procs = X /\ gz'.tree = gz.tree /\ gz'.fs = gz.fs /\ gz'.data = gz.data /\ gz'.faults = gz.faults + 1
  BY <1>2, <1>3 DEF Fields
<1> QED BY <1>1, <1>4, <1>5 DEF Changes, Still

\* On to the next file.
LEMMA NextFileIs ==
    ASSUME NEW p \in Procs, NEW ok \in BOOLEAN
    PROVE  LET q == NextFile(p, ok) IN
           /\ q \in Procs /\ q.call = p.call /\ q.i = p.i + 1 /\ q.pc = "next"
           /\ q.in = 0 /\ q.out = 0 /\ q.rc = IF ok THEN p.rc ELSE 1
<1>1. p.done \in Seq(BOOLEAN) /\ p.i \in Nat /\ p.rc \in {0, 1}
  BY DEF Procs
<1>2. Append(p.done, ok) \in Seq(BOOLEAN) /\ p.i + 1 \in Nat
  BY <1>1
<1> DEFINE d == Append(p.done, ok)
<1> HIDE DEF d
<1>3. NextFile(p, ok) = [p EXCEPT !.pc = "next", !.i = p.i + 1, !.in = 0, !.out = 0,
                                  !.rc = IF ok THEN p.rc ELSE 1, !.done = d]
  BY DEF NextFile, d
<1>4. d \in Seq(BOOLEAN)
  BY <1>2 DEF d
<1> DEFINE r == IF ok THEN p.rc ELSE 1
           m == p.i + 1
           q == [p EXCEPT !.pc = "next", !.i = m, !.in = 0, !.out = 0, !.rc = r, !.done = d]
<1>5. r \in {0, 1} /\ m \in Nat
  BY <1>1
<1> HIDE DEF r, m
<1>6. q \in Procs
  BY <1>4, <1>5 DEF Procs, States
<1>7. q.call = p.call /\ q.i = m /\ q.pc = "next" /\ q.in = 0 /\ q.out = 0 /\ q.rc = r
  BY DEF Procs
<1> QED BY <1>3, <1>6, <1>7 DEF r, m

LEMMA NextOK ==
    ASSUME NEW p \in Procs, NEW n \in Nat, ProcOK(p, n), p.i <= Len(p.call.files),
           NEW ok \in BOOLEAN
    PROVE  ProcOK(NextFile(p, ok), n)
<1>1. p.call \in ProcCalls /\ p.i \in Nat
  BY DEF Procs
<1>2. p.call.files \in Seq(Paths)
  BY <1>1 DEF ProcCalls
<1>3. Len(p.call.files) \in Nat
  BY <1>2
<1> DEFINE q == NextFile(p, ok)
<1>4. q.call = p.call /\ q.i = p.i + 1 /\ q.pc = "next" /\ q.in = 0 /\ q.out = 0
  BY NextFileIs
<1> HIDE DEF q
<1>5. q.i > 0 /\ q.i <= Len(q.call.files) + 1 /\ q.in <= n /\ q.out <= n
  BY <1>1, <1>3, <1>4
<1>6. ProcOK(q, n)
  BY <1>4, <1>5 DEF ProcOK
<1> QED BY <1>6 DEF q


\* The step of process k, and that its types hold after it.
Stepped(k) ==
    \E q \in Procs : /\ Changes(k, q) /\ q.call = P(k).call
                     /\ ProcOK(q, Len(gz'.data)) /\ Disk(gz'.fs, gz'.data)
                     /\ Moves(k, q)

LEMMA StillStepped ==
    ASSUME Types, NEW k \in DOMAIN gz.procs, NEW q \in Procs, Changes(k, q), Still,
           q.call = P(k).call, ProcOK(q, Len(gz.data)), Moves(k, q)
    PROVE  Stepped(k)
<1>1. Disk(gz'.fs, gz'.data) /\ Len(gz'.data) = Len(gz.data)
  BY DEF Types, Still
<1>2. ProcOK(q, Len(gz'.data))
  BY <1>1
<1> QED BY <1>1, <1>2 DEF Stepped

LEMMA MissesStepped ==
    ASSUME Types, NEW k \in DOMAIN gz.procs, P(k).i <= Len(P(k).call.files),
           P(k).pc = "copy" => ~Copies(P(k).call, gz.data[P(k).in]) \/ gz'.faults = gz.faults + 1,
           Changes(k, NextFile(P(k), FALSE)), Still
    PROVE  Stepped(k)
<1> DEFINE q == NextFile(P(k), FALSE)
<1>1. P(k) \in Procs /\ ProcOK(P(k), Len(gz.data)) /\ Len(gz.data) \in Nat
  BY ProcFacts
<1>2. q \in Procs /\ q.call = P(k).call /\ q.i = P(k).i + 1 /\ q.pc = "next" /\ q.rc = 1
  BY <1>1, NextFileIs
<1>3. ProcOK(q, Len(gz.data))
  BY <1>1, NextOK
<1>4. P(k).i \in Nat
  BY <1>1 DEF Procs
<1> HIDE DEF q
<1>5. q.i > P(k).i
  BY <1>2, <1>4
<1>6. Moves(k, q)
  BY <1>2, <1>5 DEF Moves, Misses
<1>7. Changes(k, q)
  BY DEF q
<1> QED BY <1>2, <1>3, <1>6, <1>7, StillStepped

LEMMA FailStepped ==
    ASSUME Types, NEW k \in DOMAIN gz.procs, P(k).i <= Len(P(k).call.files), P(k).pc # "copy", Fail(k)
    PROVE  Stepped(k)
<1>1. gz' = [gz EXCEPT !.procs = Now(k, NextFile(P(k), FALSE))]
  BY DEF Fail
<1> QED BY <1>1, Kept, MissesStepped

\* A process that goes to another place in the code.
LEMMA PcIs ==
    ASSUME NEW p \in Procs, NEW pc \in States
    PROVE  LET q == [p EXCEPT !.pc = pc] IN
           /\ q \in Procs /\ q.call = p.call /\ q.i = p.i /\ q.pc = pc
           /\ q.in = p.in /\ q.out = p.out /\ q.rc = p.rc
  BY DEF Procs

LEMMA DecompressStepped ==
    ASSUME Types, NEW k \in DOMAIN gz.procs, Decompress(k)
    PROVE  Stepped(k)
<1> DEFINE p == P(k)
           m == Len(p.call.files) + 1
           q == [p EXCEPT !.i = m, !.rc = 1]
<1>1. p \in Procs /\ ProcOK(p, Len(gz.data)) /\ Len(p.call.files) \in Nat /\ Len(gz.data) \in Nat
  BY ProcFacts
<1>2. p.pc = "next" /\ p.i <= Len(p.call.files) /\ p.call.tool = "gzip -d"
      /\ gz' = [gz EXCEPT !.procs = Now(k, q)]
  BY DEF Decompress, Working
<1>3. Changes(k, q) /\ Still
  BY <1>2, Kept
<1>4. m \in Nat
  BY <1>1
<1>5. q.i = m /\ m > p.i
  <2>1. p.i \in Nat
    BY <1>1 DEF Procs
  <2>2. q.i = m
    BY <1>1 DEF Procs
  <2>3. p.i <= Len(p.call.files) /\ Len(p.call.files) \in Nat
    BY <1>1, <1>2
  <2>4. \A l \in Nat : p.i <= l => l + 1 > p.i
    BY <2>1
  <2> QED BY <2>2, <2>3, <2>4
<1> HIDE DEF m
<1>6. q \in Procs /\ q.call = p.call /\ q.pc = p.pc /\ q.in = p.in /\ q.out = p.out /\ q.rc = 1
  BY <1>1, <1>4 DEF Procs
<1> HIDE DEF q, p
<1>7. ProcOK(q, Len(gz.data))
  <2>1. q.i > 0 /\ q.i <= Len(q.call.files) + 1
    BY <1>1, <1>5, <1>6 DEF m
  <2> QED BY <1>1, <1>2, <1>6, <2>1 DEF ProcOK
<1>8. Misses(k, q)
  BY <1>2, <1>3, <1>5, <1>6 DEF Misses, p
<1>9. Moves(k, q)
  BY <1>8 DEF Moves
<1> QED BY <1>3, <1>6, <1>7, <1>9, StillStepped DEF p


LEMMA GotoStepped ==
    ASSUME Types, NEW k \in DOMAIN gz.procs, NEW pc \in States, Goto(k, pc),
           ProcOK([P(k) EXCEPT !.pc = pc], Len(gz.data)),
           Still => Goes(k, [P(k) EXCEPT !.pc = pc])
    PROVE  Stepped(k)
<1> DEFINE q == [P(k) EXCEPT !.pc = pc]
<1>1. P(k) \in Procs
  BY ProcFacts
<1>2. q \in Procs /\ q.call = P(k).call
  BY <1>1, PcIs
<1>3. Changes(k, q) /\ Still
  BY Kept DEF Goto
<1>4. Moves(k, q)
  BY <1>3 DEF Moves
<1> QED BY <1>2, <1>3, <1>4, StillStepped

LEMMA StatFileStepped ==
    ASSUME Types, NEW k \in DOMAIN gz.procs, StatFile(k)
    PROVE  Stepped(k)
<1> DEFINE p == P(k)
           pc == IF p.call.stdout THEN "open" ELSE "look"
           q == [p EXCEPT !.pc = pc]
<1>1. p \in Procs /\ ProcOK(p, Len(gz.data))
  BY ProcFacts
<1>2. p.pc = "next" /\ p.i <= Len(p.call.files) /\ p.call.tool = "gunzip"
  BY DEF StatFile, Working
<1>3. CASE Fail(k)
  BY <1>2, <1>3, FailStepped
<1>4. CASE Goto(k, pc)
  <2>1. pc \in States
    BY DEF States
  <2>2. q \in Procs /\ q.call = p.call /\ q.i = p.i /\ q.pc = pc
        /\ q.in = p.in /\ q.out = p.out /\ q.rc = p.rc
    BY <1>1, <2>1, PcIs
  <2>3. (pc = "open" /\ p.call.stdout) \/ (pc = "look" /\ ~p.call.stdout)
    OBVIOUS
  <2> HIDE DEF q, p, pc
  <2>4. ProcOK(q, Len(gz.data))
    BY <1>1, <1>2, <2>2, <2>3 DEF ProcOK, Gzipping
  <2>5. Still => Goes(k, q)
    BY <1>2, <2>2, <2>3 DEF Goes, p
  <2> QED BY <1>4, <2>1, <2>4, <2>5, GotoStepped DEF q, p
<1>5. Fail(k) \/ Goto(k, pc)
  BY DEF StatFile
<1> QED BY <1>3, <1>4, <1>5

LEMMA LookOutStepped ==
    ASSUME Types, NEW k \in DOMAIN gz.procs, LookOut(k)
    PROVE  Stepped(k)
<1> DEFINE p == P(k)
           q == [p EXCEPT !.pc = "open"]
<1>1. p \in Procs /\ ProcOK(p, Len(gz.data))
  BY ProcFacts
<1>2. p.pc = "look" /\ p.i <= Len(p.call.files)
  BY <1>1 DEF LookOut, Working, ProcOK
<1>3. CASE Fail(k)
  BY <1>2, <1>3, FailStepped
<1>4. CASE Goto(k, "open") /\ LookAllows(p.call, OutOf(p))
  <2>1. "open" \in States
    BY DEF States
  <2>2. q \in Procs /\ q.call = p.call /\ q.i = p.i /\ q.pc = "open"
        /\ q.in = p.in /\ q.out = p.out /\ q.rc = p.rc
    BY <1>1, <2>1, PcIs
  <2>3. LookAllows(p.call, OutOf(p))
    BY <1>4
  <2> HIDE DEF q, p
  <2>4. ProcOK(q, Len(gz.data))
    BY <1>1, <1>2, <2>2 DEF ProcOK
  <2>5. Still => Goes(k, q)
    BY <1>2, <2>2, <2>3 DEF Goes, p
  <2> QED BY <1>4, <2>1, <2>4, <2>5, GotoStepped DEF q, p
<1>5. Fail(k) \/ (Goto(k, "open") /\ LookAllows(p.call, OutOf(p)))
  BY DEF LookOut, OutOf, Path
<1> QED BY <1>3, <1>4, <1>5

LEMMA InodeThere ==
    ASSUME Types, NEW path, Exists(path)
    PROVE  gz.fs[path] \in Nat /\ gz.fs[path] > 0 /\ gz.fs[path] <= Len(gz.data)
           /\ At(path) \in Contents
<1>1. gz.fs[path] \in 1..Len(gz.data) /\ gz.data \in Seq(Contents)
  BY DEF Types, Disk, Exists
<1>2. Len(gz.data) \in Nat /\ gz.data[gz.fs[path]] \in Contents
  BY <1>1
<1> QED BY <1>1, <1>2 DEF At

LEMMA OpenInStepped ==
    ASSUME Types, NEW k \in DOMAIN gz.procs, OpenIn(k)
    PROVE  Stepped(k)
<1> DEFINE p == P(k)
           n == gz.fs[Path(k)]
           q == [p EXCEPT !.in = n, !.pc = "header"]
<1>1. p \in Procs /\ ProcOK(p, Len(gz.data))
  BY ProcFacts
<1>2. p.pc = "open" \/ (p.pc = "next" /\ Gzipping(p.call))
  BY DEF OpenIn, Working
<1>3. p.i <= Len(p.call.files)
  BY <1>1, <1>2 DEF OpenIn, Working, ProcOK
<1>4. CASE Fail(k)
  BY <1>2, <1>3, <1>4, FailStepped
<1>5. CASE Exists(Path(k)) /\ gz' = [gz EXCEPT !.procs = Now(k, q)]
  <2>1. Changes(k, q) /\ Still
    BY <1>5, Kept
  <2>2. n \in Nat /\ n > 0 /\ n <= Len(gz.data)
    BY <1>5, InodeThere
  <2> HIDE DEF n
  <2>3. q \in Procs /\ q.call = p.call /\ q.i = p.i /\ q.pc = "header"
        /\ q.in = n /\ q.out = p.out /\ q.rc = p.rc
    BY <1>1, <2>2 DEF Procs, States
  <2> HIDE DEF q, p
  <2>4. ProcOK(q, Len(gz.data))
    BY <1>1, <1>2, <1>3, <2>2, <2>3 DEF ProcOK, Gzipping
  <2>5. Goes(k, q)
    BY <1>2, <1>5, <2>1, <2>3 DEF Goes, p, n
  <2>6. Moves(k, q)
    BY <2>5 DEF Moves
  <2> QED BY <2>1, <2>3, <2>4, <2>6, StillStepped DEF p
<1>6. Fail(k) \/ (Exists(Path(k)) /\ gz' = [gz EXCEPT !.procs = Now(k, q)])
  BY DEF OpenIn
<1> QED BY <1>4, <1>5, <1>6

LEMMA ReadHeaderStepped ==
    ASSUME Types, NEW k \in DOMAIN gz.procs, ReadHeader(k)
    PROVE  Stepped(k)
<1> DEFINE p == P(k)
           pc == IF p.call.stdout THEN "copy" ELSE "create"
           q == [p EXCEPT !.pc = pc]
<1>1. p \in Procs /\ ProcOK(p, Len(gz.data))
  BY ProcFacts
<1>2. p.pc = "header" /\ p.i <= Len(p.call.files)
  BY <1>1 DEF ReadHeader, Working, ProcOK
<1>3. CASE Fail(k)
  BY <1>2, <1>3, FailStepped
<1>4. CASE Goto(k, pc) /\ (Gzipping(p.call) \/ HeaderRead(gz.data[p.in]))
  <2>1. pc \in States
    BY DEF States
  <2>2. q \in Procs /\ q.call = p.call /\ q.i = p.i /\ q.pc = pc
        /\ q.in = p.in /\ q.out = p.out /\ q.rc = p.rc
    BY <1>1, <2>1, PcIs
  <2>3. (pc = "copy" /\ p.call.stdout) \/ (pc = "create" /\ ~p.call.stdout)
    OBVIOUS
  <2> HIDE DEF q, p, pc
  <2>4. ProcOK(q, Len(gz.data))
    BY <1>1, <1>2, <2>2, <2>3 DEF ProcOK
  <2>5. Still => Goes(k, q)
    BY <1>2, <1>4, <2>2, <2>3 DEF Goes, p
  <2> QED BY <1>4, <2>1, <2>4, <2>5, GotoStepped DEF q, p
<1>5. Fail(k) \/ (Goto(k, pc) /\ (Gzipping(p.call) \/ HeaderRead(gz.data[p.in])))
  BY DEF ReadHeader
<1> QED BY <1>3, <1>4, <1>5

LEMMA KilledStepped ==
    ASSUME Types, NEW k \in DOMAIN gz.procs, Killed(k)
    PROVE  Stepped(k)
<1> DEFINE p == P(k)
           q == [p EXCEPT !.pc = "killed"]
<1>1. p \in Procs /\ ProcOK(p, Len(gz.data))
  BY ProcFacts
<1>2. p.i <= Len(p.call.files) /\ Changes(k, q) /\ Still /\ gz'.faults = gz.faults + 1
  BY KeptFault DEF Killed
<1>3. "killed" \in States
  BY DEF States
<1>4. q \in Procs /\ q.call = p.call /\ q.i = p.i /\ q.pc = "killed"
      /\ q.in = p.in /\ q.out = p.out /\ q.rc = p.rc
  BY <1>1, <1>3, PcIs
<1> HIDE DEF q, p
<1>5. ProcOK(q, Len(gz.data))
  BY <1>1, <1>2, <1>4 DEF ProcOK
<1>6. Goes(k, q)
  BY <1>2, <1>4 DEF Goes, p
<1>7. Moves(k, q)
  BY <1>6 DEF Moves
<1> QED BY <1>2, <1>4, <1>5, <1>7, StillStepped DEF p


\* The record of the files when all of it changes.
LEMMA Changed ==
    ASSUME Types, NEW k, NEW q, NEW fs, NEW data,
           gz' = [gz EXCEPT !.fs = fs, !.data = data, !.procs = Now(k, q)]
    PROVE  Changes(k, q) /\ gz'.fs = fs /\ gz'.data = data
<1> DEFINE X == Now(k, q)
<1>1. X = [gz.procs EXCEPT ![k] = q]
  BY DEF Now
<1> HIDE DEF X
<1>2. gz = [x \in Fields |-> gz[x]]
  BY DEF Types
<1>3. gz' = [gz EXCEPT !.fs = fs, !.data = data, !.procs = X]
  BY DEF X
<1>4. gz' = [x \in Fields |-> gz'[x]]
  BY <1>2, <1>3
<1>5. gz'.procs = X /\ gz'.tree = gz.tree /\ gz'.fs = fs /\ gz'.data = data
  BY <1>2, <1>3 DEF Fields
<1> QED BY <1>1, <1>4, <1>5 DEF Changes

LEMMA PartialContent == Partial \in Contents
  BY DEF Partial, Content, Contents

\* A file is created, or truncated.
LEMMA OpenOutStepped ==
    ASSUME Types, NEW k \in DOMAIN gz.procs, OpenOut(k)
    PROVE  Stepped(k)
<1> DEFINE p == P(k)
           o == OutPath(p.call, Path(k))
           l == Len(gz.data)
           n == IF Exists(o) THEN gz.fs[o] ELSE l + 1
           fs == [r \in DOMAIN gz.fs \union {o} |-> IF r = o THEN n ELSE gz.fs[r]]
           data == IF n > l THEN Append(gz.data, Partial) ELSE [gz.data EXCEPT ![n] = Partial]
           q == [p EXCEPT !.out = n, !.pc = "copy"]
<1>1. p \in Procs /\ ProcOK(p, l) /\ l \in Nat
  BY ProcFacts
<1>2. p.pc = "create" /\ p.i <= Len(p.call.files)
  BY <1>1 DEF OpenOut, Working, ProcOK
<1>3. CASE Fail(k)
  BY <1>2, <1>3, FailStepped
<1>4. CASE gz' = [gz EXCEPT !.fs = fs, !.data = data, !.procs = Now(k, q)]
  <2>1. Changes(k, q) /\ gz'.fs = fs /\ gz'.data = data
    <3> HIDE DEF fs, data, q
    <3> QED BY <1>4, Changed
  <2>2. gz.data \in Seq(Contents) /\ gz.fs \in [DOMAIN gz.fs -> 1..l]
        /\ \A r, s \in DOMAIN gz.fs : r # s => gz.fs[r] # gz.fs[s]
    BY DEF Types, Disk
  <2>3. Exists(o) <=> o \in DOMAIN gz.fs
    BY DEF Exists
  <2>4. n \in Nat /\ n > 0 /\ (Exists(o) => n <= l /\ n = gz.fs[o]) /\ (~Exists(o) => n = l + 1)
    BY <1>1, InodeThere
  <2>5. OutOf(p) = o
    BY DEF OutOf, Path
  <2> HIDE DEF n, o
  <2>6. q \in Procs /\ q.call = p.call /\ q.i = p.i /\ q.pc = "copy"
        /\ q.in = p.in /\ q.out = n /\ q.rc = p.rc
    BY <1>1, <2>4 DEF Procs, States
  <2>7. /\ data \in Seq(Contents) /\ Len(data) >= l /\ n <= Len(data) /\ data[n] = Partial
        /\ \A m \in 1..l : m # n => data[m] = gz.data[m]
    <3>1. CASE Exists(o)
      <4>1. n \in 1..l /\ data = [gz.data EXCEPT ![n] = Partial]
        BY <1>1, <2>4, <3>1
      <4>2. data \in Seq(Contents) /\ Len(data) = l
        BY <2>2, <4>1, PartialContent
      <4> QED BY <1>1, <2>2, <4>1, <4>2
    <3>2. CASE ~Exists(o)
      <4>1. n = l + 1 /\ data = Append(gz.data, Partial)
        BY <1>1, <2>4, <3>2
      <4> QED BY <1>1, <2>2, <4>1, PartialContent
    <3> QED BY <3>1, <3>2
  <2> HIDE DEF data
  <2>8. Disk(fs, data)
    <3>1. DOMAIN fs = DOMAIN gz.fs \union {o}
      OBVIOUS
    <3>2. \A r \in DOMAIN fs : fs[r] \in 1..Len(data)
      <4>1. \A m \in 1..l : m \in 1..Len(data)
        BY <1>1, <2>7
      <4>2. n \in 1..Len(data)
        BY <2>4, <2>7
      <4> QED BY <2>2, <3>1, <4>1, <4>2
    <3>3. ASSUME NEW r \in DOMAIN gz.fs, r # o PROVE gz.fs[r] # n
      BY <1>1, <2>2, <2>3, <2>4, <3>3
    <3>4. \A r, s \in DOMAIN fs : r # s => fs[r] # fs[s]
      BY <2>2, <3>1, <3>3
    <3>5. fs \in [DOMAIN fs -> 1..Len(data)]
      BY <3>2
    <3> QED BY <2>7, <3>4, <3>5 DEF Disk
  <2>9. ProcOK(q, Len(data))
    <3> HIDE DEF q, p
    <3>1. q.in <= Len(data)
      <4>1. p.in <= l /\ p.in \in Nat
        BY <1>1 DEF ProcOK, Procs
      <4>2. Len(data) \in Nat
        BY <2>7
      <4> QED BY <1>1, <2>6, <2>7, <4>1, <4>2
    <3>2. p.i > 0 /\ p.i <= Len(p.call.files) + 1 /\ p.in > 0 /\ ~p.call.stdout
          /\ p.call.tool # "gzip -d"
      BY <1>1, <1>2 DEF ProcOK
    <3>3. q.out # 0 /\ q.out <= Len(data)
      BY <2>4, <2>6, <2>7
    <3> QED BY <1>2, <2>6, <3>1, <3>2, <3>3 DEF ProcOK
  <2>10. Creates(k, q)
    <3>1. n = IF Exists(o) THEN gz.fs[o] ELSE l + 1
      BY DEF n
    <3> DEFINE old == p
    <3>2. gz'.fs = [r \in DOMAIN gz.fs \union {o} |-> IF r = o THEN q.out ELSE gz.fs[r]]
      BY <2>1, <2>6
    <3> HIDE DEF fs, q, p
    <3>3. q.out = IF Exists(o) THEN gz.fs[o] ELSE l + 1
      BY <2>6, <3>1
    <3>4. Len(gz'.data) >= l /\ gz'.data[q.out] = Partial
          /\ \A m \in 1..l : m # q.out => gz'.data[m] = gz.data[m]
      BY <2>1, <2>6, <2>7
    <3> QED BY <1>2, <2>5, <2>6, <3>2, <3>3, <3>4 DEF Creates, p
  <2>11. Moves(k, q)
    BY <2>10 DEF Moves
  <2> HIDE DEF fs, q, p
  <2>12. Disk(gz'.fs, gz'.data) /\ ProcOK(q, Len(gz'.data))
    BY <2>1, <2>8, <2>9
  <2> QED BY <2>1, <2>6, <2>11, <2>12 DEF Stepped, p
<1>5. Fail(k) \/ gz' = [gz EXCEPT !.fs = fs, !.data = data, !.procs = Now(k, q)]
  <2>1. ASSUME ~Fail(k)
        PROVE  gz' = [gz EXCEPT
                       !.fs = [r \in DOMAIN @ \union {o} |-> IF r = o THEN n ELSE @[r]],
                       !.data = IF n > Len(@) THEN Append(@, Partial) ELSE [@ EXCEPT ![n] = Partial],
                       !.procs = Now(k, q)]
    BY <2>1 DEF OpenOut
  <2> QED BY <2>1
<1> QED BY <1>3, <1>4, <1>5

LEMMA RemoveInStepped ==
    ASSUME Types, NEW k \in DOMAIN gz.procs, RemoveIn(k)
    PROVE  Stepped(k)
<1> DEFINE p == P(k)
           ok == Exists(Path(k))
           fs == [r \in DOMAIN gz.fs \ {Path(k)} |-> gz.fs[r]]
           q == NextFile(p, ok)
<1>1. p \in Procs /\ ProcOK(p, Len(gz.data)) /\ Len(gz.data) \in Nat
  BY ProcFacts
<1>2. p.pc = "remove" /\ p.i <= Len(p.call.files)
  BY <1>1 DEF RemoveIn, Working, ProcOK
<1>3. CASE gz' = [gz EXCEPT !.faults = @ + 1, !.procs = Now(k, NextFile(P(k), FALSE))]
  BY <1>2, <1>3, KeptFault, MissesStepped
<1>4. CASE gz' = [gz EXCEPT !.fs = fs, !.procs = Now(k, q)]
  <2>1. Changes(k, q) /\ gz'.fs = fs /\ gz'.data = gz.data
    <3>1. gz = [x \in Fields |-> gz[x]]
      BY DEF Types
    <3> DEFINE X == Now(k, q)
    <3>2. X = [gz.procs EXCEPT ![k] = q]
      BY DEF Now
    <3> HIDE DEF X, fs, q
    <3>3. gz' = [gz EXCEPT !.fs = fs, !.procs = X]
      BY <1>4 DEF X
    <3>4. gz' = [x \in Fields |-> gz'[x]]
      BY <3>1, <3>3
    <3>5. gz'.procs = X /\ gz'.tree = gz.tree /\ gz'.fs = fs /\ gz'.data = gz.data
      BY <3>1, <3>3 DEF Fields
    <3> QED BY <3>2, <3>4, <3>5 DEF Changes
  <2>2. ok \in BOOLEAN
    BY DEF Exists
  <2>3. q \in Procs /\ q.call = p.call /\ q.i = p.i + 1 /\ q.pc = "next"
        /\ q.rc = (IF ok THEN p.rc ELSE 1) /\ ProcOK(q, Len(gz.data))
    BY <1>1, <1>2, <2>2, NextFileIs, NextOK
  <2>4. Disk(fs, gz.data)
    BY DEF Types, Disk
  <2> HIDE DEF q
  <2>5. Deletes(k, q)
    BY <1>2, <2>1, <2>3 DEF Deletes
  <2>6. Moves(k, q)
    BY <2>5 DEF Moves
  <2> HIDE DEF fs, p
  <2>7. Disk(gz'.fs, gz'.data) /\ ProcOK(q, Len(gz'.data))
    BY <2>1, <2>3, <2>4
  <2> QED BY <2>1, <2>3, <2>6, <2>7 DEF Stepped, p
<1>5. \/ gz' = [gz EXCEPT !.faults = @ + 1, !.procs = Now(k, NextFile(P(k), FALSE))]
      \/ gz' = [gz EXCEPT !.fs = fs, !.procs = Now(k, q)]
  BY DEF RemoveIn
<1> QED BY <1>3, <1>4, <1>5


LEMMA ConvertContent ==
    ASSUME NEW c, NEW content \in Contents
    PROVE  Convert(c, content) \in Contents
<1>1. content.payload \in STRING \union {Partial.payload}
  BY DEF Contents
<1> DEFINE kind == IF Gzipping(c) THEN "gz" ELSE "plain"
<1>2. kind \in {"gz", "plain"}
  OBVIOUS
<1>3. Convert(c, content) = [kind |-> kind, payload |-> content.payload]
  BY DEF Convert, Content
<1> HIDE DEF kind
<1> QED BY <1>1, <1>2, <1>3 DEF Contents

LEMMA ContentReplaced ==
    ASSUME NEW s \in Seq(Contents), NEW n \in 1..Len(s), NEW e \in Contents
    PROVE  [s EXCEPT ![n] = e] \in Seq(Contents) /\ Len([s EXCEPT ![n] = e]) = Len(s)
  OBVIOUS

\* What is written when the input came to its end.
LEMMA FillsStepped ==
    ASSUME Types, NEW k \in DOMAIN gz.procs, P(k).pc = "copy", P(k).i <= Len(P(k).call.files),
           Copies(P(k).call, gz.data[P(k).in]), P(k).out # 0,
           Changes(k, AfterCopy(P(k), TRUE)), gz'.fs = gz.fs,
           gz'.data = [gz.data EXCEPT ![P(k).out] = Convert(P(k).call, gz.data[P(k).in])]
    PROVE  Stepped(k)
<1> DEFINE p == P(k)
           l == Len(gz.data)
           content == Convert(p.call, gz.data[p.in])
           q == AfterCopy(p, TRUE)
<1>1. p \in Procs /\ ProcOK(p, l) /\ l \in Nat
  BY ProcFacts
<1>2. ~p.call.stdout /\ p.in \in 1..l /\ p.out \in 1..l
  <2>1. p.in \in Nat /\ p.out \in Nat
    BY <1>1 DEF Procs
  <2>2. p.in > 0 /\ p.in <= l /\ p.out <= l /\ ~p.call.stdout
    BY <1>1 DEF ProcOK
  <2> QED BY <1>1, <2>1, <2>2
<1>3. gz.data \in Seq(Contents) /\ Disk(gz.fs, gz.data)
  BY DEF Types, Disk
<1>4. content \in Contents
  BY <1>2, <1>3, ConvertContent
<1>5. gz'.data \in Seq(Contents) /\ Len(gz'.data) = l
  <2> HIDE DEF content
  <2>1. gz'.data = [gz.data EXCEPT ![p.out] = content]
    BY DEF content
  <2> QED BY <1>2, <1>3, <1>4, <2>1, ContentReplaced
<1>6. Disk(gz'.fs, gz'.data)
  BY <1>3, <1>5 DEF Disk
<1>7. /\ q \in Procs /\ q.call = p.call /\ q.rc = p.rc /\ ProcOK(q, l)
      /\ \/ p.call.keep /\ q.pc = "next" /\ q.i = p.i + 1
         \/ ~p.call.keep /\ q.pc = "remove" /\ q.i = p.i /\ q.in = p.in /\ q.out = p.out
  <2>1. CASE p.call.keep
    <3>1. q = NextFile(p, TRUE)
      BY <1>2, <2>1 DEF AfterCopy
    <3> HIDE DEF q
    <3> QED BY <1>1, <2>1, <3>1, NextFileIs, NextOK
  <2>2. CASE ~p.call.keep
    <3>1. q = [p EXCEPT !.pc = "remove"]
      BY <1>2, <2>2 DEF AfterCopy
    <3> HIDE DEF q
    <3>2. "remove" \in States
      BY DEF States
    <3>3. q \in Procs /\ q.call = p.call /\ q.i = p.i /\ q.pc = "remove"
          /\ q.in = p.in /\ q.out = p.out /\ q.rc = p.rc
      BY <1>1, <3>1, <3>2, PcIs
    <3> HIDE DEF p
    <3>4. ProcOK(q, l)
      BY <1>1, <1>2, <2>2, <3>3 DEF ProcOK, p
    <3> QED BY <2>2, <3>3, <3>4
  <2> QED BY <2>1, <2>2
<1> HIDE DEF q
<1>8. Fills(k, q)
  BY <1>2, <1>7 DEF Fills
<1>9. Moves(k, q)
  BY <1>8 DEF Moves
<1>10. Changes(k, q)
  BY DEF q
<1>11. ProcOK(q, Len(gz'.data))
  BY <1>5, <1>7
<1> QED BY <1>6, <1>7, <1>9, <1>10, <1>11 DEF Stepped

LEMMA ShowsStepped ==
    ASSUME Types, NEW k \in DOMAIN gz.procs, P(k).pc = "copy", P(k).i <= Len(P(k).call.files),
           P(k).out = 0, Changes(k, AfterCopy(P(k), TRUE)), Still
    PROVE  Stepped(k)
<1> DEFINE p == P(k)
           q == NextFile(p, TRUE)
<1>1. p \in Procs /\ ProcOK(p, Len(gz.data)) /\ Len(gz.data) \in Nat
  BY ProcFacts
<1>2. p.call.stdout
  BY <1>1 DEF ProcOK
<1>3. q = AfterCopy(p, TRUE)
  BY <1>2 DEF AfterCopy
<1>4. q \in Procs /\ q.call = p.call /\ q.i = p.i + 1 /\ q.pc = "next" /\ q.rc = p.rc
      /\ ProcOK(q, Len(gz.data))
  BY <1>1, NextFileIs, NextOK
<1> HIDE DEF q
<1>5. Changes(k, q)
  BY <1>3
<1>6. Shows(k, q)
  BY <1>2, <1>4 DEF Shows
<1>7. Moves(k, q)
  BY <1>6 DEF Moves
<1> QED BY <1>4, <1>5, <1>7, StillStepped

LEMMA CopyStepped ==
    ASSUME Types, NEW k \in DOMAIN gz.procs, Copy(k)
    PROVE  Stepped(k)
<1> DEFINE p == P(k)
           whole == Copies(p.call, gz.data[p.in])
           content == Convert(p.call, gz.data[p.in])
           data(ok) == IF ok /\ p.out # 0 THEN [gz.data EXCEPT ![p.out] = content] ELSE gz.data
           faults(ok) == IF ok = whole THEN gz.faults ELSE gz.faults + 1
<1>1. p \in Procs /\ ProcOK(p, Len(gz.data))
  BY ProcFacts
<1>2. p.pc = "copy" /\ p.i <= Len(p.call.files)
  BY <1>1 DEF Copy, Working, ProcOK
<1>3. PICK ok \in {whole} \union (IF MayFault THEN {FALSE} ELSE {}) :
        gz' = [gz EXCEPT !.data = data(ok), !.faults = faults(ok), !.procs = Now(k, AfterCopy(p, ok))]
  BY DEF Copy
<1>4. /\ Changes(k, AfterCopy(p, ok)) /\ gz'.fs = gz.fs /\ gz'.data = data(ok)
      /\ gz'.faults = faults(ok)
  <2> DEFINE X == Now(k, AfterCopy(p, ok))
             d == data(ok)
             f == faults(ok)
  <2>1. gz' = [gz EXCEPT !.data = d, !.faults = f, !.procs = X]
    BY <1>3
  <2>2. X = [gz.procs EXCEPT ![k] = AfterCopy(p, ok)]
    BY DEF Now
  <2>3. gz = [x \in Fields |-> gz[x]]
    BY DEF Types
  <2> HIDE DEF d, f, X
  <2>4. gz' = [x \in Fields |-> gz'[x]]
    BY <2>1, <2>3
  <2>5. gz'.procs = X /\ gz'.tree = gz.tree /\ gz'.fs = gz.fs /\ gz'.data = d /\ gz'.faults = f
    BY <2>1, <2>3 DEF Fields
  <2> QED BY <2>2, <2>4, <2>5 DEF Changes, d, f
<1>5. whole \in BOOLEAN
  BY DEF Copies
<1>6. ok = FALSE \/ (ok = TRUE /\ whole)
  BY <1>3, <1>5
<1> HIDE DEF whole
<1>7. CASE ok = FALSE
  <2>1. AfterCopy(p, FALSE) = NextFile(p, FALSE)
    BY DEF AfterCopy
  <2>2. Changes(k, NextFile(p, FALSE)) /\ Still
    BY <1>4, <1>7, <2>1 DEF Still
  <2>3. ~whole \/ gz'.faults = gz.faults + 1
    BY <1>4, <1>5, <1>7
  <2> QED BY <1>2, <2>2, <2>3, MissesStepped DEF whole
<1>8. CASE ok = TRUE /\ whole /\ p.out # 0
  <2>1. gz'.data = [gz.data EXCEPT ![p.out] = content]
    BY <1>4, <1>8
  <2>2. Changes(k, AfterCopy(p, TRUE)) /\ gz'.fs = gz.fs
    BY <1>4, <1>8
  <2> QED BY <1>2, <1>8, <2>1, <2>2, FillsStepped DEF whole
<1>9. CASE ok = TRUE /\ p.out = 0
  <2>1. Changes(k, AfterCopy(p, TRUE)) /\ Still
    BY <1>4, <1>9 DEF Still
  <2> QED BY <1>2, <1>9, <2>1, ShowsStepped
<1> QED BY <1>6, <1>7, <1>8, <1>9

\* Every step is one of the six moves.
LEMMA StepMoves ==
    ASSUME Types, NEW k \in DOMAIN gz.procs, GzStep(k)
    PROVE  Stepped(k)
  BY DecompressStepped, StatFileStepped, LookOutStepped, OpenInStepped, ReadHeaderStepped,
     OpenOutStepped, CopyStepped, RemoveInStepped, KilledStepped DEF GzStep


-----------------------------------------------------------------------------
(* The types hold.                                                          *)

LEMMA Longer ==
    ASSUME Types, NEW k \in DOMAIN gz.procs, NEW q \in Procs, Moves(k, q)
    PROVE  Len(gz'.data) >= Len(gz.data)
<1>1. Len(gz.data) \in Nat /\ gz.data \in Seq(Contents)
  BY DEF Types, Disk
<1>2. CASE Creates(k, q)
  BY <1>2 DEF Creates
<1>3. CASE Fills(k, q)
  <2>1. gz'.data = [gz.data EXCEPT ![P(k).out] = Convert(P(k).call, gz.data[P(k).in])]
    BY <1>3 DEF Fills
  <2>2. P(k) \in Procs /\ ProcOK(P(k), Len(gz.data))
    BY ProcFacts
  <2>3. P(k).out \in Nat /\ P(k).in \in Nat
    BY <2>2 DEF Procs
  <2>4. P(k).out # 0 /\ P(k).in > 0 /\ P(k).out <= Len(gz.data) /\ P(k).in <= Len(gz.data)
    BY <1>3, <2>2 DEF ProcOK, Fills
  <2>5. P(k).out \in 1..Len(gz.data) /\ P(k).in \in 1..Len(gz.data)
    BY <1>1, <2>3, <2>4
  <2>6. Convert(P(k).call, gz.data[P(k).in]) \in Contents
    BY <1>1, <2>5, ConvertContent
  <2>7. Len(gz'.data) = Len(gz.data)
    BY <1>1, <2>1, <2>5, <2>6, ContentReplaced
  <2> QED BY <1>1, <2>7
<1>4. CASE gz'.data = gz.data
  BY <1>1, <1>4
<1> QED BY <1>2, <1>3, <1>4 DEF Moves, Goes, Misses, Shows, Deletes, Still

\* The other processes stay as they are.
LEMMA ProcsAfter ==
    ASSUME Types, NEW k \in DOMAIN gz.procs, NEW q \in Procs, Changes(k, q)
    PROVE  /\ gz'.procs \in Seq(Procs) /\ DOMAIN gz'.procs = DOMAIN gz.procs
           /\ Len(gz'.procs) = Len(gz.procs)
           /\ P(k)' = q /\ \A j \in DOMAIN gz.procs : j # k => P(j)' = P(j)
<1>1. gz.procs \in Seq(Procs)
  BY DEF Types
<1>2. gz'.procs = [gz.procs EXCEPT ![k] = q]
  BY DEF Changes
<1> QED BY <1>1, <1>2 DEF P

LEMMA TypesStep ==
    ASSUME Types, NEW k \in DOMAIN gz.procs, GzStep(k)
    PROVE  Types'
<1>1. PICK q \in Procs : /\ Changes(k, q) /\ ProcOK(q, Len(gz'.data))
                         /\ Disk(gz'.fs, gz'.data) /\ Moves(k, q)
  BY StepMoves DEF Stepped
<1>2. /\ gz'.procs \in Seq(Procs) /\ DOMAIN gz'.procs = DOMAIN gz.procs
      /\ P(k)' = q /\ \A j \in DOMAIN gz.procs : j # k => P(j)' = P(j)
  BY <1>1, ProcsAfter
<1>3. Len(gz'.data) >= Len(gz.data) /\ Len(gz'.data) \in Nat
  BY <1>1, Longer DEF Disk
<1>4. ASSUME NEW j \in DOMAIN gz.procs PROVE ProcOK(P(j)', Len(gz'.data))
  <2>1. CASE j = k
    BY <1>1, <1>2, <2>1
  <2>2. CASE j # k
    <3>1. P(j) \in Procs /\ ProcOK(P(j), Len(gz.data)) /\ Len(gz.data) \in Nat
      BY ProcFacts
    <3> DEFINE p == P(j)
    <3>2. p.in \in Nat /\ p.out \in Nat /\ p.in <= Len(gz.data) /\ p.out <= Len(gz.data)
      BY <3>1 DEF Procs, ProcOK
    <3>3. p.in <= Len(gz'.data) /\ p.out <= Len(gz'.data)
      BY <1>3, <3>1, <3>2
    <3>4. ProcOK(p, Len(gz'.data))
      BY <3>1, <3>3 DEF ProcOK
    <3> QED BY <1>2, <2>2, <3>4
  <2> QED BY <2>1, <2>2
<1>5. gz'.tree = gz.tree /\ gz' = [x \in Fields |-> gz'[x]]
  BY <1>1 DEF Changes
<1>6. gz.tree \in [DOMAIN gz.tree -> Contents]
  BY DEF Types
<1> QED BY <1>1, <1>2, <1>4, <1>5, <1>6 DEF Types

\* A finite tree can be numbered, and each number is that of one path.
LEMMA Numbering ==
    ASSUME NEW S, IsFiniteSet(S)
    PROVE  \E f \in [S -> 1..Cardinality(S)] : \A p, q \in S : p # q => f[p] # f[q]
<1>1. ExistsBijection(S, 1..Cardinality(S)) /\ Cardinality(S) \in Nat
  BY FS_CardinalityType, Fun_ExistsBijSymmetric
<1>2. PICK f : f \in Bijection(S, 1..Cardinality(S))
  BY <1>1, Fun_ExistsBij, Zenon DEF ExistsBijection
<1>3. f \in [S -> 1..Cardinality(S)] /\ \A p, q \in S : f[p] = f[q] => p = q
  BY <1>2, Fun_BijectionProperties
<1> QED BY <1>3

LEMMA EachNumber ==
    ASSUME NEW S, IsFiniteSet(S), NEW f \in [S -> 1..Cardinality(S)],
           \A p, q \in S : p # q => f[p] # f[q], NEW n \in 1..Cardinality(S)
    PROVE  \E p \in S : f[p] = n
<1>1. Cardinality(S) \in Nat
  BY FS_CardinalityType
<1>2. IsFiniteSet(1..Cardinality(S)) /\ Cardinality(1..Cardinality(S)) = Cardinality(S)
  BY <1>1, FS_Interval
<1>3. f \in Injection(S, 1..Cardinality(S))
  BY DEF Injection, IsInjective
<1>4. f \in Surjection(S, 1..Cardinality(S))
  BY <1>2, <1>3, FS_Injection
<1> QED BY <1>4 DEF Surjection

\* The processes are at their first file and the files are those of the tree.
LEMMA InitFacts ==
    ASSUME NEW calls, \A c \in calls : IsCall(c), GzInit(calls)
    PROVE  /\ Types
           /\ \E c \in calls : /\ gz.tree = c.tree /\ Len(gz.procs) = Len(c.procs)
                               /\ \A k \in DOMAIN gz.procs : P(k) = Proc(c.procs[k])
           /\ DOMAIN gz.fs = DOMAIN gz.tree
           /\ \A p \in DOMAIN gz.tree : Exists(p) /\ At(p) = gz.tree[p]
<1>1. PICK c \in calls :
        LET paths == DOMAIN c.tree
            number == CHOOSE f \in [paths -> 1..Cardinality(paths)] : \A p, q \in paths : p # q => f[p] # f[q]
        IN gz = [procs |-> [k \in DOMAIN c.procs |-> Proc(c.procs[k])], fs |-> number, faults |-> 0, tree |-> c.tree,
                 data |-> [n \in 1..Cardinality(paths) |-> c.tree[CHOOSE p \in paths : number[p] = n]]]
  BY DEF GzInit
<1> DEFINE S == DOMAIN c.tree
           number == CHOOSE f \in [S -> 1..Cardinality(S)] : \A p, q \in S : p # q => f[p] # f[q]
           data == [n \in 1..Cardinality(S) |-> c.tree[CHOOSE p \in S : number[p] = n]]
           procs == [k \in DOMAIN c.procs |-> Proc(c.procs[k])]
<1>2. gz = [procs |-> procs, fs |-> number, faults |-> 0, tree |-> c.tree, data |-> data]
  BY <1>1
<1>3. IsFiniteSet(S) /\ c.tree \in [S -> Contents] /\ c.procs \in Seq(ProcCalls)
  BY DEF IsCall
<1>4. number \in [S -> 1..Cardinality(S)] /\ \A p, q \in S : p # q => number[p] # number[q]
  BY <1>3, Numbering
<1>5. Cardinality(S) \in Nat
  BY <1>3, FS_CardinalityType
<1> HIDE DEF number
<1>6. ASSUME NEW n \in 1..Cardinality(S)
      PROVE  (CHOOSE p \in S : number[p] = n) \in S
  BY <1>3, <1>4, EachNumber
<1>7. data \in Seq(Contents) /\ Len(data) = Cardinality(S)
  <2>1. \A n \in 1..Cardinality(S) : data[n] \in Contents
    BY <1>3, <1>6
  <2>2. data \in [1..Cardinality(S) -> Contents]
    BY <2>1
  <2> HIDE DEF data
  <2> QED BY <1>5, <2>2
<1>8. ASSUME NEW p \in S PROVE data[number[p]] = c.tree[p]
  <2>1. number[p] \in 1..Cardinality(S)
    BY <1>4
  <2>2. (CHOOSE r \in S : number[r] = number[p]) = p
    BY <1>4
  <2> QED BY <2>1, <2>2
<1>9. /\ procs \in Seq(Procs) /\ DOMAIN procs = DOMAIN c.procs /\ Len(procs) = Len(c.procs)
      /\ \A k \in DOMAIN procs : ProcOK(procs[k], Len(data))
  <2>1. ASSUME NEW k \in DOMAIN c.procs
        PROVE  Proc(c.procs[k]) \in Procs /\ ProcOK(Proc(c.procs[k]), Cardinality(S))
    <3> DEFINE e == c.procs[k]
               p == Proc(e)
    <3>1. e \in ProcCalls
      BY <1>3
    <3>2. e.files \in Seq(Paths)
      BY <3>1 DEF ProcCalls
    <3>3. Len(e.files) \in Nat
      BY <3>2
    <3> HIDE DEF e
    <3>4. p \in Procs
      BY <3>1 DEF Proc, Procs, States
    <3>5. p.call = e /\ p.i = 1 /\ p.pc = "next" /\ p.in = 0 /\ p.out = 0
      BY DEF Proc
    <3> HIDE DEF p
    <3>6. p.in <= Cardinality(S) /\ p.out <= Cardinality(S) /\ p.i > 0
          /\ p.i <= Len(p.call.files) + 1
      BY <1>5, <3>3, <3>5
    <3>7. ProcOK(p, Cardinality(S))
      BY <3>5, <3>6 DEF ProcOK
    <3> QED BY <3>4, <3>7 DEF p, e
  <2>2. DOMAIN c.procs = 1..Len(c.procs) /\ Len(c.procs) \in Nat
    BY <1>3
  <2>3. procs \in [1..Len(c.procs) -> Procs]
    BY <2>1, <2>2
  <2>4. \A k \in DOMAIN procs : ProcOK(procs[k], Cardinality(S))
    BY <2>1
  <2>5. DOMAIN procs = DOMAIN c.procs
    OBVIOUS
  <2> HIDE DEF procs, data
  <2> QED BY <1>7, <2>2, <2>3, <2>4, <2>5
<1> HIDE DEF procs, data
<1>10. /\ gz.procs = procs /\ gz.fs = number /\ gz.tree = c.tree /\ gz.data = data
       /\ gz = [x \in Fields |-> gz[x]]
  BY <1>2 DEF Fields
<1>11. Disk(number, data) /\ DOMAIN number = S
  BY <1>4, <1>7 DEF Disk
<1>12. \A k \in DOMAIN gz.procs : P(k) = Proc(c.procs[k])
  BY <1>9, <1>10 DEF P, procs
<1>13. \A k \in DOMAIN gz.procs : ProcOK(P(k), Len(gz.data))
  BY <1>9, <1>10 DEF P
<1>14. Types
  BY <1>3, <1>9, <1>10, <1>11, <1>13 DEF Types
<1>15. \A p \in DOMAIN gz.tree : Exists(p) /\ At(p) = gz.tree[p]
  BY <1>8, <1>10, <1>11 DEF Exists, At
<1> QED BY <1>9, <1>10, <1>11, <1>12, <1>14, <1>15


LEMMA TypesInvariant ==
    ASSUME NEW calls, \A c \in calls : IsCall(c)
    PROVE  GzInit(calls) /\ [][GzNext]_gz => []Types
<1>1. GzInit(calls) => Types
  BY InitFacts
<1>2. ASSUME Types, [GzNext]_gz PROVE Types'
  <2>1. CASE UNCHANGED gz
    BY <1>2, <2>1 DEF Types, Disk, P
  <2>2. CASE GzNext
    BY <1>2, <2>2, TypesStep DEF GzNext
  <2> QED BY <1>2, <2>1, <2>2
<1> QED BY <1>1, <1>2, PTL

\* The path a process works on is one it was given.
LEMMA PathGiven ==
    ASSUME Types, NEW k \in DOMAIN gz.procs, P(k).i <= Len(P(k).call.files)
    PROVE  /\ P(k).i \in 1..Len(P(k).call.files) /\ Path(k) \in ToSet(P(k).call.files)
           /\ Path(k) \in Paths
<1> DEFINE p == P(k)
           files == p.call.files
<1>1. p \in Procs /\ ProcOK(p, Len(gz.data)) /\ files \in Seq(Paths) /\ Len(files) \in Nat
  BY ProcFacts
<1>2. p.i \in Nat /\ p.i > 0
  BY <1>1 DEF Procs, ProcOK
<1>3. p.i \in 1..Len(files)
  BY <1>1, <1>2
<1>4. DOMAIN files = 1..Len(files)
  BY <1>1
<1>5. Path(k) = files[p.i]
  BY DEF Path
<1> HIDE DEF p, files
<1>6. files[p.i] \in ToSet(files) /\ files[p.i] \in Paths
  BY <1>1, <1>3, <1>4 DEF ToSet
<1> QED BY <1>3, <1>5, <1>6 DEF p, files

-----------------------------------------------------------------------------
(* Files that were not given are kept.                                       *)

Apart(path) ==
    /\ Exists(path) /\ At(path) = gz.tree[path]
    /\ \A k \in DOMAIN gz.procs : Spares(P(k), path, gz.fs[path])

LEMMA ApartStep ==
    ASSUME Types, \A k \in DOMAIN gz.procs : Unforced(P(k).call),
           NEW path, NotGiven(path), Apart(path),
           NEW k \in DOMAIN gz.procs, GzStep(k)
    PROVE  Apart(path)'
<1> DEFINE p == P(k)
           n == gz.fs[path]
<1>1. PICK q \in Procs : /\ Changes(k, q) /\ q.call = p.call /\ ProcOK(q, Len(gz'.data))
                         /\ Disk(gz'.fs, gz'.data) /\ Moves(k, q)
  BY StepMoves DEF Stepped
<1>2. /\ DOMAIN gz'.procs = DOMAIN gz.procs /\ P(k)' = q
      /\ \A j \in DOMAIN gz.procs : j # k => P(j)' = P(j)
      /\ gz'.tree = gz.tree
  BY <1>1, ProcsAfter DEF Changes
<1>3. /\ path \in DOMAIN gz.fs /\ gz.data[n] = gz.tree[path]
      /\ \A j \in DOMAIN gz.procs : Spares(P(j), path, n)
  BY DEF Apart, Exists, At
<1>4. p \in Procs /\ ProcOK(p, Len(gz.data)) /\ Unforced(p.call) /\ Len(gz.data) \in Nat
  BY ProcFacts
<1>5. n \in 1..Len(gz.data) /\ \A r \in DOMAIN gz.fs : r # path => gz.fs[r] # n
  BY <1>3 DEF Types, Disk
<1>6. n # 0
  BY <1>5
<1>7. SUFFICES /\ path \in DOMAIN gz'.fs /\ gz'.fs[path] = n /\ gz'.data[n] = gz.data[n]
               /\ Spares(q, path, n)
  BY <1>2, <1>3 DEF Apart, Exists, At
<1>8. CASE Goes(k, q)
  <2>1. path \in DOMAIN gz'.fs /\ gz'.fs[path] = n /\ gz'.data[n] = gz.data[n]
    BY <1>3, <1>8 DEF Goes, Still
  <2>2. OutOf(q) = OutOf(p)
    BY <1>1, <1>8 DEF Goes, OutOf
  <2>3. Spares(p, path, n)
    BY <1>3
  <2>4. q.out # n
    <3>1. CASE q.pc = "killed"
      <4>1. q.out = p.out
        BY <1>8, <3>1 DEF Goes
      <4> QED BY <2>3, <4>1 DEF Spares
    <3>2. CASE q.pc # "killed"
      <4>1. q.out = 0
        BY <1>1, <1>8, <3>2 DEF Goes, ProcOK
      <4> QED BY <1>6, <4>1
    <3> QED BY <3>1, <3>2
  <2>5. ASSUME q.pc \in {"open", "header", "create"}, ~p.call.stdout PROVE OutOf(p) # path
    <3>1. CASE q.pc = "open"
      <4>1. LookAllows(p.call, OutOf(p))
        BY <1>8, <2>5, <3>1 DEF Goes
      <4>2. ~Exists(OutOf(p))
        BY <1>4, <4>1 DEF LookAllows, Unforced
      <4> QED BY <1>3, <4>2 DEF Exists
    <3>2. CASE q.pc = "header"
      <4>1. p.pc = "open" \/ Gzipping(p.call)
        BY <1>8, <3>2 DEF Goes
      <4>2. p.pc = "open"
        BY <1>4, <4>1 DEF Unforced, Gzipping
      <4> QED BY <2>3, <2>5, <4>2 DEF Spares
    <3>3. CASE q.pc = "create"
      <4>1. p.pc = "header"
        BY <1>8, <3>3 DEF Goes
      <4> QED BY <2>3, <2>5, <4>1 DEF Spares
    <3> QED BY <2>5, <3>1, <3>2, <3>3
  <2> QED BY <1>1, <2>1, <2>2, <2>4, <2>5 DEF Spares
<1>9. CASE Misses(k, q) \/ Shows(k, q)
  <2>1. path \in DOMAIN gz'.fs /\ gz'.fs[path] = n /\ gz'.data[n] = gz.data[n] /\ q.pc = "next"
    BY <1>3, <1>9 DEF Misses, Shows, Still
  <2>2. q.out = 0
    BY <1>1, <2>1 DEF ProcOK
  <2> QED BY <1>6, <2>1, <2>2 DEF Spares
<1>10. CASE Creates(k, q)
  <2> DEFINE o == OutOf(p)
  <2>1. p.pc = "create" /\ ~p.call.stdout /\ q.pc = "copy"
    BY <1>4, <1>10 DEF Creates, ProcOK
  <2>2. o # path
    BY <1>3, <2>1 DEF Spares
  <2>3. q.out = (IF Exists(o) THEN gz.fs[o] ELSE Len(gz.data) + 1)
        /\ gz'.fs = [r \in DOMAIN gz.fs \union {o} |-> IF r = o THEN q.out ELSE gz.fs[r]]
        /\ \A m \in 1..Len(gz.data) : m # q.out => gz'.data[m] = gz.data[m]
    BY <1>10 DEF Creates
  <2> HIDE DEF o
  <2>4. q.out # n
    BY <1>4, <1>5, <2>2, <2>3 DEF Exists
  <2>5. path \in DOMAIN gz'.fs /\ gz'.fs[path] = n /\ gz'.data[n] = gz.data[n]
    BY <1>3, <1>5, <2>2, <2>3, <2>4
  <2> QED BY <2>1, <2>4, <2>5 DEF Spares
<1>11. CASE Fills(k, q)
  <2>1. p.out # n
    BY <1>3 DEF Spares
  <2>2. gz'.fs = gz.fs /\ gz'.data = [gz.data EXCEPT ![p.out] = Convert(p.call, gz.data[p.in])]
    BY <1>11 DEF Fills
  <2>3. gz.data \in Seq(Contents)
    BY DEF Types, Disk
  <2>4. gz'.data[n] = gz.data[n]
    BY <1>5, <2>1, <2>2, <2>3
  <2>5. q.pc = "next" \/ (q.pc = "remove" /\ q.out = p.out)
    BY <1>11 DEF Fills
  <2>6. q.out # n
    BY <1>1, <1>6, <2>1, <2>5 DEF ProcOK
  <2> QED BY <1>3, <2>2, <2>4, <2>5, <2>6 DEF Spares
<1>12. CASE Deletes(k, q)
  <2>1. p.i <= Len(p.call.files)
    BY <1>4, <1>12 DEF Deletes, ProcOK
  <2>2. path # Path(k)
    BY <2>1, PathGiven DEF NotGiven
  <2>3. gz'.fs = [r \in DOMAIN gz.fs \ {Path(k)} |-> gz.fs[r]] /\ gz'.data = gz.data /\ q.pc = "next"
    BY <1>12 DEF Deletes
  <2>4. q.out = 0
    BY <1>1, <2>3 DEF ProcOK
  <2> QED BY <1>3, <1>6, <2>2, <2>3, <2>4 DEF Spares
<1> QED BY <1>1, <1>8, <1>9, <1>10, <1>11, <1>12 DEF Moves

\* The calls are what they were.
LEMMA CallsStay ==
    ASSUME Types, NEW k \in DOMAIN gz.procs, GzStep(k)
    PROVE  /\ DOMAIN gz'.procs = DOMAIN gz.procs /\ Len(gz'.procs) = Len(gz.procs)
           /\ gz'.tree = gz.tree
           /\ \A j \in DOMAIN gz.procs : P(j)'.call = P(j).call
<1>1. PICK q \in Procs : Changes(k, q) /\ q.call = P(k).call
  BY StepMoves DEF Stepped
<1>2. /\ DOMAIN gz'.procs = DOMAIN gz.procs /\ Len(gz'.procs) = Len(gz.procs) /\ P(k)' = q
      /\ \A j \in DOMAIN gz.procs : j # k => P(j)' = P(j)
  BY <1>1, ProcsAfter
<1>3. ASSUME NEW j \in DOMAIN gz.procs PROVE P(j)'.call = P(j).call
  BY <1>1, <1>2
<1> QED BY <1>1, <1>2, <1>3 DEF Changes

OthersStay ==
    (\A k \in DOMAIN gz.procs : Unforced(P(k).call)) =>
        \A path \in DOMAIN gz.tree : NotGiven(path) => Apart(path)

LEMMA OthersStep ==
    ASSUME Types, OthersStay, [GzNext]_gz
    PROVE  OthersStay'
<1>1. CASE UNCHANGED gz
  BY <1>1 DEF OthersStay, NotGiven, Apart, Exists, At, P, Spares, OutOf
<1>2. CASE GzNext
  <2>1. PICK k \in DOMAIN gz.procs : GzStep(k)
    BY <1>2 DEF GzNext
  <2>2. /\ DOMAIN gz'.procs = DOMAIN gz.procs /\ gz'.tree = gz.tree
        /\ \A j \in DOMAIN gz.procs : P(j)'.call = P(j).call
    BY <2>1, CallsStay
  <2>3. ASSUME \A j \in DOMAIN gz'.procs : Unforced(P(j)'.call),
               NEW path \in DOMAIN gz'.tree, NotGiven(path)'
        PROVE  Apart(path)'
    <3>1. \A j \in DOMAIN gz.procs : Unforced(P(j).call)
      BY <2>2, <2>3
    <3>2. NotGiven(path)
      BY <2>2, <2>3 DEF NotGiven
    <3>3. Apart(path)
      BY <2>2, <3>1, <3>2 DEF OthersStay
    <3> QED BY <2>1, <3>1, <3>2, <3>3, ApartStep
  <2> QED BY <2>3 DEF OthersStay
<1> QED BY <1>1, <1>2

\* For any number of gunzip without -f, any files, faults and kills: a file that none of
\* them was given is there and as it was.  (gunzip: Run looks before it opens, and removes
\* what it was given)
THEOREM OthersHold ==
    ASSUME NEW calls, \A c \in calls : IsCall(c)
    PROVE  GzInit(calls) /\ [][GzNext]_gz => []OthersKept
<1>1. GzInit(calls) => OthersStay
  <2> SUFFICES ASSUME GzInit(calls) PROVE OthersStay
    OBVIOUS
  <2>1. /\ Types
        /\ \E c \in calls : \A k \in DOMAIN gz.procs : P(k) = Proc(c.procs[k])
        /\ \A p \in DOMAIN gz.tree : Exists(p) /\ At(p) = gz.tree[p]
    BY InitFacts
  <2>2. \A k \in DOMAIN gz.procs : P(k).pc = "next" /\ P(k).out = 0
    BY <2>1 DEF Proc
  <2>3. ASSUME NEW path \in DOMAIN gz.tree PROVE Apart(path)
    <3>1. Exists(path) /\ gz.fs[path] # 0
      BY <2>1, InodeThere
    <3> QED BY <2>1, <2>2, <3>1 DEF Apart, Spares
  <2> QED BY <2>3 DEF OthersStay
<1>2. OthersStay => OthersKept
  <2> SUFFICES ASSUME OthersStay, \A k \in DOMAIN gz.procs : P(k).call.tool = "gunzip" /\ ~P(k).call.force,
                      NEW p \in DOMAIN gz.tree,
                      \A k \in DOMAIN gz.procs : p \notin ToSet(P(k).call.files)
               PROVE  Exists(p) /\ At(p) = gz.tree[p]
    BY DEF OthersKept
  <2> QED BY DEF OthersStay, Unforced, NotGiven, Apart
<1> QED BY <1>1, <1>2, TypesInvariant, OthersStep, PTL


-----------------------------------------------------------------------------
(* One process: what its steps leave alone.                                  *)

LEMMA OutDiffers ==
    ASSUME NEW c, NEW path \in Paths
    PROVE  OutPath(c, path) # path
<1>1. path \in Seq(STRING) /\ Len(path) > 0 /\ Len(path) \in Nat
  BY DEF Paths
<1>2. Front(path) \in Seq(STRING) /\ Len(Front(path)) = Len(path) - 1
  <2> DEFINE n == Len(path) - 1
             f == SubSeq(path, 1, n)
  <2>1. n \in Int /\ n >= 0 /\ \A i \in 1..n : path[i] \in STRING
    BY <1>1
  <2>2. Front(path) = f
    BY DEF Front
  <2> HIDE DEF n
  <2>3. f \in Seq(STRING) /\ Len(f) = IF 1 <= n THEN n - 1 + 1 ELSE 0
    BY <2>1, SubSeqProperties
  <2> HIDE DEF f
  <2>4. Len(f) = n
    BY <2>1, <2>3
  <2> QED BY <2>2, <2>3, <2>4 DEF n
<1>3. Len(Append(path, ".gz")) = Len(path) + 1 /\ Len(Append(path, ".out")) = Len(path) + 1
  BY <1>1
<1>4. Append(path, ".gz") # path /\ Append(path, ".out") # path /\ Front(path) # path
  BY <1>1, <1>2, <1>3
<1>5. ASSUME Last(path) = ".tgz" PROVE Append(Front(path), ".tar") # path
  <2>1. Last(Append(Front(path), ".tar")) = ".tar"
    BY <1>2 DEF Last
  <2> QED BY <1>5, <2>1
<1>6. <<>> # path
  BY <1>1
<1> HIDE DEF Paths
<1> QED BY <1>4, <1>5, <1>6 DEF OutPath

LEMMA Injective ==
    ASSUME NEW c \in ProcCalls, ~Careful(c), ~Clash(c),
           NEW f \in ToSet(c.files), NEW h \in ToSet(c.files), OutPath(c, f) = OutPath(c, h)
    PROVE  f = h
<1>1. c.tool \in {"gzip", "gunzip", "gzip -d"} /\ c.files \in Seq(Paths)
  BY DEF ProcCalls
<1>2. f \in Paths /\ h \in Paths
  <2> DEFINE files == c.files
  <2> HIDE DEF files
  <2>1. files \in Seq(Paths) /\ f \in ToSet(files) /\ h \in ToSet(files)
    BY <1>1 DEF files
  <2>2. \A i \in DOMAIN files : files[i] \in Paths
    BY <2>1
  <2> QED BY <2>1, <2>2 DEF ToSet
<1>3. CASE c.tool = "gunzip"
  BY <1>3 DEF Careful, Unforced, Clash
<1>4. CASE c.tool = "gzip"
  <2>1. Append(f, ".gz") = Append(h, ".gz")
    BY <1>4 DEF OutPath, Gzipping
  <2>2. f \in Seq(STRING) /\ h \in Seq(STRING)
    BY <1>2 DEF Paths
  <2>3. Front(Append(f, ".gz")) = f /\ Front(Append(h, ".gz")) = h
    BY <2>2 DEF Front
  <2> QED BY <2>1, <2>3
<1> QED BY <1>1, <1>3, <1>4 DEF Careful

\* The path leads to the same content, or to nothing, after the step as before.
Same(r) ==
    /\ r \in DOMAIN gz'.fs <=> r \in DOMAIN gz.fs
    /\ r \in DOMAIN gz.fs => gz'.data[gz'.fs[r]] = gz.data[gz.fs[r]]

\* A step of the only process.
OneStep(q) ==
    /\ Types /\ Steady /\ 1 \in DOMAIN gz.procs
    /\ q \in Procs /\ Changes(1, q) /\ q.call = P(1).call /\ P(1)' = q
    /\ ProcOK(q, Len(gz'.data)) /\ Moves(1, q)

LEMMA OneMove ==
    ASSUME Types, Steady, Len(gz.procs) = 1, GzNext
    PROVE  \E q : OneStep(q)
<1>1. DOMAIN gz.procs = {1}
  <2>1. gz.procs \in Seq(Procs)
    BY DEF Types
  <2>2. DOMAIN gz.procs = 1..1
    BY <2>1
  <2> QED BY <2>2
<1>2. GzStep(1)
  BY <1>1 DEF GzNext
<1>3. PICK q \in Procs : Changes(1, q) /\ q.call = P(1).call /\ ProcOK(q, Len(gz'.data)) /\ Moves(1, q)
  BY <1>1, <1>2, StepMoves DEF Stepped
<1>4. P(1)' = q
  BY <1>1, <1>3, ProcsAfter
<1> QED BY <1>1, <1>3, <1>4 DEF OneStep

LEMMA GoesSame ==
    ASSUME NEW q, Goes(1, q) \/ Misses(1, q) \/ Shows(1, q), NEW r
    PROVE  Same(r)
  BY DEF Goes, Misses, Shows, Still, Same

\* What the process has of the file it is at, when it has it open.
LEMMA AtFile ==
    ASSUME Types, Steady, 1 \in DOMAIN gz.procs, P(1).pc \notin {"next", "killed"}
    PROVE  /\ ThePath \in ToSet(P(1).call.files) /\ P(1).i \in 1..Len(P(1).call.files)
           /\ TheOut = OutPath(P(1).call, ThePath) /\ TheOut # ThePath
           /\ ~P(1).call.stdout => TheOut \in Outputs(P(1).call)
<1>1. ProcOK(P(1), Len(gz.data))
  BY ProcFacts
<1>2. P(1).i <= Len(P(1).call.files) /\ P(1).call.tool # "gzip -d"
  BY <1>1 DEF ProcOK
<1>3. /\ P(1).i \in 1..Len(P(1).call.files) /\ Path(1) \in ToSet(P(1).call.files)
      /\ Path(1) \in Paths
  BY <1>2, PathGiven
<1>4. TheOut = OutPath(P(1).call, ThePath)
  BY DEF TheOut, ThePath, OutOf, Path
<1>5. TheOut # ThePath
  BY <1>3, <1>4, OutDiffers DEF ThePath
<1>6. ~P(1).call.stdout => TheOut \in Outputs(P(1).call)
  BY <1>2, <1>3, <1>4 DEF Outputs, ThePath
<1> QED BY <1>3, <1>4, <1>5, <1>6 DEF ThePath

LEMMA CreatesSame ==
    ASSUME NEW q, OneStep(q), Creates(1, q)
    PROVE  /\ \A r : r # TheOut => Same(r)
           /\ TheOut \in DOMAIN gz'.fs /\ gz'.fs[TheOut] = q.out /\ gz'.data[q.out] = Partial
           /\ Exists(ThePath) /\ gz.fs[ThePath] = P(1).in /\ ~P(1).call.stdout
<1> DEFINE o == TheOut
<1>1. Types /\ Steady /\ 1 \in DOMAIN gz.procs /\ P(1).pc = "create"
  BY DEF OneStep, Creates
<1>2. ~P(1).call.stdout
  BY <1>1, ProcFacts DEF ProcOK
<1>3. Exists(ThePath) /\ gz.fs[ThePath] = P(1).in
  BY <1>1 DEF Steady
<1>4. /\ q.out = IF Exists(o) THEN gz.fs[o] ELSE Len(gz.data) + 1
      /\ gz'.fs = [r \in DOMAIN gz.fs \union {o} |-> IF r = o THEN q.out ELSE gz.fs[r]]
      /\ gz'.data[q.out] = Partial
      /\ \A m \in 1..Len(gz.data) : m # q.out => gz'.data[m] = gz.data[m]
  BY DEF Creates, TheOut
<1>5. /\ gz.fs \in [DOMAIN gz.fs -> 1..Len(gz.data)] /\ gz.data \in Seq(Contents)
      /\ \A r, s \in DOMAIN gz.fs : r # s => gz.fs[r] # gz.fs[s]
  BY <1>1 DEF Types, Disk
<1> HIDE DEF o
<1>6. ASSUME NEW r, r # o PROVE Same(r)
  <2>1. r \in DOMAIN gz'.fs <=> r \in DOMAIN gz.fs
    BY <1>4, <1>6
  <2>2. ASSUME r \in DOMAIN gz.fs PROVE gz'.data[gz'.fs[r]] = gz.data[gz.fs[r]]
    <3>1. gz'.fs[r] = gz.fs[r] /\ gz.fs[r] \in 1..Len(gz.data)
      BY <1>4, <1>5, <1>6, <2>2
    <3>2. gz.fs[r] # q.out
      BY <1>4, <1>5, <1>6, <2>2, <3>1 DEF Exists
    <3> QED BY <1>4, <3>1, <3>2
  <2> QED BY <2>1, <2>2 DEF Same
<1>7. o \in DOMAIN gz'.fs /\ gz'.fs[o] = q.out
  BY <1>4
<1> QED BY <1>2, <1>3, <1>4, <1>6, <1>7 DEF o

LEMMA FillsSame ==
    ASSUME NEW q, OneStep(q), Fills(1, q)
    PROVE  /\ \A r : r # TheOut => Same(r)
           /\ Exists(TheOut) /\ gz.fs[TheOut] = P(1).out /\ At(TheOut) = Partial
           /\ gz'.fs = gz.fs /\ gz'.data[P(1).out] = Convert(P(1).call, At(ThePath))
           /\ gz'.data[P(1).in] = gz.data[P(1).in] /\ Copies(P(1).call, gz.data[P(1).in])
           /\ Exists(ThePath) /\ gz.fs[ThePath] = P(1).in /\ ~P(1).call.stdout
<1> DEFINE o == TheOut
           w == ThePath
           content == Convert(P(1).call, gz.data[P(1).in])
<1>1. Types /\ Steady /\ 1 \in DOMAIN gz.procs /\ P(1).pc = "copy" /\ ~P(1).call.stdout
  BY DEF OneStep, Fills
<1>2. /\ Exists(w) /\ gz.fs[w] = P(1).in
      /\ Exists(o) /\ gz.fs[o] = P(1).out /\ gz.data[P(1).out] = Partial
  BY <1>1 DEF Steady
<1>3. o # w
  BY <1>1, AtFile
<1>4. gz'.fs = gz.fs /\ gz'.data = [gz.data EXCEPT ![P(1).out] = content]
      /\ Copies(P(1).call, gz.data[P(1).in])
  BY DEF Fills
<1>5. /\ gz.fs \in [DOMAIN gz.fs -> 1..Len(gz.data)] /\ gz.data \in Seq(Contents)
      /\ \A r, s \in DOMAIN gz.fs : r # s => gz.fs[r] # gz.fs[s]
  BY <1>1 DEF Types, Disk
<1> HIDE DEF o, w, content
<1>6. P(1).out \in 1..Len(gz.data) /\ P(1).in \in 1..Len(gz.data) /\ P(1).in # P(1).out
  BY <1>2, <1>3, <1>5 DEF Exists
<1>7. ASSUME NEW m \in 1..Len(gz.data), m # P(1).out PROVE gz'.data[m] = gz.data[m]
  BY <1>4, <1>5, <1>7
<1>8. gz'.data[P(1).out] = content
  BY <1>4, <1>5, <1>6
<1>9. ASSUME NEW r, r # o PROVE Same(r)
  <2>1. ASSUME r \in DOMAIN gz.fs PROVE gz'.data[gz'.fs[r]] = gz.data[gz.fs[r]]
    BY <1>2, <1>4, <1>5, <1>7, <1>9, <2>1 DEF Exists
  <2> QED BY <1>4, <2>1 DEF Same
<1>10. content = Convert(P(1).call, At(w)) /\ At(o) = Partial
  BY <1>2 DEF content, At
<1> QED BY <1>1, <1>2, <1>4, <1>6, <1>7, <1>8, <1>9, <1>10 DEF o, w

LEMMA DeletesSame ==
    ASSUME NEW q, OneStep(q), Deletes(1, q)
    PROVE  /\ \A r : r # ThePath => Same(r)
           /\ ThePath \notin DOMAIN gz'.fs /\ DOMAIN gz'.fs \in SUBSET DOMAIN gz.fs
           /\ Exists(ThePath) /\ Exists(TheOut) /\ At(TheOut) = Convert(P(1).call, At(ThePath))
           /\ q.rc = P(1).rc /\ ~P(1).call.stdout /\ ~P(1).call.keep
<1>1. Types /\ Steady /\ 1 \in DOMAIN gz.procs /\ P(1).pc = "remove"
  BY DEF OneStep, Deletes
<1>2. ~P(1).call.stdout /\ ~P(1).call.keep
  BY <1>1, ProcFacts DEF ProcOK
<1>3. /\ Exists(ThePath) /\ gz.fs[ThePath] = P(1).in
      /\ Exists(TheOut) /\ gz.fs[TheOut] = P(1).out
      /\ gz.data[P(1).out] = Convert(P(1).call, gz.data[P(1).in])
  BY <1>1, <1>2 DEF Steady
<1>4. gz'.fs = [r \in DOMAIN gz.fs \ {ThePath} |-> gz.fs[r]] /\ gz'.data = gz.data
  BY DEF Deletes, ThePath
<1>5. q.rc = P(1).rc
  BY <1>3 DEF Deletes, ThePath
<1>6. ASSUME NEW r, r # ThePath PROVE Same(r)
  BY <1>4, <1>6 DEF Same
<1>7. ThePath \notin DOMAIN gz'.fs /\ DOMAIN gz'.fs \in SUBSET DOMAIN gz.fs
  BY <1>4
<1> QED BY <1>2, <1>3, <1>5, <1>6, <1>7 DEF At

\* What the process holds open and has yet to make is what it found.
LEMMA SteadyStep ==
    ASSUME NEW q, OneStep(q)
    PROVE  Steady'
<1> DEFINE p == P(1)
           w == ThePath
           o == TheOut
<1>1. /\ Types /\ Steady /\ 1 \in DOMAIN gz.procs /\ q.call = p.call /\ P(1)' = q
      /\ ProcOK(q, Len(gz'.data)) /\ Moves(1, q)
  BY DEF OneStep
<1>2. q.i = p.i => ThePath' = w /\ TheOut' = o
  <2>1. ThePath' = q.call.files[q.i] /\ TheOut' = OutPath(q.call, q.call.files[q.i])
    BY <1>1 DEF ThePath, TheOut, OutOf, Path
  <2>2. w = p.call.files[p.i] /\ o = OutPath(p.call, p.call.files[p.i])
    BY DEF ThePath, TheOut, OutOf, Path
  <2> QED BY <1>1, <2>1, <2>2
<1>3. CASE q.pc \in {"next", "killed"}
  BY <1>1, <1>3 DEF Steady
<1> DEFINE SteadyThen ==
      /\ q.pc \in {"header", "create", "copy", "remove"} => w \in DOMAIN gz'.fs /\ gz'.fs[w] = q.in
      /\ q.pc \in {"copy", "remove"} /\ ~q.call.stdout => o \in DOMAIN gz'.fs /\ gz'.fs[o] = q.out
      /\ q.pc = "copy" /\ ~q.call.stdout => gz'.data[q.out] = Partial
      /\ q.pc = "remove" => /\ Copies(q.call, gz'.data[q.in])
                            /\ gz'.data[q.out] = Convert(q.call, gz'.data[q.in])
      /\ q.pc \in {"open", "header", "create"} /\ Unforced(q.call) /\ ~q.call.stdout => o \notin DOMAIN gz'.fs
<1>4. q.i = p.i /\ SteadyThen => Steady'
  BY <1>1, <1>2 DEF Steady, Exists
<1> SUFFICES ASSUME q.pc \notin {"next", "killed"} PROVE q.i = p.i /\ SteadyThen
  BY <1>3, <1>4
<1>5. CASE Goes(1, q)
  <2>1. q.i = p.i /\ gz'.fs = gz.fs /\ gz'.data = gz.data
    BY <1>5 DEF Goes, Still
  <2>2. CASE q.pc = "look"
    BY <2>1, <2>2
  <2>3. CASE q.pc = "open"
    <3>1. p.call.stdout \/ LookAllows(p.call, o)
      BY <1>5, <2>3 DEF Goes, TheOut
    <3> HIDE DEF o, w, p
    <3>2. Unforced(p.call) /\ ~p.call.stdout => ~Exists(o)
      BY <3>1 DEF LookAllows, Unforced
    <3> QED BY <1>1, <2>1, <2>3, <3>2 DEF Exists
  <2>4. CASE q.pc = "header"
    <3>1. Exists(w) /\ q.in = gz.fs[w] /\ (p.pc = "open" \/ Gzipping(p.call))
      BY <1>5, <2>4 DEF Goes, ThePath
    <3>2. Unforced(p.call) => p.pc = "open"
      BY <3>1 DEF Unforced, Gzipping
    <3>3. Unforced(p.call) /\ ~p.call.stdout => ~Exists(o)
      BY <1>1, <3>2 DEF Steady
    <3> HIDE DEF o, w, p
    <3> QED BY <1>1, <2>1, <2>4, <3>1, <3>3 DEF Exists
  <2>5. CASE q.pc \in {"create", "copy"}
    <3>1. p.pc = "header" /\ q.in = p.in /\ (q.pc = "copy" => p.call.stdout)
      BY <1>5, <2>5 DEF Goes
    <3>2. Exists(w) /\ gz.fs[w] = p.in /\ (Unforced(p.call) /\ ~p.call.stdout => ~Exists(o))
      BY <1>1, <3>1 DEF Steady
    <3> HIDE DEF o, w, p
    <3> QED BY <1>1, <2>1, <2>5, <3>1, <3>2 DEF Exists
  <2> QED BY <1>5, <2>2, <2>3, <2>4, <2>5 DEF Goes
<1>6. CASE Creates(1, q)
  <2>1. /\ \A r : r # o => Same(r)
        /\ o \in DOMAIN gz'.fs /\ gz'.fs[o] = q.out /\ gz'.data[q.out] = Partial
        /\ Exists(w) /\ gz.fs[w] = p.in
    BY <1>6, CreatesSame
  <2>2. p.pc = "create" /\ q.pc = "copy" /\ q.i = p.i /\ q.in = p.in
    BY <1>6 DEF Creates
  <2>3. w # o
    BY <1>1, <2>2, AtFile
  <2>4. gz'.fs = [r \in DOMAIN gz.fs \union {o} |-> IF r = o THEN q.out ELSE gz.fs[r]]
    BY <1>6 DEF Creates, TheOut
  <2> HIDE DEF o, w, p
  <2>5. w \in DOMAIN gz'.fs /\ gz'.fs[w] = q.in
    BY <2>1, <2>2, <2>3, <2>4 DEF Exists
  <2> QED BY <2>1, <2>2, <2>5
<1>7. CASE Fills(1, q)
  <2>1. /\ Exists(o) /\ gz.fs[o] = p.out
        /\ gz'.fs = gz.fs /\ gz'.data[p.out] = Convert(p.call, At(w))
        /\ gz'.data[p.in] = gz.data[p.in] /\ Copies(p.call, gz.data[p.in])
        /\ Exists(w) /\ gz.fs[w] = p.in
    BY <1>7, FillsSame
  <2>2. q.pc = "remove" /\ q.i = p.i /\ q.in = p.in /\ q.out = p.out
    BY <1>7 DEF Fills
  <2> HIDE DEF o, w, p
  <2> QED BY <1>1, <2>1, <2>2 DEF Exists, At
<1>8. CASE Misses(1, q) \/ Shows(1, q) \/ Deletes(1, q)
  BY <1>8 DEF Misses, Shows, Deletes
<1> QED BY <1>1, <1>5, <1>6, <1>7, <1>8 DEF Moves

\* The inputs and what they held at the start are what they were.
LEMMA InputsStay ==
    ASSUME NEW q, OneStep(q)
    PROVE  /\ Inputs' = Inputs /\ gz'.tree = gz.tree /\ P(1)'.call = P(1).call
           /\ Clash(P(1).call)' = Clash(P(1).call)
<1>1. P(1)' = q /\ q.call = P(1).call /\ gz'.tree = gz.tree
  BY DEF OneStep, Changes
<1> QED BY <1>1 DEF Inputs, Outputs, Clash

LEMMA NoOutput ==
    ASSUME Types, Steady, 1 \in DOMAIN gz.procs, P(1).pc \notin {"next", "killed"},
           ~P(1).call.stdout, NEW r \in Inputs
    PROVE  r # TheOut
  BY AtFile DEF Inputs

LEMMA UntouchedStep ==
    ASSUME NEW q, OneStep(q), Untouched
    PROVE  Untouched'
<1>1. Types /\ Steady /\ 1 \in DOMAIN gz.procs /\ Moves(1, q)
  BY DEF OneStep
<1>2. Inputs' = Inputs /\ gz'.tree = gz.tree
  BY InputsStay
<1>3. SUFFICES ASSUME NEW r \in Inputs, r \in DOMAIN gz'.fs
               PROVE  Same(r)
  <2>1. ASSUME NEW r \in Inputs, r \in DOMAIN gz'.fs
        PROVE  r \in DOMAIN gz.tree /\ gz'.data[gz'.fs[r]] = gz.tree[r]
    BY <1>3, <2>1 DEF Untouched, Same, Exists, At
  <2> QED BY <1>2, <2>1 DEF Untouched, Exists, At
<1>4. CASE Goes(1, q) \/ Misses(1, q) \/ Shows(1, q)
  BY <1>4, GoesSame
<1>5. CASE Creates(1, q)
  <2>1. r # TheOut
    BY <1>1, <1>5, CreatesSame, NoOutput DEF Creates
  <2> QED BY <1>5, <2>1, CreatesSame
<1>6. CASE Fills(1, q)
  <2>1. r # TheOut
    BY <1>1, <1>6, FillsSame, NoOutput DEF Fills
  <2> QED BY <1>6, <2>1, FillsSame
<1>7. CASE Deletes(1, q)
  BY <1>3, <1>7, DeletesSame
<1> QED BY <1>1, <1>4, <1>5, <1>6, <1>7 DEF Moves

-----------------------------------------------------------------------------
(* What an input held is whole somewhere.                                    *)

LEMMA ConvertWhole ==
    ASSUME NEW c, NEW content
    PROVE  Whole(Convert(c, content)) /\ Convert(c, content).payload = content.payload
           /\ Convert(c, content) # Partial
<1>1. Convert(c, content) = [kind |-> IF Gzipping(c) THEN "gz" ELSE "plain", payload |-> content.payload]
  BY DEF Convert, Content
<1>2. Partial.kind = "partial"
  BY DEF Partial, Content
<1> QED BY <1>1, <1>2 DEF Whole

\* A path that keeps its content and is still final keeps its payload safe.
LEMMA StillSafe ==
    ASSUME NEW q, OneStep(q), NEW x, NEW w, w \in DOMAIN gz'.fs,
           Whole(gz'.data[gz'.fs[w]]), gz'.data[gz'.fs[w]].payload = x,
           \/ Careful(P(1).call)
           \/ \E S \in SUBSET ToSet(P(1).call.files) :
                 /\ S \intersect DOMAIN gz'.fs = {}
                 /\ \A f \in ToSet(P(1).call.files) : OutPath(P(1).call, f) \in S \union {w} => f \in S
    PROVE  Safe(x)'
<1>1. P(1)'.call = P(1).call
  BY InputsStay
<1>2. ASSUME NEW S \in SUBSET ToSet(P(1).call.files), S \intersect DOMAIN gz'.fs = {},
             \A f \in ToSet(P(1).call.files) : OutPath(P(1).call, f) \in S \union {w} => f \in S
      PROVE  Final(w, S)'
  BY <1>1, <1>2 DEF Final
<1>3. Careful(P(1).call)' \/ \E S \in SUBSET ToSet(P(1)'.call.files) : Final(w, S)'
  BY <1>1, <1>2
<1> QED BY <1>3 DEF Safe, At

\* A file that is at its output neither spoils a final path nor brings one back.
LEMMA FinalSpared ==
    ASSUME Types, Steady, 1 \in DOMAIN gz.procs, P(1).pc \in {"create", "copy"},
           ~P(1).call.stdout, NEW w, Exists(w), Whole(At(w)),
           Careful(P(1).call) \/ \E S \in SUBSET ToSet(P(1).call.files) : Final(w, S)
    PROVE  /\ w # TheOut
           /\ \A S \in SUBSET ToSet(P(1).call.files) : Final(w, S) => TheOut \notin S
<1> DEFINE c == P(1).call
<1>1. ThePath \in ToSet(c.files) /\ TheOut = OutPath(c, ThePath) /\ c.tool # "gzip -d"
  BY AtFile, ProcFacts DEF ProcOK
<1>2. Exists(ThePath)
  BY DEF Steady
<1>3. ASSUME NEW S \in SUBSET ToSet(c.files), Final(w, S)
      PROVE  w # TheOut /\ TheOut \notin S
  BY <1>1, <1>2, <1>3 DEF Final, Exists
<1>4. ASSUME Careful(c) PROVE w # TheOut
  <2>1. Unforced(c)
    BY <1>1, <1>4 DEF Careful
  <2>2. CASE P(1).pc = "create"
    <3>1. ~Exists(TheOut)
      BY <2>1, <2>2 DEF Steady
    <3> QED BY <3>1
  <2>3. CASE P(1).pc = "copy"
    <3>1. Exists(TheOut) /\ gz.fs[TheOut] = P(1).out /\ gz.data[P(1).out] = Partial
      BY <2>3 DEF Steady
    <3>2. At(TheOut) = Partial
      BY <3>1 DEF At
    <3>3. ~Whole(Partial)
      BY DEF Partial, Content, Whole
    <3> QED BY <3>2, <3>3
  <2> QED BY <2>2, <2>3
<1> QED BY <1>3, <1>4

LEMMA SafeStep ==
    ASSUME NEW q, OneStep(q), ~Clash(P(1).call), NEW x, Safe(x)
    PROVE  Safe(x)'
<1> DEFINE c == P(1).call
           files == ToSet(c.files)
           FinalThen(w, S) == /\ S \intersect DOMAIN gz'.fs = {}
                              /\ \A f \in files : OutPath(c, f) \in S \union {w} => f \in S
<1>1. /\ Types /\ Steady /\ 1 \in DOMAIN gz.procs /\ Moves(1, q) /\ c \in ProcCalls
  BY ProcFacts DEF OneStep
<1>2. PICK w \in DOMAIN gz.fs : /\ Whole(At(w)) /\ At(w).payload = x
                                /\ Careful(c) \/ \E S \in SUBSET files : Final(w, S)
  BY DEF Safe
<1>3. ASSUME Same(w), \A S \in SUBSET files : Final(w, S) => S \intersect DOMAIN gz'.fs = {}
      PROVE  Safe(x)'
  <2>1. w \in DOMAIN gz'.fs /\ gz'.data[gz'.fs[w]] = At(w)
    BY <1>3 DEF Same, At
  <2>2. Careful(c) \/ \E S \in SUBSET files : FinalThen(w, S)
    BY <1>2, <1>3 DEF Final
  <2> QED BY <1>2, <2>1, <2>2, StillSafe
<1>4. CASE Goes(1, q) \/ Misses(1, q) \/ Shows(1, q)
  <2>1. Same(w) /\ gz'.fs = gz.fs
    BY <1>4, GoesSame DEF Goes, Misses, Shows, Still
  <2> QED BY <1>3, <2>1 DEF Final
<1>5. CASE Creates(1, q)
  <2>1. ~c.stdout /\ P(1).pc = "create" /\ \A r : r # TheOut => Same(r)
    BY <1>5, CreatesSame DEF Creates
  <2>2. w # TheOut /\ \A S \in SUBSET files : Final(w, S) => TheOut \notin S
    BY <1>1, <1>2, <2>1, FinalSpared DEF Exists
  <2>3. \A r \in DOMAIN gz'.fs : r = TheOut \/ r \in DOMAIN gz.fs
    BY <2>1 DEF Same
  <2>4. ASSUME NEW S \in SUBSET files, Final(w, S) PROVE S \intersect DOMAIN gz'.fs = {}
    BY <2>2, <2>3, <2>4 DEF Final
  <2> QED BY <1>3, <2>1, <2>2, <2>4
<1>6. CASE Fills(1, q)
  <2>1. ~c.stdout /\ P(1).pc = "copy" /\ gz'.fs = gz.fs /\ \A r : r # TheOut => Same(r)
    BY <1>6, FillsSame DEF Fills
  <2>2. w # TheOut
    BY <1>1, <1>2, <2>1, FinalSpared DEF Exists
  <2> QED BY <1>3, <2>1, <2>2 DEF Final
<1>7. CASE Deletes(1, q)
  <2> DEFINE o == TheOut
             v == ThePath
  <2>1. /\ \A r : r # v => Same(r)
        /\ v \notin DOMAIN gz'.fs /\ DOMAIN gz'.fs \in SUBSET DOMAIN gz.fs
        /\ Exists(v) /\ Exists(o) /\ At(o) = Convert(c, At(v))
    BY <1>7, DeletesSame
  <2>2. v \in files /\ o = OutPath(c, v) /\ o # v
    BY <1>1, <1>7, AtFile DEF Deletes
  <2> HIDE DEF o, v
  <2>3. CASE w # v
    BY <1>3, <2>1, <2>3 DEF Final
  <2>4. CASE w = v
    <3>1. o \in DOMAIN gz'.fs /\ gz'.data[gz'.fs[o]] = At(o)
      BY <2>1, <2>2 DEF Same, Exists, At
    <3>2. Whole(At(o)) /\ At(o).payload = x
      BY <1>2, <2>1, <2>4, ConvertWhole
    <3>3. ASSUME ~Careful(c), NEW S \in SUBSET files, Final(w, S)
          PROVE  FinalThen(o, S \union {v})
      <4>1. (S \union {v}) \intersect DOMAIN gz'.fs = {}
        BY <2>1, <3>3 DEF Final
      <4>2. ASSUME NEW f \in files, OutPath(c, f) \in S \union {v} \union {o}
            PROVE  f \in S \union {v}
        <5>1. CASE OutPath(c, f) = o
          BY <1>1, <2>2, <3>3, <5>1, Injective
        <5>2. CASE OutPath(c, f) \in S \union {w}
          BY <3>3, <5>2 DEF Final
        <5> QED BY <2>4, <4>2, <5>1, <5>2
      <4> QED BY <4>1, <4>2
    <3>4. Careful(c) \/ \E S \in SUBSET files : FinalThen(o, S)
      <4>1. CASE ~Careful(c)
        <5>1. PICK S \in SUBSET files : Final(w, S)
          BY <1>2, <4>1
        <5>2. S \union {v} \in SUBSET files
          BY <2>2
        <5> HIDE DEF FinalThen
        <5> QED BY <3>3, <4>1, <5>1, <5>2
      <4> QED BY <4>1
    <3> QED BY <3>1, <3>2, <3>4, StillSafe
  <2> QED BY <2>3, <2>4
<1> QED BY <1>1, <1>4, <1>5, <1>6, <1>7 DEF Moves

LEMMA TrailStep ==
    ASSUME NEW q, OneStep(q), Trail
    PROVE  Trail'
<1>1. /\ Inputs' = Inputs /\ gz'.tree = gz.tree /\ Clash(P(1).call)' = Clash(P(1).call)
  BY InputsStay
<1>2. ASSUME ~Clash(P(1).call), NEW r \in Inputs \intersect DOMAIN gz.tree, Whole(gz.tree[r])
      PROVE  Safe(gz.tree[r].payload)'
  <2>1. Safe(gz.tree[r].payload)
    BY <1>2 DEF Trail
  <2> DEFINE x == gz.tree[r].payload
  <2>2. \A y : Safe(y) => Safe(y)'
    BY <1>2, SafeStep
  <2> QED BY <1>1, <2>1, <2>2
<1> QED BY <1>1, <1>2 DEF Trail

-----------------------------------------------------------------------------
(* The status is true.                                                       *)

\* What Converted(j) says after the step, of the input r.
ConvertedThen(q, r) ==
    LET c == P(1).call
        out == OutPath(c, r)
    IN r \in Inputs =>
         /\ r \in DOMAIN gz.tree
         /\ ~c.stdout /\ out \notin ToSet(c.files) =>
              /\ out \in DOMAIN gz'.fs
              /\ \/ gz'.data[gz'.fs[out]] = Convert(c, gz.tree[r])
                 \/ q.pc = "copy" /\ q.i = P(1).i /\ ThePath = r
         /\ r \in DOMAIN gz'.fs <=> (c.keep \/ c.stdout)

LEMMA ConvertedAfter ==
    ASSUME NEW q, OneStep(q), NEW j, ConvertedThen(q, P(1).call.files[j])
    PROVE  Converted(j)'
<1>1. /\ Inputs' = Inputs /\ gz'.tree = gz.tree /\ P(1)'.call = P(1).call /\ P(1)' = q
      /\ q.call = P(1).call
  BY InputsStay DEF OneStep
<1>2. q.i = P(1).i => ThePath' = ThePath
  BY <1>1 DEF ThePath, Path
<1> QED BY <1>1, <1>2 DEF Converted, ConvertedThen, Exists, At

\* An input that is there, and the output of another file, are what they were.
LEMMA ConvertedKept ==
    ASSUME NEW q, OneStep(q), ~Clash(P(1).call), NEW j \in DOMAIN P(1).call.files, Converted(j),
           Goes(1, q) => q.pc = "killed" \/ P(1).pc # "copy",
           Untouched, q.pc # "killed", ~Misses(1, q)
    PROVE  ConvertedThen(q, P(1).call.files[j])
<1> DEFINE c == P(1).call
           r == c.files[j]
           out == OutPath(c, r)
           o == TheOut
           v == ThePath
<1>1. /\ Types /\ Steady /\ 1 \in DOMAIN gz.procs /\ Moves(1, q) /\ c \in ProcCalls
  BY ProcFacts DEF OneStep
<1>2. r \in ToSet(c.files)
  BY DEF ToSet
<1> HIDE DEF r
<1> SUFFICES ASSUME r \in Inputs PROVE ConvertedThen(q, r)
  BY DEF ConvertedThen, r
<1>3. /\ r \in DOMAIN gz.tree
      /\ ~c.stdout /\ out \notin ToSet(c.files) =>
           /\ out \in DOMAIN gz.fs
           /\ gz.data[gz.fs[out]] = Convert(c, gz.tree[r]) \/ (P(1).pc = "copy" /\ v = r)
      /\ r \in DOMAIN gz.fs <=> (c.keep \/ c.stdout)
  BY DEF Converted, Exists, At, r
<1> DEFINE OutThen == /\ out \in DOMAIN gz'.fs
                      /\ \/ gz'.data[gz'.fs[out]] = Convert(c, gz.tree[r])
                         \/ q.pc = "copy" /\ q.i = P(1).i /\ v = r
<1>4. ASSUME r \in DOMAIN gz'.fs <=> r \in DOMAIN gz.fs,
             ~c.stdout /\ out \notin ToSet(c.files) => OutThen
      PROVE  ConvertedThen(q, r)
  BY <1>3, <1>4 DEF ConvertedThen
<1>5. CASE Goes(1, q) \/ Misses(1, q) \/ Shows(1, q)
  <2>1. Same(r) /\ Same(out)
    BY <1>5, GoesSame
  <2>2. ~c.stdout => P(1).pc # "copy"
    BY <1>5 DEF Shows
  <2> HIDE DEF out
  <2> QED BY <1>3, <1>4, <2>1, <2>2 DEF Same
<1>6. CASE Creates(1, q)
  <2>1. /\ \A s : s # o => Same(s)
        /\ o \in DOMAIN gz'.fs /\ ~c.stdout
    BY <1>6, CreatesSame
  <2>2. P(1).pc = "create" /\ q.pc = "copy" /\ q.i = P(1).i
    BY <1>6 DEF Creates
  <2>3. r # o /\ v \in ToSet(c.files) /\ o = OutPath(c, v) /\ c.tool # "gzip -d"
    BY <1>1, <2>1, <2>2, NoOutput, AtFile, ProcFacts DEF ProcOK
  <2>4. ASSUME out \notin ToSet(c.files) PROVE OutThen
    <3>1. CASE out # o
      <4>1. Same(out)
        BY <2>1, <3>1
      <4> HIDE DEF out
      <4> QED BY <1>3, <2>1, <2>2, <2>4, <4>1 DEF Same
    <3>2. CASE out = o
      <4>1. ~Careful(c)
        <5>1. Unforced(c) => ~Exists(o)
          BY <1>1, <2>1, <2>2 DEF Steady
        <5> QED BY <1>3, <2>1, <2>3, <2>4, <3>2, <5>1 DEF Careful, Exists
      <4>2. r = v
        BY <1>1, <1>2, <2>3, <3>2, <4>1, Injective
      <4> QED BY <2>1, <2>2, <3>2, <4>2
    <3> QED BY <3>1, <3>2
  <2>5. Same(r)
    BY <2>1, <2>3
  <2> QED BY <1>4, <2>4, <2>5 DEF Same
<1>7. CASE Fills(1, q)
  <2>1. /\ \A s : s # o => Same(s)
        /\ Exists(o) /\ gz.fs[o] = P(1).out /\ At(o) = Partial /\ gz'.fs = gz.fs
        /\ gz'.data[P(1).out] = Convert(c, At(v)) /\ Exists(v) /\ ~c.stdout
    BY <1>7, FillsSame
  <2>2. r # o /\ o = OutPath(c, v)
    BY <1>1, <1>7, <2>1, NoOutput, AtFile DEF Fills
  <2>3. ASSUME out \notin ToSet(c.files) PROVE OutThen
    <3>1. CASE out # o
      <4>1. Same(out) /\ v # r
        BY <2>1, <2>2, <3>1
      <4> HIDE DEF out
      <4> QED BY <1>3, <2>1, <2>3, <4>1 DEF Same
    <3>2. CASE out = o
      <4>1. gz.data[gz.fs[out]] # Convert(c, gz.tree[r])
        BY <2>1, <3>2, ConvertWhole DEF At
      <4>2. v = r
        BY <1>3, <2>1, <2>3, <4>1
      <4>3. At(v) = gz.tree[r]
        BY <2>1, <4>2 DEF Untouched
      <4> QED BY <2>1, <3>2, <4>3 DEF Exists
    <3> QED BY <3>1, <3>2
  <2> QED BY <1>4, <2>1, <2>3
<1>8. CASE Deletes(1, q)
  <2>1. /\ \A s : s # v => Same(s)
        /\ v \notin DOMAIN gz'.fs /\ ~c.stdout /\ ~c.keep /\ P(1).pc = "remove"
    BY <1>8, DeletesSame DEF Deletes
  <2>2. v \in ToSet(c.files)
    BY <1>1, <2>1, AtFile
  <2>3. r \in DOMAIN gz'.fs <=> r \in DOMAIN gz.fs
    BY <1>3, <2>1 DEF Same
  <2>4. ASSUME out \notin ToSet(c.files) PROVE OutThen
    <3>1. Same(out)
      BY <2>1, <2>2, <2>4
    <3> HIDE DEF out
    <3> QED BY <1>3, <2>1, <2>4, <3>1 DEF Same
  <2> QED BY <1>4, <2>3, <2>4
<1> QED BY <1>1, <1>5, <1>6, <1>7, <1>8 DEF Moves

\* The file that the step has finished.
LEMMA ConvertedNow ==
    ASSUME NEW q, OneStep(q), Untouched,
           Shows(1, q) \/ Deletes(1, q) \/ (Fills(1, q) /\ P(1).call.keep)
    PROVE  ConvertedThen(q, ThePath)
<1> DEFINE c == P(1).call
           o == TheOut
           v == ThePath
<1>1. Types /\ Steady /\ 1 \in DOMAIN gz.procs /\ P(1).pc \in {"copy", "remove"}
  BY DEF OneStep, Shows, Deletes, Fills
<1>2. Exists(v) /\ o = OutPath(c, v) /\ o # v
  BY <1>1, AtFile DEF Steady
<1> SUFFICES ASSUME v \in Inputs PROVE ConvertedThen(q, v)
  BY DEF ConvertedThen
<1>3. v \in DOMAIN gz.tree /\ At(v) = gz.tree[v]
  BY <1>2 DEF Untouched
<1> HIDE DEF o, v
<1>4. ASSUME v \in DOMAIN gz'.fs <=> (c.keep \/ c.stdout),
             ~c.stdout => o \in DOMAIN gz'.fs /\ gz'.data[gz'.fs[o]] = Convert(c, gz.tree[v])
      PROVE  ConvertedThen(q, v)
  BY <1>2, <1>3, <1>4 DEF ConvertedThen
<1>5. CASE Shows(1, q)
  <2>1. c.stdout /\ gz'.fs = gz.fs
    BY <1>5 DEF Shows, Still
  <2> QED BY <1>2, <1>4, <2>1 DEF Exists
<1>6. CASE Deletes(1, q)
  <2>1. /\ \A s : s # v => Same(s)
        /\ v \notin DOMAIN gz'.fs /\ ~c.stdout /\ ~c.keep
        /\ Exists(o) /\ At(o) = Convert(c, At(v))
    BY <1>6, DeletesSame DEF o, v
  <2>2. Same(o)
    BY <1>2, <2>1
  <2> QED BY <1>3, <1>4, <2>1, <2>2 DEF Same, Exists, At
<1>7. CASE Fills(1, q) /\ c.keep
  <2>1. /\ Exists(o) /\ gz.fs[o] = P(1).out /\ gz'.fs = gz.fs
        /\ gz'.data[P(1).out] = Convert(c, At(v))
    BY <1>7, FillsSame DEF o, v
  <2> QED BY <1>2, <1>3, <1>4, <1>7, <2>1 DEF Exists
<1> QED BY <1>5, <1>6, <1>7

LEMMA ToldStep ==
    ASSUME NEW q, OneStep(q), Untouched, Told
    PROVE  Told'
<1> DEFINE p == P(1)
<1>1. /\ Types /\ Steady /\ 1 \in DOMAIN gz.procs /\ Moves(1, q) /\ P(1)' = q /\ q.call = p.call
      /\ p \in Procs /\ ProcOK(p, Len(gz.data)) /\ p.call.files \in Seq(Paths) /\ Len(p.call.files) \in Nat
  BY ProcFacts DEF OneStep
<1>2. p.i \in Nat /\ p.i <= Len(p.call.files) + 1 /\ DOMAIN p.call.files = 1..Len(p.call.files)
  <2>1. p.i \in Nat
    BY <1>1 DEF Procs
  <2>2. p.i <= Len(p.call.files) + 1
    BY <1>1 DEF ProcOK
  <2> DEFINE files == p.call.files
  <2> HIDE DEF files
  <2>3. DOMAIN files = 1..Len(files)
    BY <1>1 DEF files
  <2> QED BY <2>1, <2>2, <2>3 DEF files
<1>3. Clash(P(1).call)' = Clash(P(1).call)
  BY InputsStay
<1>4. SUFFICES ASSUME ~Clash(p.call), q.pc # "killed", q.rc = 0, NEW j \in 1..q.i - 1
               PROVE  ConvertedThen(q, p.call.files[j])
  <2>1. ASSUME ~Clash(p.call), q.pc # "killed", q.rc = 0, NEW j \in 1..q.i - 1
        PROVE  Converted(j)'
    BY <1>4, <2>1, ConvertedAfter
  <2> QED BY <1>1, <1>3, <2>1 DEF Told
<1>5. ~Misses(1, q)
  BY <1>4 DEF Misses
<1>6. p.pc # "killed" /\ p.rc = 0 /\ (Goes(1, q) => p.pc # "copy")
  BY <1>1, <1>4, <1>5, DeletesSame DEF Moves, Goes, Shows, Creates, Fills, Deletes
<1>7. CASE j \in 1..p.i - 1
  <2>1. Converted(j)
    BY <1>4, <1>6, <1>7 DEF Told
  <2>2. j \in DOMAIN p.call.files
    BY <1>2, <1>7
  <2> QED BY <1>4, <1>5, <1>6, <2>1, <2>2, ConvertedKept
<1>8. CASE j \notin 1..p.i - 1
  <2>1. q.i = p.i + 1 /\ (Shows(1, q) \/ Deletes(1, q) \/ (Fills(1, q) /\ p.call.keep))
    BY <1>1, <1>4, <1>5, <1>8 DEF Moves, Goes, Shows, Creates, Fills, Deletes
  <2>2. j = p.i
    BY <1>2, <1>4, <1>8, <2>1
  <2>3. ThePath = p.call.files[j]
    BY <2>2 DEF ThePath, Path
  <2> QED BY <2>1, <2>3, ConvertedNow
<1> QED BY <1>7, <1>8

LEMMA OneStays ==
    ASSUME Types, OneInv, [GzNext]_gz
    PROVE  OneInv'
<1>1. CASE UNCHANGED gz
  <2>1. ThePath' = ThePath /\ TheOut' = TheOut /\ P(1)' = P(1) /\ gz' = gz
    BY <1>1 DEF ThePath, TheOut, OutOf, Path, P
  <2>2. Inputs' = Inputs
    BY <2>1 DEF Inputs, Outputs
  <2>3. Steady' /\ Untouched'
    BY <2>1, <2>2 DEF OneInv, Steady, Untouched, Exists, At
  <2>4. ASSUME NEW x, Safe(x) PROVE Safe(x)'
    BY <2>1, <2>4 DEF Safe, Final, At
  <2>5. Trail'
    BY <2>1, <2>2, <2>4 DEF OneInv, Trail
  <2>6. ASSUME NEW j, Converted(j) PROVE Converted(j)'
    BY <2>1, <2>2, <2>6 DEF Converted, Exists, At
  <2>7. Told'
    BY <2>1, <2>6 DEF OneInv, Told
  <2> QED BY <2>1, <2>3, <2>5, <2>7 DEF OneInv
<1>2. CASE GzNext
  <2>1. PICK q : OneStep(q)
    BY <1>2, OneMove DEF OneInv
  <2>2. Len(gz'.procs) = 1
    <3>1. q \in Procs /\ Changes(1, q) /\ 1 \in DOMAIN gz.procs
      BY <2>1 DEF OneStep
    <3> QED BY <3>1, ProcsAfter DEF OneInv
  <2> QED BY <2>1, <2>2, SteadyStep, TrailStep, UntouchedStep, ToldStep DEF OneInv
<1> QED BY <1>1, <1>2

-----------------------------------------------------------------------------
(* One process, from the start to the end.                                   *)

LEMMA OneStarts ==
    ASSUME NEW calls, \A c \in calls : IsCall(c), GzInit(calls), Len(gz.procs) = 1
    PROVE  OneInv
<1>1. /\ Types
      /\ \E c \in calls : /\ Len(gz.procs) = Len(c.procs)
                          /\ \A k \in DOMAIN gz.procs : P(k) = Proc(c.procs[k])
      /\ DOMAIN gz.fs = DOMAIN gz.tree
      /\ \A p \in DOMAIN gz.tree : Exists(p) /\ At(p) = gz.tree[p]
  BY InitFacts
<1>2. Len(gz.procs) = 1
  BY <1>1
<1>3. 1 \in DOMAIN gz.procs
  BY <1>1, <1>2 DEF Types
<1>4. P(1).pc = "next" /\ P(1).i = 1
  BY <1>1, <1>3 DEF Proc
<1>5. Steady /\ Told
  BY <1>4 DEF Steady, Told
<1>6. Untouched
  BY <1>1 DEF Untouched, Exists
<1>7. ASSUME NEW r \in Inputs \intersect DOMAIN gz.tree, Whole(gz.tree[r])
      PROVE  Safe(gz.tree[r].payload)
  <2>1. r \in DOMAIN gz.fs /\ At(r) = gz.tree[r]
    BY <1>1
  <2>2. Careful(P(1).call) \/ Final(r, {})
    BY DEF Careful, Final, Inputs, Outputs
  <2> QED BY <1>7, <2>1, <2>2 DEF Safe
<1> QED BY <1>2, <1>5, <1>6, <1>7 DEF OneInv, Trail

LEMMA OneRight ==
    ASSUME Types, OneInv
    PROVE  InputOrOutput /\ StatusTrue
<1> DEFINE p == P(1)
           c == p.call
<1>1. DOMAIN gz.procs = {1}
  <2>1. gz.procs \in Seq(Procs) /\ Len(gz.procs) = 1
    BY DEF Types, OneInv
  <2>2. DOMAIN gz.procs = 1..1
    BY <2>1
  <2> QED BY <2>2
<1>2. \A r \in ToSet(c.files) : ~IsOutput(r) => r \in Inputs
  BY <1>1 DEF IsOutput, Inputs
<1>3. NoClash => ~Clash(c)
  BY <1>1 DEF NoClash
<1>4. InputOrOutput
  <2>1. ASSUME NoClash, NEW r \in ToSet(c.files) \intersect DOMAIN gz.tree,
               Whole(gz.tree[r]), ~IsOutput(r)
        PROVE  Held(gz.tree[r].payload)
    <3>1. Safe(gz.tree[r].payload)
      BY <1>2, <1>3, <2>1 DEF OneInv, Trail
    <3> QED BY <3>1 DEF Safe, Held
  <2> QED BY <1>1, <2>1 DEF InputOrOutput, OneInv, Alone
<1>5. ASSUME NoClash, Over, p.pc # "killed", p.rc = 0, NEW r \in ToSet(c.files), ~IsOutput(r)
      PROVE  LET out == OutPath(c, r) IN
             /\ r \in DOMAIN gz.tree
             /\ (~c.stdout /\ out \notin ToSet(c.files)) => (Exists(out) /\ At(out) = Convert(c, gz.tree[r]))
             /\ Exists(r) <=> (c.keep \/ c.stdout)
  <2>1. p \in Procs /\ ProcOK(p, Len(gz.data)) /\ c.files \in Seq(Paths) /\ Len(c.files) \in Nat
    BY <1>1, ProcFacts
  <2>2. p.i > Len(c.files)
    BY <1>1, <1>5 DEF Over
  <2>3. p.i \in Nat /\ p.i <= Len(c.files) + 1 /\ (p.pc # "next" => p.i <= Len(c.files))
    <3>1. p.i \in Nat
      BY <2>1 DEF Procs
    <3> QED BY <2>1, <3>1 DEF ProcOK
  <2>4. p.pc = "next" /\ p.i = Len(c.files) + 1
    BY <2>1, <2>2, <2>3
  <2> DEFINE files == c.files
  <2> HIDE DEF files
  <2>5. PICK j \in 1..Len(files) : r = files[j]
    <3>1. files \in Seq(Paths) /\ r \in ToSet(files)
      BY <1>5, <2>1 DEF files
    <3>2. DOMAIN files = 1..Len(files)
      BY <3>1
    <3> QED BY <3>1, <3>2 DEF ToSet
  <2>6. j \in 1..p.i - 1
    BY <2>1, <2>4 DEF files
  <2>7. Converted(j)
    BY <1>3, <1>5, <2>6 DEF OneInv, Told
  <2>8. r \in Inputs
    BY <1>2, <1>5
  <2> QED BY <2>4, <2>5, <2>7, <2>8 DEF Converted, files
<1>6. StatusTrue
  BY <1>5 DEF StatusTrue
<1> QED BY <1>4, <1>6

-----------------------------------------------------------------------------
(* Any number of processes, as long as nothing has failed.                   *)

Result(j, path) == OutPath(P(j).call, path)
\* What it holds is not to be lost: an input that nobody makes.
Input(path) ==
    /\ path \in DOMAIN gz.tree /\ Whole(gz.tree[path]) /\ Undisturbed(path) /\ ~IsOutput(path)
On(j, path) == P(j).pc \in {"header", "create", "copy", "remove"} /\ Path(j) = path

\* Inode n is that of path or of no name, and nobody writes to it.
ReadOnly(n, path) ==
    /\ n \in 1..Len(gz.data) /\ gz.data[n] = gz.tree[path]
    /\ \A p \in DOMAIN gz.fs : gz.fs[p] = n => p = path
    /\ \A k \in DOMAIN gz.procs : P(k).out # n
\* The input stays what it was, also for those that have it open.
InputKept(path) ==
    /\ Exists(path) => ReadOnly(gz.fs[path], path)
    /\ \A k \in DOMAIN gz.procs : On(k, path) =>
         ReadOnly(P(k).in, path) /\ (P(k).pc # "header" => Copies(P(k).call, gz.tree[path]))
\* What is open for writing has no name but that of the output.
OutNamed ==
    \A k \in DOMAIN gz.procs : P(k).pc \in {"copy", "remove"} /\ P(k).out # 0 =>
        \A p \in DOMAIN gz.fs : gz.fs[p] = P(k).out => p = OutOf(P(k))
Copying(k, path) == On(k, path) /\ P(k).pc = "copy" /\ ~P(k).call.stdout
\* A result is whole, or somebody is about to make it so.
Ready(out, path) == Whole(At(out)) /\ At(out).payload = gz.tree[path].payload
Coming(out, path) ==
    /\ Exists(out)
    /\ Ready(out, path) \/ \E k \in DOMAIN gz.procs : Copying(k, path) /\ OutOf(P(k)) = out
ResultComes(path) ==
    \A k \in DOMAIN gz.procs : On(k, path) /\ P(k).out # 0 =>
        /\ Exists(OutOf(P(k))) /\ gz.fs[OutOf(P(k))] = P(k).out
        /\ P(k).pc = "remove" => Coming(OutOf(P(k)), path)
SomeResult(path) ==
    \/ Exists(path)
    \/ \E k \in DOMAIN gz.procs : path \in ToSet(P(k).call.files) /\ Coming(Result(k, path), path)
ManyInv ==
    /\ gz.faults \in Nat
    /\ gz.faults = 0 => /\ OutNamed
                        /\ \A path \in DOMAIN gz.tree : Input(path) =>
                             InputKept(path) /\ ResultComes(path) /\ SomeResult(path)

\* A step of process k, which becomes q, when nothing has failed or fails.
Clean(k, q) ==
    /\ k \in DOMAIN gz.procs /\ q \in Procs /\ Changes(k, q) /\ q.call = P(k).call
    /\ ProcOK(q, Len(gz'.data)) /\ Disk(gz'.fs, gz'.data) /\ Moves(k, q)
    /\ gz.faults = 0 /\ gz'.faults = 0

LEMMA CleanFacts ==
    ASSUME Types, NEW k, NEW q, Clean(k, q)
    PROVE  /\ DOMAIN gz'.procs = DOMAIN gz.procs /\ P(k)' = q /\ gz'.tree = gz.tree
           /\ \A j \in DOMAIN gz.procs : j # k => P(j)' = P(j)
           /\ \A j \in DOMAIN gz.procs : P(j)'.call = P(j).call
           /\ P(k) \in Procs /\ ProcOK(P(k), Len(gz.data)) /\ q.pc # "killed"
           /\ Len(gz.data) \in Nat /\ Len(gz'.data) \in Nat /\ Len(gz'.data) >= Len(gz.data)
<1>1. k \in DOMAIN gz.procs /\ q \in Procs /\ Changes(k, q) /\ q.call = P(k).call
      /\ Moves(k, q) /\ Disk(gz'.fs, gz'.data) /\ gz.faults = 0 /\ gz'.faults = 0
  BY DEF Clean
<1>2. /\ DOMAIN gz'.procs = DOMAIN gz.procs /\ P(k)' = q
      /\ \A j \in DOMAIN gz.procs : j # k => P(j)' = P(j)
  BY <1>1, ProcsAfter
<1>3. P(k) \in Procs /\ ProcOK(P(k), Len(gz.data)) /\ Len(gz.data) \in Nat
  BY <1>1, ProcFacts
<1>4. gz'.faults # gz.faults + 1
  BY <1>1
<1>5. q.pc # "killed"
  BY <1>1, <1>4 DEF Moves, Goes, Misses, Shows, Creates, Fills, Deletes
<1>6. Len(gz'.data) >= Len(gz.data) /\ Len(gz'.data) \in Nat
  BY <1>1, Longer DEF Disk
<1>7. ASSUME NEW j \in DOMAIN gz.procs PROVE P(j)'.call = P(j).call
  BY <1>1, <1>2
<1> QED BY <1>1, <1>2, <1>3, <1>5, <1>6, <1>7 DEF Changes

\* What the moves leave open for writing.
LEMMA CleanOut ==
    ASSUME Types, NEW k, NEW q, Clean(k, q)
    PROVE  \/ Creates(k, q)
           \/ q.out = 0
           \/ Fills(k, q) /\ q.pc = "remove" /\ q.out = P(k).out /\ q.i = P(k).i
<1>1. ProcOK(q, Len(gz'.data)) /\ Moves(k, q) /\ q.pc # "killed"
  BY CleanFacts DEF Clean
<1>2. CASE Goes(k, q)
  <2>1. q.pc \in {"look", "open", "header", "create"} \/ (q.pc = "copy" /\ P(k).call.stdout)
    BY <1>1, <1>2 DEF Goes
  <2>2. q.call = P(k).call
    BY DEF Clean
  <2> QED BY <1>1, <2>1, <2>2 DEF ProcOK
<1>3. CASE Misses(k, q) \/ Shows(k, q) \/ Deletes(k, q)
  <2>1. q.pc = "next"
    BY <1>3 DEF Misses, Shows, Deletes
  <2> QED BY <1>1, <2>1 DEF ProcOK
<1>4. CASE Fills(k, q)
  <2>1. q.pc = "next" \/ (q.pc = "remove" /\ q.out = P(k).out /\ q.i = P(k).i)
    BY <1>4 DEF Fills
  <2> QED BY <1>1, <1>4, <2>1 DEF ProcOK
<1> QED BY <1>1, <1>2, <1>3, <1>4 DEF Moves

\* Where an output is created.
LEMMA CreatesFacts ==
    ASSUME Types, NEW k, NEW q, Clean(k, q), Creates(k, q)
    PROVE  LET o == OutOf(P(k)) IN
           /\ q.pc = "copy" /\ P(k).pc = "create" /\ q.i = P(k).i /\ OutOf(q) = o
           /\ ~P(k).call.stdout /\ P(k).call.tool # "gzip -d"
           /\ o \in DOMAIN gz'.fs /\ gz'.fs[o] = q.out
           /\ DOMAIN gz'.fs = DOMAIN gz.fs \union {o}
           /\ \A p \in DOMAIN gz.fs : gz'.fs[p] = gz.fs[p]
           /\ \A p \in DOMAIN gz.fs : p # o => gz.fs[p] # q.out
           /\ Exists(o) \/ q.out = Len(gz.data) + 1
           /\ \A m \in 1..Len(gz.data) : m # q.out => gz'.data[m] = gz.data[m]
<1> DEFINE o == OutOf(P(k))
<1>1. /\ P(k).pc = "create" /\ q.pc = "copy" /\ q.i = P(k).i
      /\ q.out = IF Exists(o) THEN gz.fs[o] ELSE Len(gz.data) + 1
      /\ gz'.fs = [r \in DOMAIN gz.fs \union {o} |-> IF r = o THEN q.out ELSE gz.fs[r]]
      /\ \A m \in 1..Len(gz.data) : m # q.out => gz'.data[m] = gz.data[m]
  BY DEF Creates
<1>2. ~P(k).call.stdout /\ P(k).call.tool # "gzip -d"
  BY <1>1, CleanFacts DEF ProcOK
<1>3. OutOf(q) = o
  BY <1>1 DEF Clean, OutOf
<1> HIDE DEF o
<1>4. Exists(o) <=> o \in DOMAIN gz.fs
  BY DEF Exists
<1>5. \A p \in DOMAIN gz.fs : gz'.fs[p] = gz.fs[p]
  BY <1>1, <1>4
<1>6. gz.fs \in [DOMAIN gz.fs -> 1..Len(gz.data)] /\ (\A p, r \in DOMAIN gz.fs : p # r => gz.fs[p] # gz.fs[r])
      /\ Len(gz.data) \in Nat
  BY CleanFacts DEF Types, Disk
<1>7. ASSUME NEW p \in DOMAIN gz.fs, p # o PROVE gz.fs[p] # q.out
  <2>1. CASE o \in DOMAIN gz.fs
    BY <1>1, <1>4, <1>6, <1>7, <2>1
  <2>2. CASE o \notin DOMAIN gz.fs
    <3>1. gz.fs[p] \in 1..Len(gz.data) /\ q.out = Len(gz.data) + 1
      BY <1>1, <1>4, <1>6, <2>2
    <3> QED BY <1>6, <3>1
  <2> QED BY <2>1, <2>2
<1>8. o \in DOMAIN gz'.fs /\ gz'.fs[o] = q.out /\ DOMAIN gz'.fs = DOMAIN gz.fs \union {o}
  BY <1>1
<1>9. Exists(o) \/ q.out = Len(gz.data) + 1
  BY <1>1
<1> QED BY <1>1, <1>2, <1>3, <1>5, <1>7, <1>8, <1>9 DEF o

LEMMA OutNamedStep ==
    ASSUME Types, OutNamed, NEW k, NEW q, Clean(k, q)
    PROVE  OutNamed'
<1>1. DOMAIN gz'.procs = DOMAIN gz.procs /\ P(k)' = q /\ k \in DOMAIN gz.procs
      /\ (\A j \in DOMAIN gz.procs : j # k => P(j)' = P(j)) /\ Len(gz.data) \in Nat
  BY CleanFacts DEF Clean
<1>2. SUFFICES ASSUME NEW j \in DOMAIN gz.procs, P(j)'.pc \in {"copy", "remove"}, P(j)'.out # 0,
                      NEW p \in DOMAIN gz'.fs, gz'.fs[p] = P(j)'.out
               PROVE  p = OutOf(P(j)')
  <2>1. \A j \in DOMAIN gz.procs : OutOf(P(j))' = OutOf(P(j)')
    BY DEF OutOf
  <2> QED BY <1>1, <1>2, <2>1 DEF OutNamed
<1>3. CASE Creates(k, q)
  <2> DEFINE o == OutOf(P(k))
  <2>1. /\ OutOf(q) = o /\ DOMAIN gz'.fs = DOMAIN gz.fs \union {o} /\ gz'.fs[o] = q.out
        /\ \A r \in DOMAIN gz.fs : gz'.fs[r] = gz.fs[r]
        /\ \A r \in DOMAIN gz.fs : r # o => gz.fs[r] # q.out
        /\ Exists(o) \/ q.out = Len(gz.data) + 1
    BY <1>3, CreatesFacts
  <2> HIDE DEF o
  <2>2. CASE j = k
    BY <1>1, <1>2, <2>1, <2>2
  <2>3. CASE j # k
    <3>1. P(j)' = P(j) /\ P(j) \in Procs /\ ProcOK(P(j), Len(gz.data))
      BY <1>1, <2>3, ProcFacts
    <3>2. P(j).out \in Nat /\ P(j).out <= Len(gz.data)
      BY <3>1 DEF Procs, ProcOK
    <3>3. p \in DOMAIN gz.fs
      <4>1. CASE p = o
        <5>1. q.out # Len(gz.data) + 1
          BY <1>1, <1>2, <2>1, <3>1, <3>2, <4>1
        <5> QED BY <2>1, <4>1, <5>1 DEF Exists
      <4> QED BY <2>1, <4>1
    <3>4. gz.fs[p] = P(j).out
      BY <1>2, <2>1, <3>1, <3>3
    <3> QED BY <1>2, <3>1, <3>3, <3>4 DEF OutNamed
  <2> QED BY <2>2, <2>3
<1>4. CASE ~Creates(k, q)
  <2>1. p \in DOMAIN gz.fs /\ gz.fs[p] = gz'.fs[p]
    BY <1>2, <1>4 DEF Clean, Moves, Goes, Misses, Shows, Fills, Deletes, Still
  <2>2. CASE j = k
    <3>1. Fills(k, q) /\ q.pc = "remove" /\ q.out = P(k).out /\ q.i = P(k).i
      BY <1>1, <1>2, <1>4, <2>2, CleanOut
    <3>2. P(k).pc = "copy"
      BY <3>1 DEF Fills
    <3>3. OutOf(q) = OutOf(P(k))
      BY <3>1 DEF Clean, OutOf
    <3> QED BY <1>1, <1>2, <2>1, <2>2, <3>1, <3>2, <3>3 DEF OutNamed
  <2>3. CASE j # k
    BY <1>1, <1>2, <2>1, <2>3 DEF OutNamed
  <2> QED BY <2>2, <2>3
<1> QED BY <1>3, <1>4

\* A process makes nothing of what is an input and no output.
LEMMA MakesOther ==
    ASSUME Types, NEW path, ~IsOutput(path), NEW k, NEW q, Clean(k, q), Creates(k, q)
    PROVE  OutOf(P(k)) # path
<1>1. k \in DOMAIN gz.procs /\ P(k).pc = "create" /\ ~P(k).call.stdout /\ P(k).call.tool # "gzip -d"
  BY CreatesFacts DEF Clean
<1>2. P(k).i <= Len(P(k).call.files)
  BY <1>1, CleanFacts DEF ProcOK
<1>3. Path(k) \in ToSet(P(k).call.files)
  BY <1>1, <1>2, PathGiven
<1>4. OutOf(P(k)) = OutPath(P(k).call, Path(k))
  BY DEF OutOf, Path
<1>5. OutOf(P(k)) \in Outputs(P(k).call)
  BY <1>1, <1>3, <1>4 DEF Outputs
<1> QED BY <1>1, <1>5 DEF IsOutput

\* The same inode after the step.
StillReadOnly(n, path) ==
    /\ n \in 1..Len(gz'.data) /\ gz'.data[n] = gz.tree[path]
    /\ \A p \in DOMAIN gz'.fs : gz'.fs[p] = n => p = path
    /\ \A j \in DOMAIN gz.procs : P(j)'.out # n

LEMMA ReadOnlyStep ==
    ASSUME Types, NEW path, ~IsOutput(path), NEW n, ReadOnly(n, path), NEW k, NEW q, Clean(k, q)
    PROVE  StillReadOnly(n, path)
<1>1. DOMAIN gz'.procs = DOMAIN gz.procs /\ P(k)' = q /\ k \in DOMAIN gz.procs /\ gz'.tree = gz.tree
      /\ (\A j \in DOMAIN gz.procs : j # k => P(j)' = P(j)) /\ Moves(k, q)
      /\ Len(gz.data) \in Nat /\ Len(gz'.data) \in Nat /\ Len(gz'.data) >= Len(gz.data)
  BY CleanFacts DEF Clean
<1>2. /\ n \in 1..Len(gz.data) /\ gz.data[n] = gz.tree[path]
      /\ \A p \in DOMAIN gz.fs : gz.fs[p] = n => p = path
      /\ \A j \in DOMAIN gz.procs : P(j).out # n
  BY DEF ReadOnly
<1>3. n \in 1..Len(gz'.data) /\ n # 0
  BY <1>1, <1>2
<1>4. CASE Creates(k, q)
  <2> DEFINE o == OutOf(P(k))
  <2>1. /\ DOMAIN gz'.fs = DOMAIN gz.fs \union {o} /\ gz'.fs[o] = q.out
        /\ \A r \in DOMAIN gz.fs : gz'.fs[r] = gz.fs[r]
        /\ \A r \in DOMAIN gz.fs : r # o => gz.fs[r] # q.out
        /\ Exists(o) \/ q.out = Len(gz.data) + 1
        /\ \A m \in 1..Len(gz.data) : m # q.out => gz'.data[m] = gz.data[m]
    BY <1>4, CreatesFacts
  <2>2. o # path
    BY <1>4, MakesOther
  <2> HIDE DEF o
  <2>3. q.out # n
    <3>1. CASE Exists(o)
      <4>1. o \in DOMAIN gz.fs /\ gz.fs[o] = q.out
        BY <2>1, <3>1 DEF Exists
      <4> QED BY <1>2, <2>2, <4>1
    <3>2. CASE q.out = Len(gz.data) + 1
      BY <1>1, <1>2, <3>2
    <3> QED BY <2>1, <3>1, <3>2
  <2>4. gz'.data[n] = gz.data[n]
    BY <1>2, <2>1, <2>3
  <2>5. \A p \in DOMAIN gz'.fs : gz'.fs[p] = n => p = path
    BY <1>2, <2>1, <2>3
  <2>6. \A j \in DOMAIN gz.procs : P(j)'.out # n
    BY <1>1, <1>2, <2>3
  <2> QED BY <1>1, <1>2, <1>3, <2>4, <2>5, <2>6 DEF StillReadOnly
<1>5. CASE ~Creates(k, q)
  <2>1. q.out # n
    BY <1>1, <1>2, <1>3, <1>5, CleanOut
  <2>2. \A j \in DOMAIN gz.procs : P(j)'.out # n
    BY <1>1, <1>2, <2>1
  <2>3. gz'.data[n] = gz.data[n]
    <3>1. CASE Fills(k, q)
      <4>1. gz'.data = [gz.data EXCEPT ![P(k).out] = Convert(P(k).call, gz.data[P(k).in])] /\ P(k).out # n
        BY <1>1, <1>2, <3>1 DEF Fills
      <4>2. gz.data \in Seq(Contents)
        BY DEF Types, Disk
      <4> QED BY <1>2, <4>1, <4>2
    <3>2. CASE gz'.data = gz.data
      BY <3>2
    <3> QED BY <1>1, <1>5, <3>1, <3>2 DEF Moves, Goes, Misses, Shows, Deletes, Still
  <2>4. ASSUME NEW p \in DOMAIN gz'.fs, gz'.fs[p] = n PROVE p = path
    <3>1. p \in DOMAIN gz.fs /\ gz.fs[p] = gz'.fs[p]
      BY <1>1, <1>5, <2>4 DEF Moves, Goes, Misses, Shows, Fills, Deletes, Still
    <3> QED BY <1>2, <2>4, <3>1
  <2> QED BY <1>1, <1>2, <1>3, <2>2, <2>3, <2>4 DEF StillReadOnly
<1> QED BY <1>4, <1>5

LEMMA InputStays ==
    ASSUME Types, NEW k, NEW q, Clean(k, q)
    PROVE  \A path : Input(path)' <=> Input(path)
<1>1. DOMAIN gz'.procs = DOMAIN gz.procs /\ gz'.tree = gz.tree
      /\ \A j \in DOMAIN gz.procs : P(j)'.call = P(j).call
  BY CleanFacts
<1>2. \A path : IsOutput(path)' <=> IsOutput(path)
  BY <1>1 DEF IsOutput
<1>3. ASSUME NEW path PROVE Undisturbed(path)' <=> Undisturbed(path)
  <2>1. ASSUME Undisturbed(path), NEW i \in DOMAIN gz.procs, NEW j \in DOMAIN gz.procs,
               path \in ToSet(P(i)'.call.files)
        PROVE  \A h \in ToSet(P(j)'.call.files) :
                 h # OutPath(P(i)'.call, path) /\ (OutPath(P(j)'.call, h) = OutPath(P(i)'.call, path) => h = path)
    <3>1. P(i)'.call = P(i).call /\ P(j)'.call = P(j).call
      BY <1>1
    <3> QED BY <2>1, <3>1 DEF Undisturbed
  <2>2. ASSUME Undisturbed(path)', NEW i \in DOMAIN gz.procs, NEW j \in DOMAIN gz.procs,
               path \in ToSet(P(i).call.files)
        PROVE  \A h \in ToSet(P(j).call.files) :
                 h # OutPath(P(i).call, path) /\ (OutPath(P(j).call, h) = OutPath(P(i).call, path) => h = path)
    <3>1. P(i)'.call = P(i).call /\ P(j)'.call = P(j).call
      BY <1>1
    <3>2. i \in DOMAIN gz'.procs /\ j \in DOMAIN gz'.procs
      BY <1>1
    <3> QED BY <2>2, <3>1, <3>2 DEF Undisturbed
  <2>3. Undisturbed(path) => Undisturbed(path)'
    BY <1>1, <2>1 DEF Undisturbed
  <2>4. Undisturbed(path)' => Undisturbed(path)
    BY <2>2 DEF Undisturbed
  <2> QED BY <2>3, <2>4
<1> QED BY <1>1, <1>2, <1>3 DEF Input

\* Where a process stays at its file.
LEMMA SameFile ==
    ASSUME Types, NEW k, NEW q, Clean(k, q), q.pc # "next", P(k).pc # "next"
    PROVE  q.i = P(k).i /\ Path(k)' = Path(k)
<1>1. q.i = P(k).i
  BY DEF Clean, Moves, Goes, Misses, Shows, Creates, Fills, Deletes
<1>2. P(k)' = q /\ q.call = P(k).call
  BY CleanFacts DEF Clean
<1> QED BY <1>1, <1>2 DEF Path

LEMMA InputKeptStep ==
    ASSUME Types, NEW path, Input(path), InputKept(path), NEW k, NEW q, Clean(k, q)
    PROVE  InputKept(path)'
<1>1. DOMAIN gz'.procs = DOMAIN gz.procs /\ P(k)' = q /\ k \in DOMAIN gz.procs /\ gz'.tree = gz.tree
      /\ (\A j \in DOMAIN gz.procs : j # k => P(j)' = P(j)) /\ Moves(k, q) /\ q.call = P(k).call
      /\ q.pc # "killed"
  BY CleanFacts DEF Clean
<1>2. ~IsOutput(path) /\ Whole(gz.tree[path])
  BY DEF Input
<1>3. \A n : ReadOnly(n, path) => StillReadOnly(n, path)
  BY <1>2, ReadOnlyStep
<1>4. ASSUME path \in DOMAIN gz'.fs PROVE path \in DOMAIN gz.fs /\ gz'.fs[path] = gz.fs[path]
  <2>1. CASE Creates(k, q)
    <3>1. LET o == OutOf(P(k)) IN
          DOMAIN gz'.fs = DOMAIN gz.fs \union {o} /\ \A p \in DOMAIN gz.fs : gz'.fs[p] = gz.fs[p]
      BY <2>1, CreatesFacts
    <3>2. OutOf(P(k)) # path
      BY <1>2, <2>1, MakesOther
    <3> QED BY <1>4, <3>1, <3>2
  <2>2. CASE ~Creates(k, q)
    BY <1>1, <1>4, <2>2 DEF Moves, Goes, Misses, Shows, Fills, Deletes, Still
  <2> QED BY <2>1, <2>2
<1>5. ASSUME path \in DOMAIN gz'.fs PROVE StillReadOnly(gz'.fs[path], path)
  <2>1. ReadOnly(gz.fs[path], path)
    BY <1>4, <1>5 DEF InputKept, Exists
  <2> QED BY <1>3, <1>4, <1>5, <2>1
<1>6. ASSUME NEW j \in DOMAIN gz.procs, On(j, path)'
      PROVE  /\ StillReadOnly(P(j)'.in, path)
             /\ P(j)'.pc # "header" => Copies(P(j)'.call, gz.tree[path])
  <2>1. CASE j # k
    <3>1. P(j)' = P(j)
      BY <1>1, <2>1
    <3>2. On(j, path)
      BY <1>6, <3>1 DEF On, Path
    <3>3. ReadOnly(P(j).in, path) /\ (P(j).pc # "header" => Copies(P(j).call, gz.tree[path]))
      BY <3>2 DEF InputKept
    <3> QED BY <1>3, <3>1, <3>3
  <2>2. CASE j = k
    <3>1. q.pc \in {"header", "create", "copy", "remove"} /\ Path(k)' = path
      BY <1>1, <1>6, <2>2 DEF On
    <3>2. CASE q.pc = "header"
      <4>1. Goes(k, q)
        BY <1>1, <3>2 DEF Moves, Goes, Misses, Shows, Creates, Fills, Deletes
      <4>2. q.i = P(k).i /\ Exists(Path(k)) /\ q.in = gz.fs[Path(k)]
        BY <3>2, <4>1 DEF Goes
      <4>3. Path(k) = path
        BY <1>1, <3>1, <4>2 DEF Path
      <4>4. ReadOnly(q.in, path)
        BY <4>2, <4>3 DEF InputKept
      <4> QED BY <1>1, <1>3, <2>2, <3>2, <4>4
    <3>3. CASE q.pc # "header"
      <4>1. /\ P(k).pc \in {"header", "create", "copy"} /\ q.in = P(k).in /\ q.i = P(k).i
            /\ P(k).pc = "header" => Gzipping(P(k).call) \/ HeaderRead(gz.data[P(k).in])
        BY <1>1, <3>1, <3>3 DEF Moves, Goes, Misses, Shows, Creates, Fills, Deletes
      <4>2. Path(k) = path
        BY <1>1, <3>1, <4>1 DEF Path
      <4>3. On(k, path)
        BY <4>1, <4>2 DEF On
      <4>4. ReadOnly(P(k).in, path) /\ (P(k).pc # "header" => Copies(P(k).call, gz.tree[path]))
        BY <1>1, <4>3 DEF InputKept
      <4>5. Copies(P(k).call, gz.tree[path])
        <5>1. CASE P(k).pc = "header"
          <6>1. gz.data[P(k).in] = gz.tree[path]
            BY <4>4 DEF ReadOnly
          <6> QED BY <1>2, <4>1, <5>1, <6>1 DEF Whole, HeaderRead, Copies
        <5>2. CASE P(k).pc # "header"
          BY <4>4, <5>2
        <5> QED BY <5>1, <5>2
      <4> QED BY <1>1, <1>3, <2>2, <4>1, <4>4, <4>5
    <3> QED BY <3>2, <3>3
  <2> QED BY <2>1, <2>2
<1>7. Exists(path)' => ReadOnly(gz.fs[path], path)'
  BY <1>1, <1>5 DEF StillReadOnly, ReadOnly, Exists
<1>8. ASSUME NEW j \in DOMAIN gz.procs, On(j, path)'
      PROVE  /\ ReadOnly(P(j).in, path)'
             /\ (P(j).pc # "header" => Copies(P(j).call, gz.tree[path]))'
  BY <1>1, <1>6, <1>8 DEF StillReadOnly, ReadOnly, Copies, Gzipping
<1> QED BY <1>1, <1>7, <1>8 DEF InputKept

\* A result, and who makes it.
Makes(p, out, path) == p.pc = "copy" /\ ~p.call.stdout /\ p.call.files[p.i] = path /\ OutOf(p) = out
\* A result comes after the step as well.
StillReady(out, path) ==
    Whole(gz'.data[gz'.fs[out]]) /\ gz'.data[gz'.fs[out]].payload = gz.tree[path].payload
StillComing(out, path) ==
    /\ out \in DOMAIN gz'.fs
    /\ StillReady(out, path) \/ \E j \in DOMAIN gz.procs : Makes(P(j)', out, path)

\* Where a process has a file open, it was given it.
LEMMA OnGiven ==
    ASSUME Types, NEW path, NEW j \in DOMAIN gz.procs, On(j, path)
    PROVE  path \in ToSet(P(j).call.files) /\ OutOf(P(j)) = Result(j, path)
<1>1. P(j).pc # "next" /\ Path(j) = path
  BY DEF On
<1>2. ProcOK(P(j), Len(gz.data))
  BY ProcFacts
<1>3. P(j).i <= Len(P(j).call.files)
  BY <1>1, <1>2 DEF ProcOK
<1> QED BY <1>1, <1>3, PathGiven DEF OutOf, Result, Path

\* Nobody else makes the result of an input, and nobody removes it.
LEMMA MakesOwn ==
    ASSUME Types, NEW path, Undisturbed(path), NEW j \in DOMAIN gz.procs, path \in ToSet(P(j).call.files),
           NEW k \in DOMAIN gz.procs, P(k).pc \in {"create", "copy", "remove"}
    PROVE  Path(k) # Result(j, path) /\ (OutOf(P(k)) = Result(j, path) => On(k, path))
<1>1. ProcOK(P(k), Len(gz.data)) /\ P(k).pc # "next"
  BY ProcFacts
<1>2. Path(k) \in ToSet(P(k).call.files)
  BY <1>1, PathGiven DEF ProcOK
<1>3. OutOf(P(k)) = OutPath(P(k).call, Path(k))
  BY DEF OutOf, Path
<1> QED BY <1>2, <1>3 DEF Undisturbed, Result, On

LEMMA ResultSpared ==
    ASSUME Types, NEW path, Undisturbed(path), NEW j \in DOMAIN gz.procs, path \in ToSet(P(j).call.files),
           Exists(Result(j, path)), NEW k, NEW q, Clean(k, q)
    PROVE  Result(j, path) \in DOMAIN gz'.fs /\ gz'.fs[Result(j, path)] = gz.fs[Result(j, path)]
<1> DEFINE out == Result(j, path)
<1>1. k \in DOMAIN gz.procs /\ Moves(k, q)
  BY DEF Clean
<1>2. out \in DOMAIN gz.fs
  BY DEF Exists
<1> HIDE DEF out
<1>3. CASE Creates(k, q)
  <2>1. LET o == OutOf(P(k)) IN
        DOMAIN gz'.fs = DOMAIN gz.fs \union {o} /\ \A p \in DOMAIN gz.fs : gz'.fs[p] = gz.fs[p]
    BY <1>3, CreatesFacts
  <2> QED BY <1>2, <2>1 DEF out
<1>4. CASE Deletes(k, q)
  <2>1. P(k).pc = "remove" /\ gz'.fs = [r \in DOMAIN gz.fs \ {Path(k)} |-> gz.fs[r]]
    BY <1>4 DEF Deletes
  <2>2. Path(k) # out
    BY <1>1, <2>1, MakesOwn DEF out
  <2> QED BY <1>2, <2>1, <2>2 DEF out
<1>5. CASE gz'.fs = gz.fs
  BY <1>2, <1>5 DEF out
<1> QED BY <1>1, <1>3, <1>4, <1>5 DEF Moves, Goes, Misses, Shows, Fills, Still

\* What a process that converts an input writes.
LEMMA WritesWhole ==
    ASSUME Types, NEW path, InputKept(path), NEW k, NEW q, Clean(k, q), Fills(k, q), On(k, path)
    PROVE  /\ Whole(gz'.data[P(k).out]) /\ gz'.data[P(k).out].payload = gz.tree[path].payload
           /\ \A m \in 1..Len(gz.data) : m # P(k).out => gz'.data[m] = gz.data[m]
<1>1. k \in DOMAIN gz.procs
  BY DEF Clean
<1>2. gz.data[P(k).in] = gz.tree[path]
  BY <1>1 DEF InputKept, ReadOnly
<1>3. gz'.data = [gz.data EXCEPT ![P(k).out] = Convert(P(k).call, gz.data[P(k).in])]
  BY DEF Fills
<1>4. P(k) \in Procs /\ ProcOK(P(k), Len(gz.data)) /\ Len(gz.data) \in Nat
  BY CleanFacts
<1>5. P(k).out # 0 /\ P(k).out <= Len(gz.data) /\ P(k).out \in Nat
  BY <1>4 DEF Fills, ProcOK, Procs
<1>6. gz.data \in Seq(Contents)
  BY DEF Types, Disk
<1>7. DOMAIN gz.data = 1..Len(gz.data) /\ P(k).out \in DOMAIN gz.data
  BY <1>4, <1>5, <1>6
<1>8. gz'.data[P(k).out] = Convert(P(k).call, gz.tree[path])
  BY <1>2, <1>3, <1>7
<1>9. \A m \in 1..Len(gz.data) : m # P(k).out => gz'.data[m] = gz.data[m]
  BY <1>3, <1>7
<1> QED BY <1>8, <1>9, ConvertWhole

\* The step of one that copies an input to its end.
LEMMA CopyingWrites ==
    ASSUME Types, NEW path, InputKept(path), NEW k, NEW q, Clean(k, q), Copying(k, path)
    PROVE  Fills(k, q)
<1>1. k \in DOMAIN gz.procs /\ Moves(k, q) /\ q.pc # "killed" /\ gz.faults = 0 /\ gz'.faults = 0
  BY CleanFacts DEF Clean
<1>2. P(k).pc = "copy" /\ ~P(k).call.stdout /\ On(k, path)
  BY DEF Copying
<1>3. gz.data[P(k).in] = gz.tree[path] /\ Copies(P(k).call, gz.tree[path])
  BY <1>1, <1>2 DEF InputKept, ReadOnly
<1>4. ~Goes(k, q) /\ ~Shows(k, q) /\ ~Creates(k, q) /\ ~Deletes(k, q)
  BY <1>1, <1>2 DEF Goes, Shows, Creates, Deletes
<1>5. ~Misses(k, q)
  BY <1>1, <1>2, <1>3 DEF Misses
<1> QED BY <1>1, <1>4, <1>5 DEF Moves

LEMMA ComingStep ==
    ASSUME Types, OutNamed, NEW path, Input(path), InputKept(path), ResultComes(path),
           NEW j \in DOMAIN gz.procs, path \in ToSet(P(j).call.files), Coming(Result(j, path), path),
           NEW k, NEW q, Clean(k, q)
    PROVE  StillComing(Result(j, path), path)
<1> DEFINE out == Result(j, path)
           n == gz.fs[out]
<1>1. k \in DOMAIN gz.procs /\ Moves(k, q) /\ P(k)' = q /\ q.call = P(k).call
      /\ (\A i \in DOMAIN gz.procs : i # k => P(i)' = P(i)) /\ Undisturbed(path)
  BY CleanFacts DEF Clean, Input
<1>2. out \in DOMAIN gz.fs
  BY DEF Coming, Exists
<1>3. out \in DOMAIN gz'.fs /\ gz'.fs[out] = n
  BY <1>1, <1>2, ResultSpared DEF Exists
<1>4. n \in 1..Len(gz.data) /\ n # 0
  <2>1. gz.fs \in [DOMAIN gz.fs -> 1..Len(gz.data)] /\ Len(gz.data) \in Nat
    BY CleanFacts DEF Types, Disk
  <2>2. gz.fs[out] \in 1..Len(gz.data)
    BY <1>2, <2>1
  <2> QED BY <2>1, <2>2
<1>5. ASSUME Ready(out, path), gz'.data[n] = gz.data[n] PROVE StillComing(out, path)
  BY <1>3, <1>5 DEF Ready, At, StillReady, StillComing
<1>6. ASSUME Fills(k, q), On(k, path), P(k).out = n PROVE StillComing(out, path)
  <2>1. Whole(gz'.data[n]) /\ gz'.data[n].payload = gz.tree[path].payload
    BY <1>6, WritesWhole
  <2> QED BY <1>3, <2>1 DEF StillReady, StillComing
<1>7. CASE Ready(out, path)
  <2>1. CASE Creates(k, q)
    <3>1. LET o == OutOf(P(k)) IN
          /\ q.pc = "copy" /\ P(k).pc = "create" /\ q.i = P(k).i /\ OutOf(q) = o /\ ~P(k).call.stdout
          /\ \A p \in DOMAIN gz.fs : p # o => gz.fs[p] # q.out
          /\ \A m \in 1..Len(gz.data) : m # q.out => gz'.data[m] = gz.data[m]
      BY <2>1, CreatesFacts
    <3>2. CASE OutOf(P(k)) = out
      <4>1. Path(k) = path
        BY <1>1, <3>1, <3>2, MakesOwn DEF On
      <4>2. q.call.files[q.i] = path
        BY <1>1, <3>1, <4>1 DEF Path
      <4>3. Makes(q, out, path)
        BY <1>1, <3>1, <3>2, <4>2 DEF Makes
      <4> QED BY <1>1, <1>3, <4>3 DEF StillComing
    <3>3. CASE OutOf(P(k)) # out
      <4>1. q.out # n
        BY <1>2, <3>1, <3>3
      <4>2. gz'.data[n] = gz.data[n]
        BY <1>4, <3>1, <4>1
      <4> QED BY <1>5, <1>7, <4>2
    <3> QED BY <3>2, <3>3
  <2>2. CASE Fills(k, q)
    <3>1. P(k).pc = "copy"
      BY <2>2 DEF Fills
    <3>2. CASE P(k).out = n
      <4>1. OutOf(P(k)) = out
        BY <1>1, <1>2, <1>4, <3>1, <3>2 DEF OutNamed
      <4>2. On(k, path)
        BY <1>1, <3>1, <4>1, MakesOwn
      <4> QED BY <1>6, <2>2, <3>2, <4>2
    <3>3. CASE P(k).out # n
      <4>1. gz'.data = [gz.data EXCEPT ![P(k).out] = Convert(P(k).call, gz.data[P(k).in])]
        BY <2>2 DEF Fills
      <4>2. gz.data \in Seq(Contents)
        BY DEF Types, Disk
      <4>3. gz'.data[n] = gz.data[n]
        BY <1>4, <3>3, <4>1, <4>2
      <4> QED BY <1>5, <1>7, <4>3
    <3> QED BY <3>2, <3>3
  <2>3. CASE gz'.data = gz.data
    BY <1>5, <1>7, <2>3
  <2> QED BY <1>1, <2>1, <2>2, <2>3 DEF Moves, Goes, Misses, Shows, Deletes, Still
<1>8. ASSUME NEW w \in DOMAIN gz.procs, Copying(w, path), OutOf(P(w)) = out
      PROVE  StillComing(out, path)
  <2>1. P(w).pc = "copy" /\ ~P(w).call.stdout /\ Path(w) = path /\ On(w, path)
    BY <1>8 DEF Copying, On
  <2>2. CASE w # k
    <3>1. Makes(P(w)', out, path)
      BY <1>1, <1>8, <2>1, <2>2 DEF Makes, Path
    <3> QED BY <1>3, <3>1 DEF StillComing
  <2>3. CASE w = k
    <3>1. Fills(k, q)
      BY <1>8, <2>3, CopyingWrites
    <3>2. P(k).out # 0
      BY <2>1, <2>3, CleanFacts DEF ProcOK
    <3>3. P(k).out = n
      BY <1>8, <2>1, <2>3, <3>2 DEF ResultComes
    <3> QED BY <1>6, <2>1, <2>3, <3>1, <3>3
  <2> QED BY <2>2, <2>3
<1> QED BY <1>7, <1>8 DEF Coming

\* What is coming after a step, said of the next state.
LEMMA ComesAfter ==
    ASSUME Types, NEW k, NEW q, Clean(k, q), NEW path, NEW out, StillComing(out, path)
    PROVE  Coming(out, path)'
<1>1. DOMAIN gz'.procs = DOMAIN gz.procs /\ gz'.tree = gz.tree
  BY CleanFacts
<1>2. out \in DOMAIN gz'.fs
  BY DEF StillComing
<1>3. CASE StillReady(out, path)
  BY <1>1, <1>2, <1>3 DEF StillReady, Coming, Ready, At, Exists
<1>4. ASSUME NEW j \in DOMAIN gz.procs, Makes(P(j)', out, path) PROVE Coming(out, path)'
  <2>1. Copying(j, path)'
    BY <1>4 DEF Makes, Copying, On, Path
  <2>2. OutOf(P(j)') = out
    BY <1>4 DEF Makes
  <2> QED BY <1>1, <1>2, <2>1, <2>2 DEF Coming, Exists, OutOf
<1> QED BY <1>3, <1>4 DEF StillComing

LEMMA ResultComesStep ==
    ASSUME Types, OutNamed, NEW path, Input(path), InputKept(path), ResultComes(path),
           NEW k, NEW q, Clean(k, q)
    PROVE  ResultComes(path)'
<1>1. DOMAIN gz'.procs = DOMAIN gz.procs /\ k \in DOMAIN gz.procs /\ P(k)' = q /\ q.call = P(k).call
      /\ (\A i \in DOMAIN gz.procs : i # k => P(i)' = P(i)) /\ Undisturbed(path) /\ Moves(k, q)
  BY CleanFacts DEF Clean, Input
<1>2. ASSUME NEW j \in DOMAIN gz.procs, On(j, path), P(j).out # 0
      PROVE  LET out == OutOf(P(j)) IN
             /\ out \in DOMAIN gz'.fs /\ gz'.fs[out] = P(j).out
             /\ Coming(out, path) => StillComing(out, path)
  <2>1. Exists(OutOf(P(j))) /\ gz.fs[OutOf(P(j))] = P(j).out
    BY <1>2 DEF ResultComes
  <2>2. path \in ToSet(P(j).call.files) /\ OutOf(P(j)) = Result(j, path)
    BY <1>2, OnGiven
  <2>3. OutOf(P(j)) \in DOMAIN gz'.fs /\ gz'.fs[OutOf(P(j))] = P(j).out
    BY <1>1, <2>1, <2>2, ResultSpared
  <2>4. Coming(OutOf(P(j)), path) => StillComing(OutOf(P(j)), path)
    BY <2>2, ComingStep
  <2> QED BY <2>3, <2>4
<1>3. ASSUME NEW j \in DOMAIN gz.procs, On(j, path)', P(j)'.out # 0
      PROVE  LET out == OutOf(P(j)') IN
             /\ out \in DOMAIN gz'.fs /\ gz'.fs[out] = P(j)'.out
             /\ P(j)'.pc = "remove" => StillComing(out, path)
  <2>1. CASE j # k
    <3>1. P(j)' = P(j)
      BY <1>1, <2>1
    <3>2. On(j, path) /\ P(j).out # 0
      BY <1>3, <3>1 DEF On, Path
    <3>3. P(j).pc = "remove" => Coming(OutOf(P(j)), path)
      BY <3>2 DEF ResultComes
    <3> QED BY <1>2, <3>1, <3>2, <3>3
  <2>2. CASE j = k /\ Creates(k, q)
    <3>1. LET o == OutOf(P(k)) IN OutOf(q) = o /\ o \in DOMAIN gz'.fs /\ gz'.fs[o] = q.out /\ q.pc = "copy"
      BY <2>2, CreatesFacts
    <3> QED BY <1>1, <2>2, <3>1
  <2>3. CASE j = k /\ ~Creates(k, q)
    <3>1. Fills(k, q) /\ q.pc = "remove" /\ q.out = P(k).out /\ q.i = P(k).i
      BY <1>1, <1>3, <2>3, CleanOut
    <3>2. P(k).pc = "copy" /\ ~P(k).call.stdout /\ P(k).out # 0
      BY <1>1, <1>3, <2>3, <3>1 DEF Fills
    <3>3. On(k, path)
      BY <1>1, <1>3, <2>3, <3>1, <3>2 DEF On, Path
    <3>4. OutOf(q) = OutOf(P(k))
      BY <1>1, <3>1 DEF OutOf
    <3>5. Exists(OutOf(P(k)))
      BY <1>1, <3>2, <3>3 DEF ResultComes
    <3>6. Copying(k, path)
      BY <3>2, <3>3 DEF Copying
    <3>7. Coming(OutOf(P(k)), path)
      BY <1>1, <3>5, <3>6 DEF Coming
    <3> QED BY <1>1, <1>2, <2>3, <3>1, <3>2, <3>3, <3>4, <3>7
  <2> QED BY <2>2, <2>1, <2>3
<1>4. ASSUME NEW j \in DOMAIN gz.procs, On(j, path)', P(j)'.out # 0
      PROVE  LET out == OutOf(P(j)') IN
             /\ out \in DOMAIN gz'.fs /\ gz'.fs[out] = P(j)'.out
             /\ P(j)'.pc = "remove" => Coming(OutOf(P(j)), path)'
  <2> DEFINE out == OutOf(P(j)')
  <2>1. out \in DOMAIN gz'.fs /\ gz'.fs[out] = P(j)'.out /\ (P(j)'.pc = "remove" => StillComing(out, path))
    BY <1>3, <1>4
  <2>2. ASSUME StillComing(out, path) PROVE Coming(OutOf(P(j)), path)'
    <3>1. gz'.tree = gz.tree
      BY CleanFacts
    <3>2. CASE StillReady(out, path)
      BY <2>1, <3>1, <3>2 DEF StillReady, Coming, Ready, At, Exists, OutOf
    <3>3. ASSUME NEW w \in DOMAIN gz.procs, Makes(P(w)', out, path) PROVE Coming(OutOf(P(j)), path)'
      <4>1. Copying(w, path)'
        BY <3>3 DEF Makes, Copying, On, Path
      <4>2. OutOf(P(w)') = out
        BY <3>3 DEF Makes
      <4> QED BY <1>1, <2>1, <4>1, <4>2 DEF Coming, Exists, OutOf
    <3> QED BY <2>2, <3>2, <3>3 DEF StillComing
  <2> QED BY <2>1, <2>2
<1> QED BY <1>1, <1>4 DEF ResultComes, Exists, OutOf

LEMMA SomeResultStep ==
    ASSUME Types, OutNamed, NEW path, Input(path), InputKept(path), ResultComes(path), SomeResult(path),
           NEW k, NEW q, Clean(k, q)
    PROVE  SomeResult(path)'
<1>1. DOMAIN gz'.procs = DOMAIN gz.procs /\ k \in DOMAIN gz.procs /\ Moves(k, q)
      /\ (\A i \in DOMAIN gz.procs : P(i)'.call = P(i).call)
  BY CleanFacts DEF Clean
<1>2. ASSUME NEW j \in DOMAIN gz.procs, path \in ToSet(P(j).call.files), Coming(Result(j, path), path)
      PROVE  SomeResult(path)'
  <2>1. StillComing(Result(j, path), path)
    BY <1>2, ComingStep
  <2>2. Result(j, path)' = Result(j, path)
    BY <1>1 DEF Result
  <2>3. PICK out : out = Result(j, path)
    OBVIOUS
  <2>4. Coming(out, path)'
    BY <2>1, <2>3, ComesAfter
  <2>5. path \in ToSet(P(j)'.call.files) /\ OutPath(P(j)'.call, path) = out
    BY <1>1, <1>2, <2>3 DEF Result
  <2>6. Coming(Result(j, path), path)'
    BY <2>4, <2>5 DEF Coming, Ready, Exists, At, Result
  <2> QED BY <1>1, <2>5, <2>6 DEF SomeResult
<1>3. CASE Exists(path)
  <2>1. CASE path \in DOMAIN gz'.fs
    BY <2>1 DEF SomeResult, Exists
  <2>2. CASE path \notin DOMAIN gz'.fs
    <3>1. Deletes(k, q)
      <4>1. path \in DOMAIN gz.fs
        BY <1>3 DEF Exists
      <4> QED BY <1>1, <2>2, <4>1 DEF Moves, Goes, Misses, Shows, Creates, Fills, Still
    <3>2. P(k).pc = "remove" /\ Path(k) = path
      BY <1>3, <2>2, <3>1 DEF Deletes, Exists
    <3>3. On(k, path) /\ P(k).out # 0
      BY <3>2, CleanFacts DEF On, ProcOK
    <3>4. Coming(OutOf(P(k)), path)
      BY <1>1, <3>2, <3>3 DEF ResultComes
    <3>5. path \in ToSet(P(k).call.files) /\ OutOf(P(k)) = Result(k, path)
      BY <1>1, <3>3, OnGiven
    <3> QED BY <1>1, <1>2, <3>4, <3>5
  <2> QED BY <2>1, <2>2
<1> QED BY <1>2, <1>3 DEF SomeResult

\* The faults are counted one at a time.
LEMMA FaultsStep ==
    ASSUME Types, gz.faults \in Nat, NEW k \in DOMAIN gz.procs, GzStep(k)
    PROVE  gz'.faults \in {gz.faults, gz.faults + 1}
<1>1. gz = [x \in Fields |-> gz[x]] /\ "faults" \in Fields
  BY DEF Types, Fields
<1>2. ASSUME NEW f, gz' = [gz EXCEPT !.procs = f] PROVE gz'.faults = gz.faults
  BY <1>1, <1>2
<1>3. ASSUME Fail(k) \/ \E pc : Goto(k, pc) PROVE gz'.faults = gz.faults
  BY <1>2, <1>3 DEF Fail, Goto
<1>4. CASE Decompress(k) \/ StatFile(k) \/ LookOut(k) \/ ReadHeader(k) \/ OpenIn(k)
  BY <1>2, <1>3, <1>4 DEF Decompress, StatFile, LookOut, ReadHeader, OpenIn
<1>5. CASE OpenOut(k)
  <2>1. CASE Fail(k)
    BY <1>3, <2>1
  <2>2. CASE ~Fail(k)
    <3>1. PICK f, d, p : gz' = [gz EXCEPT !.fs = f, !.data = d, !.procs = p]
      BY <1>5, <2>2 DEF OpenOut
    <3> QED BY <1>1, <3>1
  <2> QED BY <2>1, <2>2
<1>6. CASE Copy(k)
  <2>1. PICK d, p, f : /\ gz' = [gz EXCEPT !.data = d, !.faults = f, !.procs = p]
                       /\ f \in {gz.faults, gz.faults + 1}
    <3>1. PICK ok : gz' = [gz EXCEPT
            !.data = IF ok /\ P(k).out # 0 THEN [@ EXCEPT ![P(k).out] = Convert(P(k).call, gz.data[P(k).in])] ELSE @,
            !.faults = IF ok = Copies(P(k).call, gz.data[P(k).in]) THEN @ ELSE @ + 1,
            !.procs = Now(k, AfterCopy(P(k), ok))]
      BY <1>6 DEF Copy
    <3> DEFINE f == IF ok = Copies(P(k).call, gz.data[P(k).in]) THEN gz.faults ELSE gz.faults + 1
    <3>2. f \in {gz.faults, gz.faults + 1}
      OBVIOUS
    <3> QED BY <3>1, <3>2
  <2> QED BY <1>1, <2>1
<1>7. CASE RemoveIn(k)
  <2>1. \/ \E f, p : gz' = [gz EXCEPT !.fs = f, !.procs = p]
        \/ \E p : gz' = [gz EXCEPT !.faults = gz.faults + 1, !.procs = p]
    BY <1>7 DEF RemoveIn
  <2> QED BY <1>1, <2>1
<1>8. CASE Killed(k)
  <2>1. PICK p : gz' = [gz EXCEPT !.faults = gz.faults + 1, !.procs = p]
    BY <1>8 DEF Killed
  <2> QED BY <1>1, <2>1
<1> QED BY <1>4, <1>5, <1>6, <1>7, <1>8 DEF GzStep

LEMMA ManyStep ==
    ASSUME Types, ManyInv, GzNext
    PROVE  ManyInv'
<1>1. PICK k \in DOMAIN gz.procs : GzStep(k)
  BY DEF GzNext
<1>2. gz.faults \in Nat /\ gz'.faults \in {gz.faults, gz.faults + 1}
  BY <1>1, FaultsStep DEF ManyInv
<1>3. PICK q \in Procs : /\ Changes(k, q) /\ q.call = P(k).call /\ ProcOK(q, Len(gz'.data))
                         /\ Disk(gz'.fs, gz'.data) /\ Moves(k, q)
  BY <1>1, StepMoves DEF Stepped
<1>4. ASSUME gz'.faults = 0
      PROVE  /\ OutNamed'
             /\ \A path \in DOMAIN gz'.tree : Input(path)' =>
                  InputKept(path)' /\ ResultComes(path)' /\ SomeResult(path)'
  <2>1. gz.faults = 0
    BY <1>2, <1>4
  <2>2. Clean(k, q)
    BY <1>3, <1>4, <2>1 DEF Clean
  <2>3. OutNamed /\ \A path \in DOMAIN gz.tree : Input(path) =>
                      InputKept(path) /\ ResultComes(path) /\ SomeResult(path)
    BY <2>1 DEF ManyInv
  <2>4. OutNamed'
    BY <2>2, <2>3, OutNamedStep
  <2>5. ASSUME NEW path \in DOMAIN gz'.tree, Input(path)'
        PROVE  InputKept(path)' /\ ResultComes(path)' /\ SomeResult(path)'
    <3>1. Input(path)
      BY <2>2, <2>5, InputStays
    <3>2. path \in DOMAIN gz.tree
      BY <3>1 DEF Input
    <3>3. InputKept(path) /\ ResultComes(path) /\ SomeResult(path)
      BY <2>3, <3>1, <3>2
    <3> QED BY <2>2, <2>3, <3>1, <3>3, InputKeptStep, ResultComesStep, SomeResultStep
  <2> QED BY <2>4, <2>5
<1>5. gz'.faults \in Nat
  BY <1>2
<1> QED BY <1>4, <1>5 DEF ManyInv

LEMMA ManyStays ==
    ASSUME Types, ManyInv, [GzNext]_gz
    PROVE  ManyInv'
<1>1. CASE UNCHANGED gz
  <2>1. gz' = gz
    BY <1>1
  <2>2. \A k : P(k)' = P(k) /\ OutOf(P(k))' = OutOf(P(k)) /\ Path(k)' = Path(k)
    BY <2>1 DEF P, OutOf, Path
  <2>3. OutNamed' <=> OutNamed
    BY <2>1, <2>2 DEF OutNamed
  <2>4. ASSUME NEW path PROVE Input(path)' <=> Input(path)
    BY <2>1, <2>2 DEF Input, IsOutput, Undisturbed
  <2>5. \A n, path : ReadOnly(n, path)' <=> ReadOnly(n, path)
    BY <2>1, <2>2 DEF ReadOnly
  <2>6. \A j, path : On(j, path)' <=> On(j, path)
    BY <2>2 DEF On
  <2>7. \A out, path : Coming(out, path)' <=> Coming(out, path)
    BY <2>1, <2>2, <2>6 DEF Coming, Ready, At, Exists, Copying
  <2>8. ASSUME NEW path PROVE InputKept(path)' <=> InputKept(path)
    BY <2>1, <2>2, <2>5, <2>6 DEF InputKept, Exists
  <2>9. ASSUME NEW path PROVE ResultComes(path)' <=> ResultComes(path)
    BY <2>1, <2>2, <2>6, <2>7 DEF ResultComes, Exists
  <2>10. ASSUME NEW path PROVE SomeResult(path)' <=> SomeResult(path)
    BY <2>1, <2>2, <2>7 DEF SomeResult, Exists, Result
  <2> QED BY <2>1, <2>3, <2>4, <2>8, <2>9, <2>10 DEF ManyInv
<1>2. CASE GzNext
  BY <1>2, ManyStep
<1> QED BY <1>1, <1>2

LEMMA ManyStarts ==
    ASSUME NEW calls, \A c \in calls : IsCall(c), GzInit(calls)
    PROVE  ManyInv
<1>1. /\ Types
      /\ \E c \in calls : \A k \in DOMAIN gz.procs : P(k) = Proc(c.procs[k])
      /\ DOMAIN gz.fs = DOMAIN gz.tree
      /\ \A p \in DOMAIN gz.tree : Exists(p) /\ At(p) = gz.tree[p]
  BY InitFacts
<1>2. gz.faults = 0
  BY DEF GzInit
<1>3. \A k \in DOMAIN gz.procs : P(k).pc = "next" /\ P(k).out = 0
  BY <1>1 DEF Proc
<1>4. OutNamed
  BY <1>3 DEF OutNamed
<1>5. ASSUME NEW path \in DOMAIN gz.tree, Input(path)
      PROVE  InputKept(path) /\ ResultComes(path) /\ SomeResult(path)
  <2>1. \A k \in DOMAIN gz.procs : ~On(k, path)
    BY <1>3 DEF On
  <2>2. path \in DOMAIN gz.fs /\ gz.data[gz.fs[path]] = gz.tree[path]
    BY <1>1, <1>5 DEF At
  <2>3. /\ gz.fs \in [DOMAIN gz.fs -> 1..Len(gz.data)] /\ Len(gz.data) \in Nat
        /\ \A p, r \in DOMAIN gz.fs : p # r => gz.fs[p] # gz.fs[r]
    <3>1. Disk(gz.fs, gz.data)
      BY <1>1 DEF Types
    <3>2. Len(gz.data) \in Nat
      BY <3>1 DEF Disk
    <3> QED BY <3>1, <3>2 DEF Disk
  <2>4. gz.fs[path] \in 1..Len(gz.data) /\ gz.fs[path] # 0
    BY <2>2, <2>3
  <2>5. ReadOnly(gz.fs[path], path)
    BY <1>3, <2>2, <2>3, <2>4 DEF ReadOnly
  <2> QED BY <1>1, <2>1, <2>5 DEF InputKept, ResultComes, SomeResult
<1> QED BY <1>2, <1>4, <1>5 DEF ManyInv

\* At the end nobody copies any more: the input is there, or a result of it is whole.
LEMMA ManyRight ==
    ASSUME Types, ManyInv, ~Alone
    PROVE  InputOrOutput /\ StatusTrue
<1>1. ASSUME Over, gz.faults = 0, NEW path \in DOMAIN gz.tree, Undisturbed(path), Whole(gz.tree[path]), ~IsOutput(path)
      PROVE  Held(gz.tree[path].payload)
  <2>1. Input(path) /\ InputKept(path) /\ SomeResult(path)
    BY <1>1 DEF Input, ManyInv
  <2>2. CASE Exists(path)
    <3>1. At(path) = gz.tree[path]
      BY <2>1, <2>2 DEF InputKept, ReadOnly, At
    <3> QED BY <1>1, <2>2, <3>1 DEF Held, Exists
  <2>3. ASSUME NEW k \in DOMAIN gz.procs, Coming(Result(k, path), path) PROVE Held(gz.tree[path].payload)
    <3>1. \A j \in DOMAIN gz.procs : P(j).pc # "copy"
      <4>1. SUFFICES ASSUME NEW j \in DOMAIN gz.procs, P(j).pc = "copy" PROVE FALSE
        OBVIOUS
      <4>2. P(j).i > Len(P(j).call.files)
        BY <1>1, <4>1 DEF Over
      <4>3. P(j) \in Procs /\ ProcOK(P(j), Len(gz.data)) /\ P(j).call.files \in Seq(Paths) /\ Len(P(j).call.files) \in Nat
        BY ProcFacts
      <4>4. P(j).i \in Nat /\ P(j).i <= Len(P(j).call.files)
        BY <4>1, <4>3 DEF Procs, ProcOK
      <4> QED BY <4>2, <4>3, <4>4
    <3>2. Exists(Result(k, path)) /\ Ready(Result(k, path), path)
      BY <2>3, <3>1 DEF Coming, Copying
    <3> QED BY <3>2 DEF Ready, Held, Exists
  <2> QED BY <2>1, <2>2, <2>3 DEF SomeResult
<1>2. InputOrOutput
  BY <1>1 DEF InputOrOutput
<1>3. StatusTrue
  BY DEF StatusTrue
<1> QED BY <1>2, <1>3

\* Any number of gzip and gunzip on any files: what an input holds is whole in a file, for
\* one process at every moment, whatever fails and wherever it is killed, and for several
\* at the end of a run in which nothing failed; the exit status of one process is true; and
\* gunzip without -f keeps the files it was not given.  (gzip, Run, and gunzip, Run: the
\* input is removed after the output was written and closed)
THEOREM GzipHolds ==
    ASSUME NEW calls, \A c \in calls : IsCall(c)
    PROVE  GzInit(calls) /\ [][GzNext]_gz => []GzipRight
<1>1. GzInit(calls) => Types /\ ManyInv /\ (Alone => OneInv)
  <2>1. ASSUME GzInit(calls), Alone PROVE OneInv
    BY <2>1, OneStarts DEF Alone
  <2> QED BY <2>1, InitFacts, ManyStarts
<1>2. ASSUME Types, Alone => OneInv, [GzNext]_gz PROVE (Alone => OneInv)'
  <2>1. Len(gz'.procs) = Len(gz.procs)
    <3>1. CASE UNCHANGED gz
      BY <3>1
    <3>2. CASE GzNext
      BY <1>2, <3>2, CallsStay DEF GzNext
    <3> QED BY <1>2, <3>1, <3>2
  <2>2. Alone' <=> Alone
    BY <2>1 DEF Alone
  <2> QED BY <1>2, <2>2, OneStays
<1>3. GzInit(calls) /\ [][GzNext]_gz => []Types
  BY TypesInvariant
<1>4. GzInit(calls) /\ [][GzNext]_gz => []OthersKept
  BY OthersHold
<1>5. Types /\ (Alone => OneInv) /\ ManyInv /\ OthersKept => GzipRight
  BY OneRight, ManyRight DEF GzipRight
<1> QED BY <1>1, <1>2, <1>3, <1>4, <1>5, ManyStays, PTL
=============================================================================
