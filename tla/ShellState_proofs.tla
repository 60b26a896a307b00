--------------------------- MODULE ShellState_proofs ---------------------------
(***************************************************************************)
(* What a command may leave behind in the shell: the streams, files and      *)
(* here-documents of AshRedirect, for any redirections and any nesting of    *)
(* commands, and the variables of AshScope, for any nesting of functions,    *)
(* subshells and substitutions.                                            *)
(***************************************************************************)
EXTENDS AshScope, AshRedirect, Integers, FiniteSetTheorems, SequenceTheorems, TLAPS

LEMMA Bounds == MaxOpen \in Nat /\ MaxFrames \in Nat /\ Lines \in Nat /\ BufLines \in Nat \ {0}
  BY RedirectAssumption

-----------------------------------------------------------------------------
(* The numbers of the files that are opened.                                *)

Below(S, n) == {k \in S : k < n}

LEMMA LeastNumber ==
    ASSUME NEW S \in SUBSET Nat, S # {}
    PROVE  \E n \in S : \A k \in S : n <= k
<1>1. PICK n \in S : \A k \in S : ~(<<k, n>> \in OpToRel(<, Nat))
  BY WFMin, NatLessThanWellFounded
<1>2. ASSUME NEW k \in S PROVE n <= k
  <2>1. k \in Nat /\ n \in Nat /\ ~(k < n)
    BY <1>1 DEF OpToRel
  <2> QED BY <2>1
<1> QED BY <1>2

LEMMA NumbersFinite ==
    ASSUME NEW S \in SUBSET Numbers
    PROVE  IsFiniteSet(S) /\ Cardinality(S) \in Nat
<1>1. IsFiniteSet(1..MaxOpen)
  BY FS_Interval, Bounds
<1>2. IsFiniteSet(S)
  BY <1>1, FS_Subset DEF Numbers
<1> QED BY <1>2, FS_CardinalityType

LEMMA FirstRank ==
    ASSUME NEW S \in SUBSET Numbers, S # {}
    PROVE  \E n \in S : Cardinality(Below(S, n)) = 0
<1>0. S \in SUBSET Nat
  BY Bounds DEF Numbers
<1>1. PICK n \in S : \A k \in S : n <= k
  BY <1>0, LeastNumber
<1>2. \A k \in S : k \in Int
  BY Bounds DEF Numbers
<1>3. Below(S, n) = {}
  BY <1>1, <1>2 DEF Below
<1> QED BY <1>3, FS_EmptySet

LEMMA NextRank ==
    ASSUME NEW S \in SUBSET Numbers, NEW m \in S, Cardinality(Below(S, m)) + 1 < Cardinality(S)
    PROVE  \E n \in S : Cardinality(Below(S, n)) = Cardinality(Below(S, m)) + 1
<1> DEFINE B == Below(S, m)
           T == {k \in S : k > m}
<1>0. \A k \in S : k \in Int
  BY Bounds DEF Numbers
<1>1. B \in SUBSET Numbers /\ T \in SUBSET Numbers /\ m \notin B
  BY <1>0 DEF Below
<1>2. S = (B \cup {m}) \cup T
  BY <1>0 DEF Below
<1>3. Cardinality(B \cup {m}) = Cardinality(B) + 1
  <2> HIDE DEF B
  <2> QED BY <1>1, NumbersFinite, FS_AddElement
<1>4. T # {}
  <2> SUFFICES ASSUME T = {} PROVE FALSE
    OBVIOUS
  <2>1. S = B \cup {m}
    BY <1>2
  <2>2. Cardinality(B) \in Nat /\ Cardinality(B) + 1 < Cardinality(S)
    BY <1>1, NumbersFinite
  <2> QED BY <1>3, <2>1, <2>2
<1>5. PICK n \in T : \A k \in T : n <= k
  <2> HIDE DEF T
  <2>1. T \in SUBSET Nat
    BY <1>1, Bounds DEF Numbers
  <2> QED BY <1>4, <2>1, LeastNumber
<1>6. Below(S, n) = B \cup {m}
  <2>1. ASSUME NEW k \in S PROVE k < n <=> k < m \/ k = m
    BY <1>0, <1>5
  <2> QED BY <2>1 DEF Below
<1> QED BY <1>3, <1>5, <1>6

LEMMA RankExists ==
    ASSUME NEW S \in SUBSET Numbers, NEW i \in 1..3, i <= Cardinality(S)
    PROVE  \E n \in S : Cardinality(Below(S, n)) = i - 1
<1>1. Cardinality(S) \in Nat /\ S # {}
  BY NumbersFinite, FS_EmptySet
<1>2. PICK a \in S : Cardinality(Below(S, a)) = 0
  BY <1>1, FirstRank
<1>3. CASE i = 1
  BY <1>2, <1>3
<1>4. ASSUME i > 1
      PROVE  \E n \in S : Cardinality(Below(S, n)) = 1
  BY <1>1, <1>2, <1>4, NextRank
<1>5. CASE i = 2
  BY <1>4, <1>5
<1>6. CASE i = 3
  <2>1. PICK b \in S : Cardinality(Below(S, b)) = 1
    BY <1>4, <1>6
  <2> QED BY <1>1, <1>6, <2>1, NextRank
<1> QED BY <1>3, <1>5, <1>6

LEMMA NthIsFree ==
    ASSUME NEW i \in 1..3, i <= Cardinality(Free)
    PROVE  Nth(i) \in Free /\ Rank(Nth(i)) = i - 1
<1>1. Free \in SUBSET Numbers
  BY DEF Free
<1>2. \E n \in Free : Rank(n) = i - 1
  BY <1>1, RankExists DEF Rank, Below
<1> QED BY <1>2 DEF Nth

LEMMA NthIsOpened ==
    ASSUME NEW k \in 0..3, k <= Cardinality(Free), NEW i \in 1..k
    PROVE  Nth(i) \in Opened(k)
<1>1. Free \in SUBSET Numbers
  BY DEF Free
<1>2. Cardinality(Free) \in Nat
  BY <1>1, NumbersFinite
<1> QED BY <1>2, NthIsFree DEF Opened

-----------------------------------------------------------------------------
(* Types.                                                                   *)

Streams == {Std(0), Std(1), Std(2), Bad, HereDoc} \cup {File(n) : n \in Numbers}
StdioTypes == [in : [stream : Streams, buffered : BOOLEAN], out : Streams, err : Streams]
WriterTypes == UNION {[D -> Streams] : D \in SUBSET {1, 2, 3}}
FrameTypes == [kind : {"call", "subshell", "plain", "compound"}, stdio : StdioTypes,
               readers : SUBSET {3}, writers : WriterTypes, closers : SUBSET Numbers]

TypesOK ==
    /\ stdio \in StdioTypes /\ readers \in SUBSET {3} /\ writers \in WriterTypes
    /\ open \in SUBSET Numbers /\ frames \in Seq(FrameTypes)

LEMMA CompoundIsSpec ==
    ASSUME NEW s \in RedirSpecs
    PROVE  s \in Specs /\ CompoundSpec(s) \in Specs
  BY RedirectAssumption DEF CompoundSpec, Specs

LEMMA WriterType ==
    ASSUME NEW w
    PROVE  w \in WriterTypes <=> DOMAIN w \in SUBSET {1, 2, 3} /\ w \in [DOMAIN w -> Streams]
  BY DEF WriterTypes

LEMMA FilesDiffer ==
    ASSUME NEW n \in Numbers
    PROVE  /\ \A m \in Numbers : File(m) = File(n) => m = n
           /\ \A fd : File(n) # Std(fd)
           /\ File(n) # Bad /\ File(n) # HereDoc
  BY DEF File, Std, Bad, HereDoc

\* What is there to redirect to, besides files that are opened for it.
Sources == {stdio.in.stream, stdio.out, stdio.err, Bad, HereDoc}
              \cup {writers[fd] : fd \in DOMAIN writers}
Targets(s) == Sources \cup {File(n) : n \in AllOpened(s)}

LEMMA SourceTypes ==
    ASSUME TypesOK
    PROVE  Sources \subseteq Streams
<1>1. \A fd \in DOMAIN writers : writers[fd] \in Streams
  BY WriterType DEF TypesOK
<1> QED BY <1>1 DEF TypesOK, StdioTypes, Sources, Streams

LEMMA TargetTypes ==
    ASSUME TypesOK, NEW s
    PROVE  Targets(s) \subseteq Streams
<1>1. AllOpened(s) \subseteq Numbers
  BY DEF AllOpened, Opened, Free
<1> QED BY <1>1, SourceTypes DEF Targets, Streams

LEMMA WritersKnown ==
    ASSUME TypesOK, NEW s \in Specs
    PROVE  /\ Writers(s) \in WriterTypes /\ {1, 2} \subseteq DOMAIN Writers(s)
           /\ \A fd \in DOMAIN Writers(s) : Writers(s)[fd] \in Sources
<1> DEFINE D == {1, 2} \cup DOMAIN writers
           base == [fd \in D |->
                      IF fd \in DOMAIN writers THEN writers[fd]
                      ELSE IF fd = 2 THEN stdio.err
                      ELSE IF s.closeOut THEN Bad ELSE stdio.out]
           more == [fd \in {3} \cup DOMAIN base |->
                      IF fd # 3 THEN base[fd] ELSE IF s.dup = "1" THEN base[1] ELSE base[2]]
<1>1. DOMAIN writers \in SUBSET {1, 2, 3}
  BY WriterType DEF TypesOK
<1>2. DOMAIN base = D /\ {1, 2} \subseteq D /\ D \subseteq {1, 2, 3}
  BY <1>1
<1>3. \A fd \in D : base[fd] \in Sources
  BY DEF Sources
<1>4. Writers(s) = IF s.dup = "none" THEN base ELSE more
  BY DEF Writers
<1> HIDE DEF base, D
<1>5. DOMAIN more = {3} \cup D /\ \A fd \in {3} \cup D : more[fd] \in Sources
  BY <1>2, <1>3
<1>6. more = [fd \in DOMAIN more |-> more[fd]] /\ base = [fd \in DOMAIN base |-> base[fd]]
  BY DEF base
<1> HIDE DEF more
<1>7. base \in [D -> Streams] /\ more \in [{3} \cup D -> Streams]
  BY <1>2, <1>3, <1>5, <1>6, SourceTypes
<1> QED BY <1>2, <1>3, <1>4, <1>5, <1>7, WriterType

LEMMA OpensCounts ==
    ASSUME NEW s \in Specs
    PROVE  /\ Opens(s.in) \in {0, 1} /\ Opens(s.out) \in {0, 1} /\ Opens(s.err) \in {0, 1}
           /\ s.in = "file" => Opens(s.in) = 1
           /\ s.out = "file" => Opens(s.out) = 1
           /\ s.err = "file" => Opens(s.err) = 1
  BY DEF Opens

\* A command with redirections that can all be made has streams that were
\* there, and files that are opened for it.
LEMMA RedirectedTargets ==
    ASSUME TypesOK, NEW s \in Specs, NEW known, Room(s), Works(s, known)
    PROVE  /\ InStream(s).stream \in Targets(s) /\ InStream(s).buffered \in BOOLEAN
           /\ InStream(s) = [stream |-> InStream(s).stream, buffered |-> InStream(s).buffered]
           /\ OutStream(s) \in Targets(s) /\ ErrStream(s) \in Targets(s)
<1> DEFINE k == Opens(s.in) + Opens(s.out) + Opens(s.err)
<1>1. k \in 0..3 /\ k <= Cardinality(Free)
  BY OpensCounts DEF Room
<1>2. \A i \in 1..k : File(Nth(i)) \in Targets(s)
  BY <1>1, NthIsOpened DEF Targets, AllOpened
<1>3. s.out = "3" \/ s.err = "3" => 3 \in DOMAIN Writers(s)
  BY OpensCounts DEF Works, FailsAt
<1>4. Sources \subseteq Targets(s) /\ Bad \in Sources /\ HereDoc \in Sources
  BY DEF Targets, Sources
<1>5. /\ {1, 2} \subseteq DOMAIN Writers(s)
      /\ \A fd \in DOMAIN Writers(s) : Writers(s)[fd] \in Targets(s)
  BY <1>4, WritersKnown
<1>6. OutStream(s) \in Targets(s)
  <2>1. CASE s.out = "file"
    BY <1>2, <2>1, OpensCounts DEF OutStream
  <2>2. CASE s.out = "2"
    BY <1>5, <2>2 DEF OutStream
  <2>3. CASE s.out = "3"
    BY <1>3, <1>5, <2>3 DEF OutStream
  <2>4. CASE s.out \notin {"file", "2", "3"}
    BY <1>4, <2>4 DEF OutStream, Sources
  <2> QED BY <2>1, <2>2, <2>3, <2>4
<1>7. ErrStream(s) \in Targets(s)
  <2>1. CASE s.err = "file"
    BY <1>2, <2>1, OpensCounts DEF ErrStream
  <2>2. CASE s.err = "1"
    BY <1>6, <2>2 DEF ErrStream
  <2>3. CASE s.err = "3"
    BY <1>3, <1>5, <2>3 DEF ErrStream
  <2>4. CASE s.err \notin {"file", "1", "3"}
    BY <1>4, <2>4 DEF ErrStream, Sources
  <2> QED BY <2>1, <2>2, <2>3, <2>4
<1>8. /\ InStream(s).stream \in Targets(s) /\ InStream(s).buffered \in BOOLEAN
      /\ InStream(s) = [stream |-> InStream(s).stream, buffered |-> InStream(s).buffered]
  <2>1. CASE s.in = "file"
    <3>1. InStream(s) = [stream |-> File(Nth(1)), buffered |-> FALSE]
      BY <2>1 DEF InStream, Raw
    <3>2. 1 \in 1..k
      BY <2>1, OpensCounts
    <3>3. File(Nth(1)) \in Targets(s)
      BY <1>2, <3>2
    <3> QED BY <3>1, <3>3
  <2>2. CASE s.in = "3"
    BY <1>4, <2>2 DEF InStream, Raw
  <2>3. CASE s.in \notin {"file", "3"}
    <3>1. InStream(s) = stdio.in
      BY <2>3 DEF InStream
    <3> QED BY <1>4, <3>1 DEF TypesOK, StdioTypes, Sources
  <2> QED BY <2>1, <2>2, <2>3
<1> QED BY <1>6, <1>7, <1>8

LEMMA RedirectedType ==
    ASSUME TypesOK, NEW s \in Specs, NEW known, Room(s), Works(s, known)
    PROVE  Redirected(s) \in StdioTypes
  BY RedirectedTargets, TargetTypes DEF Redirected, StdioTypes

-----------------------------------------------------------------------------
(* Every stream is open, and every file is of a command or leaked.          *)

WriterFiles(w) == {n \in Numbers : \E fd \in DOMAIN w : w[fd] = File(n)}
Uses(f) == Files(f.stdio) \cup WriterFiles(f.writers)

\* A command puts back streams that neither it nor one inside it closes.
FramesOK(fs, opened) ==
    \A i \in 1..Len(fs) :
        /\ Uses(fs[i]) \subseteq opened
        /\ fs[i].kind = "plain" => fs[i].closers = {}
        /\ \A j \in i..Len(fs) : Uses(fs[i]) \cap fs[j].closers = {}

Closers(fs) == UNION {fs[i].closers : i \in 1..Len(fs)}

StreamsInv ==
    /\ Files(stdio) \subseteq open /\ WriterFiles(writers) \subseteq open
    /\ FramesOK(frames, open)
    /\ open \subseteq leaked \cup Closers(frames)

\* More files are opened, all of them numbers that nothing used.
LEMMA FramesGrow ==
    ASSUME NEW fs, NEW a, NEW b, FramesOK(fs, a), a \subseteq b
    PROVE  FramesOK(fs, b)
  BY DEF FramesOK

LEMMA PushFrames ==
    ASSUME TypesOK, StreamsInv, NEW f \in FrameTypes, NEW ns \in SUBSET Free,
           f.stdio = stdio, f.writers = writers, f.closers = ns, f.kind = "plain" => ns = {}
    PROVE  /\ Append(frames, f) \in Seq(FrameTypes)
           /\ FramesOK(Append(frames, f), open \cup ns)
           /\ open \cup ns \subseteq leaked \cup Closers(Append(frames, f))
<1> DEFINE fs == Append(frames, f)
           k == Len(frames)
<1>1. /\ fs \in Seq(FrameTypes) /\ k \in Nat /\ Len(fs) = k + 1 /\ fs[k + 1] = f
      /\ \A i \in 1..k : fs[i] = frames[i] /\ i \in 1..Len(fs)
      /\ \A i \in 1..Len(fs) : i \in 1..k \/ i = k + 1
  BY DEF TypesOK
<1> HIDE DEF fs, k
<1>2. open \cap ns = {} /\ ns \subseteq Numbers
  BY DEF Free
<1>3. Uses(f) \subseteq open
  BY DEF Uses, StreamsInv
<1>4. /\ \A i \in 1..k : Uses(frames[i]) \subseteq open
                         /\ (frames[i].kind = "plain" => frames[i].closers = {})
      /\ \A i \in 1..k : \A j \in i..k : Uses(frames[i]) \cap frames[j].closers = {}
  BY DEF StreamsInv, FramesOK, k
<1>5. FramesOK(fs, open \cup ns)
  <2>1. \A i \in 1..Len(fs) : Uses(fs[i]) \subseteq open
    BY <1>1, <1>3, <1>4
  <2>2. ASSUME NEW i \in 1..Len(fs)
        PROVE  fs[i].kind = "plain" => fs[i].closers = {}
    BY <1>1, <1>4
  <2>3. ASSUME NEW i \in 1..Len(fs), NEW j \in i..Len(fs)
        PROVE  Uses(fs[i]) \cap fs[j].closers = {}
    <3>1. CASE j = k + 1
      BY <1>1, <1>2, <2>1, <3>1
    <3>2. CASE j # k + 1
      <4>1. i \in 1..k /\ j \in i..k /\ j \in 1..k
        BY <1>1, <3>2
      <4> QED BY <1>1, <1>4, <4>1
    <3> QED BY <3>1, <3>2
  <2> QED BY <2>1, <2>2, <2>3 DEF FramesOK
<1>6. open \cup ns \subseteq leaked \cup Closers(fs)
  <2>1. Closers(frames) \subseteq Closers(fs)
    BY <1>1 DEF Closers, k
  <2>2. k + 1 \in 1..Len(fs)
    BY <1>1
  <2>3. ns \subseteq Closers(fs)
    BY <1>1, <2>2 DEF Closers
  <2> QED BY <2>1, <2>3 DEF StreamsInv
<1> QED BY <1>1, <1>5, <1>6 DEF fs

\* The first commands of a sequence that ends: their files stay.
LEMMA PopFrames ==
    ASSUME TypesOK, StreamsInv, NEW b \in 1..Len(frames),
           NEW closed, closed = UNION {frames[j].closers : j \in b..Len(frames)}
    PROVE  LET fs == SubSeq(frames, 1, b - 1)
           IN  /\ fs \in Seq(FrameTypes) /\ FramesOK(fs, open \ closed)
               /\ open \ closed \subseteq leaked \cup Closers(fs)
<1> DEFINE fs == SubSeq(frames, 1, b - 1)
           k == Len(frames)
<1>1. /\ fs \in Seq(FrameTypes) /\ k \in Nat /\ Len(fs) = b - 1 /\ b \in Nat
      /\ \A i \in 1..b - 1 : fs[i] = frames[i] /\ i \in 1..k
  BY DEF TypesOK
<1> HIDE DEF fs, k
<1>2. /\ \A i \in 1..k : Uses(frames[i]) \subseteq open
                         /\ (frames[i].kind = "plain" => frames[i].closers = {})
      /\ \A i \in 1..k : \A j \in i..k : Uses(frames[i]) \cap frames[j].closers = {}
      /\ open \subseteq leaked \cup Closers(frames)
  BY DEF StreamsInv, FramesOK, k
<1>3. ASSUME NEW i \in 1..b - 1
      PROVE  Uses(fs[i]) \subseteq open \ closed
  <2>1. \A j \in b..k : j \in i..k
    BY <1>1
  <2> QED BY <1>1, <1>2, <2>1 DEF k
<1>4. ASSUME NEW i \in 1..b - 1
      PROVE  fs[i].kind = "plain" => fs[i].closers = {}
  BY <1>1, <1>2
<1>5. ASSUME NEW i \in 1..b - 1, NEW j \in i..b - 1
      PROVE  Uses(fs[i]) \cap fs[j].closers = {}
  <2>1. i \in 1..k /\ j \in i..k /\ j \in 1..b - 1
    BY <1>1
  <2> QED BY <1>1, <1>2, <2>1
<1>6. FramesOK(fs, open \ closed)
  BY <1>1, <1>3, <1>4, <1>5 DEF FramesOK
<1>7. ASSUME NEW n \in open \ closed, n \notin leaked
      PROVE  n \in Closers(fs)
  <2>1. PICK i \in 1..k : n \in frames[i].closers
    BY <1>2, <1>7 DEF Closers, k
  <2>2. i \notin b..k
    BY <1>7, <2>1 DEF k
  <2>3. i \in 1..Len(fs)
    BY <1>1, <2>2
  <2> QED BY <1>1, <2>1, <2>3 DEF Closers
<1> QED BY <1>1, <1>6, <1>7 DEF fs

LEMMA TargetFiles ==
    ASSUME TypesOK, StreamsInv, NEW ns \in SUBSET Numbers, NEW n \in Numbers,
           File(n) \in Sources \cup {File(m) : m \in ns}
    PROVE  n \in open \cup ns
<1>1. CASE \E m \in ns : File(n) = File(m)
  BY <1>1, FilesDiffer
<1>2. CASE \E fd \in DOMAIN writers : File(n) = writers[fd]
  <2>1. n \in WriterFiles(writers)
    BY <1>2 DEF WriterFiles
  <2> QED BY <2>1 DEF StreamsInv
<1>3. CASE File(n) \in {stdio.in.stream, stdio.out, stdio.err}
  <2>1. n \in Files(stdio)
    BY <1>3 DEF Files
  <2> QED BY <2>1 DEF StreamsInv
<1>4. File(n) \notin {Bad, HereDoc}
  BY FilesDiffer
<1> QED BY <1>1, <1>2, <1>3, <1>4 DEF Sources

\* The streams after a step are ones there were, or files it has opened.
From(ns) ==
    /\ stdio' \in StdioTypes /\ writers' \in WriterTypes
    /\ {stdio'.in.stream, stdio'.out, stdio'.err} \subseteq Sources \cup {File(m) : m \in ns}
    /\ \A fd \in DOMAIN writers' : writers'[fd] \in Sources \cup {File(m) : m \in ns}

LEMMA FromFiles ==
    ASSUME TypesOK, StreamsInv, NEW ns \in SUBSET Numbers, From(ns)
    PROVE  Files(stdio') \subseteq open \cup ns /\ WriterFiles(writers') \subseteq open \cup ns
  BY TargetFiles DEF From, Files, WriterFiles

LEMMA FrameType ==
    ASSUME TypesOK, NEW kind \in {"call", "subshell", "plain", "compound"},
           NEW ns \in SUBSET Numbers
    PROVE  /\ Frame(kind, ns) \in FrameTypes /\ Frame(kind, ns).stdio = stdio
           /\ Frame(kind, ns).writers = writers /\ Frame(kind, ns).closers = ns
           /\ Frame(kind, ns).kind = kind /\ Frame(kind, ns).readers = readers
  BY DEF Frame, FrameTypes, TypesOK

\* A command under way.
LEMMA PushStep ==
    ASSUME TypesOK, StreamsInv, NEW kind \in {"call", "subshell", "plain", "compound"},
           NEW ns \in SUBSET Free, kind = "plain" => ns = {},
           Push(kind, ns), open' = open \cup ns, leaked' = leaked, From(ns),
           readers' \in SUBSET {3}
    PROVE  TypesOK' /\ StreamsInv'
<1>1. ns \in SUBSET Numbers
  BY DEF Free
<1> DEFINE f == Frame(kind, ns)
<1>2. /\ f \in FrameTypes /\ f.stdio = stdio /\ f.writers = writers /\ f.closers = ns
      /\ f.kind = kind /\ frames' = Append(frames, f)
  BY <1>1, FrameType DEF Push
<1> HIDE DEF f
<1>3. /\ Append(frames, f) \in Seq(FrameTypes)
      /\ FramesOK(Append(frames, f), open \cup ns)
      /\ open \cup ns \subseteq leaked \cup Closers(Append(frames, f))
  BY <1>2, PushFrames
<1>4. TypesOK'
  BY <1>1, <1>2, <1>3 DEF TypesOK, From
<1>5. Files(stdio') \subseteq open \cup ns /\ WriterFiles(writers') \subseteq open \cup ns
  BY <1>1, FromFiles
<1>6. StreamsInv'
  BY <1>2, <1>3, <1>5 DEF StreamsInv
<1> QED BY <1>4, <1>6

\* Files that nobody will close.
LEMMA LeakStep ==
    ASSUME TypesOK, StreamsInv, NEW ns \in SUBSET Free, frames' = frames,
           open' = open \cup ns, leaked' = leaked \cup ns, From(ns), readers' \in SUBSET {3}
    PROVE  TypesOK' /\ StreamsInv'
<1>1. ns \in SUBSET Numbers
  BY DEF Free
<1>2. TypesOK'
  BY <1>1 DEF TypesOK, From
<1>3. Files(stdio') \subseteq open \cup ns /\ WriterFiles(writers') \subseteq open \cup ns
  BY <1>1, FromFiles
<1>4. FramesOK(frames, open \cup ns)
  BY FramesGrow DEF StreamsInv
<1> QED BY <1>2, <1>3, <1>4 DEF StreamsInv

\* The same streams.
LEMMA SameStreams ==
    ASSUME TypesOK, NEW ns, UNCHANGED <<stdio, writers>>
    PROVE  From(ns)
  BY WriterType DEF TypesOK, From, Sources

LEMMA OpenedNumbers ==
    ASSUME NEW k
    PROVE  Opened(k) \in SUBSET Free /\ Opened(k) \in SUBSET Numbers
  BY DEF Opened, Free

LEMMA CallStreams ==
    ASSUME TypesOK, StreamsInv, CallWith
    PROVE  TypesOK' /\ StreamsInv'
<1>1. PICK s \in RedirSpecs :
         /\ Room(s) /\ Works(s, KnownReaders(s)) /\ Push("call", AllOpened(s))
         /\ stdio' = Redirected(s) /\ readers' = KnownReaders(s)
         /\ NewFiles(AllOpened(s))
         /\ UNCHANGED <<writers, gone, leaked, spilled>>
  BY DEF CallWith
<1>2. s \in Specs
  BY CompoundIsSpec
<1>3. From(AllOpened(s))
  <2>1. Redirected(s) \in StdioTypes
    BY <1>1, <1>2, RedirectedType
  <2>2. /\ InStream(s).stream \in Targets(s)
        /\ OutStream(s) \in Targets(s) /\ ErrStream(s) \in Targets(s)
    BY <1>1, <1>2, RedirectedTargets
  <2>3. writers \in WriterTypes /\ \A fd \in DOMAIN writers : writers[fd] \in Sources
    BY DEF TypesOK, Sources
  <2> QED BY <1>1, <2>1, <2>2, <2>3 DEF From, Redirected, Targets
<1>4. KnownReaders(s) \in SUBSET {3}
  BY DEF KnownReaders, TypesOK
<1> QED BY <1>1, <1>3, <1>4, OpenedNumbers, PushStep DEF AllOpened, NewFiles

LEMMA SubshellStreams ==
    ASSUME TypesOK, StreamsInv, SubshellWith
    PROVE  TypesOK' /\ StreamsInv'
<1>1. PICK s \in RedirSpecs :
         /\ Room(s) /\ Works(s, readers) /\ Push("subshell", AllOpened(s))
         /\ stdio' = Redirected(s)
         /\ writers' = [fd \in DOMAIN Writers(s) |->
              IF fd = 1 THEN OutStream(s) ELSE IF fd = 2 THEN ErrStream(s) ELSE Writers(s)[fd]]
         /\ NewFiles(AllOpened(s))
         /\ UNCHANGED <<readers, gone, leaked, spilled>>
  BY DEF SubshellWith
<1>2. s \in Specs
  BY CompoundIsSpec
<1>3. From(AllOpened(s))
  <2>1. Redirected(s) \in StdioTypes
    BY <1>1, <1>2, RedirectedType
  <2>2. /\ InStream(s).stream \in Targets(s)
        /\ OutStream(s) \in Targets(s) /\ ErrStream(s) \in Targets(s)
    BY <1>1, <1>2, RedirectedTargets
  <2>3. /\ DOMAIN Writers(s) \in SUBSET {1, 2, 3}
        /\ \A fd \in DOMAIN Writers(s) : Writers(s)[fd] \in Targets(s)
    BY <1>2, WritersKnown, WriterType DEF Targets
  <2>4. /\ DOMAIN writers' = DOMAIN Writers(s)
        /\ \A fd \in DOMAIN writers' : writers'[fd] \in Targets(s)
    BY <1>1, <2>2, <2>3
  <2>5. writers' = [fd \in DOMAIN writers' |-> writers'[fd]]
    BY <1>1
  <2>6. writers' \in [DOMAIN writers' -> Streams]
    BY <2>4, <2>5, TargetTypes
  <2>7. writers' \in WriterTypes
    BY <2>3, <2>4, <2>6, WriterType
  <2> QED BY <1>1, <2>1, <2>2, <2>4, <2>7 DEF From, Redirected, Targets
<1> QED BY <1>1, <1>3, OpenedNumbers, PushStep DEF AllOpened, NewFiles, TypesOK

LEMMA CompoundStreams ==
    ASSUME TypesOK, StreamsInv, Compound
    PROVE  TypesOK' /\ StreamsInv'
<1>1. PICK s \in {CompoundSpec(t) : t \in RedirSpecs} :
         /\ Room(s) /\ Works(s, KnownReaders(s)) /\ Push("compound", AllOpened(s))
         /\ stdio' = [Redirected(s) EXCEPT !.out = IF s.out = "2" THEN stdio.err ELSE @]
         /\ readers' = KnownReaders(s)
         /\ NewFiles(AllOpened(s))
         /\ UNCHANGED <<writers, gone, leaked, spilled>>
  BY DEF Compound
<1>2. s \in Specs
  BY CompoundIsSpec
<1>3. From(AllOpened(s))
  <2>1. Redirected(s) \in StdioTypes
    BY <1>1, <1>2, RedirectedType
  <2>2. /\ InStream(s).stream \in Targets(s)
        /\ OutStream(s) \in Targets(s) /\ ErrStream(s) \in Targets(s)
    BY <1>1, <1>2, RedirectedTargets
  <2>3. writers \in WriterTypes /\ \A fd \in DOMAIN writers : writers[fd] \in Sources
    BY DEF TypesOK, Sources
  <2>4. stdio.err \in Sources /\ stdio.err \in Streams
    BY DEF Sources, TypesOK, StdioTypes
  <2>5. /\ Redirected(s).in.stream = InStream(s).stream /\ Redirected(s).out = OutStream(s)
        /\ Redirected(s).err = ErrStream(s)
    BY DEF Redirected
  <2>6. stdio' \in StdioTypes
    BY <1>1, <2>1, <2>4 DEF StdioTypes
  <2>7. /\ stdio'.in.stream = InStream(s).stream /\ stdio'.err = ErrStream(s)
        /\ stdio'.out \in {stdio.err, OutStream(s)}
    BY <1>1, <2>1, <2>5 DEF StdioTypes
  <2> QED BY <1>1, <2>2, <2>3, <2>4, <2>6, <2>7 DEF From, Targets
<1>4. KnownReaders(s) \in SUBSET {3}
  BY DEF KnownReaders, TypesOK
<1> QED BY <1>1, <1>3, <1>4, OpenedNumbers, PushStep DEF AllOpened, NewFiles

LEMMA PlainStreams ==
    ASSUME TypesOK, StreamsInv, PlainSubshell
    PROVE  TypesOK' /\ StreamsInv'
<1>1. From({})
  BY SameStreams DEF PlainSubshell
<1>2. open' = open \cup {} /\ leaked' = leaked /\ readers' \in SUBSET {3} /\ Push("plain", {})
  BY DEF PlainSubshell, TypesOK
<1> QED BY <1>1, <1>2, PushStep

LEMMA FailStreams ==
    ASSUME TypesOK, StreamsInv, FailingCommand \/ FailingCompound
    PROVE  TypesOK' /\ StreamsInv'
<1>1. ASSUME NEW s, NEW known, Fail(s, known), UNCHANGED <<stdio, writers, frames>>,
             readers' \in SUBSET {3}
      PROVE  TypesOK' /\ StreamsInv'
  <2> DEFINE ns == Opened(FailsAt(s, known))
  <2>1. open' = open \cup ns /\ leaked' = leaked \cup ns
    BY <1>1 DEF Fail, NewFiles
  <2>2. From(ns)
    BY <1>1, SameStreams
  <2>3. ns \in SUBSET Free
    BY OpenedNumbers
  <2> HIDE DEF ns
  <2> QED BY <1>1, <2>1, <2>2, <2>3, LeakStep
<1>2. CASE FailingCommand
  BY <1>1, <1>2 DEF FailingCommand, TypesOK
<1>3. CASE FailingCompound
  <2>1. PICK s : Fail(s, KnownReaders(s)) /\ readers' = KnownReaders(s)
                 /\ UNCHANGED <<stdio, writers, frames>>
    BY <1>3 DEF FailingCompound
  <2>2. KnownReaders(s) \in SUBSET {3}
    BY DEF KnownReaders, TypesOK
  <2> QED BY <1>1, <2>1, <2>2
<1> QED BY <1>2, <1>3

LEMMA ExecStreams ==
    ASSUME TypesOK, StreamsInv, Exec
    PROVE  TypesOK' /\ StreamsInv'
<1>1. PICK s \in RedirSpecs :
        /\ Room(s)
        /\ LET n == Opens(s.out) + Opens(s.err) + Opens(s.in)
               out == IF s.out = "file" THEN File(Nth(1))
                      ELSE IF s.out = "2" THEN stdio.err ELSE stdio.out
               err == IF s.err = "file" THEN File(Nth(Opens(s.out) + 1))
                      ELSE IF s.err = "1" THEN out ELSE stdio.err
               in  == IF s.in = "file" THEN Raw(File(Nth(n)))
                      ELSE IF s.in = "3" /\ 3 \in readers THEN Raw(HereDoc) ELSE stdio.in
           IN /\ stdio' = [in |-> in, out |-> IF s.closeOut THEN Bad ELSE out, err |-> err]
              /\ NewFiles(Opened(n))
              /\ leaked' = leaked \cup Opened(n)
  BY DEF Exec
<1>2. s \in Specs
  BY CompoundIsSpec
<1> DEFINE n == Opens(s.out) + Opens(s.err) + Opens(s.in)
           out == IF s.out = "file" THEN File(Nth(1))
                  ELSE IF s.out = "2" THEN stdio.err ELSE stdio.out
           err == IF s.err = "file" THEN File(Nth(Opens(s.out) + 1))
                  ELSE IF s.err = "1" THEN out ELSE stdio.err
           in  == IF s.in = "file" THEN Raw(File(Nth(n)))
                  ELSE IF s.in = "3" /\ 3 \in readers THEN Raw(HereDoc) ELSE stdio.in
           New == Sources \cup {File(m) : m \in Opened(n)}
<1>3. n \in 0..3 /\ n <= Cardinality(Free)
  <2>1. n = Opens(s.in) + Opens(s.out) + Opens(s.err)
    BY <1>2, OpensCounts
  <2> QED BY <1>1, <1>2, <2>1, OpensCounts DEF Room
<1>4. /\ s.out = "file" => 1 \in 1..n
      /\ s.err = "file" => Opens(s.out) + 1 \in 1..n
      /\ s.in = "file" => n \in 1..n
  BY <1>2, OpensCounts
<1>5. stdio' = [in |-> in, out |-> IF s.closeOut THEN Bad ELSE out, err |-> err]
      /\ open' = open \cup Opened(n) /\ leaked' = leaked \cup Opened(n)
  BY <1>1 DEF NewFiles
<1>6. UNCHANGED <<readers, writers, frames>>
  BY DEF Exec
<1> HIDE DEF n
<1>7. \A i \in 1..n : File(Nth(i)) \in New
  BY <1>3, NthIsOpened
<1>8. {stdio.in.stream, stdio.out, stdio.err, Bad, HereDoc} \subseteq New
  BY DEF Sources
<1> HIDE DEF New
<1>9. out \in New
  BY <1>4, <1>7, <1>8
<1>10. err \in New
  BY <1>4, <1>7, <1>8, <1>9
<1>11. in.stream \in New /\ in.buffered \in BOOLEAN
       /\ in = [stream |-> in.stream, buffered |-> in.buffered]
  <2>1. CASE s.in = "file"
    <3>1. in = [stream |-> File(Nth(n)), buffered |-> FALSE]
      BY <2>1 DEF Raw
    <3>2. File(Nth(n)) \in New
      BY <1>4, <1>7, <2>1
    <3> HIDE DEF in
    <3> QED BY <3>1, <3>2
  <2>2. CASE s.in = "3" /\ 3 \in readers
    BY <1>8, <2>2 DEF Raw
  <2>3. CASE s.in # "file" /\ ~(s.in = "3" /\ 3 \in readers)
    <3>1. in = stdio.in
      BY <2>3
    <3> QED BY <1>8, <3>1 DEF TypesOK, StdioTypes
  <2> QED BY <2>1, <2>2, <2>3
<1> HIDE DEF in, out, err
<1>12. New \subseteq Streams
  BY SourceTypes, OpenedNumbers DEF New, Streams
<1>13. From(Opened(n))
  <2>1. \A fd \in DOMAIN writers : writers[fd] \in New
    BY DEF New, Sources
  <2>2. stdio'.in.stream \in New /\ stdio'.out \in New /\ stdio'.err \in New
    BY <1>5, <1>8, <1>9, <1>10, <1>11
  <2>3. stdio' \in StdioTypes
    BY <1>5, <1>8, <1>9, <1>10, <1>11, <1>12 DEF StdioTypes
  <2>4. writers' \in WriterTypes
    BY <1>6 DEF TypesOK
  <2> QED BY <1>6, <2>1, <2>2, <2>3, <2>4 DEF From, New
<1>14. readers' \in SUBSET {3}
  BY <1>6 DEF TypesOK
<1> QED BY <1>5, <1>6, <1>13, <1>14, OpenedNumbers, LeakStep

\* A frame from which the shell goes on.
LEMMA FrameAt ==
    ASSUME TypesOK, StreamsInv, NEW i \in 1..Len(frames)
    PROVE  /\ frames[i].stdio \in StdioTypes /\ frames[i].readers \in SUBSET {3}
           /\ frames[i].writers \in WriterTypes /\ frames[i].closers \in SUBSET Numbers
           /\ Files(frames[i].stdio) \subseteq open
           /\ WriterFiles(frames[i].writers) \subseteq open
           /\ \A j \in i..Len(frames) :
                 /\ Files(frames[i].stdio) \cap frames[j].closers = {}
                 /\ WriterFiles(frames[i].writers) \cap frames[j].closers = {}
           /\ frames[i].kind = "plain" => frames[i].closers = {}
<1>1. frames[i] \in FrameTypes
  BY DEF TypesOK
<1>2. Files(frames[i].stdio) \subseteq Uses(frames[i])
      /\ WriterFiles(frames[i].writers) \subseteq Uses(frames[i])
  BY DEF Uses
<1> QED BY <1>1, <1>2 DEF FrameTypes, StreamsInv, FramesOK

\* Commands end from the b-th on, and the shell goes on with streams that
\* none of them closes.
LEMMA PopStep ==
    ASSUME TypesOK, StreamsInv, NEW b \in 1..Len(frames),
           NEW closed, closed = UNION {frames[j].closers : j \in b..Len(frames)},
           open' = open \ closed, leaked' = leaked, frames' = SubSeq(frames, 1, b - 1),
           stdio' \in StdioTypes, writers' \in WriterTypes, readers' \in SUBSET {3},
           Files(stdio') \subseteq open \ closed, WriterFiles(writers') \subseteq open \ closed
    PROVE  TypesOK' /\ StreamsInv'
  BY PopFrames DEF TypesOK, StreamsInv

LEMMA EndStreams ==
    ASSUME TypesOK, StreamsInv, End
    PROVE  TypesOK' /\ StreamsInv'
<1> DEFINE k == Len(frames)
<1>1. k \in 1..Len(frames) /\ Top = frames[k]
  BY DEF End, TypesOK, Top
<1>2. /\ stdio' = IF frames[k].kind = "plain" THEN stdio ELSE frames[k].stdio
      /\ readers' \in {frames[k].readers, readers} /\ writers' = frames[k].writers
      /\ open' = open \ frames[k].closers /\ leaked' = leaked
      /\ frames' = SubSeq(frames, 1, k - 1)
  BY <1>1 DEF End, StdioAfter, ReadersAfter, NewFiles
<1>3. frames[k].closers = UNION {frames[j].closers : j \in k..Len(frames)}
  <2>1. k..Len(frames) = {k}
    BY <1>1
  <2> QED BY <2>1
<1> HIDE DEF k
<1>4. /\ frames[k].stdio \in StdioTypes /\ frames[k].readers \in SUBSET {3}
      /\ frames[k].writers \in WriterTypes
      /\ Files(frames[k].stdio) \subseteq open \ frames[k].closers
      /\ WriterFiles(frames[k].writers) \subseteq open \ frames[k].closers
      /\ frames[k].kind = "plain" => frames[k].closers = {}
  <2>1. k \in k..Len(frames)
    BY <1>1 DEF k
  <2> QED BY <1>1, <2>1, FrameAt
<1>5. /\ stdio' \in StdioTypes /\ readers' \in SUBSET {3}
      /\ Files(stdio') \subseteq open \ frames[k].closers
  BY <1>2, <1>4 DEF TypesOK, StreamsInv
<1> QED BY <1>1, <1>2, <1>3, <1>4, <1>5, PopStep

LEMMA ExitStreams ==
    ASSUME ExecExits
    PROVE  TypesOK' /\ StreamsInv'
<1>1. /\ stdio' = [in |-> [stream |-> Std(0), buffered |-> FALSE], out |-> Std(1), err |-> Std(2)]
      /\ readers' = {} /\ writers' = Closed /\ open' = {} /\ frames' = <<>> /\ leaked' = {}
  BY DEF ExecExits, Raw
<1>2. stdio' \in StdioTypes /\ Files(stdio') = {}
  BY <1>1, FilesDiffer DEF StdioTypes, Streams, Files
<1>3. DOMAIN Closed = {} /\ Closed \in WriterTypes /\ WriterFiles(Closed) = {}
  BY DEF Closed, WriterTypes, WriterFiles
<1>4. frames' \in Seq(FrameTypes) /\ FramesOK(frames', open')
  BY <1>1 DEF FramesOK
<1> QED BY <1>1, <1>2, <1>3, <1>4 DEF TypesOK, StreamsInv

LEMMA ReadStreams ==
    ASSUME TypesOK, StreamsInv, Read \/ Cat \/ Exited
    PROVE  TypesOK' /\ StreamsInv'
<1>1. /\ UNCHANGED <<readers, writers, open, frames, leaked>>
      /\ \/ stdio' = stdio
         \/ stdio' = [stdio EXCEPT !.in.buffered = @ \/ Input \notin bufs]
  BY DEF Read, Cat, Exited, redirect
<1>2. /\ stdio' \in StdioTypes /\ stdio'.in.stream = stdio.in.stream
      /\ stdio'.out = stdio.out /\ stdio'.err = stdio.err
  <2>1. stdio \in StdioTypes /\ (stdio.in.buffered \/ Input \notin bufs) \in BOOLEAN
    BY DEF TypesOK
  <2> HIDE DEF Input
  <2>2. CASE stdio' = stdio
    BY <2>1, <2>2 DEF StdioTypes
  <2>3. CASE stdio' = [stdio EXCEPT !.in.buffered = @ \/ Input \notin bufs]
    <3> DEFINE b == stdio.in.buffered \/ Input \notin bufs
    <3>1. stdio' = [stdio EXCEPT !.in = [@ EXCEPT !.buffered = b]] /\ b \in BOOLEAN
      BY <2>3
    <3> HIDE DEF b
    <3> QED BY <2>1, <3>1 DEF StdioTypes
  <2> QED BY <1>1, <2>2, <2>3
<1>3. Files(stdio') = Files(stdio)
  BY <1>2 DEF Files
<1> QED BY <1>1, <1>2, <1>3 DEF TypesOK, StreamsInv

\* The commands that an exit leaves are those from some place on.
LEMMA LeftFrom ==
    ASSUME TypesOK, InShell
    PROVE  /\ First(Left) \in 1..Len(frames)
           /\ Left = First(Left)..Len(frames)
<1> DEFINE shells == {i \in 1..Len(frames) : frames[i].kind \in {"plain", "subshell"}}
           k == Len(frames)
<1>1. k \in Nat /\ k \in 1..k /\ \A i \in shells : i \in 1..k
  BY DEF TypesOK, InShell
<1>2. Left = {j \in 1..k : \A i \in shells : i <= j}
  BY DEF Left
<1> HIDE DEF k, shells
<1>3. k \in Left /\ Left \in SUBSET Nat
  BY <1>1, <1>2
<1>4. \E b \in Left : \A j \in Left : b <= j
  BY <1>3, LeastNumber
<1>5. First(Left) \in Left /\ \A j \in Left : First(Left) <= j
  BY <1>4 DEF First
<1> DEFINE b == First(Left)
<1> HIDE DEF b
<1>6. b \in 1..k /\ (\A i \in shells : i <= b) /\ \A j \in Left : b <= j
  BY <1>2, <1>5 DEF b
<1>7. Left = b..k
  BY <1>1, <1>2, <1>6
<1> QED BY <1>6, <1>7 DEF b, k

LEMMA ExecFailsStreams ==
    ASSUME TypesOK, StreamsInv, ExecFails
    PROVE  TypesOK' /\ StreamsInv'
<1> DEFINE b == First(Left)
           k == Len(frames)
           closed == UNION {frames[j].closers : j \in Left}
<1>1. b \in 1..Len(frames) /\ Left = b..Len(frames) /\ k \in Nat
  BY LeftFrom DEF ExecFails, TypesOK
<1>2. /\ stdio' = IF frames[b].kind # "plain" THEN frames[b].stdio
                  ELSE IF b = k THEN stdio ELSE frames[b + 1].stdio
      /\ readers' = frames[b].readers /\ writers' = frames[b].writers
      /\ open' = open \ closed /\ frames' = SubSeq(frames, 1, b - 1) /\ leaked' = leaked
  BY DEF ExecFails
<1> HIDE DEF b
<1>3. closed = UNION {frames[j].closers : j \in b..Len(frames)}
  BY <1>1
<1>4. \A j \in b..Len(frames) : j \in 1..Len(frames)
  BY <1>1
<1> HIDE DEF k, closed
<1>5. /\ frames[b].stdio \in StdioTypes /\ frames[b].readers \in SUBSET {3}
      /\ frames[b].writers \in WriterTypes
      /\ Files(frames[b].stdio) \subseteq open /\ WriterFiles(frames[b].writers) \subseteq open
      /\ \A j \in b..Len(frames) : Files(frames[b].stdio) \cap frames[j].closers = {}
      /\ \A j \in b..Len(frames) : WriterFiles(frames[b].writers) \cap frames[j].closers = {}
  BY <1>1, FrameAt
<1>6. frames[b].kind = "plain" => frames[b].closers = {}
  BY <1>1, FrameAt
<1>7. /\ Files(frames[b].stdio) \cap closed = {}
      /\ WriterFiles(frames[b].writers) \cap closed = {}
  BY <1>3, <1>5
<1>8. stdio' \in StdioTypes /\ Files(stdio') \subseteq open \ closed
  <2>1. CASE frames[b].kind # "plain"
    BY <1>2, <1>5, <1>7, <2>1
  <2>2. CASE frames[b].kind = "plain" /\ b = k
    <3>1. \A j \in b..Len(frames) : j = b
      BY <1>1, <2>2 DEF k
    <3>2. closed = {}
      BY <1>3, <1>6, <2>2, <3>1
    <3> QED BY <1>2, <2>2, <3>2 DEF TypesOK, StreamsInv
  <2>3. CASE frames[b].kind = "plain" /\ b # k
    <3> DEFINE c == b + 1
    <3>1. c \in 1..Len(frames) /\ \A j \in b..Len(frames) : j = b \/ j \in c..Len(frames)
      BY <1>1, <2>3 DEF k
    <3>2. stdio' = frames[c].stdio
      BY <1>2, <2>3
    <3> HIDE DEF c
    <3>3. /\ frames[c].stdio \in StdioTypes /\ Files(frames[c].stdio) \subseteq open
          /\ \A j \in c..Len(frames) : Files(frames[c].stdio) \cap frames[j].closers = {}
      BY <3>1, FrameAt
    <3>4. Files(frames[c].stdio) \cap closed = {}
      BY <1>3, <1>6, <2>3, <3>1, <3>3
    <3> QED BY <3>2, <3>3, <3>4
  <2> QED BY <2>1, <2>2, <2>3
<1>9. /\ writers' \in WriterTypes /\ readers' \in SUBSET {3}
      /\ WriterFiles(writers') \subseteq open \ closed
  BY <1>2, <1>5, <1>7
<1> QED BY <1>1, <1>2, <1>3, <1>8, <1>9, PopStep

LEMMA InitStreams == RedirectInit => TypesOK /\ StreamsInv
<1> SUFFICES ASSUME RedirectInit PROVE TypesOK /\ StreamsInv
  OBVIOUS
<1>1. /\ stdio = [in |-> [stream |-> Std(0), buffered |-> FALSE], out |-> Std(1), err |-> Std(2)]
      /\ readers = {} /\ writers = Closed /\ open = {} /\ frames = <<>> /\ leaked = {}
  BY DEF RedirectInit, Raw
<1>2. stdio \in StdioTypes /\ Files(stdio) = {}
  BY <1>1, FilesDiffer DEF StdioTypes, Streams, Files
<1>3. DOMAIN Closed = {} /\ Closed \in WriterTypes /\ WriterFiles(Closed) = {}
  BY DEF Closed, WriterTypes, WriterFiles
<1>4. frames \in Seq(FrameTypes) /\ FramesOK(frames, open)
  BY <1>1 DEF FramesOK
<1> QED BY <1>1, <1>2, <1>3, <1>4 DEF TypesOK, StreamsInv

LEMMA NextStreams == TypesOK /\ StreamsInv /\ [RedirectNext]_redirect => (TypesOK /\ StreamsInv)'
<1> SUFFICES ASSUME TypesOK, StreamsInv, [RedirectNext]_redirect PROVE TypesOK' /\ StreamsInv'
  OBVIOUS
<1>1. CASE UNCHANGED redirect
  BY <1>1 DEF redirect, TypesOK, StreamsInv
<1>2. CASE RedirectNext
  BY <1>2, FailStreams, CallStreams, SubshellStreams, PlainStreams, CompoundStreams, ExecStreams,
     ExecFailsStreams, ExitStreams, ReadStreams, EndStreams DEF RedirectNext
<1> QED BY <1>1, <1>2

-----------------------------------------------------------------------------
(* Here-documents.                                                          *)

IsShell(f) == f.kind \in {"plain", "subshell"}

\* What a command of which the here-documents are not put back at its end has to
\* find as they were, and that is what the command it started first will put back.
ReadersInv == ~spilled =>
    /\ frames = <<>> => readers = {}
    /\ frames # <<>> => frames[1].readers = {}
    /\ \A i \in 1..Len(frames) : IsShell(frames[i]) =>
          frames[i].readers = IF i = Len(frames) THEN readers ELSE frames[i + 1].readers

LEMMA PushReaders ==
    ASSUME TypesOK, ReadersInv, NEW kind, NEW ns, Push(kind, ns), spilled' = spilled,
           kind \in {"plain", "subshell"} => readers' = readers
    PROVE  ReadersInv'
<1> SUFFICES ASSUME ~spilled PROVE ReadersInv'
  BY DEF ReadersInv
<1> DEFINE f == Frame(kind, ns)
           k == Len(frames)
<1>1. f.readers = readers /\ f.kind = kind /\ frames' = Append(frames, f)
  BY DEF Frame, Push
<1> HIDE DEF f
<1>2. /\ k \in Nat /\ Len(frames') = k + 1 /\ frames'[k + 1] = f
      /\ \A i \in 1..k : frames'[i] = frames[i]
  BY <1>1 DEF TypesOK
<1>3. k = 0 <=> frames = <<>>
  BY DEF TypesOK
<1>4. frames' # <<>>
  BY <1>2
<1>5. frames'[1].readers = {}
  <2>1. CASE k = 0
    BY <1>1, <1>2, <1>3, <2>1 DEF ReadersInv
  <2>2. CASE k # 0
    <3>1. 1 \in 1..k
      BY <1>2, <2>2
    <3> QED BY <1>2, <1>3, <2>2, <3>1 DEF ReadersInv
  <2> QED BY <2>1, <2>2
<1>6. ASSUME NEW i \in 1..Len(frames'), IsShell(frames'[i])
      PROVE  frames'[i].readers = IF i = Len(frames') THEN readers' ELSE frames'[i + 1].readers
  <2>1. CASE i = k + 1
    BY <1>1, <1>2, <1>6, <2>1 DEF IsShell
  <2>2. CASE i = k
    <3>1. i \in 1..k /\ i # Len(frames') /\ i + 1 = k + 1
      BY <1>2, <2>2
    <3>2. frames[i].readers = readers
      BY <1>2, <1>6, <2>2, <3>1 DEF ReadersInv
    <3> QED BY <1>1, <1>2, <3>1, <3>2
  <2>3. CASE i \notin {k, k + 1}
    <3>1. i \in 1..k /\ i + 1 \in 1..k /\ i # Len(frames') /\ i # Len(frames)
      BY <1>2, <2>3
    <3>2. frames[i].readers = frames[i + 1].readers
      BY <1>2, <1>6, <3>1 DEF ReadersInv
    <3> QED BY <1>2, <3>1, <3>2
  <2> QED BY <2>1, <2>2, <2>3
<1> QED BY <1>4, <1>5, <1>6 DEF ReadersInv

LEMMA PopReaders ==
    ASSUME TypesOK, ReadersInv, NEW b \in 1..Len(frames), frames' = SubSeq(frames, 1, b - 1),
           spilled' = spilled, ~spilled => readers' = frames[b].readers
    PROVE  ReadersInv'
<1> SUFFICES ASSUME ~spilled PROVE ReadersInv'
  BY DEF ReadersInv
<1> DEFINE k == Len(frames)
<1>1. /\ k \in Nat /\ b \in 1..k /\ Len(frames') = b - 1 /\ frames' \in Seq(FrameTypes)
      /\ \A i \in 1..b - 1 : frames'[i] = frames[i] /\ i \in 1..k
  BY DEF TypesOK
<1>2. frames # <<>> /\ frames[1].readers = {}
  BY <1>1 DEF ReadersInv
<1>3. frames' = <<>> <=> b = 1
  BY <1>1
<1>4. frames' = <<>> => readers' = {}
  BY <1>2, <1>3
<1>5. frames' # <<>> => frames'[1].readers = {}
  <2>1. b # 1 => 1 \in 1..b - 1
    BY <1>1
  <2> QED BY <1>1, <1>2, <1>3, <2>1
<1>6. ASSUME NEW i \in 1..Len(frames'), IsShell(frames'[i])
      PROVE  frames'[i].readers = IF i = Len(frames') THEN readers' ELSE frames'[i + 1].readers
  <2>1. i \in 1..b - 1 /\ i \in 1..k /\ i # k
    BY <1>1
  <2>2. frames'[i].readers = frames[i + 1].readers
    BY <1>1, <1>6, <2>1 DEF ReadersInv
  <2>3. CASE i = b - 1
    <3>1. i + 1 = b
      BY <1>1, <2>3
    <3> QED BY <1>1, <2>2, <2>3, <3>1
  <2>4. CASE i # b - 1
    <3>1. i + 1 \in 1..b - 1
      BY <1>1, <2>1, <2>4
    <3> QED BY <1>1, <2>2, <2>4, <3>1
  <2> QED BY <2>3, <2>4
<1> QED BY <1>4, <1>5, <1>6 DEF ReadersInv

LEMMA SameReaders ==
    ASSUME ReadersInv, frames' = frames, ~spilled' => ~spilled /\ readers' = readers
    PROVE  ReadersInv'
  BY DEF ReadersInv

LEMMA EndReaders ==
    ASSUME TypesOK, ReadersInv, End
    PROVE  ReadersInv'
<1> DEFINE k == Len(frames)
<1>1. k \in 1..Len(frames) /\ Top = frames[k]
  BY DEF End, TypesOK, Top
<1>2. frames' = SubSeq(frames, 1, k - 1) /\ spilled' = spilled
      /\ readers' = ReadersAfter
  BY DEF End
<1>3. ~spilled => readers' = frames[k].readers
  <2>1. CASE Top.kind \in {"call", "compound"}
    BY <1>1, <1>2, <2>1 DEF ReadersAfter
  <2>2. CASE Top.kind \notin {"call", "compound"}
    <3>1. frames[k] \in FrameTypes
      BY <1>1 DEF TypesOK
    <3>2. IsShell(frames[k]) /\ readers' = readers
      BY <1>1, <1>2, <2>2, <3>1 DEF FrameTypes, IsShell, ReadersAfter
    <3> QED BY <1>1, <3>2 DEF ReadersInv
  <2> QED BY <2>1, <2>2
<1> HIDE DEF k
<1> QED BY <1>1, <1>2, <1>3, PopReaders

LEMMA ExecFailsReaders ==
    ASSUME TypesOK, ReadersInv, ExecFails
    PROVE  ReadersInv'
<1> DEFINE b == First(Left)
<1>1. b \in 1..Len(frames)
  BY LeftFrom DEF ExecFails
<1>2. frames' = SubSeq(frames, 1, b - 1) /\ spilled' = spilled /\ readers' = frames[b].readers
  BY DEF ExecFails
<1> HIDE DEF b
<1> QED BY <1>1, <1>2, PopReaders

LEMMA OtherReaders ==
    ASSUME TypesOK, ReadersInv,
           FailingCommand \/ FailingCompound \/ Exec \/ ExecExits \/ Read \/ Cat \/ Exited
    PROVE  ReadersInv'
<1>1. CASE FailingCompound
  <2>1. PICK s : /\ readers' = KnownReaders(s) /\ spilled' = (spilled \/ s.here)
                 /\ frames' = frames
    BY <1>1 DEF FailingCompound
  <2>2. ~spilled' => ~spilled /\ readers' = readers
    BY <2>1 DEF KnownReaders
  <2> QED BY <2>1, <2>2, SameReaders
<1>2. CASE ExecExits
  BY <1>2 DEF ExecExits, ReadersInv
<1>3. CASE FailingCommand \/ Exec \/ Read \/ Cat \/ Exited
  <2>1. UNCHANGED <<readers, frames, spilled>>
    BY <1>3 DEF FailingCommand, Exec, Read, Cat, Exited, redirect
  <2> QED BY <2>1, SameReaders
<1> QED BY <1>1, <1>2, <1>3

LEMMA NextReaders == TypesOK /\ ReadersInv /\ [RedirectNext]_redirect => ReadersInv'
<1> SUFFICES ASSUME TypesOK, ReadersInv, [RedirectNext]_redirect PROVE ReadersInv'
  OBVIOUS
<1>1. CASE UNCHANGED redirect
  BY <1>1, SameReaders DEF redirect
<1>2. CASE CallWith
  BY <1>2, PushReaders DEF CallWith
<1>3. CASE SubshellWith
  BY <1>3, PushReaders DEF SubshellWith
<1>4. CASE PlainSubshell
  BY <1>4, PushReaders DEF PlainSubshell
<1>5. CASE Compound
  BY <1>5, PushReaders DEF Compound
<1> QED BY <1>1, <1>2, <1>3, <1>4, <1>5, EndReaders, ExecFailsReaders, OtherReaders
        DEF RedirectNext

\* Streams, files and here-documents: no command goes on with a file that was
\* closed, and between commands nothing is left but what exec opened and what the
\* error returns forget.  (runSimpleCommand, withRedirections, runSubshell, exec)
THEOREM StreamsHold == RedirectSpec => []StreamsKept
<1>1. RedirectInit => TypesOK /\ StreamsInv /\ ReadersInv
  <2>1. RedirectInit => ReadersInv
    BY DEF RedirectInit, ReadersInv
  <2> QED BY <2>1, InitStreams
<1>2. TypesOK /\ StreamsInv /\ ReadersInv /\ [RedirectNext]_redirect
        => (TypesOK /\ StreamsInv /\ ReadersInv)'
  BY NextStreams, NextReaders
<1>3. TypesOK /\ StreamsInv /\ ReadersInv => StreamsKept
  <2> SUFFICES ASSUME TypesOK, StreamsInv, ReadersInv PROVE StreamsKept
    OBVIOUS
  <2>1. StreamsAreOpen
    <3>1. \A i \in 1..Len(frames) : Files(frames[i].stdio) \subseteq open
      BY FrameAt
    <3>2. ASSUME NEW fd \in DOMAIN writers, NEW n \in Numbers, writers[fd] = File(n)
          PROVE  n \in open
      BY <3>2 DEF StreamsInv, WriterFiles
    <3> QED BY <3>1, <3>2 DEF StreamsAreOpen, StreamsInv
  <2>2. FilesAreClosed
    <3> SUFFICES ASSUME frames = <<>> PROVE open \subseteq leaked
      BY DEF FilesAreClosed
    <3>1. Closers(frames) = {}
      BY DEF Closers
    <3> QED BY <3>1 DEF StreamsInv
  <2>3. HereDocsEnd
    BY DEF HereDocsEnd, ReadersInv
  <2> QED BY <2>1, <2>2, <2>3 DEF StreamsKept
<1> QED BY <1>1, <1>2, <1>3, PTL DEF RedirectSpec

-----------------------------------------------------------------------------
(* The lines that read gets.                                                *)

\* What a command got last of an input is what left the stream and is not in the
\* buffer any more.
LinesInv ==
    /\ taken \in [Inputs -> 0..Lines] /\ held \in [Inputs -> 0..Lines]
    /\ last \in [Inputs -> 0..Lines + 1]
    /\ \A s \in Inputs : held[s] <= taken[s] /\ (s \notin skipped => last[s] = taken[s] - held[s])

Follows ==
    (from' # 0 /\ Input \notin skipped') =>
        /\ from' = last[Input] + 1
        /\ last'[Input] \in from'..Lines
OthersStay == \A s \in Inputs : (from' = 0 \/ s # Input) => last'[s] \in {0, last[s]}

LEMMA LineTypes ==
    ASSUME LinesInv, NEW s \in Inputs
    PROVE  /\ taken[s] \in Int /\ 0 <= taken[s] /\ taken[s] <= Lines
           /\ held[s] \in Int /\ 0 <= held[s] /\ held[s] <= taken[s]
           /\ last[s] \in Int /\ Lines \in Int
  BY Bounds DEF LinesInv

LEMMA SameLines ==
    ASSUME LinesInv, UNCHANGED <<taken, held, last, skipped>>
    PROVE  LinesInv' /\ OthersStay /\ (from' = 0 => Follows)
  BY DEF LinesInv, Follows, OthersStay

LEMMA ForgottenLines ==
    ASSUME LinesInv, NEW ns, Forget(ns)
    PROVE  LinesInv' /\ Follows /\ OthersStay
<1>1. /\ taken' = [s \in Inputs |-> IF \E n \in ns : s = File(n) THEN 0 ELSE taken[s]]
      /\ held' = [s \in Inputs |-> IF \E n \in ns : s = File(n) THEN 0 ELSE held[s]]
      /\ last' = [s \in Inputs |-> IF \E n \in ns : s = File(n) THEN 0 ELSE last[s]]
      /\ skipped' = skipped \ {File(n) : n \in ns}
      /\ from' = 0
  BY DEF Forget
<1>2. 0 \in 0..Lines /\ 0 \in 0..Lines + 1
  BY Bounds
<1>3. /\ taken' \in [Inputs -> 0..Lines] /\ held' \in [Inputs -> 0..Lines]
      /\ last' \in [Inputs -> 0..Lines + 1]
  BY <1>1, <1>2 DEF LinesInv
<1>4. ASSUME NEW s \in Inputs
      PROVE  /\ held'[s] <= taken'[s]
             /\ s \notin skipped' => last'[s] = taken'[s] - held'[s]
             /\ last'[s] \in {0, last[s]}
  <2>1. CASE \E n \in ns : s = File(n)
    <3>1. taken'[s] = 0 /\ held'[s] = 0 /\ last'[s] = 0
      BY <1>1, <2>1
    <3> QED BY <3>1
  <2>2. CASE ~\E n \in ns : s = File(n)
    <3>1. /\ taken'[s] = taken[s] /\ held'[s] = held[s] /\ last'[s] = last[s]
          /\ s \notin skipped' => s \notin skipped
      BY <1>1, <2>2
    <3> QED BY <3>1 DEF LinesInv
  <2> QED BY <2>1, <2>2
<1> QED BY <1>1, <1>3, <1>4 DEF LinesInv, Follows, OthersStay

\* One input goes on, the others stay where they are.
LEMMA InputStep ==
    ASSUME LinesInv, NEW i \in Inputs, NEW t \in 0..Lines, NEW h \in 0..Lines, NEW l \in 0..Lines + 1,
           taken' = [taken EXCEPT ![i] = t], held' = [held EXCEPT ![i] = h],
           last' = [last EXCEPT ![i] = l],
           skipped' \in {skipped, skipped \cup {i}},
           h <= t, i \notin skipped' => l = t - h
    PROVE  LinesInv' /\ last'[i] = l /\ \A s \in Inputs \ {i} : last'[s] = last[s]
<1>1. /\ taken' \in [Inputs -> 0..Lines] /\ held' \in [Inputs -> 0..Lines]
      /\ last' \in [Inputs -> 0..Lines + 1]
  BY DEF LinesInv
<1>2. /\ taken'[i] = t /\ held'[i] = h /\ last'[i] = l
      /\ \A s \in Inputs \ {i} : taken'[s] = taken[s] /\ held'[s] = held[s] /\ last'[s] = last[s]
                                 /\ (s \in skipped' <=> s \in skipped)
  BY DEF LinesInv
<1>3. ASSUME NEW s \in Inputs
      PROVE  held'[s] <= taken'[s] /\ (s \notin skipped' => last'[s] = taken'[s] - held'[s])
  <2>1. CASE s = i
    BY <1>2, <2>1
  <2>2. CASE s # i
    BY <1>2, <2>2 DEF LinesInv
  <2> QED BY <2>1, <2>2
<1> QED BY <1>1, <1>2, <1>3 DEF LinesInv

LEMMA ReadLines ==
    ASSUME LinesInv, Read
    PROVE  LinesInv' /\ Follows /\ OthersStay
<1> DEFINE i == Input
           h == IF held[i] > 0 THEN held[i] - 1 ELSE Filled - 1
           t == IF held[i] > 0 THEN taken[i] ELSE taken[i] + Filled
           l == taken[i] - held[i] + 1
<1>1. /\ i \in Inputs /\ (held[i] > 0 \/ taken[i] < Lines)
      /\ last' = [last EXCEPT ![i] = l] /\ from' = l /\ skipped' = skipped
      /\ IF held[i] > 0
         THEN taken' = taken /\ held' = [held EXCEPT ![i] = @ - 1]
         ELSE taken' = [taken EXCEPT ![i] = @ + Filled] /\ held' = [held EXCEPT ![i] = Filled - 1]
  BY DEF Read, LineOf
<1>2. /\ taken[i] \in Int /\ 0 <= taken[i] /\ taken[i] <= Lines
      /\ held[i] \in Int /\ 0 <= held[i] /\ held[i] <= taken[i]
      /\ last[i] \in Int /\ Lines \in Int
  BY <1>1, LineTypes
<1>3. Filled \in Int /\ (held[i] = 0 => 1 <= Filled /\ Filled <= Lines - taken[i])
  BY <1>1, <1>2, Bounds DEF Filled, Least
<1>4. taken = [taken EXCEPT ![i] = taken[i]]
  BY DEF LinesInv
<1>5. taken' = [taken EXCEPT ![i] = t] /\ held' = [held EXCEPT ![i] = h]
  <2>1. CASE held[i] > 0
    BY <1>1, <1>4, <2>1
  <2>2. CASE ~(held[i] > 0)
    BY <1>1, <2>2
  <2> QED BY <2>1, <2>2
<1>6. t \in 0..Lines /\ h \in 0..Lines /\ l \in 0..Lines + 1 /\ h <= t /\ l = t - h
  BY <1>2, <1>3
<1>7. i \notin skipped => l = last[i] + 1
  BY <1>1, <1>2 DEF LinesInv
<1>8. 1 <= l /\ l <= Lines /\ l \in Int
  BY <1>1, <1>2
<1>9. ASSUME last'[i] = l, \A s \in Inputs \ {i} : last'[s] = last[s]
      PROVE  Follows /\ OthersStay
  <2>1. from' = l /\ l # 0 /\ (i \notin skipped' => l = last[i] + 1) /\ last'[i] \in l..Lines
    BY <1>1, <1>2, <1>7, <1>8, <1>9
  <2>2. Follows
    BY <2>1 DEF Follows
  <2>3. OthersStay
    BY <1>9, <2>1 DEF OthersStay
  <2> QED BY <2>2, <2>3
<1>10. i \in Inputs /\ last' = [last EXCEPT ![i] = l]
       /\ skipped' \in {skipped, skipped \cup {i}} /\ (i \notin skipped' => l = t - h)
  BY <1>1, <1>6
<1> HIDE DEF i, h, t, l
<1>11. LinesInv' /\ last'[i] = l /\ \A s \in Inputs \ {i} : last'[s] = last[s]
  BY <1>5, <1>6, <1>10, InputStep
<1> QED BY <1>9, <1>11

LEMMA CatLines ==
    ASSUME LinesInv, Cat
    PROVE  LinesInv' /\ Follows /\ OthersStay
<1> DEFINE i == Input
           h == IF stdio.in.buffered THEN 0 ELSE held[i]
<1>1. /\ i \in Inputs
      /\ skipped' = IF stdio.in.buffered \/ held[i] = 0 THEN skipped ELSE skipped \cup {i}
      /\ held' = IF stdio.in.buffered THEN [held EXCEPT ![i] = 0] ELSE held
      /\ taken' = [taken EXCEPT ![i] = Lines] /\ last' = [last EXCEPT ![i] = Lines]
      /\ taken[i] < Lines \/ (stdio.in.buffered /\ held[i] > 0)
      /\ from' = IF stdio.in.buffered THEN taken[i] - held[i] + 1 ELSE taken[i] + 1
  BY DEF Cat, LineOf
<1>2. /\ taken[i] \in Int /\ 0 <= taken[i] /\ taken[i] <= Lines
      /\ held[i] \in Int /\ 0 <= held[i] /\ held[i] <= taken[i]
      /\ last[i] \in Int /\ Lines \in Int
  BY <1>1, LineTypes
<1>3. held = [held EXCEPT ![i] = held[i]]
  BY DEF LinesInv
<1>4. held' = [held EXCEPT ![i] = h]
  BY <1>1, <1>3
<1>5. h \in 0..Lines /\ h <= Lines /\ Lines \in 0..Lines /\ Lines \in 0..Lines + 1
  BY <1>2
<1>6. i \notin skipped' => Lines = Lines - h
  BY <1>1, <1>2
<1>7. skipped' \in {skipped, skipped \cup {i}}
  BY <1>1
<1>8. i \notin skipped' => i \notin skipped /\ (stdio.in.buffered \/ held[i] = 0)
  BY <1>1
<1>9. from' \in Int /\ 1 <= from' /\ from' <= Lines
  BY <1>1, <1>2
<1>10. i \notin skipped' => from' = last[i] + 1
  BY <1>1, <1>2, <1>8 DEF LinesInv
<1>11. ASSUME last'[i] = Lines, \A s \in Inputs \ {i} : last'[s] = last[s]
       PROVE  Follows /\ OthersStay
  <2>1. Follows
    BY <1>2, <1>9, <1>10, <1>11 DEF Follows
  <2>2. OthersStay
    BY <1>9, <1>11 DEF OthersStay
  <2> QED BY <2>1, <2>2
<1> HIDE DEF i, h
<1>12. LinesInv' /\ last'[i] = Lines /\ \A s \in Inputs \ {i} : last'[s] = last[s]
  BY <1>1, <1>4, <1>5, <1>6, <1>7, InputStep
<1> QED BY <1>11, <1>12

LEMMA InitLines == RedirectInit => LinesInv
<1> SUFFICES ASSUME RedirectInit PROVE LinesInv
  OBVIOUS
<1>1. taken = [s \in Inputs |-> 0] /\ held = taken /\ last = taken
  BY DEF RedirectInit
<1>2. 0 \in 0..Lines /\ 0 \in 0..Lines + 1
  BY Bounds
<1> QED BY <1>1, <1>2 DEF LinesInv

LEMMA NextLines ==
    LinesInv /\ [RedirectNext]_redirect => LinesInv' /\ [Follows /\ OthersStay]_redirect
<1> SUFFICES ASSUME LinesInv, [RedirectNext]_redirect
             PROVE  LinesInv' /\ [Follows /\ OthersStay]_redirect
  OBVIOUS
<1>0. CASE Exited \/ UNCHANGED redirect
  <2>1. UNCHANGED redirect
    BY <1>0 DEF Exited
  <2> QED BY <2>1, SameLines DEF redirect
<1>1. CASE PlainSubshell
  BY <1>1, SameLines DEF PlainSubshell
<1>2. CASE FailingCommand \/ FailingCompound
  BY <1>2, ForgottenLines DEF FailingCommand, FailingCompound, Fail, NewFiles
<1>3. CASE CallWith \/ SubshellWith \/ Compound
  BY <1>3, ForgottenLines DEF CallWith, SubshellWith, Compound, NewFiles
<1>4. CASE Exec
  <2>1. \E n : Forget(Opened(n))
    BY <1>4 DEF Exec, NewFiles
  <2> QED BY <2>1, ForgottenLines
<1>5. CASE ExecFails
  <2>1. \E ns : Forget(ns)
    BY <1>5 DEF ExecFails
  <2> QED BY <2>1, ForgottenLines
<1>6. CASE ExecExits \/ End
  BY <1>6, ForgottenLines DEF ExecExits, End
<1> QED BY <1>0, <1>1, <1>2, <1>3, <1>4, <1>5, <1>6, ReadLines, CatLines DEF RedirectNext

\* Each read or cat of a script starts at the line after the last that was got of its
\* input, and takes nothing of another, whatever functions, blocks and subshells share
\* the buffer, until cat goes past the lines in it.
\* (read, readBufs, the reader that stands in for the stream)
THEOREM LinesHold == RedirectSpec => LinesInOrder
<1>1. LinesInv /\ [RedirectNext]_redirect => [Follows /\ OthersStay]_redirect
  BY NextLines
<1>2. LinesInv /\ [RedirectNext]_redirect => LinesInv'
  BY NextLines
<1>3. [Follows /\ OthersStay]_redirect => [
        /\ (from' # 0 /\ Input \notin skipped') =>
                /\ from' = last[Input] + 1
                /\ last'[Input] \in from'..Lines
        /\ \A s \in Inputs : (from' = 0 \/ s # Input) => last'[s] \in {0, last[s]}]_redirect
  BY DEF Follows, OthersStay
<1> QED BY InitLines, <1>1, <1>2, <1>3, PTL DEF RedirectSpec, LinesInOrder

-----------------------------------------------------------------------------
(* The variables.                                                           *)

(* A state is looked at through cs, the calls under way, and ls, the frames *)
(* of local, so that lemmas can speak of the state after a step too.        *)

-----------------------------------------------------------------------------
(* The functions that are under way in one runner.                          *)

Funs(cs, i) == {m \in 1..i :
    cs[m].kind = "function" /\ \A l \in m..i : cs[l].kind # "substitution"}
Count(cs, i) == Cardinality(Funs(cs, i))

LEMMA FunsFinite ==
    ASSUME NEW cs, NEW i \in Nat
    PROVE  IsFiniteSet(Funs(cs, i)) /\ Count(cs, i) \in Nat
<1>1. IsFiniteSet(1..i)
  BY FS_Interval
<1>2. IsFiniteSet(Funs(cs, i))
  BY <1>1, FS_Subset DEF Funs
<1> QED BY <1>2, FS_CardinalityType DEF Count

LEMMA CountKinds ==
    ASSUME NEW cs, NEW ds, NEW i \in Nat, \A m \in 1..i : ds[m].kind = cs[m].kind
    PROVE  Count(ds, i) = Count(cs, i)
<1>1. ASSUME NEW m \in 1..i PROVE m \in Funs(ds, i) <=> m \in Funs(cs, i)
  <2>1. \A l \in m..i : l \in 1..i
    OBVIOUS
  <2> QED BY <2>1 DEF Funs
<1>2. Funs(ds, i) = Funs(cs, i)
  BY <1>1 DEF Funs
<1> QED BY <1>2 DEF Count

LEMMA CountNone == ASSUME NEW cs PROVE Count(cs, 0) = 0
<1>1. Funs(cs, 0) = {}
  BY DEF Funs
<1> QED BY <1>1, FS_EmptySet DEF Count

LEMMA CountNext ==
    ASSUME NEW cs, NEW k \in Nat
    PROVE  /\ cs[k + 1].kind = "function" => Count(cs, k + 1) = Count(cs, k) + 1
           /\ cs[k + 1].kind = "subshell" => Count(cs, k + 1) = Count(cs, k)
           /\ cs[k + 1].kind = "substitution" => Count(cs, k + 1) = 0
<1>0. \A m \in 1..k + 1 : m \in 1..k \/ m = k + 1
  OBVIOUS
<1>1. ASSUME NEW m \in 1..k, cs[k + 1].kind # "substitution"
      PROVE  m \in Funs(cs, k + 1) <=> m \in Funs(cs, k)
  <2>1. m \in 1..k + 1 /\ \A l \in m..k + 1 : l \in m..k \/ l = k + 1
    OBVIOUS
  <2>2. \A l \in m..k : l \in m..k + 1
    OBVIOUS
  <2> QED BY <1>1, <2>1, <2>2 DEF Funs
<1>2. CASE cs[k + 1].kind = "function"
  <2>1. k + 1 \in Funs(cs, k + 1)
    BY <1>2 DEF Funs
  <2>2. k + 1 \notin Funs(cs, k)
    BY DEF Funs
  <2>3. Funs(cs, k + 1) \subseteq 1..k + 1 /\ Funs(cs, k) \subseteq 1..k
    BY DEF Funs
  <2>4. Funs(cs, k + 1) = Funs(cs, k) \cup {k + 1}
    BY <1>0, <1>1, <1>2, <2>1, <2>3
  <2> QED BY <1>2, <2>2, <2>4, FunsFinite, FS_AddElement DEF Count
<1>3. CASE cs[k + 1].kind = "subshell"
  <2>1. k + 1 \notin Funs(cs, k + 1)
    BY <1>3 DEF Funs
  <2>2. Funs(cs, k + 1) \subseteq 1..k + 1 /\ Funs(cs, k) \subseteq 1..k
    BY DEF Funs
  <2>3. Funs(cs, k + 1) = Funs(cs, k)
    BY <1>0, <1>1, <1>3, <2>1, <2>2
  <2> QED BY <1>3, <2>3 DEF Count
<1>4. CASE cs[k + 1].kind = "substitution"
  <2>1. ASSUME NEW m \in 1..k + 1 PROVE m \notin Funs(cs, k + 1)
    <3>1. k + 1 \in m..k + 1
      OBVIOUS
    <3> QED BY <1>4, <3>1 DEF Funs
  <2>2. Funs(cs, k + 1) = {}
    BY <2>1 DEF Funs
  <2> QED BY <1>4, <2>2, FS_EmptySet DEF Count
<1> QED BY <1>2, <1>3, <1>4

\* The frames of functions of one runner are apart, and in the order of the calls.
LEMMA CountOrder ==
    ASSUME NEW cs, NEW i \in Nat, NEW j \in Nat, i <= j,
           \A l \in i + 1..j : cs[l].kind # "substitution"
    PROVE  /\ Count(cs, i) <= Count(cs, j)
           /\ i < j /\ cs[j].kind = "function" => Count(cs, i) < Count(cs, j)
<1>1. ASSUME NEW m \in Funs(cs, i) PROVE m \in Funs(cs, j)
  <2>1. m \in 1..i /\ m \in 1..j /\ \A l \in m..j : l \in m..i \/ l \in i + 1..j
    BY DEF Funs
  <2> QED BY <2>1 DEF Funs
<1>2. Count(cs, i) <= Count(cs, j)
  BY <1>1, FunsFinite, FS_Subset DEF Count
<1>3. ASSUME i < j, cs[j].kind = "function" PROVE Count(cs, i) < Count(cs, j)
  <2>1. j \in Funs(cs, j)
    BY <1>3 DEF Funs
  <2>2. j \notin Funs(cs, i)
    BY <1>3 DEF Funs
  <2>3. Funs(cs, i) # Funs(cs, j)
    BY <2>1, <2>2
  <2> QED BY <1>1, <2>3, FunsFinite, FS_Subset DEF Count
<1> QED BY <1>2, <1>3

LEMMA CountFunction ==
    ASSUME NEW cs, NEW i \in Nat \ {0}, cs[i].kind = "function"
    PROVE  Count(cs, i) \in Nat \ {0}
<1>1. i \in Funs(cs, i)
  BY DEF Funs
<1> QED BY <1>1, FunsFinite, FS_EmptySet DEF Count

-----------------------------------------------------------------------------
(* The frame of local of a function: among those of the runner, or among    *)
(* those that the first substitution inside the function saved.             *)

Substs(cs, i) == {s \in i..Len(cs) : cs[s].kind = "substitution"}
LeastOf(S) == CHOOSE s \in S : \A k \in S : s <= k
FrameOf(cs, ls, i) == IF Substs(cs, i) = {} THEN ls[Count(cs, i)]
                      ELSE cs[LeastOf(Substs(cs, i))].localStack[Count(cs, i)]

Shape(cs, ls) ==
    /\ Len(ls) = Count(cs, Len(cs))
    /\ \A i \in 1..Len(cs) : cs[i].kind = "substitution" => Len(cs[i].localStack) = Count(cs, i - 1)

LEMMA LeastIsMember ==
    ASSUME NEW S \in SUBSET Nat, S # {}
    PROVE  LeastOf(S) \in S /\ \A k \in S : LeastOf(S) <= k
<1>1. PICK n \in S : \A k \in S : ~(<<k, n>> \in OpToRel(<, Nat))
  BY WFMin, NatLessThanWellFounded
<1>2. ASSUME NEW k \in S PROVE n <= k
  <2>1. k \in Nat /\ n \in Nat /\ ~(k < n)
    BY <1>1 DEF OpToRel
  <2> QED BY <2>1
<1> QED BY <1>2 DEF LeastOf

LEMMA LeastIs ==
    ASSUME NEW S \in SUBSET Nat, NEW s \in S, \A k \in S : s <= k
    PROVE  LeastOf(S) = s
<1>1. LeastOf(S) \in S /\ LeastOf(S) <= s /\ s <= LeastOf(S)
  BY LeastIsMember
<1>2. LeastOf(S) \in Nat /\ s \in Nat
  BY <1>1
<1> QED BY <1>1, <1>2

\* One more call, or one less.
Grows(ls, c, ms) ==
    \/ c.kind = "function" /\ \E f : ms = Append(ls, f)
    \/ c.kind = "subshell" /\ ms = ls
    \/ c.kind = "substitution" /\ c.localStack = ls

Longer(cs, c) == Append(cs, c)

LEMMA LongerSeq ==
    ASSUME NEW T, NEW cs \in Seq(T), NEW c \in T
    PROVE  /\ Longer(cs, c) \in Seq(T) /\ Len(cs) \in Nat /\ Len(Longer(cs, c)) = Len(cs) + 1
           /\ Longer(cs, c)[Len(cs) + 1] = c
           /\ \A i \in 1..Len(cs) : Longer(cs, c)[i] = cs[i]
  BY DEF Longer

LEMMA LongerCount ==
    ASSUME NEW T, NEW cs \in Seq(T), NEW c \in T, NEW i \in 0..Len(cs)
    PROVE  Count(Longer(cs, c), i) = Count(cs, i)
<1> DEFINE ds == Longer(cs, c)
<1>1. Len(cs) \in Nat /\ \A m \in 1..Len(cs) : ds[m] = cs[m]
  BY LongerSeq
<1>2. i \in Nat /\ \A m \in 1..i : m \in 1..Len(cs)
  BY <1>1
<1> HIDE DEF ds
<1>3. \A m \in 1..i : ds[m].kind = cs[m].kind
  BY <1>1, <1>2
<1>4. Count(ds, i) = Count(cs, i)
  BY <1>2, <1>3, CountKinds
<1> QED BY <1>4 DEF ds

LEMMA FramesStay ==
    ASSUME NEW T, NEW cs \in Seq(T), NEW c \in T, NEW F, NEW ls \in Seq(F), NEW ms,
           \A f : ms = Append(ls, f) => f \in F,
           Shape(cs, ls), Grows(ls, c, ms),
           NEW i \in 1..Len(cs), cs[i].kind = "function"
    PROVE  FrameOf(Longer(cs, c), ms, i) = FrameOf(cs, ls, i)
<1> DEFINE ds == Longer(cs, c)
           k == Len(cs)
           S == Substs(cs, i)
<1>1. /\ k \in Nat /\ Len(ds) = k + 1 /\ ds[k + 1] = c /\ i \in 0..k
      /\ \A j \in 1..k : ds[j] = cs[j]
  BY LongerSeq
<1>2. Count(ds, i) = Count(cs, i)
  BY <1>1, LongerCount
<1>3. S \in SUBSET Nat /\ \A s \in S : s \in i..k /\ s \in 1..k /\ cs[s].kind = "substitution"
  BY <1>1 DEF Substs
<1> HIDE DEF ds, k
<1>4. \A s : s \in i..k + 1 => s = k + 1 \/ (s \in i..k /\ s \in 1..k)
  BY <1>1 DEF k
<1>5. c.kind # "substitution" => Substs(ds, i) = S
  BY <1>1, <1>3, <1>4 DEF Substs, k
<1>6. c.kind = "substitution" => Substs(ds, i) = S \cup {k + 1}
  <2>1. \A s \in i..k : s \in i..k + 1
    BY <1>1
  <2>2. k + 1 \in i..k + 1
    BY <1>1
  <2> QED BY <1>1, <1>3, <1>4, <2>1, <2>2 DEF Substs, k
<1>7. CASE S # {}
  <2>1. LeastOf(S) \in S /\ \A s \in S : LeastOf(S) <= s
    BY <1>3, <1>7, LeastIsMember
  <2> HIDE DEF S
  <2>2. Substs(ds, i) # {} /\ LeastOf(Substs(ds, i)) = LeastOf(S)
    <3>1. CASE c.kind # "substitution"
      BY <1>5, <1>7, <3>1
    <3>2. CASE c.kind = "substitution"
      <4>1. S \cup {k + 1} \in SUBSET Nat
        BY <1>1, <1>3
      <4>2. LeastOf(S) \in i..k
        BY <1>3, <2>1
      <4>3. LeastOf(S) <= k + 1
        BY <1>1, <4>2
      <4>4. \A s \in S \cup {k + 1} : LeastOf(S) <= s
        BY <2>1, <4>3
      <4> QED BY <1>6, <2>1, <3>2, <4>1, <4>4, LeastIs
    <3> QED BY <3>1, <3>2
  <2>3. ds[LeastOf(S)] = cs[LeastOf(S)]
    BY <1>1, <1>3, <2>1
  <2> QED BY <1>2, <1>7, <2>2, <2>3 DEF FrameOf, S, ds
<1>8. CASE S = {}
  <2>1. FrameOf(cs, ls, i) = ls[Count(cs, i)]
    BY <1>8 DEF FrameOf
  <2>2. Count(cs, i) \in 1..Len(ls)
    <3>1. ASSUME NEW l \in i + 1..k PROVE cs[l].kind # "substitution"
      <4>1. l \in i..k
        BY <1>1
      <4> QED BY <1>8, <4>1 DEF Substs, k
    <3>2. Count(cs, i) <= Count(cs, k)
      BY <1>1, <3>1, CountOrder
    <3>3. Count(cs, i) \in Nat \ {0}
      BY CountFunction
    <3>4. Len(ls) = Count(cs, k) /\ Len(ls) \in Nat
      BY DEF Shape, k
    <3> QED BY <3>2, <3>3, <3>4
  <2>3. CASE c.kind # "substitution"
    <3>1. FrameOf(ds, ms, i) = ms[Count(cs, i)]
      BY <1>2, <1>5, <1>8, <2>3 DEF FrameOf
    <3>2. ms[Count(cs, i)] = ls[Count(cs, i)]
      BY <2>2, <2>3 DEF Grows
    <3> QED BY <2>1, <3>1, <3>2 DEF ds
  <2>4. CASE c.kind = "substitution"
    <3>1. Substs(ds, i) = {k + 1}
      BY <1>6, <1>8, <2>4
    <3>2. LeastOf({k + 1}) = k + 1
      BY <1>1, LeastIs
    <3>3. FrameOf(ds, ms, i) = c.localStack[Count(cs, i)]
      BY <1>1, <1>2, <3>1, <3>2 DEF FrameOf
    <3> QED BY <2>1, <2>4, <3>3 DEF Grows, ds
  <2> QED BY <2>3, <2>4
<1> QED BY <1>7, <1>8

LEMMA ShapeGrows ==
    ASSUME NEW T, NEW cs \in Seq(T), NEW c \in T, NEW ls, NEW ms,
           Shape(cs, ls), Grows(ls, c, ms),
           c.kind = "function" => Len(ms) = Len(ls) + 1,
           c.kind = "substitution" => Len(ms) = 0
    PROVE  Shape(Longer(cs, c), ms)
<1> DEFINE ds == Longer(cs, c)
           k == Len(cs)
<1>0. /\ Longer(cs, c) \in Seq(T) /\ Len(cs) \in Nat /\ Len(Longer(cs, c)) = Len(cs) + 1
      /\ Longer(cs, c)[Len(cs) + 1] = c
      /\ \A j \in 1..Len(cs) : Longer(cs, c)[j] = cs[j]
  BY DEF Longer
<1>1. /\ k \in Nat /\ Len(ds) = k + 1 /\ ds[k + 1] = c
      /\ \A j \in 1..k : ds[j] = cs[j]
  BY <1>0, Zenon
<1>2. \A j \in 0..k : Count(ds, j) = Count(cs, j)
  BY LongerCount
<1> HIDE DEF ds
<1>3. Count(ds, k) = Len(ls) /\ k \in 0..k
  BY <1>1, <1>2 DEF Shape
<1>4. Len(ms) = Count(ds, k + 1)
  BY <1>1, <1>3, CountNext DEF Grows
<1>5. ASSUME NEW i \in 1..k + 1, ds[i].kind = "substitution"
      PROVE  Len(ds[i].localStack) = Count(ds, i - 1)
  <2>1. CASE i = k + 1
    <3>1. i - 1 = k /\ ds[i] = c
      BY <1>1, <2>1
    <3> QED BY <1>3, <1>5, <3>1 DEF Grows
  <2>2. CASE i # k + 1
    <3>1. i \in 1..k /\ i - 1 \in 0..k
      BY <1>1, <2>2
    <3> QED BY <1>1, <1>2, <1>5, <3>1 DEF Shape
  <2> QED BY <2>1, <2>2
<1> QED BY <1>1, <1>4, <1>5 DEF Shape, ds

LEMMA ShapeShrinks ==
    ASSUME NEW T, NEW cs \in Seq(T), NEW c \in T, NEW ls, NEW ms,
           Shape(Longer(cs, c), ms), Grows(ls, c, ms),
           c.kind = "function" => Len(ms) = Len(ls) + 1, Len(ls) \in Nat
    PROVE  Shape(cs, ls)
<1> DEFINE ds == Longer(cs, c)
           k == Len(cs)
<1>1. /\ k \in Nat /\ Len(ds) = k + 1 /\ ds[k + 1] = c
      /\ \A j \in 1..k : ds[j] = cs[j]
  BY LongerSeq
<1>2. \A j \in 0..k : Count(ds, j) = Count(cs, j)
  BY LongerCount
<1>3. Shape(ds, ms)
  OBVIOUS
<1> HIDE DEF ds
<1>4. Count(ds, k) = Count(cs, k) /\ Count(cs, k) \in Nat
  BY <1>1, <1>2, FunsFinite
<1>5. Len(ls) = Count(cs, k)
  <2>1. CASE c.kind = "substitution"
    <3>1. k + 1 \in 1..Len(ds) /\ k + 1 - 1 = k
      BY <1>1
    <3> QED BY <1>1, <1>3, <1>4, <2>1, <3>1 DEF Shape, Grows
  <2>2. CASE c.kind = "function"
    <3>1. Len(ms) = Count(cs, k) + 1
      BY <1>1, <1>3, <1>4, <2>2, CountNext DEF Shape
    <3> QED BY <1>4, <2>2, <3>1
  <2>3. CASE c.kind = "subshell"
    BY <1>1, <1>3, <1>4, <2>3, CountNext DEF Shape, Grows
  <2> QED BY <2>1, <2>2, <2>3 DEF Grows
<1>6. ASSUME NEW i \in 1..k, cs[i].kind = "substitution"
      PROVE  Len(cs[i].localStack) = Count(cs, i - 1)
  <2>1. i \in 1..Len(ds) /\ i - 1 \in 0..k /\ ds[i] = cs[i]
    BY <1>1
  <2> QED BY <1>2, <1>3, <1>6, <2>1 DEF Shape
<1> QED BY <1>5, <1>6 DEF Shape

\* The function that was called last has the last frame.
LEMMA TopFrame ==
    ASSUME NEW cs, NEW ls, Shape(cs, ls), Len(cs) \in Nat, NEW i \in 1..Len(cs),
           cs[i].kind = "function",
           \A j \in i + 1..Len(cs) : cs[j].kind = "subshell"
    PROVE  /\ Substs(cs, i) = {} /\ Count(cs, i) = Len(ls)
           /\ FrameOf(cs, ls, i) = ls[Len(ls)]
<1> DEFINE k == Len(cs)
<1>0. \A s \in i..k : s = i \/ s \in i + 1..k
  OBVIOUS
<1>1. Substs(cs, i) = {}
  BY <1>0 DEF Substs
<1>2. Count(cs, i) = Count(cs, k)
  <2>1. ASSUME NEW m \in 1..k PROVE m \in Funs(cs, k) <=> m \in 1..i /\ m \in Funs(cs, i)
    <3>1. CASE m \in i + 1..k
      <4>1. cs[m].kind = "subshell" /\ m \notin 1..i
        BY <3>1
      <4> QED BY <4>1 DEF Funs
    <3>2. CASE m \notin i + 1..k
      <4>1. m \in 1..i
        BY <3>2
      <4>2. \A l \in m..k : l \in m..i \/ l \in i + 1..k
        OBVIOUS
      <4>3. \A l \in m..i : l \in m..k
        OBVIOUS
      <4> QED BY <4>1, <4>2, <4>3 DEF Funs
    <3> QED BY <3>1, <3>2
  <2>2. Funs(cs, k) \subseteq 1..k /\ Funs(cs, i) \subseteq 1..i /\ 1..i \subseteq 1..k
    BY DEF Funs
  <2>3. Funs(cs, k) = Funs(cs, i)
    BY <2>1, <2>2
  <2> QED BY <2>3 DEF Count
<1> QED BY <1>1, <1>2 DEF Shape, FrameOf

-----------------------------------------------------------------------------
(* Types.                                                                   *)

Maps   == [Names -> Slots]
Frames == [Names -> Slots \cup {NotSaved}]
CallTypes == [kind : {"function", "subshell", "substitution"}, prefix : Names \cup {NoName},
              vars : Maps, exported : SUBSET Names, readonly : SUBSET Names,
              localStack : Seq(Frames), touched : SUBSET Names, locals : SUBSET Names]

Types ==
    /\ vars \in Maps /\ env \in Maps
    /\ exported \in SUBSET Names /\ readonly \in SUBSET Names
    /\ dying \in BOOLEAN
    /\ localStack \in Seq(Frames) /\ calls \in Seq(CallTypes)

LEMMA CallAt ==
    ASSUME Types, NEW i \in 1..Len(calls)
    PROVE  /\ calls[i] \in CallTypes
           /\ calls[i].kind \in {"function", "subshell", "substitution"}
           /\ calls[i].prefix \in Names \cup {NoName} /\ calls[i].vars \in Maps
           /\ calls[i].exported \in SUBSET Names /\ calls[i].readonly \in SUBSET Names
           /\ calls[i].localStack \in Seq(Frames)
           /\ calls[i].touched \in SUBSET Names /\ calls[i].locals \in SUBSET Names
<1>1. calls[i] \in CallTypes
  BY DEF Types
<1> QED BY <1>1 DEF CallTypes

LEMMA Slot ==
    /\ Unset \in Slots /\ \A v \in Values : v \in Slots /\ v # Unset
    /\ \A v \in Slots : v # NotSaved
  BY ScopeAssumption DEF Slots, Unset, NotSaved

\* Two states with the same calls under way, up to what was noted in them.
Alike(cs, ds) ==
    /\ Len(cs) = Len(ds)
    /\ \A i \in 1..Len(cs) :
          /\ ds[i].kind = cs[i].kind /\ ds[i].prefix = cs[i].prefix /\ ds[i].vars = cs[i].vars
          /\ ds[i].exported = cs[i].exported /\ ds[i].readonly = cs[i].readonly
          /\ ds[i].localStack = cs[i].localStack

\* Calls with a note of a name added in some of them.
LEMMA WroteTypes ==
    ASSUME Types, NEW n \in Names, NEW m, WroteIn(n, m)
    PROVE  /\ calls' \in Seq(CallTypes) /\ Alike(calls, calls')
           /\ \A i \in 1..Len(calls) :
                 /\ calls'[i].locals = calls[i].locals
                 /\ calls'[i].touched = IF i \in Reached(n, m)
                                        THEN calls[i].touched \cup {n} ELSE calls[i].touched
<1> DEFINE S == Reached(n, m)
           ds == [i \in 1..Len(calls) |->
                    IF i \in S THEN [calls[i] EXCEPT !.touched = @ \cup {n}] ELSE calls[i]]
<1>0. calls' = ds
  BY DEF WroteIn
<1> HIDE DEF S
<1>1. Len(calls) \in Nat /\ DOMAIN ds = 1..Len(calls)
  BY DEF Types
<1>2. ASSUME NEW i \in 1..Len(calls)
      PROVE  /\ ds[i] \in CallTypes
             /\ ds[i].kind = calls[i].kind /\ ds[i].prefix = calls[i].prefix
             /\ ds[i].vars = calls[i].vars
             /\ ds[i].exported = calls[i].exported /\ ds[i].readonly = calls[i].readonly
             /\ ds[i].localStack = calls[i].localStack
             /\ ds[i].locals = calls[i].locals
             /\ ds[i].touched = IF i \in S THEN calls[i].touched \cup {n} ELSE calls[i].touched
  <2>1. calls[i] \in CallTypes
    BY CallAt
  <2>2. CASE i \in S
    <3>1. ds[i] = [calls[i] EXCEPT !.touched = @ \cup {n}]
      BY <2>2
    <3> QED BY <2>1, <2>2, <3>1 DEF CallTypes
  <2>3. CASE i \notin S
    BY <2>1, <2>3
  <2> QED BY <2>2, <2>3
<1>3. ds \in [1..Len(calls) -> CallTypes]
  BY <1>2
<1>4. ds \in Seq(CallTypes) /\ Len(ds) = Len(calls)
  BY <1>1, <1>3
<1> HIDE DEF ds
<1> QED BY <1>0, <1>2, <1>4 DEF Alike, S

\* local in a subshell works on the frame of the function the subshell is in.
Functions == {i \in 1..Len(calls) : calls[i].kind = "function"}
Innermost == CHOOSE i \in Functions : \A k \in Functions : k <= i

LEMMA InnermostIs ==
    ASSUME Types, Shape(calls, localStack), localStack # <<>>
    PROVE  /\ Innermost \in 1..Len(calls) /\ calls[Innermost].kind = "function"
           /\ \A j \in Innermost + 1..Len(calls) : calls[j].kind = "subshell"
<1> DEFINE k == Len(calls)
           F == Functions
<1>1. k \in Nat /\ Len(localStack) \in Nat /\ Len(localStack) # 0
  BY DEF Types
<1>2. Funs(calls, k) # {}
  BY <1>1, FS_EmptySet DEF Shape, Count
<1>3. PICK f \in 1..k : calls[f].kind = "function" /\ \A l \in f..k : calls[l].kind # "substitution"
  BY <1>2 DEF Funs
<1>4. f \in F /\ \A i \in F : i \in 1..k /\ calls[i].kind = "function"
  BY <1>3 DEF Functions
<1>5. \A i \in 1..k : calls[i].kind = "function" => i \in F
  BY DEF Functions
<1> HIDE DEF F
<1> DEFINE B == {j \in Nat : \A i \in F : i <= j}
<1>6. k \in B /\ B \in SUBSET Nat
  BY <1>1, <1>4
<1>7. LeastOf(B) \in B /\ \A j \in B : LeastOf(B) <= j
  BY <1>6, LeastIsMember
<1> DEFINE m == LeastOf(B)
<1>8. m \in Nat /\ \A i \in F : i <= m
  BY <1>7
<1>9. \A j \in Nat : (\A i \in F : i <= j) => m <= j
  BY <1>7
<1> HIDE DEF m, B
<1>10. m \in F
  <2> SUFFICES ASSUME m \notin F PROVE FALSE
    OBVIOUS
  <2>1. f \in Nat /\ f >= 1 /\ f <= m
    BY <1>4, <1>8
  <2>2. m - 1 \in Nat /\ ~(m <= m - 1)
    BY <1>8, <2>1
  <2>3. ASSUME NEW i \in F PROVE i <= m - 1
    <3>1. i \in 1..k /\ i <= m /\ i # m
      BY <1>4, <1>8, <2>3
    <3> QED BY <1>8, <3>1
  <2> QED BY <1>9, <2>2, <2>3
<1>11. ASSUME NEW i \in F, \A j \in F : j <= i PROVE i = m
  <2>1. i \in Nat /\ i <= m /\ m <= i
    BY <1>4, <1>8, <1>10, <1>11
  <2> QED BY <1>8, <2>1
<1>12. Innermost = m
  BY <1>8, <1>10, <1>11 DEF Innermost, F
<1>13. ASSUME NEW j \in m + 1..k PROVE calls[j].kind = "subshell"
  <2>1. j \in 1..k /\ ~(j <= m) /\ j \in f..k
    BY <1>4, <1>8
  <2>2. j \notin F
    BY <1>8, <2>1
  <2> QED BY <1>3, <1>5, <2>1, <2>2, CallAt
<1> QED BY <1>4, <1>10, <1>12, <1>13

\* What local does to the calls.
LEMMA MarkTypes ==
    ASSUME Types, Shape(calls, localStack), localStack # <<>>, NEW n \in Names, MarkLocal(n)
    PROVE  /\ calls' \in Seq(CallTypes) /\ Alike(calls, calls')
           /\ \A i \in 1..Len(calls) :
                 IF Innermost = Len(calls)
                 THEN /\ calls'[i].touched = calls[i].touched
                      /\ calls'[i].locals = IF i = Innermost THEN calls[i].locals \cup {n}
                                            ELSE calls[i].locals
                 ELSE /\ calls'[i].locals = calls[i].locals
                      /\ calls'[i].touched = IF i \in Reached(n, Innermost)
                                             THEN calls[i].touched \cup {n} ELSE calls[i].touched
<1> DEFINE m == Innermost
<1>1. IF m = Len(calls) THEN calls' = [calls EXCEPT ![m].locals = @ \cup {n}] ELSE WroteIn(n, m)
  BY DEF MarkLocal, Innermost, Functions
<1>2. m \in 1..Len(calls) /\ Len(calls) \in Nat
  BY InnermostIs DEF Types
<1> HIDE DEF m
<1>3. CASE m # Len(calls)
  BY <1>1, <1>3, WroteTypes DEF m
<1>4. CASE m = Len(calls)
  <2> DEFINE c == [calls[m] EXCEPT !.locals = @ \cup {n}]
  <2>1. calls[m] \in CallTypes
    BY <1>2, CallAt
  <2>2. /\ c \in CallTypes
        /\ c.kind = calls[m].kind /\ c.prefix = calls[m].prefix
        /\ c.vars = calls[m].vars /\ c.exported = calls[m].exported
        /\ c.readonly = calls[m].readonly /\ c.localStack = calls[m].localStack
        /\ c.touched = calls[m].touched /\ c.locals = calls[m].locals \cup {n}
    BY <2>1 DEF CallTypes
  <2>3. calls' = [calls EXCEPT ![m] = c]
    BY <1>1, <1>4
  <2> HIDE DEF c
  <2>4. /\ calls' \in Seq(CallTypes) /\ Len(calls') = Len(calls) /\ calls'[m] = c
        /\ \A i \in 1..Len(calls) : i # m => calls'[i] = calls[i]
    BY <1>2, <2>2, <2>3 DEF Types
  <2>5. Alike(calls, calls')
    BY <2>2, <2>4 DEF Alike
  <2> QED BY <1>4, <2>2, <2>4, <2>5 DEF m
<1> QED BY <1>3, <1>4

LEMMA AppendTypes ==
    ASSUME Types, NEW c \in CallTypes, calls' = Append(calls, c)
    PROVE  calls' \in Seq(CallTypes)
  BY DEF Types

LEMMA CallType ==
    ASSUME Types, NEW kind \in {"function", "subshell", "substitution"},
           NEW prefix \in Names \cup {NoName}
    PROVE  /\ Call(kind, prefix) \in CallTypes /\ Call(kind, prefix).kind = kind
           /\ Call(kind, prefix).prefix = prefix /\ Call(kind, prefix).vars = vars
           /\ kind # "function" => Call(kind, prefix).exported = exported
           /\ kind = "substitution" => Call(kind, prefix).localStack = localStack
           /\ Call(kind, prefix).touched = {} /\ Call(kind, prefix).locals = {}
<1>1. <<>> \in Seq(Frames)
  OBVIOUS
<1> QED BY <1>1 DEF Types, Call, CallTypes

\* A sequence that is not empty.
LEMMA PopSeq ==
    ASSUME NEW T, NEW s \in Seq(T), s # <<>>
    PROVE  /\ Len(s) \in Nat /\ Len(s) \in 1..Len(s) /\ s[Len(s)] \in T
           /\ Pop(s) \in Seq(T) /\ Len(Pop(s)) = Len(s) - 1
           /\ \A i \in 1..Len(s) - 1 : Pop(s)[i] = s[i]
           /\ s = Append(Pop(s), s[Len(s)])
<1> DEFINE k == Len(s)
           p == Pop(s)
           e == s[k]
<1>1. k \in Nat /\ k \in 1..k /\ e \in T
  OBVIOUS
<1>2. p \in Seq(T) /\ Len(p) = k - 1 /\ \A i \in 1..k - 1 : p[i] = s[i]
  <2>1. /\ 1 \in Int /\ k - 1 \in Int
        /\ \A i \in 1..k - 1 : i \in 1..Len(s)
    BY <1>1
  <2>2. \A i \in 1..k - 1 : s[i] \in T
    BY <2>1
  <2>3. /\ p \in Seq(T) /\ Len(p) = IF 1 <= k - 1 THEN k - 1 - 1 + 1 ELSE 0
        /\ \A i \in 1..k - 1 - 1 + 1 : p[i] = s[1 + i - 1]
    BY <2>1, <2>2, SubSeqProperties DEF Pop
  <2>4. k - 1 - 1 + 1 = k - 1 /\ \A i \in 1..k - 1 : 1 + i - 1 = i
    BY <1>1
  <2> HIDE DEF p
  <2>5. \A i \in 1..k - 1 : p[i] = s[i]
    BY <2>3, <2>4
  <2> HIDE DEF k
  <2>6. Len(p) = k - 1
    <3>1. k >= 1 /\ (1 <= k - 1 \/ k = 1)
      BY <1>1
    <3> QED BY <1>1, <2>3, <2>4, <3>1
  <2> QED BY <2>3, <2>5, <2>6
<1> HIDE DEF p, e
<1>3. Append(p, e) \in Seq(T) /\ Len(Append(p, e)) = k /\ Append(p, e)[k] = e
  BY <1>1, <1>2
<1>4. \A i \in 1..k - 1 : Append(p, e)[i] = p[i]
  BY <1>1, <1>2
<1>5. \A i \in 1..k : i = k \/ i \in 1..k - 1
  BY <1>1
<1>6. \A i \in 1..k : Append(p, e)[i] = s[i]
  BY <1>2, <1>3, <1>4, <1>5 DEF e
<1>7. s = Append(p, e)
  BY <1>3, <1>6, SeqEqual
<1> QED BY <1>1, <1>2, <1>7 DEF p, e

\* A call that ends: those below it, and what it has saved.
LEMMA Popped ==
    ASSUME Types, calls # <<>>
    PROVE  /\ Pop(calls) \in Seq(CallTypes) /\ TopCall \in CallTypes
           /\ calls = Longer(Pop(calls), TopCall)
           /\ Len(calls) \in Nat /\ Len(calls) \in 1..Len(calls) /\ TopCall = calls[Len(calls)]
           /\ Len(Pop(calls)) = Len(calls) - 1
           /\ \A i \in 1..Len(calls) - 1 : Pop(calls)[i] = calls[i]
  BY PopSeq DEF Types, TopCall, Longer

LEMMA PoppedFrames ==
    ASSUME Types, localStack # <<>>
    PROVE  /\ Pop(localStack) \in Seq(Frames) /\ TopLocal \in Frames
           /\ localStack = Append(Pop(localStack), TopLocal)
           /\ Len(localStack) = Len(Pop(localStack)) + 1
<1>1. Len(Pop(localStack)) = Len(localStack) - 1 /\ Len(localStack) \in Nat
  BY PopSeq DEF Types
<1> QED BY <1>1, PopSeq DEF Types, TopLocal

LEMMA LongerCalls ==
    ASSUME NEW cs \in Seq(CallTypes), NEW c \in CallTypes
    PROVE  /\ Longer(cs, c) \in Seq(CallTypes) /\ Len(cs) \in Nat
           /\ Len(Longer(cs, c)) = Len(cs) + 1 /\ Longer(cs, c)[Len(cs) + 1] = c
           /\ \A i \in 1..Len(cs) : Longer(cs, c)[i] = cs[i]
  BY LongerSeq

-----------------------------------------------------------------------------
(* Steps that note something in the calls.                                  *)

LEMMA AlikeCounts ==
    ASSUME NEW cs, NEW ds, Alike(cs, ds), Len(cs) \in Nat
    PROVE  /\ \A i \in 0..Len(cs) : Count(ds, i) = Count(cs, i)
           /\ \A i \in 1..Len(cs) : Substs(ds, i) = Substs(cs, i)
<1>1. ASSUME NEW i \in 0..Len(cs) PROVE Count(ds, i) = Count(cs, i)
  <2>1. i \in Nat /\ \A m \in 1..i : m \in 1..Len(cs)
    OBVIOUS
  <2>2. \A m \in 1..i : ds[m].kind = cs[m].kind
    BY <2>1 DEF Alike
  <2> QED BY <2>1, <2>2, CountKinds
<1>2. ASSUME NEW i \in 1..Len(cs) PROVE Substs(ds, i) = Substs(cs, i)
  <2>1. \A s \in i..Len(cs) : s \in 1..Len(cs)
    OBVIOUS
  <2> QED BY <2>1 DEF Alike, Substs
<1> QED BY <1>1, <1>2

LEMMA AlikeShape ==
    ASSUME NEW cs, NEW ds, Alike(cs, ds), Len(cs) \in Nat,
           NEW ls, NEW ms, Len(ms) = Len(ls), Shape(cs, ls)
    PROVE  Shape(ds, ms)
<1>1. \A i \in 1..Len(cs) : i - 1 \in 0..Len(cs)
  OBVIOUS
<1>2. Len(cs) \in 0..Len(cs)
  OBVIOUS
<1>3. \A i \in 0..Len(cs) : Count(ds, i) = Count(cs, i)
  BY AlikeCounts
<1>4. Len(ds) = Len(cs) /\ Len(ms) = Count(ds, Len(ds))
  BY <1>2, <1>3 DEF Shape, Alike
<1>5. ASSUME NEW i \in 1..Len(cs), ds[i].kind = "substitution"
      PROVE  Len(ds[i].localStack) = Count(ds, i - 1)
  <2>1. cs[i].kind = "substitution" /\ ds[i].localStack = cs[i].localStack
    BY <1>5 DEF Alike
  <2>2. Count(ds, i - 1) = Count(cs, i - 1)
    BY <1>1, <1>3
  <2> QED BY <2>1, <2>2 DEF Shape
<1> QED BY <1>4, <1>5 DEF Shape

LEMMA AlikeFrames ==
    ASSUME NEW cs, NEW ds, Alike(cs, ds), Len(cs) \in Nat, NEW ls,
           NEW i \in 1..Len(cs)
    PROVE  FrameOf(ds, ls, i) = FrameOf(cs, ls, i)
<1> DEFINE S == Substs(cs, i)
<1>1. Count(ds, i) = Count(cs, i) /\ Substs(ds, i) = S
  BY AlikeCounts
<1>2. CASE S = {}
  BY <1>1, <1>2 DEF FrameOf
<1>3. CASE S # {}
  <2>1. S \in SUBSET Nat /\ \A s \in S : s \in 1..Len(cs)
    BY DEF Substs
  <2>2. LeastOf(S) \in S
    BY <1>3, <2>1, LeastIsMember
  <2> HIDE DEF S
  <2>3. ds[LeastOf(S)].localStack = cs[LeastOf(S)].localStack
    BY <2>1, <2>2 DEF Alike
  <2> QED BY <1>1, <1>3, <2>3 DEF FrameOf, S
<1> QED BY <1>2, <1>3

\* local changes the frame of the innermost function, and no other.
LEMMA Saved ==
    ASSUME Types, localStack # <<>>, NEW n \in Names, SaveLocal(n)
    PROVE  /\ localStack' \in Seq(Frames) /\ Len(localStack') = Len(localStack)
           /\ \A i \in 1..Len(localStack) - 1 : localStack'[i] = localStack[i]
           /\ TopLocal \in Frames
           /\ localStack'[Len(localStack)] =
                [TopLocal EXCEPT ![n] = IF TopLocal[n] = NotSaved THEN vars[n] ELSE TopLocal[n]]
<1> DEFINE k == Len(localStack)
           f == [TopLocal EXCEPT ![n] = IF TopLocal[n] = NotSaved THEN vars[n] ELSE TopLocal[n]]
<1>1. k \in 1..k /\ k \in Nat /\ TopLocal \in Frames /\ TopLocal = localStack[k]
  BY PopSeq DEF Types, TopLocal
<1>2. localStack' = [localStack EXCEPT ![k] = f]
  BY <1>1 DEF SaveLocal
<1>3. f \in Frames
  BY <1>1 DEF Frames, Types, Maps
<1> HIDE DEF f
<1>4. /\ localStack' \in Seq(Frames) /\ Len(localStack') = k /\ localStack'[k] = f
      /\ \A i \in 1..k - 1 : localStack'[i] = localStack[i]
  BY <1>1, <1>2, <1>3 DEF Types
<1> QED BY <1>1, <1>4 DEF f

LEMMA SavedFrames ==
    ASSUME Types, Shape(calls, localStack), localStack # <<>>, NEW n \in Names, SaveLocal(n),
           NEW i \in 1..Len(calls), calls[i].kind = "function"
    PROVE  FrameOf(calls, localStack', i) =
             IF i = Innermost
             THEN [TopLocal EXCEPT ![n] = IF TopLocal[n] = NotSaved THEN vars[n] ELSE TopLocal[n]]
             ELSE FrameOf(calls, localStack, i)
<1> DEFINE k == Len(calls)
           m == Innermost
<1>1. /\ m \in 1..k /\ calls[m].kind = "function" /\ k \in Nat
      /\ \A j \in m + 1..k : calls[j].kind = "subshell"
  BY InnermostIs DEF Types
<1> HIDE DEF m
<1>2. Substs(calls, m) = {} /\ Count(calls, m) = Len(localStack)
  BY <1>1, TopFrame
<1>3. CASE i = m
  BY <1>2, <1>3, Saved DEF FrameOf, m
<1>4. CASE i # m
  <2>1. CASE Substs(calls, i) # {}
    BY <1>4, <2>1 DEF FrameOf, m
  <2>2. CASE Substs(calls, i) = {}
    <3>1. \A l \in i..k : calls[l].kind # "substitution"
      BY <2>2 DEF Substs
    <3>2. i < m
      <4>1. ~(i \in m + 1..k)
        BY <1>1
      <4> QED BY <1>1, <1>4, <4>1
    <3>3. \A l \in i + 1..m : calls[l].kind # "substitution"
      <4>1. \A l \in i + 1..m : l \in i..k
        BY <1>1
      <4> QED BY <3>1, <4>1
    <3>4. Count(calls, i) < Len(localStack)
      BY <1>1, <1>2, <3>2, <3>3, CountOrder
    <3>5. Count(calls, i) \in Nat \ {0}
      BY CountFunction
    <3>6. Count(calls, i) \in 1..Len(localStack) - 1
      BY <3>4, <3>5 DEF Types
    <3>7. localStack'[Count(calls, i)] = localStack[Count(calls, i)]
      BY <3>6, Saved
    <3> QED BY <1>4, <2>2, <3>7 DEF FrameOf, m
  <2> QED BY <2>1, <2>2
<1> QED BY <1>3, <1>4

\* What is in the frame that local works on.
LEMMA InnermostFrame ==
    ASSUME Types, Shape(calls, localStack), localStack # <<>>
    PROVE  FrameOf(calls, localStack, Innermost) = TopLocal
  BY InnermostIs, TopFrame DEF TopLocal, Types

-----------------------------------------------------------------------------
(* Types and the shape of the frames are kept.                              *)

ShapeOK == Shape(calls, localStack)

\* Commands that do not call or end anything.
Writes == \/ Assign \/ AssignUnchecked \/ Export \/ ExportReadonly \/ Unexport
          \/ Readonly \/ UnsetName

LEMMA Put ==
    ASSUME Types, NEW n \in Names, NEW v \in Slots, vars' = [vars EXCEPT ![n] = v]
    PROVE  vars' \in Maps /\ vars'[n] = v /\ \A m \in Names : m # n => vars'[m] = vars[m]
  BY DEF Types, Maps

\* A variable is written, or none.
WritesName == \/ UNCHANGED <<vars, calls>>
              \/ \E n \in Names, v \in Slots : vars' = [vars EXCEPT ![n] = v] /\ Wrote(n)

LEMMA SetEnvTypes ==
    ASSUME Types, vars' \in Maps, exported' \in SUBSET Names, SetEnv(vars', exported')
    PROVE  env' \in Maps
  BY DEF SetEnv, Types, Maps

LEMMA WritesWhat ==
    ASSUME Types, Writes
    PROVE  /\ WritesName /\ UNCHANGED localStack
           /\ env' \in Maps /\ exported' \in SUBSET Names /\ readonly' \in SUBSET Names
           /\ dying' \in BOOLEAN
<1>1. CASE Assign \/ AssignUnchecked
  BY <1>1, Slot DEF Assign, AssignUnchecked, Refuse, runner, Types, WritesName
<1>2. CASE Readonly
  BY <1>2, Slot DEF Readonly, Refuse, runner, Types, WritesName
<1>3. CASE Export
  <2>1. PICK n \in Names :
          /\ \/ \E v \in Values : vars' = [vars EXCEPT ![n] = v] /\ Wrote(n)
             \/ UNCHANGED <<vars, calls>>
          /\ exported' = exported \cup {n} /\ SetEnv(vars', exported')
          /\ UNCHANGED <<readonly, localStack, dying>>
    BY <1>3 DEF Export
  <2>2. WritesName
    BY <2>1, Slot DEF WritesName
  <2>3. vars' \in Maps /\ exported' \in SUBSET Names
    BY <2>1, Put, Slot DEF Types
  <2> QED BY <2>1, <2>2, <2>3, SetEnvTypes DEF Types
<1>4. CASE ExportReadonly
  <2>1. dying' = TRUE /\ SetEnv(vars, exported) /\ UNCHANGED <<runner, calls>>
    BY <1>4 DEF ExportReadonly
  <2>2. SetEnv(vars', exported') /\ vars' \in Maps /\ exported' \in SUBSET Names
    BY <2>1 DEF runner, Types
  <2> QED BY <2>1, <2>2, SetEnvTypes DEF Types, WritesName, runner
<1>5. CASE Unexport
  BY <1>5, Slot DEF Unexport, Types, Maps, WritesName
<1>6. CASE UnsetName
  <2>1. CASE Refuse
    BY <2>1 DEF Refuse, runner, Types, WritesName
  <2>2. CASE ~Refuse
    <3>1. PICK n \in Names :
            /\ vars' = [vars EXCEPT ![n] = Unset] /\ Wrote(n)
            /\ exported' = exported \ {n} /\ env' = [env EXCEPT ![n] = Unset]
            /\ UNCHANGED <<readonly, localStack, dying>>
      BY <1>6, <2>2 DEF UnsetName
    <3> QED BY <3>1, Slot DEF Types, Maps, WritesName
  <2> QED BY <2>1, <2>2
<1> QED BY <1>1, <1>2, <1>3, <1>4, <1>5, <1>6 DEF Writes

\* The calls after a write.
LEMMA WritesCalls ==
    ASSUME Types, WritesName
    PROVE  calls' \in Seq(CallTypes) /\ Alike(calls, calls') /\ vars' \in Maps
<1>1. CASE UNCHANGED <<vars, calls>>
  BY <1>1 DEF Types, Alike
<1>2. CASE \E n \in Names, v \in Slots : vars' = [vars EXCEPT ![n] = v] /\ Wrote(n)
  BY <1>2, WroteTypes, Put DEF Wrote
<1> QED BY <1>1, <1>2 DEF WritesName

LEMMA WritesTypes ==
    ASSUME Types, ShapeOK, Writes
    PROVE  Types' /\ ShapeOK'
<1>1. WritesName /\ localStack' = localStack
  BY WritesWhat
<1>2. calls' \in Seq(CallTypes) /\ Alike(calls, calls') /\ vars' \in Maps
  BY <1>1, WritesCalls
<1>3. Len(calls) \in Nat
  BY DEF Types
<1>4. Shape(calls', localStack)
  BY <1>2, <1>3, AlikeShape DEF ShapeOK
<1> QED BY <1>1, <1>2, <1>4, WritesWhat DEF Types, ShapeOK

\* What local does to the variable and its environment.
LEMMA LocalWhat ==
    ASSUME Types, Local
    PROVE  \E n \in Names, v \in Slots :
             /\ SaveLocal(n) /\ MarkLocal(n) /\ vars' = [vars EXCEPT ![n] = v]
             /\ n \notin exported => env' = env
             /\ n \in exported => env' = [env EXCEPT ![n] = v] \/ UNCHANGED <<vars, env>>
             /\ PutEnv({n} \cap exported)
             /\ localStack # <<>> /\ UNCHANGED <<exported, readonly, dying>>
<1>1. PICK n \in Names :
        /\ SaveLocal(n) /\ MarkLocal(n)
        /\ \/ \E v \in Values : vars' = [vars EXCEPT ![n] = v] /\ EnvOf(n, v)
           \/ TopLocal[n] = NotSaved /\ vars' = [vars EXCEPT ![n] = Unset] /\ EnvOf(n, Unset)
           \/ TopLocal[n] # NotSaved /\ UNCHANGED <<vars, env>>
        /\ PutEnv({n} \cap exported)
        /\ localStack # <<>> /\ UNCHANGED <<exported, readonly, dying>>
  BY DEF Local
<1>2. vars = [vars EXCEPT ![n] = vars[n]] /\ vars[n] \in Slots
  BY DEF Types, Maps
<1>3. CASE \E v \in Values : vars' = [vars EXCEPT ![n] = v] /\ EnvOf(n, v)
  <2>1. PICK v \in Values : vars' = [vars EXCEPT ![n] = v] /\ EnvOf(n, v)
    BY <1>3
  <2> QED BY <1>1, <2>1, Slot DEF EnvOf
<1>4. CASE TopLocal[n] = NotSaved /\ vars' = [vars EXCEPT ![n] = Unset] /\ EnvOf(n, Unset)
  BY <1>1, <1>4, Slot DEF EnvOf
<1>5. CASE TopLocal[n] # NotSaved /\ UNCHANGED <<vars, env>>
  BY <1>1, <1>2, <1>5
<1> QED BY <1>1, <1>3, <1>4, <1>5

LEMMA LocalTypes ==
    ASSUME Types, ShapeOK, Local
    PROVE  Types' /\ ShapeOK'
<1>1. PICK n \in Names, v \in Slots :
        /\ SaveLocal(n) /\ MarkLocal(n) /\ vars' = [vars EXCEPT ![n] = v]
        /\ n \notin exported => env' = env
        /\ n \in exported => env' = [env EXCEPT ![n] = v] \/ UNCHANGED <<vars, env>>
        /\ localStack # <<>> /\ UNCHANGED <<exported, readonly, dying>>
  BY LocalWhat
<1>2. vars' \in Maps /\ env' \in Maps
  <2>1. [env EXCEPT ![n] = v] \in Maps /\ env \in Maps
    BY DEF Types, Maps
  <2> QED BY <1>1, <2>1, Put
<1>3. localStack' \in Seq(Frames) /\ Len(localStack') = Len(localStack)
  BY <1>1, Saved
<1>4. calls' \in Seq(CallTypes) /\ Alike(calls, calls')
  BY <1>1, MarkTypes DEF ShapeOK
<1>5. Len(calls) \in Nat
  BY DEF Types
<1>6. Shape(calls', localStack')
  BY <1>3, <1>4, <1>5, AlikeShape DEF ShapeOK
<1> QED BY <1>1, <1>2, <1>3, <1>4, <1>6 DEF Types, ShapeOK

\* A command that starts.
Starts == CallFunction \/ EnterSubshell \/ EnterSubstitution

LEMMA StartsWhat ==
    ASSUME Types, Starts
    PROVE  \E c \in CallTypes :
             /\ calls' = Longer(calls, c) /\ Grows(localStack, c, localStack')
             /\ c.vars = vars /\ c.touched = {} /\ c.locals = {}
             /\ c.kind # "function" => c.exported = exported
             /\ c.kind = "function" => localStack' = Append(localStack, NoLocals)
             /\ c.kind = "substitution" => localStack' = <<>>
             /\ \/ vars' = vars
                \/ /\ c.prefix \in Names /\ c.kind = "function"
                   /\ \E v \in Values : vars' = [vars EXCEPT ![c.prefix] = v]
             /\ UNCHANGED <<exported, readonly, env, dying, stray>>
<1>1. CASE CallFunction
  <2>1. PICK prefix \in {NoName} \cup Names :
          /\ calls' = Append(calls, Call("function", prefix))
          /\ \/ prefix = NoName /\ UNCHANGED vars
             \/ prefix # NoName /\ \E v \in Values : vars' = [vars EXCEPT ![prefix] = v]
    BY <1>1 DEF CallFunction
  <2> DEFINE c == Call("function", prefix)
  <2>2. /\ c \in CallTypes /\ c.kind = "function" /\ c.prefix = prefix /\ c.vars = vars
        /\ c.touched = {} /\ c.locals = {}
    BY <2>1, CallType
  <2>3. calls' = Longer(calls, c)
    BY <2>1 DEF Longer
  <2> HIDE DEF c
  <2>4. localStack' = Append(localStack, NoLocals) /\ UNCHANGED <<exported, readonly, env, dying, stray>>
    BY <1>1 DEF CallFunction
  <2>5. Grows(localStack, c, localStack')
    BY <2>2, <2>4 DEF Grows
  <2>6. \/ vars' = vars
        \/ /\ c.prefix \in Names /\ c.kind = "function"
           /\ \E v \in Values : vars' = [vars EXCEPT ![c.prefix] = v]
    BY <2>1, <2>2
  <2> QED BY <2>2, <2>3, <2>4, <2>5, <2>6
<1>2. CASE EnterSubshell
  <2> DEFINE c == Call("subshell", NoName)
  <2>1. /\ c \in CallTypes /\ c.kind = "subshell" /\ c.vars = vars
        /\ c.touched = {} /\ c.locals = {} /\ c.exported = exported
    BY CallType
  <2>2. calls' = Longer(calls, c)
    BY <1>2 DEF EnterSubshell, Longer
  <2> HIDE DEF c
  <2>3. UNCHANGED <<vars, localStack, exported, readonly, env, dying, stray>>
    BY <1>2 DEF EnterSubshell, runner
  <2>4. Grows(localStack, c, localStack')
    BY <2>1, <2>3 DEF Grows
  <2> QED BY <2>1, <2>2, <2>3, <2>4
<1>3. CASE EnterSubstitution
  <2> DEFINE c == Call("substitution", NoName)
  <2>1. /\ c \in CallTypes /\ c.kind = "substitution" /\ c.vars = vars
        /\ c.touched = {} /\ c.locals = {} /\ c.exported = exported
        /\ c.localStack = localStack
    BY CallType
  <2>2. calls' = Longer(calls, c)
    BY <1>3 DEF EnterSubstitution, Longer
  <2> HIDE DEF c
  <2>3. localStack' = <<>> /\ UNCHANGED <<vars, exported, readonly, env, dying, stray>>
    BY <1>3 DEF EnterSubstitution
  <2>4. Grows(localStack, c, localStack')
    BY <2>1 DEF Grows
  <2> QED BY <2>1, <2>2, <2>3, <2>4
<1> QED BY <1>1, <1>2, <1>3 DEF Starts

LEMMA StartsTypes ==
    ASSUME Types, ShapeOK, Starts
    PROVE  Types' /\ ShapeOK'
<1>1. PICK c \in CallTypes :
        /\ calls' = Longer(calls, c) /\ Grows(localStack, c, localStack')
        /\ c.kind = "function" => localStack' = Append(localStack, NoLocals)
        /\ c.kind = "substitution" => localStack' = <<>>
        /\ \/ vars' = vars
           \/ /\ c.prefix \in Names /\ c.kind = "function"
              /\ \E v \in Values : vars' = [vars EXCEPT ![c.prefix] = v]
        /\ UNCHANGED <<exported, readonly, env, dying, stray>>
  BY StartsWhat
<1>2. NoLocals \in Frames
  BY DEF NoLocals, Frames
<1>3. localStack' \in Seq(Frames)
  <2>1. CASE c.kind = "function"
    BY <1>1, <1>2, <2>1 DEF Types
  <2>2. CASE c.kind = "subshell"
    BY <1>1, <2>2 DEF Types, Grows
  <2>3. CASE c.kind = "substitution"
    BY <1>1, <2>3
  <2> QED BY <1>1, <2>1, <2>2, <2>3 DEF Grows
<1>4. calls' \in Seq(CallTypes)
  <2>1. calls \in Seq(CallTypes)
    BY DEF Types
  <2> QED BY <1>1, <2>1, LongerSeq
<1>5. vars' \in Maps
  BY <1>1, Put, Slot DEF Types
<1>6. c.kind = "function" => Len(localStack') = Len(localStack) + 1
  BY <1>1 DEF Types
<1>7. c.kind = "substitution" => Len(localStack') = 0
  BY <1>1
<1>8. Shape(calls', localStack')
  BY <1>1, <1>6, <1>7, ShapeGrows DEF ShapeOK, Types
<1> QED BY <1>1, <1>3, <1>4, <1>5, <1>8 DEF Types, ShapeOK

\* A command that ends, with what its calls and frames were grown from.
LEMMA EndsWhat ==
    ASSUME Types, ShapeOK, EndFunction \/ Leave
    PROVE  /\ calls # <<>> /\ calls' = Pop(calls) /\ Grows(localStack', TopCall, localStack)
           /\ localStack' \in Seq(Frames) /\ vars' \in Maps /\ env' \in Maps
           /\ exported' \in SUBSET Names /\ readonly' \in SUBSET Names /\ dying' \in BOOLEAN
           /\ TopCall.kind = "function" =>
                /\ Len(localStack) = Len(localStack') + 1
                /\ localStack # <<>> /\ TopLocal \in Frames
                /\ FrameOf(calls, localStack, Len(calls)) = TopLocal
<1>0. CASE EndFunction
  <2>1. calls # <<>> /\ TopCall.kind = "function"
    BY <1>0 DEF EndFunction
  <2>2. /\ Len(calls) \in Nat /\ Len(calls) \in 1..Len(calls) /\ TopCall = calls[Len(calls)]
        /\ TopCall \in CallTypes
    BY <2>1, Popped
  <2>3. Count(calls, Len(calls)) \in Nat \ {0}
    BY <2>1, <2>2, CountFunction
  <2>4. localStack # <<>>
    BY <2>3 DEF ShapeOK, Shape, Types
  <2>5. \A j \in Len(calls) + 1..Len(calls) : calls[j].kind = "subshell"
    BY <2>2
  <2>6. FrameOf(calls, localStack, Len(calls)) = TopLocal
    BY <2>1, <2>2, <2>5, TopFrame DEF ShapeOK, TopLocal
  <2>7. /\ localStack' = Pop(localStack) /\ calls' = Pop(calls)
        /\ vars' = PrefixRestored(Restored)
        /\ env' = [n \in Names |->
             IF TopLocal[n] # NotSaved /\ n \in exported THEN TopLocal[n] ELSE env[n]]
        /\ exported' = exported \ {TopCall.prefix} /\ UNCHANGED <<readonly, dying>>
    BY <1>0 DEF EndFunction
  <2>8. /\ Pop(localStack) \in Seq(Frames) /\ TopLocal \in Frames
        /\ localStack = Append(Pop(localStack), TopLocal)
        /\ Len(localStack) = Len(Pop(localStack)) + 1
    BY <2>4, PoppedFrames
  <2>9. TopCall.vars \in Maps
    BY <2>2 DEF CallTypes
  <2>10. vars' \in Maps /\ env' \in Maps
    BY <2>7, <2>8, <2>9 DEF Types, Maps, Frames, PrefixRestored, Restored
  <2>11. Grows(localStack', TopCall, localStack)
    BY <2>1, <2>7, <2>8 DEF Grows
  <2> QED BY <2>1, <2>4, <2>6, <2>7, <2>8, <2>10, <2>11 DEF Types
<1>1. CASE Leave
  <2>1. /\ calls # <<>> /\ TopCall.kind \in {"subshell", "substitution"}
        /\ vars' = TopCall.vars /\ exported' = TopCall.exported
        /\ IF TopCall.kind = "subshell" THEN UNCHANGED <<readonly, localStack>>
           ELSE readonly' = TopCall.readonly /\ localStack' = TopCall.localStack
        /\ calls' = Pop(calls) /\ dying' = FALSE /\ UNCHANGED env
    BY <1>1 DEF Leave
  <2>2. TopCall \in CallTypes
    BY <2>1, Popped
  <2>3. Grows(localStack', TopCall, localStack)
    BY <2>1 DEF Grows
  <2> QED BY <2>1, <2>2, <2>3 DEF CallTypes, Types
<1> QED BY <1>0, <1>1

LEMMA EndsTypes ==
    ASSUME Types, ShapeOK, EndFunction \/ Leave
    PROVE  Types' /\ ShapeOK'
<1>1. /\ calls # <<>> /\ calls' = Pop(calls) /\ Grows(localStack', TopCall, localStack)
      /\ localStack' \in Seq(Frames) /\ vars' \in Maps /\ env' \in Maps
      /\ exported' \in SUBSET Names /\ readonly' \in SUBSET Names /\ dying' \in BOOLEAN
      /\ TopCall.kind = "function" => Len(localStack) = Len(localStack') + 1
  BY EndsWhat
<1>2. Pop(calls) \in Seq(CallTypes) /\ TopCall \in CallTypes /\ calls = Longer(Pop(calls), TopCall)
  BY <1>1, Popped
<1>3. Len(localStack') \in Nat
  BY <1>1
<1> DEFINE cs == Pop(calls)
           c == TopCall
           ls == localStack'
<1>4. /\ cs \in Seq(CallTypes) /\ c \in CallTypes /\ Shape(Longer(cs, c), localStack)
      /\ Grows(ls, c, localStack)
      /\ c.kind = "function" => Len(localStack) = Len(ls) + 1
      /\ Len(ls) \in Nat
  BY <1>1, <1>2, <1>3 DEF ShapeOK
<1> HIDE DEF cs, c, ls
<1>5. Shape(cs, ls)
  BY <1>4, ShapeShrinks
<1> QED BY <1>1, <1>2, <1>5 DEF cs, ls, Types, ShapeOK

LEMMA InitTypes == ScopeInit => Types /\ ShapeOK
<1> SUFFICES ASSUME ScopeInit PROVE Types /\ ShapeOK
  OBVIOUS
<1>1. (CHOOSE v \in Values : TRUE) \in Values
  BY ScopeAssumption
<1>2. vars \in Maps
  BY <1>1, Slot DEF ScopeInit, Maps
<1>3. Shape(calls, localStack)
  BY CountNone DEF ScopeInit, Shape
<1>4. /\ env \in Maps /\ exported \in SUBSET Names /\ readonly \in SUBSET Names
      /\ dying \in BOOLEAN
  BY <1>2 DEF ScopeInit
<1>5. localStack \in Seq(Frames) /\ calls \in Seq(CallTypes)
  BY DEF ScopeInit
<1> QED BY <1>2, <1>3, <1>4, <1>5 DEF Types, ShapeOK

LEMMA NextTypes == Types /\ ShapeOK /\ [ScopeNext]_scope => (Types /\ ShapeOK)'
<1> SUFFICES ASSUME Types, ShapeOK, [ScopeNext]_scope PROVE Types' /\ ShapeOK'
  OBVIOUS
<1>1. CASE EndShell \/ UNCHANGED scope
  BY <1>1 DEF EndShell, scope, Types, ShapeOK
<1> QED BY <1>1, WritesTypes, LocalTypes, StartsTypes, EndsTypes DEF ScopeNext, Writes, Starts

-----------------------------------------------------------------------------
(* What the end of a call puts back.                                        *)

\* The end of the j-th call gives n another value than the commands before it left.
Undoes(cs, ls, j, n) ==
    cs[j].kind # "function" \/ n = cs[j].prefix \/ FrameOf(cs, ls, j)[n] # NotSaved
Undone(cs, ls, j, n) ==
    IF cs[j].kind # "function" \/ n = cs[j].prefix THEN cs[j].vars[n] ELSE FrameOf(cs, ls, j)[n]

\* Whatever is written now, when the i-th call ends n is what it was when that
\* began: the innermost call but those inside it that puts n back puts back that
\* value, and if none does it is the value n has.
Shields(cs, ls, vs, i, n) ==
    /\ \A j \in i..Len(cs) :
         Undoes(cs, ls, j, n) /\ (\A m \in i..j - 1 : ~Undoes(cs, ls, m, n))
           => Undone(cs, ls, j, n) = cs[i].vars[n]
    /\ (\A m \in i..Len(cs) : ~Undoes(cs, ls, m, n)) => vs[n] = cs[i].vars[n]

ShieldOK == \A i \in 1..Len(calls), n \in Names :
    calls[i].kind = "function" /\ n \notin calls[i].touched
      => Shields(calls, localStack, vars, i, n)

LocalsOK == \A i \in 1..Len(calls) : calls[i].kind = "function" =>
    \A n \in calls[i].locals : FrameOf(calls, localStack, i)[n] # NotSaved

\* The calls below another undo what they undid.
LEMMA UndoingStays ==
    ASSUME NEW cs \in Seq(CallTypes), NEW c \in CallTypes, NEW ls \in Seq(Frames),
           NEW ms \in Seq(Frames), Shape(cs, ls), Grows(ls, c, ms),
           NEW j \in 1..Len(cs), NEW n
    PROVE  /\ Undoes(Longer(cs, c), ms, j, n) <=> Undoes(cs, ls, j, n)
           /\ Undone(Longer(cs, c), ms, j, n) = Undone(cs, ls, j, n)
<1>1. Longer(cs, c)[j] = cs[j]
  BY LongerCalls
<1>2. ASSUME NEW f, ms = Append(ls, f) PROVE f \in Frames
  <2>1. Len(ls) + 1 \in 1..Len(ms) /\ ms[Len(ls) + 1] = f
    BY <1>2
  <2> QED BY <2>1
<1>3. cs[j].kind = "function" => FrameOf(Longer(cs, c), ms, j) = FrameOf(cs, ls, j)
  BY <1>2, FramesStay
<1> QED BY <1>1, <1>3 DEF Undoes, Undone

LEMMA ShieldsLonger ==
    ASSUME NEW cs \in Seq(CallTypes), NEW c \in CallTypes, NEW ls \in Seq(Frames),
           NEW ms \in Seq(Frames), Shape(cs, ls), Grows(ls, c, ms),
           NEW i \in 1..Len(cs), NEW n, NEW vs, NEW ws,
           vs[n] = IF Undoes(Longer(cs, c), ms, Len(cs) + 1, n)
                   THEN Undone(Longer(cs, c), ms, Len(cs) + 1, n) ELSE ws[n]
    PROVE  Shields(Longer(cs, c), ms, ws, i, n) <=> Shields(cs, ls, vs, i, n)
<1> DEFINE ds == Longer(cs, c)
           k == Len(cs)
           e == k + 1
           x == cs[i].vars[n]
<1>00. /\ Longer(cs, c) \in Seq(CallTypes) /\ Len(cs) \in Nat /\ Len(Longer(cs, c)) = Len(cs) + 1
      /\ Longer(cs, c)[Len(cs) + 1] = c
      /\ \A j \in 1..Len(cs) : Longer(cs, c)[j] = cs[j]
  BY DEF Longer
<1>0. k \in Nat /\ Len(ds) = e /\ \A j \in 1..k : ds[j] = cs[j]
  BY <1>00, Zenon
<1>1. k \in Nat /\ Len(ds) = e /\ ds[i] = cs[i] /\ i \in 1..k
  <2>1. i \in 1..k
    OBVIOUS
  <2> HIDE DEF ds, k, e
  <2> QED BY <1>0, <2>1
<1>2. \A j \in 1..k : /\ Undoes(ds, ms, j, n) <=> Undoes(cs, ls, j, n)
                      /\ Undone(ds, ms, j, n) = Undone(cs, ls, j, n)
  BY UndoingStays
<1>3. vs[n] = IF Undoes(ds, ms, e, n) THEN Undone(ds, ms, e, n) ELSE ws[n]
  OBVIOUS
<1> HIDE DEF ds, k
<1>4. /\ \A j : j \in i..e => j = e \/ j \in i..k
      /\ \A j \in i..k : j \in i..e /\ j \in 1..k /\ (\A m \in i..j - 1 : m \in 1..k)
      /\ e \in i..e /\ e - 1 = k
  <2>1. k \in Int /\ i \in Int /\ 1 <= i /\ i <= k /\ e = k + 1
    BY <1>1
  <2> HIDE DEF e
  <2>2. \A j : j \in i..e => j = e \/ j \in i..k
    BY <2>1
  <2>3. ASSUME NEW j \in i..k
        PROVE  j \in i..e /\ j \in 1..k /\ \A m \in i..j - 1 : m \in 1..k
    BY <2>1
  <2>4. e \in i..e /\ e - 1 = k
    BY <2>1
  <2> QED BY <2>2, <2>3, <2>4
<1> HIDE DEF e, x
<1>5. ASSUME Shields(cs, ls, vs, i, n) PROVE Shields(ds, ms, ws, i, n)
  <2>1. /\ \A j \in i..k : Undoes(cs, ls, j, n) /\ (\A m \in i..j - 1 : ~Undoes(cs, ls, m, n))
                             => Undone(cs, ls, j, n) = x
        /\ (\A m \in i..k : ~Undoes(cs, ls, m, n)) => vs[n] = x
    BY <1>5 DEF Shields, k, x
  <2>2. ASSUME NEW j \in i..e, Undoes(ds, ms, j, n), \A m \in i..j - 1 : ~Undoes(ds, ms, m, n)
        PROVE  Undone(ds, ms, j, n) = x
    <3>1. CASE j = e
      <4>1. vs[n] = x
        BY <1>2, <1>4, <2>1, <2>2, <3>1
      <4> QED BY <1>3, <2>2, <3>1, <4>1
    <3>2. CASE j \in i..k
      BY <1>2, <1>4, <2>1, <2>2, <3>2
    <3> QED BY <1>4, <3>1, <3>2
  <2>3. ASSUME \A m \in i..e : ~Undoes(ds, ms, m, n) PROVE ws[n] = x
    <3>1. vs[n] = x
      BY <1>2, <1>4, <2>1, <2>3
    <3> QED BY <1>3, <1>4, <2>3, <3>1
  <2> QED BY <1>1, <2>2, <2>3 DEF Shields, x
<1>6. ASSUME Shields(ds, ms, ws, i, n) PROVE Shields(cs, ls, vs, i, n)
  <2>1. /\ \A j \in i..e : Undoes(ds, ms, j, n) /\ (\A m \in i..j - 1 : ~Undoes(ds, ms, m, n))
                             => Undone(ds, ms, j, n) = x
        /\ (\A m \in i..e : ~Undoes(ds, ms, m, n)) => ws[n] = x
    BY <1>1, <1>6 DEF Shields, x
  <2>2. ASSUME NEW j \in i..k, Undoes(cs, ls, j, n), \A m \in i..j - 1 : ~Undoes(cs, ls, m, n)
        PROVE  Undone(cs, ls, j, n) = x
    BY <1>2, <1>4, <2>1, <2>2
  <2>3. ASSUME \A m \in i..k : ~Undoes(cs, ls, m, n) PROVE vs[n] = x
    <3>1. CASE Undoes(ds, ms, e, n)
      <4>1. \A m \in i..e - 1 : ~Undoes(ds, ms, m, n)
        BY <1>2, <1>4, <2>3
      <4> QED BY <1>3, <1>4, <2>1, <3>1, <4>1
    <3>2. CASE ~Undoes(ds, ms, e, n)
      <4>1. \A m \in i..e : ~Undoes(ds, ms, m, n)
        BY <1>2, <1>4, <2>3, <3>2
      <4> QED BY <1>3, <2>1, <3>2, <4>1
    <3> QED BY <3>1, <3>2
  <2> QED BY <2>2, <2>3 DEF Shields, k, x
<1> QED BY <1>5, <1>6 DEF ds

\* What the end of the top call leaves.
LEMMA EndsVars ==
    ASSUME Types, ShapeOK, EndFunction \/ Leave, NEW n \in Names
    PROVE  vars'[n] = IF Undoes(calls, localStack, Len(calls), n)
                      THEN Undone(calls, localStack, Len(calls), n) ELSE vars[n]
<1>1. TopCall = calls[Len(calls)]
  BY DEF TopCall
<1>2. CASE Leave
  BY <1>1, <1>2 DEF Leave, Undoes, Undone
<1>3. CASE EndFunction
  <2>1. TopCall.kind = "function" /\ vars' = PrefixRestored(Restored)
    BY <1>3 DEF EndFunction
  <2>2. FrameOf(calls, localStack, Len(calls)) = TopLocal
    BY <1>3, <2>1, EndsWhat
  <2>3. vars'[n] = IF n = TopCall.prefix THEN TopCall.vars[n]
                   ELSE IF TopLocal[n] = NotSaved THEN vars[n] ELSE TopLocal[n]
    BY <2>1 DEF PrefixRestored, Restored
  <2> QED BY <1>1, <2>1, <2>2, <2>3 DEF Undoes, Undone
<1> QED BY <1>2, <1>3

-----------------------------------------------------------------------------
(* Functions shield the variables they do not write.                        *)

ShieldInv == ShieldOK /\ LocalsOK

ShieldStep == EndFunction => \A n \in Names : n \notin TopCall.touched => vars'[n] = TopCall.vars[n]

LEMMA EndsShield ==
    ASSUME Types, ShapeOK, ShieldInv, EndFunction \/ Leave
    PROVE  ShieldInv'
<1>1. /\ calls # <<>> /\ calls' = Pop(calls) /\ Grows(localStack', TopCall, localStack)
      /\ localStack' \in Seq(Frames)
  BY EndsWhat
<1>2. /\ Pop(calls) \in Seq(CallTypes) /\ TopCall \in CallTypes /\ calls = Longer(Pop(calls), TopCall)
      /\ Len(calls) \in Nat /\ Len(Pop(calls)) = Len(calls) - 1
      /\ \A i \in 1..Len(calls) - 1 : Pop(calls)[i] = calls[i]
  BY <1>1, Popped
<1>3. Shape(Pop(calls), localStack')
  BY <1>1, EndsTypes DEF ShapeOK
<1> DEFINE cs == Pop(calls)
           c == TopCall
           ls == localStack'
           vs == vars'
<1>4. /\ cs \in Seq(CallTypes) /\ c \in CallTypes /\ ls \in Seq(Frames)
      /\ localStack \in Seq(Frames) /\ Shape(cs, ls) /\ Grows(ls, c, localStack)
      /\ calls = Longer(cs, c) /\ Len(calls) = Len(cs) + 1
      /\ \A i \in 1..Len(cs) : cs[i] = calls[i] /\ i \in 1..Len(calls)
      /\ calls' = cs /\ localStack' = ls /\ vars' = vs
  BY <1>1, <1>2, <1>3 DEF Types
<1>5. ASSUME NEW n \in Names
      PROVE  vs[n] = IF Undoes(calls, localStack, Len(calls), n)
                     THEN Undone(calls, localStack, Len(calls), n) ELSE vars[n]
  BY EndsVars
<1> HIDE DEF cs, c, ls, vs
<1>6. ASSUME NEW i \in 1..Len(cs), NEW n \in Names,
             cs[i].kind = "function" /\ n \notin cs[i].touched
      PROVE  Shields(cs, ls, vs, i, n)
  <2>1. Shields(calls, localStack, vars, i, n)
    BY <1>4, <1>6 DEF ShieldInv, ShieldOK
  <2>2. vs[n] = IF Undoes(Longer(cs, c), localStack, Len(cs) + 1, n)
                THEN Undone(Longer(cs, c), localStack, Len(cs) + 1, n) ELSE vars[n]
    BY <1>4, <1>5
  <2>3. Shields(Longer(cs, c), localStack, vars, i, n) <=> Shields(cs, ls, vs, i, n)
    BY <1>4, <2>2, ShieldsLonger
  <2> QED BY <1>4, <2>1, <2>3
<1>7. ASSUME NEW i \in 1..Len(cs), cs[i].kind = "function", NEW n \in cs[i].locals
      PROVE  FrameOf(cs, ls, i)[n] # NotSaved
  <2>1. ASSUME NEW f, localStack = Append(ls, f) PROVE f \in Frames
    <3>1. Len(ls) + 1 \in 1..Len(localStack) /\ localStack[Len(ls) + 1] = f
      BY <1>4, <2>1
    <3> QED BY <1>4, <3>1
  <2>2. FrameOf(calls, localStack, i) = FrameOf(cs, ls, i)
    BY <1>4, <1>7, <2>1, FramesStay
  <2>3. FrameOf(calls, localStack, i)[n] # NotSaved
    BY <1>4, <1>7 DEF ShieldInv, LocalsOK
  <2> QED BY <2>2, <2>3
<1> QED BY <1>4, <1>6, <1>7 DEF ShieldInv, ShieldOK, LocalsOK

LEMMA EndShields ==
    ASSUME Types, ShapeOK, ShieldInv
    PROVE  ShieldStep
<1> SUFFICES ASSUME EndFunction, NEW n \in Names, n \notin TopCall.touched
             PROVE  vars'[n] = TopCall.vars[n]
  BY DEF ShieldStep
<1> DEFINE k == Len(calls)
<1>1. calls # <<>> /\ TopCall.kind = "function"
  BY DEF EndFunction
<1>2. k \in 1..Len(calls) /\ k \in Nat /\ TopCall = calls[k]
  BY <1>1, Popped
<1>3. Shields(calls, localStack, vars, k, n)
  BY <1>1, <1>2 DEF ShieldInv, ShieldOK
<1>4. k \in k..k /\ (\A j \in k..k : j = k) /\ (\A j \in k..k - 1 : FALSE)
  BY <1>2
<1>5. vars'[n] = IF Undoes(calls, localStack, k, n)
                 THEN Undone(calls, localStack, k, n) ELSE vars[n]
  BY EndsVars
<1> HIDE DEF k
<1>6. /\ Undoes(calls, localStack, k, n) => Undone(calls, localStack, k, n) = calls[k].vars[n]
      /\ ~Undoes(calls, localStack, k, n) => vars[n] = calls[k].vars[n]
  BY <1>3, <1>4 DEF Shields, k
<1> QED BY <1>2, <1>5, <1>6

LEMMA StartsShield ==
    ASSUME Types, ShapeOK, ShieldInv, Starts
    PROVE  ShieldInv'
<1>1. PICK c \in CallTypes :
        /\ calls' = Longer(calls, c) /\ Grows(localStack, c, localStack')
        /\ c.vars = vars /\ c.touched = {} /\ c.locals = {}
        /\ c.kind = "function" => localStack' = Append(localStack, NoLocals)
        /\ \/ vars' = vars
           \/ /\ c.prefix \in Names /\ c.kind = "function"
              /\ \E v \in Values : vars' = [vars EXCEPT ![c.prefix] = v]
  BY StartsWhat
<1>2. Types' /\ ShapeOK'
  BY StartsTypes
<1> DEFINE ds == calls'
           ms == localStack'
           ws == vars'
           k == Len(calls)
<1>3. /\ ds = Longer(calls, c) /\ ms \in Seq(Frames) /\ localStack \in Seq(Frames)
      /\ calls \in Seq(CallTypes) /\ Shape(calls, localStack) /\ Shape(ds, ms)
      /\ Grows(localStack, c, ms)
      /\ c.kind = "function" => ms = Append(localStack, NoLocals)
  BY <1>1, <1>2 DEF ShapeOK, Types
<1>4. \A n \in Names : ws[n] = vars[n] \/ (c.kind = "function" /\ n = c.prefix)
  BY <1>1 DEF Types, Maps
<1> HIDE DEF ds, ms, ws
<1>5. /\ k \in Nat /\ Len(ds) = k + 1 /\ ds[k + 1] = c
      /\ \A i \in 1..k : ds[i] = calls[i]
      /\ \A i \in 1..k + 1 : i \in 1..k \/ i = k + 1
  <2>0. /\ Len(calls) \in Nat /\ Len(Longer(calls, c)) = Len(calls) + 1
        /\ Longer(calls, c)[Len(calls) + 1] = c
        /\ \A i \in 1..Len(calls) : Longer(calls, c)[i] = calls[i]
    <3>1. calls \in Seq(CallTypes) /\ c \in CallTypes
      BY <1>3, <1>1
    <3> QED BY <3>1 DEF Longer
  <2>1. /\ k \in Nat /\ Len(ds) = k + 1 /\ ds[k + 1] = c
        /\ \A i \in 1..k : ds[i] = calls[i]
    BY <1>3, <2>0, Zenon
  <2> HIDE DEF k
  <2>2. \A i \in 1..k + 1 : i \in 1..k \/ i = k + 1
    BY <2>1
  <2> QED BY <2>1, <2>2
<1>6. ASSUME c.kind = "function"
      PROVE  FrameOf(ds, ms, k + 1) = NoLocals
  <2>1. FrameOf(ds, ms, k + 1) = ms[Len(ms)]
    <3>1. k + 1 \in 1..Len(ds) /\ \A j \in k + 1 + 1..Len(ds) : FALSE
      BY <1>5
    <3> QED BY <1>3, <1>5, <1>6, <3>1, TopFrame
  <2>2. ms[Len(ms)] = NoLocals
    BY <1>3, <1>6
  <2> QED BY <2>1, <2>2
<1>7. ASSUME NEW n \in Names
      PROVE  /\ Undoes(ds, ms, k + 1, n) <=> c.kind # "function" \/ n = c.prefix
             /\ Undoes(ds, ms, k + 1, n) => Undone(ds, ms, k + 1, n) = vars[n]
             /\ ~Undoes(ds, ms, k + 1, n) => ws[n] = vars[n]
  <2>1. c.kind = "function" => FrameOf(ds, ms, k + 1)[n] = NotSaved
    BY <1>6 DEF NoLocals
  <2>2. Undoes(ds, ms, k + 1, n) <=> c.kind # "function" \/ n = c.prefix
    BY <1>5, <2>1 DEF Undoes
  <2>3. Undoes(ds, ms, k + 1, n) => Undone(ds, ms, k + 1, n) = vars[n]
    BY <1>1, <1>5, <2>2 DEF Undone
  <2> QED BY <1>4, <2>2, <2>3
<1>8. ASSUME NEW i \in 1..k, NEW n \in Names,
             calls[i].kind = "function" /\ n \notin calls[i].touched
      PROVE  Shields(ds, ms, ws, i, n)
  <2>1. Shields(calls, localStack, vars, i, n)
    BY <1>8 DEF ShieldInv, ShieldOK
  <2>2. vars[n] = IF Undoes(Longer(calls, c), ms, Len(calls) + 1, n)
                  THEN Undone(Longer(calls, c), ms, Len(calls) + 1, n) ELSE ws[n]
    BY <1>3, <1>7
  <2>3. Shields(Longer(calls, c), ms, ws, i, n) <=> Shields(calls, localStack, vars, i, n)
    BY <1>3, <2>2, ShieldsLonger
  <2> QED BY <1>3, <2>1, <2>3
<1>9. ASSUME NEW n \in Names PROVE Shields(ds, ms, ws, k + 1, n)
  <2>1. \A j \in k + 1..k + 1 : j = k + 1 /\ k + 1 \in k + 1..k + 1
    BY <1>5
  <2>2. Undoes(ds, ms, k + 1, n) => Undone(ds, ms, k + 1, n) = c.vars[n]
    BY <1>1, <1>7
  <2>3. ~Undoes(ds, ms, k + 1, n) => ws[n] = c.vars[n]
    BY <1>1, <1>7
  <2> HIDE DEF k
  <2>4. k + 1 \in k + 1..k + 1
    BY <1>5
  <2> QED BY <1>5, <2>1, <2>2, <2>3, <2>4 DEF Shields
<1>10. ASSUME NEW i \in 1..k, calls[i].kind = "function", NEW n \in calls[i].locals
       PROVE  FrameOf(ds, ms, i)[n] # NotSaved
  <2>1. ASSUME NEW f, ms = Append(localStack, f) PROVE f \in Frames
    <3>1. Len(localStack) + 1 \in 1..Len(ms) /\ ms[Len(localStack) + 1] = f
      BY <1>3, <2>1
    <3> QED BY <1>3, <3>1
  <2>2. FrameOf(ds, ms, i) = FrameOf(calls, localStack, i)
    BY <1>3, <1>10, <2>1, FramesStay
  <2> QED BY <1>10, <2>2 DEF ShieldInv, LocalsOK
<1>11. ShieldOK'
  <2>1. ASSUME NEW i \in 1..k + 1, NEW n \in Names,
               ds[i].kind = "function" /\ n \notin ds[i].touched
        PROVE  Shields(ds, ms, ws, i, n)
    BY <1>5, <1>8, <1>9, <2>1
  <2> QED BY <1>5, <2>1 DEF ShieldOK, ds, ms, ws
<1>12. LocalsOK'
  <2>1. ASSUME NEW i \in 1..k + 1, ds[i].kind = "function", NEW n \in ds[i].locals
        PROVE  FrameOf(ds, ms, i)[n] # NotSaved
    BY <1>1, <1>5, <1>10, <2>1
  <2> QED BY <1>5, <2>1 DEF LocalsOK, ds, ms
<1> QED BY <1>11, <1>12 DEF ShieldInv

\* After a write the calls end as before.
LEMMA NotedUndoing ==
    ASSUME Types, Alike(calls, calls'), NEW j \in 1..Len(calls), NEW n
    PROVE  /\ Undoes(calls', localStack, j, n) <=> Undoes(calls, localStack, j, n)
           /\ Undone(calls', localStack, j, n) = Undone(calls, localStack, j, n)
<1>1. Len(calls) \in Nat
  BY DEF Types
<1>2. FrameOf(calls', localStack, j) = FrameOf(calls, localStack, j)
  BY <1>1, AlikeFrames
<1> QED BY <1>2 DEF Alike, Undoes, Undone

\* The write of another variable, or of one that a call will put back.
LEMMA NotedShields ==
    ASSUME Types, Alike(calls, calls'), NEW i \in 1..Len(calls), NEW n, NEW ws,
           Shields(calls, localStack, vars, i, n),
           \/ ws[n] = vars[n]
           \/ \E j \in i..Len(calls) : Undoes(calls, localStack, j, n)
    PROVE  Shields(calls', localStack, ws, i, n)
<1> DEFINE k == Len(calls)
<1>1. k \in Nat /\ Len(calls') = k /\ calls'[i].vars = calls[i].vars
  BY DEF Types, Alike
<1>2. \A j \in i..k : j \in 1..k /\ (\A m \in i..j - 1 : m \in 1..k)
  BY <1>1
<1>3. \A j \in 1..k : /\ Undoes(calls', localStack, j, n) <=> Undoes(calls, localStack, j, n)
                      /\ Undone(calls', localStack, j, n) = Undone(calls, localStack, j, n)
  BY NotedUndoing
<1>4. /\ \A j \in i..k : Undoes(calls, localStack, j, n)
                         /\ (\A m \in i..j - 1 : ~Undoes(calls, localStack, m, n))
                           => Undone(calls, localStack, j, n) = calls[i].vars[n]
      /\ (\A m \in i..k : ~Undoes(calls, localStack, m, n)) => vars[n] = calls[i].vars[n]
  BY DEF Shields
<1> HIDE DEF k
<1>5. ASSUME NEW j \in i..k, Undoes(calls', localStack, j, n),
             \A m \in i..j - 1 : ~Undoes(calls', localStack, m, n)
      PROVE  Undone(calls', localStack, j, n) = calls'[i].vars[n]
  BY <1>1, <1>2, <1>3, <1>4, <1>5
<1>6. ASSUME \A m \in i..k : ~Undoes(calls', localStack, m, n)
      PROVE  ws[n] = calls'[i].vars[n]
  <2>1. \A m \in i..k : ~Undoes(calls, localStack, m, n)
    BY <1>2, <1>3, <1>6
  <2> QED BY <1>1, <1>4, <2>1 DEF k
<1> QED BY <1>1, <1>5, <1>6 DEF Shields

LEMMA WritesShield ==
    ASSUME Types, ShapeOK, ShieldInv, WritesName, UNCHANGED localStack
    PROVE  ShieldInv'
<1>1. Len(calls) \in Nat
  BY DEF Types
<1>2. CASE UNCHANGED <<vars, calls>>
  BY <1>2 DEF ShieldInv, ShieldOK, LocalsOK
<1>3. CASE \E n \in Names, v \in Slots : vars' = [vars EXCEPT ![n] = v] /\ Wrote(n)
  <2>1. PICK n \in Names, v \in Slots : vars' = [vars EXCEPT ![n] = v] /\ Wrote(n)
    BY <1>3
  <2>2. /\ Alike(calls, calls')
        /\ \A i \in 1..Len(calls) :
              /\ calls'[i].locals = calls[i].locals
              /\ calls'[i].touched = IF i \in Reached(n, Len(calls))
                                     THEN calls[i].touched \cup {n} ELSE calls[i].touched
    BY <2>1, WroteTypes DEF Wrote
  <2>3. Len(calls') = Len(calls) /\ \A i \in 1..Len(calls) : calls'[i].kind = calls[i].kind
    BY <2>2 DEF Alike
  <2>4. ASSUME NEW i \in 1..Len(calls), NEW x \in Names,
               calls'[i].kind = "function" /\ x \notin calls'[i].touched
        PROVE  Shields(calls', localStack, vars', i, x)
    <3>1. Shields(calls, localStack, vars, i, x)
      BY <2>2, <2>3, <2>4 DEF ShieldInv, ShieldOK
    <3>2. CASE x # n
      <4>1. vars'[x] = vars[x]
        BY <2>1, <3>2, Put
      <4> QED BY <2>2, <3>1, <4>1, NotedShields
    <3>3. CASE x = n
      <4>1. i \notin Reached(n, Len(calls))
        BY <2>2, <2>4, <3>3
      <4>2. PICK j \in i..Len(calls) : calls[j].kind # "function" \/ n \in calls[j].locals
        BY <4>1 DEF Reached
      <4>3. j \in 1..Len(calls)
        BY <1>1
      <4>4. Undoes(calls, localStack, j, n)
        BY <4>2, <4>3 DEF ShieldInv, LocalsOK, Undoes
      <4> QED BY <2>2, <3>1, <3>3, <4>4, NotedShields
    <3> QED BY <3>2, <3>3
  <2>5. ASSUME NEW i \in 1..Len(calls), calls'[i].kind = "function", NEW x \in calls'[i].locals
        PROVE  FrameOf(calls', localStack, i)[x] # NotSaved
    <3>1. FrameOf(calls', localStack, i) = FrameOf(calls, localStack, i)
      BY <1>1, <2>2, AlikeFrames
    <3> QED BY <2>2, <2>3, <2>5, <3>1 DEF ShieldInv, LocalsOK
  <2> QED BY <2>3, <2>4, <2>5 DEF ShieldInv, ShieldOK, LocalsOK
<1> QED BY <1>2, <1>3 DEF WritesName

\* One call, the m-th, puts back another value than before, or puts back one at last.
LEMMA SavedShields ==
    ASSUME NEW cs, NEW ds, NEW ls, NEW ms, NEW vs, NEW ws, NEW n,
           Len(cs) \in Nat, Len(ds) = Len(cs),
           NEW i \in 1..Len(cs), NEW m \in i..Len(cs), ds[i].vars = cs[i].vars,
           Shields(cs, ls, vs, i, n),
           \A j \in i..Len(cs) : j # m =>
              (Undoes(ds, ms, j, n) <=> Undoes(cs, ls, j, n)) /\ Undone(ds, ms, j, n) = Undone(cs, ls, j, n),
           \/ /\ Undoes(ds, ms, m, n) <=> Undoes(cs, ls, m, n)
              /\ Undone(ds, ms, m, n) = Undone(cs, ls, m, n)
           \/ /\ m = Len(cs) /\ Undoes(ds, ms, m, n) /\ ~Undoes(cs, ls, m, n)
              /\ Undone(ds, ms, m, n) = vs[n]
           \/ \E j \in i..m - 1 : Undoes(cs, ls, j, n),
           ws[n] = vs[n] \/ \E j \in i..Len(cs) : Undoes(ds, ms, j, n)
    PROVE  Shields(ds, ms, ws, i, n)
<1> DEFINE k == Len(cs)
           U(j) == Undoes(cs, ls, j, n)
           V(j) == Undone(cs, ls, j, n)
           X(j) == Undoes(ds, ms, j, n)
           Y(j) == Undone(ds, ms, j, n)
           x == cs[i].vars[n]
<1>1. k \in Nat /\ i \in 1..k /\ m \in i..k
  OBVIOUS
<1>2. /\ \A j \in i..k : U(j) /\ (\A l \in i..j - 1 : ~U(l)) => V(j) = x
      /\ (\A j \in i..k : ~U(j)) => vs[n] = x
  BY DEF Shields
<1>3. \A j \in i..k : j # m => (X(j) <=> U(j)) /\ Y(j) = V(j)
  OBVIOUS
<1>4. \/ (X(m) <=> U(m)) /\ Y(m) = V(m)
      \/ m = k /\ X(m) /\ ~U(m) /\ Y(m) = vs[n]
      \/ \E j \in i..m - 1 : U(j)
  OBVIOUS
<1>5. ws[n] = vs[n] \/ \E j \in i..k : X(j)
  OBVIOUS
<1> HIDE DEF k, U, V, X, Y, x
<1>6. /\ \A j \in i..m - 1 : j \in i..k /\ j # m
      /\ \A j \in i..k : \A l \in i..j - 1 : l \in i..k /\ l # j
      /\ \A j \in i..k : j # m /\ ~(j \in i..m - 1) => m \in i..j - 1
  BY <1>1
<1>7. ASSUME NEW j \in i..k, X(j), \A l \in i..j - 1 : ~X(l) PROVE Y(j) = x
  <2>1. CASE (X(m) <=> U(m)) /\ Y(m) = V(m)
    <3>1. U(j) /\ (\A l \in i..j - 1 : ~U(l)) /\ Y(j) = V(j)
      BY <1>3, <1>6, <1>7, <2>1
    <3> QED BY <1>2, <3>1
  <2>2. CASE m = k /\ X(m) /\ ~U(m) /\ Y(m) = vs[n]
    <3>1. CASE j = m
      <4>1. \A l \in i..k : l = m \/ l \in i..m - 1
        BY <1>1, <2>2
      <4>2. \A l \in i..k : ~U(l)
        BY <1>3, <1>6, <1>7, <2>2, <3>1, <4>1
      <4> QED BY <1>2, <2>2, <3>1, <4>2
    <3>2. CASE j # m
      <4>1. j \in i..m - 1
        BY <1>1, <2>2, <3>2
      <4>2. \A l \in i..j - 1 : l # m
        BY <1>1, <4>1
      <4>3. U(j) /\ (\A l \in i..j - 1 : ~U(l)) /\ Y(j) = V(j)
        BY <1>3, <1>6, <1>7, <3>2, <4>2
      <4> QED BY <1>2, <4>3
    <3> QED BY <3>1, <3>2
  <2>3. CASE \E o \in i..m - 1 : U(o)
    <3>1. PICK o \in i..m - 1 : U(o)
      BY <2>3
    <3>2. X(o) /\ o \in i..k
      BY <1>3, <1>6, <3>1
    <3>3. ~(o \in i..j - 1)
      BY <1>7, <3>2
    <3>4. j \in i..m - 1
      BY <1>1, <3>1, <3>3
    <3>5. \A l \in i..j - 1 : l # m
      BY <1>1, <3>4
    <3>6. U(j) /\ (\A l \in i..j - 1 : ~U(l)) /\ Y(j) = V(j)
      BY <1>3, <1>6, <1>7, <3>4, <3>5
    <3> QED BY <1>2, <3>6
  <2> QED BY <1>4, <2>1, <2>2, <2>3
<1>8. ASSUME \A j \in i..k : ~X(j) PROVE ws[n] = x
  <2>1. ws[n] = vs[n]
    BY <1>5, <1>8
  <2>2. \A j \in i..k : ~U(j)
    <3>1. ASSUME NEW o \in i..m - 1, U(o) PROVE FALSE
      BY <1>3, <1>6, <1>8, <3>1
    <3>2. ~U(m)
      BY <1>1, <1>4, <1>8, <3>1
    <3> QED BY <1>3, <1>8, <3>2
  <2> QED BY <1>2, <2>1, <2>2
<1> QED BY <1>7, <1>8 DEF Shields, k, X, Y, x

LEMMA LocalShield ==
    ASSUME Types, ShapeOK, ShieldInv, Local
    PROVE  ShieldInv'
<1>1. PICK n \in Names, v \in Slots :
        /\ SaveLocal(n) /\ MarkLocal(n) /\ vars' = [vars EXCEPT ![n] = v]
        /\ localStack # <<>>
  BY LocalWhat
<1> DEFINE k == Len(calls)
           m == Innermost
           f == [TopLocal EXCEPT ![n] = IF TopLocal[n] = NotSaved THEN vars[n] ELSE TopLocal[n]]
           ms == localStack'
           ds == calls'
           ws == vars'
<1>2. /\ m \in 1..k /\ calls[m].kind = "function" /\ k \in Nat
      /\ \A j \in m + 1..k : calls[j].kind = "subshell"
  BY <1>1, InnermostIs DEF ShapeOK, Types
<1>3. /\ Alike(calls, ds)
      /\ \A i \in 1..k :
            IF m = k
            THEN /\ ds[i].touched = calls[i].touched
                 /\ ds[i].locals = IF i = m THEN calls[i].locals \cup {n} ELSE calls[i].locals
            ELSE /\ ds[i].locals = calls[i].locals
                 /\ ds[i].touched = IF i \in Reached(n, m)
                                    THEN calls[i].touched \cup {n} ELSE calls[i].touched
  BY <1>1, MarkTypes DEF ShapeOK
<1>4. Len(ds) = k /\ \A i \in 1..k : ds[i].kind = calls[i].kind /\ ds[i].prefix = calls[i].prefix
                                     /\ ds[i].vars = calls[i].vars
  BY <1>3 DEF Alike
<1>5. TopLocal \in Frames /\ vars[n] # NotSaved
  BY <1>1, Saved, Slot DEF Types, Maps
<1>6. f[n] # NotSaved /\ \A x \in Names : x # n \/ TopLocal[n] # NotSaved => f[x] = TopLocal[x]
  BY <1>5 DEF Frames
<1>7. TopLocal[n] = NotSaved => f[n] = vars[n]
  BY <1>5 DEF Frames
<1> HIDE DEF m, f
<1>8. ASSUME NEW i \in 1..k, calls[i].kind = "function"
      PROVE  FrameOf(ds, ms, i) = IF i = m THEN f ELSE FrameOf(calls, localStack, i)
  <2>1. FrameOf(ds, ms, i) = FrameOf(calls, ms, i)
    BY <1>2, <1>3, AlikeFrames
  <2> QED BY <1>1, <1>8, <2>1, SavedFrames DEF ShapeOK, m, f
<1>9. FrameOf(calls, localStack, m) = TopLocal
  BY <1>1, InnermostFrame DEF ShapeOK, m
<1>10. \A x \in Names : x # n => ws[x] = vars[x]
  BY <1>1, Put
<1> HIDE DEF ms, ds, ws
<1>11. ASSUME NEW x \in Names, NEW j \in 1..k, j # m
       PROVE  /\ Undoes(ds, ms, j, x) <=> Undoes(calls, localStack, j, x)
              /\ Undone(ds, ms, j, x) = Undone(calls, localStack, j, x)
  BY <1>4, <1>8, <1>11 DEF Undoes, Undone
<1>12. ASSUME NEW x \in Names, x # n \/ TopLocal[n] # NotSaved \/ n = calls[m].prefix
       PROVE  /\ Undoes(ds, ms, m, x) <=> Undoes(calls, localStack, m, x)
              /\ Undone(ds, ms, m, x) = Undone(calls, localStack, m, x)
  <2>1. FrameOf(ds, ms, m) = f /\ calls[m].kind = "function"
    BY <1>2, <1>8
  <2>2. x = calls[m].prefix \/ f[x] = TopLocal[x]
    BY <1>6, <1>12
  <2> QED BY <1>2, <1>4, <1>9, <2>1, <2>2 DEF Undoes, Undone
<1>13. Undoes(ds, ms, m, n)
  BY <1>2, <1>6, <1>8 DEF Undoes
<1>14. ASSUME TopLocal[n] = NotSaved, n # calls[m].prefix
       PROVE  ~Undoes(calls, localStack, m, n) /\ Undone(ds, ms, m, n) = vars[n]
  BY <1>2, <1>4, <1>7, <1>8, <1>9, <1>14 DEF Undoes, Undone
<1>15. ASSUME NEW i \in 1..k, NEW x \in Names,
              ds[i].kind = "function" /\ x \notin ds[i].touched
       PROVE  Shields(ds, ms, ws, i, x)
  <2>1. Shields(calls, localStack, vars, i, x)
    BY <1>3, <1>4, <1>15 DEF ShieldInv, ShieldOK
  <2>2. i <= m
    <3>1. ~(i \in m + 1..k)
      BY <1>2, <1>4, <1>15
    <3> QED BY <1>2, <3>1
  <2>3. m \in i..k /\ \A j \in i..k : j \in 1..k
    BY <1>2, <2>2
  <2>4. ws[x] = vars[x] \/ \E j \in i..k : Undoes(ds, ms, j, x)
    BY <1>10, <1>13, <2>3
  <2>5. \A j \in i..k : j # m =>
          (Undoes(ds, ms, j, x) <=> Undoes(calls, localStack, j, x))
          /\ Undone(ds, ms, j, x) = Undone(calls, localStack, j, x)
    BY <1>11, <2>3
  <2>6. \/ /\ Undoes(ds, ms, m, x) <=> Undoes(calls, localStack, m, x)
           /\ Undone(ds, ms, m, x) = Undone(calls, localStack, m, x)
        \/ /\ m = k /\ Undoes(ds, ms, m, x) /\ ~Undoes(calls, localStack, m, x)
           /\ Undone(ds, ms, m, x) = vars[x]
        \/ \E j \in i..m - 1 : Undoes(calls, localStack, j, x)
    <3>1. CASE x # n \/ TopLocal[n] # NotSaved \/ n = calls[m].prefix
      BY <1>12, <3>1
    <3>2. CASE x = n /\ TopLocal[n] = NotSaved /\ n # calls[m].prefix /\ m = k
      BY <1>13, <1>14, <3>2
    <3>3. CASE x = n /\ TopLocal[n] = NotSaved /\ n # calls[m].prefix /\ m # k
      <4>1. i \notin Reached(n, m)
        BY <1>3, <1>15, <3>3
      <4>2. PICK j \in i..m : calls[j].kind # "function" \/ n \in calls[j].locals
        <5>1. i \in 1..m
          BY <1>2, <2>2
        <5> QED BY <4>1, <5>1 DEF Reached
      <4>3. j \in 1..k
        BY <1>2, <4>2
      <4>4. j # m
        BY <1>2, <1>9, <3>3, <4>2 DEF ShieldInv, LocalsOK
      <4>5. j \in i..m - 1
        BY <1>2, <4>4
      <4>6. Undoes(calls, localStack, j, n)
        BY <4>2, <4>3 DEF ShieldInv, LocalsOK, Undoes
      <4> QED BY <3>3, <4>5, <4>6
    <3> QED BY <3>1, <3>2, <3>3
  <2>7. k \in Nat /\ Len(ds) = k /\ ds[i].vars = calls[i].vars /\ m \in i..k
    BY <1>2, <1>4, <2>3
  <2> QED BY <2>1, <2>4, <2>5, <2>6, <2>7, SavedShields
<1>16. ASSUME NEW i \in 1..k, ds[i].kind = "function", NEW x \in ds[i].locals
       PROVE  FrameOf(ds, ms, i)[x] # NotSaved
  <2>1. calls[i].kind = "function" /\ (x \in calls[i].locals \/ (i = m /\ x = n))
    BY <1>3, <1>4, <1>16
  <2>2. CASE i = m /\ x = n
    BY <1>6, <1>8, <2>1, <2>2
  <2>3. CASE x \in calls[i].locals
    <3>1. FrameOf(calls, localStack, i)[x] # NotSaved /\ x \in Names
      BY <2>1, <2>3, CallAt DEF ShieldInv, LocalsOK
    <3>2. i = m => f[x] # NotSaved
      BY <1>6, <1>9, <3>1
    <3> QED BY <1>8, <2>1, <3>1, <3>2
  <2> QED BY <2>1, <2>2, <2>3
<1> QED BY <1>4, <1>15, <1>16 DEF ShieldInv, ShieldOK, LocalsOK, ds, ms, ws

LEMMA NextShield ==
    ASSUME Types, ShapeOK, ShieldInv, [ScopeNext]_scope
    PROVE  ShieldInv'
<1>1. CASE EndShell \/ UNCHANGED scope
  BY <1>1 DEF EndShell, scope, ShieldInv, ShieldOK, LocalsOK
<1>2. CASE Writes
  BY <1>2, WritesWhat, WritesShield
<1> QED BY <1>1, <1>2, LocalShield, StartsShield, EndsShield DEF ScopeNext, Writes, Starts

-----------------------------------------------------------------------------
(* The environment of the process.                                          *)

\* What is not exported, or has no value, is not in the environment.
Clear(vs, ex, e, n) == n \notin ex \/ vs[n] = Unset => e[n] = Unset

\* It is so for the shell, and will be when a subshell or a substitution ends.
EnvOK == \A n \in Names \ stray :
    /\ Clear(vars, exported, env, n)
    /\ \A i \in 1..Len(calls) : calls[i].kind # "function" =>
          Clear(calls[i].vars, calls[i].exported, env, n)

LEMMA CallsClear ==
    ASSUME Types, EnvOK, Alike(calls, calls'), NEW n \in Names \ stray,
           NEW i \in 1..Len(calls'), calls'[i].kind # "function", env'[n] \in {env[n], Unset}
    PROVE  Clear(calls'[i].vars, calls'[i].exported, env', n)
  BY DEF Alike, EnvOK, Clear

\* In a call the names that go into the environment are noted.
LEMMA Strays ==
    ASSUME Types, Alike(calls, calls'), NEW names, PutEnv(names),
           NEW i \in 1..Len(calls'), calls'[i].kind # "function"
    PROVE  InCall /\ stray' = stray \cup names
<1>1. InCall
  BY DEF InCall, Alike
<1> QED BY <1>1 DEF PutEnv

LEMMA StraysGrow ==
    ASSUME NEW names, PutEnv(names)
    PROVE  stray \subseteq stray'
  BY DEF PutEnv

\* Every exported name is put into the environment.
LEMMA SetEnvClear ==
    ASSUME Types, EnvOK, Alike(calls, calls'), SetEnv(vars', exported'), exported \subseteq exported',
           \A n \in Names : n \in exported' /\ vars'[n] = Unset => vars[n] = Unset
    PROVE  EnvOK'
<1>1. /\ env' = [n \in Names |-> IF n \in exported' /\ vars'[n] # Unset THEN vars'[n] ELSE env[n]]
      /\ PutEnv(exported')
  BY DEF SetEnv
<1>2. stray \subseteq stray'
  BY <1>1, StraysGrow
<1>3. ASSUME NEW n \in Names \ stray'
      PROVE  Clear(vars', exported', env', n)
  <2>1. n \notin stray
    BY <1>2, <1>3
  <2> QED BY <1>1, <2>1 DEF EnvOK, Clear
<1>4. ASSUME NEW n \in Names \ stray', NEW i \in 1..Len(calls'), calls'[i].kind # "function"
      PROVE  Clear(calls'[i].vars, calls'[i].exported, env', n)
  <2>1. stray' = stray \cup exported'
    BY <1>1, <1>4, Strays
  <2>2. env'[n] = env[n] /\ n \in Names \ stray
    BY <1>1, <1>4, <2>1
  <2> QED BY <1>4, <2>2, CallsClear
<1> QED BY <1>3, <1>4 DEF EnvOK

\* A write, or none, that leaves the environment alone or clears the name in it.
LEMMA PutClear ==
    ASSUME Types, EnvOK, Alike(calls, calls'), stray \subseteq stray',
           \A n \in Names : env'[n] \in {env[n], Unset},
           \A n \in Names : \/ exported' \cap {n} = exported \cap {n} /\ vars'[n] = vars[n]
                            \/ n \in exported' /\ vars'[n] # Unset
                            \/ n \notin exported /\ n \notin exported'
                            \/ env'[n] = Unset
    PROVE  EnvOK'
<1>1. ASSUME NEW n \in Names \ stray'
      PROVE  Clear(vars', exported', env', n)
  <2>1. n \in Names \ stray /\ env'[n] \in {env[n], Unset} /\ Clear(vars, exported, env, n)
    BY <1>1 DEF EnvOK
  <2>2. CASE exported' \cap {n} = exported \cap {n} /\ vars'[n] = vars[n]
    <3>1. n \in exported' <=> n \in exported
      BY <2>2
    <3> QED BY <2>1, <2>2, <3>1 DEF Clear
  <2>3. CASE n \in exported' /\ vars'[n] # Unset
    BY <2>3 DEF Clear
  <2>4. CASE n \notin exported /\ n \notin exported'
    BY <2>1, <2>4 DEF Clear
  <2>5. CASE env'[n] = Unset
    BY <2>5 DEF Clear
  <2> QED BY <1>1, <2>2, <2>3, <2>4, <2>5
<1>2. ASSUME NEW n \in Names \ stray', NEW i \in 1..Len(calls'), calls'[i].kind # "function"
      PROVE  Clear(calls'[i].vars, calls'[i].exported, env', n)
  BY <1>2, CallsClear
<1> QED BY <1>1, <1>2 DEF EnvOK

\* A write of a value.
LEMMA ValueClear ==
    ASSUME Types, EnvOK, UNCHANGED <<exported, env, stray>>, WritesName,
           \A n \in Names : vars'[n] = vars[n] \/ vars'[n] # Unset
    PROVE  EnvOK'
<1>1. Alike(calls, calls')
  BY WritesCalls
<1> QED BY <1>1, PutClear

LEMMA WritesEnv ==
    ASSUME Types, EnvOK, Writes
    PROVE  EnvOK'
<1>0. Alike(calls, calls')
  BY WritesWhat, WritesCalls
<1>1. CASE Refuse
  BY <1>0, <1>1, PutClear DEF Refuse, runner
<1>2. CASE \E n \in Names, v \in Values :
             vars' = [vars EXCEPT ![n] = v] /\ UNCHANGED <<exported, env, stray>>
  <2>1. \A n \in Names : vars'[n] = vars[n] \/ vars'[n] # Unset
    BY <1>2, Put, Slot
  <2> QED BY <1>0, <1>2, <2>1, PutClear
<1>3. CASE (Assign \/ AssignUnchecked) /\ ~Refuse
  BY <1>2, <1>3 DEF Assign, AssignUnchecked
<1>4. CASE Readonly /\ ~Refuse
  <2>1. CASE UNCHANGED <<vars, exported, env, stray>>
    BY <1>0, <2>1, PutClear
  <2> QED BY <1>2, <1>4, <2>1 DEF Readonly
<1>5. CASE Export
  <2>1. PICK n \in Names :
          /\ \/ \E v \in Values : vars' = [vars EXCEPT ![n] = v]
             \/ vars' = vars
          /\ exported' = exported \cup {n} /\ SetEnv(vars', exported')
    BY <1>5 DEF Export
  <2>2. \A x \in Names : vars'[x] = vars[x] \/ vars'[x] # Unset
    BY <2>1, Put, Slot
  <2> QED BY <1>0, <2>1, <2>2, SetEnvClear
<1>6. CASE ExportReadonly
  <2>1. SetEnv(vars, exported) /\ UNCHANGED <<vars, exported>>
    BY <1>6 DEF ExportReadonly, runner
  <2>2. SetEnv(vars', exported') /\ exported \subseteq exported' /\ vars' = vars
    BY <2>1
  <2> QED BY <1>0, <2>2, SetEnvClear
<1>7. CASE Unexport
  <2>1. PICK n \in Names : /\ exported' = exported \ {n} /\ env' = [env EXCEPT ![n] = Unset]
                           /\ PutEnv({n}) /\ vars' = vars
    BY <1>7 DEF Unexport
  <2>2. stray \subseteq stray'
    BY <2>1, StraysGrow
  <2>3. env'[n] = Unset /\ \A x \in Names : x # n => env'[x] = env[x]
    BY <2>1 DEF Types, Maps
  <2>4. \A x \in Names : x # n => exported' \cap {x} = exported \cap {x}
    BY <2>1
  <2> QED BY <1>0, <2>1, <2>2, <2>3, <2>4, PutClear
<1>8. CASE UnsetName /\ ~Refuse
  <2>1. PICK n \in Names : /\ vars' = [vars EXCEPT ![n] = Unset]
                           /\ exported' = exported \ {n} /\ env' = [env EXCEPT ![n] = Unset]
                           /\ PutEnv({n})
    BY <1>8 DEF UnsetName
  <2>2. stray \subseteq stray'
    BY <2>1, StraysGrow
  <2>3. env'[n] = Unset /\ \A x \in Names : x # n => env'[x] = env[x] /\ vars'[x] = vars[x]
    BY <2>1 DEF Types, Maps
  <2>4. \A x \in Names : x # n => exported' \cap {x} = exported \cap {x}
    BY <2>1
  <2> QED BY <1>0, <2>2, <2>3, <2>4, PutClear
<1> QED BY <1>1, <1>3, <1>4, <1>5, <1>6, <1>7, <1>8
        DEF Writes, Assign, AssignUnchecked, Readonly, UnsetName

LEMMA LocalEnv ==
    ASSUME Types, ShapeOK, EnvOK, Local
    PROVE  EnvOK'
<1>1. PICK n \in Names, v \in Slots :
        /\ MarkLocal(n) /\ vars' = [vars EXCEPT ![n] = v]
        /\ n \notin exported => env' = env
        /\ n \in exported => env' = [env EXCEPT ![n] = v] \/ UNCHANGED <<vars, env>>
        /\ PutEnv({n} \cap exported)
        /\ localStack # <<>> /\ UNCHANGED exported
  BY LocalWhat
<1>2. Alike(calls, calls')
  BY <1>1, MarkTypes DEF ShapeOK
<1>3. stray \subseteq stray'
  BY <1>1, StraysGrow
<1>4. vars'[n] = v /\ \A x \in Names : x # n => vars'[x] = vars[x] /\ env'[x] = env[x]
  BY <1>1 DEF Types, Maps
<1>5. \/ n \notin exported /\ env' = env
      \/ n \in exported /\ env'[n] = v
      \/ vars' = vars /\ env' = env
  BY <1>1 DEF Types, Maps
<1>6. ASSUME NEW x \in Names \ stray'
      PROVE  Clear(vars', exported', env', x)
  <2>1. x \in Names \ stray /\ Clear(vars, exported, env, x)
    BY <1>3, <1>6 DEF EnvOK
  <2> QED BY <1>1, <1>4, <1>5, <2>1 DEF Clear
<1>7. ASSUME NEW x \in Names \ stray', NEW i \in 1..Len(calls'), calls'[i].kind # "function"
      PROVE  Clear(calls'[i].vars, calls'[i].exported, env', x)
  <2>1. stray' = stray \cup ({n} \cap exported)
    BY <1>1, <1>2, <1>7, Strays
  <2>2. env'[x] = env[x]
    BY <1>4, <1>5, <1>1, <1>7, <2>1
  <2> QED BY <1>2, <1>3, <1>7, <2>2, CallsClear
<1> QED BY <1>6, <1>7 DEF EnvOK

LEMMA StartsEnv ==
    ASSUME Types, EnvOK, Starts
    PROVE  EnvOK'
<1>1. PICK c \in CallTypes :
        /\ calls' = Longer(calls, c) /\ c.vars = vars
        /\ c.kind # "function" => c.exported = exported
        /\ \/ vars' = vars
           \/ /\ c.prefix \in Names /\ c.kind = "function"
              /\ \E v \in Values : vars' = [vars EXCEPT ![c.prefix] = v]
        /\ UNCHANGED <<exported, env, stray>>
  BY StartsWhat
<1>2. \A n \in Names : vars'[n] = vars[n] \/ vars'[n] # Unset
  BY <1>1, Put, Slot
<1>3. /\ Len(calls) \in Nat /\ Len(calls') = Len(calls) + 1 /\ calls'[Len(calls) + 1] = c
      /\ \A i \in 1..Len(calls) : calls'[i] = calls[i]
  <2>1. calls \in Seq(CallTypes)
    BY DEF Types
  <2> DEFINE ds == Longer(calls, c)
  <2>2. /\ Len(calls) \in Nat /\ Len(ds) = Len(calls) + 1 /\ ds[Len(calls) + 1] = c
        /\ \A i \in 1..Len(calls) : ds[i] = calls[i]
    BY <2>1, LongerCalls
  <2>3. calls' = ds
    BY <1>1
  <2> HIDE DEF ds
  <2> QED BY <2>2, <2>3
<1>4. ASSUME NEW n \in Names \ stray'
      PROVE  Clear(vars', exported', env', n)
  BY <1>1, <1>2, <1>4 DEF EnvOK, Clear
<1>5. ASSUME NEW n \in Names \ stray', NEW i \in 1..Len(calls'), calls'[i].kind # "function"
      PROVE  Clear(calls'[i].vars, calls'[i].exported, env', n)
  <2>1. n \in Names \ stray /\ env' = env
    BY <1>1, <1>5
  <2>2. CASE i = Len(calls) + 1
    BY <1>1, <1>3, <1>5, <2>1, <2>2 DEF EnvOK
  <2>3. CASE i # Len(calls) + 1
    <3>1. i \in 1..Len(calls)
      BY <1>3, <2>3
    <3> QED BY <1>3, <1>5, <2>1, <3>1 DEF EnvOK
  <2> QED BY <2>2, <2>3
<1> QED BY <1>4, <1>5 DEF EnvOK

LEMMA EndsEnv ==
    ASSUME Types, ShapeOK, EnvOK, EndFunction \/ Leave
    PROVE  EnvOK'
<1>1. calls # <<>> /\ calls' = Pop(calls)
  BY EndsWhat
<1>2. /\ Len(calls) \in 1..Len(calls) /\ TopCall = calls[Len(calls)]
      /\ \A i \in 1..Len(calls') : i \in 1..Len(calls) /\ calls'[i] = calls[i]
  <2>1. /\ Len(calls) \in Nat /\ Len(calls) \in 1..Len(calls) /\ TopCall = calls[Len(calls)]
        /\ Len(calls') = Len(calls) - 1
        /\ \A i \in 1..Len(calls) - 1 : calls'[i] = calls[i]
    BY <1>1, Popped
  <2> QED BY <2>1
<1>3. CASE Leave
  <2>1. /\ TopCall.kind # "function" /\ vars' = TopCall.vars /\ exported' = TopCall.exported
        /\ UNCHANGED <<env, stray>>
    BY <1>3 DEF Leave
  <2> QED BY <1>2, <2>1 DEF EnvOK
<1>4. CASE EndFunction
  <2>1. /\ vars' = PrefixRestored(Restored)
        /\ env' = [n \in Names |->
             IF TopLocal[n] # NotSaved /\ n \in exported THEN TopLocal[n] ELSE env[n]]
        /\ exported' = exported \ {TopCall.prefix}
        /\ stray' = stray \cup ({TopCall.prefix} \cap Names)
                          \cup {n \in exported : InCall /\ TopLocal[n] # NotSaved}
    BY <1>4 DEF EndFunction
  <2>2. ASSUME NEW n \in Names \ stray'
        PROVE  Clear(vars', exported', env', n)
    <3>1. n # TopCall.prefix /\ n \in Names \ stray /\ Clear(vars, exported, env, n)
      BY <2>1, <2>2 DEF EnvOK
    <3>2. /\ vars'[n] = IF TopLocal[n] = NotSaved THEN vars[n] ELSE TopLocal[n]
          /\ env'[n] = IF TopLocal[n] # NotSaved /\ n \in exported THEN TopLocal[n] ELSE env[n]
          /\ n \in exported' <=> n \in exported
      BY <2>1, <3>1 DEF PrefixRestored, Restored
    <3> QED BY <3>1, <3>2 DEF Clear
  <2>3. ASSUME NEW n \in Names \ stray', NEW i \in 1..Len(calls'), calls'[i].kind # "function"
        PROVE  Clear(calls'[i].vars, calls'[i].exported, env', n)
    <3>1. calls'[i] = calls[i] /\ i \in 1..Len(calls) /\ calls[i].kind # "function" /\ InCall
      BY <1>2, <2>3 DEF InCall
    <3>2. n \in Names \ stray /\ env'[n] = env[n]
      BY <2>1, <2>3, <3>1
    <3>3. Clear(calls[i].vars, calls[i].exported, env, n)
      BY <3>1, <3>2 DEF EnvOK
    <3> QED BY <3>1, <3>2, <3>3 DEF Clear
  <2> QED BY <2>2, <2>3 DEF EnvOK
<1> QED BY <1>3, <1>4

LEMMA NextEnv ==
    ASSUME Types, ShapeOK, EnvOK, [ScopeNext]_scope
    PROVE  EnvOK'
<1>1. CASE EndShell \/ UNCHANGED scope
  BY <1>1 DEF EndShell, scope, EnvOK, Clear
<1> QED BY <1>1, WritesEnv, LocalEnv, StartsEnv, EndsEnv DEF ScopeNext, Writes, Starts

\* A process that is started finds the exported variables in its environment, and
\* a function leaves the variables that it does not write, for any nesting of
\* functions, subshells and substitutions.  (runFunction, runSubshell,
\* runCommandSubWithRunner, buildEnv, the builtins local, export and unset)
THEOREM ScopesHold == ScopeSpec => ScopesKept
<1> DEFINE SInv == Types /\ ShapeOK /\ ShieldInv /\ EnvOK
<1>1. ScopeInit => SInv
  <2> SUFFICES ASSUME ScopeInit PROVE SInv
    OBVIOUS
  <2>1. ShieldInv
    BY DEF ScopeInit, ShieldInv, ShieldOK, LocalsOK
  <2>2. EnvOK
    BY DEF ScopeInit, EnvOK, Clear
  <2> QED BY <2>1, <2>2, InitTypes
<1>2. SInv /\ [ScopeNext]_scope => SInv'
  BY NextTypes, NextShield, NextEnv
<1>3. SInv => ScopeTypeOK /\ ChildSeesExports
  <2> SUFFICES ASSUME SInv PROVE ScopeTypeOK /\ ChildSeesExports
    OBVIOUS
  <2>1. Len(localStack) = Cardinality({i \in 1..Len(calls) : calls[i].kind = "function"
           /\ \A j \in i..Len(calls) : calls[j].kind # "substitution"})
    BY DEF ShapeOK, Shape, Count, Funs
  <2>2. \A i \in 1..Len(localStack) : localStack[i] \in Frames
    BY DEF Types
  <2>3. ScopeTypeOK
    BY <2>1, <2>2 DEF Types, Maps, Frames, ScopeTypeOK
  <2>4. ChildSeesExports
    BY DEF EnvOK, Clear, ChildSeesExports, ChildEnv
  <2> QED BY <2>3, <2>4
<1>4. SInv /\ [ScopeNext]_scope =>
        [EndFunction => \A n \in Names : n \notin TopCall.touched => vars'[n] = TopCall.vars[n]]_scope
  BY EndShields DEF ShieldStep
<1> HIDE DEF SInv
<1> QED BY <1>1, <1>2, <1>3, <1>4, PTL DEF ScopeSpec, ScopesKept, LocalsShield
================================================================================
