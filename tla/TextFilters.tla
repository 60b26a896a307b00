---------------------------- MODULE TextFilters ----------------------------
(***************************************************************************)
(* The filters that read files one after the other: cat, head, tail, wc,    *)
(* cut, sort, uniq and tr of src/pkg/applets, with the helpers that they    *)
(* share in src/pkg/core; and tee, which writes to several files.           *)
(*                                                                         *)
(* A text is a sequence of characters.  A call is a record: its tool, opts  *)
(* the set of its flags, n the number of an option and sign the sign before *)
(* it, list a list of ranges, from and to the sets of tr, files what the    *)
(* operands hold.                                                           *)
(***************************************************************************)
EXTENDS Integers, SequencesExt

VARIABLE text

NL == "NL"
TAB == "TAB"
NAN == "nan"    \* the three letters: a number to strconv.ParseFloat
WIDE == "wide"  \* a character past 255
Missing == <<"missing">>
Alphabet == <<TAB, NL, " ", "-", "1", "2", "A", "B", "a", "b", "c", NAN, WIDE>>
Code == [c \in ToSet(Alphabet) |-> CHOOSE i \in 1..Len(Alphabet) : Alphabet[i] = c]
Blank == {" ", TAB}
Lower(s) == [i \in DOMAIN s |-> CASE s[i] = "A" -> "a" [] s[i] = "B" -> "b" [] OTHER -> s[i]]

Take(s, n) == IF n >= Len(s) THEN s ELSE SubSeq(s, 1, n)
Drop(s, n) == IF n < 0 THEN s ELSE SubSeq(s, n + 1, Len(s))

-----------------------------------------------------------------------------
(* strings.Split, strings.Join, strings.Fields, and bufio's ScanLines.       *)

Split(s, d) ==
    FoldLeft(LAMBDA parts, c : IF c = d THEN Append(parts, <<>>)
                               ELSE [parts EXCEPT ![Len(parts)] = Append(@, c)], << <<>> >>, s)
Join(ss, d) ==
    FlattenSeq([i \in DOMAIN ss |-> IF i = 1 THEN ss[i] ELSE <<d>> \o ss[i]])
NonEmpty(ss) == SelectSeq(ss, LAMBDA s : s # <<>>)
Fields(s) ==
    NonEmpty(Split([i \in DOMAIN s |-> IF s[i] \in Blank \union {NL} THEN " " ELSE s[i]], " "))
Lines(t) == LET ended(parts) == IF Last(parts) = <<>> THEN Front(parts) ELSE parts IN ended(Split(t, NL))
Println(ss) == FlattenSeq([i \in DOMAIN ss |-> Append(ss[i], NL)])

-----------------------------------------------------------------------------
(* head and tail *)

\* -n 5, -n +5 and -n -5: a plus sign is kept as a negative number, and so is a
\* minus sign.
Number(c) == IF c.sign = "" THEN c.n ELSE 0 - c.n
FromStart(c) == Number(c) < 0
Count(c) == IF FromStart(c) THEN 0 - Number(c) ELSE Number(c)

HeadLines(t, n) == Println(Take(Lines(t), n))
HeadBytes(t, n) == Take(t, n)

\* The lines go round in a ring of n; a ring of none panics.
TailLines(t, n) ==
    LET ls == Lines(t)
        step(r, l) == [ring |-> [r.ring EXCEPT ![r.idx + 1] = l], idx |-> (r.idx + 1) % n,
                       count |-> r.count + 1]
        end == FoldLeft(step, [ring |-> [i \in 1..n |-> <<>>], idx |-> 0, count |-> 0], ls)
        start == IF end.count < n THEN 0 ELSE end.idx
        total == IF end.count < n THEN end.count ELSE n
    IN Println([i \in 1..total |-> end.ring[((start + i - 1) % n) + 1]])
Panics(c) == c.tool = "tail" /\ "c" \notin c.opts /\ c.n = 0

TailLinesFrom(t, start) == Println(Drop(Lines(t), start - 1))

\* From byte start on, read in chunks.
TailBytesFrom(t, start, chunk) ==
    LET read(r, k) ==
          LET buf == SubSeq(t, r.pos, IF r.pos + chunk - 1 > Len(t) THEN Len(t) ELSE r.pos + chunk - 1)
              end == r.pos + Len(buf) - 1
              idx == IF r.start > r.pos THEN r.start - r.pos ELSE 0
          IN IF buf = <<>> THEN r
             ELSE IF end >= r.start
                  THEN [pos |-> end + 1, start |-> end + 1, out |-> r.out \o Drop(buf, idx)]
                  ELSE [r EXCEPT !.pos = end + 1]
    IN FoldLeft(read, [pos |-> 1, start |-> IF start < 1 THEN 1 ELSE start, out |-> <<>>],
                [k \in 1..Len(t) |-> k]).out
TailBytes(t, n) == IF Len(t) > n THEN Drop(t, Len(t) - n) ELSE t

HeadOf(c, t) == IF "c" \in c.opts THEN HeadBytes(t, Count(c)) ELSE HeadLines(t, Count(c))
TailOf(c, t) ==
    IF "c" \in c.opts
    THEN IF FromStart(c) THEN TailBytesFrom(t, Count(c), 2) ELSE TailBytes(t, Count(c))
    ELSE IF FromStart(c) THEN TailLinesFrom(t, Count(c)) ELSE TailLines(t, Count(c))
ShowHeaders(c) == Len(c.files) > 1 \/ "v" \in c.opts
Header(c, k) == IF ShowHeaders(c) THEN (IF k > 1 THEN <<NL>> ELSE <<>>) \o <<"==>", NL>> ELSE <<>>

-----------------------------------------------------------------------------
(* cat: numbers begin again with each file. *)

ShowTabs(s) == FlattenSeq([i \in DOMAIN s |-> IF s[i] = TAB THEN <<"^", "I">> ELSE <<s[i]>>])
CatLine(o, s, num) ==
    (IF num > 0 THEN <<ToString(num), TAB>> ELSE <<>>)
    \o (IF o \intersect {"t", "A"} # {} THEN ShowTabs(s) ELSE s)
    \o (IF o \intersect {"e", "A"} # {} THEN <<"$">> ELSE <<>>)
Cat(o, t) ==
    LET numbered(s) == IF "b" \in o THEN s # <<>> ELSE "n" \in o
        line(r, s) ==
          LET num == IF numbered(s) THEN r.num + 1 ELSE r.num
          IN [num |-> num, out |-> Append(r.out, CatLine(o, s, IF numbered(s) THEN num ELSE 0))]
    IN IF o = {} THEN t ELSE Println(FoldLeft(line, [num |-> 0, out |-> <<>>], Lines(t)).out)

-----------------------------------------------------------------------------
(* wc *)

NoCounts == [lines |-> 0, words |-> 0, chars |-> 0, max |-> 0]
MaxOf(a, b) == IF a > b THEN a ELSE b
CountFile(t) ==
    LET rune(q, c) ==
          [q EXCEPT !.chars = @ + 1,
                    !.lines = IF c = NL THEN @ + 1 ELSE @,
                    !.max = IF c = NL THEN MaxOf(@, q.len) ELSE @,
                    !.len = IF c = NL THEN 0 ELSE @ + 1,
                    !.inWord = c \notin Blank \union {NL},
                    !.words = IF c \notin Blank \union {NL} /\ ~q.inWord THEN @ + 1 ELSE @]
        q == FoldLeft(rune, [lines |-> 0, words |-> 0, chars |-> 0, max |-> 0, len |-> 0,
                             inWord |-> FALSE], t)
    IN [lines |-> q.lines, words |-> q.words, chars |-> q.chars, max |-> MaxOf(q.max, q.len)]
Total(a, b) == [lines |-> a.lines + b.lines, words |-> a.words + b.words,
                chars |-> a.chars + b.chars, max |-> MaxOf(a.max, b.max)]

-----------------------------------------------------------------------------
(* cut: the fields of a list are printed in the order of the list, and as     *)
(* often as it names them; characters once.                                  *)

\* A range <<lo, hi>>, hi 0 when it is open.
Span(r, n) == [i \in 1..MaxOf(0, (IF r[2] = 0 \/ r[2] > n THEN n ELSE r[2]) - r[1] + 1) |-> r[1] + i - 1]
FieldFunc(list, delim, s, l) ==
    LET fields == Split(l, delim)
        at == FlattenSeq([i \in DOMAIN list |-> Span(list[i], Len(fields))])
    IN IF Len(fields) <= 1 THEN (IF s THEN <<>> ELSE <<l>>)
       ELSE <<Join([i \in DOMAIN at |-> fields[at[i]]], delim)>>
Unseen(at) == FoldLeft(LAMBDA seen, i : IF i \in ToSet(seen) THEN seen ELSE Append(seen, i), <<>>, at)
CharFunc(list, l) ==
    LET at == Unseen(FlattenSeq([i \in DOMAIN list |-> Span(list[i], Len(l))]))
    IN [i \in DOMAIN at |-> l[at[i]]]
Cut(c, t) ==
    LET ls == Lines(t)
    IN Println(FlattenSeq([i \in DOMAIN ls |->
         IF "f" \in c.opts THEN FieldFunc(c.list, c.delim, "s" \in c.opts, ls[i])
         ELSE <<CharFunc(c.list, ls[i])>>]))

-----------------------------------------------------------------------------
(* sort: strings.ParseFloat decides which keys are numbers. *)

LexLess(a, b) ==
    LET differ == {i \in DOMAIN a \intersect DOMAIN b : a[i] # b[i]}
    IN IF differ = {} THEN Len(a) < Len(b) ELSE Code[a[Min(differ)]] < Code[b[Min(differ)]]
ExtractKey(l, field, char, sep) ==
    LET of(fields) == IF field > Len(fields) THEN <<>> ELSE Drop(fields[field], IF char = 0 THEN 0 ELSE char - 1)
    IN IF field = 0 THEN l ELSE of(IF sep = "" THEN Fields(l) ELSE Split(l, sep))
SortKey(c, l) ==
    LET folded(key) == IF "f" \in c.opts THEN Lower(key) ELSE key IN folded(ExtractKey(l, c.n, c.char, c.delim))
Digits == {"1", "2"}
ParseFloat(key) ==
    LET number(k) == [ok |-> k = <<NAN>> \/ ToSet(k) \subseteq Digits, nan |-> k = <<NAN>>,
                      val |-> FoldLeft(LAMBDA v, d : 10 * v + (IF d = "1" THEN 1 ELSE 2), 0, k)]
        only(words) == IF Len(words) # 1 THEN [ok |-> FALSE, nan |-> FALSE, val |-> 0] ELSE number(words[1])
    IN only(Fields(key))

KeyLess(reverse, a, b) == IF reverse THEN LexLess(b, a) ELSE LexLess(a, b)
Less(c, li, lj) ==
    LET reverse == "r" \in c.opts
        numbers(ki, kj, ni, nj) ==
          LET nan == ni.nan \/ nj.nan
          IN IF ~ni.ok /\ ~nj.ok THEN KeyLess(reverse, ki, kj)
             ELSE IF ni.ok # nj.ok THEN nj.ok # reverse
             ELSE IF ni.val = nj.val /\ ~nan THEN LexLess(ki, kj)
             ELSE ~nan /\ (IF reverse THEN ni.val > nj.val ELSE ni.val < nj.val)
        keys(ki, kj) == IF "n" \in c.opts THEN numbers(ki, kj, ParseFloat(ki), ParseFloat(kj)) ELSE KeyLess(reverse, ki, kj)
    IN keys(SortKey(c, li), SortKey(c, lj))

\* sort.SliceStable inserts, in blocks of twenty.
Insert(c, ls, l) ==
    LET at == Max({0} \union {j \in DOMAIN ls : ~Less(c, l, ls[j])}) IN InsertAt(ls, at + 1, l)
SliceStable(c, ls) == FoldLeft(LAMBDA sorted, l : Insert(c, sorted, l), <<>>, ls)
Unique(c, ls) ==
    LET line(r, l) == IF r.out # <<>> /\ SortKey(c, l) = r.lastKey THEN r
                      ELSE [lastKey |-> SortKey(c, l), out |-> Append(r.out, l)]
    IN FoldLeft(line, [lastKey |-> <<>>, out |-> <<>>], ls).out
SortOf(c, ls) == LET unique(sorted) == IF "u" \in c.opts THEN Unique(c, sorted) ELSE sorted IN unique(SliceStable(c, ls))

-----------------------------------------------------------------------------
(* uniq *)

DropBlank(s) == LET k == SelectInSeq(s, LAMBDA x : x \notin Blank) IN IF k = 0 THEN <<>> ELSE Drop(s, k - 1)
DropField(s) == LET k == SelectInSeq(s, LAMBDA x : x \in Blank) IN IF k = 0 THEN <<>> ELSE Drop(s, k - 1)
NormalizeLine(c, l) ==
    LET skipped == FoldLeft(LAMBDA s, k : DropField(DropBlank(s)), l, [k \in 1..c.n |-> k])
        of(key) == Take(IF "i" \in c.opts THEN Lower(key) ELSE key, IF c.max = 0 THEN Len(key) ELSE c.max)
    IN of(Drop(skipped, c.char))

Flush(o, r) ==
    IF r.first \/ ("d" \in o /\ r.count < 2) \/ ("u" \in o /\ r.count # 1) THEN r
    ELSE [r EXCEPT !.out = Append(@, r.prev), !.counts = Append(@, r.count)]
NextRun(c, r, l) ==
    [Flush(c.opts, r) EXCEPT !.prev = l, !.prevKey = NormalizeLine(c, l), !.count = 1, !.first = FALSE]
Uniq(c, ls) ==
    LET line(r, l) == IF ~r.first /\ NormalizeLine(c, l) = r.prevKey THEN [r EXCEPT !.count = @ + 1]
                      ELSE NextRun(c, r, l)
    IN Flush(c.opts, FoldLeft(line, [prev |-> <<>>, prevKey |-> <<>>, count |-> 0, first |-> TRUE,
                                     out |-> <<>>, counts |-> <<>>], ls))

-----------------------------------------------------------------------------
(* tr: a set is a sequence; without a range and without a class a minus sign  *)
(* stands for itself.  With -s it squeezes whatever it writes.               *)

Class(name) == CASE name = "[:digit:]" -> <<"1", "2">> [] name = "[:lower:]" -> <<"a", "b", "c">>
                 [] OTHER -> <<name>>
IsRange(spec, i) == i + 2 <= Len(spec) /\ spec[i + 1] = "-"
Chars(a, b) == SubSeq(Alphabet, Code[a], Code[b])
ParseSet(spec) ==
    LET from[i \in 1..Len(spec) + 1] ==
          IF i > Len(spec) THEN <<>>
          ELSE IF IsRange(spec, i) THEN Chars(spec[i], spec[i + 2]) \o from[i + 3]
          ELSE Class(spec[i]) \o from[i + 1]
    IN from[1]
ComplementSet(set) == SelectSeq(Alphabet, LAMBDA x : x # WIDE /\ x \notin set)
FromRunes(c) ==
    LET runes == ParseSet(c.from) IN IF "c" \in c.opts THEN ComplementSet(ToSet(runes)) ELSE runes
IndexRune(runes, r) == SelectInSeq(runes, LAMBDA x : x = r)
\* Mutated: counts the characters of SET2 from 0.
ToRuneNext(to, idx) == IF idx + 1 > Len(to) THEN Last(to) ELSE to[idx + 1]
ToRune(to, idx) == IF idx > Len(to) THEN Last(to) ELSE to[idx]
Tr(c, t) ==
    LET runes == FromRunes(c)
        to == ParseSet(c.to)
        write(out, r) == IF "s" \in c.opts /\ out # <<>> /\ Last(out) = r THEN out ELSE Append(out, r)
        rune(out, r) == IF r \notin ToSet(runes) THEN write(out, r)
                        ELSE IF "d" \in c.opts THEN out
                        ELSE write(out, ToRune(to, IndexRune(runes, r)))
    IN FoldLeft(rune, <<>>, t)

-----------------------------------------------------------------------------
(* A call: one file after the other.  A missing file is reported, and only    *)
(* sort and uniq end with it.                                                *)

Streams == {"cat", "head", "tail", "wc", "cut"}
TextInit(calls) ==
    \E c \in calls : text = [tool |-> c.tool, call |-> c, k |-> 1, lines |-> <<>>, out |-> <<>>, counts |-> <<>>,
                             sinks |-> [i \in 1..c.sinks |-> <<>>], code |-> 0, pc |-> "files"]

Reading == text.pc = "files" /\ text.tool # "tee" /\ text.k <= Len(text.call.files)
File == text.call.files[text.k]
IsHead == text.tool \in {"head", "tail"}
HeadFromStart == text.tool = "head" /\ FromStart(text.call)
Out(piece) == text.out \o (IF IsHead THEN Header(text.call, text.k) ELSE <<>>) \o piece

OpenFails ==
    /\ Reading /\ File = Missing /\ ~HeadFromStart
    /\ text' = [text EXCEPT !.code = 1, !.out = IF text.tool \in Streams THEN Out(<<>>) ELSE @,
                            !.k = @ + 1, !.pc = IF text.tool \in Streams THEN @ ELSE "done"]

Filter ==
    /\ Reading /\ File # Missing /\ text.tool \in {"cat", "head", "tail", "cut", "tr"}
    /\ ~(Panics(text.call) /\ File # <<>>) /\ ~HeadFromStart
    /\ LET c == text.call
           piece == CASE text.tool = "cat"  -> Cat(c.opts, File)
                      [] text.tool = "head" -> HeadOf(c, File)
                      [] text.tool = "tail" -> TailOf(c, File)
                      [] text.tool = "cut"  -> Cut(c, File)
                      [] text.tool = "tr"   -> Tr(c, File)
       IN text' = [text EXCEPT !.out = Out(piece), !.k = @ + 1]

\* From a line on is no number for head, from a byte on it refuses file by file; the
\* ring of tail -n 0 has no place.
HeadUsage ==
    /\ Reading /\ HeadFromStart /\ "c" \notin text.call.opts
    /\ text' = [text EXCEPT !.code = 2, !.pc = "done"]
HeadFrom ==
    /\ Reading /\ HeadFromStart /\ "c" \in text.call.opts
    /\ text' = [text EXCEPT !.out = Out(<<>>), !.code = 1, !.k = @ + 1]
TailPanics ==
    /\ Reading /\ File \notin {Missing, <<>>} /\ Panics(text.call)
    /\ text' = [text EXCEPT !.out = Out(<<>>), !.code = 2, !.pc = "done"]

WordCount ==
    /\ Reading /\ File # Missing /\ text.tool = "wc"
    /\ text' = [text EXCEPT !.counts = Append(@, CountFile(File)), !.k = @ + 1]

Collect ==
    /\ Reading /\ File # Missing /\ text.tool = "sort"
    /\ text' = [text EXCEPT !.lines = @ \o Lines(File), !.k = @ + 1]

RunUniq ==
    /\ Reading /\ File # Missing /\ text.tool = "uniq"
    /\ LET done(r) == [text EXCEPT !.out = Println(r.out), !.counts = r.counts, !.pc = "done"]
       IN text' = done(Uniq(text.call, Lines(File)))

Finish ==
    /\ text.pc = "files" /\ text.tool # "tee" /\ text.k > Len(text.call.files)
    /\ text' = [text EXCEPT
         !.out = IF text.tool = "sort" THEN Println(SortOf(text.call, text.lines)) ELSE @,
         !.counts = IF text.tool = "wc" /\ Len(text.call.files) > 1 THEN Append(@, FoldLeft(Total, NoCounts, @)) ELSE @,
         !.pc = "done"]

-----------------------------------------------------------------------------
(* tee copies with io.Copy to an io.MultiWriter: the output, then each file.  *)
(* The first writer that fails ends the copy, for all of them.               *)

Input == text.call.files[1]
TeeChunk ==
    /\ text.pc = "files" /\ text.tool = "tee" /\ text.k <= Len(Input)
    /\ \E n \in 1..Len(Input) - text.k + 1 :
         text' = [text EXCEPT !.sinks = [i \in DOMAIN @ |-> @[i] \o SubSeq(Input, text.k, text.k + n - 1)],
                              !.k = @ + n]
TeeFails ==
    /\ text.pc = "files" /\ text.tool = "tee" /\ text.k <= Len(Input)
    /\ \E n \in 1..Len(Input) - text.k + 1, bad \in 1..text.call.sinks, short \in 0..1 :
         /\ short < n
         /\ text' = [text EXCEPT
              !.sinks = [i \in DOMAIN @ |-> @[i] \o SubSeq(Input, text.k, text.k - 1 +
                           (IF i < bad THEN n ELSE IF i = bad THEN short ELSE 0))],
              !.code = 1, !.pc = "done"]
TeeEnds ==
    /\ text.pc = "files" /\ text.tool = "tee" /\ text.k > Len(Input)
    /\ text' = [text EXCEPT !.pc = "done"]

TextDone == text.pc = "done" /\ UNCHANGED text

TextNext ==
    \/ OpenFails \/ Filter \/ HeadUsage \/ HeadFrom \/ TailPanics \/ WordCount \/ Collect \/ RunUniq \/ Finish
    \/ TeeChunk \/ TeeFails \/ TeeEnds \/ TextDone

-----------------------------------------------------------------------------
(* Properties. *)

Finished(tool) == text.pc = "done" /\ text.tool = tool
Opened == SelectSeq(text.call.files, LAMBDA t : t # Missing)
OneFile == Len(text.call.files) = 1 /\ Opened # <<>>
TheFile == text.call.files[1]

\* What head and tail leave out of a file, put before or after what they print,
\* is the file: no line and no character is lost or doubled at the cut, whatever
\* the ring of tailLines and the chunks of tailBytesFrom did.
LeftOut ==
    LET c == text.call
        n == Count(c)
        total == Len(Lines(TheFile))
    IN IF "c" \in c.opts
       THEN CASE text.tool = "head" -> Drop(TheFile, n)
              [] text.tool # "head" /\ FromStart(c) -> Take(TheFile, n - 1)
              [] OTHER              -> Take(TheFile, MaxOf(0, Len(TheFile) - n))
       ELSE CASE text.tool = "head" -> Println(Drop(Lines(TheFile), n))
              [] text.tool # "head" /\ FromStart(c) -> Println(Take(Lines(TheFile), n - 1))
              [] OTHER              -> Println(Take(Lines(TheFile), MaxOf(0, total - n)))
HeadTailComplete ==
    (Finished("head") \/ Finished("tail")) /\ text.code = 0 /\ OneFile /\ ~ShowHeaders(text.call) =>
      LET whole == IF "c" \in text.call.opts THEN TheFile ELSE Println(Lines(TheFile))
      IN whole = IF text.tool = "head" THEN text.out \o LeftOut ELSE LeftOut \o text.out

\* A file that is missing makes the exit status 1 and takes nothing from the
\* output: cat without options prints the files that are there, and wc counts in
\* its total the lines and characters of all of them, the words of each, and the
\* longest line of any.
FilesRead ==
    /\ Finished("cat") /\ text.call.opts = {} => text.out = FlattenSeq(Opened)
    /\ Finished("wc") =>
         /\ Len(text.counts) = Len(Opened) + (IF Len(text.call.files) > 1 THEN 1 ELSE 0)
         /\ Len(text.call.files) > 1 =>
              Last(text.counts) =
                [lines |-> Len(SelectSeq(FlattenSeq(Opened), LAMBDA x : x = NL)),
                 words |-> Len(FlattenSeq([i \in DOMAIN Opened |-> Fields(Opened[i])])),
                 chars |-> Len(FlattenSeq(Opened)),
                 max |-> Max({0} \union {Len(l) : l \in UNION {ToSet(Split(t, NL)) : t \in ToSet(Opened)}})]
    /\ text.pc = "done" /\ text.tool \in {"cat", "wc", "cut"} =>
         (text.code = 0 <=> Missing \notin ToSet(text.call.files))

\* sort prints each line that it has read as often as it has read it, with -u one
\* line of each key, which is what uniq makes of the sorted lines when there is no
\* key to sort by.  (With -n and the word nan, which strconv.ParseFloat takes for a
\* number that compares with none, equal lines are not brought together.)
HasNaN == \E l \in ToSet(text.lines) : ParseFloat(SortKey(text.call, l)).nan
NaNSort == "n" \in text.call.opts /\ HasNaN
Copies(ss, l) == Cardinality({i \in DOMAIN ss : ss[i] = l})
SortKeeps ==
    Finished("sort") /\ text.code = 0 =>
      LET c == text.call
          keys(ls) == {SortKey(c, l) : l \in ToSet(ls)}
          kept(out) ==
            IF NaNSort /\ "u" \in c.opts THEN ToSet(out) \subseteq ToSet(text.lines)
            ELSE IF "u" \notin c.opts THEN \A l \in ToSet(out \o text.lines) : Copies(out, l) = Copies(text.lines, l)
            ELSE /\ keys(out) = keys(text.lines)
                 /\ Cardinality(keys(out)) = Len(out)
                 /\ "f" \notin c.opts /\ c.n = 0 =>
                      out = Uniq([c EXCEPT !.opts = {}], SliceStable(c, text.lines)).out
      IN kept(Lines(text.out))

\* No line that sort prints goes before an earlier one, and lines that go before
\* neither stay in the order of the input, but for -n with the word nan.
SortOrders ==
    Finished("sort") /\ text.code = 0 /\ ~NaNSort =>
      LET first(l) == SelectInSeq(text.lines, LAMBDA x : x = l)
          once(l) == Copies(text.lines, l) = 1
          inOrder(l, m) == /\ ~Less(text.call, m, l)
                           /\ ~Less(text.call, l, m) /\ once(l) /\ once(m) => first(l) < first(m)
          ordered(out) == \A i \in DOMAIN out : \A j \in i + 1..Len(out) : inOrder(out[i], out[j])
      IN ordered(Lines(text.out))

\* uniq prints the first line of each run of lines with equal keys, with the length
\* of the run, and with -d or -u only of those runs that are longer, or that are
\* not.
UniqRuns ==
    Finished("uniq") /\ text.code = 0 =>
      LET o == text.call.opts
          length(keys, i) == Max({n \in 1..Len(keys) - i + 1 : \A k \in i..i + n - 1 : keys[k] = keys[i]})
          printed(keys) == SelectSeq([i \in DOMAIN keys |-> i],
                             LAMBDA i : /\ i > 1 => keys[i - 1] # keys[i]
                                        /\ "d" \in o => length(keys, i) > 1
                                        /\ "u" \in o => length(keys, i) = 1)
          agrees(ls, keys, at) == /\ text.out = Println([k \in DOMAIN at |-> ls[at[k]]])
                                  /\ text.counts = [k \in DOMAIN at |-> length(keys, at[k])]
          keyed(ls, keys) == agrees(ls, keys, printed(keys))
          of(ls) == keyed(ls, [i \in DOMAIN ls |-> NormalizeLine(text.call, ls[i])])
      IN of(Lines(TheFile))

\* cut -c prints each character that some range of the list names, once, and in
\* the order of the line when the ranges are; the fields that -f prints and those
\* that the rest of the line has make the line again.
CutSelects ==
    Finished("cut") =>
      LET c == text.call
          named(n) == UNION {ToSet(Span(c.list[i], n)) : i \in DOMAIN c.list}
          ascending == \A i, j \in DOMAIN c.list : i < j => c.list[i][1] <= c.list[j][1]
          rest(l) == FieldFunc(<< <<c.list[1][2] + 1, 0>> >>, c.delim, FALSE, l)[1]
          characters(l, cut, at) ==
            /\ Len(cut) = Cardinality(at)
            /\ ascending => cut = [k \in 1..Len(cut) |-> l[CHOOSE p \in at : Cardinality({q \in at : q <= p}) = k]]
          line(l, cut) ==
            /\ "c" \in c.opts => characters(l, cut, named(Len(l)))
            /\ c.opts = {"f"} /\ Len(c.list) = 1 /\ c.list[1][1] = 1 /\ c.list[1][2] > 0 =>
                 (Len(Split(l, c.delim)) > c.list[1][2] => l = cut \o <<c.delim>> \o rest(l))
          all(ls, out) == "s" \notin c.opts => \A i \in DOMAIN ls : line(ls[i], out[i])
      IN all(FlattenSeq([i \in DOMAIN Opened |-> Lines(Opened[i])]), Lines(text.out))

\* tr -d and tr -d -c share the characters of a text out between them, and what tr
\* has translated, the sets exchanged translate back.
Bytes(t) == WIDE \notin ToSet(t)
Translates(c) ==
    /\ c.opts = {} /\ Bytes(TheFile)
    /\ Cardinality(ToSet(ParseSet(c.from))) = Len(ParseSet(c.from))
    /\ Cardinality(ToSet(ParseSet(c.to))) = Len(ParseSet(c.to))
    /\ Len(ParseSet(c.from)) = Len(ParseSet(c.to))
    /\ ToSet(TheFile) \intersect ToSet(ParseSet(c.to)) \subseteq ToSet(ParseSet(c.from))
TrInverts ==
    Finished("tr") =>
      LET c == text.call IN
      /\ Translates(c) => Tr([c EXCEPT !.from = c.to, !.to = c.from], text.out) = TheFile
      /\ c.opts \in {{"d"}, {"d", "c"}} /\ Bytes(TheFile) =>
           LET others == Tr([c EXCEPT !.opts = SymDiff(@, {"c"})], TheFile)
           IN /\ ToSet(text.out) \intersect ToSet(others) = {}
              /\ \A x \in ToSet(TheFile) : Copies(TheFile, x) = Copies(text.out \o others, x)

\* Whatever tee has written to a file it has written to the output and to the
\* files before it, from the first byte on and without a gap; when it says that all
\* went well, everything is everywhere.
TeeCopies ==
    text.tool = "tee" =>
      /\ \A i, j \in DOMAIN text.sinks : i < j => IsPrefix(text.sinks[j], text.sinks[i])
      /\ \A i \in DOMAIN text.sinks : IsPrefix(text.sinks[i], Input)
      /\ text.pc = "done" /\ text.code = 0 => \A i \in DOMAIN text.sinks : text.sinks[i] = Input

\* What the filters make of their input, each against a law that its result must keep.
\* The laws are about filters that end: tail -n 0 of a file with a line panics (tail.go:64),
\* as TailPanics says.
FiltersRight ==
    /\ HeadTailComplete /\ FilesRead /\ SortKeeps /\ SortOrders
    /\ UniqRuns /\ CutSelects /\ TrInverts /\ TeeCopies
=============================================================================
