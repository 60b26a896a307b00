---------------------------- MODULE GrepSearch ----------------------------
(***************************************************************************)
(* grep as src/pkg/applets/grep/grep.go does it: the matcher that it builds *)
(* of several patterns, the walk over operands and directories, what is     *)
(* written for a line or a file, and the exit status.                       *)
(*                                                                         *)
(* A line is a sequence of characters.  A pattern is one too: a regular     *)
(* expression without operators, in which breToRE2 has nothing to change;   *)
(* the alternation that joins them is modelled with the leftmost-first rule *)
(* of Go's regexp.  An operand or entry is a record: kind one of "file",    *)
(* "dir", "missing" and "link" (a link to a directory), name, lines and     *)
(* entries.                                                                *)
(***************************************************************************)
EXTENDS Naturals, SequencesExt

VARIABLE grep

WordChars == {"a", "b", "A"}
Lower(s) == [i \in DOMAIN s |-> IF s[i] = "A" THEN "a" ELSE s[i]]
Folded(o, s) == IF "i" \in o THEN Lower(s) ELSE s

-----------------------------------------------------------------------------
(* The matchers. *)

OccursAt(s, p, i) == i + Len(p) - 1 <= Len(s) /\ SubSeq(s, i, i + Len(p) - 1) = p
Bound(s, i) == i \notin DOMAIN s \/ s[i] \notin WordChars
WordAt(s, p, i) == OccursAt(s, p, i) /\ Bound(s, i - 1) /\ Bound(s, i + Len(p))

\* An alternation finds the leftmost place, and there the first of the patterns.
FirstAt(s, ps, from) ==
    LET places == {i \in from..Len(s) + 1 : \E k \in DOMAIN ps : OccursAt(s, ps[k], i)}
    IN IF places = {} THEN <<>>
       ELSE LET i == Min(places)
                k == Min({k \in DOMAIN ps : OccursAt(s, ps[k], i)})
            IN <<i, i + Len(ps[k])>>
After(m) == IF m[2] = m[1] THEN m[2] + 1 ELSE m[2]
FindAll(s, ps) ==
    LET found[n \in 0..Len(s) + 1] ==
          IF n = 0 THEN [next |-> 1, all |-> <<>>]
          ELSE LET prev == found[n - 1]
                   m == FirstAt(s, ps, prev.next)
               IN IF m = <<>> THEN prev ELSE [next |-> After(m), all |-> Append(prev.all, m)]
    IN found[Len(s) + 1].all

\* -w puts (?:^|\W) and (?:\W|$) around the alternation, and -x asks whether what
\* was found first is the line.
WordMatch(s, ps) == \E k \in DOMAIN ps, i \in 1..Len(s) + 1 : WordAt(s, ps[k], i)
WholeWord(s, ps) ==
    LET end(f) == f[1] + Len(ps[f[2]]) + f[3]
        rank(f) == 100 * f[1] + 2 * f[2] - f[3]
        fits == {f \in {0, 1} \X (DOMAIN ps) \X {0, 1} :
                   /\ OccursAt(s, ps[f[2]], f[1] + 1)
                   /\ f[1] = 1 => s[1] \notin WordChars
                   /\ IF f[3] = 0 THEN end(f) = Len(s)
                      ELSE end(f) <= Len(s) /\ s[end(f)] \notin WordChars}
    IN \E f \in fits : end(f) = Len(s) /\ \A g \in fits : rank(f) <= rank(g)
FoundLine(s, ps) == FirstAt(s, ps, 1) = <<1, Len(s) + 1>>
RegexMatch(o, ps, s) ==
    IF "w" \in o THEN IF "x" \in o THEN WholeWord(s, ps) ELSE WordMatch(s, ps)
    ELSE IF "x" \in o THEN FoundLine(s, ps) ELSE FirstAt(s, ps, 1) # <<>>

FixedMatch(o, ps, s) ==
    \/ <<>> \in ToSet(ps)
    \/ \E p \in ToSet(ps) : CASE "x" \in o -> s = p
                              [] "w" \in o /\ "x" \notin o -> \E i \in DOMAIN s : WordAt(s, p, i)
                              [] OTHER -> \E i \in DOMAIN s : OccursAt(s, p, i)

\* An -f whose files are empty adds no pattern, and then nothing matches.
Match(c, s) ==
    LET ps == [k \in DOMAIN c.patterns |-> Folded(c.opts, c.patterns[k])]
        l == Folded(c.opts, s)
    IN IF ps = <<>> THEN FALSE
       ELSE IF "F" \in c.opts THEN FixedMatch(c.opts, ps, l) ELSE RegexMatch(c.opts, ps, l)
Selected(c, s) == Match(c, s) # ("v" \in c.opts)

\* -F looks for one pattern after the other (395); neither asks for words with -w (321).
Spans(c, s) ==
    LET ps == [k \in DOMAIN c.patterns |-> Folded(c.opts, c.patterns[k])]
        l == Folded(c.opts, s)
        all == IF "F" \in c.opts
               THEN FlattenSeq([k \in DOMAIN ps |-> IF ps[k] = <<>> THEN <<>> ELSE FindAll(l, <<ps[k]>>)])
               ELSE FindAll(l, ps)
    IN SelectSeq(all, LAMBDA m : m[1] < m[2])
Parts(c, s) == LET at == Spans(c, s) IN [i \in DOMAIN at |-> SubSeq(s, at[i][1], at[i][2] - 1)]

-----------------------------------------------------------------------------
(* grepFile: what is written.  An entry of out is [name, num, text]: a name   *)
(* with num 0 and no text is one of -l or -L.                                *)

Prefix(c, name) ==
    IF "H" \in c.opts \/ ("h" \notin c.opts /\ (Len(c.operands) > 1 \/ "r" \in c.opts)) THEN name ELSE ""
Early(o) == o \intersect {"q", "l"} # {}
LineOut(c, f, k) ==
    LET entry(s) == [name |-> Prefix(c, f.name), num |-> IF "n" \in c.opts THEN k ELSE 0, text |-> s]
    IN IF c.opts \intersect {"c", "L"} # {} THEN <<>>
       ELSE IF "o" \in c.opts
            THEN IF "v" \in c.opts THEN <<>>
                 ELSE LET ps == Parts(c, f.lines[k]) IN [i \in DOMAIN ps |-> entry(ps[i])]
            ELSE <<entry(f.lines[k])>>
Hits(c, f) == {k \in DOMAIN f.lines : Selected(c, f.lines[k])}
NameOut(f) == <<[name |-> f.name, num |-> 0, text |-> <<>>]>>
CountOut(c, f) == <<[name |-> Prefix(c, f.name), num |-> Cardinality(Hits(c, f)), text |-> <<>>]>>
FileOut(c, f) ==
    IF Early(c.opts) /\ Hits(c, f) # {}
    THEN IF "q" \in c.opts THEN <<>> ELSE NameOut(f)
    ELSE FlattenSeq([k \in DOMAIN f.lines |-> IF k \in Hits(c, f) THEN LineOut(c, f, k) ELSE <<>>])
         \o (IF "c" \in c.opts THEN CountOut(c, f) ELSE <<>>)
         \o (IF "L" \in c.opts /\ Hits(c, f) = {} THEN NameOut(f) ELSE <<>>)

-----------------------------------------------------------------------------
(* The walk: todo holds what is left of the operand, matched and err what it  *)
(* has returned so far.                                                      *)

GrepInit(calls) ==
    \E c \in calls : grep = [call |-> c, k |-> 0, todo |-> <<>>, matched |-> FALSE, err |-> FALSE,
                             found |-> FALSE, nonMatch |-> FALSE, hadErr |-> FALSE,
                             out |-> <<>>, pc |-> "walk", code |-> 0]
Call == grep.call
Next1 == Head(grep.todo)
Walking == grep.pc = "walk" /\ grep.todo # <<>>
Fails == grep' = [grep EXCEPT !.err = TRUE, !.todo = Tail(@)]

\* Mutated: forgets the errors of operands that matched.
CollectedMatch ==
    IF grep.k = 0 THEN grep
    ELSE [grep EXCEPT !.found = @ \/ grep.matched, !.nonMatch = @ \/ (~grep.matched /\ ~grep.err),
                      !.hadErr = @ \/ (grep.err /\ ~grep.matched), !.matched = FALSE, !.err = FALSE]
\* What Run does with the result of grepPath.
Collected ==
    IF grep.k = 0 THEN grep
    ELSE [grep EXCEPT !.found = @ \/ grep.matched, !.nonMatch = @ \/ (~grep.matched /\ ~grep.err),
                      !.hadErr = @ \/ grep.err, !.matched = FALSE, !.err = FALSE]
Quits == "q" \in Call.opts /\ grep.matched
OperandDone == grep.pc = "walk" /\ grep.todo = <<>>

NextOperand ==
    /\ OperandDone /\ ~Quits /\ grep.k < Len(Call.operands)
    /\ grep' = [Collected EXCEPT !.k = @ + 1, !.todo = <<Call.operands[grep.k + 1]>>]

Status(g) ==
    IF "L" \in Call.opts /\ g.nonMatch THEN 0
    ELSE IF g.hadErr THEN 2
    ELSE IF "L" \notin Call.opts /\ g.found THEN 0 ELSE 1
Conclude ==
    /\ OperandDone /\ (grep.k = Len(Call.operands) \/ Quits)
    /\ grep' = [Collected EXCEPT !.pc = "done", !.code = IF Quits THEN 0 ELSE Status(Collected)]

MissingFile == Walking /\ Next1.kind = "missing" /\ Fails

\* Links to directories are followed among the operands only.
IsOperand == Next1 = Call.operands[grep.k]
SkipLink ==
    /\ Walking /\ Next1.kind = "link" /\ ~IsOperand
    /\ grep' = [grep EXCEPT !.todo = Tail(@)]
Directory ==
    /\ Walking /\ IF IsOperand THEN Next1.kind \in {"dir", "link"} ELSE Next1.kind = "dir"
    /\ IF "r" \in Call.opts
       THEN grep' = [grep EXCEPT !.todo = Next1.entries \o Tail(@)]
       ELSE Fails

SearchFile ==
    /\ Walking /\ Next1.kind = "file"
    /\ grep' = [grep EXCEPT !.out = @ \o FileOut(Call, Next1), !.todo = Tail(@),
                            !.matched = @ \/ Hits(Call, Next1) # {}]

GrepDone == grep.pc = "done" /\ UNCHANGED grep

GrepNext == NextOperand \/ Conclude \/ MissingFile \/ SkipLink \/ Directory \/ SearchFile \/ GrepDone

-----------------------------------------------------------------------------
(* Properties. *)

\* The files that an operand stands for, in order, and whether all of it can be read.
Below(es, Of(_)) == FlattenSeq([i \in DOMAIN es |-> Of(es[i])])
FilesOf(e) ==
    LET file(x) == IF x.kind = "file" THEN <<x>> ELSE <<>>
        inner(x) == IF x.kind = "dir" THEN Below(x.entries, file) ELSE file(x)
    IN IF e.kind \in {"dir", "link"} /\ "r" \in Call.opts THEN Below(e.entries, inner) ELSE file(e)
Unread(e) ==
    LET bad(x) == x.kind = "missing"
    IN \/ bad(e)
       \/ e.kind \in {"dir", "link"} /\ "r" \notin Call.opts
       \/ \E x \in ToSet(e.entries) : bad(x) \/ (x.kind = "dir" /\ \E y \in ToSet(x.entries) : bad(y))
AllFiles == Below(Call.operands, FilesOf)
Hit == \E f \in ToSet(AllFiles) : Hits(Call, f) # {}

\* The exit status says what happened in all of the files, however deep in a
\* directory: 2 if one could not be read, 0 if a line was selected, 1 if none was;
\* -q ends with 0 as soon as an operand has one.  (-L, whose status is that of the files
\* without a line, is left out.)
GrepStatus ==
    grep.pc = "done" /\ "L" \notin Call.opts =>
      /\ grep.code = 0 => Hit
      /\ grep.code = 1 => ~Hit
      /\ grep.code = 2 <=> (\E e \in ToSet(Call.operands) : Unread(e)) /\ ~("q" \in Call.opts /\ grep.code = 0)

\* The walk reads each file once and in order: what grep writes is what the lines
\* that are selected make, file by file, -l names those with such a line and -L the
\* others.
GrepFindsAll ==
    grep.pc = "done" /\ "q" \notin Call.opts =>
      LET names(fs) == [i \in DOMAIN fs |-> fs[i].name]
          written == [i \in DOMAIN grep.out |-> grep.out[i].name]
          texts == [i \in DOMAIN grep.out |-> grep.out[i].text]
          lines == Below(AllFiles, LAMBDA f : SelectSeq(f.lines, LAMBDA l : Selected(Call, l)))
      IN CASE "l" \in Call.opts -> written = names(SelectSeq(AllFiles, LAMBDA f : Hits(Call, f) # {}))
           [] OTHER -> CASE "L" \in Call.opts -> written = names(SelectSeq(AllFiles, LAMBDA f : Hits(Call, f) = {}))
           [] OTHER -> CASE "c" \in Call.opts ->
                /\ Len(grep.out) = Len(AllFiles)
                /\ Len(lines) = FoldLeft(LAMBDA sum, e : sum + e.num, 0, grep.out)
           [] OTHER -> CASE "o" \in Call.opts -> texts = IF "v" \in Call.opts THEN <<>>
                                           ELSE Below(lines, LAMBDA l : Parts(Call, l))
           [] OTHER -> texts = lines

\* A pattern without special characters selects the same lines with -F and as a
\* regular expression.  (Not so with -x if one pattern begins with another: the
\* alternation stops at the one that comes first.)
Unambiguous(c) ==
    "x" \in c.opts => \A i, j \in DOMAIN c.patterns : i # j => ~IsPrefix(c.patterns[i], c.patterns[j])
Literal(c) == <<>> \notin ToSet(c.patterns) /\ c.opts \intersect {"x", "w"} # {"x", "w"}
FixedAgrees ==
    grep.pc = "done" /\ Literal(Call) /\ Unambiguous(Call) =>
      \A f \in ToSet(AllFiles) : Hits(Call, f) = Hits([Call EXCEPT !.opts = SymDiff(@, {"F"})], f)

\* -o writes the parts of a line from left to right, no two of them overlap, each is
\* one of the patterns, and no pattern is left in what is between them.  Not so with -F
\* and several patterns, whose parts come pattern by pattern and may overlap (395-406:
\* -F -o -e a -e ab writes a and ab for ab), and not with -w, which should write words
\* only and writes every part that matches (321).
ByPattern(c) == "F" \in c.opts /\ Len(SelectSeq(c.patterns, LAMBDA p : p # <<>>)) > 1
PartsDisjoint ==
    grep.pc = "done" /\ "o" \in Call.opts /\ ~ByPattern(Call) /\ "w" \notin Call.opts =>
      \A f \in ToSet(AllFiles) : \A k \in DOMAIN f.lines :
        LET l == Folded(Call.opts, f.lines[k])
            ps == {Folded(Call.opts, p) : p \in ToSet(Call.patterns)}
            at == Spans(Call, f.lines[k])
            from(i) == IF i = 1 THEN 1 ELSE at[i - 1][2]
            to(i) == IF i > Len(at) THEN Len(l) ELSE at[i][1] - 1
        IN /\ \A i \in DOMAIN at : at[i][1] >= from(i) /\ SubSeq(l, at[i][1], at[i][2] - 1) \in ps
           /\ \A i \in 1..Len(at) + 1 : \A p \in ps : \A m \in from(i)..to(i) - Len(p) + 1 :
                p # <<>> => ~OccursAt(l, p, m)

\* grep finds, prints and tells all that there is.  (searchPath, grepReader, matchLine)
GrepRight == GrepStatus /\ GrepFindsAll /\ FixedAgrees /\ PartsDisjoint
=============================================================================
