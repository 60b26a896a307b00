----------------------------- MODULE DiffLines -----------------------------
(***************************************************************************)
(* diff as src/pkg/applets/diff/diff.go does it: lines made equal by -b,    *)
(* -w, -i and -B, the table of longest common subsequences and the edit     *)
(* script it gives, the hunks of the script, and the walk over two          *)
(* directories.                                                            *)
(*                                                                         *)
(* A file is a node of kind "file" with its lines, and open when the last    *)
(* has no newline; a node of kind "dir" has entries, and one of kind         *)
(* "absent" is a name without a file, "broken" one that stat refuses.        *)
(***************************************************************************)
EXTENDS Integers, SequencesExt

VARIABLE diff

Upto(n) == [k \in 1..n |-> k]
Lower(s) == [i \in DOMAIN s |-> IF s[i] = "A" THEN "a" ELSE s[i]]
IsBlank(s) == ToSet(s) \subseteq {" "}
Words(s) == SelectSeq([i \in DOMAIN s |-> IF s[i] = " " THEN 0 ELSE IF i > 1 /\ s[i - 1] # " " THEN 0 ELSE i],
                      LAMBDA i : i # 0)
WordFrom(s, i) == SubSeq(s, i, Min({j \in i..Len(s) : j = Len(s) \/ s[j + 1] = " "}))
Squeeze(s) ==
    LET at == Words(s)
    IN FlattenSeq([k \in DOMAIN at |-> (IF k = 1 THEN <<>> ELSE <<" ">>) \o WordFrom(s, at[k])])
NoSpace(s) == SelectSeq(s, LAMBDA c : c # " ")

-----------------------------------------------------------------------------
(* normalizeLinesWithMap and compareNormalized.  splitLines has no line for a  *)
(* file that is one newline.                                                 *)

SplitLines(node) == IF node.lines = << <<>> >> THEN <<>> ELSE node.lines
Normalizes(o) == o \intersect {"b", "w", "B", "i"} # {}
Normalize(o, l) ==
    LET s == IF "w" \in o THEN NoSpace(l) ELSE IF "b" \in o THEN Squeeze(l) ELSE l
    IN IF "i" \in o THEN Lower(s) ELSE s
IndexMap(o, ls) == SelectSeq(Upto(Len(ls)), LAMBDA i : ~("B" \in o /\ IsBlank(ls[i])))
Normal(o, ls) == LET at == IndexMap(o, ls) IN [k \in DOMAIN at |-> Normalize(o, ls[at[k]])]
SameBytes(a, b) == a.lines = b.lines /\ a.open = b.open
SameNormal(o, a, b) == Normalizes(o) /\ Normal(o, SplitLines(a)) = Normal(o, SplitLines(b))

-----------------------------------------------------------------------------
(* buildDiffLinesWithOriginal *)

\* The row of a line of the left file, from the row below.
LcsRow(l, right, below) ==
    LET m == Len(right)
        cell(row, k) ==
          LET j == m - k + 1
              n == IF l = right[j] THEN below[j + 1] + 1
                   ELSE IF below[j] >= row[1] THEN below[j] ELSE row[1]
          IN <<n>> \o row
    IN FoldLeft(cell, <<0>>, Upto(m))
Lcs(left, right) ==
    LET n == Len(left)
    IN FoldLeft(LAMBDA rows, k : <<LcsRow(left[n - k + 1], right, rows[1])>> \o rows,
                <<[j \in 1..Len(right) + 1 |-> 0]>>, Upto(n))

Edit(tag, l) == [tag |-> tag, text |-> l]
\* Which of the two files is read first where the lines differ.
LeftFirst(lcs, i, j, m) == j > m \/ lcs[i + 1][j] >= lcs[i][j + 1]
Script(o, leftOrig, rightOrig) ==
    LET left == Normal(o, leftOrig)         right == Normal(o, rightOrig)
        lmap == IndexMap(o, leftOrig)       rmap == IndexMap(o, rightOrig)
        lcs == Lcs(left, right)
        n == Len(left)                      m == Len(right)
        step(q, k) ==
          IF q.i > n /\ q.j > m THEN q
          ELSE IF q.i <= n /\ (IF q.j <= m THEN left[q.i] = right[q.j] ELSE FALSE)
               THEN [i |-> q.i + 1, j |-> q.j + 1, out |-> Append(q.out, Edit(" ", leftOrig[lmap[q.i]]))]
          ELSE IF q.i <= n /\ LeftFirst(lcs, q.i, q.j, m)
               THEN [q EXCEPT !.i = @ + 1, !.out = Append(@, Edit("-", leftOrig[lmap[q.i]]))]
          ELSE [q EXCEPT !.j = @ + 1, !.out = Append(@, Edit("+", rightOrig[rmap[q.j]]))]
    IN FoldLeft(step, [i |-> 1, j |-> 1, out |-> <<>>], Upto(n + m)).out

-----------------------------------------------------------------------------
(* makeHunks and writeUnified: a hunk is the edits from start up to end, and   *)
(* the line numbers that its header gives.                                   *)

Changed(e) == e.tag # " "
HunkEnd(es, context, i) ==
    LET last(e) == Max({k \in i..e : Changed(es[k])})
    IN Min({e \in i..Len(es) + 1 : e = Len(es) + 1 \/ (IF e <= Len(es) THEN e - last(e) > context ELSE FALSE)})
MergeHunk(hunks, h) ==
    IF hunks # <<>> /\ h.start <= Last(hunks).end
    THEN [hunks EXCEPT ![Len(hunks)].end = Max({@, h.end})] ELSE Append(hunks, h)
MakeHunks(es, context) ==
    LET next(q, k) ==
          LET at == {i \in q.i..Len(es) : Changed(es[i])}
              i == Min(at)
              h == [start |-> Max({1, i - context}), end |-> HunkEnd(es, context, i)]
          IN IF at = {} THEN q ELSE [i |-> h.end, hunks |-> MergeHunk(q.hunks, h)]
    IN FoldLeft(next, [i |-> 1, hunks |-> <<>>], Upto(Len(es))).hunks

EditsOf(es, h) == SubSeq(es, h.start, h.end - 1)
BlankOnly(es) == \A k \in DOMAIN es : Changed(es[k]) => IsBlank(es[k].text)
Without(es, tag) == SelectSeq(es, LAMBDA e : e.tag # tag)
\* Mutated: counts from 0.
ComputeIndex(es, index, skipTag) == Len(Without(SubSeq(es, 1, index - 1), skipTag))
ComputeStart(es, index, skipTag) == 1 + Len(Without(SubSeq(es, 1, index - 1), skipTag))
Header(es, h) ==
    LET aCount == Len(Without(EditsOf(es, h), "+"))
        bCount == Len(Without(EditsOf(es, h), "-"))
        from(tag, count) == ComputeStart(es, h.start, tag) - (IF count = 0 THEN 1 ELSE 0)
    IN [aStart |-> from("-", aCount), aCount |-> aCount, bStart |-> from("+", bCount), bCount |-> bCount]
Unified(o, es, context) ==
    LET hunks == SelectSeq(MakeHunks(es, context),
                           LAMBDA h : ~("B" \in o /\ BlankOnly(EditsOf(es, h))))
    IN [k \in DOMAIN hunks |-> [start |-> hunks[k].start, edits |-> EditsOf(es, hunks[k]),
                                header |-> Header(es, hunks[k])]]

-----------------------------------------------------------------------------
(* Run, diffPath and diffDir: todo holds the pairs that are left.             *)

DiffInit(calls) ==
    \E c \in calls : diff = [call |-> c, todo |-> << <<c.left, c.right>> >>, top |-> TRUE, out |-> <<>>,
                             changed |-> FALSE, err |-> FALSE, pc |-> "walk", code |-> 0]
o == diff.call.opts
Left == diff.todo[1][1]
Right == diff.todo[1][2]
Comparing == diff.pc = "walk" /\ diff.todo # <<>>
Entry(kind, l, r, es, hunks) == [kind |-> kind, left |-> l, right |-> r, script |-> es, hunks |-> hunks]
Say(e, changed) ==
    diff' = [diff EXCEPT !.out = IF e.kind = "same" THEN @ ELSE Append(@, e), !.changed = @ \/ changed,
                         !.todo = Tail(@), !.top = FALSE]
Fails == diff' = [diff EXCEPT !.err = TRUE, !.todo = Tail(@), !.top = FALSE]
Patch(l, r, opts, context) ==
    LET es == Script(opts \ {"B"}, SplitLines(l), SplitLines(r))
    IN Entry("patch", l, r, es, Unified(opts, es, context))

CompareFiles ==
    /\ Comparing /\ Left.kind = "file" /\ Right.kind = "file"
    /\ IF SameBytes(Left, Right) \/ SameNormal(o, Left, Right) THEN Say(Entry("same", Left, Right, <<>>, <<>>), FALSE)
       ELSE IF "q" \in o THEN Say(Entry("differ", Left, Right, <<>>, <<>>), TRUE)
       ELSE Say(Patch(Left, Right, o, diff.call.context), TRUE)

\* Of a pair that is in one directory only, but for the operands themselves.
OnlyIn ==
    /\ Comparing /\ ~diff.top /\ "absent" \in {Left.kind, Right.kind}
    /\ Say(Entry("only", Left, Right, <<>>, <<>>), TRUE)
Readable(node) == node.kind \in {"file", "dir"}
MissingOperand ==
    /\ Comparing /\ diff.top /\ ~(Readable(Left) /\ Readable(Right))
    /\ IF "N" \notin o \/ {Left.kind, Right.kind} \intersect {"file", "dir"} # {"file"} THEN Fails
       ELSE LET there(n) == IF n.kind = "file" THEN SplitLines(n) ELSE <<>>
                es == Script(o, there(Left), there(Right))
            IN Say(Entry("patch", Left, Right, es, Unified(o, es, diff.call.context)), TRUE)
StatFails ==
    /\ Comparing /\ ~diff.top /\ "absent" \notin {Left.kind, Right.kind} /\ "broken" \in {Left.kind, Right.kind}
    /\ Fails

Mixed == Left.kind # Right.kind \/ "r" \notin o
DirectoryAndFile ==
    /\ Comparing /\ Readable(Left) /\ Readable(Right) /\ "dir" \in {Left.kind, Right.kind} /\ Mixed
    /\ Fails
Named(n, k) == LET at == {e \in ToSet(n.entries) : e.name = k}
               IN IF at = {} THEN [n EXCEPT !.kind = "absent", !.name = k, !.entries = <<>>] ELSE CHOOSE e \in at : TRUE
Pairs ==
    LET names == {e.name : e \in ToSet(Left.entries \o Right.entries)}
        all == SelectSeq(Upto(diff.call.names), LAMBDA k : k \in names /\ k >= diff.call.from)
    IN [i \in DOMAIN all |-> <<Named(Left, all[i]), Named(Right, all[i])>>]
CompareDirs ==
    /\ Comparing /\ Left.kind = "dir" /\ Right.kind = "dir" /\ ~Mixed
    /\ diff' = [diff EXCEPT !.todo = Pairs \o Tail(@), !.top = FALSE]

Conclude ==
    /\ diff.pc = "walk" /\ diff.todo = <<>>
    /\ diff' = [diff EXCEPT !.pc = "done", !.code = IF diff.err THEN 2 ELSE IF diff.changed THEN 1 ELSE 0]
DiffDone == diff.pc = "done" /\ UNCHANGED diff

DiffNext ==
    \/ CompareFiles \/ OnlyIn \/ MissingOperand \/ StatFails \/ DirectoryAndFile \/ CompareDirs
    \/ Conclude \/ DiffDone

-----------------------------------------------------------------------------
(* Properties. *)

Patches == {e \in ToSet(diff.out) : e.kind = "patch"}
Operand(n) == IF n.kind = "file" THEN SplitLines(n) ELSE <<>>
Texts(es) == [k \in DOMAIN es |-> es[k].text]
Kept(opts, ls) == [k \in DOMAIN ls |-> Normalize(opts, ls[k])]

\* The script that a patch is made of takes the left file to the right one: without
\* the lines it adds it is the left file, without those it takes away the right one,
\* but for what -b, -w and -i do not see.
ScriptRight ==
    \A p \in Patches : ("absent" \notin {p.left.kind, p.right.kind}) =>
      /\ Texts(Without(p.script, "+")) = Operand(p.left)
      /\ Kept(o, Texts(Without(p.script, "-"))) = Kept(o, Operand(p.right))

\* No shorter script does: what stays is a longest common subsequence.
CommonLength(a, b) ==
    LET sub(s, at) == LET k == SelectSeq(Upto(Len(s)), LAMBDA i : i \in at) IN [i \in DOMAIN k |-> s[k[i]]]
    IN Max({Cardinality(at) : at \in {x \in SUBSET (DOMAIN a) :
              \E y \in SUBSET (DOMAIN b) : Cardinality(x) = Cardinality(y) /\ sub(a, x) = sub(b, y)}})
ScriptShortest ==
    \A p \in Patches :
      Cardinality({k \in DOMAIN p.script : ~Changed(p.script[k])})
        = CommonLength(Normal(o \ {"B"}, Operand(p.left)), Normal(o \ {"B"}, Operand(p.right)))

\* The hunks show every change once (with -B, those of lines that are not blank),
\* with as many lines around it as asked for, and no two of them touch.
HunksShowAll ==
    \A p \in Patches :
      LET span(h) == h.start..h.start + Len(h.edits) - 1
          c == diff.call.context
          near(k) == (k - c..k + c) \intersect DOMAIN p.script
      IN /\ \A k \in DOMAIN p.script :
              Changed(p.script[k]) /\ ("B" \in o => ~IsBlank(p.script[k].text)) =>
                Cardinality({i \in DOMAIN p.hunks : near(k) \subseteq span(p.hunks[i])}) = 1
         /\ \A i \in DOMAIN p.hunks : span(p.hunks[i]) \subseteq
              UNION {near(k) : k \in {k \in DOMAIN p.script : Changed(p.script[k])}}
         /\ \A i, j \in DOMAIN p.hunks : i < j => Max(span(p.hunks[i])) + 1 < p.hunks[j].start

\* The header of the first hunk, and of any hunk after as many added as removed
\* lines, says where its lines are in both files.
At(ls, from, count) == IF count > 0 /\ from \in 1..Len(ls) + 1 - count THEN SubSeq(ls, from, from + count - 1) ELSE <<>>
Points(p, h) ==
    /\ At(Texts(Without(p.script, "+")), h.header.aStart, h.header.aCount) = Texts(Without(h.edits, "+"))
    /\ At(Texts(Without(p.script, "-")), h.header.bStart, h.header.bCount) = Texts(Without(h.edits, "-"))
Balanced(es) == Len(Without(es, "+")) = Len(Without(es, "-"))
HeadersPoint ==
    \A p \in Patches : \A i \in DOMAIN p.hunks :
      Balanced(SubSeq(p.script, 1, p.hunks[i].start - 1)) => Points(p, p.hunks[i])

\* The pairs that a call stands for, however deep (no tree has more than three levels).
PairsIn(p) ==
    LET named(n, k) == {e \in ToSet(n.entries) : e.name = k}
        none == [p[1] EXCEPT !.kind = "absent", !.lines = <<>>, !.entries = <<>>]
        side(n, k) == IF named(n, k) = {} THEN none ELSE CHOOSE e \in named(n, k) : TRUE
        names == {e.name : e \in ToSet(p[1].entries) \union ToSet(p[2].entries)}
    IN IF "r" \in o /\ p[1].kind = "dir" /\ p[2].kind = "dir"
       THEN {<<side(p[1], k), side(p[2], k)>> : k \in {k \in names : k >= diff.call.from}} ELSE {}
InnerPairs ==
    LET deeper(ps) == ps \union UNION {PairsIn(p) : p \in ps}
    IN deeper(deeper(PairsIn(<<diff.call.left, diff.call.right>>)))
Kinds(p) == {p[1].kind, p[2].kind}
OperandsMissing ==
    LET kinds == Kinds(<<diff.call.left, diff.call.right>>)
    IN kinds \intersect {"absent", "broken"} # {} /\ ~("N" \in o /\ "file" \in kinds)
Incomparable(p) ==
    /\ "absent" \notin Kinds(p)
    /\ "broken" \in Kinds(p) \/ ("dir" \in Kinds(p) /\ ("r" \notin o \/ "file" \in Kinds(p)))
SameText(l, r) ==
    IF o \intersect {"b", "w", "i", "B"} = {} THEN l.lines = r.lines /\ l.open = r.open
    ELSE Normal(o, SplitLines(l)) = Normal(o, SplitLines(r))
Differs(p) == "absent" \in Kinds(p) \/ (Kinds(p) = {"file"} /\ ~SameText(p[1], p[2]))

\* The exit status of a comparison, of files or of trees, is 2 exactly if some pair in it
\* could not be compared, else 1 exactly if some pair differs, and 0 if all are the same,
\* in whatever order the pairs come; nothing is written for 0, something for 1, and files
\* with different lines never differ without a word.  (Under -N an operand that is missing
\* differs from an empty one too: 463.)
DiffStatus ==
    LET top == <<diff.call.left, diff.call.right>>
        missing == Kinds(top) \intersect {"absent", "broken"} # {}
        failed == OperandsMissing \/ \E p \in InnerPairs \union (IF missing THEN {} ELSE {top}) : Incomparable(p)
        differs == missing \/ \E p \in InnerPairs \union {top} : Differs(p)
    IN diff.pc = "done" =>
         /\ diff.code = IF failed THEN 2 ELSE IF differs THEN 1 ELSE 0
         /\ diff.code = 0 => diff.out = <<>>
         /\ diff.code = 1 => diff.out # <<>>
         /\ \A p \in Patches : p.hunks = <<>> => SplitLines(p.left) = SplitLines(p.right)

\* diff's script, hunks, headers and status, for files and for trees.
DiffRight == ScriptRight /\ ScriptShortest /\ HunksShowAll /\ HeadersPoint /\ DiffStatus
=============================================================================
