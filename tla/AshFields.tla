------------------------------ MODULE AshFields ------------------------------
(***************************************************************************)
(* How a word of a command becomes arguments, and a line of input becomes    *)
(* variables, in src/pkg/applets/ash/ash.go.  The output of a command is      *)
(* pasted into the word, variables are replaced, and the text that results    *)
(* is split at IFS; marks in the text tell what must not be split.           *)
(*                                                                         *)
(* A text is a sequence of characters.  "sq", "dq" and "bs" are the quotes    *)
(* and the backslash, "$" starts an expansion, and "$()" stands for a command *)
(* substitution.  "mark" precedes a character that is taken literally, and    *)
(* "cut" separates the parameters of $@.  Patterns and arithmetic are left out. *)
(***************************************************************************)
EXTENDS Naturals, Integers, SequencesExt, FiniteSets

VARIABLE fields

Quotes == {"sq", "dq"}
NameChars == {"v", "a", "b"}
Upto(n) == [k \in 1..n |-> k]
At(s, i) == IF i \in DOMAIN s THEN s[i] ELSE "end"
From(s, i) == SubSeq(s, i, Len(s))
HasAny(s, set) == ToSet(s) \intersect set # {}
JoinBy(texts, sep) ==
    FoldLeft(LAMBDA out, i : out \o (IF i = 1 THEN <<>> ELSE sep) \o texts[i], <<>>, Upto(Len(texts)))
White(ifs) == {" "} \intersect ToSet(ifs)

-----------------------------------------------------------------------------
(* What a word looks like.                                                    *)

IsQuoted(tok) == Len(tok) >= 2 /\ tok[1] \in Quotes /\ Last(tok) = tok[1]

\* The quotes open before each character: [sq, dq, esc] after i characters.
Scan(tok, dq) ==
    [n \in 0..Len(tok) |->
       FoldLeft(LAMBDA q, i :
                  CASE q.esc -> [q EXCEPT !.esc = FALSE]
                    [] ~q.esc /\ tok[i] = "bs" /\ ~q.sq -> [q EXCEPT !.esc = TRUE]
                    [] ~q.esc /\ tok[i] = "sq" /\ ~q.dq -> [q EXCEPT !.sq = ~@]
                    [] ~q.esc /\ tok[i] = "dq" /\ ~q.sq -> [q EXCEPT !.dq = ~@]
                    [] OTHER -> q,
                [sq |-> FALSE, dq |-> dq, esc |-> FALSE], Upto(n))]
HasUnquotedExpansion(tok) ==
    LET scan == Scan(tok, FALSE)
    IN \E i \in DOMAIN tok : tok[i] \in {"$", "$()"} /\ scan[i - 1] = [sq |-> FALSE, dq |-> FALSE, esc |-> FALSE]
HasQuote(tok) == \E i \in DOMAIN tok : tok[i] \in Quotes /\ ~Scan(tok, FALSE)[i - 1].esc

\* Command substitutions outside single quotes; quotes in the output are hidden until the end.
Hide(c) == CASE c = "sq" -> "hsq" [] c = "dq" -> "hdq" [] c = "bs" -> "hbs" [] c = "$" -> "h$" [] OTHER -> c
Restore(s) ==
    [i \in DOMAIN s |-> CASE s[i] = "hsq" -> "sq" [] s[i] = "hdq" -> "dq" [] s[i] = "hbs" -> "bs" [] s[i] = "h$" -> "$" [] OTHER -> s[i]]
Hidden == {"hsq", "hdq", "hbs", "h$"}
Substituted(tok, i, dq) == tok[i] = "$()" /\ ~Scan(tok, dq)[i - 1].esc /\ ~Scan(tok, dq)[i - 1].sq
Substitutions(tok, dq) == Cardinality({i \in DOMAIN tok : Substituted(tok, i, dq)})
CommandSubs(tok, dq, output) ==
    FoldLeft(LAMBDA out, i : IF Substituted(tok, i, dq) THEN out \o [j \in DOMAIN output |-> Hide(output[j])]
                             ELSE Append(out, tok[i]), <<>>, Upto(Len(tok)))

-----------------------------------------------------------------------------
(* The expansion of variables.  sh holds v, the parameters, IFS and output.   *)

Ifs(sh) == IF sh.ifsSet THEN sh.ifs ELSE <<" ">>
Separator(sh) == IF ~sh.ifsSet THEN <<" ">> ELSE IF sh.ifs = <<>> THEN <<>> ELSE <<sh.ifs[1]>>
\* Mutated: literal text is not marked.
LiteralUnmarked(c, sh, mark) == <<c>>
Literal(c, sh, mark) == IF mark /\ c \in ToSet(Ifs(sh)) THEN <<"mark", c>> ELSE <<c>>
NameEnd(tok, i) == Max({j \in i..Len(tok) + 1 : \A k \in i + 1..j - 1 : tok[k] \in NameChars})
VarText(tok, i, sh) == IF SubSeq(tok, i + 1, NameEnd(tok, i) - 1) = <<"v">> THEN sh.v ELSE <<>>
Star(sh, mark) ==
    JoinBy(sh.positional, IF mark /\ sh.ifsSet /\ sh.ifs = <<>> THEN <<"cut">> ELSE Separator(sh))
Parameters(sh, mark) == JoinBy(sh.positional, IF mark THEN <<"cut">> ELSE Separator(sh))

\* expandVarsWithRunnerInternal
Expand(token, sh, mark, preserve) ==
    LET lit(c) == Literal(c, sh, mark)
        step(tok, q, r, i) ==
          LET next == At(tok, i + 1)
              put(s, n) == [out |-> r.out \o s, next |-> n]
          IN CASE i < r.next -> r
               [] OTHER -> CASE q.esc -> put(lit(tok[i]), i + 1)
               [] OTHER -> CASE tok[i] = "bs" /\ ~q.sq ->
                                  IF q.dq /\ next \notin {"$", "dq", "bs", "$()"} THEN put(lit("bs"), i + 1) ELSE put(<<>>, i + 1)
               [] OTHER -> CASE tok[i] = "sq" /\ ~q.dq -> put(IF preserve THEN lit("sq") ELSE <<>>, i + 1)
               [] OTHER -> CASE tok[i] = "dq" /\ ~q.sq -> put(IF preserve THEN lit("dq") ELSE <<>>, i + 1)
               [] OTHER -> CASE q.sq \/ tok[i] # "$" \/ next = "end" -> put(lit(tok[i]), i + 1)
               [] OTHER -> CASE next = "@" -> put(Parameters(sh, mark), i + 2)
               [] OTHER -> CASE next = "*" -> put(Star(sh, mark), i + 2)
               [] OTHER -> CASE next \in NameChars -> put(VarText(tok, i, sh), NameEnd(tok, i))
               [] OTHER -> put(lit("$"), i + 1)
        replaced(tok, scan) ==
          IF ~HasAny(tok, {"$", "bs"} \union Quotes \union Hidden) THEN tok
          ELSE Restore(FoldLeft(LAMBDA r, i : step(tok, scan[i - 1], r, i), [out |-> <<>>, next |-> 1], Upto(Len(tok))).out)
        substituted(tok) == replaced(tok, Scan(tok, FALSE))
    IN substituted(CommandSubs(token, FALSE, sh.output))

\* expandVarsWithRunnerNoQuotes: between double quotes.
ExpandQuoted(inner, sh) ==
    LET step(tok, r, i) ==
          LET next == At(tok, i + 1)
              put(s, n) == [out |-> r.out \o s, next |-> n]
          IN CASE i < r.next -> r
               [] OTHER -> CASE tok[i] = "bs" /\ next # "end" ->
                                  IF next \in {"$", "bs", "dq"} THEN put(<<next>>, i + 2) ELSE put(<<"bs">>, i + 1)
               [] OTHER -> CASE tok[i] # "$" \/ next = "end" -> put(<<tok[i]>>, i + 1)
               [] OTHER -> CASE next = "@" -> put(Parameters(sh, TRUE), i + 2)
               [] OTHER -> CASE next = "*" -> put(JoinBy(sh.positional, Separator(sh)), i + 2)
               [] OTHER -> CASE next \in NameChars -> put(VarText(tok, i, sh), NameEnd(tok, i))
               [] OTHER -> put(<<"$">>, i + 1)
        replaced(tok) == Restore(FoldLeft(LAMBDA r, i : step(tok, r, i), [out |-> <<>>, next |-> 1], Upto(Len(tok))).out)
    IN replaced(CommandSubs(inner, TRUE, sh.output))

ExpandToken(tok, sh) ==
    LET inner == SubSeq(tok, 2, Len(tok) - 1)
    IN IF ~IsQuoted(tok) THEN Expand(tok, sh, FALSE, FALSE)
       ELSE IF tok[1] = "sq" THEN inner ELSE ExpandQuoted(inner, sh)

-----------------------------------------------------------------------------
(* Splitting.                                                                 *)

StripMarks(s) == SelectSeq(s, LAMBDA c : c # "mark")
SplitCuts(args) ==
    LET cutAll(arg) == FoldLeft(LAMBDA out, c : IF c = "cut" THEN Append(out, <<>>)
                                                ELSE [out EXCEPT ![Len(out)] = Append(@, c)], <<<<>>>>, arg)
    IN FoldLeft(LAMBDA out, arg : out \o cutAll(StripMarks(arg)), <<>>, args)

\* The place after the run of blanks of IFS that starts at i.
PastWhite(s, i, ifs) == Min({j \in i..Len(s) + 1 : IF j > Len(s) THEN TRUE ELSE s[j] \notin White(ifs)})
\* The place after a delimiter: blanks, at most one other character of IFS, blanks.
PastDelimiter(s, i, ifs) ==
    LET past(j) == IF At(s, j) \in ToSet(ifs) THEN PastWhite(s, j + 1, ifs) ELSE j
    IN past(PastWhite(s, i, ifs))

\* splitWordFields
WordFields(s, ifs) ==
    LET step(r, i) ==
          CASE i < r.next -> r
            [] OTHER -> CASE s[i] = "mark" -> [r EXCEPT !.buf = Append(@, s[i + 1]), !.next = i + 2]
            [] OTHER -> CASE s[i] \in ToSet(ifs) ->
                               [out |-> Append(r.out, r.buf), buf |-> <<>>, next |-> PastDelimiter(s, i, ifs)]
            [] OTHER -> [r EXCEPT !.buf = Append(@, s[i]), !.next = i + 1]
        last(r) == IF r.buf # <<>> \/ r.out # <<>> THEN Append(r.out, r.buf) ELSE <<>>
    IN IF ifs = <<>> THEN <<StripMarks(s)>>
       ELSE last(FoldLeft(step, [out |-> <<>>, buf |-> <<>>, next |-> PastWhite(s, 1, ifs)], Upto(Len(s))))
\* splitOnIFS: a delimiter at the end starts no field.
SplitOnIFS(s, ifs) ==
    LET marked == Len(s) > 1 /\ At(s, Len(s) - 1) = "mark"
        ended == s # <<>> /\ ~marked /\ Last(s) \in ToSet(ifs)
        dropped(out) == IF ended /\ out # <<>> /\ Last(out) = <<>> THEN Front(out) ELSE out
    IN dropped(WordFields(s, ifs))
\* splitOnIFSWithQuotes: the quotes were kept in the text, and the empty fields are lost.
SplitWithQuotes(s, ifs) ==
    LET step(r, i) ==
          CASE i < r.next -> r
            [] OTHER -> CASE s[i] = "mark" -> [r EXCEPT !.buf = Append(@, s[i + 1]), !.started = TRUE, !.next = i + 2]
            [] OTHER -> CASE s[i] = "sq" /\ ~r.dq -> [r EXCEPT !.sq = ~@, !.started = TRUE]
            [] OTHER -> CASE s[i] = "dq" /\ ~r.sq -> [r EXCEPT !.dq = ~@, !.started = TRUE]
            [] OTHER -> CASE ~r.sq /\ ~r.dq /\ s[i] \in ToSet(ifs) ->
                               [r EXCEPT !.out = IF r.started THEN Append(@, r.buf) ELSE @, !.buf = <<>>, !.started = FALSE]
            [] OTHER -> [r EXCEPT !.buf = Append(@, s[i]), !.started = TRUE]
        last(r) == IF r.started THEN Append(r.out, r.buf) ELSE r.out
        start == [out |-> <<>>, buf |-> <<>>, next |-> 1, sq |-> FALSE, dq |-> FALSE, started |-> FALSE]
    IN IF ifs = <<>> THEN <<StripMarks(s)>> ELSE last(FoldLeft(step, start, Upto(Len(s))))

Split(tok, text, ifs) == IF HasQuote(tok) THEN SplitWithQuotes(text, ifs) ELSE SplitOnIFS(text, ifs)
NoParameters(tok, sh) == sh.positional = <<>> /\ tok \in {<<q, "$", "@", q>> : q \in Quotes}

\* The arguments that a word of a command gives.
ArgsOf(tok, sh) ==
    LET unquoted == ~IsQuoted(tok) /\ HasUnquotedExpansion(tok)
        cut(text, parts) == IF parts = <<>> /\ HasQuote(tok) /\ HasAny(text, Quotes) THEN <<<<>>>> ELSE SplitCuts(parts)
        args(text) ==
          IF NoParameters(tok, sh) \/ (text = <<>> /\ unquoted) THEN <<>>
          ELSE IF ~unquoted \/ ~HasAny(text, ToSet(Ifs(sh)) \union Quotes) THEN SplitCuts(<<text>>)
          ELSE cut(text, Split(tok, text, Ifs(sh)))
    IN args(IF unquoted THEN Expand(tok, sh, TRUE, HasQuote(tok)) ELSE ExpandToken(tok, sh))

\* The words of a for: expanded once without and, with a $, once more with marks.
ForWordsOf(tok, sh) ==
    LET dollar == ~IsQuoted(tok) /\ HasAny(tok, {"$", "$()"})
        parts(text) == IF dollar /\ HasAny(text, ToSet(Ifs(sh)) \union Quotes) THEN Split(tok, text, Ifs(sh)) ELSE <<text>>
        all == parts(IF dollar THEN Expand(tok, sh, TRUE, HasQuote(tok)) ELSE ExpandToken(tok, sh))
    IN IF NoParameters(tok, sh) THEN <<>>
       ELSE SelectSeq(SplitCuts(all), LAMBDA part : part # <<>> \/ IsQuoted(tok) \/ HasQuote(tok))
ForRuns(tok) ==
    LET subs == Substitutions(IF IsQuoted(tok) THEN SubSeq(tok, 2, Len(tok) - 1) ELSE tok, IsQuoted(tok) /\ tok[1] = "dq")
    IN IF IsQuoted(tok) THEN (IF tok[1] = "sq" THEN 0 ELSE subs) ELSE 2 * subs

-----------------------------------------------------------------------------
(* read: the fields of a line, the last variable takes the rest.              *)

TrimWhite(s, ifs) ==
    LET in == {i \in DOMAIN s : s[i] \notin White(ifs)} IN IF in = {} THEN <<>> ELSE SubSeq(s, Min(in), Max(in))
\* One delimiter that ends the rest is dropped, unless a blank inside it separates two fields.
LastField(text, ifs) ==
    LET trimmed(rest) ==
          LET other == {i \in DOMAIN rest : rest[i] \in ToSet(ifs) \ White(ifs)}
              only == \A i \in DOMAIN rest : rest[i] \in ToSet(ifs)
              separated == \E i, j \in DOMAIN rest : i < j /\ rest[i] \in White(ifs) /\ rest[j] \notin ToSet(ifs)
          IN IF Cardinality(other) # 1 THEN rest
             ELSE IF only THEN <<>>
             ELSE IF Len(rest) \in other /\ ~separated THEN TrimWhite(Front(rest), ifs)
             ELSE rest
    IN trimmed(TrimWhite(text, ifs))
RECURSIVE ReadFrom(_, _, _, _, _)
ReadFrom(s, i, ifs, max, out) ==
    LET ends == {j \in i..Len(s) : s[j] \in ToSet(ifs)}
    IN IF i > Len(s) THEN (IF out = <<>> THEN out ELSE Append(out, <<>>))
       ELSE IF Len(out) = max - 1 THEN Append(out, LastField(From(s, i), ifs))
       ELSE IF ends = {} THEN Append(out, From(s, i))
       ELSE ReadFrom(s, PastDelimiter(s, Min(ends), ifs), ifs, max, Append(out, SubSeq(s, i, Min(ends) - 1)))
ReadFields(s, ifs, max) == IF ifs = <<>> THEN <<s>> ELSE ReadFrom(s, PastWhite(s, 1, ifs), ifs, max, <<>>)
Stripped(s, ifs) ==
    LET in == {i \in DOMAIN s : s[i] \notin ToSet(ifs)} IN IF in = {} THEN <<>> ELSE SubSeq(s, Min(in), Max(in))
\* The values of n variables; without -r the backslashes go first.
ReadInto(line, raw, n, sh) ==
    LET data == IF raw THEN line ELSE SelectSeq(line, LAMBDA c : c # "bs")
        values(got) == [i \in 1..n |-> IF i <= Len(got) THEN got[i] ELSE <<>>]
    IN values(IF n = 1 THEN <<Stripped(data, Ifs(sh))>> ELSE ReadFields(data, Ifs(sh), n))

-----------------------------------------------------------------------------
(* The reference: the fields of a word as the shell language defines them.    *)
(* A word is a sequence of items: a character that stays ("lit"), one that    *)
(* may split ("exp"), quotes, which make a field even when it is empty        *)
(* ("null"), and the borders between parameters ("border", "gap").            *)

Items(tok, sh) ==
    LET texts(list, k, border) ==
            FoldLeft(LAMBDA out, i : out \o (IF i = 1 THEN <<>> ELSE <<[k |-> border]>>)
                                     \o [j \in DOMAIN list[i] |-> [k |-> k, c |-> list[i][j]]], <<>>, Upto(Len(list)))
        step(q, r, i) ==
          LET next == At(tok, i + 1)
              in == q.sq \/ q.dq
              kind == IF in THEN "lit" ELSE "exp"
              put(s, n) == [out |-> r.out \o s, next |-> n]
              null == <<[k |-> "null"]>>
              only == <<tok[i], next, At(tok, i + 2), At(tok, i + 3)>> = <<"dq", "$", "@", "dq">>
              here == <<[k |-> "lit", c |-> tok[i]]>>
          IN CASE i < r.next -> r
               [] OTHER -> CASE q.esc -> put(here, i + 1)
               [] OTHER -> CASE tok[i] = "bs" /\ ~q.sq ->
                                  put(IF q.dq /\ next \notin {"$", "dq", "bs", "$()"} THEN here ELSE <<>>, i + 1)
               [] OTHER -> CASE tok[i] = "sq" /\ ~q.dq -> put(null, i + 1)
               [] OTHER -> CASE tok[i] = "dq" /\ ~q.sq -> put(IF q.dq \/ only THEN <<>> ELSE null, i + 1)
               [] OTHER -> CASE tok[i] = "$()" /\ ~q.sq -> put(texts(<<sh.output>>, kind, "gap"), i + 1)
               [] OTHER -> CASE tok[i] # "$" \/ q.sq \/ next = "end" -> put(here, i + 1)
               [] OTHER -> CASE next = "@" /\ in -> put((IF sh.positional = <<>> THEN <<>> ELSE null) \o texts(sh.positional, kind, "border"), i + 2)
               [] OTHER -> CASE next = "*" /\ in -> put(texts(<<JoinBy(sh.positional, Separator(sh))>>, kind, "gap"), i + 2)
               [] OTHER -> CASE next \in {"@", "*"} -> put(texts(sh.positional, kind, "gap"), i + 2)
               [] OTHER -> CASE next \in NameChars -> put(texts(<<VarText(tok, i, sh)>>, kind, "gap"), NameEnd(tok, i))
               [] OTHER -> put(here, i + 1)
        items(scan) == FoldLeft(LAMBDA r, i : step(scan[i - 1], r, i), [out |-> <<>>, next |-> 1], Upto(Len(tok))).out
    IN items(Scan(tok, FALSE))

FieldsOf(tok, sh) ==
    LET white(x) == x.k = "exp" /\ x.c \in White(Ifs(sh))
        other(x) == x.k = "exp" /\ x.c \in ToSet(Ifs(sh)) \ White(Ifs(sh))
        emit(r, after) == [out |-> Append(r.out, r.buf), buf |-> <<>>, after |-> after]
        step(r, x) ==
          CASE x.k = "null" -> [r EXCEPT !.after = "text"]
            [] x.k = "border" -> emit(r, "text")
            [] x.k = "gap" -> IF r.after = "text" THEN emit(r, "start") ELSE [r EXCEPT !.after = "start"]
            [] white(x) -> IF r.after = "text" THEN emit(r, "white") ELSE r
            [] other(x) -> IF r.after = "white" THEN [r EXCEPT !.after = "other"] ELSE emit(r, "other")
            [] OTHER -> [r EXCEPT !.buf = Append(@, x.c), !.after = "text"]
        last(r) == IF r.after = "text" THEN Append(r.out, r.buf) ELSE r.out
    IN last(FoldLeft(step, [out |-> <<>>, buf |-> <<>>, after |-> "start"], Items(tok, sh)))

\* The fields of a line, one for each of n variables; the last one has the rest of the line.
LineFields(s, ifs) ==
    LET at(i) == {j \in i..Len(s) : s[j] \in ToSet(ifs)}
        start[i \in 1..Len(s) + 1] == IF at(i) = {} THEN <<i>> ELSE <<i>> \o
                                        (LET n == PastDelimiter(s, Min(at(i)), ifs) IN IF n > Len(s) THEN <<>> ELSE start[n])
        first == PastWhite(s, 1, ifs)
    IN IF first > Len(s) THEN <<>> ELSE start[first]
ReadShould(line, n, sh) ==
    LET ifs == Ifs(sh)
        field(starts, i) == LET ends == {j \in starts[i]..Len(line) : line[j] \in ToSet(ifs)}
                    IN IF ends = {} THEN From(line, starts[i]) ELSE SubSeq(line, starts[i], Min(ends) - 1)
        values(starts) ==
          [i \in 1..n |-> CASE i > Len(starts) -> <<>>
                            [] i = n /\ Len(starts) > n -> TrimWhite(From(line, starts[n]), ifs)
                            [] OTHER -> field(starts, i)]
    IN values(LineFields(line, ifs))

-----------------------------------------------------------------------------
(* A command whose words are expanded one after the other, a for, or a read.  *)

FieldsInit(calls) ==
    \E call \in calls : fields = [call |-> call, todo |-> call.words, args |-> <<>>, runs |-> 0]
ExpandWord ==
    /\ fields.call.op = "command" /\ fields.todo # <<>>
    /\ fields' = [fields EXCEPT !.todo = Tail(@), !.args = @ \o ArgsOf(Head(fields.todo), fields.call.sh)]
ForWord ==
    /\ fields.call.op = "for" /\ fields.todo # <<>>
    /\ fields' = [fields EXCEPT !.todo = Tail(@), !.args = @ \o ForWordsOf(Head(fields.todo), fields.call.sh),
                               !.runs = @ + ForRuns(Head(fields.todo))]
ReadLine ==
    /\ fields.call.op = "read" /\ fields.todo # <<>>
    /\ fields' = [fields EXCEPT !.todo = <<>>, !.args = ReadInto(Head(fields.todo), fields.call.raw, fields.call.n, fields.call.sh)]
\* name=word: nothing is split, the parameters of "$@" are joined.
AssignedValue(tok, sh) ==
    FoldLeft(LAMBDA out, c : IF c = "cut" THEN out \o Separator(sh) ELSE Append(out, c), <<>>, ExpandToken(tok, sh))
AssignWord ==
    /\ fields.call.op = "assign" /\ fields.todo # <<>>
    /\ fields' = [fields EXCEPT !.todo = Tail(@), !.args = Append(@, AssignedValue(Head(fields.todo), fields.call.sh))]
FieldsNext == ExpandWord \/ ForWord \/ ReadLine \/ AssignWord

FieldsOfAll(words, sh) == FoldLeft(LAMBDA out, tok : out \o FieldsOf(tok, sh), <<>>, words)

-----------------------------------------------------------------------------
(* Properties.                                                                *)

Mixed(tok) == ~IsQuoted(tok) /\ HasQuote(tok)
Parametrised(tok) == HasAny(tok, {"@", "*"})
\* What the code is known to get wrong, word by word: a word that begins and ends with a
\* quote counts as one quoted string; output pasted beside anything else is read again;
\* beside quotes, IFS, $@, quotes in a value and an escaped quote go wrong; parameters that
\* are empty, or are cut by IFS at their end, leave an empty argument.
InnerQuotes(tok) == IsQuoted(tok) /\ \E i \in 2..Len(tok) - 1 : tok[i] = tok[1] /\ tok[i - 1] # "bs"
PastedBeside(tok) == "$()" \in ToSet(tok) /\ Len(tok) > 1 /\ ~(IsQuoted(tok) /\ Len(tok) = 3)
QuotesBeside(tok, sh) ==
    /\ Mixed(tok)
    /\ \/ sh.ifsSet
       \/ HasAny(sh.v \o FlattenSeq(sh.positional), Quotes)
       \/ HasAny(tok, {"bs", "@"})
EmptyParameters(tok, sh) ==
    /\ Parametrised(tok) /\ ~IsQuoted(tok)
    /\ \E i \in DOMAIN sh.positional : LET p == sh.positional[i]
                                       IN IF p = <<>> THEN TRUE ELSE Last(p) \in ToSet(Ifs(sh)) \ {" "}
PlainWord(tok, sh) == ~InnerQuotes(tok) /\ ~PastedBeside(tok) /\ ~QuotesBeside(tok, sh) /\ ~EmptyParameters(tok, sh)
PlainCall(op) == fields.call.op = op /\ fields.todo = <<>> /\ \A i \in DOMAIN fields.call.words : PlainWord(fields.call.words[i], fields.call.sh)

\* The arguments of a command are the fields of its words: values are split at IFS, quoted
\* ones and literal text are not, an empty field stays where the language keeps it.
ArgumentsRight == PlainCall("command") => fields.args = FieldsOfAll(fields.call.words, fields.call.sh)
\* The words of a for are the arguments that the same words give to a command, apart from
\* the empty fields of an unquoted word, which are lost.
ForWordsRight ==
    LET should(tok) == SelectSeq(FieldsOf(tok, fields.call.sh), LAMBDA f : f # <<>> \/ HasQuote(tok))
    IN PlainCall("for") => fields.args = FlattenSeq([i \in DOMAIN fields.call.words |-> should(fields.call.words[i])])
\* An assignment keeps the value of its word in one piece.
AssignedWhole ==
    LET items == Items(fields.call.words[1], fields.call.sh)
        whole == FoldLeft(LAMBDA out, x : CASE x.k \in {"lit", "exp"} -> Append(out, x.c)
                                            [] x.k \in {"border", "gap"} -> out \o Separator(fields.call.sh)
                                            [] OTHER -> out, <<>>, items)
    IN PlainCall("assign") => fields.args = <<whole>>
\* read gives each variable its field, and the last one the rest of the line with its
\* delimiters.
ReadRight ==
    (fields.call.op = "read" /\ fields.todo = <<>> /\ fields.call.n > 1 /\ "bs" \notin ToSet(fields.call.words[1]) /\ Ifs(fields.call.sh) # <<>>) =>
        fields.args = ReadShould(fields.call.words[1], fields.call.n, fields.call.sh)

\* The words of commands, for, assignments and read become what the language says.
\* (expandTokens, expandVars, splitIFS, runForScript, the read builtin)
WordsRight == ArgumentsRight /\ ForWordsRight /\ AssignedWhole /\ ReadRight
=============================================================================
