------------------------------ MODULE AshLexer ------------------------------
(***************************************************************************)
(* How the shell in src/pkg/applets/ash/ash.go takes a script apart.  Four  *)
(* scanners read the same characters one after the other, each with its own *)
(* idea of what is quoted: splitCommands, splitAndOr,                       *)
(* splitPipelinesWithLines and splitTokens.  A fifth, tokenizeScript, gives *)
(* the tokens that compound commands are found in, and tokensToScript makes *)
(* a script of some of them again.                                          *)
(*                                                                         *)
(* A text is a sequence of characters, NL a newline.  A scanner is a step   *)
(* from its state and a position to its next state.                         *)
(***************************************************************************)
EXTENDS Naturals, Sequences

NL == "NL"
BQ == "backquote"
Spaces == {" ", NL}
At(s, i) == IF i \in 1..Len(s) THEN s[i] ELSE "end"

\* word is the buffer, parts what has been cut off; skip counts characters that
\* a step took in advance.
Start == [single |-> FALSE, double |-> FALSE, back |-> FALSE, esc |-> FALSE,
          sub |-> 0, arith |-> 0, paren |-> 0, brace |-> 0, exp |-> 0,
          comment |-> FALSE, skip |-> 0, word |-> <<>>, parts |-> <<>>]

Take(q, s, i, n) == [q EXCEPT !.word = @ \o SubSeq(s, i, i + n - 1), !.skip = n - 1]
Cut(q, n) == [q EXCEPT !.parts = Append(@, q.word), !.word = <<>>, !.skip = n - 1]
Flush(q) == IF q.word = <<>> THEN q ELSE Cut(q, 1)

Scan(Step(_, _, _), s) ==
    LET After[i \in 0..Len(s)] ==
          IF i = 0 THEN Start
          ELSE LET q == After[i - 1] IN
               IF q.skip > 0 THEN [q EXCEPT !.skip = @ - 1] ELSE Step(q, s, i)
    IN Flush(After[Len(s)]).parts

Bare(q) == ~q.single /\ ~q.double /\ ~q.back
Flat(q) == Bare(q) /\ q.sub = 0 /\ q.arith = 0 /\ q.paren = 0
Less(n) == IF n > 0 THEN n - 1 ELSE 0
IsSub(s, i)   == At(s, i) = "$" /\ At(s, i + 1) = "("
IsArith(s, i) == IsSub(s, i) /\ At(s, i + 2) = "("
Closing(s, i) == At(s, i) = ")" /\ At(s, i + 1) = ")"

-----------------------------------------------------------------------------
(* splitPipelinesWithLines and splitAndOr: substitutions begin also in       *)
(* double quotes, but end outside of them only.                              *)

\* other is what becomes of a character that neither quotes nor is quoted.
Quoting(q, s, i, other) ==
    LET c == s[i] IN
    IF q.esc THEN [Take(q, s, i, 1) EXCEPT !.esc = FALSE]
    ELSE CASE c = "\\" /\ ~q.single -> [Take(q, s, i, 1) EXCEPT !.esc = TRUE]
           [] c = BQ /\ ~q.single  -> [Take(q, s, i, 1) EXCEPT !.back = ~@]
           [] c = "'" /\ ~q.double  -> [Take(q, s, i, 1) EXCEPT !.single = ~@]
           [] c = "\"" /\ ~q.single -> [Take(q, s, i, 1) EXCEPT !.double = ~@]
           [] IsSub(s, i) /\ ~q.single /\ ~q.back ->
                IF IsArith(s, i) THEN [Take(q, s, i, 3) EXCEPT !.arith = @ + 1]
                ELSE [Take(q, s, i, 2) EXCEPT !.sub = @ + 1]
           [] c = ")" /\ Bare(q) /\ q.arith > 0 /\ Closing(s, i) ->
                [Take(q, s, i, 2) EXCEPT !.arith = @ - 1]
           [] c = ")" /\ Bare(q) /\ ~(q.arith > 0 /\ Closing(s, i)) /\ q.sub > 0 ->
                [Take(q, s, i, 1) EXCEPT !.sub = @ - 1]
           [] OTHER -> other

Parens(q, c) ==
    IF ~Bare(q) \/ q.sub > 0 \/ q.arith > 0 THEN q
    ELSE [q EXCEPT !.paren = IF c = "(" THEN @ + 1 ELSE IF c = ")" THEN Less(@) ELSE @]

PipelineChar(q, s, i) ==
    IF s[i] = "|" /\ Flat(q)
    THEN IF At(s, i + 1) = "|" THEN Take(q, s, i, 2) ELSE Cut(q, 1)
    ELSE Take(Parens(q, s[i]), s, i, 1)
PipelineStep(q, s, i) == Quoting(q, s, i, PipelineChar(q, s, i))
splitPipelines(s) == Scan(PipelineStep, s)

Braces(q, c) ==
    IF ~Bare(q) THEN q
    ELSE [q EXCEPT !.brace = IF c = "{" THEN @ + 1 ELSE IF c = "}" THEN Less(@) ELSE @]

AndOrChar(q, s, i) ==
    IF s[i] \in {"&", "|"} /\ At(s, i + 1) = s[i] /\ Flat(q) /\ q.brace = 0
    THEN Cut(q, 2)
    ELSE Take(Braces(Parens(q, s[i]), s[i]), s, i, 1)
AndOrStep(q, s, i) == Quoting(q, s, i, AndOrChar(q, s, i))
splitAndOr(s) == Scan(AndOrStep, s)

-----------------------------------------------------------------------------
(* splitCommands.  There is no case in the texts.                            *)

IsSpace(c) == c \in Spaces
LastOf(w) ==      \* the last character of w that is not a space, and the one before
    LET solid == {j \in 1..Len(w) : ~IsSpace(w[j])} IN
    IF solid = {} THEN <<"start", "start">>
    ELSE LET j == CHOOSE j \in solid : \A k \in solid : k <= j IN <<w[j], At(w, j - 1)>>

\* { begins a group where a command may begin.
OpensGroup(q, s, i) ==
    /\ s[i] = "{" /\ (IsSpace(At(s, i + 1)) \/ At(s, i + 1) \in {"(", "end"})
    /\ LET last == LastOf(q.word) IN
         last[1] \in {"start", ";", "|", "{"} \/ last = <<"&", "&">>

Groups(q, s, i) ==
    IF q.single \/ q.double THEN q
    ELSE [q EXCEPT
        !.brace = IF OpensGroup(q, s, i) THEN @ + 1 ELSE IF s[i] = "}" THEN Less(@) ELSE @,
        !.paren = IF q.sub > 0 \/ q.arith > 0 THEN @
                  ELSE IF s[i] = "(" THEN @ + 1 ELSE IF s[i] = ")" THEN Less(@) ELSE @]

TopLevel(q) == Flat(q) /\ q.brace = 0 /\ q.exp = 0

\* Mutated: ) ends a substitution outside of double quotes only.
SubEndBare(q, s, i) == s[i] = ")" /\ ~q.single /\ ~q.double /\ q.sub > 0

\* ) ends a substitution also in double quotes.
SubEnd(q, s, i) == s[i] = ")" /\ ~q.single /\ q.sub > 0

\* At the end of a line the command ends, unless it ends in | or &&.
LineEnd(q, s, i) ==
    LET last == LastOf(q.word) IN
    IF q.esc \/ ~TopLevel(q) \/ last[1] = "|" \/ last = <<"&", "&">>
    THEN [Take(q, s, i, 1) EXCEPT !.esc = FALSE, !.comment = FALSE]
    ELSE [Cut(q, 1) EXCEPT !.comment = FALSE]

CommandChar(q, s, i) ==
    LET c == s[i] IN
    CASE SubEnd(q, s, i) -> [Take(q, s, i, 1) EXCEPT !.sub = @ - 1]
      [] c \in {";", "&"} /\ TopLevel(q) /\ At(s, i + 1) = c -> Take(q, s, i, 2)
      [] c = ";" /\ TopLevel(q) /\ At(s, i + 1) # c -> Cut(q, 1)
      [] c = "&" /\ TopLevel(q) /\ At(s, i + 1) # c /\ At(s, i - 1) \notin {">", "<"} ->
           Cut(Take(q, s, i, 1), 1)
      [] OTHER -> Take(Groups(q, s, i), s, i, 1)

CommandStep(q, s, i) ==
    LET c == s[i] IN
    IF c = NL THEN LineEnd(q, s, i)
    ELSE IF q.comment THEN q
    ELSE IF q.esc THEN [Take(q, s, i, 1) EXCEPT !.esc = FALSE]
    ELSE CASE c = "#" /\ ~q.single /\ ~q.back /\ q.exp = 0 /\ ~(q.double /\ q.sub = 0)
                /\ (i = 1 \/ IsSpace(At(s, i - 1))) -> [q EXCEPT !.comment = TRUE]
           [] c = "\\" /\ ~q.single -> [Take(q, s, i, 1) EXCEPT !.esc = TRUE]
           [] IsArith(s, i) /\ ~q.single -> [Take(q, s, i, 3) EXCEPT !.arith = @ + 1]
           [] IsSub(s, i) /\ ~IsArith(s, i) /\ ~q.single -> [Take(q, s, i, 2) EXCEPT !.sub = @ + 1]
           [] c = "$" /\ At(s, i + 1) = "{" /\ ~q.single -> [Take(q, s, i, 2) EXCEPT !.exp = @ + 1]
           [] c = "}" /\ q.exp > 0 /\ ~q.single -> [Take(q, s, i, 1) EXCEPT !.exp = @ - 1]
           [] c = "'" /\ ~q.double /\ ~q.back -> [Take(q, s, i, 1) EXCEPT !.single = ~@]
           [] c = "\"" /\ ~q.single /\ ~q.back -> [Take(q, s, i, 1) EXCEPT !.double = ~@]
           [] c = BQ /\ ~q.single -> [Take(q, s, i, 1) EXCEPT !.back = ~@]
           [] ~q.single /\ q.arith > 0 /\ Closing(s, i) -> [Take(q, s, i, 2) EXCEPT !.arith = @ - 1]
           [] OTHER -> CommandChar(q, s, i)
splitCommands(s) == Scan(CommandStep, s)

-----------------------------------------------------------------------------
(* splitTokens: quotes do not count in a substitution, and a backslash       *)
(* counts in single quotes too.                                              *)

InOneToken(q) == ~Bare(q) \/ q.exp > 0 \/ q.sub > 0

TokenStep(q, s, i) ==
    LET c == s[i]
        plain == q.sub = 0 /\ ~q.back
    IN IF q.esc THEN [Take(q, s, i, 1) EXCEPT !.esc = FALSE]
       ELSE CASE c = "\\" -> [Take(q, s, i, 1) EXCEPT !.esc = TRUE]
              [] c = "$" /\ At(s, i + 1) = "{" /\ ~q.single -> [Take(q, s, i, 2) EXCEPT !.exp = @ + 1]
              [] c = "}" /\ q.exp > 0 -> [Take(q, s, i, 1) EXCEPT !.exp = @ - 1]
              [] IsSub(s, i) /\ ~q.single -> [Take(q, s, i, 2) EXCEPT !.sub = @ + 1]
              [] c = "(" /\ q.sub > 0 -> [Take(q, s, i, 1) EXCEPT !.sub = @ + 1]
              [] c = ")" /\ q.sub > 0 -> [Take(q, s, i, 1) EXCEPT !.sub = @ - 1]
              [] c = BQ /\ ~q.single -> [Take(q, s, i, 1) EXCEPT !.back = ~@]
              [] c = "'" /\ ~q.double /\ plain -> [Take(q, s, i, 1) EXCEPT !.single = ~@]
              [] c = "\"" /\ ~q.single /\ plain -> [Take(q, s, i, 1) EXCEPT !.double = ~@]
              [] c \in {"(", ")"} /\ ~InOneToken(q) /\ At(s, i + 1) # c ->
                   Cut(Take(Flush(q), s, i, 1), 1)
              [] IsSpace(c) /\ ~InOneToken(q) -> Flush(q)
              [] OTHER -> Take(q, s, i, 1)
splitTokens(s) == Scan(TokenStep, s)

-----------------------------------------------------------------------------
(* tokenizeScript knows quotes only; its operators are tokens.               *)

ScriptStep(q, s, i) ==
    LET c == s[i] IN
    IF q.esc THEN [Take(q, s, i, 1) EXCEPT !.esc = FALSE]
    ELSE CASE c = "\\" /\ ~q.single /\ At(s, i + 1) = NL -> [q EXCEPT !.skip = 1]
           [] c = "\\" /\ ~q.single /\ At(s, i + 1) # NL -> [Take(q, s, i, 1) EXCEPT !.esc = TRUE]
           [] c = "'" /\ ~q.double  -> [Take(q, s, i, 1) EXCEPT !.single = ~@]
           [] c = "\"" /\ ~q.single -> [Take(q, s, i, 1) EXCEPT !.double = ~@]
           [] c = BQ /\ ~q.single  -> [Take(q, s, i, 1) EXCEPT !.back = ~@]
           [] c \in {";", "&"} /\ Bare(q) /\ At(s, i + 1) = c -> Cut(Take(Flush(q), s, i, 2), 2)
           [] c \in {";", NL} /\ Bare(q) /\ (c = NL \/ At(s, i + 1) # c) ->
                Cut(Take(Flush(q), s, i, 1), 1)
           [] c = "&" /\ Bare(q) /\ At(s, i + 1) # c /\ At(s, i - 1) \notin {">", "<"} ->
                Cut(Take(Flush(q), s, i, 1), 1)
           [] c = " " /\ Bare(q) -> Flush(q)
           [] OTHER -> Take(q, s, i, 1)
tokenizeScript(s) == Scan(ScriptStep, s)

Separators == {<<";">>, <<NL>>}

Spaced(text, token) == text \o (IF text = <<>> THEN <<>> ELSE <<" ">>) \o token

\* The body of a compound command as a script: newlines become semicolons.
tokensToScript(tokens) ==
    LET separated(k) == k > 0 /\ tokens[k] \in Separators \union {<<";", ";">>}
        Text[k \in 0..Len(tokens)] ==
          IF k = 0 THEN <<>>
          ELSE LET text == Text[k - 1] IN
               CASE tokens[k] \in Separators ->
                      IF separated(k - 1) THEN text ELSE Append(text, ";")
                 [] tokens[k] = <<";", ";">> /\ separated(k - 1) -> text \o tokens[k]
                 [] OTHER -> Spaced(text, tokens[k])
    IN Text[Len(tokens)]

-----------------------------------------------------------------------------
(* findMatchingTerminator: where the compound command at the beginning of a  *)
(* sequence of tokens ends, 0 if it does not.  A token is a word here.       *)

Terminator(word) == CASE word \in {"while", "until", "for"} -> "done"
                      [] word = "if" -> "fi"
                      [] word = "case" -> "esac"
                      [] word = "{" -> "}"
                      [] OTHER -> "none"
Operators == {";", NL, ";;", "&", "&&", "||"}

\* for has words: in comes before the end of the line, and before do.
HasList(tokens, i) == \E j \in (i + 1)..Len(tokens) :
    tokens[j] = "in" /\ \A k \in (i + 1)..j : tokens[k] \notin {";", NL, "do"}

EndsHere(q, word) == q.begin /\ q.stack # <<>> /\ word = q.stack[Len(q.stack)]

MatchStep(q, tokens, i) ==
    LET word == tokens[i]
        opens == q.begin /\ Terminator(word) # "none"
        inCase == q.stack # <<>> /\ q.stack[Len(q.stack)] = "esac"
    IN CASE word \in Operators -> [q EXCEPT !.begin = TRUE, !.list = FALSE]
         [] word \notin Operators /\ q.list -> q
         [] word \notin Operators /\ ~q.list /\ opens ->
              [q EXCEPT !.stack = Append(@, Terminator(word)), !.begin = word = "{",
                        !.list = word = "for" /\ HasList(tokens, i)]
         [] word \notin Operators /\ ~q.list /\ ~opens /\ EndsHere(q, word) ->
              [q EXCEPT !.stack = SubSeq(@, 1, Len(@) - 1), !.begin = TRUE,
                        !.at = IF Len(q.stack) = 1 THEN i ELSE 0]
         [] OTHER -> [q EXCEPT !.begin = \/ word \in {"then", "do", "else", "elif", "in", "|"}
                                         \/ inCase /\ word = "x)"]

findMatchingTerminator(tokens) ==
    LET After[i \in 0..Len(tokens)] ==
          IF i = 0 THEN [stack |-> <<>>, begin |-> TRUE, list |-> FALSE, at |-> 0]
          ELSE LET q == After[i - 1] IN IF q.at > 0 THEN q ELSE MatchStep(q, tokens, i)
    IN After[Len(tokens)].at
=============================================================================
