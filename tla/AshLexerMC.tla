----------------------------- MODULE AshLexerMC -----------------------------
(* Lines of words and separators, and what the scanners of AshLexer make of  *)
(* them; compound commands inside one another, and where they end.           *)
EXTENDS AshLexer

CONSTANTS
    MaxWords,       \* bound: of a line
    Seps, Inner,    \* separators between words, and inside quoted words
    MaxTokens       \* bound: of a compound command

VARIABLES
    line,           \* words and separators in turn
    tokens, nest    \* a script, and the compound commands it is in

lexer == <<line, tokens, nest>>

\* Separators, and words that hold one of them in quotes.
Sep(c) == CASE c = "and" -> <<"&", "&">> [] c = "or" -> <<"|", "|">> [] OTHER -> <<c>>
In(l, c, r) == l \o <<"a">> \o Sep(c) \o <<"b">> \o r
InParens == {In(<<"(">>, c, <<")">>) : c \in Inner}
Quoted == UNION {
    {In(<<"'">>, c, <<"'">>), In(<<"\"">>, c, <<"\"">>), In(<<BQ>>, c, <<BQ>>),
     In(<<"'", "\"">>, c, <<"'">>), In(<<"\"", "'">>, c, <<"\"">>)} : c \in Inner}
Subs == UNION {{In(<<"$", "(">>, c, <<")">>), In(<<"$", "(", "(">>, c, <<")", ")">>)} : c \in Inner}
Params == {In(<<"$", "{", "x">>, c, <<"}">>) : c \in Inner}
QuotedSubs == {In(<<"\"", "$", "(">>, c, <<")", "\"">>) : c \in Inner}
Words == {<<"a">>, <<" ", "a", " ">>, <<"\\", "\"">>}
         \union InParens \union Quoted \union Subs \union Params \union QuotedSubs
Has(words) == \E k \in 1..Len(line) : line[k] \in words

LexerInit == line = <<>> /\ tokens = <<>> /\ nest = <<>>
AddWord == /\ tokens = <<>> /\ Len(line) % 2 = 0 /\ Len(line) < 2 * MaxWords
           /\ \E w \in Words : line' = Append(line, w)
           /\ UNCHANGED <<tokens, nest>>
AddSep  == /\ Len(line) % 2 = 1 /\ Len(line) < 2 * MaxWords - 1
           /\ \E c \in Seps : line' = Append(line, Sep(c))
           /\ UNCHANGED <<tokens, nest>>

Commands == {<<"a">>, <<"echo", "done">>, <<"a", "fi">>}
Compounds == {<<"while", "a", ";", "do">>, <<"until", "a", NL, "do">>, <<"if", "a", ";", "then">>,
              <<"{">>, <<"case", "w", "in", "x)">>, <<"for", "i", "in", "done", ";", "do">>}
Starts == {"do", "then", "else", "{", "x)", ";", NL, "&&", "||", "|"}
AtStart == IF tokens = <<>> THEN TRUE ELSE tokens[Len(tokens)] \in Starts
Grow(ts) == /\ line = <<>> /\ Len(tokens) + Len(ts) <= MaxTokens
            /\ tokens' = tokens \o ts /\ UNCHANGED line
OpenCompound == /\ AtStart /\ (tokens = <<>> \/ nest # <<>>)
                /\ \E c \in Compounds : Grow(c) /\ nest' = Append(nest, Terminator(c[1]))
AddCommand == AtStart /\ nest # <<>> /\ (\E c \in Commands : Grow(c)) /\ UNCHANGED nest
AddOperator ==
    /\ ~AtStart /\ nest # <<>>
    /\ \E c \in {";", NL, "&&", "|"} \union (IF nest[Len(nest)] = "fi" THEN {"else"} ELSE {}) :
         IF c = "else" THEN Grow(<<";", c>>) ELSE Grow(<<c>>)
    /\ UNCHANGED nest
CloseCompound ==
    /\ ~AtStart /\ nest # <<>>
    /\ LET t == nest[Len(nest)] IN Grow(<<IF t = "esac" THEN ";;" ELSE ";", t>>)
    /\ nest' = SubSeq(nest, 1, Len(nest) - 1)

LexerNext == AddWord \/ AddSep \/ OpenCompound \/ AddCommand \/ AddOperator \/ CloseCompound
Spec == LexerInit /\ [][LexerNext]_lexer

Ends == Len(line) % 2 = 1
Text == LET T[k \in 0..Len(line)] == IF k = 0 THEN <<>> ELSE T[k - 1] \o line[k] IN T[Len(line)]

\* What is between the separators in seps; before those in kept too.
Between(seps, kept) ==
    LET P[k \in 0..Len(line)] ==
          IF k = 0 THEN <<<<>>>>
          ELSE LET p == P[k - 1]
                   longer == [p EXCEPT ![Len(p)] = @ \o line[k]]
               IN IF k % 2 = 1 THEN longer
                  ELSE IF line[k] \in seps THEN Append(p, <<>>)
                  ELSE IF line[k] \in kept THEN Append(longer, <<>>) ELSE longer
    IN P[Len(line)]

\* A line is cut into pipelines at every | outside of quotes, parentheses and
\* substitutions, and nowhere else.  Not so for a | in ${ }, and for what comes
\* after a substitution in double quotes: the code does not see where they end.
PipelinesRight == Ends /\ ~Has(Params \union QuotedSubs) =>
    splitPipelines(Text) = Between({Sep("|")}, {})

\* And at every && and ||, except after a substitution in double quotes.
AndOrRight == Ends /\ ~Has(QuotedSubs) => splitAndOr(Text) = Between({Sep("or"), Sep("and")}, {})

\* splitCommands, the first of the scanners, sees where every quote, parenthesis
\* and substitution ends: it cuts at ; and the end of a line, and after &.
CommandsRight == Ends => splitCommands(Text) = Between({<<";">>, <<NL>>}, {<<"&">>})

\* The words of a simple command are its tokens.
TokensRight == (Ends /\ ~Has(InParens) /\ \A k \in 1..Len(line) : k % 2 = 0 => line[k] = <<" ">>) =>
    splitTokens(Text) = LET words == [k \in 1..(Len(line) + 1) \div 2 |-> line[2 * k - 1]]
                        IN [k \in DOMAIN words |->
                             IF words[k] = <<" ", "a", " ">> THEN <<"a">> ELSE words[k]]

\* The body of a compound command, made of tokens again, has the commands that
\* the script has, and their words are the same down to every space in quotes:
\* the tokenizer and splitCommands agree on what is quoted.  In parentheses and
\* in substitutions without quotes, spaces and line ends may differ.
Loose(text) == LET solid == SelectSeq(text, LAMBDA c : c # " ")
               IN [k \in 1..Len(solid) |-> IF solid[k] = NL THEN ";" ELSE solid[k]]
Solid(text) == LET words == splitTokens(text)
                   T[k \in 0..Len(words)] == IF k = 0 THEN <<>> ELSE T[k - 1] \o words[k]
               IN T[Len(words)]
Each(Op(_), texts) == [k \in DOMAIN texts |-> Op(texts[k])]
BodyRebuilt == Ends =>
    LET body == splitCommands(tokensToScript(tokenizeScript(Text)))
        script == splitCommands(Text)
        strict == ~Has(InParens \union Subs \union Params)
        simple == \A k \in 1..Len(line) : k % 2 = 0 => line[k] \in {<<" ">>, <<";">>, <<NL>>}
    IN /\ Each(Loose, body) = Each(Loose, script)
       /\ strict => Each(Solid, body) = Each(Solid, script)
       /\ strict /\ simple => Each(splitTokens, body) = Each(splitTokens, script)

\* A compound command ends at its own done, fi, esac or }, and not before:
\* not at the one of a command in it, nor at an argument of that name.
TerminatorFound == tokens # <<>> =>
    findMatchingTerminator(tokens) = IF nest = <<>> THEN Len(tokens) ELSE 0

\* The scanners of the shell, each with a state of its own, cut a script at the same places:
\* pipelines, lists, commands, words, and the end of a compound command.  (splitPipelines,
\* splitAndOr, splitCommands, splitTokens, tokensToScript, findMatchingTerminator)
ScannersAgree ==
    PipelinesRight /\ AndOrRight /\ CommandsRight /\ TokensRight /\ BodyRebuilt /\ TerminatorFound
=============================================================================
