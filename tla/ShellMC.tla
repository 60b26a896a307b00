------------------------------- MODULE ShellMC -------------------------------
(***************************************************************************)
(* The parts of the shell that keep to themselves, one at a time: the scope of *)
(* variables, redirections, the scanners, and the expansions that take one call   *)
(* each.  A behaviour is one of the part that is chosen at the beginning; the      *)
(* variables of the others stay as they are.                                   *)
(***************************************************************************)
EXTENDS AshScope, AshRedirect

CONSTANTS MaxWords, Seps, Inner, MaxTokens     \* bounds of AshLexerMC

VARIABLES
    part,                   \* the part that is looked at
    line, tokens, nest,     \* of AshLexerMC
    st                      \* of the part with one variable

lexer == <<line, tokens, nest>>

Lexer   == INSTANCE AshLexerMC
Arith   == INSTANCE AshArithMC WITH arith <- st
Fields  == INSTANCE AshFieldsMC WITH fields <- st
Params  == INSTANCE AshParamsMC WITH params <- st
Getopts == INSTANCE AshGetoptsMC WITH opts <- st

NoRedir == [here |-> FALSE, in |-> "none", closeOut |-> FALSE, dup |-> "none", out |-> "none", err |-> "none"]
MCSpecs == {NoRedir,
    [NoRedir EXCEPT !.in = "file", !.out = "missing"],
    [NoRedir EXCEPT !.out = "file", !.err = "1"],
    [NoRedir EXCEPT !.here = TRUE, !.out = "missing"],
    [NoRedir EXCEPT !.in = "file", !.dup = "2", !.out = "3"],
    [NoRedir EXCEPT !.here = TRUE, !.in = "3"]}

Idle == [op |-> "idle"]
Init ==
    /\ part \in {"scope", "redirect", "lexer", "arith", "fields", "params", "getopts"}
    /\ CASE part = "arith" -> Arith!MCInit
         [] part = "fields" -> Fields!MCInit
         [] part = "params" -> Params!MCInit
         [] part = "getopts" -> Getopts!MCInit
         [] OTHER -> st = Idle
    /\ ScopeInit /\ RedirectInit /\ Lexer!LexerInit
    /\ part # "scope" => exported = {}
Next ==
    \/ part = "scope" /\ ScopeNext /\ UNCHANGED <<part, redirect, lexer, st>>
    \/ part = "redirect" /\ RedirectNext /\ UNCHANGED <<part, scope, lexer, st>>
    \/ part = "lexer" /\ Lexer!LexerNext /\ UNCHANGED <<part, scope, redirect, st>>
    \/ part = "arith" /\ Arith!ArithNext /\ UNCHANGED <<part, scope, redirect, lexer>>
    \/ part = "fields" /\ Fields!FieldsNext /\ UNCHANGED <<part, scope, redirect, lexer>>
    \/ part = "params" /\ Params!ParamsNext /\ UNCHANGED <<part, scope, redirect, lexer>>
    \/ part = "getopts" /\ Getopts!GetoptsNext /\ UNCHANGED <<part, scope, redirect, lexer>>

\* The scanners cut a script at the same places.  (AshLexerMC)
ScannersAgree == Lexer!ScannersAgree
\* Words become the arguments the language says.  (AshFields)
WordsRight == part = "fields" => Fields!WordsRight
\* ${...} and case do what a shell does.  (AshParams)
ExpansionsRight == part = "params" => Params!ExpansionsRight
\* Options, operands and arguments come out once and in order.  (AshGetopts)
ParametersRight == part = "getopts" => Getopts!ParametersRight
=============================================================================
