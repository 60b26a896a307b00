------------------------------ MODULE AshParams ------------------------------
(***************************************************************************)
(* ${...} and the patterns of case, of src/pkg/applets/ash/ash.go.  The text *)
(* between the braces is not parsed: expandBraceExprWithRunner and            *)
(* expandBraceExpr look for one operator after the other, wherever it stands,  *)
(* and the first that is found decides what the text means.                   *)
(*                                                                         *)
(* Texts are sequences of characters; variables are a function on the names    *)
(* that are set.  Words are plain: quotes, classes [...] and expansions in a    *)
(* word are left out.  An expansion is given by what it was written from: a     *)
(* name, an operator, a word and, to replace, what to put in.                  *)
(*                                                                         *)
(* A call is a shell and the expansions of one command, from left to right, each *)
(* with what the ones before it assigned; or a case, with the patterns of its    *)
(* branches.                                                                  *)
(***************************************************************************)
EXTENDS Integers, SequencesExt, FiniteSets

VARIABLE params

From(s, i) == SubSeq(s, i, Len(s))
Upto(s, i) == SubSeq(s, 1, i)
Has(s, i, op) == i + Len(op) - 1 <= Len(s) /\ SubSeq(s, i, i + Len(op) - 1) = op
Index(s, op) == SelectInSeq([i \in DOMAIN s |-> i], LAMBDA i : Has(s, i, op))
HasAny(s, set) == ToSet(s) \intersect set # {}
Starts(s, op) == Has(s, 1, op)
DigitOf == [c \in {"0", "1", "2", "3"} |-> CHOOSE n \in 0..3 : ToString(n) = c]
IsDigits(s) == s # <<>> /\ ToSet(s) \subseteq DOMAIN DigitOf
Unspaced(s) == SelectSeq(s, LAMBDA c : c # " ")
IntOf(s) ==
    LET decimal(t) == FoldLeft(LAMBDA v, c : 10 * v + DigitOf[c], 0, t)
        signed(t) == IF t # <<>> /\ Head(t) = "-" THEN 0 - decimal(Tail(t)) ELSE decimal(t)
    IN signed(Unspaced(s))

\* filepath.Match: neither * nor ? matches a slash; any says that they do, as in a shell.
RECURSIVE Match(_, _, _)
Match(p, s, any) ==
    IF p = <<>> THEN s = <<>>
    ELSE IF Head(p) = "*"
         THEN \E k \in 0..Len(s) : (any \/ ~HasAny(Upto(s, k), {"/"})) /\ Match(Tail(p), From(s, k + 1), any)
    ELSE s # <<>> /\ (Head(p) = Head(s) \/ (Head(p) = "?" /\ (any \/ Head(s) # "/"))) /\ Match(Tail(p), Tail(s), any)
IsGlob(p) == HasAny(p, {"*", "?"})

-----------------------------------------------------------------------------
(* expandBraceExpr.  A result has the value, the variables and an error.      *)

Result(val, vars) == [val |-> val, vars |-> vars, err |-> ""]
Failed(err, vars) == [val |-> <<>>, vars |-> vars, err |-> err]
ValueOf(vars, name) == IF name \in DOMAIN vars THEN vars[name] ELSE <<>>
IsSet(vars, name) == name \in DOMAIN vars
Filled(vars, name) == ValueOf(vars, name) # <<>>
IsVariable(name) == ToSet(name) \intersect {"1", "2", "3", "@", "*", "#"} = {}
Put(vars, name, val) == [n \in DOMAIN vars \union {name} |-> IF n = name THEN val ELSE vars[n]]

\* ${v:offset} and ${v:offset:length}; a negative number counts from the end.
IsSubstring(expr) ==
    LET numbers(rest, t) == t # <<>> /\ Head(rest) \notin {"-", "=", "+", "?"} /\ Head(t) \in DOMAIN DigitOf \union {"-", ":"}
        after(i) == i > 1 /\ numbers(From(expr, i + 1), Unspaced(From(expr, i + 1)))
    IN after(Index(expr, <<":">>))
Substring(expr, vars) ==
    LET place(val, n, from) == IF n < 0 THEN Len(val) + n ELSE Min({from + n, Len(val)})
        cut(val, offset, end) == IF offset < 0 \/ end < offset THEN <<>> ELSE SubSeq(val, offset + 1, end)
        long(val, rest, j, offset) == cut(val, offset, IF j = 0 THEN Len(val) ELSE place(val, IntOf(From(rest, j + 1)), offset))
        at(val, rest, j) == long(val, rest, j, place(val, IntOf(IF j = 0 THEN rest ELSE Upto(rest, j - 1)), 0))
        after(i) == at(ValueOf(vars, Upto(expr, i - 1)), From(expr, i + 1), Index(From(expr, i + 1), <<":">>))
    IN after(Index(expr, <<":">>))

\* ${v/pattern/word}, with another slash for all, # for the beginning and % for the end.
Splice(s, i, j, word) == Upto(s, i) \o word \o From(s, j + 1)          \* the characters i+1..j
ReplaceFirst(val, p, word) ==
    LET matches(i, l) == IF IsGlob(p) THEN Match(p, SubSeq(val, i + 1, l), FALSE) ELSE SubSeq(val, i + 1, l) = p
        put(i) == Splice(val, i, Max({l \in i + 1..Len(val) : matches(i, l)}), word)
        first(at) == IF at = {} THEN val ELSE put(Min(at))
    IN first({i \in 0..Len(val) : \E l \in i + 1..Len(val) : matches(i, l)})
ReplaceEach(val, p, word) ==
    LET matches(s, i, l) == IF IsGlob(p) THEN Match(p, SubSeq(s, i + 1, l), FALSE) ELSE SubSeq(s, i + 1, l) = p
        \* r.i is where the search goes on: after what was put in.
        step(r, k) == LET ls == {l \in r.i + 1..Len(r.s) : matches(r.s, r.i, l)}
                      IN IF r.i >= Len(r.s) THEN r
                         ELSE IF ls = {} THEN [r EXCEPT !.i = @ + 1]
                         ELSE [s |-> Splice(r.s, r.i, Max(ls), word), i |-> r.i + Len(word)]
    IN FoldLeft(step, [s |-> val, i |-> 0], [k \in 1..Len(val) |-> k]).s
\* The beginning: first as many characters as the pattern has, then the shortest.
ReplacePrefix(val, p, word) ==
    LET n == Min({Len(p), Len(val)})
        ls == {l \in 1..Len(val) : Match(p, Upto(val, l), FALSE)}
    IN IF Match(p, Upto(val, n), FALSE)
       THEN (IF Len(p) > Len(val) THEN <<"panic">> ELSE word \o From(val, Len(p) + 1))
       ELSE IF ls = {} THEN val ELSE word \o From(val, Min(ls) + 1)
ReplaceSuffix(val, p, word) ==
    LET ls == {l \in 0..Len(val) - 1 : Match(p, From(val, l + 1), FALSE)}
    IN IF ls = {} THEN val ELSE Upto(val, Max(ls)) \o word
Replace(expr, vars) ==
    LET put(val, mode, p, word) ==
          CASE val = <<>> -> (IF p \in {<<"*">>, <<>>} THEN word ELSE <<>>)
            [] OTHER -> CASE p = <<>> -> val
            [] OTHER -> CASE mode = "#" -> ReplacePrefix(val, p, word)
            [] OTHER -> CASE mode = "%" -> ReplaceSuffix(val, p, word)
            [] OTHER -> CASE mode = "/" -> ReplaceEach(val, p, word)
            [] OTHER -> ReplaceFirst(val, p, word)
        end(rest) == Min({k \in DOMAIN rest : rest[k] = "/" /\ k > (IF Starts(rest, <<"/">>) THEN 1 ELSE 0)}
                         \union {Len(rest) + 1})
        parts(val, mode, rest, j) == put(val, mode, Upto(rest, j - 1), From(rest, j + 1))
        operands(val, mode, rest) == parts(val, mode, rest, end(rest))
        modeAt(i) == IF i < Len(expr) /\ expr[i + 1] \in {"/", "#", "%"} THEN expr[i + 1] ELSE ""
        of(name, i, mode) == IF ~IsSet(vars, name) THEN <<>>
                             ELSE operands(vars[name], mode, From(expr, IF mode = "" THEN i + 1 ELSE i + 2))
        after(i) == of(Upto(expr, i - 1), i, modeAt(i))
    IN after(Index(expr, <<"/">>))

\* ${v#p}, ${v##p}: the shortest and the longest prefix; % and %% the suffixes.
TrimPrefix(val, p, longest) ==
    LET ls == {l \in 0..Len(val) : Match(p, Upto(val, l), FALSE)}
    IN CASE p = <<"*">> -> (IF longest THEN <<>> ELSE val)
         [] OTHER -> CASE ~IsGlob(p) -> (IF Starts(val, p) THEN From(val, Len(p) + 1) ELSE val)
         [] OTHER -> CASE ls = {} -> val
         [] OTHER -> From(val, (IF longest THEN Max(ls) ELSE Min(ls)) + 1)
\* Mutated: the shortest suffix with %%, the longest with %.
TrimSuffixSwapped(val, p, longest) ==
    LET ls == {l \in 0..Len(val) : Match(p, From(val, l + 1), FALSE)}
    IN IF ls = {} THEN val ELSE Upto(val, IF longest THEN Max(ls) ELSE Min(ls))
TrimSuffix(val, p, longest) ==
    LET ls == {l \in 0..Len(val) : Match(p, From(val, l + 1), FALSE)}
    IN CASE p = <<"*">> -> (IF longest THEN <<>> ELSE val)
         [] OTHER -> CASE ~IsGlob(p) -> (IF Len(p) <= Len(val) /\ From(val, Len(val) - Len(p) + 1) = p THEN Upto(val, Len(val) - Len(p)) ELSE val)
         [] OTHER -> CASE ls = {} -> val
         [] OTHER -> Upto(val, IF longest THEN Min(ls) ELSE Max(ls))

\* "-", "+" and "?" count only when no other operator stands before them.
Unmixed(expr, op) ==
    LET after(name) == name # <<>> /\ ~HasAny(name, {":", "/", "%"}) /\ (name = <<"#">> \/ ~HasAny(name, {"#"}))
    IN after(Upto(expr, Index(expr, op) - 1))
RECURSIVE BraceExpr(_, _)
BraceExpr(expr, vars) ==
    LET at(op) == Index(expr, op) > 1
        name(op) == Upto(expr, Index(expr, op) - 1)
        word(op) == From(expr, Index(expr, op) + Len(op))
        old(op) == ValueOf(vars, name(op))
        orElse(op, set) == IF set THEN Result(old(op), vars) ELSE Result(word(op), Put(vars, name(op), word(op)))
        prefix(op) == Result(TrimPrefix(old(op), word(op), Len(op) = 2), vars)
        suffix(op) == Result(TrimSuffix(old(op), word(op), Len(op) = 2), vars)
        replaced(new) == IF new = <<"panic">> THEN Failed("panic", vars) ELSE Result(new, vars)
    IN CASE IsSubstring(expr) -> Result(Substring(expr, vars), vars)
         [] OTHER -> CASE at(<<":", "-">>) -> Result(IF old(<<":", "-">>) # <<>> THEN old(<<":", "-">>) ELSE word(<<":", "-">>), vars)
         [] OTHER -> CASE at(<<":", "=">>) -> orElse(<<":", "=">>, old(<<":", "=">>) # <<>>)
         [] OTHER -> CASE at(<<"=">>) -> orElse(<<"=">>, IsSet(vars, name(<<"=">>)))
         [] OTHER -> CASE at(<<":", "+">>) -> Result(IF old(<<":", "+">>) # <<>> THEN word(<<":", "+">>) ELSE <<>>, vars)
         [] OTHER -> CASE Unmixed(expr, <<"-">>) -> Result(IF IsSet(vars, name(<<"-">>)) THEN old(<<"-">>) ELSE word(<<"-">>), vars)
         [] OTHER -> CASE Unmixed(expr, <<"+">>) -> Result(IF IsSet(vars, name(<<"+">>)) THEN word(<<"+">>) ELSE <<>>, vars)
         [] OTHER -> CASE Unmixed(expr, <<"?">>) -> Result(old(<<"?">>), vars)
         [] OTHER -> CASE Starts(expr, <<"#", "#">>) \/ Starts(expr, <<"#", "%">>) ->
                            [BraceExpr(<<"hash">> \o Tail(expr), Put(vars, <<"hash">>, ValueOf(vars, <<"#">>))) EXCEPT !.vars = vars]
         [] OTHER -> CASE Starts(expr, <<"#">>) -> Result(<<ToString(Len(ValueOf(vars, Tail(expr))))>>, vars)
         [] OTHER -> CASE at(<<"/">>) ->
                            replaced(Replace(expr, vars))
         [] OTHER -> CASE at(<<"#">>) -> prefix(IF at(<<"#", "#">>) THEN <<"#", "#">> ELSE <<"#">>)
         [] OTHER -> CASE at(<<"%">>) -> suffix(IF at(<<"%", "%">>) THEN <<"%", "%">> ELSE <<"%">>)
         [] OTHER -> Result(ValueOf(vars, expr), vars)

-----------------------------------------------------------------------------
(* expandBraceExprWithRunner: the parameters of the shell, and the errors.    *)

Count(sh) == <<ToString(Len(sh.positional))>>
Joined(sh) == FoldLeft(LAMBDA out, i : out \o (IF i = 1 THEN <<>> ELSE <<" ">>) \o sh.positional[i], <<>>,
                       [i \in DOMAIN sh.positional |-> i])
\* specialParamValue: the value, when it is set.
Special(name, sh) ==
    CASE name = <<"#">> -> {Count(sh)}
      [] name \in {<<"@">>, <<"*">>} /\ sh.positional # <<>> -> {Joined(sh)}
      [] IsDigits(name) /\ IntOf(name) \in DOMAIN sh.positional -> {sh.positional[IntOf(name)]}
      [] OTHER -> {}
ParamValue(name, sh) ==
    LET or(special) == IF special # {} THEN special ELSE IF IsSet(sh.vars, name) THEN {sh.vars[name]} ELSE {}
    IN or(Special(name, sh))
The(set) == CHOOSE x \in set : TRUE

\* splitSpecialParamOperator: the length of the name of a parameter that an operator follows.
SpecialLength(expr) ==
    LET n == Cardinality({i \in DOMAIN expr : IsDigits(Upto(expr, i))})
    IN IF n > 0 THEN (IF n < Len(expr) THEN n ELSE 0)
       ELSE IF Len(expr) > 1 /\ Head(expr) \in {"*", "@", "#"} THEN 1 ELSE 0

Errors(expr) ==
    CASE expr = <<>> -> "bad"
      [] expr # <<>> /\ Head(expr) \in {"+", "-", "=", ":"} -> "bad"
      [] Index(expr, <<":">>) > 1 /\ Index(expr, <<":">>) = Len(expr) -> "missing"
      [] OTHER -> ""
Expand(expr, sh) ==
    LET defaults(rest) == \E op \in {<<":", "-">>, <<":", "+">>, <<"-">>, <<"+">>} : Starts(rest, op)
        assigns(rest) == Starts(rest, <<":", "=">>) \/ Starts(rest, <<"=">>)
        ordinary(name, rest, special, length) ==
          CASE IsDigits(expr) -> Result(IF special = {} THEN <<>> ELSE The(special), sh.vars)
            [] OTHER -> CASE IsDigits(<<Head(expr)>>) /\ Head(rest) \notin {":", "+", "-", "?", "=", "#", "%", "/"} -> Failed("bad", sh.vars)
            [] OTHER -> CASE expr \in {<<"@">>, <<"*">>} -> Result(Joined(sh), sh.vars)
            [] OTHER -> CASE name # <<>> /\ assigns(rest) ->
                               (CASE name = <<"#">> /\ Head(rest) = ":" -> Result(Count(sh), sh.vars)
                                  [] IsDigits(name) /\ special # {} -> Result(The(special), sh.vars)
                                  [] OTHER -> Failed("bad", sh.vars))
            [] OTHER -> CASE name # <<>> /\ (defaults(rest) \/ (Starts(rest, <<":">>) /\ special # {})) ->
                               [BraceExpr(expr, IF special = {} THEN sh.vars ELSE Put(sh.vars, name, The(special))) EXCEPT !.vars = sh.vars]
            [] OTHER -> CASE expr \in {<<"#">>, <<"#", "@">>, <<"#", "*">>} -> Result(Count(sh), sh.vars)
            [] OTHER -> CASE Head(expr) = "#" /\ IsDigits(Tail(expr)) ->
                               Result(<<ToString(IF length = {} THEN 0 ELSE Len(The(length)))>>, sh.vars)
            [] OTHER -> CASE Head(expr) = "#" /\ length # {} -> Result(<<ToString(Len(The(length)))>>, sh.vars)
            [] OTHER -> CASE Starts(expr, <<"#", "#">>) \/ Starts(expr, <<"#", "%">>) ->
                               [BraceExpr(expr, Put(sh.vars, <<"#">>, Count(sh))) EXCEPT !.vars = sh.vars]
            [] OTHER -> BraceExpr(expr, sh.vars)
        named(k) == ordinary(Upto(expr, k), From(expr, k + 1), Special(IF k = 0 THEN expr ELSE Upto(expr, k), sh), Special(Tail(expr), sh))
        required(val, wanted) == IF val \ (IF wanted THEN {<<>>} ELSE {}) # {} THEN Result(The(val), sh.vars) ELSE Failed("notset", sh.vars)
        asks(q) == q > 1 /\ Head(expr) # "#" /\ ~HasAny(Upto(expr, q - 1), {":", "/", "#", "%"})
        checked(nul, q) ==
          IF nul > 1 THEN required(ParamValue(Upto(expr, nul - 1), sh), TRUE)
          ELSE IF asks(q) THEN required(ParamValue(Upto(expr, q - 1), sh), FALSE)
          ELSE named(SpecialLength(expr))
    IN IF Errors(expr) # "" THEN Failed(Errors(expr), sh.vars)
       ELSE checked(Index(expr, <<":", "?">>), Index(expr, <<"?">>))

\* matchPattern, for one of the alternatives of a branch.
PatternMatches(word, p) == p = <<"*">> \/ Match(p, word, FALSE) \/ p = word
\* runCaseSpec: the first branch that has an alternative the word matches, 0 for none.
CaseBranch(word, branches) == SelectInSeq(branches, LAMBDA alts : \E i \in DOMAIN alts : PatternMatches(word, alts[i]))

-----------------------------------------------------------------------------
(* What is written, and the expansion of a command's parameters.              *)

Trims == {"#", "##", "%", "%%"}
Replaces == {"/", "//", "/#", "/%"}
OpChars(op) ==
    CASE op = "##" -> <<"#", "#">> [] op = "%%" -> <<"%", "%">> [] op = "//" -> <<"/", "/">> [] op = "/#" -> <<"/", "#">>
      [] op = "/%" -> <<"/", "%">> [] op = ":-" -> <<":", "-">> [] op = ":=" -> <<":", "=">> [] op = ":+" -> <<":", "+">>
      [] op = ":?" -> <<":", "?">> [] op = "" -> <<>> [] OTHER -> <<op>>
Written(c) ==
    CASE c.op = "length" -> <<"#">> \o c.name
      [] c.op \in Replaces -> c.name \o OpChars(c.op) \o c.word \o <<"/">> \o c.put
      [] OTHER -> c.name \o OpChars(c.op) \o c.word

ParamsInit(calls) == \E c \in calls :
    params = [call |-> c, sh |-> c.sh, todo |-> c.items, out |-> <<>>, err |-> ""]
ExpandParam ==
    LET next(r) == [params EXCEPT !.todo = Tail(@), !.sh.vars = r.vars, !.err = r.err,
                                  !.out = IF r.err = "" THEN Append(@, r.val) ELSE @]
    IN /\ params.call.op = "expand" /\ params.todo # <<>> /\ params.err = ""
       /\ params' = next(Expand(Written(Head(params.todo)), params.sh))
\* A case: the word, then which of the branches runs.
RunCase ==
    /\ params.call.op = "case" /\ params.todo # <<>>
    /\ params' = [params EXCEPT !.todo = <<>>, !.out = <<CaseBranch(Head(params.todo), params.call.branches)>>]
ParamsNext == ExpandParam \/ RunCase

-----------------------------------------------------------------------------
(* The reference: what an operator does to the parameter it was written for.  *)

MeantOf(c, sh, val, v) ==
    LET fine(x) == Result(x, sh.vars)
        prefixes == {l \in 0..Len(v) : Match(c.word, Upto(v, l), TRUE)}
        suffixes == {l \in 0..Len(v) : Match(c.word, From(v, Len(v) - l + 1), TRUE)}
        places == {p \in (0..Len(v)) \X (0..Len(v)) : p[1] < p[2] /\ Match(c.word, SubSeq(v, p[1] + 1, p[2]), TRUE)}
        longest(i) == Max({l \in i + 1..Len(v) : <<i, l>> \in places})
        \* Every match from the left, each the longest at its place.
        each[i \in 0..Len(v)] == IF i = Len(v) THEN <<>>
                                 ELSE IF \E l \in 0..Len(v) : <<i, l>> \in places THEN c.put \o each[longest(i)]
                                 ELSE <<v[i + 1]>> \o each[i + 1]
        put(first) == Splice(v, first, longest(first), c.put)
        isNull == val = {} \/ v = <<>>
        lacks == IF Head(OpChars(c.op)) = ":" THEN isNull ELSE val = {}
    IN CASE c.op = "" -> fine(v)
         [] c.op = "length" -> fine(<<ToString(Len(v))>>)
         [] c.op \in {"-", ":-"} -> fine(IF lacks THEN c.word ELSE v)
         [] c.op \in {"+", ":+"} -> fine(IF lacks THEN <<>> ELSE c.word)
         [] c.op \in {"=", ":="} -> (IF lacks THEN Result(c.word, Put(sh.vars, c.name, c.word)) ELSE fine(v))
         [] c.op \in {"?", ":?"} -> (IF lacks THEN Failed("notset", sh.vars) ELSE fine(v))
         [] c.op = "#" -> fine(IF prefixes = {} THEN v ELSE From(v, Min(prefixes) + 1))
         [] c.op = "##" -> fine(IF prefixes = {} THEN v ELSE From(v, Max(prefixes) + 1))
         [] c.op = "%" -> fine(IF suffixes = {} THEN v ELSE Upto(v, Len(v) - Min(suffixes)))
         [] c.op = "%%" -> fine(IF suffixes = {} THEN v ELSE Upto(v, Len(v) - Max(suffixes)))
         [] c.op = "/" -> fine(IF places = {} THEN v ELSE put(Min({p[1] : p \in places})))
         [] c.op = "//" -> fine(each[0])
         [] c.op = "/#" -> fine(IF prefixes \ {0} = {} THEN v ELSE c.put \o From(v, Max(prefixes) + 1))
         [] c.op = "/%" -> fine(IF suffixes \ {0} = {} THEN v ELSE Upto(v, Len(v) - Max(suffixes)) \o c.put)
         [] OTHER -> fine(v)
Meant(c, sh) ==
    LET of(val) == MeantOf(c, sh, val, IF val = {} THEN <<>> ELSE The(val)) IN of(ParamValue(c.name, sh))

-----------------------------------------------------------------------------
(* Properties.                                                                *)

\* What the code is known to get wrong, expansion by expansion: an operator character in
\* the word is taken for the operator; * and ? of a pattern stop at a slash; parameters
\* other than variables are neither trimmed nor replaced; /# and /% with a * do not take the
\* longest match; a pattern of nothing, or * on nothing.
Misread(c) ==
    \/ HasAny(c.word \o c.put, IF c.op \in Trims \union Replaces THEN {"=", ":", "/", "-", "+"} ELSE {"=", ":"})
    \/ c.op \in {"-", "+", "="} /\ HasAny(c.word, {"?"})
    \/ c.op = "+" /\ HasAny(c.word, {"-"})
Slashed(c, sh) == IsGlob(c.word) /\ c.op \in Trims \union Replaces /\ HasAny(ValueOf(sh.vars, c.name), {"/"})
Unlike(c) == ~IsVariable(c.name) /\ (c.op \in Trims \union {"=", ":="} \/ (c.name # <<"1">> /\ c.op \in {"?", "length"}))
Anchored(c, sh) == c.op \in {"/#", "/%"} /\ (IsGlob(c.word) \/ ~Filled(sh.vars, c.name))
Nothing(c, sh) == c.op \in Replaces /\ (c.word = <<>> \/ (c.word = <<"*">> /\ ~Filled(sh.vars, c.name)))
PlainParam(c, sh) == ~Misread(c) /\ ~Slashed(c, sh) /\ ~Unlike(c) /\ ~Anchored(c, sh) /\ ~Nothing(c, sh)

\* What a command's expansions should give: values, variables and the first error.
Expanded(call) ==
    FoldLeft(LAMBDA r, c : IF r.err # "" \/ ~r.plain THEN r
                           ELSE LET with(m) == [sh |-> [r.sh EXCEPT !.vars = m.vars], err |-> m.err, plain |-> PlainParam(c, r.sh),
                                                out |-> IF m.err = "" THEN Append(r.out, m.val) ELSE r.out]
                                IN with(Meant(c, r.sh)),
             [sh |-> call.sh, err |-> "", plain |-> TRUE, out |-> <<>>], call.items)
\* Defaults, assignments, lengths, trimming and replacing give what a shell gives, and what
\* one expansion assigns is what the next ones read; an error ends the command before any
\* more is assigned.
ParamsRight ==
    LET ended == params.call.op = "expand" /\ (params.todo = <<>> \/ params.err # "")
        agrees(r) == r.plain => params.out = r.out /\ params.err = r.err /\ (r.err = "" => params.sh = r.sh)
    IN ended => agrees(Expanded(params.call))

\* ${v##pattern} takes the longest prefix away that matches the pattern.  (The comment at
\* expandBraceExpr's prefixes, and ${testname##*/} of the test suite's runner.)
TrimsLongestPrefix ==
    \A i \in DOMAIN params.out : LET c == params.call.items[i]
        IN (params.call.op = "expand" /\ c.op = "##" /\ Len(params.call.items) = 1) =>
              params.out[i] = Meant(c, params.call.sh).val

\* case takes the first branch one of whose alternatives matches the whole word; a word with
\* a slash is left out, which no * matches.
CaseRight ==
    LET word == params.call.items[1]
        fits(alts) == \E i \in DOMAIN alts : Match(alts[i], word, TRUE)
        branches == params.call.branches
    IN (params.call.op = "case" /\ params.todo = <<>> /\ ~HasAny(word, {"/"})) =>
          LET b == params.out[1]
          IN IF b = 0 THEN \A i \in DOMAIN branches : ~fits(branches[i])
             ELSE fits(branches[b]) /\ \A i \in 1..b - 1 : ~fits(branches[i])

\* ${...} and case do what a shell does, command by command.  (expandBraceExpr, runCase)
ExpansionsRight == ParamsRight /\ CaseRight
=============================================================================
