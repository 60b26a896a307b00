------------------------------ MODULE AshArith ------------------------------
(***************************************************************************)
(* The arithmetic of the shell, $((...)) of src/pkg/applets/ash/ash.go: it  *)
(* works on text.  Increments are replaced by numbers first, then one       *)
(* assignment is looked for, names are replaced by their values, and        *)
(* parseArithExpr cuts what is left at the operator that binds least.       *)
(*                                                                         *)
(* A text is a sequence of characters, a variable a text (<<>> when it is    *)
(* unset); numbers are decimal.  A call has a text, the variables, and the   *)
(* tree that the text was written from, which only the properties look at:  *)
(* a record with op "num", "var", "neg", "not", "post" (name++), "?", an      *)
(* assignment, or a binary operator.                                        *)
(***************************************************************************)
EXTENDS Integers, Bitwise, SequencesExt, FiniteSets

VARIABLE arith

DigitOf == [c \in {"0", "1", "2", "3", "4", "5", "6", "7", "8", "9"} |->
              CHOOSE n \in 0..9 : ToString(n) = c]
Digits == DOMAIN DigitOf
VarNames == {"x", "y"}
Text(n) ==
    LET abs == IF n < 0 THEN 0 - n ELSE n
        ds[k \in Nat] == IF k < 10 THEN <<ToString(k)>> ELSE Append(ds[k \div 10], ToString(k % 10))
    IN IF n < 0 THEN <<"-">> \o ds[abs] ELSE ds[abs]
Upto(n) == [k \in 1..n |-> k]
Part(s, i, j) == SubSeq(s, i, j)
Rest(s, i) == SubSeq(s, i, Len(s))
Skip(s, i) == Min({j \in i..Len(s) + 1 : j > Len(s) \/ (IF j <= Len(s) THEN s[j] # " " ELSE FALSE)})
Trim(s) ==
    LET at == {i \in DOMAIN s : s[i] # " "} IN IF at = {} THEN <<>> ELSE Part(s, Min(at), Max(at))
Has(s, i, op) == i + Len(op) - 1 <= Len(s) /\ Part(s, i, i + Len(op) - 1) = op
LastIndex(s, op) == Max({0} \union {i \in DOMAIN s : Has(s, i, op)})
LastChar(s, P(_)) == Max({0} \union {i \in DOMAIN s : P(i)})

\* strconv.ParseInt of an optional sign and digits; other texts are 0.
IsNumber(s) ==
    LET t == IF s # <<>> /\ Head(s) = "-" THEN Tail(s) ELSE s IN t # <<>> /\ ToSet(t) \subseteq Digits
ParseInt(s) ==
    LET decimal(t) == FoldLeft(LAMBDA v, c : 10 * v + DigitOf[c], 0, t)
    IN IF ~IsNumber(s) THEN 0 ELSE IF Head(s) = "-" THEN 0 - decimal(Tail(s)) ELSE decimal(s)

-----------------------------------------------------------------------------
(* What the operators do: division cuts off; one by zero is an error of the    *)
(* expression, a negative shift a panic of Go, which ends the program: nothing *)
(* in src/ recovers from one.                                                  *)

Truth(b) == IF b THEN 1 ELSE 0
Abs(n) == IF n < 0 THEN 0 - n ELSE n
Quot(a, b) == IF (a < 0) = (b < 0) THEN Abs(a) \div Abs(b) ELSE 0 - (Abs(a) \div Abs(b))
WordBits == 24                                  \* instead of 64
Bits(n) == n % 2 ^ WordBits
Signed(n) == IF n >= 2 ^ (WordBits - 1) THEN n - 2 ^ WordBits ELSE n
Failure(op, b) ==
    CASE op \in {"/", "%"} /\ b = 0 -> "error"
      [] op \in {"<<", ">>"} /\ b < 0 -> "panic"
      [] OTHER -> ""
Worst(f, g) == IF "panic" \in {f, g} THEN "panic" ELSE IF f # "" THEN f ELSE g
Apply(op, a, b) ==
    IF Failure(op, b) # "" THEN 0 ELSE
    CASE op = "||" -> Truth(a # 0 \/ b # 0)  [] op = "&&" -> Truth(a # 0 /\ b # 0)
      [] op = "|"  -> Signed(Bits(a) | Bits(b))  [] op = "^" -> Signed(Bits(a) ^^ Bits(b))
      [] op = "&"  -> Signed(Bits(a) & Bits(b))
      [] op = "==" -> Truth(a = b)           [] op = "!=" -> Truth(a # b)
      [] op = "<"  -> Truth(a < b)           [] op = "<=" -> Truth(a <= b)
      [] op = ">"  -> Truth(a > b)           [] op = ">=" -> Truth(a >= b)
      [] op = "<<" -> a * 2 ^ b              [] op = ">>" -> a \div (2 ^ b)
      [] op = "+"  -> a + b                  [] op = "-"  -> a - b
      [] op = "*"  -> a * b                  [] op = "/"  -> Quot(a, b)
      [] op = "%"  -> a - b * Quot(a, b)     [] op = "**" -> IF b < 0 THEN 0 ELSE IF b = 0 THEN 1 ELSE a ^ b

-----------------------------------------------------------------------------
(* parseArithExpr: where a text is cut, <<operator, its place>>, or <<>>.     *)

Chars == [op \in {"||", "&&", "==", "!=", "<=", ">=", "<<", ">>", "**", "+=", "-=", "*="} |->
            CASE op = "||" -> <<"|", "|">> [] op = "&&" -> <<"&", "&">> [] op = "==" -> <<"=", "=">>
              [] op = "!=" -> <<"!", "=">> [] op = "<=" -> <<"<", "=">> [] op = ">=" -> <<">", "=">>
              [] op = "<<" -> <<"<", "<">> [] op = ">>" -> <<">", ">">> [] op = "**" -> <<"*", "*">>
              [] op = "+=" -> <<"+", "=">> [] op = "-=" -> <<"-", "=">> [] op = "*=" -> <<"*", "=">>]
CharsOf(op) == IF op \in DOMAIN Chars THEN Chars[op] ELSE <<op>>

Single(s, c) == LastChar(s, LAMBDA i : s[i] = c /\ ~(i > 1 /\ (IF i > 1 THEN s[i - 1] = c ELSE FALSE)))
Comparisons == <<"==", "!=", "<=", ">=", "<", ">">>
Compares(s, op) ==
    LET i == LastIndex(s, CharsOf(op))
        doubled == (s[i - 1] = op) \/ (IF i < Len(s) THEN s[i + 1] = op ELSE FALSE)
    IN i > 1 /\ (op \in {"<", ">"} => ~doubled)
AddAt(s) ==
    LastChar(s, LAMBDA i : i > 1 /\ s[i] \in {"+", "-"}
                           /\ (IF i > 1 THEN s[i - 1] \notin {"*", "/", "%", "+", "-"} ELSE FALSE))
MulAt(s) ==
    LastChar(s, LAMBDA i : s[i] \in {"*", "/", "%"} /\ ~Has(s, i, <<"*", "*">>)
                           /\ ~(i > 1 /\ (IF i > 1 THEN Has(s, i - 1, <<"*", "*">>) ELSE FALSE)))
PowAt(s) == LET at == {i \in DOMAIN s : Has(s, i, <<"*", "*">>)} IN IF at = {} THEN 0 ELSE Min(at)
ShiftAt(s) == LastChar(s, LAMBDA i : Has(s, i, <<"<", "<">>) \/ Has(s, i, <<">", ">">>))

Cut(s) ==
    LET compare == SelectInSeq(Comparisons, LAMBDA op : Compares(s, op))
        at(op) == <<op, LastIndex(s, CharsOf(op))>>
    IN CASE LastIndex(s, <<"|", "|">>) > 1 -> at("||")
         [] OTHER -> CASE LastIndex(s, <<"&", "&">>) > 1 -> at("&&")
         [] OTHER -> CASE Single(s, "|") > 0 -> <<"|", Single(s, "|")>>
         [] OTHER -> CASE LastIndex(s, <<"^">>) > 0 -> at("^")
         [] OTHER -> CASE Single(s, "&") > 0 -> <<"&", Single(s, "&")>>
         [] OTHER -> CASE compare > 0 -> at(Comparisons[compare])
         [] OTHER -> CASE ShiftAt(s) > 0 -> <<s[ShiftAt(s)] \o s[ShiftAt(s)], ShiftAt(s)>>
         [] OTHER -> CASE AddAt(s) > 0 -> <<s[AddAt(s)], AddAt(s)>>
         [] OTHER -> CASE MulAt(s) > 0 -> <<s[MulAt(s)], MulAt(s)>>
         [] OTHER -> CASE PowAt(s) > 0 -> <<"**", PowAt(s)>>
         [] OTHER -> <<>>

Number(n) == [v |-> n, err |-> ""]
SyntaxError == [v |-> 0, err |-> "error"]

RECURSIVE ParseExpr(_), Unparen(_)
\* The last opening bracket and the first that closes it are replaced by the value.
Unparen(s) ==
    LET open == LastIndex(s, <<"(">>)
        close == Min({i \in DOMAIN s : i > open /\ s[i] = ")"} \union {Len(s) + 1})
        with(inner, rest) == [s |-> rest.s, err |-> Worst(inner.err, rest.err)]
        put(inner) == with(inner, Unparen(Part(s, 1, open - 1) \o Text(inner.v) \o Rest(s, close + 1)))
    IN IF open = 0 \/ close > Len(s) THEN [s |-> s, err |-> ""]
       ELSE put(ParseExpr(Part(s, open + 1, close - 1)))

Unary(s) ==
    LET inner == ParseExpr(Tail(s))
    IN CASE s = <<>> -> Number(0)
         [] s # <<>> /\ s[1] = "-" -> [inner EXCEPT !.v = 0 - @]
         [] s # <<>> /\ s[1] = "+" -> inner
         [] s # <<>> /\ s[1] = "!" -> [inner EXCEPT !.v = Truth(@ = 0)]
         [] s # <<>> /\ s[1] = "~" -> [inner EXCEPT !.v = -1 - @]
         [] OTHER -> Number(ParseInt(s))

Ternary(s, i) ==
    LET rest == Rest(s, i + 1)
        choose(colon, cond) ==
          LET yes == Trim(Part(rest, 1, colon - 1))
              no == Trim(Rest(rest, colon + 1))
          IN IF colon = 0 \/ yes = <<>> \/ no = <<>> THEN [SyntaxError EXCEPT !.err = Worst(cond.err, @)]
             ELSE [ParseExpr(IF cond.v # 0 THEN yes ELSE no) EXCEPT !.err = Worst(cond.err, @)]
    IN choose(SelectInSeq(rest, LAMBDA c : c = ":"), ParseExpr(Part(s, 1, i - 1)))

Binary(s, cut) ==
    LET apply(l, r) ==
          [v |-> Apply(cut[1], l.v, r.v), err |-> Worst(Worst(l.err, r.err), Failure(cut[1], r.v))]
    IN apply(ParseExpr(Part(s, 1, cut[2] - 1)), ParseExpr(Rest(s, cut[2] + Len(CharsOf(cut[1])))))

ParseExpr(expr) ==
    LET value(s, question, cut) ==
          IF question > 1 THEN Ternary(s, question) ELSE IF cut # <<>> THEN Binary(s, cut) ELSE Unary(Trim(s))
        parse(u) == [value(u.s, SelectInSeq(u.s, LAMBDA c : c = "?"), Cut(u.s)) EXCEPT !.err = Worst(u.err, @)]
    IN parse(Unparen(Trim(expr)))

-----------------------------------------------------------------------------
(* The checks of a text before anything is evaluated.                        *)

Depth(s, i) ==
    FoldLeft(LAMBDA d, j : CASE s[j] = "(" -> d + 1 [] s[j] = ")" /\ d > 0 -> d - 1 [] OTHER -> d, 0, Upto(i))
Unbalanced(s) ==
    LET count(i) == Cardinality({j \in 1..i : s[j] = "("}) - Cardinality({j \in 1..i : s[j] = ")"})
    IN (\E i \in DOMAIN s : count(i) < 0) \/ count(Len(s)) # 0
TrailingOperator(s) ==
    \E op \in {"<<", ">>", "|", "&", "+", "-", "*", "/", "%", "^", "=", "?", ":"} :
        IsSuffix(CharsOf(op), Trim(s))
Operand(c) == c \in Digits \union VarNames
\* Two operands, or brackets, with no operator between them.
AdjacentOperands(s) ==
    LET step(st, i) ==
            CASE s[i] = " " -> [st EXCEPT !.word = FALSE]
              [] s[i] = "(" -> [prev |-> FALSE, word |-> FALSE, bad |-> st.bad \/ st.prev]
              [] s[i] = ")" -> [prev |-> TRUE, word |-> FALSE, bad |-> st.bad \/ ~st.prev]
              [] Operand(s[i]) -> [prev |-> TRUE, word |-> TRUE, bad |-> st.bad \/ (st.prev /\ ~st.word)]
              [] OTHER -> [prev |-> FALSE, word |-> FALSE, bad |-> st.bad]
    IN FoldLeft(step, [prev |-> FALSE, word |-> FALSE, bad |-> FALSE], Upto(Len(s))).bad

AssignOps == <<<<"<", "<", "=">>, <<">", ">", "=">>, <<"+", "=">>, <<"-", "=">>, <<"*", "=">>, <<"/", "=">>,
               <<"%", "=">>, <<"&", "=">>, <<"|", "=">>, <<"^", "=">>, <<"=">>>>
\* The assignment operator at i: a "=" that belongs to a comparison is none.
AssignAt(s, i) ==
    LET compares == \/ i > 1 /\ (IF i > 1 THEN s[i - 1] \in {"=", "!", "<", ">"} ELSE FALSE)
                    \/ i < Len(s) /\ (IF i < Len(s) THEN s[i + 1] = "=" ELSE FALSE)
    IN IF Depth(s, i) # 0 THEN 0
       ELSE SelectInSeq(AssignOps, LAMBDA op : Has(s, i, op) /\ (op = <<"=">> => ~compares))
IsName(s) == Len(s) = 1 /\ (IF s # <<>> THEN s[1] \in VarNames ELSE FALSE)
AssignsAtTop(s) == \E i \in DOMAIN s : AssignAt(s, i) > 0 /\ IsName(Trim(Part(s, 1, i - 1)))
InvalidTernary(s) ==
    LET question == {i \in DOMAIN s : s[i] = "?" /\ Depth(s, i) = 0}
        colon == {i \in DOMAIN s : s[i] = ":" /\ Depth(s, i) = 0 /\ question # {} /\ i > Min(question)}
    IN colon # {} /\ (\/ AssignsAtTop(Part(s, Min(question) + 1, Min(colon) - 1))
                      \/ AssignsAtTop(Rest(s, Min(colon) + 1)))
InvalidLogical(s) ==
    /\ \E i \in DOMAIN s : Depth(s, i) = 0 /\ (Has(s, i, <<"&", "&">>) \/ Has(s, i, <<"|", "|">>))
    /\ AssignsAtTop(s)
Malformed(s) ==
    Unbalanced(s) \/ TrailingOperator(s) \/ AdjacentOperands(s) \/ InvalidTernary(s) \/ InvalidLogical(s)

-----------------------------------------------------------------------------
(* The evaluation: st is the variables and what failed: "", "error" or "panic". *)

RECURSIVE Evaluate(_, _), VarValue(_, _)
\* parseArithVar: a number, the name of a variable, or an expression.
VarValue(name, st) ==
    LET val == st.vars[name]
    IN CASE st.err # "" \/ val = <<>> -> [v |-> 0, st |-> st]
         [] OTHER -> CASE IsNumber(val) -> [v |-> ParseInt(val), st |-> st]
         [] OTHER -> CASE IsName(val) /\ val # <<name>> -> VarValue(val[1], st)
         [] OTHER -> Evaluate(val, st)
Put(st, name, n) == [st EXCEPT !.vars[name] = Text(n)]

\* handlePostfixIncDec: ++ and -- beside a name give way to a number, wherever they stand.
Twice(s, i) == i < Len(s) /\ (IF i < Len(s) THEN s[i] \in {"+", "-"} /\ s[i + 1] = s[i] ELSE FALSE)
By(s, i) == IF s[i] = "+" THEN 1 ELSE -1
IncDec(s, st0) ==
    LET step(r, i) ==
          IF i < r.next THEN r ELSE
          LET j == Skip(s, i + 2)
              k == Skip(s, i + 1)
              prefix == Twice(s, i) /\ j <= Len(s) /\ (IF j <= Len(s) THEN s[j] \in VarNames ELSE FALSE)
              postfix == s[i] \in VarNames /\ Twice(s, k)
              change(name, old, by, next) ==
                [s |-> r.s \o Text(IF prefix THEN old.v + by ELSE old.v), next |-> next, st |-> Put(old.st, name, old.v + by)]
          IN IF prefix THEN change(s[j], VarValue(s[j], r.st), By(s, i), j + 1)
             ELSE IF postfix THEN change(s[i], VarValue(s[i], r.st), By(s, k), k + 2)
             ELSE [r EXCEPT !.s = Append(@, s[i]), !.next = i + 1]
    IN FoldLeft(step, [s |-> <<>>, next |-> 1, st |-> st0], Upto(Len(s)))

\* evalAssignment: the first assignment outside brackets; its right side is evaluated first.
Assignment(s, i, st) ==
    LET lhs == Trim(Part(s, 1, i - 1))
        store(st1, value, failure) == [v |-> value, st |-> [Put(st1, lhs[1], value) EXCEPT !.err = Worst(@, failure)]]
        change(how, cur, rhs) ==
          IF how = "=" THEN store(cur.st, rhs.v, "") ELSE store(cur.st, Apply(how, cur.v, rhs.v), Failure(how, rhs.v))
        assign(op, rhs) ==
          IF ~IsName(lhs) THEN [v |-> 0, st |-> [st EXCEPT !.err = Worst(@, "error")]]
          ELSE IF rhs.st.err # "" THEN [v |-> 0, st |-> rhs.st]
          ELSE change(IF op[1] \in {"<", ">"} THEN op[1] \o op[1] ELSE op[1], VarValue(lhs[1], rhs.st), rhs)
        at(op) == assign(op, Evaluate(Trim(Rest(s, i + Len(op))), st))
    IN at(AssignOps[AssignAt(s, i)])

\* expandBareVars: each name gives way to its number.
BareVars(s, st0) ==
    FoldLeft(LAMBDA r, c : IF c \notin VarNames THEN [r EXCEPT !.s = Append(@, c)]
                           ELSE LET val == VarValue(c, r.st) IN [s |-> r.s \o Text(val.v), st |-> val.st],
             [s |-> <<>>, st |-> st0], s)

Evaluate(expr, st0) ==
    LET result(st, value) == [v |-> value.v, st |-> [st EXCEPT !.err = Worst(@, value.err)]]
        parse(bare) == result(bare.st, ParseExpr(bare.s))
        assigns(s) == {i \in DOMAIN s : AssignAt(s, i) > 0}
        evaluate(inc) ==
          IF Malformed(inc.s) THEN [v |-> 0, st |-> [inc.st EXCEPT !.err = Worst(@, "error")]]
          ELSE IF assigns(inc.s) # {} THEN Assignment(inc.s, Min(assigns(inc.s)), inc.st)
          ELSE parse(BareVars(inc.s, inc.st))
    IN evaluate(IncDec(expr, st0))

\* expandArithmetic: $name is replaced by the text of the variable before all that.
Splice(s, vars) ==
    FoldLeft(LAMBDA out, i : CASE s[i] = "$" -> out
                               [] s[i] # "$" /\ (IF i > 1 THEN s[i - 1] = "$" ELSE FALSE) -> out \o vars[s[i]]
                               [] OTHER -> Append(out, s[i]), <<>>, Upto(Len(s)))

ArithInit(calls) ==
    \E call \in calls : arith = [call |-> call, pc |-> "ready", v |-> 0, st |-> [vars |-> call.vars, err |-> ""]]
ExpandArithmetic ==
    LET done(r) == [arith EXCEPT !.pc = "done", !.v = r.v, !.st = r.st]
    IN arith.pc = "ready" /\ arith' = done(Evaluate(Splice(arith.call.text, arith.st.vars), arith.st))
ArithNext == ExpandArithmetic

-----------------------------------------------------------------------------
(* What a tree means, written apart from the text: the reference.            *)

BinaryOps == {"||", "&&", "|", "^", "&", "==", "!=", "<", "<=", ">", ">=", "<<", ">>", "+", "-", "*", "/", "%", "**"}
UnaryOps == {"-1", "!", "~"}                    \* "-1": the sign, apart from the subtraction

\* What an operator means, from the numbers and their bits (in two's complement).
BitOf(n, i) == (n \div 2 ^ i) % 2 = 1
FromBits(P(_)) ==
    FoldLeft(LAMBDA v, i : 2 * v + Truth(P(WordBits - i)), 0 - Truth(P(WordBits - 1)), Upto(WordBits))
Quotient(a, b) ==                               \* the one of the least remainder, towards zero
    LET q == Max({k \in 0..Abs(a) : k * Abs(b) <= Abs(a)}) IN IF a * b < 0 THEN 0 - q ELSE q
Times(n, k, b) == FoldLeft(LAMBDA v, i : v * n, k, Upto(b))
Meaningless(op, b) ==
    CASE op \in {"/", "%"} -> IF b = 0 THEN "zero" ELSE ""
      [] op \in {"<<", ">>"} -> IF b < 0 THEN "shift" ELSE ""
      [] OTHER -> ""
Result(op, a, b) ==
    IF Meaningless(op, b) # "" THEN 0 ELSE
    CASE op = "||" -> IF a = 0 /\ b = 0 THEN 0 ELSE 1
      [] op = "&&" -> IF a = 0 \/ b = 0 THEN 0 ELSE 1
      [] op = "|"  -> FromBits(LAMBDA i : BitOf(a, i) \/ BitOf(b, i))
      [] op = "&"  -> FromBits(LAMBDA i : BitOf(a, i) /\ BitOf(b, i))
      [] op = "^"  -> FromBits(LAMBDA i : BitOf(a, i) # BitOf(b, i))
      [] op \in {"==", "!=", "<", "<=", ">", ">="} ->
            Truth(op \in (IF a = b THEN {"==", "<=", ">="} ELSE IF a < b THEN {"!=", "<", "<="} ELSE {"!=", ">", ">="}))
      [] op = "<<" -> Times(2, a, b)
      [] op = ">>" -> FoldLeft(LAMBDA v, i : (v - (v % 2)) \div 2, a, Upto(b))
      [] op = "+"  -> a + b                  [] op = "-"  -> a - b
      [] op = "*"  -> a * b                  [] op = "/"  -> Quotient(a, b)
      [] op = "%"  -> a - b * Quotient(a, b) [] op = "**" -> IF b < 0 THEN 0 ELSE Times(a, 1, b)
First(f, g) == IF f # "" THEN f ELSE g
RECURSIVE Parts(_), Meaning(_, _)
Parts(t) ==
    {t} \union (CASE t.op \in BinaryOps -> Parts(t.a) \union Parts(t.b) [] t.op = "?" -> Parts(t.c) \union Parts(t.a) \union Parts(t.b)
                  [] t.op \in UnaryOps \union {"set"} -> Parts(t.a) [] OTHER -> {})
ValueOf(name, vars) ==
    LET val == vars[name] IN ParseInt(IF IsName(val) THEN vars[val[1]] ELSE val)
Meaning(t, m) ==
    LET step(val) == [m EXCEPT !.v = IF t.op = "post" THEN val ELSE val + t.by, !.vars[t.name] = Text(val + t.by)]
        choose(c) == Meaning(IF c.v # 0 THEN t.a ELSE t.b, c)
        store(a, v) == [v |-> v, vars |-> [a.vars EXCEPT ![t.name] = Text(v)], err |-> First(a.err, Meaningless(t.how, a.v))]
        set(a) == store(a, IF t.how = "" THEN a.v ELSE Result(t.how, ValueOf(t.name, a.vars), a.v))
        both(a, b) == [b EXCEPT !.v = Result(t.op, a.v, b.v), !.err = First(@, Meaningless(t.op, b.v))]
        left(a) == IF (t.op = "||" /\ a.v # 0) \/ (t.op = "&&" /\ a.v = 0) THEN [a EXCEPT !.v = Truth(@ # 0)]
                   ELSE both(a, Meaning(t.b, a))
    IN CASE t.op = "num" -> [m EXCEPT !.v = t.n]
         [] t.op \in {"var", "$"} -> [m EXCEPT !.v = ValueOf(t.name, m.vars)]
         [] t.op \in {"post", "pre"} -> step(ValueOf(t.name, m.vars))
         [] t.op = "-1" -> [Meaning(t.a, m) EXCEPT !.v = 0 - @]
         [] t.op = "!" -> [Meaning(t.a, m) EXCEPT !.v = Truth(@ = 0)]
         [] t.op = "~" -> [Meaning(t.a, m) EXCEPT !.v = -1 - @]
         [] t.op = "?" -> choose(Meaning(t.c, m))
         [] t.op = "set" -> set(Meaning(t.a, m))
         [] t.op \in BinaryOps -> left(Meaning(t.a, m))
         [] OTHER -> [m EXCEPT !.err = "syntax"]

(* The text of a tree: brackets where its operators need them.               *)
Level == [op \in BinaryOps |->
            CASE op = "||" -> 2 [] op = "&&" -> 3 [] op = "|" -> 4 [] op = "^" -> 5 [] op = "&" -> 6
              [] op \in {"==", "!="} -> 7 [] op \in {"<", "<=", ">", ">="} -> 8 [] op \in {"<<", ">>"} -> 9
              [] op \in {"+", "-"} -> 10 [] op \in {"*", "/", "%"} -> 11 [] op = "**" -> 12]
Bind(t) == IF t.op \in BinaryOps THEN Level[t.op] ELSE CASE t.op = "set" -> 0 [] t.op = "?" -> 1 [] t.op \in UnaryOps -> 13 [] OTHER -> 14
RECURSIVE Written(_, _)
Bracketed(t, gap, needed) == IF needed THEN <<"(">> \o Written(t, gap) \o <<")">> ELSE Written(t, gap)
Written(t, gap) ==
    CASE t.op = "num" -> Text(t.n)
      [] t.op = "var" -> <<t.name>>
      [] t.op = "$" -> <<"$", t.name>>
      [] t.op = "post" -> <<t.name>> \o (IF t.by = 1 THEN <<"+", "+">> ELSE <<"-", "-">>)
      [] t.op = "pre" -> (IF t.by = 1 THEN <<"+", "+">> ELSE <<"-", "-">>) \o <<t.name>>
      [] t.op \in UnaryOps -> (IF t.op = "-1" THEN <<"-">> ELSE <<t.op>>) \o Bracketed(t.a, gap, Bind(t.a) < 14)
      [] t.op = "?" -> Bracketed(t.c, gap, Bind(t.c) <= 1) \o gap \o <<"?">> \o gap \o Bracketed(t.a, gap, Bind(t.a) <= 1)
                       \o gap \o <<":">> \o gap \o Bracketed(t.b, gap, Bind(t.b) < 1)
      [] t.op = "set" -> <<t.name>> \o gap \o (IF t.how = "" THEN <<>> ELSE CharsOf(t.how)) \o <<"=">> \o gap \o Written(t.a, gap)
      [] OTHER -> LET right == t.op = "**"
                  IN Bracketed(t.a, gap, Bind(t.a) < Bind(t) \/ (right /\ Bind(t.a) = Bind(t)) \/ (right /\ t.a.op \in UnaryOps))
                     \o gap \o CharsOf(t.op) \o gap
                     \o Bracketed(t.b, gap, Bind(t.b) < Bind(t) \/ (~right /\ Bind(t.b) = Bind(t)) \/ t.b.op \in UnaryOps)

-----------------------------------------------------------------------------
(* Properties.                                                               *)

Before == [v |-> 0, vars |-> arith.call.vars, err |-> ""]
Agrees ==
    LET agrees(m) ==
          CASE m.err = "" -> arith.v = m.v /\ arith.st = [vars |-> m.vars, err |-> ""]
            [] m.err \in {"zero", "syntax"} -> arith.st.err = "error"
            [] m.err = "shift" -> arith.st.err \in {"error", "panic"}
    IN agrees(Meaning(arith.call.tree, Before))

\* What the code is known to get wrong: a chain of comparisons, "<" beside a shift, an
\* assignment of a || or &&, a sign before a negative operand; an operand of || or && that
\* is not to be evaluated is (9933-9949), so that its ++ is done and its division by zero
\* or negative shift fails.
ComparisonOps == {"==", "!=", "<", "<=", ">", ">="}
Chained(t) ==
    /\ t.op \in ComparisonOps
    /\ \/ t.a.op \in ComparisonOps /\ Bind(t.a) >= Bind(t)
       \/ t.b.op \in ComparisonOps /\ Bind(t.b) > Bind(t)
       \/ {t.a.op, t.b.op} \intersect {"<<", ">>"} # {}
EvaluatedAside(t) ==
    /\ t.op \in {"||", "&&"}
    /\ (t.op = "||") = (Meaning(t.a, Before).v # 0)
    /\ \/ \E p \in Parts(t.b) : p.op \in {"post", "pre"}
       \/ Meaning(t.b, Before).err # ""
NegativePart(t) ==
    \E p \in UNION {Parts(q) \ {q} : q \in Parts(t)} : Meaning(p, Before).v < 0
Plain(t) ==
    \A p \in Parts(t) : /\ ~Chained(p) /\ ~EvaluatedAside(p)
                         /\ (p.op = "set" => p.a.op \notin {"||", "&&"})
                         /\ (p.op \in UnaryOps => Meaning(p.a, Before).v >= 0)
Spaced(s) == \E i \in DOMAIN s : s[i] = " "
\* hasTrailingOperator (9598) knows no comparisons and no signs: $((2 <)) is 2 < 0.
OpenComparison(s) == Last(Trim(s)) \in {"<", ">", "!", "~"} /\ ~TrailingOperator(s)

=============================================================================
