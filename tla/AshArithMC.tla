----------------------------- MODULE AshArithMC -----------------------------
EXTENDS AshArith

Num(n) == [op |-> "num", n |-> n]
Var(x) == [op |-> "var", name |-> x]
Dollar(x) == [op |-> "$", name |-> x]
Two(op, a, b) == [op |-> op, a |-> a, b |-> b]
One(op, a) == [op |-> op, a |-> a]
If(c, a, b) == [op |-> "?", c |-> c, a |-> a, b |-> b]
Set(x, how, a) == [op |-> "set", name |-> x, how |-> how, a |-> a]
Post(x, by) == [op |-> "post", name |-> x, by |-> by]
Pre(x, by) == [op |-> "pre", name |-> x, by |-> by]

Leaves == {<<Num(2), Num(2), Num(3)>>, <<Var("x"), Num(1), Num(2)>>, <<Num(1), Num(0), Dollar("x")>>,
           <<Num(0), Num(3), Num(2)>>, <<Num(2), Num(1), Num(2)>>, <<Num(1), Num(2), Num(0)>>}
Chains == UNION {{Two(f, Two(g, l[1], l[2]), l[3]), Two(f, l[1], Two(g, l[2], l[3]))} :
                   f \in BinaryOps, g \in BinaryOps, l \in Leaves}
Unaries == UNION {{Two(f, One(u, Num(2)), Num(3)), Two(f, Num(2), One(u, Num(3))), One(u, Two(f, Num(2), Var("x")))} :
                   f \in BinaryOps, u \in UnaryOps}
Steps == UNION {{Two(f, s, Num(2)), Two(f, Num(2), s), Two(f, s, Var("x"))} :
                   f \in BinaryOps, s \in {Post("x", 1), Post("x", -1), Pre("x", 1), Pre("x", -1)}}
Conditionals == UNION {{If(Two(f, Var("x"), Num(2)), Num(1), Two(f, Num(3), Num(1))), If(Var("y"), Two(f, Num(2), Num(1)), If(Num(0), Num(2), Var("x"))),
                   If(Var("y"), Two(f, Num(2), Num(0)), Two(f, Num(3), One("-1", Num(1)))),
                   Two(f, If(Var("x"), Num(2), Num(3)), Num(1))} : f \in BinaryOps}
Hows == {"", "<<", ">>", "+", "-", "*", "/", "%", "&", "|", "^"}
Sets == UNION {{Set("x", h, Two(f, Var("y"), Num(2))), Set("x", h, Set("y", f0, Num(2))), Set("x", h, Two(f, Num(0), Num(2))), Set("y", h, If(Var("x"), Num(2), Num(1)))} :
                   h \in Hows, f \in BinaryOps, f0 \in Hows}
Trees == Chains \union Unaries \union Steps \union Conditionals \union Sets

Vars == {[x |-> <<"3">>, y |-> <<>>], [x |-> <<"y">>, y |-> <<"2">>]}
\* Texts that no expression is written as.
BadTexts == {<<"2", " ", "+">>, <<"(", "2">>, <<"2", ")">>, <<"2", " ", "3">>, <<"2", "(", "3", ")">>, <<"(", ")">>,
             <<"1", "?", "2">>, <<"2", "=", "3">>, <<"2", "+", "x", "=", "3">>, <<"2", "<", "<", "+">>, <<"x", " ", "y">>,
             <<"0", "?", ":", "3">>, <<"2", "<", "<">>, <<"2", ">", ">", " ">>, <<"2", " ", "<">>, <<"2", "!">>}
MCCalls == {[text |-> Written(t, gap), vars |-> v, tree |-> t] : t \in Trees, gap \in {<<>>, <<" ">>}, v \in Vars}
MCInit == ArithInit(MCCalls \union {[text |-> t, vars |-> v, tree |-> [op |-> "bad"]] : t \in BadTexts, v \in Vars})
=============================================================================
