-------------------------------- MODULE SedMC --------------------------------
EXTENDS SedEngine
None == [kind |-> "none", n |-> 0, re |-> "none", step |-> 0]
LineNo(k) == [None EXCEPT !.kind = "line", !.n = k]
LastOne == [None EXCEPT !.kind = "last"]
Re(l) == [None EXCEPT !.kind = "re", !.re = l]
Plus(k) == [None EXCEPT !.kind = "plus", !.n = k]
C(c) == [cmd |-> c, a1 |-> None, a2 |-> None, neg |-> FALSE, in |-> 0, text |-> <<"x">>,
         re |-> "a", to |-> "b", all |-> FALSE, n |-> 1, p |-> FALSE, label |-> ""]
On(a, c) == [c EXCEPT !.a1 = a]
Not(a, c) == [c EXCEPT !.a1 = a, !.neg = TRUE]
Between(a, b, c) == [c EXCEPT !.a1 = a, !.a2 = b]
In(g, c) == [c EXCEPT !.in = g]
Basic == {C(c) : c \in {"d", "p", "n", "N", "a", "q", "Q", "D"}} \union
  {On(LineNo(2), C("d")), On(LineNo(3), C("d")), On(LastOne, C("p")), On(LineNo(2), C("q")), On(LastOne, C("q")), On(Re("a"), C("n")),
   Not(LastOne, C("N")), On(Re("b"), C("a")), C("s"), C("t"), C("T"), On(Re("a"), C("b")),
   Between(LineNo(2), LineNo(3), C("p")), Between(LineNo(2), LineNo(1), C("c")),
   Between(Re("a"), Re("b"), C("i")), Between(LineNo(1), Plus(1), C("p"))}
More1 == {C("h"), C("G"), C("x"), [C("s") EXCEPT !.re = "none", !.p = TRUE], Not(LineNo(1), C("="))}
MCPrograms == {<<c, d>> : c \in Basic, d \in Basic \union More1} \union
  {<<On(Re("a"), C("{")), In(1, c), d>> : c \in Basic, d \in {C("p"), C("a")}} \union
  {<<Not(LineNo(1), C("G")), C("h"), Not(LastOne, C("d"))>>, <<Not(LastOne, C("N")), C("P"), C("D")>>,
   <<[C(":") EXCEPT !.label = "l"], C("s"), [C("t") EXCEPT !.label = "l"]>>,
   <<On(Re("a"), C("{")), In(1, C("{")), In(2, Between(LineNo(2), LineNo(3), C("p")))>>} \union
  {<<[C(":") EXCEPT !.label = "l"], c, C("s"), [C("t") EXCEPT !.label = "l"]>> :
     c \in {Between(LineNo(2), LineNo(3), C("p")), [Between(LineNo(2), LineNo(2), C("p")) EXCEPT !.neg = TRUE]}}
MCInputs == {<<<<"a">>>>, <<<<"a">>, <<"b">>>>, <<<<"b">>, <<"a">>, <<"a">>, <<"b">>>>}
MCInit == SedInit(MCPrograms, MCInputs)
=============================================================================
