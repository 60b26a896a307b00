------------------------------- MODULE GrepMC -------------------------------
EXTENDS GrepSearch
Entry(k, n, ls, es) == [kind |-> k, name |-> n, lines |-> ls, entries |-> es]
F1 == Entry("file", "f1", <<<<"a", "b">>, <<"a">>, <<"b", " ", "a">>, <<>>>>, <<>>)
F2 == Entry("file", "f2", <<<<"A", "b", "a", "b">>, <<" ", "a", " ">>, <<"a", " ", "b">>>>, <<>>)
F3 == Entry("file", "f3", <<<<"b">>>>, <<>>)
Gone == Entry("missing", "g", <<>>, <<>>)
D2(es) == Entry("dir", "d2", <<>>, es)
L == Entry("link", "l", <<>>, <<F2>>)
D1(es) == Entry("dir", "d1", <<>>, es)
Operands == {<<F1>>, <<F1, F2, F3>>, <<F3, Gone, F1>>, <<D1(<<F1, F2>>), F3>>, <<L, F1>>,
  <<D1(<<F3, D2(<<F1, F3>>), L, F2>>), F1>>, <<F1, D1(<<D2(<<Gone, F3>>), F1>>)>>, <<F3, D1(<<>>)>>}
Patterns == {<<<<"a">>>>, <<<<"a", "b">>>>, <<<<"a">>, <<"a", "b">>>>, <<<<"b">>, <<"a">>>>, <<<<"a", "b", "a">>, <<"b", "a">>>>, <<>>, <<<<"b">>, <<>>>>}
Modes == SUBSET {"F", "i", "r"}
Outs == {{}, {"v"}, {"x"}, {"w"}, {"x", "w"}, {"c"}, {"l"}, {"L"}, {"q"}, {"o"}, {"o", "v"}, {"n", "v"}, {"c", "w"}, {"o", "w"}, {"h", "o", "n"}, {"q", "v"}}
MCCalls == {[opts |-> m \union o, patterns |-> p, operands |-> ops] : m \in Modes, o \in Outs, p \in Patterns, ops \in Operands}
MCInit == GrepInit(MCCalls)
=============================================================================
