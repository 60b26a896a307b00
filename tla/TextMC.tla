------------------------------- MODULE TextMC -------------------------------
EXTENDS TextFilters
Call(t, o, fs) == [tool |-> t, opts |-> o, files |-> fs, n |-> 0, sign |-> "", char |-> 0, max |-> 0,
                   delim |-> "", list |-> <<>>, from |-> <<>>, to |-> <<>>, sinks |-> 0]
Texts == {<<>>, <<"a">>, <<"a", NL>>, <<NL, "a", " ", "b">>, <<"a", NL, "b", NL, NL, "c">>, <<"a", " ", NL, TAB, "b", "a", NL, NL>>}
Two == {<<t>> : t \in Texts} \union {<<t, Missing>> : t \in Texts} \union {<<Missing, t, u>> : t \in Texts, u \in {<<"b", NL>>, <<"b", " ">>}}
Basic == {Call("cat", o, fs) : o \in {{}, {"n"}, {"b"}, {"A"}, {"e"}}, fs \in Two} \union {Call("wc", {}, fs) : fs \in Two}
Cuts == {[Call(t, o, <<u>>) EXCEPT !.n = n, !.sign = s] : t \in {"head", "tail"}, o \in {{}, {"c"}}, u \in Texts, n \in 0..5, s \in {"", "+"}}
  \union {[Call(t, {"v"}, fs) EXCEPT !.n = 1] : t \in {"head", "tail"}, fs \in Two}
Lists == {<< <<1, 1>> >>, << <<1, 2>> >>, << <<2, 0>> >>, << <<2, 3>>, <<1, 1>>, <<3, 0>> >>, << <<1, 2>>, <<2, 3>> >>}
Columns == {[Call("cut", o, <<u>>) EXCEPT !.list = l, !.delim = d] : o \in {{"f"}, {"c"}, {"f", "s"}}, l \in Lists, d \in {" ", "a"},
  u \in Texts \union {<<"a", "b", "c", "a", NL, "b", "a", "b">>, <<" ", "b", " ", "c", " ", NL, "a">>}}
Words == {<<"a">>, <<"B", " ", "a">>, <<"b", " ", "1">>, <<"b", " ", "a">>, <<"2">>, <<"1", "1">>, <<>>, <<"A">>, <<NAN>>}
Three == {Println(ls) : ls \in [1..3 -> Words]}
SortOpts == {{}, {"r"}, {"n"}, {"n", "r"}, {"u"}, {"f", "u"}, {"u", "n"}}
Sorts == {[Call("sort", o, <<t>>) EXCEPT !.n = k] : o \in SortOpts, k \in {0, 2}, t \in Three} \union
  {[Call("sort", {}, <<t, u>>) EXCEPT !.n = 2, !.char = 2, !.delim = "a"] : t \in Texts, u \in Texts \union {Missing}}
Uniqs == {[Call("uniq", o, <<Println(ls)>>) EXCEPT !.n = k, !.char = ch, !.max = m] : o \in {{}, {"c"}, {"d"}, {"u"}, {"i"}},
  k \in {0, 1}, ch \in {0, 1}, m \in {0, 1}, ls \in [1..3 -> Words \ {<<NAN>>, <<"2">>}]} \union {Call("uniq", {}, <<Missing>>)}
Sets == {<<"a">>, <<"a", "-", "c">>, <<"[:digit:]", "a">>, <<"b", "c", "1">>, <<"A", "B", "A">>, <<"-">>}
Trs == {[Call("tr", o, <<t>>) EXCEPT !.from = f, !.to = g] : o \in {{}, {"d"}, {"d", "c"}, {"s"}, {"c"}, {"d", "s"}}, f \in Sets, g \in Sets,
  t \in Texts \union {<<"1", "a", "a", "-", "b", WIDE>>, <<"c", "a", "a", "1", "A">>}}
Tees == {[Call("tee", {}, <<t>>) EXCEPT !.sinks = n] : t \in {<<"a", "b", "c", "a">>, <<>>}, n \in 1..3}
MCCalls == Basic \union Cuts \union Columns \union Sorts \union Uniqs \union Trs \union Tees
MCInit == TextInit(MCCalls)
=============================================================================
