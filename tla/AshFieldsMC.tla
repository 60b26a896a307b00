----------------------------- MODULE AshFieldsMC -----------------------------
EXTENDS AshFields

V == <<"$", "v">>
Pieces == {<<"a">>, <<":">>, V, <<"$", "@">>, <<"$", "*">>, <<"$()">>, <<"bs", "dq">>}
Dq(p) == <<"dq">> \o p \o <<"dq">>
Words1 == Pieces \union {Dq(p) : p \in Pieces \union {<<>>}} \union {<<"sq">> \o p \o <<"sq">> : p \in {V, <<" ">>, <<>>}}
Words2 == {p \o q : p \in Words1, q \in Words1} \union {Dq(p \o q) : p \in Pieces, q \in Pieces}
Words3 == {p \o q \o r : p \in {<<"a">>, V, <<"$", "@">>, Dq(V)}, q \in Words1, r \in {<<"a">>, V, Dq(<<"$", "@">>), <<"$()">>}}
VarValues == {<<>>, <<"a">>, <<"a", " ", "b">>, <<" ", "a">>, <<"a", ":", ":", "b">>, <<":">>, <<"a", " ", ":", " ">>, <<"dq", "a">>}
Positional == {<<>>, << <<"a">> >>, << <<"a", " ", "b">>, <<"b">> >>, << <<"a">>, <<>> >>, << <<"a", ":">>, <<":">> >>}
Outputs == {<<>>, <<"a">>, <<"a", " ", "b">>, <<"dq", "b">>}
IfsOf == {[set |-> FALSE, ifs |-> <<>>], [set |-> TRUE, ifs |-> <<":", " ">>], [set |-> TRUE, ifs |-> <<":">>], [set |-> TRUE, ifs |-> <<>>]}
Shells == {[v |-> v, positional |-> <<>>, output |-> <<"a">>, ifsSet |-> i.set, ifs |-> i.ifs] : v \in VarValues, i \in IfsOf}
       \union {[v |-> <<"b">>, positional |-> p, output |-> <<>>, ifsSet |-> i.set, ifs |-> i.ifs] : p \in Positional, i \in IfsOf}
       \union {[v |-> <<"a", " ", "b">>, positional |-> << <<"a">> >>, output |-> o, ifsSet |-> i.set, ifs |-> i.ifs] : o \in Outputs, i \in IfsOf}

ManyShells == {sh \in Shells : sh.v \in {<<"b">>, <<"a", ":", ":", "b">>}}
FewShells == {sh \in Shells : sh.v = <<"a", ":", ":", "b">>}
InputLines == SeqOf({"a", " ", ":"}, 5) \union {<<"a", "bs", " ", "b">>}
Call(op, words, sh) == [op |-> op, words |-> words, sh |-> sh, raw |-> FALSE, n |-> 2]
MCCalls ==
         {Call("command", <<w>>, sh) : w \in Words1, sh \in Shells}
  \union {Call("command", <<w>>, sh) : w \in Words2, sh \in ManyShells}
  \union {Call("command", <<w>>, sh) : w \in Words3, sh \in FewShells}
  \union {Call("for", <<w, V>>, sh) : w \in Words1 \union {V \o V, V \o Dq(V)}, sh \in ManyShells}
  \union {Call("assign", <<w>>, sh) : w \in Words1 \union {V \o V, V \o Dq(V), Dq(V \o V)}, sh \in Shells}
  \union {[op |-> "read", words |-> <<line>>, n |-> n, raw |-> raw,
           sh |-> [v |-> <<>>, positional |-> <<>>, output |-> <<>>, ifsSet |-> i.set, ifs |-> i.ifs]] :
            line \in InputLines, n \in 1..3, raw \in BOOLEAN, i \in IfsOf}
MCInit == FieldsInit(MCCalls)
=============================================================================
