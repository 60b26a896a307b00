----------------------------- MODULE AshParamsMC -----------------------------
EXTENDS AshParams, TLC

V == <<"v">>
VarValues == {<<>>, <<"a">>, <<"a", "b", "a">>, <<"a", "a", "b">>, <<"a", "/", "b">>, <<"/", "a", "/", "b">>, <<"a", "=", "b", ":">>}
VarShells == {[vars |-> V :> v, positional |-> <<>>] : v \in VarValues} \union {[vars |-> <<>>, positional |-> <<>>]}
ArgShells == {[vars |-> V :> <<"a">>, positional |-> p] : p \in {<<>>, << <<>> >>, << <<"a", "b", "a">> >>, << <<"a">>, <<"b", "a">> >>}}
Patterns == {<<"a">>, <<"*">>, <<"a", "*">>, <<"*", "a">>, <<"?">>, <<"?", "?">>, <<"*", "b", "*">>, <<"b">>, <<>>,
             <<"*", "/">>, <<"/", "*">>, <<"/">>, <<"*", "=">>, <<"=", "*">>, <<"*", ":">>, <<"a", "-">>, <<"+", "a">>}
Defaults == {<<>>, <<"a">>, <<"a", "b">>, <<"a", "-", "b">>, <<"a", ":", "b">>, <<"=">>, <<"/", "a">>, <<"?">>, <<"1">>, <<"#", "a">>}
Puts == {<<>>, <<"a">>, <<"b", "b">>, <<"/">>, <<"-">>, <<"=">>}
Param(name, op, word, put) == [name |-> name, op |-> op, word |-> word, put |-> put]
Expands(sh, items) == [op |-> "expand", sh |-> sh, items |-> items, branches |-> <<>>]
DefaultOps == {"-", ":-", "+", ":+", "=", ":=", "?", ":?"}
Params(names) ==
    {Param(n, op, <<>>, <<>>) : n \in names, op \in {"", "length"}}
    \union {Param(n, op, w, <<>>) : n \in names, op \in DefaultOps, w \in Defaults}
    \union {Param(n, op, w, <<>>) : n \in names, op \in Trims, w \in Patterns}
Replacements == {Param(V, op, w, p) : op \in Replaces, w \in Patterns, p \in Puts}
Few == {Param(V, op, w, <<>>) : op \in DefaultOps, w \in {<<>>, <<"a", "b">>}} \union {Param(V, "", <<>>, <<>>), Param(V, "##", <<"*", "a">>, <<>>)}
CaseWords == {<<>>, <<"a">>, <<"a", "b">>, <<"b">>, <<"a", "/", "b">>}
Branches == {<< <<"a">> >>, << <<"*">> >>, << <<"b">>, <<"a", "*">> >>, << <<"?">> >>, << <<"*", "b">> >>, << <<>> >>}
MCCalls ==
    {Expands(sh, <<p>>) : sh \in VarShells, p \in Params({V}) \union Replacements}
    \union {Expands(sh, <<p>>) : sh \in ArgShells, p \in Params({<<"1">>, <<"2">>, <<"@">>, <<"#">>})}
    \union {Expands(sh, <<p, q, r>>) : sh \in {x \in VarShells : x.vars \in {<<>>, V :> <<>>}}, p \in Few, q \in Few, r \in Few}
    \union {[op |-> "case", sh |-> [vars |-> <<>>, positional |-> <<>>], items |-> <<w>>, branches |-> <<b, c, d>>] :
              w \in CaseWords, b \in Branches, c \in Branches, d \in Branches}
MCInit == ParamsInit(MCCalls)
\* A variable with a path, as testname in pkg/testdata/busybox-testsuite/runtest.
Path == [vars |-> V :> <<"a", "/", "b">>, positional |-> <<>>]
PathInit == ParamsInit({Expands(Path, <<Param(V, "##", w, <<>>)>>) : w \in {<<"*", "/">>, <<"a", "*">>, <<"a">>}})
=============================================================================
