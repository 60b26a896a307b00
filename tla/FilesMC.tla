------------------------------- MODULE FilesMC -------------------------------
EXTENDS FileTools

a == <<"a">>
b == <<"b">>
d == <<"d">>
e == <<"e">>
Free == [kind |-> "free", data |-> "", to |-> <<>>]

\* Up to four things in d and at the top, each of them a file, a link or another
\* name of the file a.
Tree(fa, fb, fda, fdb, fea) ==
    LET new == <<fa, fb, fda, fdb, fea>>
        path == <<a, b, d \o a, d \o b, e \o a>>
        has(k) == new[k].kind \notin {"free", "same"}
    IN [node |-> [p \in Paths |->
            IF p = d THEN 6 ELSE IF p = e THEN 7
            ELSE IF \E k \in 1..5 : path[k] = p
                 THEN LET k == CHOOSE k \in 1..5 : path[k] = p IN
                      IF has(k) THEN k ELSE IF new[k].kind = "same" THEN 1 ELSE 0
                 ELSE 0],
        inode |-> [i \in 1..12 |-> CASE i <= 5 -> IF has(i) THEN new[i] ELSE Free
                                     [] i \in {6, 7} -> ADir
                                     [] OTHER -> Free]]
Same == [Free EXCEPT !.kind = "same"]
NoChain(t) == \A p \in Paths : LET i == t.node[p] IN
    i # 0 /\ t.inode[i].kind = "link" => LET j == t.node[t.inode[i].to] IN j = 0 \/ t.inode[j].kind # "link"
MCTrees == {t \in {Tree(AFile("x"), fb, fda, fdb, fea) :
    fb \in {AFile("y"), ALink(a), ALink(d \o a), Same, Free},
    fda \in {AFile("z"), ALink(a), Same}, fdb \in {AFile("w"), ALink(b), Same, Free},
    fea \in {AFile("v"), Same, Free}} : NoChain(t)}

Call(t, o, ops, to) == [tool |-> t, opts |-> o, operands |-> ops, dest |-> to]
MCCalls ==
    {Call("cp", o, <<p>>, q) : o \in {{}, {"n"}, {"i"}, {"d"}}, p \in {a, d \o b}, q \in {b, e}} \union
    {Call("cp", {"d", "n"}, <<a, b>>, q) : q \in {d, e}} \union
    {Call("cp", {"d"}, <<a, b>>, e), Call("cp", {"d"}, <<a, b>>, d), Call("cp", {}, <<a, d>>, e), Call("cp", {"r"}, <<a>>, d)} \union
    {Call("cp", o, <<d>>, q) : o \in {{"r"}, {"a"}, {"r", "L"}, {"r", "n"}, {"r", "H"}}, q \in {e, e \o b}} \union
    {Call("mv", o, <<p>>, q) : o \in {{}, {"n"}, {"i"}, {"f"}, {"copy"}}, p \in {a, d}, q \in {e, b}} \union
    {Call("mv", {}, <<a, b>>, d), Call("mv", {}, <<d \o a, e>>, a)} \union
    {Call("rm", o, <<p, d>>, p) : o \in {{}, {"r"}, {"f"}, {"r", "f"}}, p \in {b, e \o b}} \union
    {Call("mkdir", o, <<p>>, p) : o \in {{}, {"p"}}, p \in {e \o d, e \o d \o b, b, a \o b, e \o b}} \union
    {Call("rmdir", o, <<p>>, p) : o \in {{}, {"p"}}, p \in {d \o b, e \o a, d, b}} \union
    {Call("touch", o, <<p, e \o b>>, p) : o \in {{}, {"c"}}, p \in {b, d \o b, e \o d}}

MCInit == FilesInit(MCCalls, MCTrees)
=============================================================================
