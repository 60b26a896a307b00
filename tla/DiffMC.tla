------------------------------- MODULE DiffMC -------------------------------
EXTENDS DiffLines
a == <<"a">>
b == <<"b">>
s == <<" ">>
sa == <<" ", "a", " ">>
A == <<"A">>
e == <<>>
File(ls, op) == [kind |-> "file", name |-> 0, lines |-> ls, open |-> op, entries |-> <<>>]
Dir(es) == [kind |-> "dir", name |-> 0, lines |-> <<>>, open |-> FALSE, entries |-> es]
Odd(k) == [kind |-> k, name |-> 0, lines |-> <<>>, open |-> FALSE, entries |-> <<>>]
N(k, n) == [n EXCEPT !.name = k]
C(op, n, l, r) == [opts |-> op, context |-> n, left |-> l, right |-> r, from |-> 1, names |-> 3]
Plain == UNION {[1..n -> {a, b}] : n \in 0..4}
Spaced == {<<a>>, <<sa, b>>, <<A, e, b>>, <<e, a, s>>, <<b, sa, e, a>>, <<e>>, <<a, b, e, e>>}
Long == {<<a, a, a, a, b, a>>, <<b, a, a, a, a, a, a>>, <<a, b, a, a, b, a, a>>, <<a, b, b, a, a, a, b, b>>, <<a, a, a, b>>, <<s, a, a, a, b>>}
Nodes == {Dir(<<>>), Dir(<<N(1, File(<<a>>, FALSE)), N(2, Dir(<<N(1, File(<<a>>, FALSE))>>))>>),
  Dir(<<N(1, File(<<b>>, FALSE)), N(3, File(<<a>>, FALSE))>>), Dir(<<N(1, File(<<a>>, TRUE)), N(2, Dir(<<N(2, Odd("broken"))>>))>>),
  Dir(<<N(1, Dir(<<>>)), N(2, Dir(<<N(2, File(<<>>, FALSE)), N(1, File(<<a>>, FALSE))>>))>>), Odd("absent"), File(<<a>>, FALSE), File(<<>>, FALSE)}
MCCalls == {C({}, n, File(l, FALSE), File(r, FALSE)) : n \in {0, 1}, l \in Plain, r \in Plain} \union
  {C(x, n, File(l, p), File(r, q)) : x \in {{}, {"b"}, {"w"}, {"i"}, {"B"}, {"B", "b"}, {"i", "w"}, {"q"}}, n \in {0, 2}, l \in Spaced, r \in Spaced,
     p \in BOOLEAN, q \in {FALSE}} \union
  {C(x, n, File(l, FALSE), File(r, FALSE)) : x \in {{}, {"B"}}, n \in 0..3, l \in Long, r \in Long} \union
  {[C(x, 1, l, r) EXCEPT !.from = f] : x \in {{}, {"r"}, {"r", "N"}, {"N"}, {"r", "q"}}, l \in Nodes, r \in Nodes, f \in {1, 2}}
MCInit == DiffInit({c \in MCCalls : \A n \in {c.left, c.right} : ~(n.open /\ (n.lines = <<>> \/ Last(n.lines) = <<>>))})
=============================================================================
