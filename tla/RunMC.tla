-------------------------------- MODULE RunMC --------------------------------
EXTENDS Runners

W(name, len) == [name |-> name, len |-> len]
Inputs == SeqOf({<<>>, <<W("_", 1)>>, <<W("dddd", 4)>>, <<W("bb", 2), W("a", 1)>>, <<W("a", 1), W("_", 1)>>}, 3)
\* The logical end: none, -E _ and -E ''.
Ends == {<<FALSE, "">>, <<TRUE, "_">>, <<TRUE, "">>}
XargsCall(lines, n, s, r, e, z) ==
    [tool |-> "xargs", lines |-> lines, maxArgs |-> n, maxSize |-> s, noRun |-> r, eofOn |-> e[1], eof |-> e[2],
     zero |-> z, base |-> 2]
MCCalls == {XargsCall(l, n, s, r, e, z) : l \in Inputs, n \in {0, 2}, s \in {0, 7}, r \in BOOLEAN, e \in Ends, z \in BOOLEAN}
       \union {[tool |-> "timeout", sig |-> g, ignores |-> i] : g \in {"TERM", "INT", "KILL"}, i \in BOOLEAN}
MCInit == RunInit(MCCalls)
=============================================================================
