------------------------------- MODULE FindMC -------------------------------
EXTENDS FindWalk, TLC

R == <<"r">>
File == [kind |-> "file", to |-> <<>>]
Dir == [kind |-> "dir", to |-> <<>>]
Link(p) == [kind |-> "link", to |-> p]
D == <<"d">>
Fa == <<"a">>
Fab == <<"a", "b">>
Tree1 == <<R>> :> Dir @@ <<R, D>> :> Dir @@ <<R, D, Fa>> :> File @@ <<R, Fa>> :> File @@ <<R, Fab>> :> Dir
Tree2 == <<R>> :> Dir @@ <<R, D>> :> Dir @@ <<R, D, D>> :> Dir @@ <<R, D, D, Fa>> :> File @@ <<R, Fab>> :> Link(<<R, D>>) @@ <<R, Fa>> :> Link(<<R, D, D, Fa>>)
Tree3 == <<R>> :> File
FindCall(t, roots, name, type, lo, hi, prune, print, delete, follow) ==
    [fs |-> t, roots |-> roots, name |-> name, type |-> type, minDepth |-> lo, maxDepth |-> hi, prune |-> prune, print |-> print,
     delete |-> delete, follow |-> follow]
L == <<"l">>
\* A second operand that is a link to the first, and a link that leads back up.
Tree4 == <<R>> :> Dir @@ <<R, D>> :> Dir @@ <<R, D, Fa>> :> Link(<<R>>) @@ <<R, Fa>> :> File @@ <<L>> :> Link(<<R>>)
MCCalls ==
    {FindCall(t, << <<R>> >>, n, y, lo, hi, p, TRUE, d, f) :
        t \in {Tree1, Tree2, Tree3}, n \in {<<>>, Fa, D, <<"a", "*">>, <<"b">>}, y \in {"", "f", "d", "l"}, lo \in {0, 2}, hi \in {-1, 0, 1},
        p \in BOOLEAN, d \in BOOLEAN, f \in BOOLEAN}
    \union {FindCall(Tree4, r, n, "", 0, 2, p, TRUE, d, f) :
        r \in {<< <<R>>, <<L>> >>, << <<L>>, <<R>> >>, << <<L>>, <<L>> >>}, n \in {<<>>, Fa}, p \in BOOLEAN, d \in BOOLEAN, f \in BOOLEAN}
    \union {FindCall(Tree1, << <<Fa>>, <<R>> >>, <<>>, "", 0, -1, FALSE, TRUE, FALSE, FALSE)}
MCInit == FindInit(MCCalls)
=============================================================================
