------------------------------- MODULE GzipMC -------------------------------
EXTENDS GzipFiles, TLC

A == <<"a">>
AGz == <<"a", ".gz">>
AZ == <<"a", ".Z">>
BTgz == <<"b", ".tgz">>
BTar == <<"b", ".tar">>
Contents == {Content("plain", "x"), Content("gz", "x"), Content("cut", "x"), Content("dir", "")}
Old == Content("plain", "old")
Trees == {A :> Content("plain", "x") @@ BTgz :> Content("gz", "y")}
  \union {A :> c : c \in Contents} \union {AGz :> c : c \in Contents}
  \union {A :> Content("plain", "x") @@ AGz :> Old, AGz :> Content("gz", "x") @@ A :> Old, AGz :> Content("gz", "x") @@ A :> Content("dir", ""),
          BTgz :> Content("gz", "y") @@ BTar :> Old, BTgz :> Content("gz", "y") @@ AGz :> Content("cut", "x"),
          AGz :> Content("gz", "x") @@ AZ :> Content("gz", "y")}
FileLists == {<<A>>, <<AGz>>, <<BTgz>>, <<A, BTgz>>, <<BTgz, AGz>>, <<AGz, A>>, <<A, AGz>>, <<A, A>>, <<AGz, AZ>>}
GzCall(tool, files, keep, force, stdout) == [tool |-> tool, files |-> files, keep |-> keep, force |-> force, stdout |-> stdout]
GzCalls == {GzCall(t, f, k, o, s) : t \in {"gzip", "gunzip"}, f \in FileLists, k \in BOOLEAN, o \in BOOLEAN, s \in BOOLEAN}
       \union {GzCall("gzip -d", f, FALSE, FALSE, FALSE) : f \in FileLists}
Plain(tool, f, k) == GzCall(tool, f, k, FALSE, FALSE)
Rivals ==   \* on the same files, in another order, and of two kinds
    {<<Plain(tool, f, j), Plain(tool, f, k)>> : tool \in {"gzip", "gunzip"}, f \in {<<A>>, <<AGz>>, <<BTgz>>}, j \in BOOLEAN, k \in BOOLEAN}
  \union {<<Plain(tool, <<A, BTgz>>, FALSE), Plain(tool, <<BTgz, A>>, FALSE)>> : tool \in {"gzip", "gunzip"}}
  \union {<<Plain("gunzip", f, FALSE), Plain(tool, <<AGz>>, FALSE)>> : f \in {<<AGz, BTgz>>, <<AZ>>}, tool \in {"gzip", "gunzip"}}
  \union {<<Plain("gzip", <<A>>, FALSE), Plain("gzip", <<A>>, FALSE), Plain("gzip", <<A>>, TRUE)>>}
MCCalls == {[tree |-> t, procs |-> <<c>>] : t \in Trees, c \in GzCalls} \union {[tree |-> t, procs |-> c] : t \in Trees, c \in Rivals}
MCInit == GzInit(MCCalls)
=============================================================================
