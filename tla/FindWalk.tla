------------------------------ MODULE FindWalk ------------------------------
(***************************************************************************)
(* find, src/pkg/applets/find/find.go: the walk over a tree, its tests and      *)
(* actions, one system call a step, while another process removes files.        *)
(*                                                                         *)
(* A path is a sequence of names, a name a sequence of characters; fs is a        *)
(* function from the paths that exist to their kind and, for a link, where it      *)
(* leads.  The frames of walkRecursive are a stack of directories, each with the    *)
(* entries that are still to be visited.                                       *)
(***************************************************************************)
EXTENDS Integers, SequencesExt, FiniteSets

CONSTANTS
    MaxRemoved,         \* bound: files another process removes
    Longest             \* bound: names in a path that the properties speak of
ASSUME LongestAssumption == Longest \in Nat

VARIABLE find

From(s, i) == SubSeq(s, i, Len(s))
\* Ends: what of s the first i characters of the pattern may have taken.
Glob(p, s) ==
    LET ends[i \in 0..Len(p)] ==
          IF i = 0 THEN {0}
          ELSE IF p[i] = "*" THEN {k \in 0..Len(s) : \E j \in ends[i - 1] : j <= k}
          ELSE {k \in 1..Len(s) : k - 1 \in ends[i - 1] /\ p[i] \in {s[k], "?"}}
    IN Len(s) \in ends[Len(p)]

-----------------------------------------------------------------------------
(* Files.                                                                     *)

NoFile == [kind |-> "none", to |-> <<>>]
Lstat(fs, p) == IF p \in DOMAIN fs THEN fs[p] ELSE NoFile
Target(fs, p) == IF Lstat(fs, p).kind = "link" THEN fs[p].to ELSE p
\* Where a path leads when the links to directories on its way are followed.
Physical(fs, p) ==
    LET at[n \in 1..Len(p)] == IF n = 1 THEN <<p[1]>> ELSE Append(Target(fs, at[n - 1]), p[n])
    IN at[Len(p)]
Info(fs, p, follow) ==
    LET q == Physical(fs, p)
    IN IF follow THEN Lstat(fs, Target(fs, q)) ELSE Lstat(fs, q)
Entries(fs, p) ==
    LET dir == Target(fs, Physical(fs, p))
    IN SetToSeq({Last(q) : q \in {x \in DOMAIN fs : Len(x) = Len(dir) + 1 /\ Front(x) = dir}})
Readable(fs, p) == Lstat(fs, Target(fs, Physical(fs, p))).kind = "dir"
Removable(fs, p) == Physical(fs, p) \in DOMAIN fs /\ \A q \in DOMAIN fs : ~(Len(q) > 1 /\ Front(q) = Physical(fs, p))
Without(fs, p) == [q \in DOMAIN fs \ {Physical(fs, p)} |-> fs[q]]

-----------------------------------------------------------------------------
(* Tests: -name, -type; -mindepth, -maxdepth and -prune are in the walk.       *)

\* matchPattern also takes a match of any end of the name.
MatchPattern(p, name) == \E i \in 1..Len(name) + 1 : (i = 1 \/ i <= Len(name)) /\ Glob(p, From(name, i))
\* -name (none when empty) and -type ("" when not given).
MatchTests(c, path, info) ==
    /\ c.name = <<>> \/ MatchPattern(c.name, Last(path))
    /\ c.type = "" \/ (c.type = "f" /\ info.kind = "file") \/ (c.type = "d" /\ info.kind = "dir") \/ (c.type = "l" /\ info.kind = "link")

-----------------------------------------------------------------------------
(* The walk.                                                                  *)

Frame(path, todo) == [path |-> path, todo |-> todo]
FindInit(calls) ==
    \E c \in calls : find = [call |-> c, fs |-> c.fs, roots |-> c.roots, stack |-> <<>>, at |-> <<>>, info |-> NoFile,
                             pc |-> "root", out |-> <<>>, deleted |-> {}, gone |-> {}, rc |-> 0]
Asked == find.call
Depth == Len(find.stack)
Top == find.stack[Len(find.stack)]
\* Mutated: an entry that cannot be looked at ends the walk of its directory.
SkipRest(s) == [s EXCEPT !.stack = Append(Front(@), Frame(Last(@).path, <<>>))]
SkipEntry(s) == [s EXCEPT !.stack = Append(Front(@), Frame(Last(@).path, Tail(Last(@).todo)))]
\* An error ends the walk of the root it is under.
Abort(s) == [s EXCEPT !.stack = <<>>, !.roots = Tail(@), !.pc = "root", !.rc = 1]
\* walkPath: a root is always followed.
StartRoot ==
    /\ find.pc = "root" /\ find.roots # <<>>
    /\ LET info == Info(find.fs, Head(find.roots), TRUE)
       IN find' = IF info.kind = "none" THEN Abort(find) ELSE [find EXCEPT !.at = Head(find.roots), !.info = info, !.pc = "visit"]
NextEntry ==
    /\ find.pc = "entry" /\ Top.todo # <<>>
    /\ LET path == Append(Top.path, Head(Top.todo))
           info == Info(find.fs, path, Asked.follow)
           rest == [find EXCEPT !.stack = Append(Front(@), Frame(Top.path, Tail(Top.todo)))]
       IN find' = IF info.kind = "none" THEN SkipEntry(find) ELSE [rest EXCEPT !.at = path, !.info = info, !.pc = "visit"]
LeaveDir ==
    /\ find.pc = "entry" /\ Top.todo = <<>>
    /\ find' = IF Depth = 1 THEN [find EXCEPT !.stack = <<>>, !.roots = Tail(@), !.pc = "root"] ELSE [find EXCEPT !.stack = Front(@)]
GoBack(s) == IF Depth = 0 THEN [s EXCEPT !.roots = Tail(@), !.pc = "root"] ELSE [s EXCEPT !.pc = "entry"]
Enters(c, info, matched, depth) == info.kind = "dir" /\ (c.maxDepth < 0 \/ depth < c.maxDepth) /\ ~(matched /\ c.prune)
WithPrint(s) == IF Asked.print THEN [s EXCEPT !.out = Append(@, s.at)] ELSE s
\* The actions: -print comes before -delete in the calls of the model.
ApplyActions(s) ==
    IF ~Asked.delete THEN WithPrint(s)
    ELSE [WithPrint(s) EXCEPT !.fs = Without(@, s.at), !.deleted = @ \union {s.at}]
\* The actions, then what is below.
Visit ==
    LET matched == MatchTests(Asked, find.at, find.info)
        acts == matched /\ Depth >= Asked.minDepth
        after == IF acts THEN ApplyActions(find) ELSE find
    IN /\ find.pc = "visit"
       /\ find' = IF acts /\ Asked.delete /\ ~Removable(find.fs, find.at) THEN Abort(WithPrint(find))
                  ELSE IF Enters(Asked, find.info, matched, Depth) THEN [after EXCEPT !.pc = "read"]
                  ELSE GoBack(after)
ReadDir ==
    /\ find.pc = "read"
    /\ find' = IF Readable(find.fs, find.at) THEN [find EXCEPT !.stack = Append(@, Frame(find.at, Entries(find.fs, find.at))), !.pc = "entry"]
               ELSE Abort(find)
\* Another process removes a file, a link or an empty directory.
Vanish ==
    /\ Cardinality(find.gone) < MaxRemoved /\ find.roots # <<>>
    /\ \E p \in DOMAIN find.fs : Removable(find.fs, p) /\ find' = [find EXCEPT !.fs = Without(@, p), !.gone = @ \union {p}]
FindNext == StartRoot \/ NextEntry \/ LeaveDir \/ Visit \/ ReadDir \/ Vanish

-----------------------------------------------------------------------------
(* The reference: the paths under a root that pass the tests.                  *)

InfoAt(p) == Info(Asked.fs, p, Len(p) = 1 \/ Asked.follow)
IsDir(p) == InfoAt(p).kind = "dir"
IsThere(p) == InfoAt(p).kind # "none"
Names == {Last(q) : q \in DOMAIN Asked.fs}
Upper(p, n) == SubSeq(p, 1, n)
\* A path that a walk with nothing to stop it comes to.
Reached(p) ==
    /\ \E i \in DOMAIN Asked.roots : Upper(p, 1) = Asked.roots[i]
    /\ \A n \in 1..Len(p) - 1 : IsDir(Upper(p, n))
    /\ IsThere(p)
NameFits(p) == Asked.name = <<>> \/ Glob(Asked.name, Last(p))
Passes(p) == NameFits(p) /\ MatchTests([Asked EXCEPT !.name = <<>>], p, InfoAt(p))
Pruned(p) == Asked.prune /\ \E n \in 1..Len(p) - 1 : Passes(Upper(p, n))
DepthFits(p) == Len(p) - 1 >= Asked.minDepth /\ (Asked.maxDepth < 0 \/ Len(p) - 1 <= Asked.maxDepth)
IsWanted(p) == Reached(p) /\ Passes(p) /\ DepthFits(p) /\ ~Pruned(p)
\* The paths of n names that are reached.
Level ==
    LET level[n \in 1..Longest] ==
          IF n = 1 THEN {p \in ToSet(Asked.roots) : IsThere(p)}
          ELSE {p \in {Append(q, x) : q \in {d \in level[n - 1] : IsDir(d)}, x \in Names} : IsThere(p)}
    IN level
Wanted == {p \in UNION {Level[n] : n \in 1..Longest} : IsWanted(p)}

\* -name is to match the whole name: a name with an end that fits is left out.
PlainNames == \A q \in DOMAIN Asked.fs : MatchPattern(Asked.name, Last(q)) => Asked.name = <<>> \/ Glob(Asked.name, Last(q))
Gone(p) == \E n \in 1..Len(p) : LET q == Physical(Asked.fs, Upper(p, n)) IN {q, Target(Asked.fs, q)} \intersect find.gone # {}
WalkOver == find.roots = <<>>
Times(p) == Cardinality({i \in DOMAIN find.out : find.out[i] = p})
\* With -L, or below a root that is a link, -delete may take a file from another path
\* that is still to be visited.
PlainDelete == Asked.delete => ~Asked.follow /\ \A i \in DOMAIN Asked.roots : Lstat(Asked.fs, Asked.roots[i]).kind # "link"
RootsOnce == \A i, j \in DOMAIN Asked.roots : Asked.roots[i] = Asked.roots[j] => i = j

\* Exit status 0 says that the walk was whole: what passes the tests and was there all the
\* time is printed, once, whatever vanished beside it.
WalkWhole ==
    (WalkOver /\ find.rc = 0 /\ PlainNames /\ PlainDelete /\ Asked.print /\ RootsOnce) =>
        \A p \in Wanted : Gone(p) \/ Times(p) = 1
\* Nothing else is printed, even when the walk ends early, and a directory before what is in it.
OnlyWanted ==
    (PlainNames /\ RootsOnce) =>
        /\ \A i \in DOMAIN find.out : IsWanted(find.out[i])
        /\ \A i, j \in DOMAIN find.out : IsStrictPrefix(find.out[j], find.out[i]) => j < i
\* -delete removes only what passes the tests, and all of it when the exit status is 0.
DeletesWanted ==
    (PlainNames /\ PlainDelete /\ RootsOnce /\ Asked.delete) =>
        /\ \A p \in find.deleted : IsWanted(p)
        /\ (WalkOver /\ find.rc = 0) => \A p \in Wanted : Gone(p) \/ p \in find.deleted

\* The walk of find, whatever vanishes under it.  (walkRecursive, applyActions)
FindRight == WalkWhole /\ OnlyWanted /\ DeletesWanted
=============================================================================
