------------------------------- MODULE ToolsMC -------------------------------
(***************************************************************************)
(* The other applets, one at a time: a behaviour is one of the tool that is       *)
(* chosen at the beginning; the variables of the others stay as they are.        *)
(***************************************************************************)
EXTENDS GzipMC, Runners, SedEngine, FindWalk, FileTools
    \* their variables are gz, run, find, and those of sed and files

VARIABLES
    part,                                                       \* the tool that is looked at
    st                                                          \* of a tool with one variable

Files == INSTANCE FilesMC
Sed   == INSTANCE SedMC
Filter == INSTANCE TextMC WITH text <- st
Grep  == INSTANCE GrepMC WITH grep <- st
Diff  == INSTANCE DiffMC WITH diff <- st
Find  == INSTANCE FindMC
Run   == INSTANCE RunMC

\* The names a and b, the directory d, and e, where another file system is mounted.
MCPaths == LET names == {<<"a">>, <<"b">>}
               dirs == {<<"b">>, <<"d">>, <<"e">>, <<"e", "b">>, <<"e", "d">>}
           IN names \union dirs \union {p \o q : p \in dirs, q \in names} \union {<<"a", "b">>}
MCMounted == {<<"e">>}
MCNames == <<"a", "b", "d", "e">>
MCCodes == {0, 3}

Idle == [tool |-> "idle"]
GzipIdle == gz = [procs |-> <<>>, fs |-> <<>>, faults |-> 0, tree |-> <<>>, data |-> <<>>]
RunIdle == run = [call |-> Idle]
FilesIdle == FilesInit({Files!Call("mkdir", {}, <<>>, <<>>)}, {[node |-> [p \in Paths |-> NoNode], inode |-> <<>>]})
FindIdle == find = [call |-> Find!FindCall(<<>>, <<>>, <<>>, "", 0, 0, FALSE, FALSE, FALSE, FALSE), fs |-> <<>>, roots |-> <<>>,
                    stack |-> <<>>, at |-> <<>>, info |-> NoFile, pc |-> "root", out |-> <<>>, deleted |-> {}, gone |-> {}, rc |-> 0]
SedIdle == SedInit({<<>>}, {<<>>}) /\ ~quiet /\ noNL = {}
Init ==
    /\ part \in {"files", "sed", "text", "grep", "diff", "find", "run", "gzip"}
    /\ IF part = "files" THEN Files!MCInit ELSE FilesIdle
    /\ IF part = "sed" THEN Sed!MCInit ELSE SedIdle
    /\ IF part = "gzip" THEN MCInit ELSE GzipIdle
    /\ IF part = "run" THEN Run!MCInit ELSE RunIdle
    /\ IF part = "find" THEN Find!MCInit ELSE FindIdle
    /\ CASE part = "text" -> Filter!MCInit
         [] part = "grep" -> Grep!MCInit
         [] part = "diff" -> Diff!MCInit
         [] OTHER -> st = Idle
Next ==
    \/ part = "files" /\ FilesNext /\ UNCHANGED <<part, sed, st, gz, run, find>>
    \/ part = "sed" /\ SedNext /\ UNCHANGED <<part, files, st, gz, run, find>>
    \/ part = "text" /\ Filter!TextNext /\ UNCHANGED <<part, files, sed, gz, run, find>>
    \/ part = "grep" /\ Grep!GrepNext /\ UNCHANGED <<part, files, sed, gz, run, find>>
    \/ part = "diff" /\ Diff!DiffNext /\ UNCHANGED <<part, files, sed, gz, run, find>>
    \/ part = "find" /\ FindNext /\ UNCHANGED <<part, files, sed, st, gz, run>>
    \/ part = "run" /\ RunNext /\ UNCHANGED <<part, files, sed, st, gz, find>>
    \/ part = "gzip" /\ GzNext /\ UNCHANGED <<part, files, sed, st, run, find>>

\* What the text filters make of theirs.  (TextFilters)
FiltersRight == part = "text" => Filter!FiltersRight
\* grep finds, prints and tells all that there is.  (GrepSearch)
GrepRight == part = "grep" => Grep!GrepRight
\* diff's script, hunks, headers and status.  (DiffLines)
DiffRight == part = "diff" => Diff!DiffRight
=============================================================================
