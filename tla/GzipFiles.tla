------------------------------ MODULE GzipFiles ------------------------------
(***************************************************************************)
(* gzip and gunzip on files: src/pkg/applets/gzip/gzip.go and                 *)
(* src/pkg/applets/gunzip/gunzip.go.  A process works through the files it is    *)
(* given, one system call a step; a copy or a removal may fail, and the process   *)
(* may be killed between two steps.  Two processes may share the files.          *)
(*                                                                         *)
(* A path is a name and its suffixes.  It leads to an inode, so that a process    *)
(* goes on with the file it opened when another removes or replaces the name.   *)
(* The content is "plain" or "gz" with a payload, "cut" when it has a good header *)
(* but ends early, "partial" when it was not written to its end, or "dir".       *)
(***************************************************************************)
EXTENDS Integers, SequencesExt, FiniteSets

CONSTANT MaxFaults                 \* failed copies and removals, and killed processes

VARIABLE gz

Content(kind, payload) == [kind |-> kind, payload |-> payload]
Partial == Content("partial", "")
Exists(path) == path \in DOMAIN gz.fs
At(path) == gz.data[gz.fs[path]]
Gzipping(c) == c.tool = "gzip"
\* The name of the result; <<>> when gunzip does not know the suffix.
OutPath(c, path) ==
    IF Gzipping(c) THEN Append(path, ".gz")
    ELSE CASE Last(path) \in {".gz", ".Z"} -> Front(path)
           [] Last(path) = ".tgz" -> Append(Front(path), ".tar")
           [] OTHER -> IF c.stdout \/ c.force THEN Append(path, ".out") ELSE <<>>
Convert(c, content) == Content(IF Gzipping(c) THEN "gz" ELSE "plain", content.payload)
\* The copy comes to its end only when the input does.
Copies(c, content) == IF Gzipping(c) THEN content.kind # "dir" ELSE content.kind = "gz"
HeaderRead(content) == content.kind \in {"gz", "cut"}

-----------------------------------------------------------------------------
(* A process: its call, the file it is at, what it has open, and its status.   *)

Proc(call) == [call |-> call, i |-> 1, pc |-> "next", in |-> 0, out |-> 0, rc |-> 0, done |-> <<>>]
GzInit(calls) ==
    \E c \in calls :
       LET paths == DOMAIN c.tree
           number == CHOOSE f \in [paths -> 1..Cardinality(paths)] : \A p, q \in paths : p # q => f[p] # f[q]
       IN gz = [procs |-> [k \in DOMAIN c.procs |-> Proc(c.procs[k])], fs |-> number, faults |-> 0, tree |-> c.tree,
                data |-> [n \in 1..Cardinality(paths) |-> c.tree[CHOOSE p \in paths : number[p] = n]]]

P(k) == gz.procs[k]
Path(k) == P(k).call.files[P(k).i]
Working(k, pc) == P(k).pc = pc /\ (pc = "next" => P(k).i <= Len(P(k).call.files))
Now(k, p) == [gz.procs EXCEPT ![k] = p]
\* On to the next file, with exit status 1 when this one failed.
NextFile(p, ok) == [p EXCEPT !.pc = "next", !.i = @ + 1, !.in = 0, !.out = 0, !.rc = IF ok THEN @ ELSE 1, !.done = Append(@, ok)]
Fail(k) == gz' = [gz EXCEPT !.procs = Now(k, NextFile(P(k), FALSE))]
Goto(k, pc) == gz' = [gz EXCEPT !.procs = Now(k, [P(k) EXCEPT !.pc = pc])]
MayFault == gz.faults < MaxFaults

\* gzip -d: with any other argument it sends the user to gunzip, and touches nothing.
Decompress(k) ==
    /\ Working(k, "next") /\ P(k).call.tool = "gzip -d"
    /\ gz' = [gz EXCEPT !.procs = Now(k, [P(k) EXCEPT !.i = Len(P(k).call.files) + 1, !.rc = 1])]
\* gunzip: the file must be there, a regular one, with a suffix it knows.
StatFile(k) ==
    /\ Working(k, "next") /\ P(k).call.tool = "gunzip"
    /\ IF Exists(Path(k)) /\ (Exists(Path(k)) => At(Path(k)).kind # "dir") /\ OutPath(P(k).call, Path(k)) # <<>>
       THEN Goto(k, IF P(k).call.stdout THEN "open" ELSE "look") ELSE Fail(k)
LookAllows(c, out) == ~Exists(out) \/ c.force
\* gunzip: the output must not be there, unless -f.
LookOut(k) ==
    /\ Working(k, "look")
    /\ IF LookAllows(P(k).call, OutPath(P(k).call, Path(k))) THEN Goto(k, "open") ELSE Fail(k)
OpenIn(k) ==
    /\ Working(k, "open") \/ (Working(k, "next") /\ Gzipping(P(k).call))
    /\ IF Exists(Path(k)) THEN gz' = [gz EXCEPT !.procs = Now(k, [P(k) EXCEPT !.in = gz.fs[Path(k)], !.pc = "header"])] ELSE Fail(k)
ReadHeader(k) ==
    /\ Working(k, "header")
    /\ IF Gzipping(P(k).call) \/ HeaderRead(gz.data[P(k).in]) THEN Goto(k, IF P(k).call.stdout THEN "copy" ELSE "create") ELSE Fail(k)
\* O_CREATE and O_TRUNC: an old file keeps its inode and loses its content.
OpenOut(k) ==
    LET out == OutPath(P(k).call, Path(k))
        n == IF Exists(out) THEN gz.fs[out] ELSE Len(gz.data) + 1
    IN /\ Working(k, "create")
       /\ IF Exists(out) /\ (Exists(out) => At(out).kind = "dir") THEN Fail(k)
          ELSE gz' = [gz EXCEPT !.fs = [p \in DOMAIN @ \union {out} |-> IF p = out THEN n ELSE @[p]],
                                !.data = IF n > Len(@) THEN Append(@, Partial) ELSE [@ EXCEPT ![n] = Partial],
                                !.procs = Now(k, [P(k) EXCEPT !.out = n, !.pc = "copy"])]
\* Mutated: the file is removed whatever became of the copy.
AfterAnyCopy(p, ok) == IF p.call.keep \/ p.call.stdout THEN NextFile(p, ok) ELSE [p EXCEPT !.pc = "remove"]
\* A failed copy is the end of the file; its part of an output stays behind.
AfterCopy(p, ok) == IF ~ok \/ p.call.keep \/ p.call.stdout THEN NextFile(p, ok) ELSE [p EXCEPT !.pc = "remove"]
Copy(k) ==
    /\ Working(k, "copy")
    /\ \E ok \in {Copies(P(k).call, gz.data[P(k).in])} \union (IF MayFault THEN {FALSE} ELSE {}) :
          gz' = [gz EXCEPT !.data = IF ok /\ P(k).out # 0 THEN [@ EXCEPT ![P(k).out] = Convert(P(k).call, gz.data[P(k).in])] ELSE @,
                           !.faults = IF ok = Copies(P(k).call, gz.data[P(k).in]) THEN @ ELSE @ + 1,
                           !.procs = Now(k, AfterCopy(P(k), ok))]
RemoveIn(k) ==
    /\ Working(k, "remove")
    /\ \/ gz' = [gz EXCEPT !.fs = [p \in DOMAIN @ \ {Path(k)} |-> @[p]], !.procs = Now(k, NextFile(P(k), Exists(Path(k))))]
       \/ MayFault /\ gz' = [gz EXCEPT !.faults = @ + 1, !.procs = Now(k, NextFile(P(k), FALSE))]
Killed(k) ==
    /\ MayFault /\ P(k).pc # "killed" /\ P(k).i <= Len(P(k).call.files)
    /\ gz' = [gz EXCEPT !.faults = @ + 1, !.procs = Now(k, [P(k) EXCEPT !.pc = "killed"])]
GzStep(k) == Decompress(k) \/ StatFile(k) \/ LookOut(k) \/ OpenIn(k) \/ ReadHeader(k) \/ OpenOut(k) \/ Copy(k) \/ RemoveIn(k) \/ Killed(k)
GzNext == \E k \in DOMAIN gz.procs : GzStep(k)

-----------------------------------------------------------------------------
(* Properties.                                                                *)

Alone == Len(gz.procs) = 1
Over == \A k \in DOMAIN gz.procs : P(k).pc = "killed" \/ P(k).i > Len(P(k).call.files)
Outputs(c) == IF c.stdout \/ c.tool = "gzip -d" THEN {} ELSE {OutPath(c, f) : f \in ToSet(c.files)}
\* An output of some file, which the call says may be replaced.
IsOutput(path) == \E k \in DOMAIN gz.procs : path \in Outputs(P(k).call)
\* gunzip -f of two files with one output, as b.gz and b.Z: the second replaces what is
\* left of the first, as it was told.
Clash(c) == c.tool = "gunzip" /\ c.force /\ ~c.stdout
            /\ \E f, h \in ToSet(c.files) : f # h /\ OutPath(c, f) = OutPath(c, h)
NoClash == \A k \in DOMAIN gz.procs : ~Clash(P(k).call)
Whole(content) == content.kind \in {"plain", "gz"}
Held(payload) == \E p \in DOMAIN gz.fs : Whole(At(p)) /\ At(p).payload = payload
\* No call is given what another makes of it, or makes the same of something else.
Undisturbed(path) ==
    \A j, k \in DOMAIN gz.procs : path \in ToSet(P(j).call.files) =>
        LET out == OutPath(P(j).call, path)
        IN \A h \in ToSet(P(k).call.files) : h # out /\ (OutPath(P(k).call, h) = out => h = path)
\* What an input holds is never lost: whatever fails and wherever the process is killed, it
\* is whole in the input or in an output.  Processes on the same files may all have nothing
\* but their open files for a while; without failures it is whole again at the end.
InputOrOutput ==
    \A k \in DOMAIN gz.procs : \A path \in ToSet(P(k).call.files) \intersect DOMAIN gz.tree :
        (/\ IF Alone THEN NoClash ELSE Over /\ gz.faults = 0 /\ Undisturbed(path)
         /\ Whole(gz.tree[path]) /\ ~IsOutput(path)) => Held(gz.tree[path].payload)
\* Exit status 0 says that every file was converted: the output is whole, unless it was
\* itself an input, and the input is gone unless it was to be kept.
StatusTrue ==
    (NoClash /\ Alone /\ Over /\ P(1).pc # "killed" /\ P(1).rc = 0) =>
        \A path \in ToSet(P(1).call.files) :
            LET c == P(1).call
                out == OutPath(c, path)
            IN ~IsOutput(path) =>
                 /\ path \in DOMAIN gz.tree
                 /\ (~c.stdout /\ out \notin ToSet(c.files)) => (Exists(out) /\ At(out) = Convert(c, gz.tree[path]))
                 /\ Exists(path) <=> (c.keep \/ c.stdout)
\* gunzip without -f leaves the files alone that were there before it and that it was not
\* given; gzip, which looks at nothing, is left out.
OthersKept ==
    (\A k \in DOMAIN gz.procs : P(k).call.tool = "gunzip" /\ ~P(k).call.force) =>
        \A p \in DOMAIN gz.tree :
            (\A k \in DOMAIN gz.procs : p \notin ToSet(P(k).call.files)) => (Exists(p) /\ At(p) = gz.tree[p])

\* gzip and gunzip lose no data, whatever fails, and tell the truth.
GzipRight == InputOrOutput /\ StatusTrue /\ OthersKept
=============================================================================
