------------------------------ MODULE FileTools ------------------------------
(***************************************************************************)
(* cp, mv, rm, mkdir, rmdir and touch in src/pkg/applets and the helpers    *)
(* they share (pkg/core/fs, pkg/core/fileutil), on a small file system.     *)
(*                                                                         *)
(* A tool is a list of work: each step is one call that changes the file    *)
(* system, or looks at it and puts more work in front.  An error drops what *)
(* is left of the operand it happened in.  The tool may die before any      *)
(* step, so what an invariant says holds after a crash too.                 *)
(***************************************************************************)
EXTENDS Naturals, Sequences, FiniteSets

CONSTANTS
    Paths,      \* sequences of names, closed under what the tools may make
    Mounted,    \* paths that are on a device of their own
    NameOrder   \* the names in the order of ReadDir

VARIABLES
    call,       \* the tool that runs
    node,       \* the inode of each path, 0 if there is none
    inode,      \* [kind, data, to] of each inode
    todo,       \* the work that is left
    hardLinks,  \* opts.hardLinks of cp: the inodes it has met, and the copy of each
    status,     \* exit status
    trouble,    \* bound: a write has failed, no other will
    before      \* history: node and inode at the beginning

files == <<call, node, inode, todo, hardLinks, status, trouble, before>>

NoNode == 0
Ids  == DOMAIN inode
Dir(p)  == SubSeq(p, 1, Len(p) - 1)
Base(p) == p[Len(p)]
Under(p, q) == Len(q) <= Len(p) /\ SubSeq(p, 1, Len(q)) = q  \* p is q or in q
Moved(p, q, r) == r \o SubSeq(p, Len(q) + 1, Len(p))             \* p in q, now in r

Current == [node |-> node, inode |-> inode]
NodeIn(t, p) == IF p \in Paths THEN t.node[p] ELSE NoNode
KindIn(t, p) == IF NodeIn(t, p) # NoNode THEN t.inode[t.node[p]].kind ELSE "none"
Kind(p) == KindIn(Current, p)
Children(p) == {q \in Paths : Len(q) = Len(p) + 1 /\ Under(q, p) /\ node[q] # NoNode}
HasParent(p) == Len(p) = 1 \/ Kind(Dir(p)) = "dir"
Opt(o) == o \in call.opts

\* Where a path leads: a symbolic link is followed once, there are no chains.
FinalIn(t, p) == IF KindIn(t, p) = "link" THEN t.inode[t.node[p]].to ELSE p
Final(p) == FinalIn(Current, p)
Present(p) == Kind(Final(p)) # "none"

\* The entries of a directory in the order of ReadDir.
Rank(n) == CHOOSE k \in 1..Len(NameOrder) : NameOrder[k] = n
Listed(p) == LET c == Children(p) IN
    [k \in 1..Cardinality(c) |->
        CHOOSE q \in c : Cardinality({r \in c : Rank(Base(r)) < Rank(Base(q))}) = k - 1]

Work(op, src, dst, n) == [op |-> op, src |-> src, dst |-> dst, operand |-> n]
Each(op, src, dst, n) ==    \* the same for what is in src
    [k \in 1..Len(Listed(src)) |-> Work(op, Listed(src)[k], Moved(Listed(src)[k], src, dst), n)]

\* ResolveDest and TargetPath.
DestIsDir == Kind(Final(call.dest)) = "dir"
TargetOf(p) == IF DestIsDir THEN Append(call.dest, Base(p)) ELSE call.dest

FirstOp(tool) == CASE tool = "cp" -> "copy" [] tool = "mv" -> "move" [] tool = "rm" -> "remove"
                   [] OTHER -> tool

FilesInit(calls, trees) ==
    /\ call \in calls
    /\ \E t \in trees : node = t.node /\ inode = t.inode
    /\ before = Current
    /\ hardLinks = [i \in {} |-> <<>>] /\ trouble = FALSE
    /\ LET two == call.tool \in {"cp", "mv"}
           usage == two /\ Len(call.operands) > 1 /\ ~DestIsDir IN
       /\ status = IF usage THEN 2 ELSE 0
       /\ todo = IF usage THEN <<>>
                 ELSE [k \in 1..Len(call.operands) |-> LET p == call.operands[k] IN
                         Work(FirstOp(call.tool), p, IF two THEN TargetOf(p) ELSE p, k)]

-----------------------------------------------------------------------------
(* Steps.                                                                   *)

Doing(op) == todo # <<>> /\ todo[1].op = op
Src == todo[1].src
Dst == todo[1].dst
Operand == todo[1].operand
Then(work) == todo' = work \o Tail(todo)
Proceed == Then(<<>>)
Next2(op1, op2) == Then(<<Work(op1, Src, Dst, Operand), Work(op2, Src, Dst, Operand)>>)

\* The work of an operand is in front of that of the next; rm -f keeps quiet about
\* every error.
GiveUp ==
    /\ \E n \in 1..Len(todo) + 1 :
          /\ \A k \in 1..n - 1 : todo[k].operand = Operand
          /\ n <= Len(todo) => todo[n].operand # Operand
          /\ todo' = SubSeq(todo, n, Len(todo))
    /\ status' = IF call.tool = "rm" /\ Opt("f") THEN status ELSE 1
Failed == GiveUp /\ UNCHANGED <<call, node, inode, hardLinks, trouble, before>>
Looked == UNCHANGED <<call, node, inode, hardLinks, status, trouble, before>>
Did == UNCHANGED <<call, hardLinks, status, trouble, before>>

Fresh == CHOOSE i \in Ids : inode[i].kind = "free" /\ \A j \in Ids : inode[j].kind = "free" => i <= j
Make(p, new) == node' = [node EXCEPT ![p] = Fresh] /\ inode' = [inode EXCEPT ![Fresh] = new]
AFile(data) == [kind |-> "file", data |-> data, to |-> <<>>]
ADir == [kind |-> "dir", data |-> "", to |-> <<>>]
ALink(to) == [kind |-> "link", data |-> "", to |-> to]

\* os.Remove of a file or an empty directory.
CanRemove(p) == Kind(p) \in {"file", "link"} \/ (Kind(p) = "dir" /\ Children(p) = {})
NodeWithout(p) == [node EXCEPT ![p] = NoNode]

\* copyPath: -d, and -r without -L, do not follow links; -H follows an operand.
Recursive == Opt("r") \/ Opt("a")
Dereference == Opt("L")
NoDereference == (Opt("d") \/ Recursive) /\ ~Dereference

Follows == ~NoDereference \/ (Opt("H") /\ Src = call.operands[Operand])
Seen == IF Follows THEN Final(Src) ELSE Src

CopyMissing == Doing("copy") /\ Kind(Seen) = "none" /\ Failed
CopyOmitted == Doing("copy") /\ Kind(Seen) = "dir" /\ ~Recursive /\ Failed
CopyLink    == Doing("copy") /\ Kind(Seen) = "link" /\ Next2("unlink", "symlink") /\ Looked
CopyDir     == Doing("copy") /\ Kind(Seen) = "dir" /\ Recursive /\ Next2("mkdirall", "copylist") /\ Looked

Shared(p) == Cardinality({q \in Paths : node[q] = node[p]}) > 1

\* copyFile: the second name of a file becomes a link to the first copy.
Known == NoDereference /\ Shared(Seen) /\ node[Seen] \in DOMAIN hardLinks
CopyAsLink ==
    /\ Doing("copy") /\ Kind(Seen) = "file" /\ Known /\ Next2("unlink", "link") /\ Looked

\* What is there may have to stay.
Keeps == Present(Dst) /\ (Opt("n") \/ (Opt("i") /\ ~Opt("f")))
CopyFile ==
    /\ Doing("copy") /\ Kind(Seen) = "file" /\ ~Known
    /\ hardLinks' = IF NoDereference /\ Shared(Seen)
                    THEN [i \in DOMAIN hardLinks \union {node[Seen]} |->
                            IF i = node[Seen] THEN Dst ELSE hardLinks[i]]
                    ELSE hardLinks
    /\ IF Keeps THEN Proceed ELSE Next2("create", "write")
    /\ UNCHANGED <<call, node, inode, status, trouble, before>>

\* The entries as they are when the directory is read.
CopyList == Doing("copylist") /\ Then(Each("copy", Src, Dst, Operand)) /\ Looked

\* O_CREATE and O_TRUNC: through a link, the file it leads to.
Create ==
    /\ Doing("create")
    /\ LET p == Final(Dst) IN
       IF Kind(p) = "dir" \/ ~HasParent(p) THEN Failed
       ELSE /\ IF Kind(p) = "file" THEN inode' = [inode EXCEPT ![node[p]].data = ""] /\ UNCHANGED node
               ELSE Make(p, AFile(""))
            /\ Proceed /\ Did

Written(data) == inode' = [inode EXCEPT ![node[Final(Dst)]].data = data]
WriteData ==
    /\ Doing("write") /\ Written(inode[node[Final(Src)]].data) /\ Proceed /\ Did /\ UNCHANGED node

\* The disk is full.
WriteFails ==
    /\ Doing("write") /\ ~trouble /\ trouble' = TRUE
    /\ Written("part") /\ GiveUp /\ UNCHANGED <<call, node, hardLinks, before>>

\* MkdirAll makes what is missing on the way; a file there is an error.
MkdirAll ==
    /\ Doing("mkdirall")
    /\ LET missing == {q \in Paths : Under(Dst, q) /\ ~Present(q)} IN
       IF Dst \notin Paths \/ \E q \in Paths : Under(Dst, q) /\ Kind(Final(q)) \notin {"none", "dir"}
       THEN Failed
       ELSE /\ IF missing = {} THEN UNCHANGED <<node, inode>>
               ELSE Make(CHOOSE q \in missing : \A r \in missing : Len(q) <= Len(r), ADir)
            /\ (IF Cardinality(missing) > 1 THEN UNCHANGED todo ELSE Proceed) /\ Did

\* The Remove whose result nobody looks at.
Unlink ==
    /\ Doing("unlink")
    /\ node' = IF CanRemove(Dst) THEN NodeWithout(Dst) ELSE node
    /\ Proceed /\ Did /\ UNCHANGED inode

Symlink ==
    /\ Doing("symlink")
    /\ IF Kind(Dst) # "none" \/ ~HasParent(Dst) THEN Failed
       ELSE Make(Dst, ALink(inode[node[Src]].to)) /\ Proceed /\ Did

\* If the link cannot be made the file is copied after all.
Link ==
    /\ Doing("link")
    /\ LET first == hardLinks[node[Seen]] IN
       IF Kind(first) = "none" \/ Kind(Dst) # "none" \/ ~HasParent(Dst)
       THEN Next2("create", "write") /\ Looked
       ELSE node' = [node EXCEPT ![Dst] = node[first]] /\ Proceed /\ Did /\ UNCHANGED inode

-----------------------------------------------------------------------------
(* mv.                                                                      *)

Move ==
    /\ Doing("move") /\ ~Opt("copy")
    /\ IF ~Present(Src) THEN Failed
       ELSE /\ CASE Keeps -> Proceed
                 [] ~Keeps /\ Opt("f") /\ Present(Dst) -> Next2("unlink", "rename")
                 [] OTHER -> Then(<<Work("rename", Src, Dst, Operand)>>)
            /\ Looked

\* rename(2) and os.Rename, which takes no directory for a target; a directory takes the
\* place of nothing else either.  isCrossDevice looks for errors that EXDEV is not.
Device(p) == {q \in Mounted : Under(p, q)}
RenameFails(p, q) ==
    \/ Kind(p) = "none" \/ ~HasParent(q) \/ Device(p) # Device(q)
    \/ Kind(q) = "dir" \/ (Under(q, p) /\ q # p)
    \/ Kind(p) = "dir" /\ Kind(q) # "none"

Renamed(p) == CASE Under(p, Dst) -> NodeIn(Current, Moved(p, Dst, Src))
                [] Under(p, Src) /\ ~Under(p, Dst) -> NoNode
                [] OTHER -> node[p]
Rename ==
    /\ Doing("rename")
    /\ IF RenameFails(Src, Dst) THEN Failed
       ELSE /\ node' = IF node[Src] = node[Dst] THEN node ELSE [p \in Paths |-> Renamed(p)]
            /\ Proceed /\ Did /\ UNCHANGED inode

\* Mutated: the source goes before it is copied.
RemovedFirst(copy, remove) == <<remove, copy>>

CopyFirst(copy, remove) == <<copy, remove>>

\* MV_FORCE_COPY, copyThenRemove: every link is followed.
CopyThenRemove ==
    /\ Doing("move") /\ Opt("copy")
    /\ IF ~Present(Src) THEN Failed
       ELSE LET removal == IF Kind(Final(Src)) = "dir" THEN "removeall" ELSE "delete" IN
            Then(CopyFirst(Work("copytree", Src, Dst, Operand), Work(removal, Src, Dst, Operand))) /\ Looked

\* fs.CopyDir and fs.CopyFile.
CopyTree ==
    /\ Doing("copytree")
    /\ CASE Kind(Src) = "dir" -> Next2("mkdirall", "treelist") /\ Looked
         [] ~Present(Src) -> Failed
         [] OTHER -> Next2("create", "write") /\ Looked
TreeList == Doing("treelist") /\ Then(Each("copytree", Src, Dst, Operand)) /\ Looked

RemoveAll ==
    /\ Doing("removeall")
    /\ node' = [p \in Paths |-> IF Under(p, Src) THEN NoNode ELSE node[p]]
    /\ Proceed /\ Did /\ UNCHANGED inode

-----------------------------------------------------------------------------
(* rm, mkdir, rmdir, touch.                                                 *)

RmSeen(p) == p

\* removePath: Lstat; a directory after what is in it.
RemovePath ==
    /\ Doing("remove")
    /\ LET p == RmSeen(Src) IN
       CASE Kind(p) = "none" -> IF Opt("f") THEN Proceed /\ Looked ELSE Failed
         [] Kind(p) = "dir" -> IF ~Recursive THEN Failed
                               ELSE Then(Each("remove", p, p, Operand) \o <<Work("delete", p, p, Operand)>>)
                                    /\ Looked
         [] OTHER -> Then(<<Work("delete", p, p, Operand)>>) /\ Looked

Delete ==
    /\ Doing("delete")
    /\ IF ~CanRemove(Src) THEN Failed
       ELSE node' = NodeWithout(Src) /\ Proceed /\ Did /\ UNCHANGED inode

\* mkdirParents goes on where something is, whatever it is.
Mkdir ==
    /\ Doing("mkdir")
    /\ LET new == {q \in Paths : Kind(q) = "none" /\ (q = Dst \/ (Opt("p") /\ Under(Dst, q)))} IN
       IF new = {} THEN IF Opt("p") THEN Proceed /\ Looked ELSE Failed
       ELSE LET q == CHOOSE q \in new : \A r \in new : Len(q) <= Len(r) IN
            IF ~HasParent(q) THEN Failed
            ELSE Make(q, ADir) /\ (IF q = Dst THEN Proceed ELSE UNCHANGED todo) /\ Did

\* rmdir -p goes on with the parent; rmdir removes a file too.
Rmdir ==
    /\ Doing("rmdir")
    /\ IF ~CanRemove(Src) THEN Failed
       ELSE /\ node' = NodeWithout(Src)
            /\ Then(IF Opt("p") /\ Len(Src) > 1 THEN <<Work("rmdir", Dir(Src), Dir(Src), Operand)>> ELSE <<>>)
            /\ Did /\ UNCHANGED inode

Touch ==
    /\ Doing("touch")
    /\ CASE Present(Dst) -> Proceed /\ Looked
         [] ~Present(Dst) /\ Len(Dst) > 1 /\ Kind(Dir(Dst)) = "file" -> Failed
         [] OTHER -> IF Opt("c") THEN Proceed /\ Looked
                     ELSE IF ~HasParent(Final(Dst)) THEN Failed
                     ELSE Make(Final(Dst), AFile("")) /\ Proceed /\ Did

FilesEnd == todo = <<>> /\ UNCHANGED files

FilesNext ==
    \/ CopyMissing \/ CopyOmitted \/ CopyLink \/ CopyDir \/ CopyAsLink \/ CopyFile \/ CopyList
    \/ Create \/ WriteData \/ WriteFails \/ MkdirAll \/ Unlink \/ Symlink \/ Link
    \/ Move \/ Rename \/ CopyThenRemove \/ CopyTree \/ TreeList \/ RemoveAll
    \/ RemovePath \/ Delete \/ Mkdir \/ Rmdir \/ Touch \/ FilesEnd

-----------------------------------------------------------------------------
(* Properties.                                                              *)

Operands == {call.operands[k] : k \in DOMAIN call.operands}
TargetsIn(t) == {IF KindIn(t, FinalIn(t, call.dest)) = "dir" THEN Append(call.dest, Base(p)) ELSE call.dest :
                   p \in Operands}
DataIn(t, p) == IF KindIn(t, FinalIn(t, p)) = "file" THEN t.inode[t.node[FinalIn(t, p)]].data ELSE "none"
\* A tool may write its targets, where their links lead, and the other names of those files.
Touched(t) ==
    CASE call.tool = "cp" -> {FinalIn(t, q) : q \in {r \in Paths : \E p \in TargetsIn(t) : Under(r, p)}}
                                \union {r \in Paths : \E p \in TargetsIn(t) : Under(r, p)}
      [] call.tool = "mv" -> {r \in Paths : \E p \in TargetsIn(t) \union Operands : Under(r, p)}
                                \union {FinalIn(t, q) : q \in TargetsIn(t)}
      [] call.tool = "rm" -> {r \in Paths : \E p \in Operands : Under(r, p)}
      [] OTHER -> {r \in Paths : \E p \in Operands : Under(p, r)} \union {FinalIn(t, q) : q \in Operands}
Kept == Opt("n") \/ (Opt("i") /\ ~Opt("f"))
\* A file is its own target, as in cp a a: the tools do not look for that.
SameFile == \E s \in Operands, t \in TargetsIn(before), p \in Paths :
    /\ Under(p, s) /\ KindIn(before, FinalIn(before, p)) = "file"
    /\ LET q == FinalIn(before, Moved(p, s, t)) IN
       NodeIn(before, q) = NodeIn(before, FinalIn(before, p))
Succeeded == todo = <<>> /\ status = 0 /\ ~trouble

\* What a tool was not told about stays what it was, at every step and when the
\* tool dies: names and contents, unless the content has a name it may write to.
\* (copyPath, removePath, movePath, copySymlink)
OthersUntouched == \A p \in Paths \ Touched(before) :
    /\ node[p] = before.node[p]
    /\ \/ node[p] = NoNode \/ inode[node[p]] = before.inode[node[p]]
       \/ \E q \in Touched(before) : before.node[q] = before.node[p] /\ call.tool # "rm"

\* mv never loses a file it moves: in every state, also one it dies in, there is a
\* name with its content, source or target.  (movePath, copyThenRemove, fs.CopyDir)
MoveKeepsData == (call.tool = "mv" /\ ~SameFile) =>
    \A p \in Paths : (\E s \in Operands : Under(p, s)) /\ KindIn(before, p) = "file" =>
        \E q \in Touched(before) : DataIn(Current, q) = DataIn(before, p)

\* When mv succeeds, what was there is where the target is, and nowhere else;
\* when -n or -i keep the target nothing has moved.  (movePath)
MoveIsWhole == (call.tool = "mv" /\ Succeeded /\ ~SameFile) =>
    \A k \in DOMAIN call.operands : LET s == call.operands[k]
                                        t == CHOOSE t \in TargetsIn(before) : Len(call.operands) = 1 \/ Base(t) = Base(s) IN
        IF Kept /\ KindIn(before, FinalIn(before, t)) # "none"
        THEN \A p \in Paths : Under(p, s) \/ Under(p, t) => node[p] = before.node[p]
        ELSE \A p \in Paths : Under(p, s) =>
               /\ node[p] = NoNode
               /\ KindIn(before, p) = "file" => DataIn(Current, Moved(p, s, t)) = DataIn(before, p)
               /\ KindIn(before, p) # "none" => Kind(Moved(p, s, t)) # "none"

\* What cp copies, and where to.
CopyPairs == {c \in Paths \X Paths : \E s \in Operands, t \in TargetsIn(before) :
    /\ Under(c[1], s) /\ KindIn(before, c[1]) # "none" /\ c[2] = Moved(c[1], s, t)
    /\ Base(t) = Base(s) \/ TargetsIn(before) = {call.dest}}
ThereBefore(q) == KindIn(before, FinalIn(before, q))
\* No two are copied to one place, and no target is, or leads to, a file that is copied.
CopiesApart == \A c, f \in CopyPairs :
    /\ c[2] = f[2] => c[1] = f[1]
    /\ ThereBefore(f[2]) = "file" => NodeIn(before, FinalIn(before, f[2])) # NodeIn(before, FinalIn(before, c[1]))
Copied == call.tool = "cp" /\ Succeeded /\ CopiesApart
CopiedAsLink(p) == KindIn(before, p) = "link" /\ NoDereference /\ ~(Opt("H") /\ p \in Operands)
\* With -d and -n the first name of a file is remembered although its target was kept: the
\* other names become names of what was kept, in place of what -n should have kept there too.
NameOfKept(p, q) ==
    NoDereference /\ Kept /\ \E c \in CopyPairs :
        /\ c[1] # p /\ before.node[c[1]] = before.node[p] /\ ThereBefore(c[2]) # "none"
        /\ node[q] = node[c[2]]
\* When cp succeeds each file it was to copy is in its target with its content, or what was
\* there before if -n or -i keep it, and links are links where they are not followed.  The
\* exception is NameOfKept.  (copyPath, copyDir, copySymlink, copyFile)
CopyComplete == Copied => \A c \in CopyPairs :
    LET p == c[1]
        q == c[2]
        stays == Kept /\ ThereBefore(q) = "file"
    IN IF CopiedAsLink(p)
       THEN Kind(q) = "link" /\ inode[node[q]].to = before.inode[before.node[p]].to
       ELSE \/ stays /\ node[q] = before.node[q] /\ inode[node[q]] = before.inode[node[q]]
            \/ /\ ~stays /\ Kind(Final(q)) = KindIn(before, FinalIn(before, p))
               /\ DataIn(Current, q) = DataIn(before, p)
            \/ NameOfKept(p, q)
\* Where cp does not follow links, names of one file become names of one file, but for names
\* that -n or -i keep.  (hardLinks of copyFile)
NamesTogether == (Copied /\ NoDereference) => \A c, f \in CopyPairs :
    (/\ KindIn(before, c[1]) = "file" /\ before.node[c[1]] = before.node[f[1]]
     /\ ~(Kept /\ \E q \in {c[2], f[2]} : ThereBefore(q) # "none")) => node[c[2]] = node[f[2]]

\* After rm nothing is left of what it was told to remove, if it succeeds and -f
\* did not hide an error, and what links lead to is still there.  (removePath)
RmComplete == (call.tool = "rm" /\ Succeeded /\ ~Opt("f")) =>
    \A p \in Paths : (\E s \in Operands : Under(p, s)) => node[p] = NoNode

\* Whatever has a name is in a directory: no tool removes or replaces a directory
\* that is not empty, or writes below a file.  (removeDir, mkdirParents, Rename)
TreeHolds == \A p \in Paths : node[p] # NoNode => HasParent(p)

\* No tool loses or touches what it was not told to, in any state it may die in, and when it
\* succeeds its work is whole.
FilesRight == OthersUntouched /\ MoveKeepsData /\ MoveIsWhole /\ CopyComplete /\ NamesTogether
              /\ RmComplete /\ TreeHolds
=============================================================================
