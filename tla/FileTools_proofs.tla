--------------------------- MODULE FileTools_proofs ---------------------------
(***************************************************************************)
(* rm, mkdir, rmdir and touch, for any tree, arguments and options: they   *)
(* leave alone what they were not told of, keep the tree a tree, and rm    *)
(* removes all it was told to.  mv, where it renames: it loses no file and *)
(* moves all of its operands.                                              *)
(***************************************************************************)
EXTENDS FileTools, FiniteSetTheorems, FunctionTheorems, SequenceTheorems, WellFoundedInduction, TLAPS

-----------------------------------------------------------------------------
(* Calls and trees.                                                         *)

Names == {NameOrder[k] : k \in 1..Len(NameOrder)}
\* The paths of the run: finitely many, each with the directories it is in.
PathsOK ==
    /\ NameOrder \in Seq(STRING)
    /\ \A i, j \in 1..Len(NameOrder) : NameOrder[i] = NameOrder[j] => i = j
    /\ IsFiniteSet(Paths) /\ Paths \subseteq {p \in Seq(Names) : Len(p) > 0}
    /\ \A p \in Paths : Len(p) > 1 => Dir(p) \in Paths

Kinds == {"file", "dir", "link"}
Tools == {"rm", "mkdir", "rmdir", "touch"}
IsCall(c) == c.tool \in Tools /\ c.operands \in Seq(Paths)
\* Whatever has a name is there, and is in a directory.
Tree(t) ==
    /\ t.node \in [Paths -> Nat] /\ DOMAIN t.inode \subseteq Nat \ {NoNode}
    /\ t.inode = [i \in DOMAIN t.inode |-> t.inode[i]]
    /\ \A p \in Paths : t.node[p] # NoNode =>
         /\ t.node[p] \in DOMAIN t.inode /\ t.inode[t.node[p]].kind \in Kinds
         /\ Len(p) > 1 => KindIn(t, Dir(p)) = "dir"
\* The bound on the inodes is not reached.
SpaceLeft == \E i \in Ids : inode[i].kind = "free"

-----------------------------------------------------------------------------
(* Induction over the numbers, for a set of them.                           *)

LEMMA LeastNumber ==
    ASSUME NEW T \in SUBSET Nat, T # {}
    PROVE  \E n \in T : \A m \in T : n <= m
<1>1. PICK n \in T : \A m \in T : ~(<<m, n>> \in OpToRel(<, Nat))
  BY WFMin, NatLessThanWellFounded
<1>2. ASSUME NEW m \in T PROVE n <= m
  <2>1. m \in Nat /\ n \in Nat /\ ~(<<m, n>> \in OpToRel(<, Nat))
    BY <1>1
  <2>2. ~(m < n)
    BY <2>1 DEF OpToRel
  <2>3. \A x, y \in Nat : ~(x < y) => y <= x
    OBVIOUS
  <2> QED BY <2>1, <2>2, <2>3
<1> QED BY <1>2

LEMMA AllNumbers ==
    ASSUME NEW T, 0 \in T, \A n \in Nat : n \in T => n + 1 \in T
    PROVE  \A n \in Nat : n \in T
<1> SUFFICES ASSUME Nat \ T # {} PROVE FALSE
  OBVIOUS
<1>1. PICK n \in Nat \ T : \A m \in Nat \ T : n <= m
  BY LeastNumber
<1>2. n # 0 /\ n - 1 \in Nat
  BY <1>1
<1>3. n - 1 \in T
  BY <1>1, <1>2
<1> QED BY <1>1, <1>2, <1>3

-----------------------------------------------------------------------------
(* Paths.                                                                   *)

LEMMA PathIs ==
    ASSUME PathsOK, NEW p \in Paths
    PROVE  p \in Seq(Names) /\ Len(p) \in Nat /\ Len(p) > 0 /\ DOMAIN p = 1..Len(p)
<1>1. p \in Seq(Names) /\ Len(p) > 0
  BY DEF PathsOK
<1> QED BY <1>1

\* Under, name by name.
LEMMA UnderIs ==
    ASSUME PathsOK, NEW p \in Paths, NEW q \in Paths
    PROVE  Under(p, q) <=> Len(q) <= Len(p) /\ \A i \in 1..Len(q) : p[i] = q[i]
<1>1. p \in Seq(Names) /\ q \in Seq(Names) /\ Len(p) \in Nat /\ Len(q) \in Nat
  BY PathIs
<1>2. ASSUME Len(q) <= Len(p)
      PROVE  SubSeq(p, 1, Len(q)) = q <=> \A i \in 1..Len(q) : p[i] = q[i]
  <2> DEFINE s == SubSeq(p, 1, Len(q))
  <2>1. s \in Seq(Names) /\ Len(s) = Len(q) /\ \A i \in 1..Len(q) : s[i] = p[i]
    BY <1>1, <1>2
  <2> HIDE DEF s
  <2>2. s = q <=> \A i \in 1..Len(q) : s[i] = q[i]
    BY <1>1, <2>1, SeqEqual
  <2> QED BY <2>1, <2>2 DEF s
<1> QED BY <1>2 DEF Under

LEMMA UnderTrans ==
    ASSUME PathsOK, NEW p \in Paths, NEW q \in Paths, NEW r \in Paths, Under(p, q), Under(q, r)
    PROVE  Under(p, r)
<1>1. Len(p) \in Nat /\ Len(q) \in Nat /\ Len(r) \in Nat
  BY PathIs
<1>2. Len(q) <= Len(p) /\ \A i \in 1..Len(q) : p[i] = q[i]
  BY UnderIs
<1>3. Len(r) <= Len(q) /\ \A i \in 1..Len(r) : q[i] = r[i]
  BY UnderIs
<1>4. Len(r) <= Len(p) /\ \A i \in 1..Len(r) : p[i] = r[i]
  BY <1>1, <1>2, <1>3
<1> QED BY <1>4, UnderIs

LEMMA UnderSame ==
    ASSUME PathsOK, NEW p \in Paths
    PROVE  Under(p, p)
<1>1. Len(p) \in Nat
  BY PathIs
<1> QED BY <1>1, UnderIs

\* The directory a path is in.
LEMMA DirIs ==
    ASSUME PathsOK, NEW p \in Paths, Len(p) > 1
    PROVE  /\ Dir(p) \in Paths /\ Len(Dir(p)) = Len(p) - 1 /\ Under(p, Dir(p)) /\ Dir(p) # p
           /\ \A q \in Paths : Under(p, q) /\ q # p => Under(Dir(p), q)
<1>1. p \in Seq(Names) /\ Len(p) \in Nat /\ Dir(p) \in Paths
  BY PathIs DEF PathsOK
<1>2. Len(Dir(p)) = Len(p) - 1 /\ \A i \in 1..Len(p) - 1 : Dir(p)[i] = p[i]
  BY <1>1 DEF Dir
<1>3. Under(p, Dir(p)) /\ Dir(p) # p
  <2>1. Len(p) - 1 # Len(p) /\ Len(p) - 1 <= Len(p)
    BY <1>1
  <2> QED BY <1>1, <1>2, <2>1, UnderIs
<1>4. ASSUME NEW q \in Paths, Under(p, q), q # p PROVE Under(Dir(p), q)
  <2>1. q \in Seq(Names) /\ Len(q) \in Nat /\ Len(q) <= Len(p) /\ \A i \in 1..Len(q) : p[i] = q[i]
    BY <1>4, UnderIs, PathIs
  <2>2. Len(q) # Len(p)
    <3>1. SUFFICES ASSUME Len(q) = Len(p) PROVE q = p
      BY <1>4
    <3> QED BY <1>1, <2>1, <3>1, SeqEqual
  <2>3. Len(q) <= Len(p) - 1
    BY <1>1, <2>1, <2>2
  <2>4. \A i \in 1..Len(q) : Dir(p)[i] = q[i]
    BY <1>1, <1>2, <2>1, <2>3
  <2> QED BY <1>1, <1>2, <2>3, <2>4, UnderIs
<1> QED BY <1>1, <1>2, <1>3, <1>4

-----------------------------------------------------------------------------
(* What is there.                                                           *)

\* The state as a tree.
Here == Tree(Current)
\* The kind of what has a name.
LEMMA KindIs ==
    ASSUME NEW n, NEW m, NEW p \in Paths
    PROVE  KindIn([node |-> n, inode |-> m], p) = IF n[p] # NoNode THEN m[n[p]].kind ELSE "none"
  BY DEF KindIn, NodeIn

LEMMA KindOf ==
    ASSUME Here, NEW p \in Paths
    PROVE  /\ Kind(p) = IF node[p] # NoNode THEN inode[node[p]].kind ELSE "none"
           /\ Kind(p) = "none" <=> node[p] = NoNode
           /\ node[p] # NoNode => node[p] \in Ids /\ Kind(p) \in Kinds
           /\ node[p] # NoNode /\ Len(p) > 1 => Kind(Dir(p)) = "dir"
<1>1. Kind(p) = IF node[p] # NoNode THEN inode[node[p]].kind ELSE "none"
  BY KindIs DEF Kind, Current
<1>2. node[p] # NoNode => /\ node[p] \in Ids /\ inode[node[p]].kind \in Kinds
                          /\ Len(p) > 1 => Kind(Dir(p)) = "dir"
  BY DEF Here, Tree, Current, Ids, Kind
<1>3. "none" \notin Kinds
  BY DEF Kinds
<1> QED BY <1>1, <1>2, <1>3

\* What is below a path that has a name is in one of its entries.
LEMMA EntryAbove ==
    ASSUME PathsOK, Here, NEW p \in Paths, NEW q \in Paths, Under(q, p), q # p, node[q] # NoNode
    PROVE  \E c \in Children(p) : Under(q, c)
<1> DEFINE T == {n \in Nat : \A r \in Paths :
                   Under(r, p) /\ Len(r) = Len(p) + 1 + n /\ node[r] # NoNode => \E c \in Children(p) : Under(r, c)}
<1>1. Len(p) \in Nat /\ Len(p) > 0
  BY PathIs
<1>2. 0 \in T
  <2>1. ASSUME NEW r \in Paths, Under(r, p), Len(r) = Len(p) + 1 + 0, node[r] # NoNode
        PROVE  r \in Children(p) /\ Under(r, r)
    BY <1>1, <2>1, UnderSame DEF Children
  <2> QED BY <2>1
<1>3. ASSUME NEW n \in Nat, n \in T PROVE n + 1 \in T
  <2>1. SUFFICES ASSUME NEW r \in Paths, Under(r, p), Len(r) = Len(p) + 1 + (n + 1), node[r] # NoNode
                 PROVE  \E c \in Children(p) : Under(r, c)
    BY <1>3
  <2>2. Len(r) > 1 /\ r # p
    BY <1>1, <2>1
  <2>3. Dir(r) \in Paths /\ Len(Dir(r)) = Len(p) + 1 + n /\ Under(Dir(r), p) /\ Under(r, Dir(r))
    <3>1. Len(r) - 1 = Len(p) + 1 + n
      BY <1>1, <2>1
    <3> QED BY <2>1, <2>2, <3>1, DirIs
  <2>4. Kind(Dir(r)) = "dir"
    BY <2>1, <2>2, KindOf
  <2>5. node[Dir(r)] # NoNode
    BY <2>3, <2>4, KindOf
  <2>6. PICK c \in Children(p) : Under(Dir(r), c)
    BY <1>3, <2>3, <2>5
  <2>7. c \in Paths
    BY DEF Children
  <2> QED BY <2>3, <2>6, <2>7, UnderTrans
<1> HIDE DEF T
<1>4. \A n \in Nat : n \in T
  BY <1>2, <1>3, AllNumbers
<1>5. Len(q) - Len(p) - 1 \in Nat
  <2>1. q \in Seq(Names) /\ p \in Seq(Names) /\ Len(q) \in Nat /\ Len(p) <= Len(q) /\ \A i \in 1..Len(p) : q[i] = p[i]
    BY UnderIs, PathIs
  <2>2. Len(q) # Len(p)
    <3>1. SUFFICES ASSUME Len(q) = Len(p) PROVE q = p
      OBVIOUS
    <3> QED BY <2>1, <3>1, SeqEqual
  <2> QED BY <1>1, <2>1, <2>2
<1>6. Len(q) = Len(p) + 1 + (Len(q) - Len(p) - 1)
  <2>1. Len(q) \in Nat
    BY PathIs
  <2> QED BY <1>1, <2>1
<1> QED BY <1>4, <1>5, <1>6 DEF T

-----------------------------------------------------------------------------
(* ReadDir.                                                                 *)

LEMMA RankIs ==
    ASSUME PathsOK, NEW p \in Paths
    PROVE  Rank(Base(p)) \in Nat /\ NameOrder[Rank(Base(p))] = p[Len(p)]
<1>1. p[Len(p)] \in Names /\ Base(p) = p[Len(p)]
  <2>1. p \in Seq(Names) /\ Len(p) \in Nat /\ Len(p) > 0
    BY PathIs
  <2> QED BY <2>1 DEF Base
<1>2. \E k \in 1..Len(NameOrder) : NameOrder[k] = p[Len(p)]
  BY <1>1 DEF Names
<1>3. Rank(Base(p)) \in 1..Len(NameOrder) /\ NameOrder[Rank(Base(p))] = p[Len(p)]
  BY <1>1, <1>2 DEF Rank
<1>4. Len(NameOrder) \in Nat
  BY DEF PathsOK
<1> QED BY <1>3, <1>4

\* Two entries of a directory differ in their names.
LEMMA EntriesDiffer ==
    ASSUME PathsOK, NEW p \in Paths, NEW q \in Children(p), NEW r \in Children(p), q # r
    PROVE  Rank(Base(q)) # Rank(Base(r))
<1>1. q \in Paths /\ r \in Paths /\ Len(q) = Len(p) + 1 /\ Len(r) = Len(p) + 1 /\ Under(q, p) /\ Under(r, p)
  BY DEF Children
<1>2. q \in Seq(Names) /\ r \in Seq(Names) /\ Len(p) \in Nat /\ Len(q) \in Nat
  BY <1>1, PathIs
<1>3. \A i \in 1..Len(p) : q[i] = p[i] /\ r[i] = p[i]
  BY <1>1, UnderIs
<1>4. q[Len(q)] # r[Len(q)]
  <2>1. SUFFICES ASSUME q[Len(q)] = r[Len(q)] PROVE q = r
    OBVIOUS
  <2>2. \A i \in 1..Len(q) : q[i] = r[i]
    BY <1>1, <1>2, <1>3, <2>1
  <2> QED BY <1>1, <1>2, <2>2, SeqEqual
<1> QED BY <1>1, <1>4, RankIs

LEMMA ChildrenFinite ==
    ASSUME PathsOK, NEW p
    PROVE  IsFiniteSet(Children(p)) /\ Cardinality(Children(p)) \in Nat
<1>1. Children(p) \subseteq Paths /\ IsFiniteSet(Paths)
  BY DEF Children, PathsOK
<1> QED BY <1>1, FS_Subset, FS_CardinalityType

\* The entries of p before q.
Before(p, q) == {r \in Children(p) : Rank(Base(r)) < Rank(Base(q))}

LEMMA BeforeIs ==
    ASSUME PathsOK, NEW p \in Paths, NEW q \in Children(p)
    PROVE  /\ Cardinality(Before(p, q)) + 1 \in 1..Cardinality(Children(p))
           /\ \A r \in Children(p) : r # q => Cardinality(Before(p, r)) # Cardinality(Before(p, q))
<1> DEFINE c == Children(p)
<1>1. IsFiniteSet(c) /\ Cardinality(c) \in Nat /\ c \subseteq Paths
  BY ChildrenFinite DEF Children
<1>2. ASSUME NEW r \in c
      PROVE  /\ Before(p, r) \in SUBSET c /\ IsFiniteSet(Before(p, r)) /\ Cardinality(Before(p, r)) \in Nat
             /\ Rank(Base(r)) \in Nat /\ r \notin Before(p, r)
  <2>1. Before(p, r) \in SUBSET c /\ Rank(Base(r)) \in Nat
    BY <1>1, <1>2, RankIs DEF Before
  <2>2. r \notin Before(p, r)
    BY <2>1 DEF Before
  <2> QED BY <1>1, <2>1, <2>2, FS_Subset, FS_CardinalityType
<1> HIDE DEF c
<1>3. q \in c
  BY DEF c
<1>4. Cardinality(Before(p, q)) + 1 \in 1..Cardinality(c)
  <2>1. Before(p, q) # c
    BY <1>2, <1>3
  <2>2. Cardinality(Before(p, q)) <= Cardinality(c) /\ Cardinality(Before(p, q)) # Cardinality(c)
    BY <1>1, <1>2, <1>3, <2>1, FS_Subset
  <2> QED BY <1>1, <1>2, <1>3, <2>2
<1>5. ASSUME NEW r \in c, NEW s \in c, Rank(Base(r)) < Rank(Base(s))
      PROVE  Cardinality(Before(p, r)) # Cardinality(Before(p, s))
  <2>1. Before(p, r) \in SUBSET Before(p, s)
    <3>1. \A t \in c : Rank(Base(t)) \in Nat
      BY <1>2
    <3>2. \A t \in c : Rank(Base(t)) < Rank(Base(r)) => Rank(Base(t)) < Rank(Base(s))
      BY <1>5, <3>1
    <3> QED BY <3>2 DEF Before, c
  <2>2. r \in Before(p, s) /\ r \notin Before(p, r)
    BY <1>2, <1>5 DEF Before, c
  <2> QED BY <1>2, <2>1, <2>2, FS_Subset
<1>6. ASSUME NEW r \in c, r # q PROVE Cardinality(Before(p, r)) # Cardinality(Before(p, q))
  <2>1. Rank(Base(r)) # Rank(Base(q)) /\ Rank(Base(r)) \in Nat /\ Rank(Base(q)) \in Nat
    BY <1>2, <1>3, <1>6, EntriesDiffer DEF c
  <2>2. Rank(Base(r)) < Rank(Base(q)) \/ Rank(Base(q)) < Rank(Base(r))
    BY <2>1
  <2> QED BY <1>3, <1>5, <1>6, <2>2
<1> QED BY <1>4, <1>6 DEF c

LEMMA ListedIs ==
    ASSUME PathsOK, NEW p \in Paths
    PROVE  /\ Listed(p) \in Seq(Children(p))
           /\ \A q \in Children(p) : \E k \in DOMAIN Listed(p) : Listed(p)[k] = q
<1> DEFINE c == Children(p)
           n == Cardinality(c)
           At(k) == CHOOSE q \in c : Cardinality(Before(p, q)) = k - 1
           f == [q \in c |-> Cardinality(Before(p, q)) + 1]
<1>1. IsFiniteSet(c) /\ n \in Nat
  BY ChildrenFinite
<1>2. Listed(p) = [k \in 1..n |-> At(k)]
  BY DEF Listed, Before
<1>3. ASSUME NEW q \in c PROVE /\ f[q] \in 1..n /\ Cardinality(Before(p, q)) = f[q] - 1
                               /\ \A r \in c : r # q => f[r] # f[q]
  <2>1. Cardinality(Before(p, q)) + 1 \in 1..n /\ \A r \in c : r # q => Cardinality(Before(p, r)) # Cardinality(Before(p, q))
    BY BeforeIs
  <2>2. ASSUME NEW r \in c PROVE Cardinality(Before(p, r)) \in Int
    <3>1. Cardinality(Before(p, r)) + 1 \in 1..n
      BY BeforeIs
    <3>2. Before(p, r) \in SUBSET c
      BY DEF Before
    <3> QED BY <1>1, <3>2, FS_Subset, FS_CardinalityType
  <2> HIDE DEF c, n
  <2>3. Cardinality(Before(p, q)) = f[q] - 1
    BY <2>2
  <2>4. \A r \in c : r # q => f[r] # f[q]
    BY <2>1, <2>2
  <2> QED BY <2>1, <2>3, <2>4
<1>4. f \in Injection(c, 1..n)
  BY <1>3 DEF Injection, IsInjective
<1>5. f \in Surjection(c, 1..n)
  <2>1. IsFiniteSet(1..n) /\ Cardinality(1..n) = n
    BY <1>1, FS_Interval
  <2> HIDE DEF c, n, f
  <2>2. n = Cardinality(c)
    BY DEF n
  <2> QED BY <1>4, <2>1, <2>2, FS_Injection
<1>6. ASSUME NEW k \in 1..n PROVE At(k) \in c
  <2>1. PICK q \in c : f[q] = k
    BY <1>5 DEF Surjection
  <2>2. Cardinality(Before(p, q)) = k - 1
    BY <1>3, <2>1
  <2> QED BY <2>2
<1>7. ASSUME NEW q \in c PROVE f[q] \in 1..n /\ At(f[q]) = q
  <2>1. f[q] \in 1..n /\ Cardinality(Before(p, q)) = f[q] - 1
    BY <1>3
  <2>2. At(f[q]) \in c /\ Cardinality(Before(p, At(f[q]))) = f[q] - 1
    BY <2>1
  <2>3. At(f[q]) = q
    BY <2>1, <2>2, BeforeIs
  <2> QED BY <2>1, <2>3
<1> HIDE DEF c, n, At, f
<1>8. Listed(p) \in Seq(c) /\ DOMAIN Listed(p) = 1..n
  BY <1>1, <1>2, <1>6
<1>9. \A q \in c : \E k \in DOMAIN Listed(p) : Listed(p)[k] = q
  BY <1>2, <1>7
<1> QED BY <1>8, <1>9 DEF c

\* A new inode is one that nothing had.
LEMMA FreshIs ==
    ASSUME SpaceLeft, Ids \subseteq Nat
    PROVE  Fresh \in Ids /\ inode[Fresh].kind = "free"
<1> DEFINE T == {i \in Ids : inode[i].kind = "free"}
<1>1. T \in SUBSET Nat /\ T # {}
  BY DEF SpaceLeft
<1>2. PICK n \in T : \A m \in T : n <= m
  BY <1>1, LeastNumber
<1>3. \E i \in Ids : inode[i].kind = "free" /\ \A j \in Ids : inode[j].kind = "free" => i <= j
  BY <1>2
<1> QED BY <1>3 DEF Fresh

-----------------------------------------------------------------------------
(* The work that is left.                                                   *)

Ops == {"remove", "delete", "mkdir", "rmdir", "touch"}
Works == [op : Ops, src : Paths, dst : Paths, operand : Nat]
Given(c) == {c.operands[k] : k \in DOMAIN c.operands}
\* Work that tool c may have to do.
WorkFor(c, w) ==
    /\ w.dst = w.src
    /\ c.tool = "rm" => w.op \in {"remove", "delete"} /\ \E s \in Given(c) : Under(w.src, s)
    /\ c.tool = "mkdir" => w.op = "mkdir" /\ w.src \in Given(c)
    /\ c.tool = "rmdir" => w.op = "rmdir" /\ \E s \in Given(c) : Under(s, w.src)
    /\ c.tool = "touch" => w.op = "touch" /\ w.src \in Given(c)
Queue(c, q) == q \in Seq(Works) /\ \A k \in DOMAIN q : WorkFor(c, q[k])

LEMMA QueueJoins ==
    ASSUME NEW c, NEW q, NEW r, Queue(c, q), Queue(c, r)
    PROVE  /\ Queue(c, q \o r)
           /\ \A k \in DOMAIN q : k \in DOMAIN (q \o r) /\ (q \o r)[k] = q[k]
           /\ \A k \in DOMAIN r : Len(q) + k \in DOMAIN (q \o r) /\ (q \o r)[Len(q) + k] = r[k]
<1>1. q \in Seq(Works) /\ r \in Seq(Works) /\ q \o r \in Seq(Works) /\ Len(q) \in Nat /\ Len(r) \in Nat
  BY DEF Queue
<1>2. Len(q \o r) = Len(q) + Len(r)
  BY <1>1
<1>3. ASSUME NEW k \in DOMAIN (q \o r) PROVE WorkFor(c, (q \o r)[k])
  <2>1. k \in 1..Len(q) + Len(r)
    BY <1>1, <1>2, <1>3
  <2>2. CASE k <= Len(q)
    <3>1. k \in DOMAIN q /\ (q \o r)[k] = q[k]
      BY <1>1, <2>1, <2>2
    <3> QED BY <3>1 DEF Queue
  <2>3. CASE k > Len(q)
    <3>1. k - Len(q) \in DOMAIN r /\ (q \o r)[k] = r[k - Len(q)]
      BY <1>1, <2>1, <2>3
    <3> QED BY <3>1 DEF Queue
  <2> QED BY <1>1, <2>1, <2>2, <2>3
<1>4. \A k \in DOMAIN q : k \in DOMAIN (q \o r) /\ (q \o r)[k] = q[k]
  BY <1>1, <1>2
<1>5. \A k \in DOMAIN r : Len(q) + k \in DOMAIN (q \o r) /\ (q \o r)[Len(q) + k] = r[k]
  BY <1>1, <1>2
<1> QED BY <1>1, <1>3, <1>4, <1>5 DEF Queue

LEMMA QueueTail ==
    ASSUME NEW c, NEW q, Queue(c, q), q # <<>>
    PROVE  /\ Queue(c, Tail(q)) /\ 1 \in DOMAIN q /\ q[1] \in Works /\ WorkFor(c, q[1])
           /\ \A k \in DOMAIN q : k # 1 => k - 1 \in DOMAIN Tail(q) /\ Tail(q)[k - 1] = q[k]
<1>1. q \in Seq(Works) /\ Len(q) \in Nat /\ Len(q) > 0 /\ DOMAIN q = 1..Len(q)
  BY DEF Queue
<1>2. Tail(q) \in Seq(Works) /\ Len(Tail(q)) = Len(q) - 1 /\ DOMAIN Tail(q) = 1..Len(q) - 1
      /\ \A k \in 1..Len(q) - 1 : Tail(q)[k] = q[k + 1]
  BY <1>1
<1>3. ASSUME NEW k \in DOMAIN Tail(q) PROVE WorkFor(c, Tail(q)[k])
  <2>1. k + 1 \in DOMAIN q /\ Tail(q)[k] = q[k + 1]
    BY <1>1, <1>2, <1>3
  <2> QED BY <2>1 DEF Queue
<1>4. \A k \in DOMAIN q : k # 1 => k - 1 \in DOMAIN Tail(q) /\ Tail(q)[k - 1] = q[k]
  BY <1>1, <1>2
<1> QED BY <1>1, <1>2, <1>3, <1>4 DEF Queue

\* What is left of the work when it fails.
LEMMA QueueRest ==
    ASSUME NEW c, NEW q, Queue(c, q), NEW n \in 1..Len(q) + 1
    PROVE  Queue(c, SubSeq(q, n, Len(q)))
<1> DEFINE r == SubSeq(q, n, Len(q))
<1>1. q \in Seq(Works) /\ Len(q) \in Nat /\ DOMAIN q = 1..Len(q)
  BY DEF Queue
<1>2. r \in Seq(Works) /\ Len(r) = (IF n <= Len(q) THEN Len(q) - n + 1 ELSE 0)
      /\ \A i \in 1..Len(q) - n + 1 : r[i] = q[n + i - 1]
  <2>1. n \in Int /\ Len(q) \in Int /\ \A i \in n..Len(q) : q[i] \in Works
    BY <1>1
  <2> QED BY <2>1, SubSeqProperties
<1> HIDE DEF r
<1>3. ASSUME NEW k \in DOMAIN r PROVE WorkFor(c, r[k])
  <2>1. k \in 1..Len(q) - n + 1
    BY <1>1, <1>2, <1>3
  <2>2. n + k - 1 \in DOMAIN q /\ r[k] = q[n + k - 1]
    BY <1>1, <1>2, <2>1
  <2> QED BY <2>2 DEF Queue
<1>4. Queue(c, r)
  BY <1>2, <1>3 DEF Queue
<1> QED BY <1>4 DEF r

\* A path that is moved nowhere.
LEMMA MovedSame ==
    ASSUME PathsOK, NEW p \in Paths, NEW q \in Paths, Under(q, p)
    PROVE  Moved(q, p, p) = q
<1>1. p \in Seq(Names) /\ q \in Seq(Names) /\ Len(p) \in Nat /\ Len(q) \in Nat /\ Len(p) <= Len(q)
      /\ \A i \in 1..Len(p) : q[i] = p[i]
  BY PathIs, UnderIs
<1> DEFINE s == SubSeq(q, Len(p) + 1, Len(q))
<1>2. s \in Seq(Names) /\ Len(s) = Len(q) - Len(p) /\ \A i \in 1..Len(q) - Len(p) : s[i] = q[Len(p) + i]
  BY <1>1
<1> HIDE DEF s
<1>3. p \o s \in Seq(Names) /\ Len(p \o s) = Len(q)
  BY <1>1, <1>2
<1>4. ASSUME NEW i \in 1..Len(q) PROVE (p \o s)[i] = q[i]
  <2>1. CASE i <= Len(p)
    BY <1>1, <1>2, <2>1
  <2>2. CASE i > Len(p)
    <3>1. (p \o s)[i] = s[i - Len(p)] /\ i - Len(p) \in 1..Len(q) - Len(p)
      BY <1>1, <1>2, <2>2
    <3>2. Len(p) + (i - Len(p)) = i
      BY <1>1
    <3> QED BY <1>2, <3>1, <3>2
  <2>3. i \in Nat
    BY <1>1
  <2>4. i <= Len(p) \/ i > Len(p)
    BY <1>1, <2>3
  <2> QED BY <2>1, <2>2, <2>4
<1>5. p \o s = q
  BY <1>1, <1>3, <1>4, SeqEqual
<1> QED BY <1>5 DEF Moved, s

\* Each for removing what is in a directory.
LEMMA EachIs ==
    ASSUME PathsOK, NEW p \in Paths, NEW n \in Nat, call.tool = "rm", NEW s \in Given(call), s \in Paths, Under(p, s)
    PROVE  LET e == Each("remove", p, p, n) IN
           /\ Queue(call, e)
           /\ \A q \in Children(p) : \E k \in DOMAIN e : e[k].op = "remove" /\ e[k].src = q
<1> DEFINE l == Listed(p)
           e == Each("remove", p, p, n)
<1>1. l \in Seq(Children(p)) /\ Len(l) \in Nat /\ DOMAIN l = 1..Len(l)
      /\ \A q \in Children(p) : \E k \in DOMAIN l : l[k] = q
  BY ListedIs
<1>2. e = [k \in 1..Len(l) |-> Work("remove", l[k], Moved(l[k], p, p), n)]
  BY DEF Each
<1>3. ASSUME NEW k \in 1..Len(l)
      PROVE  e[k] = [op |-> "remove", src |-> l[k], dst |-> l[k], operand |-> n] /\ e[k] \in Works /\ WorkFor(call, e[k])
  <2>1. l[k] \in Paths /\ Under(l[k], p)
    BY <1>1, <1>3 DEF Children
  <2>2. e[k] = [op |-> "remove", src |-> l[k], dst |-> l[k], operand |-> n]
    BY <1>2, <2>1, MovedSame DEF Work
  <2> HIDE DEF e, l
  <2>3. Under(l[k], s)
    BY <2>1, UnderTrans
  <2> QED BY <2>1, <2>2, <2>3 DEF Works, Ops, WorkFor
<1> HIDE DEF e, l
<1>4. e \in Seq(Works) /\ DOMAIN e = 1..Len(l)
  BY <1>1, <1>2, <1>3
<1>5. Queue(call, e)
  BY <1>3, <1>4 DEF Queue
<1>6. \A q \in Children(p) : \E k \in DOMAIN e : e[k].op = "remove" /\ e[k].src = q
  BY <1>1, <1>3, <1>4
<1> QED BY <1>5, <1>6 DEF e

-----------------------------------------------------------------------------
(* The invariant.                                                           *)

FileTypes ==
    /\ IsCall(call) /\ Tree(before) /\ Here /\ Queue(call, todo)
    /\ Ids = DOMAIN before.inode
\* What there was before is what it was, under the names that may not change; mkdir and
\* touch take no name away and put no link there.
Spared ==
    /\ \A i \in Ids : before.inode[i].kind # "free" => inode[i] = before.inode[i]
    /\ \A p \in Paths \ Touched(before) : node[p] = before.node[p]
    /\ call.tool \in {"mkdir", "touch"} => \A p \in Paths :
         node[p] = before.node[p] \/ (before.node[p] = NoNode /\ Kind(p) # "link")
\* What rm has to remove is still in its work.
Covers(w, q) == (w.op = "remove" /\ Under(q, w.src)) \/ (w.op = "delete" /\ w.src = q)
Covered ==
    (call.tool = "rm" /\ ~Opt("f") /\ status = 0) =>
        \A q \in Paths : node[q] # NoNode /\ (\E s \in Given(call) : Under(q, s)) =>
            \E k \in DOMAIN todo : Covers(todo[k], q)
FilesInv == FileTypes /\ Spared /\ Covered

\* The tools that are not looked at here have no work.
LEMMA GivenIs ==
    ASSUME IsCall(call)
    PROVE  /\ Given(call) = Operands /\ Given(call) \subseteq Paths
           /\ Touched(before) =
                IF call.tool = "rm" THEN {r \in Paths : \E p \in Given(call) : Under(r, p)}
                ELSE {r \in Paths : \E p \in Given(call) : Under(p, r)} \union {FinalIn(before, q) : q \in Given(call)}
<1>1. Given(call) = Operands
  BY DEF Given, Operands
<1>2. Given(call) \subseteq Paths
  BY DEF IsCall, Given
<1>3. call.tool \in Tools
  BY DEF IsCall
<1> QED BY <1>1, <1>2, <1>3 DEF Tools, Touched

\* What a step leaves alone.
Same == call' = call /\ before' = before
LEMMA TouchedSame ==
    ASSUME Same
    PROVE  Touched(before)' = Touched(before)
<1>1. call' = call /\ before' = before
  BY DEF Same
<1>2. Operands' = Operands
  BY <1>1 DEF Operands
<1>3. TargetsIn(before)' = TargetsIn(before)
  BY <1>1, <1>2 DEF TargetsIn
<1> QED BY <1>1, <1>2, <1>3 DEF Touched

\* A step that leaves the tree as it is.
LEMMA WorldKept ==
    ASSUME FileTypes, Spared, Same, Queue(call, todo'), node' = node, inode' = inode
    PROVE  FileTypes' /\ Spared'
<1>1. Here'
  BY DEF FileTypes, Here, Tree, Current, KindIn, NodeIn
<1>2. FileTypes'
  BY <1>1 DEF FileTypes, Same, Ids
<1>3. \A p \in Paths : Kind(p)' = Kind(p)
  BY DEF Kind, Current
<1>4. Spared'
  BY <1>3, TouchedSame DEF Spared, Same, Ids
<1> QED BY <1>2, <1>4

\* A name is taken away that no directory needs.
Unnames(p) == CanRemove(p) /\ node' = NodeWithout(p) /\ inode' = inode
LEMMA UnnamesIs ==
    ASSUME PathsOK, Here, NEW p \in Paths, Unnames(p)
    PROVE  Here' /\ node[p] # NoNode /\ \A q \in Paths : node'[q] = IF q = p THEN NoNode ELSE node[q]
<1>1. node \in [Paths -> Nat] /\ Here
  BY DEF Here, Tree, Current
<1>2. \A q \in Paths : node'[q] = IF q = p THEN NoNode ELSE node[q]
  BY <1>1 DEF Unnames, NodeWithout
<1>3. Kind(p) # "none" /\ (Kind(p) = "dir" => Children(p) = {})
  BY DEF Unnames, CanRemove
<1>4. ASSUME NEW q \in Paths, q # p, node[q] # NoNode, Len(q) > 1
      PROVE  KindIn([node |-> node', inode |-> inode], Dir(q)) = "dir"
  <2>1. Dir(q) \in Paths /\ Kind(Dir(q)) = "dir"
    BY <1>1, <1>4, DirIs, KindOf
  <2>2. Dir(q) # p
    <3>1. SUFFICES ASSUME Dir(q) = p PROVE FALSE
      OBVIOUS
    <3>2. Under(q, p) /\ Len(q) = Len(p) + 1
      <4>1. Len(q) \in Nat
        BY PathIs
      <4> QED BY <1>4, <3>1, <4>1, DirIs
    <3>3. q \in Children(p)
      BY <1>4, <3>2 DEF Children
    <3> QED BY <1>3, <2>1, <3>1, <3>3
  <2>3. node'[Dir(q)] = node[Dir(q)]
    BY <1>2, <2>1, <2>2
  <2>4. Kind(Dir(q)) = IF node[Dir(q)] # NoNode THEN inode[node[Dir(q)]].kind ELSE "none"
    BY <1>1, <2>1, KindOf
  <2> QED BY <2>1, <2>3, <2>4, KindIs
<1>5. node' \in [Paths -> Nat]
  BY <1>1 DEF Unnames, NodeWithout, NoNode
<1>6. inode' = inode /\ DOMAIN inode \subseteq Nat \ {NoNode} /\ inode = [i \in DOMAIN inode |-> inode[i]]
  BY <1>1 DEF Unnames, Here, Tree, Current
<1>7. ASSUME NEW q \in Paths, node'[q] # NoNode
      PROVE  /\ node'[q] \in DOMAIN inode /\ inode[node'[q]].kind \in Kinds
             /\ Len(q) > 1 => KindIn([node |-> node', inode |-> inode], Dir(q)) = "dir"
  <2>1. q # p /\ node'[q] = node[q]
    BY <1>2, <1>7
  <2> QED BY <1>1, <1>4, <1>7, <2>1 DEF Here, Tree, Current
<1>8. Here'
  BY <1>5, <1>6, <1>7 DEF Here, Tree, Current
<1>9. node[p] # NoNode
  BY <1>1, <1>3, KindOf
<1> QED BY <1>2, <1>8, <1>9

LEMMA UnnamesKept ==
    ASSUME PathsOK, FileTypes, Spared, Same, Queue(call, todo'), NEW p \in Paths, Unnames(p),
           p \in Touched(before), call.tool \in {"rm", "rmdir"}
    PROVE  FileTypes' /\ Spared'
<1>1. Here' /\ \A q \in Paths : node'[q] = IF q = p THEN NoNode ELSE node[q]
  BY UnnamesIs DEF FileTypes
<1>2. inode' = inode
  BY DEF Unnames
<1>3. FileTypes'
  BY <1>1, <1>2 DEF FileTypes, Same, Ids
<1>4. Spared'
  BY <1>1, <1>2, TouchedSame DEF Spared, Same, Ids
<1> QED BY <1>3, <1>4

\* A file or a directory is made where there was nothing.
Makes(p, new) ==
    /\ Make(p, new) /\ HasParent(p) /\ Kind(p) = "none" /\ new.kind \in {"file", "dir"}
LEMMA MakesIs ==
    ASSUME PathsOK, FileTypes, SpaceLeft, NEW p, NEW new, Makes(p, new)
    PROVE  /\ Here' /\ Ids' = Ids /\ \A q \in Paths : node'[q] = node[q] \/ (q = p /\ node[q] = NoNode /\ Kind(q)' # "link")
           /\ \A i \in Ids : inode[i].kind # "free" => inode'[i] = inode[i]
<1>1. Here /\ node \in [Paths -> Nat] /\ Ids \subseteq Nat \ {NoNode} /\ inode = [i \in Ids |-> inode[i]]
  BY DEF FileTypes, Here, Tree, Current, Ids
<1>2. Fresh \in Ids /\ inode[Fresh].kind = "free"
  BY <1>1, FreshIs
<1>3. node' = [node EXCEPT ![p] = Fresh] /\ inode' = [inode EXCEPT ![Fresh] = new] /\ new.kind \in {"file", "dir"}
  BY DEF Makes, Make
<1> DEFINE f == Fresh
<1> HIDE DEF f
<1>4. \A q \in Paths : node'[q] = IF q = p THEN f ELSE node[q]
  BY <1>1, <1>3 DEF f
<1>5. Ids' = Ids /\ inode' = [i \in Ids |-> inode'[i]] /\ \A i \in Ids : inode'[i] = IF i = f THEN new ELSE inode[i]
  BY <1>1, <1>2, <1>3 DEF f, Ids
<1>6. f \in Ids /\ f \in Nat /\ f # NoNode /\ inode[f].kind = "free"
  BY <1>1, <1>2 DEF f
<1>7. "free" \notin Kinds /\ new.kind \in Kinds /\ new.kind # "link"
  BY <1>3 DEF Kinds
<1>8. p \in Paths => node[p] = NoNode
  BY <1>1, KindOf DEF Makes
<1>9. ASSUME NEW q \in Paths, node[q] # NoNode
      PROVE  node[q] \in Ids /\ node[q] # f /\ inode'[node[q]] = inode[node[q]] /\ node'[q] = node[q]
             /\ inode[node[q]].kind \in Kinds
  <2>1. node[q] \in Ids /\ inode[node[q]].kind \in Kinds
    BY <1>1, <1>9 DEF Here, Tree, Current, Ids
  <2>2. node[q] # f
    BY <1>6, <1>7, <2>1
  <2> QED BY <1>4, <1>5, <1>8, <1>9, <2>1, <2>2
<1>10. ASSUME NEW q \in Paths, Kind(q) = "dir"
       PROVE  KindIn([node |-> node', inode |-> inode'], q) = "dir"
  <2>1. node[q] # NoNode /\ inode[node[q]].kind = "dir"
    BY <1>1, <1>10, KindOf
  <2> QED BY <1>9, <2>1, KindIs
<1>11. ASSUME NEW q \in Paths, node'[q] # NoNode
       PROVE  /\ node'[q] \in Ids /\ inode'[node'[q]].kind \in Kinds
              /\ Len(q) > 1 => KindIn([node |-> node', inode |-> inode'], Dir(q)) = "dir"
  <2>1. CASE q = p
    <3>1. node'[q] = f /\ inode'[f] = new
      BY <1>4, <1>5, <1>6, <2>1
    <3>2. ASSUME Len(q) > 1 PROVE Dir(q) \in Paths /\ Kind(Dir(q)) = "dir"
      <4>1. Len(q) # 1 /\ Dir(q) \in Paths
        BY <3>2, DirIs
      <4>2. Len(q) = 1 \/ Kind(Dir(q)) = "dir"
        BY <2>1 DEF Makes, HasParent
      <4> QED BY <4>1, <4>2
    <3>3. node'[q] \in Ids /\ inode'[node'[q]] = new
      BY <1>6, <3>1
    <3>4. inode'[node'[q]].kind \in Kinds
      BY <1>7, <3>3
    <3> QED BY <1>10, <3>2, <3>3, <3>4
  <2>2. CASE q # p
    <3>1. node[q] # NoNode /\ node'[q] = node[q]
      BY <1>4, <1>11, <2>2
    <3>2. Len(q) > 1 => Dir(q) \in Paths /\ Kind(Dir(q)) = "dir"
      BY <1>1, <3>1, DirIs, KindOf
    <3> QED BY <1>9, <1>10, <3>1, <3>2
  <2> QED BY <2>1, <2>2
<1>12. node' \in [Paths -> Nat]
  BY <1>1, <1>3, <1>6 DEF f
<1>13. Here'
  BY <1>1, <1>5, <1>11, <1>12 DEF Here, Tree, Current, Ids
<1>14. ASSUME NEW q \in Paths, node'[q] # node[q] PROVE q = p /\ node[q] = NoNode /\ Kind(q)' # "link"
  <2>1. q = p /\ node'[q] = f /\ inode'[f] = new
    BY <1>4, <1>5, <1>6, <1>14
  <2>2. KindIn([node |-> node', inode |-> inode'], q) = new.kind
    BY <1>6, <2>1, KindIs
  <2>3. Kind(q)' = new.kind
    BY <2>2 DEF Kind, Current
  <2> QED BY <1>7, <1>8, <2>1, <2>3
<1>15. \A i \in Ids : inode[i].kind # "free" => inode'[i] = inode[i]
  BY <1>5, <1>6
<1> QED BY <1>5, <1>13, <1>14, <1>15

LEMMA MakesKept ==
    ASSUME PathsOK, FileTypes, Spared, SpaceLeft, Same, Queue(call, todo'), NEW p, NEW new, Makes(p, new),
           p \in Touched(before)
    PROVE  FileTypes' /\ Spared'
<1>1. /\ Here' /\ Ids' = Ids /\ \A q \in Paths : node'[q] = node[q] \/ (q = p /\ node[q] = NoNode /\ Kind(q)' # "link")
      /\ \A i \in Ids : inode[i].kind # "free" => inode'[i] = inode[i]
  BY MakesIs
<1>2. FileTypes'
  BY <1>1 DEF FileTypes, Same
<1>3. ASSUME NEW q \in Paths, node'[q] = node[q] PROVE Kind(q)' = Kind(q)
  <2>1. Here
    BY DEF FileTypes
  <2>2. Kind(q)' = IF node'[q] # NoNode THEN inode'[node'[q]].kind ELSE "none"
    BY KindIs DEF Kind, Current
  <2>3. Kind(q) = (IF node[q] # NoNode THEN inode[node[q]].kind ELSE "none") /\ "free" \notin Kinds
        /\ (node[q] # NoNode => node[q] \in Ids /\ Kind(q) \in Kinds)
    BY <2>1, KindOf DEF Kinds
  <2> QED BY <1>1, <1>3, <2>2, <2>3
<1>4. ASSUME NEW i \in Ids, before.inode[i].kind # "free" PROVE inode'[i] = before.inode[i]
  BY <1>1, <1>4 DEF Spared
<1>5. \A q \in Paths \ Touched(before) : node'[q] = before.node[q]
  BY <1>1 DEF Spared
<1>6. ASSUME call.tool \in {"mkdir", "touch"}, NEW q \in Paths
      PROVE  node'[q] = before.node[q] \/ (before.node[q] = NoNode /\ Kind(q)' # "link")
  BY <1>1, <1>3, <1>6 DEF Spared
<1>7. Spared'
  BY <1>1, <1>4, <1>5, <1>6, TouchedSame DEF Spared, Same
<1> QED BY <1>2, <1>7

-----------------------------------------------------------------------------
(* The steps.                                                               *)

LEMMA HeadIs ==
    ASSUME FileTypes, todo # <<>>
    PROVE  /\ Src \in Paths /\ Dst = Src /\ Operand \in Nat /\ todo[1].op \in Ops /\ WorkFor(call, todo[1])
           /\ Queue(call, todo) /\ Queue(call, Tail(todo)) /\ Queue(call, <<>>) /\ IsCall(call)
<1>1. todo[1] \in Works /\ WorkFor(call, todo[1]) /\ Queue(call, Tail(todo))
  BY QueueTail DEF FileTypes
<1>2. Queue(call, <<>>)
  BY DEF Queue
<1> QED BY <1>1, <1>2 DEF FileTypes, Works, WorkFor, Src, Dst, Operand

\* What is covered stays so, when new work takes the place of the first.
LEMMA CoveredNext ==
    ASSUME FilesInv, todo # <<>>, NEW work, Queue(call, work), todo' = work \o Tail(todo), Same, status' = status,
           \A q \in Paths : node'[q] # NoNode => node[q] # NoNode,
           call.tool = "rm" /\ ~Opt("f") => \A q \in Paths : node'[q] # NoNode /\ Covers(todo[1], q) => \E k \in DOMAIN work : Covers(work[k], q)
    PROVE  Covered'
<1>1. SUFFICES ASSUME call.tool = "rm", ~Opt("f"), status = 0, NEW q \in Paths, node'[q] # NoNode,
                      NEW s \in Given(call), Under(q, s)
               PROVE  \E k \in DOMAIN todo' : Covers(todo'[k], q)
  BY DEF Covered, Same, Opt
<1>2. PICK k \in DOMAIN todo : Covers(todo[k], q)
  BY <1>1 DEF FilesInv, Covered
<1>3. Queue(call, todo) /\ Queue(call, Tail(todo)) /\ Len(work) \in Nat
  BY HeadIs DEF FilesInv, Queue
<1>4. CASE k = 1
  <2>1. PICK j \in DOMAIN work : Covers(work[j], q)
    BY <1>1, <1>2, <1>4
  <2>2. j \in DOMAIN todo' /\ todo'[j] = work[j]
    BY <1>3, QueueJoins
  <2> QED BY <2>1, <2>2
<1>5. CASE k # 1
  <2>1. k - 1 \in DOMAIN Tail(todo) /\ Tail(todo)[k - 1] = todo[k]
    BY <1>3, <1>5, QueueTail
  <2>2. Len(work) + (k - 1) \in DOMAIN todo' /\ todo'[Len(work) + (k - 1)] = todo[k]
    BY <1>3, <2>1, QueueJoins
  <2> QED BY <1>2, <2>2
<1> QED BY <1>4, <1>5

LEMMA FailedKeeps ==
    ASSUME FilesInv, todo # <<>>, Failed
    PROVE  FilesInv'
<1>1. Same /\ node' = node /\ inode' = inode /\ GiveUp
  BY DEF Failed, Same
<1>2. PICK n \in 1..Len(todo) + 1 : todo' = SubSeq(todo, n, Len(todo))
  BY <1>1 DEF GiveUp
<1>3. Queue(call, todo')
  BY <1>2, QueueRest DEF FilesInv, FileTypes
<1>4. FileTypes' /\ Spared'
  BY <1>1, <1>3, WorldKept DEF FilesInv
<1>5. Covered'
  BY <1>1 DEF GiveUp, Covered, Same, Opt
<1> QED BY <1>4, <1>5 DEF FilesInv

\* A step that looks and puts more work in front.
LEMMA LookedKeeps ==
    ASSUME FilesInv, todo # <<>>, NEW work, Queue(call, work), Then(work), Looked,
           call.tool = "rm" /\ ~Opt("f") => \A q \in Paths : node[q] # NoNode /\ Covers(todo[1], q) => \E k \in DOMAIN work : Covers(work[k], q)
    PROVE  FilesInv'
<1>1. Same /\ node' = node /\ inode' = inode /\ status' = status /\ todo' = work \o Tail(todo)
  BY DEF Looked, Same, Then
<1>2. Queue(call, todo')
  BY <1>1, HeadIs, QueueJoins DEF FilesInv
<1>3. FileTypes' /\ Spared'
  BY <1>1, <1>2, WorldKept DEF FilesInv
<1>4. Covered'
  BY <1>1, CoveredNext
<1> QED BY <1>3, <1>4 DEF FilesInv

\* A directory has what is in it: a file has nothing.
LEMMA NothingInFile ==
    ASSUME PathsOK, Here, NEW p \in Paths, Kind(p) # "dir", NEW q \in Paths, Under(q, p), node[q] # NoNode
    PROVE  q = p
<1>1. SUFFICES ASSUME q # p PROVE FALSE
  OBVIOUS
<1>2. PICK c \in Children(p) : Under(q, c)
  BY <1>1, EntryAbove
<1>3. c \in Paths /\ Len(c) = Len(p) + 1 /\ Under(c, p) /\ node[c] # NoNode
  BY DEF Children
<1>4. Len(p) \in Nat /\ Len(p) > 0
  BY PathIs
<1>5. Dir(c) = p
  BY <1>3, <1>4 DEF Dir, Under
<1>6. Kind(Dir(c)) = "dir"
  BY <1>3, <1>4, KindOf
<1> QED BY <1>5, <1>6

LEMMA OneWork ==
    ASSUME NEW c, NEW w \in Works, WorkFor(c, w)
    PROVE  Queue(c, <<w>>) /\ 1 \in DOMAIN <<w>> /\ <<w>>[1] = w
  BY DEF Queue

LEMMA RemoveKeeps ==
    ASSUME PathsOK, FilesInv, RemovePath
    PROVE  FilesInv'
<1>1. todo # <<>> /\ todo[1].op = "remove" /\ FileTypes /\ Here
  BY DEF RemovePath, Doing, FilesInv, FileTypes
<1>2. Src \in Paths /\ Dst = Src /\ Operand \in Nat /\ WorkFor(call, todo[1]) /\ Queue(call, <<>>) /\ IsCall(call)
  BY <1>1, HeadIs
<1>3. call.tool = "rm" /\ \E s \in Given(call) : Under(Src, s)
  BY <1>1, <1>2 DEF WorkFor, IsCall, Tools, Src
<1>4. PICK s \in Given(call) : Under(Src, s)
  BY <1>3
<1> DEFINE w == Work("delete", Src, Src, Operand)
<1>5. w \in Works /\ WorkFor(call, w) /\ w.op = "delete" /\ w.src = Src
  BY <1>2, <1>3 DEF Work, Works, Ops, WorkFor
<1> HIDE DEF w
<1>6. \A q \in Paths : Covers(todo[1], q) <=> Under(q, Src)
  BY <1>1 DEF Covers, Src
<1>7. CASE Kind(Src) = "none" /\ Opt("f") /\ Proceed /\ Looked
  BY <1>1, <1>2, <1>7, LookedKeeps DEF Proceed
<1>8. CASE Failed
  BY <1>1, <1>8, FailedKeeps
<1>9. CASE Kind(Src) = "dir" /\ Then(Each("remove", Src, Src, Operand) \o <<w>>) /\ Looked
  <2> DEFINE e == Each("remove", Src, Src, Operand)
  <2>1. s \in Paths
    BY <1>2, GivenIs
  <2>2. Queue(call, e) /\ \A c \in Children(Src) : \E k \in DOMAIN e : e[k].op = "remove" /\ e[k].src = c
    BY <1>2, <1>3, <1>4, <2>1, EachIs
  <2>3. Queue(call, <<w>>) /\ 1 \in DOMAIN <<w>> /\ <<w>>[1] = w
    BY <1>5, OneWork
  <2> HIDE DEF e
  <2>4. /\ Queue(call, e \o <<w>>)
        /\ \A k \in DOMAIN e : k \in DOMAIN (e \o <<w>>) /\ (e \o <<w>>)[k] = e[k]
        /\ Len(e) + 1 \in DOMAIN (e \o <<w>>) /\ (e \o <<w>>)[Len(e) + 1] = w
    <3> DEFINE r == <<w>>
    <3>1. Queue(call, r) /\ 1 \in DOMAIN r /\ r[1] = w
      BY <2>3
    <3> HIDE DEF r
    <3>2. /\ Queue(call, e \o r)
          /\ \A k \in DOMAIN e : k \in DOMAIN (e \o r) /\ (e \o r)[k] = e[k]
          /\ Len(e) + 1 \in DOMAIN (e \o r) /\ (e \o r)[Len(e) + 1] = w
      BY <2>2, <3>1, QueueJoins
    <3> QED BY <3>2 DEF r
  <2>5. ASSUME NEW q \in Paths, node[q] # NoNode, Under(q, Src)
        PROVE  \E k \in DOMAIN (e \o <<w>>) : Covers((e \o <<w>>)[k], q)
    <3>1. CASE q = Src
      BY <1>5, <2>4, <3>1 DEF Covers
    <3>2. CASE q # Src
      <4>1. PICK c \in Children(Src) : Under(q, c)
        BY <1>1, <1>2, <2>5, <3>2, EntryAbove
      <4>2. PICK k \in DOMAIN e : e[k].op = "remove" /\ e[k].src = c
        BY <2>2
      <4> QED BY <2>4, <4>1, <4>2 DEF Covers
    <3> QED BY <3>1, <3>2
  <2> QED BY <1>1, <1>6, <1>9, <2>4, <2>5, LookedKeeps DEF e
<1>10. CASE Kind(Src) # "dir" /\ Then(<<w>>) /\ Looked
  <2>1. Queue(call, <<w>>) /\ 1 \in DOMAIN <<w>> /\ <<w>>[1] = w
    BY <1>5, OneWork
  <2>2. ASSUME NEW q \in Paths, node[q] # NoNode, Under(q, Src) PROVE Covers(w, q)
    BY <1>1, <1>2, <1>5, <1>10, <2>2, NothingInFile DEF Covers
  <2>3. \A q \in Paths : node[q] # NoNode /\ Covers(todo[1], q) => \E k \in DOMAIN <<w>> : Covers(<<w>>[k], q)
    BY <1>6, <2>1, <2>2
  <2> QED BY <1>1, <1>10, <2>1, <2>3, LookedKeeps
<1> QED BY <1>7, <1>8, <1>9, <1>10 DEF RemovePath, RmSeen, w

LEMMA DeleteKeeps ==
    ASSUME PathsOK, FilesInv, Delete
    PROVE  FilesInv'
<1>1. todo # <<>> /\ todo[1].op = "delete" /\ FileTypes /\ Spared
  BY DEF Delete, Doing, FilesInv
<1>2. Src \in Paths /\ WorkFor(call, todo[1]) /\ Queue(call, <<>>) /\ Queue(call, Tail(todo)) /\ IsCall(call)
  BY <1>1, HeadIs
<1>3. call.tool = "rm" /\ \E s \in Given(call) : Under(Src, s)
  BY <1>1, <1>2 DEF WorkFor, IsCall, Tools, Src
<1>4. CASE Failed
  BY <1>1, <1>4, FailedKeeps
<1>5. CASE Unnames(Src) /\ Proceed /\ Did
  <2>1. Same /\ status' = status /\ todo' = <<>> \o Tail(todo)
    BY <1>5 DEF Did, Same, Proceed, Then
  <2>2. Queue(call, todo')
    BY <1>2, <2>1, QueueJoins
  <2>3. Src \in Touched(before)
    BY <1>2, <1>3, GivenIs
  <2>4. FileTypes' /\ Spared'
    BY <1>1, <1>2, <1>3, <1>5, <2>1, <2>2, <2>3, UnnamesKept
  <2>5. \A q \in Paths : node'[q] = IF q = Src THEN NoNode ELSE node[q]
    BY <1>1, <1>2, <1>5, UnnamesIs DEF FileTypes
  <2>6. \A q \in Paths : Covers(todo[1], q) => q = Src
    BY <1>1 DEF Covers, Src
  <2>7. Covered'
    BY <1>1, <1>2, <2>1, <2>5, <2>6, CoveredNext
  <2> QED BY <2>4, <2>7 DEF FilesInv
<1> QED BY <1>4, <1>5 DEF Delete, Unnames

LEMMA RmdirKeeps ==
    ASSUME PathsOK, FilesInv, Rmdir
    PROVE  FilesInv'
<1>1. todo # <<>> /\ todo[1].op = "rmdir" /\ FileTypes /\ Spared
  BY DEF Rmdir, Doing, FilesInv
<1>2. Src \in Paths /\ Operand \in Nat /\ WorkFor(call, todo[1]) /\ Queue(call, <<>>) /\ Queue(call, Tail(todo)) /\ IsCall(call)
  BY <1>1, HeadIs
<1>3. call.tool = "rmdir" /\ \E s \in Given(call) : Under(s, Src)
  BY <1>1, <1>2 DEF WorkFor, IsCall, Tools, Src
<1>4. CASE Failed
  BY <1>1, <1>4, FailedKeeps
<1> DEFINE work == IF Opt("p") /\ Len(Src) > 1 THEN <<Work("rmdir", Dir(Src), Dir(Src), Operand)>> ELSE <<>>
<1>5. Queue(call, work)
  <2>1. CASE Opt("p") /\ Len(Src) > 1
    <3> DEFINE w == Work("rmdir", Dir(Src), Dir(Src), Operand)
    <3>1. Dir(Src) \in Paths /\ Under(Src, Dir(Src))
      BY <1>2, <2>1, DirIs
    <3>2. PICK s \in Given(call) : Under(s, Src)
      BY <1>3
    <3>3. s \in Paths
      BY <1>2, GivenIs
    <3>4. Under(s, Dir(Src))
      BY <1>2, <3>1, <3>2, <3>3, UnderTrans
    <3>5. w \in Works /\ WorkFor(call, w)
      BY <1>2, <1>3, <3>1, <3>4 DEF Work, Works, Ops, WorkFor
    <3> HIDE DEF w
    <3>6. Queue(call, <<w>>)
      BY <3>5, OneWork
    <3> QED BY <2>1, <3>6 DEF w
  <2> QED BY <1>2, <2>1
<1> HIDE DEF work
<1>6. CASE Unnames(Src) /\ Then(work) /\ Did
  <2>1. Same /\ status' = status /\ todo' = work \o Tail(todo)
    BY <1>6 DEF Did, Same, Then
  <2>2. Queue(call, todo')
    BY <1>2, <1>5, <2>1, QueueJoins
  <2>3. Src \in Touched(before)
    BY <1>2, <1>3, GivenIs
  <2>4. FileTypes' /\ Spared'
    BY <1>1, <1>2, <1>3, <1>6, <2>1, <2>2, <2>3, UnnamesKept
  <2>5. Covered'
    BY <1>3, <2>1 DEF Covered, Same
  <2> QED BY <2>4, <2>5 DEF FilesInv
<1> QED BY <1>4, <1>6 DEF Rmdir, Unnames, work

\* mkdir -p: the shortest of the paths that are missing is made, if its directory is there.
LEMMA MkdirKeeps ==
    ASSUME PathsOK, FilesInv, SpaceLeft, Mkdir
    PROVE  FilesInv'
<1>1. todo # <<>> /\ todo[1].op = "mkdir" /\ FileTypes /\ Spared /\ Here
  BY DEF Mkdir, Doing, FilesInv, FileTypes
<1>2. /\ Src \in Paths /\ Dst = Src /\ WorkFor(call, todo[1]) /\ Queue(call, todo) /\ Queue(call, <<>>)
      /\ Queue(call, Tail(todo)) /\ IsCall(call)
  BY <1>1, HeadIs
<1>3. call.tool = "mkdir" /\ Src \in Given(call)
  BY <1>1, <1>2 DEF WorkFor, IsCall, Tools, Src
<1>4. CASE Failed
  BY <1>1, <1>4, FailedKeeps
<1>5. CASE Proceed /\ Looked
  BY <1>1, <1>2, <1>3, <1>5, LookedKeeps DEF Proceed
<1> DEFINE new == {q \in Paths : Kind(q) = "none" /\ (q = Dst \/ (Opt("p") /\ Under(Dst, q)))}
           Shortest == CHOOSE q \in new : \A r \in new : Len(q) <= Len(r)
<1>6. ASSUME new # {} PROVE Shortest \in new
  <2> DEFINE lens == {Len(q) : q \in new}
  <2>1. lens \in SUBSET Nat /\ lens # {}
    <3>1. \A q \in new : Len(q) \in Nat
      BY PathIs
    <3> QED BY <1>6, <3>1
  <2> HIDE DEF new
  <2>2. PICK n \in lens : \A m \in lens : n <= m
    BY <2>1, LeastNumber
  <2>3. \E q \in new : \A r \in new : Len(q) <= Len(r)
    BY <2>2
  <2> QED BY <2>3
<1>7. ASSUME NEW q \in new, HasParent(q), Make(q, ADir), IF q = Dst THEN Proceed ELSE UNCHANGED todo, Did
      PROVE  FilesInv'
  <2>1. q \in Paths /\ Kind(q) = "none" /\ Under(Dst, q)
    BY <1>2, UnderSame
  <2> HIDE DEF new
  <2>2. Makes(q, ADir)
    BY <1>7, <2>1 DEF Makes, ADir
  <2>3. q \in Touched(before)
    BY <1>2, <1>3, <2>1, GivenIs
  <2>4. Same /\ status' = status
    BY <1>7 DEF Did, Same
  <2>5. Queue(call, todo')
    <3>1. CASE UNCHANGED todo
      BY <1>2, <3>1
    <3>2. CASE Proceed
      BY <1>2, <3>2, QueueJoins DEF Proceed, Then
    <3> QED BY <1>7, <3>1, <3>2
  <2>6. FileTypes' /\ Spared'
    BY <1>1, <2>2, <2>3, <2>4, <2>5, MakesKept
  <2>7. Covered'
    BY <1>3, <2>4 DEF Covered, Same
  <2> QED BY <2>6, <2>7 DEF FilesInv
<1>8. CASE new # {} /\ HasParent(Shortest) /\ Make(Shortest, ADir)
           /\ (IF Shortest = Dst THEN Proceed ELSE UNCHANGED todo) /\ Did
  <2> HIDE DEF new, Shortest
  <2> QED BY <1>6, <1>7, <1>8
<1>9. (Proceed /\ Looked) \/ Failed \/ (new # {} /\ HasParent(Shortest) /\ Make(Shortest, ADir)
           /\ (IF Shortest = Dst THEN Proceed ELSE UNCHANGED todo) /\ Did)
  BY DEF Mkdir
<1> QED BY <1>4, <1>5, <1>8, <1>9

\* touch makes what is missing, through a link that was there before.
LEMMA TouchKeeps ==
    ASSUME PathsOK, FilesInv, SpaceLeft, Touch
    PROVE  FilesInv'
<1>1. todo # <<>> /\ todo[1].op = "touch" /\ FileTypes /\ Spared /\ Here
  BY DEF Touch, Doing, FilesInv, FileTypes
<1>2. /\ Src \in Paths /\ Dst = Src /\ WorkFor(call, todo[1]) /\ Queue(call, todo) /\ Queue(call, <<>>)
      /\ Queue(call, Tail(todo)) /\ IsCall(call)
  BY <1>1, HeadIs
<1>3. call.tool = "touch" /\ Dst \in Given(call) /\ Dst \in Paths
  BY <1>1, <1>2 DEF WorkFor, IsCall, Tools, Src
<1>4. CASE Failed
  BY <1>1, <1>4, FailedKeeps
<1>5. CASE Proceed /\ Looked
  BY <1>1, <1>2, <1>3, <1>5, LookedKeeps DEF Proceed
<1>6. Final(Dst) \in Touched(before)
  <2>1. Dst \in Touched(before) /\ FinalIn(before, Dst) \in Touched(before)
    <3>1. Under(Dst, Dst)
      BY <1>3, UnderSame
    <3> QED BY <1>2, <1>3, <3>1, GivenIs
  <2>2. CASE Kind(Dst) # "link"
    BY <2>1, <2>2 DEF Final, FinalIn, Kind
  <2>3. CASE Kind(Dst) = "link"
    <3>1. node[Dst] # NoNode /\ inode[node[Dst]].kind = "link" /\ node[Dst] = before.node[Dst]
      BY <1>1, <1>3, <2>3, KindOf DEF Spared
    <3>2. before.node[Dst] \in Ids /\ before.inode[before.node[Dst]].kind \in Kinds
      BY <1>1, <1>3, <3>1 DEF FileTypes, Tree
    <3>3. before.inode[before.node[Dst]].kind # "free"
      BY <3>2 DEF Kinds
    <3>4. inode[node[Dst]] = before.inode[before.node[Dst]]
      BY <1>1, <3>1, <3>2, <3>3 DEF Spared
    <3>5. KindIn(before, Dst) = "link"
      BY <1>3, <3>1, <3>4 DEF KindIn, NodeIn
    <3>6. FinalIn(before, Dst) = before.inode[before.node[Dst]].to /\ Final(Dst) = inode[node[Dst]].to
      BY <2>3, <3>5 DEF Final, FinalIn, Kind, Current
    <3> QED BY <2>1, <3>4, <3>6
  <2> QED BY <2>2, <2>3
<1>7. CASE ~Present(Dst) /\ HasParent(Final(Dst)) /\ Make(Final(Dst), AFile("")) /\ Proceed /\ Did
  <2>1. Makes(Final(Dst), AFile(""))
    BY <1>7 DEF Makes, AFile, Present
  <2>2. Same /\ status' = status
    BY <1>7 DEF Did, Same
  <2>3. Queue(call, todo')
    BY <1>2, <1>7, QueueJoins DEF Proceed, Then
  <2>4. FileTypes' /\ Spared'
    BY <1>1, <1>6, <2>1, <2>2, <2>3, MakesKept
  <2>5. Covered'
    BY <1>3, <2>2 DEF Covered, Same
  <2> QED BY <2>4, <2>5 DEF FilesInv
<1> QED BY <1>4, <1>5, <1>7 DEF Touch

LEMMA FilesStep ==
    ASSUME PathsOK, FilesInv, SpaceLeft, [FilesNext]_files
    PROVE  FilesInv'
<1>1. ASSUME NEW op, op \notin Ops PROVE ~Doing(op)
  <2>1. SUFFICES ASSUME todo # <<>>, todo[1].op = op PROVE FALSE
    BY DEF Doing
  <2>2. FileTypes
    BY DEF FilesInv
  <2> QED BY <1>1, <2>1, <2>2, HeadIs
<1>2. \A op \in {"copy", "copylist", "create", "write", "mkdirall", "unlink", "symlink", "link", "move", "rename",
                 "copytree", "treelist", "removeall"} : ~Doing(op)
  <2>1. \A op \in {"copy", "copylist", "create", "write", "mkdirall", "unlink", "symlink", "link", "move", "rename",
                   "copytree", "treelist", "removeall"} : op \notin Ops
    BY DEF Ops
  <2> QED BY <1>1, <2>1
<1>3. ~(CopyMissing \/ CopyOmitted \/ CopyLink \/ CopyDir \/ CopyAsLink \/ CopyFile \/ CopyList \/ Create \/ WriteData)
  BY <1>2 DEF CopyMissing, CopyOmitted, CopyLink, CopyDir, CopyAsLink, CopyFile, CopyList, Create, WriteData
<1>4. ~(WriteFails \/ MkdirAll \/ Unlink \/ Symlink \/ Link \/ Move \/ Rename)
  BY <1>2 DEF WriteFails, MkdirAll, Unlink, Symlink, Link, Move, Rename
<1>5. ~(CopyThenRemove \/ CopyTree \/ TreeList \/ RemoveAll)
  BY <1>2 DEF CopyThenRemove, CopyTree, TreeList, RemoveAll
<1>6. CASE UNCHANGED files
  <2>1. Same /\ node' = node /\ inode' = inode /\ todo' = todo /\ status' = status
    BY <1>6 DEF files, Same
  <2>2. FileTypes' /\ Spared'
    BY <2>1, WorldKept DEF FilesInv, FileTypes
  <2>3. Covered'
    BY <2>1 DEF FilesInv, Covered, Same, Opt
  <2> QED BY <2>2, <2>3 DEF FilesInv
<1>7. CASE RemovePath
  BY <1>7, RemoveKeeps
<1>8. CASE Delete
  BY <1>8, DeleteKeeps
<1>9. CASE Mkdir
  BY <1>9, MkdirKeeps
<1>10. CASE Rmdir
  BY <1>10, RmdirKeeps
<1>11. CASE Touch
  BY <1>11, TouchKeeps
<1>12. FilesEnd => UNCHANGED files
  BY DEF FilesEnd
<1> QED BY <1>3, <1>4, <1>5, <1>6, <1>7, <1>8, <1>9, <1>10, <1>11, <1>12 DEF FilesNext

LEMMA FilesStart ==
    ASSUME PathsOK, NEW calls, \A c \in calls : IsCall(c), NEW trees, \A t \in trees : Tree(t), FilesInit(calls, trees)
    PROVE  FilesInv
<1>1. IsCall(call) /\ before = Current
  BY DEF FilesInit
<1>2. Here
  <2>1. PICK t \in trees : node = t.node /\ inode = t.inode
    BY DEF FilesInit
  <2>2. \A q : KindIn(Current, q) = KindIn(t, q)
    BY <2>1 DEF KindIn, NodeIn, Current
  <2>3. Tree(t)
    OBVIOUS
  <2>4. Current.node = t.node /\ Current.inode = t.inode
    BY <2>1 DEF Current
  <2> QED BY <2>2, <2>3, <2>4 DEF Here, Tree
<1>3. call.tool \in Tools /\ call.operands \in Seq(Paths)
  BY <1>1 DEF IsCall
<1>4. /\ status = 0
      /\ todo = [k \in 1..Len(call.operands) |-> Work(FirstOp(call.tool), call.operands[k], call.operands[k], k)]
  BY <1>3 DEF FilesInit, Tools
<1> DEFINE n == Len(call.operands)
           o == FirstOp(call.tool)
<1>5. n \in Nat /\ \A k \in 1..n : call.operands[k] \in Paths /\ call.operands[k] \in Given(call)
  BY <1>3 DEF Given
<1>6. o = IF call.tool = "rm" THEN "remove" ELSE call.tool
  BY <1>3 DEF FirstOp, Tools
<1> HIDE DEF n, o
<1>7. ASSUME NEW k \in 1..n
      PROVE  todo[k] = [op |-> o, src |-> call.operands[k], dst |-> call.operands[k], operand |-> k]
             /\ todo[k] \in Works /\ WorkFor(call, todo[k])
  <2>1. todo[k] = [op |-> o, src |-> call.operands[k], dst |-> call.operands[k], operand |-> k]
    BY <1>4 DEF Work, n, o
  <2>2. call.operands[k] \in Paths /\ call.operands[k] \in Given(call) /\ Under(call.operands[k], call.operands[k])
    BY <1>5, UnderSame
  <2>3. o \in Ops
    BY <1>3, <1>6 DEF Tools, Ops
  <2>4. k \in Nat
    BY <1>5
  <2>5. todo[k] \in Works
    BY <2>1, <2>2, <2>3, <2>4 DEF Works
  <2>6. WorkFor(call, todo[k])
    BY <1>6, <2>1, <2>2 DEF WorkFor
  <2> QED BY <2>1, <2>5, <2>6
<1>8. todo \in Seq(Works) /\ DOMAIN todo = 1..n
  <2>1. todo = [k \in 1..n |-> Work(o, call.operands[k], call.operands[k], k)]
    BY <1>4 DEF n, o
  <2>2. DOMAIN todo = 1..n /\ todo = [k \in 1..n |-> todo[k]]
    BY <2>1
  <2>3. todo \in [1..n -> Works]
    BY <1>7, <2>2
  <2> QED BY <1>5, <2>2, <2>3
<1>9. FileTypes
  <2>1. Queue(call, todo)
    BY <1>7, <1>8 DEF Queue
  <2>2. Tree(before) /\ Ids = DOMAIN before.inode
    BY <1>1, <1>2 DEF Here, Current, Ids
  <2> QED BY <1>1, <1>2, <2>1, <2>2 DEF FileTypes
<1>10. Spared
  <2>1. before.node = node /\ before.inode = inode
    BY <1>1 DEF Current
  <2> QED BY <2>1 DEF Spared
<1>11. Covered
  <2>1. SUFFICES ASSUME call.tool = "rm", NEW q \in Paths, NEW s \in Given(call), Under(q, s)
                 PROVE  \E k \in DOMAIN todo : Covers(todo[k], q)
    BY DEF Covered
  <2>2. PICK k \in DOMAIN call.operands : s = call.operands[k]
    BY DEF Given
  <2>3. k \in 1..n
    BY <1>3 DEF n
  <2>4. todo[k].op = "remove" /\ todo[k].src = s
    <3>1. todo[k] = [op |-> o, src |-> call.operands[k], dst |-> call.operands[k], operand |-> k]
      BY <1>7, <2>3
    <3>2. o = "remove"
      BY <1>6, <2>1
    <3>3. todo[k] = [op |-> "remove", src |-> s, dst |-> s, operand |-> k]
      BY <2>2, <3>1, <3>2
    <3> QED BY <3>3
  <2> QED BY <1>8, <2>1, <2>3, <2>4 DEF Covers
<1> QED BY <1>9, <1>10, <1>11 DEF FilesInv

LEMMA TreeIs ==
    ASSUME PathsOK, Here
    PROVE  TreeHolds
<1>1. ASSUME NEW p \in Paths, node[p] # NoNode PROVE HasParent(p)
  <2>1. Len(p) \in Nat /\ Len(p) > 0
    BY PathIs
  <2>2. Len(p) = 1 \/ Len(p) > 1
    <3>1. \A n \in Nat : n > 0 => n = 1 \/ n > 1
      OBVIOUS
    <3> QED BY <2>1, <3>1
  <2> QED BY <1>1, <2>2, KindOf DEF HasParent
<1> QED BY <1>1 DEF TreeHolds

LEMMA FilesSafe ==
    ASSUME PathsOK, FilesInv
    PROVE  FilesRight
<1>1. FileTypes /\ Spared /\ Covered /\ IsCall(call) /\ Here /\ Tree(before) /\ Ids = DOMAIN before.inode
  BY DEF FilesInv, FileTypes
<1>2. call.tool # "cp" /\ call.tool # "mv" /\ Given(call) = Operands
  BY <1>1, GivenIs DEF IsCall, Tools
<1>3. MoveKeepsData /\ MoveIsWhole /\ CopyComplete /\ NamesTogether
  BY <1>2 DEF MoveKeepsData, MoveIsWhole, CopyComplete, NamesTogether, Copied
<1>4. OthersUntouched
  <2>1. ASSUME NEW p \in Paths \ Touched(before), node[p] # NoNode PROVE inode[node[p]] = before.inode[node[p]]
    <3>1. node[p] = before.node[p]
      BY <1>1 DEF Spared
    <3>2. before.node[p] \in DOMAIN before.inode /\ before.inode[before.node[p]].kind \in Kinds
      BY <1>1, <2>1, <3>1 DEF Tree
    <3>3. "free" \notin Kinds
      BY DEF Kinds
    <3>4. before.inode[before.node[p]].kind # "free"
      BY <3>2, <3>3
    <3> QED BY <1>1, <3>1, <3>2, <3>4 DEF Spared
  <2> QED BY <1>1, <2>1 DEF OthersUntouched, Spared
<1>5. RmComplete
  <2>1. SUFFICES ASSUME call.tool = "rm", todo = <<>>, status = 0, ~Opt("f"), NEW p \in Paths, NEW s \in Operands, Under(p, s)
                 PROVE  node[p] = NoNode
    BY DEF RmComplete, Succeeded
  <2>2. DOMAIN todo = {}
    BY <2>1
  <2> QED BY <1>1, <1>2, <2>1, <2>2 DEF Covered
<1>6. TreeHolds
  BY <1>1, TreeIs
<1> QED BY <1>3, <1>4, <1>5, <1>6 DEF FilesRight

\* rm, mkdir, rmdir and touch, with any options and operands on any tree, touch nothing they
\* were not told of, in any state they may die in; no file is ever left without its directory,
\* and an rm that succeeds, without -f to hide an error, has left nothing of its operands.
\* (removePath, removeDir, mkdirParents, mkdirSingle, rmdir.Run, touch.Run)
THEOREM FilesHold ==
    ASSUME PathsOK, NEW calls, \A c \in calls : IsCall(c), NEW trees, \A t \in trees : Tree(t)
    PROVE  FilesInit(calls, trees) /\ [][FilesNext]_files /\ []SpaceLeft => []FilesRight
<1>1. FilesInit(calls, trees) => FilesInv
  BY FilesStart
<1>2. FilesInv /\ SpaceLeft /\ [FilesNext]_files => FilesInv'
  BY FilesStep
<1>3. FilesInv => FilesRight
  BY FilesSafe
<1> QED BY <1>1, <1>2, <1>3, PTL

-----------------------------------------------------------------------------
(* Where a path goes.                                                       *)

LEMMA MovedIs ==
    ASSUME PathsOK, NEW p \in Paths, NEW q \in Paths, NEW r \in Paths, Under(p, q)
    PROVE  LET m == Moved(p, q, r) IN
           /\ m \in Seq(Names) /\ Len(m) = Len(r) + (Len(p) - Len(q))
           /\ \A i \in 1..Len(r) : m[i] = r[i]
           /\ \A i \in 1..Len(p) - Len(q) : m[Len(r) + i] = p[Len(q) + i]
<1>1. /\ p \in Seq(Names) /\ q \in Seq(Names) /\ r \in Seq(Names)
      /\ Len(p) \in Nat /\ Len(q) \in Nat /\ Len(r) \in Nat /\ Len(q) <= Len(p)
  BY PathIs, UnderIs
<1> DEFINE s == SubSeq(p, Len(q) + 1, Len(p))
<1>2. s \in Seq(Names) /\ Len(s) = Len(p) - Len(q) /\ \A i \in 1..Len(p) - Len(q) : s[i] = p[Len(q) + i]
  BY <1>1
<1> HIDE DEF s
<1> DEFINE m == r \o s
<1>3. /\ m \in Seq(Names) /\ Len(m) = Len(r) + (Len(p) - Len(q))
      /\ \A i \in 1..Len(r) : m[i] = r[i]
      /\ \A i \in 1..Len(s) : m[Len(r) + i] = s[i]
  <2>1. /\ m \in Seq(Names) /\ Len(m) = Len(r) + Len(s)
        /\ \A i \in 1..Len(r) + Len(s) : m[i] = IF i <= Len(r) THEN r[i] ELSE s[i - Len(r)]
    BY <1>1, <1>2, ConcatProperties
  <2> HIDE DEF m
  <2>2. ASSUME NEW i \in 1..Len(r) PROVE m[i] = r[i]
    <3>1. i \in 1..Len(r) + Len(s) /\ i <= Len(r)
      BY <1>1, <1>2
    <3> QED BY <2>1, <3>1
  <2>3. ASSUME NEW i \in 1..Len(s) PROVE m[Len(r) + i] = s[i]
    <3>1. Len(r) + i \in 1..Len(r) + Len(s) /\ ~(Len(r) + i <= Len(r)) /\ (Len(r) + i) - Len(r) = i
      BY <1>1, <1>2
    <3> QED BY <2>1, <3>1
  <2> QED BY <1>2, <2>1, <2>2, <2>3
<1> HIDE DEF m
<1>4. \A i \in 1..Len(p) - Len(q) : m[Len(r) + i] = p[Len(q) + i]
  BY <1>2, <1>3
<1>5. Moved(p, q, r) = m
  BY DEF Moved, m, s
<1> QED BY <1>3, <1>4, <1>5

\* There and back.
LEMMA MovedBack ==
    ASSUME PathsOK, NEW p \in Paths, NEW q \in Paths, NEW r \in Paths, Under(p, q), Moved(p, q, r) \in Paths
    PROVE  Under(Moved(p, q, r), r) /\ Moved(Moved(p, q, r), r, q) = p /\ (Moved(p, q, r) = r => p = q)
<1> DEFINE m == Moved(p, q, r)
<1>1. /\ p \in Seq(Names) /\ q \in Seq(Names) /\ r \in Seq(Names)
      /\ Len(p) \in Nat /\ Len(q) \in Nat /\ Len(r) \in Nat /\ Len(q) <= Len(p) /\ \A i \in 1..Len(q) : p[i] = q[i]
  BY PathIs, UnderIs
<1>2. /\ m \in Seq(Names) /\ Len(m) = Len(r) + (Len(p) - Len(q))
      /\ \A i \in 1..Len(r) : m[i] = r[i]
      /\ \A i \in 1..Len(p) - Len(q) : m[Len(r) + i] = p[Len(q) + i]
  BY MovedIs
<1> HIDE DEF m
<1>3. m \in Paths
  BY DEF m
<1>4. Len(r) <= Len(m)
  BY <1>1, <1>2
<1>5. Under(m, r)
  BY <1>2, <1>3, <1>4, UnderIs
<1> DEFINE b == Moved(m, r, q)
<1>6. /\ b \in Seq(Names) /\ Len(b) = Len(q) + (Len(m) - Len(r))
      /\ \A i \in 1..Len(q) : b[i] = q[i]
      /\ \A i \in 1..Len(m) - Len(r) : b[Len(q) + i] = m[Len(r) + i]
  BY <1>3, <1>5, MovedIs
<1> HIDE DEF b
<1>7. Len(m) - Len(r) = Len(p) - Len(q) /\ Len(b) = Len(p)
  BY <1>1, <1>2, <1>6
<1>8. ASSUME NEW i \in 1..Len(p) PROVE b[i] = p[i]
  <2>1. CASE i <= Len(q)
    BY <1>1, <1>6, <2>1
  <2>2. CASE i > Len(q)
    <3>1. i - Len(q) \in 1..Len(p) - Len(q) /\ Len(q) + (i - Len(q)) = i
      BY <1>1, <2>2
    <3>2. b[Len(q) + (i - Len(q))] = m[Len(r) + (i - Len(q))]
      BY <1>6, <1>7, <3>1
    <3>3. m[Len(r) + (i - Len(q))] = p[Len(q) + (i - Len(q))]
      BY <1>2, <3>1
    <3> QED BY <3>1, <3>2, <3>3
  <2>3. i <= Len(q) \/ i > Len(q)
    BY <1>1
  <2> QED BY <2>1, <2>2, <2>3
<1>9. b = p
  BY <1>1, <1>6, <1>7, <1>8, SeqEqual
<1>10. m = r => p = q
  <2>1. SUFFICES ASSUME m = r PROVE p = q
    OBVIOUS
  <2>2. Len(p) = Len(q)
    BY <1>1, <1>2, <2>1
  <2> QED BY <1>1, <2>2, SeqEqual
<1> QED BY <1>5, <1>9, <1>10 DEF m, b

\* The directory goes along.
LEMMA MovedDir ==
    ASSUME PathsOK, NEW p \in Paths, NEW q \in Paths, NEW r \in Paths, Under(p, q), p # q, Moved(p, q, r) \in Paths
    PROVE  /\ Len(p) > 1 /\ Len(Moved(p, q, r)) > 1 /\ Dir(p) \in Paths /\ Under(Dir(p), q)
           /\ Moved(Dir(p), q, r) = Dir(Moved(p, q, r)) /\ Dir(Moved(p, q, r)) \in Paths
<1> DEFINE m == Moved(p, q, r)
<1>1. /\ p \in Seq(Names) /\ q \in Seq(Names) /\ r \in Seq(Names)
      /\ Len(p) \in Nat /\ Len(q) \in Nat /\ Len(r) \in Nat /\ Len(q) > 0 /\ Len(r) > 0
      /\ Len(q) <= Len(p) /\ \A i \in 1..Len(q) : p[i] = q[i]
  BY PathIs, UnderIs
<1>2. Len(q) # Len(p)
  <2>1. SUFFICES ASSUME Len(q) = Len(p) PROVE q = p
    OBVIOUS
  <2> QED BY <1>1, <2>1, SeqEqual
<1>3. /\ m \in Seq(Names) /\ Len(m) = Len(r) + (Len(p) - Len(q))
      /\ \A i \in 1..Len(r) : m[i] = r[i]
      /\ \A i \in 1..Len(p) - Len(q) : m[Len(r) + i] = p[Len(q) + i]
  BY MovedIs
<1> HIDE DEF m
<1>4. m \in Paths
  BY DEF m
<1>5. Len(p) > 1 /\ Len(m) > 1
  BY <1>1, <1>2, <1>3
<1> DEFINE d == Dir(p)
           e == Dir(m)
<1>6. d \in Paths /\ Len(d) = Len(p) - 1 /\ Under(p, d) /\ Under(d, q)
  BY <1>5, DirIs
<1>7. e \in Paths /\ Len(e) = Len(m) - 1 /\ Under(m, e)
  BY <1>4, <1>5, DirIs
<1> HIDE DEF d, e
<1>8. d \in Seq(Names) /\ e \in Seq(Names) /\ \A i \in 1..Len(p) - 1 : p[i] = d[i]
  <2>1. d \in Seq(Names) /\ e \in Seq(Names)
    BY <1>6, <1>7, PathIs
  <2>2. \A i \in 1..Len(d) : p[i] = d[i]
    BY <1>6, UnderIs
  <2> QED BY <1>6, <2>1, <2>2
<1>9. \A i \in 1..Len(m) - 1 : m[i] = e[i]
  <2>1. \A i \in 1..Len(e) : m[i] = e[i]
    BY <1>4, <1>7, UnderIs
  <2> QED BY <1>7, <2>1
<1> DEFINE n == Moved(d, q, r)
<1>10. /\ n \in Seq(Names) /\ Len(n) = Len(r) + (Len(d) - Len(q))
       /\ \A i \in 1..Len(r) : n[i] = r[i]
       /\ \A i \in 1..Len(d) - Len(q) : n[Len(r) + i] = d[Len(q) + i]
  BY <1>6, MovedIs
<1> HIDE DEF n
<1>11. Len(n) = Len(e) /\ Len(e) = Len(r) + (Len(p) - 1 - Len(q)) /\ Len(d) - Len(q) = Len(p) - 1 - Len(q)
  BY <1>1, <1>3, <1>6, <1>7, <1>10
<1>12. ASSUME NEW i \in 1..Len(e) PROVE n[i] = e[i]
  <2>0. i \in 1..Len(m) - 1 /\ i \in Nat
    BY <1>1, <1>3, <1>7
  <2>1. CASE i <= Len(r)
    <3>1. n[i] = r[i] /\ m[i] = r[i] /\ m[i] = e[i]
      BY <1>1, <1>3, <1>9, <1>10, <2>0, <2>1
    <3> QED BY <3>1
  <2>2. CASE i > Len(r)
    <3> DEFINE k == i - Len(r)
    <3>1. k \in 1..Len(p) - 1 - Len(q) /\ k \in 1..Len(p) - Len(q) /\ Len(r) + k = i /\ Len(q) + k \in 1..Len(p) - 1
      BY <1>1, <1>2, <1>11, <2>0, <2>2
    <3> HIDE DEF k
    <3>2. n[Len(r) + k] = d[Len(q) + k]
      BY <1>10, <1>11, <3>1
    <3>3. d[Len(q) + k] = p[Len(q) + k]
      BY <1>8, <3>1
    <3>4. m[Len(r) + k] = p[Len(q) + k]
      BY <1>3, <3>1
    <3>5. m[i] = e[i]
      BY <1>9, <2>0
    <3> QED BY <3>1, <3>2, <3>3, <3>4, <3>5
  <2>3. i <= Len(r) \/ i > Len(r)
    BY <1>1, <2>0
  <2> QED BY <2>1, <2>2, <2>3
<1>13. n = e
  BY <1>8, <1>10, <1>11, <1>12, SeqEqual
<1> QED BY <1>5, <1>6, <1>7, <1>13 DEF m, d, e, n

\* Of two paths that one is in, one is in the other.
LEMMA UnderBoth ==
    ASSUME PathsOK, NEW p \in Paths, NEW q \in Paths, NEW r \in Paths, Under(p, q), Under(p, r)
    PROVE  Under(q, r) \/ Under(r, q)
<1>1. Len(q) \in Nat /\ Len(r) \in Nat /\ (Len(q) <= Len(r) \/ Len(r) <= Len(q))
  BY PathIs
<1>2. (\A i \in 1..Len(q) : p[i] = q[i]) /\ (\A i \in 1..Len(r) : p[i] = r[i])
  BY UnderIs
<1>3. CASE Len(r) <= Len(q)
  <2>1. \A i \in 1..Len(r) : q[i] = r[i]
    BY <1>1, <1>2, <1>3
  <2> QED BY <1>3, <2>1, UnderIs
<1>4. CASE Len(q) <= Len(r)
  <2>1. \A i \in 1..Len(q) : r[i] = q[i]
    BY <1>1, <1>2, <1>4
  <2> QED BY <1>4, <2>1, UnderIs
<1> QED BY <1>1, <1>3, <1>4

-----------------------------------------------------------------------------
(* mv by rename: the calls.                                                 *)

Args == 1..Len(call.operands)
From(k) == call.operands[k]
To(k) == IF KindIn(before, FinalIn(before, call.dest)) = "dir" THEN Append(call.dest, Base(From(k))) ELSE call.dest
\* One is in the other.
Nested(p, q) == Under(p, q) \/ Under(q, p)
\* mv, unless MV_FORCE_COPY is set.  No operand or target is inside another: mv -f d d/f
\* removes d/f before the rename fails.
IsMove ==
    /\ call.tool = "mv" /\ ~Opt("copy") /\ call.operands \in Seq(Paths) /\ call.dest \in Paths
    /\ \A k \in Args : To(k) \in Paths
    /\ \A j, k \in Args : ~Nested(From(j), To(k)) /\ (j # k => ~Nested(From(j), From(k)) /\ ~Nested(To(j), To(k)))
    /\ \A k \in Args, p \in Paths : Under(p, From(k)) /\ before.node[p] # NoNode => Moved(p, From(k), To(k)) \in Paths
    \* rename(2) does nothing for two names of one file.
    /\ \A k \in Args : before.node[From(k)] # NoNode => before.node[From(k)] # before.node[To(k)]
    \* Whether there is a file behind a link may change while mv runs.
    /\ Kept => \A k \in Args : KindIn(before, To(k)) # "link"

\* The work of operand k, and of those after it.
Job(op, k) == Work(op, From(k), To(k), k)
Jobs == {Job(op, k) : op \in {"move", "unlink", "rename"}, k \in Args}
Rest(k) == [j \in 1..Len(call.operands) - k |-> Job("move", k + j)]

LEMMA ListIs ==
    ASSUME NEW N \in Nat, NEW f, NEW S, DOMAIN f = 1..N, f = [i \in 1..N |-> f[i]], \A i \in 1..N : f[i] \in S
    PROVE  f \in Seq(S) /\ Len(f) = N
<1>1. f \in [1..N -> S]
  OBVIOUS
<1> QED BY <1>1

LEMMA RestIs ==
    ASSUME call.operands \in Seq(Paths), NEW k \in 0..Len(call.operands)
    PROVE  /\ Rest(k) \in Seq(Jobs) /\ Len(Rest(k)) = Len(call.operands) - k
           /\ Rest(k) = <<>> <=> k = Len(call.operands)
           /\ k < Len(call.operands) => Rest(k) # <<>> /\ Rest(k)[1] = Job("move", k + 1) /\ Tail(Rest(k)) = Rest(k + 1)
<1> DEFINE n == Len(call.operands)
<1>1. n \in Nat
  OBVIOUS
<1>2. \A j \in 1..n - k : k + j \in Args /\ Job("move", k + j) \in Jobs
  BY <1>1 DEF Args, Jobs
<1>3. Rest(k) \in Seq(Jobs) /\ Len(Rest(k)) = n - k /\ \A j \in 1..n - k : Rest(k)[j] = Job("move", k + j)
  <2>1. Rest(k) = [j \in 1..n - k |-> Job("move", k + j)] /\ n - k \in Nat
    BY <1>1 DEF Rest
  <2>2. DOMAIN Rest(k) = 1..n - k /\ \A j \in 1..n - k : Rest(k)[j] = Job("move", k + j)
    BY <2>1
  <2>3. Rest(k) = [j \in 1..n - k |-> Rest(k)[j]]
    BY <2>1
  <2>4. \A j \in 1..n - k : Rest(k)[j] \in Jobs
    BY <1>2, <2>2
  <2> QED BY <2>1, <2>2, <2>3, <2>4, ListIs
<1>4. Rest(k) = <<>> <=> k = n
  BY <1>1, <1>3
<1>5. ASSUME k < n PROVE Rest(k)[1] = Job("move", k + 1) /\ Tail(Rest(k)) = Rest(k + 1)
  <2>1. 1 \in 1..n - k
    BY <1>1, <1>5
  <2>2. Tail(Rest(k)) \in Seq(Jobs) /\ Len(Tail(Rest(k))) = n - (k + 1)
        /\ \A j \in 1..n - (k + 1) : Tail(Rest(k))[j] = Rest(k)[j + 1]
    BY <1>1, <1>3, <1>5
  <2>3. Rest(k + 1) \in Seq(Jobs) /\ Len(Rest(k + 1)) = n - (k + 1)
        /\ \A j \in 1..n - (k + 1) : Rest(k + 1)[j] = Job("move", (k + 1) + j)
    <3>1. Rest(k + 1) = [j \in 1..n - (k + 1) |-> Job("move", (k + 1) + j)] /\ n - (k + 1) \in Nat
      BY <1>1, <1>5 DEF Rest
    <3>2. \A j \in 1..n - (k + 1) : (k + 1) + j = k + (j + 1) /\ j + 1 \in 1..n - k
      BY <1>1, <1>5
    <3>3. DOMAIN Rest(k + 1) = 1..n - (k + 1) /\ \A j \in 1..n - (k + 1) : Rest(k + 1)[j] = Job("move", (k + 1) + j)
      BY <3>1
    <3>4. Rest(k + 1) = [j \in 1..n - (k + 1) |-> Rest(k + 1)[j]]
      BY <3>1
    <3>5. \A j \in 1..n - (k + 1) : Rest(k + 1)[j] \in Jobs
      BY <1>2, <3>2, <3>3
    <3> QED BY <3>1, <3>3, <3>4, <3>5, ListIs
  <2>4. ASSUME NEW j \in 1..n - (k + 1) PROVE Tail(Rest(k))[j] = Rest(k + 1)[j]
    <3>1. j + 1 \in 1..n - k /\ k + (j + 1) = (k + 1) + j
      BY <1>1, <1>5, <2>4
    <3> QED BY <1>3, <2>2, <2>3, <3>1
  <2> QED BY <1>3, <2>1, <2>2, <2>3, <2>4, SeqEqual
<1> QED BY <1>1, <1>3, <1>4, <1>5

\* Work in front of the rest.
LEMMA FrontIs ==
    ASSUME NEW S, NEW w \in S, NEW u \in S, NEW r \in Seq(S)
    PROVE  /\ <<w>> \o r # <<>> /\ (<<w>> \o r)[1] = w /\ Tail(<<w>> \o r) = r
           /\ <<u, w>> \o r # <<>> /\ (<<u, w>> \o r)[1] = u /\ Tail(<<u, w>> \o r) = <<w>> \o r
           /\ <<>> \o r = r /\ Len(<<w>> \o r) = Len(r) + 1
<1> DEFINE a == <<w>> \o r
           b == <<u, w>> \o r
<1>1. <<w>> \in Seq(S) /\ <<u, w>> \in Seq(S) /\ Len(<<w>>) = 1 /\ Len(<<u, w>>) = 2 /\ Len(r) \in Nat
  OBVIOUS
<1>2. a \in Seq(S) /\ Len(a) = 1 + Len(r) /\ \A i \in 1..1 + Len(r) : a[i] = IF i <= 1 THEN <<w>>[i] ELSE r[i - 1]
  BY <1>1, ConcatProperties
<1>3. b \in Seq(S) /\ Len(b) = 2 + Len(r) /\ \A i \in 1..2 + Len(r) : b[i] = IF i <= 2 THEN <<u, w>>[i] ELSE r[i - 2]
  BY <1>1, ConcatProperties
<1> HIDE DEF a, b
<1>4. a[1] = w /\ b[1] = u /\ b[2] = w
  <2>1. /\ 1 \in 1..1 + Len(r) /\ 1 \in 1..2 + Len(r) /\ 2 \in 1..2 + Len(r) /\ 1 <= 1 /\ 1 <= 2 /\ 2 <= 2
        /\ <<w>>[1] = w /\ <<u, w>>[1] = u /\ <<u, w>>[2] = w
    BY <1>1
  <2> QED BY <1>2, <1>3, <2>1
<1>5. Tail(a) = r
  <2>1. Tail(a) \in Seq(S) /\ Len(Tail(a)) = Len(r) /\ \A i \in 1..Len(r) : Tail(a)[i] = a[i + 1]
    BY <1>1, <1>2
  <2>2. ASSUME NEW i \in 1..Len(r) PROVE Tail(a)[i] = r[i]
    <3>1. i + 1 \in 1..1 + Len(r) /\ ~(i + 1 <= 1) /\ (i + 1) - 1 = i
      BY <1>1
    <3> QED BY <1>2, <2>1, <3>1
  <2> QED BY <1>1, <2>1, <2>2, SeqEqual
<1>6. Tail(b) = a
  <2>1. Tail(b) \in Seq(S) /\ Len(Tail(b)) = 1 + Len(r) /\ \A i \in 1..1 + Len(r) : Tail(b)[i] = b[i + 1]
    BY <1>1, <1>3
  <2>2. ASSUME NEW i \in 1..1 + Len(r) PROVE Tail(b)[i] = a[i]
    <3>1. CASE i = 1
      BY <1>4, <2>1, <3>1
    <3>2. CASE i # 1
      <4>1. i + 1 \in 1..2 + Len(r) /\ ~(i + 1 <= 2) /\ (i + 1) - 2 = i - 1 /\ ~(i <= 1)
        BY <1>1, <3>2
      <4> QED BY <1>2, <1>3, <2>1, <4>1
    <3> QED BY <3>1, <3>2
  <2> QED BY <1>2, <2>1, <2>2, SeqEqual
<1>7. a # <<>> /\ b # <<>> /\ Len(a) = Len(r) + 1
  BY <1>1, <1>2, <1>3
<1>8. <<>> \o r = r
  OBVIOUS
<1> QED BY <1>4, <1>5, <1>6, <1>7, <1>8 DEF a, b

\* An error drops what is in front of the rest.
LEMMA GivenUp ==
    ASSUME call.operands \in Seq(Paths), NEW k \in Args, NEW op \in {"move", "unlink", "rename"},
           todo \in Seq(Jobs), todo # <<>>, todo[1] = Job(op, k), Tail(todo) = Rest(k), GiveUp
    PROVE  todo' = Rest(k)
<1> DEFINE w == Job(op, k)
           n == Len(call.operands)
<1>1. n \in Nat /\ k \in 0..n /\ k \in 1..n
  BY DEF Args
<1>2. Rest(k) \in Seq(Jobs) /\ Len(Rest(k)) = n - k /\ (k < n => Rest(k)[1] = Job("move", k + 1))
  BY <1>1, RestIs
<1>3. w.operand = k /\ Job("move", k + 1).operand = k + 1
  BY DEF Job, Work
<1> HIDE DEF w
<1>4. /\ Len(todo) = 1 + Len(Rest(k)) /\ todo[1] = w
      /\ \A i \in 1..Len(Rest(k)) : todo[1 + i] = Rest(k)[i]
  <2>1. Len(Tail(todo)) = Len(todo) - 1 /\ (\A i \in 1..Len(Tail(todo)) : Tail(todo)[i] = todo[i + 1]) /\ Len(todo) \in Nat
    BY HeadTailProperties
  <2>2. Len(Rest(k)) = Len(todo) - 1 /\ Len(Rest(k)) \in Nat
    <3>1. Len(Rest(k)) = Len(Tail(todo))
      OBVIOUS
    <3>2. Len(Rest(k)) \in Nat
      BY <1>2, LenProperties
    <3> QED BY <2>1, <3>1, <3>2
  <2>3. Len(todo) = 1 + Len(Rest(k)) /\ \A i \in 1..Len(Rest(k)) : 1 + i = i + 1
    <3> DEFINE l == Len(Rest(k))
               t == Len(todo)
    <3> HIDE DEF l, t
    <3>1. l = t - 1 /\ t \in Nat /\ l \in Nat
      BY <2>1, <2>2 DEF l, t
    <3>2. t = 1 + l /\ \A i \in 1..l : 1 + i = i + 1
      BY <3>1
    <3> QED BY <3>2 DEF l, t
  <2> QED BY <2>1, <2>2, <2>3 DEF w
<1>5. PICK m \in 1..Len(todo) + 1 :
         /\ \A i \in 1..m - 1 : todo[i].operand = Operand
         /\ m <= Len(todo) => todo[m].operand # Operand
         /\ todo' = SubSeq(todo, m, Len(todo))
  BY DEF GiveUp
<1>6. Operand = k /\ Len(todo) = 1 + (n - k)
  BY <1>2, <1>3, <1>4 DEF Operand
<1>7. m # 1
  BY <1>1, <1>3, <1>4, <1>5, <1>6
<1>8. ASSUME m > 2 PROVE FALSE
  <2>1. 1 + 1 \in 1..m - 1 /\ 1 \in 1..Len(Rest(k)) /\ k < n
    BY <1>1, <1>2, <1>4, <1>5, <1>6, <1>8
  <2>2. todo[1 + 1].operand = k
    BY <1>5, <1>6, <2>1
  <2>3. todo[1 + 1] = Rest(k)[1]
    BY <1>4, <2>1
  <2>4. todo[1 + 1].operand = k + 1
    BY <1>2, <1>3, <2>1, <2>3
  <2>5. k # k + 1
    BY <1>1
  <2> QED BY <2>2, <2>4, <2>5
<1>9. m = 2
  <2>1. m \in Nat /\ m >= 1
    BY <1>1, <1>5, <1>6
  <2> QED BY <1>7, <1>8, <2>1
<1> QED BY <1>5, <1>9, TailIsSubSeq

-----------------------------------------------------------------------------
(* mv by rename: the invariant.                                             *)

\* What operand k and its target can be: both what they were; the operand what it was; all of
\* it in the target.
Untouched(k) == \A p \in Paths : Under(p, From(k)) \/ Under(p, To(k)) => node[p] = before.node[p]
Held(k) == \A p \in Paths : Under(p, From(k)) => node[p] = before.node[p]
Gained(k) == \A p \in Paths : Under(p, From(k)) =>
    node[p] = NoNode /\ (Moved(p, From(k), To(k)) \in Paths => node[Moved(p, From(k), To(k))] = before.node[p])
\* The target is kept.
Blocks(k) == Kept /\ KindIn(before, FinalIn(before, To(k))) # "none"
Settled(k) == (Held(k) \/ Gained(k)) /\ (status = 0 => IF Blocks(k) THEN Untouched(k) ELSE Gained(k))
Elsewhere == \A p \in Paths :
    (\A k \in Args : ~Under(p, From(k)) /\ ~Under(p, To(k))) => node[p] = before.node[p]

\* Operand k is next, is to be renamed, or is to be renamed when its target is gone.
MoveNext(k) ==
    /\ todo = Rest(k)
    /\ \A j \in Args : IF j <= k THEN Settled(j) ELSE Untouched(j)
RenameNext(k) ==
    /\ todo = <<Job("rename", k)>> \o Rest(k) /\ ~Blocks(k)
    /\ Held(k) /\ node[To(k)] \in {before.node[To(k)], NoNode}
    /\ \A j \in Args : j # k => IF j <= k THEN Settled(j) ELSE Untouched(j)
UnlinkNext(k) ==
    /\ todo = <<Job("unlink", k), Job("rename", k)>> \o Rest(k) /\ ~Blocks(k)
    /\ Untouched(k)
    /\ \A j \in Args : j # k => IF j <= k THEN Settled(j) ELSE Untouched(j)

Shift ==
    \/ \E k \in 0..Len(call.operands) : MoveNext(k)
    \/ \E k \in Args : RenameNext(k) \/ UnlinkNext(k)
MoveInv == IsMove /\ Here /\ Tree(before) /\ inode = before.inode /\ Elsewhere /\ Shift

-----------------------------------------------------------------------------
(* mv by rename: what a step leaves alone.                                  *)

\* The call and the history do not change, and what is said with them.
LEMMA StillIs ==
    ASSUME call' = call, before' = before, NEW k, NEW op
    PROVE  /\ Args' = Args /\ From(k)' = From(k) /\ To(k)' = To(k) /\ Job(op, k)' = Job(op, k)
           /\ (Blocks(k)' <=> Blocks(k)) /\ (Kept' <=> Kept)
<1>1. From(k)' = From(k) /\ Args' = Args /\ (Kept' <=> Kept)
  BY DEF From, Args, Kept, Opt
<1>2. To(k)' = To(k)
  BY <1>1 DEF To, KindIn, NodeIn, FinalIn
<1>3. Blocks(k)' <=> Blocks(k)
  BY <1>1, <1>2 DEF Blocks, KindIn, NodeIn, FinalIn
<1>4. Job(op, k)' = Job(op, k)
  BY <1>1, <1>2 DEF Job, Work
<1> QED BY <1>1, <1>2, <1>3, <1>4

LEMMA RestStill ==
    ASSUME call' = call, before' = before, NEW k
    PROVE  Rest(k)' = Rest(k)
<1>1. \A j : Job("move", j)' = Job("move", j)
  BY StillIs
<1> QED BY <1>1 DEF Rest

LEMMA MoveStill ==
    ASSUME call' = call, before' = before, IsMove
    PROVE  IsMove'
<1>1. /\ Args' = Args /\ (Kept' <=> Kept) /\ \A k : From(k)' = From(k) /\ To(k)' = To(k)
  BY StillIs
<1>2. call'.tool = "mv" /\ ~Opt("copy")' /\ call'.operands \in Seq(Paths) /\ call'.dest \in Paths
      /\ \A k \in Args : To(k)' \in Paths
  BY <1>1 DEF IsMove, Opt
<1>3. \A j, k \in Args : ~Nested(From(j), To(k))' /\ (j # k => ~Nested(From(j), From(k))' /\ ~Nested(To(j), To(k))')
  <2>1. \A j, k \in Args : ~Nested(From(j), To(k)) /\ (j # k => ~Nested(From(j), From(k)) /\ ~Nested(To(j), To(k)))
    BY DEF IsMove
  <2> QED BY <1>1, <2>1 DEF Nested, Under
<1>4. \A k \in Args, p \in Paths : Under(p, From(k))' /\ before'.node[p] # NoNode => Moved(p, From(k), To(k))' \in Paths
  <2>1. \A k \in Args, p \in Paths : Under(p, From(k)) /\ before.node[p] # NoNode => Moved(p, From(k), To(k)) \in Paths
    BY DEF IsMove
  <2> QED BY <1>1, <2>1 DEF Under, Moved
<1>5. /\ \A k \in Args : before'.node[From(k)'] # NoNode => before'.node[From(k)'] # before'.node[To(k)']
      /\ Kept => \A k \in Args : KindIn(before', To(k)') # "link"
  BY <1>1 DEF IsMove
<1>6. \A k \in Args : KindIn(before, To(k))' = KindIn(before', To(k)')
  BY DEF KindIn, NodeIn
<1> QED BY <1>1, <1>2, <1>3, <1>4, <1>5, <1>6 DEF IsMove

LEMMA ArgIs ==
    ASSUME IsMove, NEW k \in Args
    PROVE  /\ From(k) \in Paths /\ To(k) \in Paths /\ k \in 1..Len(call.operands) /\ Len(call.operands) \in Nat
           /\ call.operands \in Seq(Paths) /\ ~Under(From(k), To(k)) /\ ~Under(To(k), From(k))
  BY DEF IsMove, Args, From, Nested

\* Nothing is in two of the operands and targets.
LEMMA ApartIs ==
    ASSUME PathsOK, IsMove, NEW k \in Args, NEW p \in Paths
    PROVE  /\ Under(p, From(k)) => ~Under(p, To(k))
           /\ \A j \in Args : j # k /\ (Under(p, From(j)) \/ Under(p, To(j))) => ~Under(p, From(k)) /\ ~Under(p, To(k))
<1>1. \A i \in Args : From(i) \in Paths /\ To(i) \in Paths
  BY ArgIs
<1>2. \A i, j \in Args : /\ ~Under(From(i), To(j)) /\ ~Under(To(j), From(i))
                         /\ i # j => /\ ~Under(From(i), From(j)) /\ ~Under(From(j), From(i))
                                     /\ ~Under(To(i), To(j)) /\ ~Under(To(j), To(i))
  BY DEF IsMove, Nested
<1>3. ASSUME NEW q \in Paths, NEW r \in Paths, Under(p, q), Under(p, r) PROVE Under(q, r) \/ Under(r, q)
  BY <1>3, UnderBoth
<1> QED BY <1>1, <1>2, <1>3

\* A step that changes only operand k and its target.
StepAt(k) ==
    /\ call' = call /\ before' = before /\ (status' = 0 => status = 0)
    /\ \A p \in Paths : ~Under(p, From(k)) /\ ~Under(p, To(k)) => node'[p] = node[p]

LEMMA OthersStay ==
    ASSUME PathsOK, IsMove, NEW k \in Args, StepAt(k), NEW j \in Args, j # k
    PROVE  (Untouched(j) => Untouched(j)') /\ (Settled(j) => Settled(j)')
<1>1. call' = call /\ before' = before /\ From(j)' = From(j) /\ To(j)' = To(j) /\ (Blocks(j)' <=> Blocks(j)) /\ (status' = 0 => status = 0)
  BY StillIs DEF StepAt
<1>2. ASSUME NEW p \in Paths, Under(p, From(j)) \/ Under(p, To(j)) PROVE node'[p] = node[p]
  BY <1>2, ApartIs DEF StepAt
<1>3. \A p \in Paths : (Under(p, From(j))' <=> Under(p, From(j))) /\ (Under(p, To(j))' <=> Under(p, To(j)))
                       /\ Moved(p, From(j), To(j))' = Moved(p, From(j), To(j))
  BY <1>1 DEF Under, Moved
<1>4. (Untouched(j) => Untouched(j)') /\ (Held(j) => Held(j)')
  BY <1>1, <1>2, <1>3 DEF Untouched, Held
<1>5. ASSUME Gained(j) PROVE Gained(j)'
  <2>1. ASSUME NEW p \in Paths, Under(p, From(j))
        PROVE  node'[p] = NoNode /\ (Moved(p, From(j), To(j)) \in Paths => node'[Moved(p, From(j), To(j))] = before.node[p])
    <3>1. Moved(p, From(j), To(j)) \in Paths => Under(Moved(p, From(j), To(j)), To(j))
      BY <2>1, ArgIs, MovedBack
    <3> QED BY <1>2, <1>5, <2>1, <3>1 DEF Gained
  <2> QED BY <1>1, <1>3, <2>1 DEF Gained
<1> QED BY <1>1, <1>4, <1>5 DEF Settled

LEMMA ElsewhereStays ==
    ASSUME IsMove, NEW k \in Args, StepAt(k), Elsewhere
    PROVE  Elsewhere'
<1>1. call' = call /\ before' = before /\ Args' = Args /\ \A j : From(j)' = From(j) /\ To(j)' = To(j)
  BY StillIs DEF StepAt
<1>2. \A j, p : (Under(p, From(j))' <=> Under(p, From(j))) /\ (Under(p, To(j))' <=> Under(p, To(j)))
  BY <1>1 DEF Under
<1> QED BY <1>1, <1>2 DEF Elsewhere, StepAt

-----------------------------------------------------------------------------
(* mv by rename: the steps.                                                 *)

\* What the first work of the list is about, and what is after it.
Heads(op, k, r) ==
    /\ todo # <<>> /\ todo \in Seq(Jobs) /\ todo[1] = Job(op, k) /\ Tail(todo) = r
    /\ todo[1].op = op /\ Src = From(k) /\ Dst = To(k) /\ Operand = k

LEMMA JobIs ==
    ASSUME NEW k \in Args, NEW op \in {"move", "unlink", "rename"}
    PROVE  /\ Job(op, k) \in Jobs
           /\ todo # <<>> /\ todo \in Seq(Jobs) /\ todo[1] = Job(op, k) => Heads(op, k, Tail(todo))
<1>1. Job(op, k) = [op |-> op, src |-> From(k), dst |-> To(k), operand |-> k]
  BY DEF Job, Work
<1>2. Job(op, k) \in Jobs
  BY DEF Jobs
<1> QED BY <1>1, <1>2 DEF Heads, Src, Dst, Operand

LEMMA HeadsIs ==
    ASSUME MoveInv, todo # <<>>
    PROVE  \/ \E k \in Args : MoveNext(k - 1) /\ Heads("move", k, Rest(k))
           \/ \E k \in Args : RenameNext(k) /\ Heads("rename", k, Rest(k))
           \/ \E k \in Args : UnlinkNext(k) /\ Heads("unlink", k, <<Job("rename", k)>> \o Rest(k))
<1> DEFINE n == Len(call.operands)
<1>1. call.operands \in Seq(Paths) /\ n \in Nat /\ Args = 1..n
  BY DEF MoveInv, IsMove, Args
<1>2. ASSUME NEW k \in 0..n, MoveNext(k)
      PROVE  k + 1 \in Args /\ (k + 1) - 1 = k /\ Heads("move", k + 1, Rest(k + 1))
  <2>1. k < n
    <3>1. k # n
      BY <1>1, <1>2, RestIs DEF MoveNext
    <3> QED BY <1>1, <3>1
  <2>2. k + 1 \in Args /\ (k + 1) - 1 = k
    BY <1>1, <2>1
  <2>3. todo \in Seq(Jobs) /\ todo[1] = Job("move", k + 1) /\ Tail(todo) = Rest(k + 1)
    BY <1>1, <1>2, <2>1, RestIs DEF MoveNext
  <2>4. Heads("move", k + 1, Tail(todo))
    BY <2>2, <2>3, JobIs
  <2> QED BY <2>2, <2>3, <2>4
<1>3. ASSUME NEW k \in Args PROVE /\ Rest(k) \in Seq(Jobs) /\ Job("rename", k) \in Jobs /\ Job("unlink", k) \in Jobs
                                  /\ <<Job("rename", k)>> \o Rest(k) \in Seq(Jobs)
                                  /\ <<Job("unlink", k), Job("rename", k)>> \o Rest(k) \in Seq(Jobs)
  <2>1. Rest(k) \in Seq(Jobs) /\ Job("rename", k) \in Jobs /\ Job("unlink", k) \in Jobs
    BY <1>1, RestIs, JobIs
  <2>2. <<Job("rename", k)>> \in Seq(Jobs) /\ <<Job("unlink", k), Job("rename", k)>> \in Seq(Jobs)
    BY <2>1
  <2> QED BY <2>1, <2>2, ConcatProperties
<1>4. ASSUME NEW k \in Args, RenameNext(k) PROVE Heads("rename", k, Rest(k))
  <2>1. todo \in Seq(Jobs) /\ todo[1] = Job("rename", k) /\ Tail(todo) = Rest(k)
    BY <1>3, <1>4, FrontIs DEF RenameNext
  <2>2. Heads("rename", k, Tail(todo))
    BY <2>1, JobIs
  <2> QED BY <2>1, <2>2
<1>5. ASSUME NEW k \in Args, UnlinkNext(k) PROVE Heads("unlink", k, <<Job("rename", k)>> \o Rest(k))
  <2>1. todo \in Seq(Jobs) /\ todo[1] = Job("unlink", k) /\ Tail(todo) = <<Job("rename", k)>> \o Rest(k)
    BY <1>3, <1>5, FrontIs DEF UnlinkNext
  <2>2. Heads("unlink", k, Tail(todo))
    BY <2>1, JobIs
  <2> QED BY <2>1, <2>2
<1> QED BY <1>2, <1>4, <1>5 DEF MoveInv, Shift

\* The parts of the invariant, and where the work then is.
LEMMA MoveInvNext ==
    ASSUME PathsOK, MoveInv, NEW k \in Args, StepAt(k), Here', inode' = inode,
           \/ MoveNext(k)'
           \/ RenameNext(k)' \/ UnlinkNext(k)'
    PROVE  MoveInv'
<1>1. call' = call /\ before' = before /\ IsMove /\ Args' = Args
  BY StillIs DEF StepAt, MoveInv
<1>2. IsMove' /\ Elsewhere'
  BY <1>1, MoveStill, ElsewhereStays DEF MoveInv
<1>3. Tree(before)' /\ inode' = before'.inode
  BY <1>1 DEF MoveInv, Tree, KindIn, NodeIn
<1>4. k \in 0..Len(call'.operands)
  BY <1>1, ArgIs
<1>5. Shift'
  BY <1>1, <1>4 DEF Shift
<1> QED BY <1>2, <1>3, <1>5 DEF MoveInv

\* Where nothing but operand k changes, the others are as they were.
LEMMA RoundOthers ==
    ASSUME PathsOK, IsMove, NEW k \in Args, StepAt(k), NEW m \in Nat,
           \A j \in Args : j # k => IF j <= m THEN Settled(j) ELSE Untouched(j)
    PROVE  \A j \in Args' : j # k => IF j <= m THEN Settled(j)' ELSE Untouched(j)'
<1>1. Args' = Args
  BY StillIs DEF StepAt
<1> QED BY <1>1, OthersStay

\* An operand that was not touched can be held or settled by leaving it alone.
LEMMA HeldIs ==
    ASSUME NEW k, call' = call, before' = before, \A p \in Paths : Under(p, From(k)) => node'[p] = node[p], Held(k)
    PROVE  Held(k)'
<1>1. From(k)' = From(k)
  BY StillIs
<1> QED BY <1>1 DEF Held, Under

LEMMA SameNodes ==
    ASSUME NEW k, call' = call, before' = before, node' = node, Untouched(k)
    PROVE  Untouched(k)' /\ Held(k)'
<1>1. From(k)' = From(k) /\ To(k)' = To(k)
  BY StillIs
<1> QED BY <1>1 DEF Untouched, Held, Under

\* What was said of the beginning can be said of now.
LEMMA KindBefore ==
    ASSUME inode = before.inode, NEW p \in Paths, node[p] = before.node[p]
    PROVE  Kind(p) = KindIn(before, p)
  BY DEF Kind, KindIn, NodeIn, Current

\* mv keeps a target as it would have at the beginning.
LEMMA KeepsIs ==
    ASSUME PathsOK, MoveInv, NEW k \in Args, Dst = To(k), Untouched(k)
    PROVE  Keeps <=> Blocks(k)
<1>1. To(k) \in Paths /\ Under(To(k), To(k))
  BY ArgIs, UnderSame DEF MoveInv
<1>2. node[To(k)] = before.node[To(k)]
  BY <1>1 DEF Untouched
<1>3. Kind(To(k)) = KindIn(before, To(k))
  BY <1>1, <1>2, KindBefore DEF MoveInv
<1>4. ASSUME Kept PROVE Present(To(k)) <=> KindIn(before, FinalIn(before, To(k))) # "none"
  <2>1. KindIn(before, To(k)) # "link"
    BY <1>4 DEF MoveInv, IsMove
  <2> QED BY <1>3, <2>1 DEF Present, Final, FinalIn, Kind
<1>5. Keeps <=> Present(To(k)) /\ Kept
  BY DEF Keeps, Kept
<1> QED BY <1>4, <1>5 DEF Blocks

\* Where the first work is dropped, or what it was about is done.
LEMMA OnToNext ==
    ASSUME PathsOK, MoveInv, NEW k \in Args, StepAt(k), Here', inode' = inode, todo' = Rest(k), Settled(k)',
           \A j \in Args : j # k => IF j <= k THEN Settled(j) ELSE Untouched(j)
    PROVE  MoveInv'
<1>1. call' = call /\ before' = before /\ Args' = Args /\ Rest(k)' = Rest(k) /\ IsMove /\ k \in Nat
  BY StillIs, RestStill, ArgIs DEF StepAt, MoveInv
<1>2. \A j \in Args' : j # k => IF j <= k THEN Settled(j)' ELSE Untouched(j)'
  BY <1>1, RoundOthers
<1>3. \A j \in Args' : IF j <= k THEN Settled(j)' ELSE Untouched(j)'
  <2>1. k <= k
    BY <1>1
  <2> QED BY <1>2, <2>1
<1>4. MoveNext(k)'
  BY <1>1, <1>3 DEF MoveNext
<1> QED BY <1>4, MoveInvNext

LEMMA SameHere ==
    ASSUME Here, node' = node, inode' = inode
    PROVE  Here'
  BY DEF Here, Tree, Current, KindIn, NodeIn

LEMMA MoveFails ==
    ASSUME PathsOK, MoveInv, NEW k \in Args, NEW op \in {"move", "rename"}, Heads(op, k, Rest(k)), Failed, Held(k),
           \A j \in Args : j # k => IF j <= k THEN Settled(j) ELSE Untouched(j)
    PROVE  MoveInv'
<1>1. call' = call /\ before' = before /\ node' = node /\ inode' = inode /\ status' = 1 /\ GiveUp
  BY DEF Failed, GiveUp, MoveInv, IsMove
<1>2. todo' = Rest(k)
  BY <1>1, ArgIs, GivenUp DEF Heads, MoveInv
<1>3. StepAt(k)
  BY <1>1 DEF StepAt
<1>4. Held(k)'
  BY <1>1, HeldIs
<1>5. Settled(k)'
  BY <1>1, <1>4 DEF Settled
<1>6. Here'
  BY <1>1, SameHere DEF MoveInv
<1> QED BY <1>1, <1>2, <1>3, <1>5, <1>6, OnToNext

LEMMA MoveKeeps ==
    ASSUME PathsOK, MoveInv, Move
    PROVE  MoveInv'
<1>1. todo # <<>> /\ todo[1].op = "move"
  BY DEF Move, Doing
<1>2. PICK k \in Args : MoveNext(k - 1) /\ Heads("move", k, Rest(k))
  BY <1>1, HeadsIs DEF Heads
<1>3. Src = From(k) /\ Dst = To(k) /\ Operand = k /\ Tail(todo) = Rest(k) /\ k \in Nat
  BY <1>2, ArgIs DEF Heads, MoveInv
<1>4. \A j \in Args : /\ j # k => IF j <= k THEN Settled(j) ELSE Untouched(j)
                      /\ j = k => Untouched(j)
  <2>1. \A j \in Args : j \in Nat /\ (j <= k - 1 <=> j <= k /\ j # k)
    BY <1>3, ArgIs DEF MoveInv
  <2> QED BY <1>2, <2>1 DEF MoveNext
<1>5. Untouched(k) /\ Held(k)
  BY <1>4 DEF Untouched, Held
<1>6. CASE Failed
  BY <1>2, <1>4, <1>5, <1>6, MoveFails
<1>7. Keeps <=> Blocks(k)
  BY <1>3, <1>5, KeepsIs
<1>8. CASE Looked
  <2>1. call' = call /\ before' = before /\ node' = node /\ inode' = inode /\ status' = status
    BY <1>8 DEF Looked
  <2>2. StepAt(k) /\ Here' /\ Untouched(k)' /\ Held(k)' /\ (Blocks(k)' <=> Blocks(k))
    BY <1>5, <2>1, SameHere, SameNodes, StillIs DEF StepAt, MoveInv
  <2>3. CASE Keeps /\ Proceed
    <3>1. todo' = Rest(k)
      <4>1. Rest(k) \in Seq(Jobs)
        BY <1>2, RestIs, ArgIs DEF MoveInv
      <4> QED BY <1>3, <2>3, <4>1, ConcatEmptySeq DEF Proceed, Then
    <3>2. Settled(k)'
      BY <1>7, <2>2, <2>3 DEF Settled
    <3> QED BY <1>4, <2>1, <2>2, <3>1, <3>2, OnToNext
  <2>4. \A j \in Args' : j # k => IF j <= k THEN Settled(j)' ELSE Untouched(j)'
    BY <1>3, <1>4, <2>2, RoundOthers DEF MoveInv
  <2>5. To(k) \in Paths /\ Under(To(k), To(k)) /\ node[To(k)] = before.node[To(k)]
    BY <1>5, ArgIs, UnderSame DEF MoveInv, Untouched
  <2>6. /\ Job("rename", k)' = Job("rename", k) /\ Job("unlink", k)' = Job("unlink", k) /\ To(k)' = To(k)
        /\ Rest(k)' = Rest(k) /\ Args' = Args
    BY <2>1, StillIs, RestStill
  <2>7. CASE ~Keeps /\ Next2("unlink", "rename")
    <3>1. todo' = <<Job("unlink", k), Job("rename", k)>> \o Rest(k)
      BY <1>3, <2>7 DEF Next2, Then, Job
    <3>2. UnlinkNext(k)'
      BY <1>7, <2>2, <2>4, <2>6, <2>7, <3>1 DEF UnlinkNext
    <3> QED BY <2>1, <2>2, <3>2, MoveInvNext
  <2>8. CASE ~Keeps /\ Then(<<Work("rename", Src, Dst, Operand)>>)
    <3>1. todo' = <<Job("rename", k)>> \o Rest(k)
      BY <1>3, <2>8 DEF Then, Job
    <3>2. node'[To(k)'] \in {before'.node[To(k)'], NoNode}
      BY <2>1, <2>5, <2>6
    <3>3. RenameNext(k)'
      BY <1>7, <2>2, <2>4, <2>6, <2>8, <3>1, <3>2 DEF RenameNext
    <3> QED BY <2>1, <2>2, <3>3, MoveInvNext
  <2>9. \/ Keeps /\ Proceed
        \/ ~Keeps /\ Next2("unlink", "rename")
        \/ ~Keeps /\ Then(<<Work("rename", Src, Dst, Operand)>>)
        \/ Failed
    BY DEF Move
  <2> QED BY <1>6, <2>3, <2>7, <2>8, <2>9
<1> QED BY <1>6, <1>8 DEF Move

LEMMA UnlinkKeeps ==
    ASSUME PathsOK, MoveInv, Unlink
    PROVE  MoveInv'
<1>1. todo # <<>> /\ todo[1].op = "unlink"
  BY DEF Unlink, Doing
<1>2. PICK k \in Args : UnlinkNext(k) /\ Heads("unlink", k, <<Job("rename", k)>> \o Rest(k))
  BY <1>1, HeadsIs DEF Heads
<1>3. Dst = To(k) /\ Tail(todo) = <<Job("rename", k)>> \o Rest(k) /\ k \in Nat /\ To(k) \in Paths /\ Under(To(k), To(k))
  BY <1>2, ArgIs, UnderSame DEF Heads, MoveInv
<1>4. call' = call /\ before' = before /\ inode' = inode /\ status' = status
  BY DEF Unlink, Did
<1>5. Here' /\ (\A q \in Paths : q # To(k) => node'[q] = node[q]) /\ node'[To(k)] \in {node[To(k)], NoNode}
  <2>1. CASE CanRemove(Dst)
    <3>1. Unnames(To(k))
      BY <1>3, <1>4, <2>1 DEF Unnames, Unlink
    <3> QED BY <1>3, <3>1, UnnamesIs DEF MoveInv
  <2>2. CASE ~CanRemove(Dst)
    <3>1. node' = node
      BY <2>2 DEF Unlink
    <3> QED BY <1>4, <3>1, SameHere DEF MoveInv
  <2> QED BY <2>1, <2>2
<1>6. StepAt(k)
  BY <1>3, <1>4, <1>5 DEF StepAt
<1>7. todo' = <<Job("rename", k)>> \o Rest(k)
  <2>1. Rest(k) \in Seq(Jobs) /\ <<Job("rename", k)>> \in Seq(Jobs)
    <3>1. Rest(k) \in Seq(Jobs) /\ Job("rename", k) \in Jobs
      BY <1>2, RestIs, ArgIs, JobIs DEF MoveInv
    <3> QED BY <3>1
  <2>2. Tail(todo) \in Seq(Jobs)
    BY <1>3, <2>1, ConcatProperties
  <2>3. todo' = <<>> \o Tail(todo)
    BY DEF Unlink, Proceed, Then
  <2> QED BY <1>3, <2>2, <2>3, ConcatEmptySeq
<1>8. Untouched(k) /\ Held(k)
  BY <1>2 DEF UnlinkNext, Untouched, Held
<1>9. Held(k)'
  <2>1. \A p \in Paths : Under(p, From(k)) => p # To(k)
    BY <1>3, ApartIs DEF MoveInv
  <2> QED BY <1>4, <1>5, <1>8, <2>1, HeldIs
<1>10. \A j \in Args' : j # k => IF j <= k THEN Settled(j)' ELSE Untouched(j)'
  BY <1>2, <1>3, <1>6, RoundOthers DEF MoveInv, UnlinkNext
<1>11. /\ Job("rename", k)' = Job("rename", k) /\ To(k)' = To(k) /\ Rest(k)' = Rest(k) /\ (Blocks(k)' <=> Blocks(k))
  BY <1>4, StillIs, RestStill
<1>12. node[To(k)] = before.node[To(k)]
  BY <1>3, <1>8 DEF Untouched
<1>13. node'[To(k)'] \in {before'.node[To(k)'], NoNode}
  BY <1>4, <1>5, <1>11, <1>12
<1>14. RenameNext(k)'
  BY <1>2, <1>7, <1>9, <1>10, <1>11, <1>13 DEF RenameNext, UnlinkNext
<1> QED BY <1>4, <1>5, <1>6, <1>14, MoveInvNext

\* rename(2): what was under the operand is under the target, what was there is gone.
LEMMA RenameIs ==
    ASSUME PathsOK, Here, NEW s \in Paths, NEW t \in Paths, ~Under(s, t), ~Under(t, s), Kind(s) # "none", HasParent(t),
           \A p \in Paths : Under(p, s) => ~Under(p, t),
           node' = [p \in Paths |-> CASE Under(p, t) -> NodeIn(Current, Moved(p, t, s))
                                      [] Under(p, s) /\ ~Under(p, t) -> NoNode
                                      [] OTHER -> node[p]],
           inode' = inode
    PROVE  /\ Here'
           /\ \A p \in Paths : ~Under(p, s) /\ ~Under(p, t) => node'[p] = node[p]
           /\ \A p \in Paths : Under(p, s) =>
                node'[p] = NoNode /\ (Moved(p, s, t) \in Paths => node'[Moved(p, s, t)] = node[p])
<1>1. ASSUME NEW p \in Paths
      PROVE  /\ Under(p, t) => node'[p] = IF Moved(p, t, s) \in Paths THEN node[Moved(p, t, s)] ELSE NoNode
             /\ Under(p, s) => node'[p] = NoNode
             /\ ~Under(p, s) /\ ~Under(p, t) => node'[p] = node[p]
  BY DEF NodeIn, Current
<1>2. node \in [Paths -> Nat] /\ NoNode \in Nat
  BY DEF Here, Tree, Current, NoNode
<1>3. node' \in [Paths -> Nat]
  <2>1. \A p \in Paths : node'[p] \in Nat
    BY <1>1, <1>2
  <2>2. node' = [p \in Paths |-> node'[p]]
    OBVIOUS
  <2> QED BY <2>1, <2>2
<1>4. ASSUME NEW p \in Paths, Under(p, s), Moved(p, s, t) \in Paths PROVE node'[Moved(p, s, t)] = node[p]
  <2> DEFINE m == Moved(p, s, t)
  <2>1. Under(m, t) /\ Moved(m, t, s) = p
    BY <1>4, MovedBack
  <2> QED BY <1>1, <1>4, <2>1
\* The directory of what has a name.
<1>5. ASSUME NEW p \in Paths, node'[p] # NoNode
      PROVE  /\ node'[p] \in Ids /\ inode[node'[p]].kind \in Kinds
             /\ Len(p) > 1 => Kind(Dir(p))' = "dir"
  <2>1. ASSUME NEW q \in Paths, NEW r \in Paths, node'[q] = node[r] PROVE Kind(q)' = Kind(r)
    BY <2>1 DEF Kind, KindIn, NodeIn, Current
  <2>2. CASE ~Under(p, s) /\ ~Under(p, t)
    <3>1. node'[p] = node[p] /\ node[p] \in Ids /\ Kind(p) \in Kinds /\ Kind(p) = inode[node[p]].kind
      BY <1>1, <1>5, <2>2, KindOf
    <3>2. ASSUME Len(p) > 1 PROVE Kind(Dir(p))' = "dir"
      <4>1. Dir(p) \in Paths /\ Under(p, Dir(p)) /\ Kind(Dir(p)) = "dir"
        BY <1>5, <3>1, <3>2, DirIs, KindOf
      <4>2. ~Under(Dir(p), s) /\ ~Under(Dir(p), t)
        BY <2>2, <4>1, UnderTrans
      <4> QED BY <1>1, <2>1, <4>1, <4>2
    <3> QED BY <3>1, <3>2
  <2>3. CASE Under(p, t)
    <3> DEFINE m == Moved(p, t, s)
    <3>1. m \in Paths /\ node'[p] = node[m] /\ node[m] # NoNode
      BY <1>1, <1>5, <2>3
    <3>2. node[m] \in Ids /\ Kind(m) \in Kinds /\ Kind(m) = inode[node[m]].kind
      BY <3>1, KindOf
    <3>3. ASSUME Len(p) > 1, p = t PROVE Kind(Dir(p))' = "dir"
      <4>1. Dir(t) \in Paths /\ Under(t, Dir(t)) /\ Dir(t) # t
        BY <3>3, DirIs
      <4>2. Kind(Dir(t)) = "dir"
        <5>1. Len(t) # 1
          <6>1. Len(t) \in Nat /\ Len(t) > 1
            BY <3>3, PathIs
          <6>2. \A l \in Nat : l > 1 => l # 1
            OBVIOUS
          <6> QED BY <6>1, <6>2
        <5> QED BY <5>1 DEF HasParent
      <4>3. ~Under(Dir(t), s)
        BY <4>1, UnderTrans
      <4>4. ~Under(Dir(t), t)
        <5>1. Len(Dir(t)) = Len(t) - 1 /\ Len(t) \in Nat
          BY <3>3, DirIs, PathIs
        <5>2. ~(Len(t) <= Len(Dir(t)))
          BY <5>1
        <5> QED BY <5>2 DEF Under
      <4> QED BY <1>1, <2>1, <3>3, <4>1, <4>2, <4>3, <4>4
    <3>4. ASSUME Len(p) > 1, p # t PROVE Kind(Dir(p))' = "dir"
      <4>1. /\ Dir(p) \in Paths /\ Under(Dir(p), t) /\ Moved(Dir(p), t, s) = Dir(m) /\ Dir(m) \in Paths /\ Len(m) > 1
        BY <2>3, <3>1, <3>4, MovedDir
      <4>2. Kind(Dir(m)) = "dir"
        BY <3>1, <4>1, KindOf
      <4>3. node'[Dir(p)] = node[Dir(m)]
        BY <1>1, <4>1
      <4> QED BY <2>1, <4>1, <4>2, <4>3
    <3> QED BY <3>1, <3>2, <3>3, <3>4
  <2>4. CASE Under(p, s) /\ ~Under(p, t)
    BY <1>1, <1>5, <2>4
  <2> QED BY <2>2, <2>3, <2>4
<1>6. Here'
  <2>1. inode' = inode /\ Ids' = Ids
    BY DEF Ids
  <2>2. DOMAIN inode \subseteq Nat \ {NoNode} /\ inode = [i \in DOMAIN inode |-> inode[i]]
    BY DEF Here, Tree, Current
  <2>3. \A p \in Paths : Kind(Dir(p))' = KindIn(Current', Dir(p))
    BY DEF Kind, KindIn, NodeIn
  <2> QED BY <1>3, <1>5, <2>1, <2>2, <2>3 DEF Here, Tree, Current, Ids, Kind, KindIn, NodeIn
<1> QED BY <1>1, <1>4, <1>6

LEMMA RenameKeeps ==
    ASSUME PathsOK, MoveInv, Rename
    PROVE  MoveInv'
<1>1. todo # <<>> /\ todo[1].op = "rename"
  BY DEF Rename, Doing
<1>2. PICK k \in Args : RenameNext(k) /\ Heads("rename", k, Rest(k))
  BY <1>1, HeadsIs DEF Heads
<1> DEFINE s == From(k)
           t == To(k)
<1>3. /\ Src = s /\ Dst = t /\ Tail(todo) = Rest(k) /\ k \in Nat /\ s \in Paths /\ t \in Paths
      /\ ~Under(s, t) /\ ~Under(t, s) /\ Under(s, s) /\ IsMove /\ Here /\ inode = before.inode
  BY <1>2, ArgIs, UnderSame DEF Heads, MoveInv
<1>4. Held(k) /\ ~Blocks(k) /\ node[t] \in {before.node[t], NoNode}
      /\ \A j \in Args : j # k => IF j <= k THEN Settled(j) ELSE Untouched(j)
  BY <1>2 DEF RenameNext
<1>5. CASE Failed
  BY <1>2, <1>4, <1>5, MoveFails
<1>6. CASE ~RenameFails(Src, Dst) /\ node' = (IF node[Src] = node[Dst] THEN node ELSE [p \in Paths |-> Renamed(p)])
           /\ Proceed /\ Did /\ UNCHANGED inode
  <2>1. call' = call /\ before' = before /\ status' = status /\ inode' = inode
    BY <1>6 DEF Did
  <2>2. Kind(s) # "none" /\ HasParent(t)
    BY <1>3, <1>6 DEF RenameFails
  <2>3. node[s] # node[t]
    <3>1. node[s] # NoNode /\ node[s] = before.node[s]
      BY <1>3, <1>4, <2>2, KindOf DEF Held
    <3>2. before.node[s] # before.node[t]
      BY <1>3, <3>1 DEF IsMove
    <3> QED BY <1>4, <3>1, <3>2
  <2>4. \A p \in Paths : Under(p, s) => ~Under(p, t)
    BY <1>3, ApartIs
  <2>5. node' = [p \in Paths |-> CASE Under(p, t) -> NodeIn(Current, Moved(p, t, s))
                                   [] Under(p, s) /\ ~Under(p, t) -> NoNode
                                   [] OTHER -> node[p]]
    BY <1>3, <1>6, <2>3 DEF Renamed
  <2>6. /\ Here'
        /\ \A p \in Paths : ~Under(p, s) /\ ~Under(p, t) => node'[p] = node[p]
        /\ \A p \in Paths : Under(p, s) =>
             node'[p] = NoNode /\ (Moved(p, s, t) \in Paths => node'[Moved(p, s, t)] = node[p])
    <3> HIDE DEF s, t
    <3> QED BY <1>3, <2>1, <2>2, <2>4, <2>5, RenameIs
  <2>7. StepAt(k)
    BY <2>1, <2>6 DEF StepAt
  <2>8. s' = s /\ t' = t /\ (Blocks(k)' <=> Blocks(k))
    BY <2>1, StillIs
  <2>9. Gained(k)'
    <3>1. \A p \in Paths : Under(p, s) => node[p] = before.node[p]
      BY <1>4 DEF Held
    <3>2. \A p \in Paths : (Under(p, s)' <=> Under(p, s)) /\ Moved(p, s, t)' = Moved(p, s, t)
      BY <2>8 DEF Under, Moved
    <3> QED BY <2>1, <2>6, <3>1, <3>2 DEF Gained
  <2>10. Settled(k)'
    BY <1>4, <2>8, <2>9 DEF Settled
  <2>11. todo' = Rest(k)
    <3>1. Rest(k) \in Seq(Jobs)
      BY <1>2, RestIs, ArgIs DEF MoveInv
    <3> QED BY <1>3, <1>6, <3>1, ConcatEmptySeq DEF Proceed, Then
  <2> QED BY <1>4, <2>1, <2>6, <2>7, <2>10, <2>11, OnToNext
<1> QED BY <1>5, <1>6 DEF Rename

LEMMA MoveStep ==
    ASSUME PathsOK, MoveInv, [FilesNext]_files
    PROVE  MoveInv'
<1>1. ASSUME NEW op, Doing(op) PROVE op \in {"move", "rename", "unlink"}
  BY <1>1, HeadsIs DEF Doing, Heads
<1>2. \A op \in {"copy", "copylist", "create", "write", "mkdirall", "symlink", "link", "copytree", "treelist",
                 "removeall", "remove", "delete", "mkdir", "rmdir", "touch"} : ~Doing(op)
  <2>1. \A op \in {"copy", "copylist", "create", "write", "mkdirall", "symlink", "link", "copytree", "treelist",
                   "removeall", "remove", "delete", "mkdir", "rmdir", "touch"} : op \notin {"move", "rename", "unlink"}
    OBVIOUS
  <2> QED BY <1>1, <2>1
<1>3. ~(CopyMissing \/ CopyOmitted \/ CopyLink \/ CopyDir \/ CopyAsLink \/ CopyFile \/ CopyList \/ Create \/ WriteData)
  BY <1>2 DEF CopyMissing, CopyOmitted, CopyLink, CopyDir, CopyAsLink, CopyFile, CopyList, Create, WriteData
<1>4. ~(WriteFails \/ MkdirAll \/ Symlink \/ Link \/ CopyTree \/ TreeList \/ RemoveAll)
  BY <1>2 DEF WriteFails, MkdirAll, Symlink, Link, CopyTree, TreeList, RemoveAll
<1>5. ~(RemovePath \/ Delete \/ Mkdir \/ Rmdir \/ Touch)
  BY <1>2 DEF RemovePath, Delete, Mkdir, Rmdir, Touch
<1>6. ~CopyThenRemove
  BY DEF CopyThenRemove, MoveInv, IsMove
<1>7. CASE UNCHANGED files
  <2>1. call' = call /\ before' = before /\ node' = node /\ inode' = inode /\ todo' = todo /\ status' = status
    BY <1>7 DEF files
  <2>2. IsMove' /\ Here' /\ Tree(before)' /\ inode' = before'.inode
    BY <2>1, MoveStill, SameHere DEF MoveInv, Tree, KindIn, NodeIn
  <2>3. /\ Args' = Args /\ \A j : From(j)' = From(j) /\ To(j)' = To(j) /\ (Blocks(j)' <=> Blocks(j)) /\ Rest(j)' = Rest(j)
        /\ \A j, op : Job(op, j)' = Job(op, j)
    BY <2>1, StillIs, RestStill
  <2>4. \A j, p : (Under(p, From(j))' <=> Under(p, From(j))) /\ (Under(p, To(j))' <=> Under(p, To(j)))
                  /\ Moved(p, From(j), To(j))' = Moved(p, From(j), To(j))
    BY <2>3 DEF Under, Moved
  <2>5. Elsewhere'
    BY <2>1, <2>3, <2>4 DEF MoveInv, Elsewhere
  <2>6. \A j : (Untouched(j) => Untouched(j)') /\ (Held(j) => Held(j)') /\ (Gained(j) => Gained(j)')
    BY <2>1, <2>3, <2>4 DEF Untouched, Held, Gained
  <2>7. \A j : Settled(j) => Settled(j)'
    BY <2>1, <2>3, <2>6 DEF Settled
  <2>8. /\ \A k : MoveNext(k) => MoveNext(k)'
        /\ \A k : RenameNext(k) => RenameNext(k)'
        /\ \A k : UnlinkNext(k) => UnlinkNext(k)'
    BY <2>1, <2>3, <2>6, <2>7 DEF MoveNext, RenameNext, UnlinkNext
  <2>9. Shift'
    BY <2>1, <2>3, <2>8 DEF MoveInv, Shift
  <2> QED BY <2>2, <2>5, <2>9 DEF MoveInv
<1>8. CASE Move
  BY <1>8, MoveKeeps
<1>9. CASE Unlink
  BY <1>9, UnlinkKeeps
<1>10. CASE Rename
  BY <1>10, RenameKeeps
<1>11. FilesEnd => UNCHANGED files
  BY DEF FilesEnd
<1> QED BY <1>3, <1>4, <1>5, <1>6, <1>7, <1>8, <1>9, <1>10, <1>11 DEF FilesNext

\* With more operands than one the target is a directory, and each is there under its name.
LEMMA TargetsAre ==
    ASSUME PathsOK, IsMove
    PROVE  /\ Len(call.operands) > 1 => KindIn(before, FinalIn(before, call.dest)) = "dir"
           /\ TargetsIn(before) = {To(k) : k \in Args} /\ Operands = {From(k) : k \in Args} /\ DOMAIN call.operands = Args
           /\ \A k \in Args : To(k) = CHOOSE t \in TargetsIn(before) : Len(call.operands) = 1 \/ Base(t) = Base(From(k))
<1> DEFINE n == Len(call.operands)
           isDir == KindIn(before, FinalIn(before, call.dest)) = "dir"
<1>1. call.operands \in Seq(Paths) /\ n \in Nat /\ Args = 1..n /\ DOMAIN call.operands = Args
  BY DEF IsMove, Args
<1>2. n > 1 => isDir
  <2>1. SUFFICES ASSUME n > 1, ~isDir PROVE FALSE
    OBVIOUS
  <2>2. 1 \in Args /\ 2 \in Args /\ To(1) = call.dest /\ To(2) = call.dest
    BY <1>1, <2>1 DEF To
  <2>3. ~Nested(To(1), To(2)) /\ call.dest \in Paths
    BY <2>2 DEF IsMove
  <2> QED BY <2>2, <2>3, UnderSame DEF Nested
<1>3. Operands = {From(k) : k \in Args}
  BY <1>1 DEF Operands, From
<1>4. TargetsIn(before) = {To(k) : k \in Args}
  BY <1>3 DEF TargetsIn, To
<1>5. ASSUME NEW k \in Args PROVE To(k) = CHOOSE t \in TargetsIn(before) : n = 1 \/ Base(t) = Base(From(k))
  <2>1. CASE n = 1
    <3>1. Args = {1}
      BY <1>1, <2>1
    <3>2. TargetsIn(before) = {To(k)}
      BY <1>4, <3>1
    <3> QED BY <2>1, <3>2
  <2>2. CASE n # 1
    <3>1. isDir
      <4>1. n > 1
        <5> HIDE DEF n
        <5>1. k \in 1..n /\ n \in Nat /\ n # 1
          BY <1>1, <2>2
        <5> QED BY <5>1
      <4> QED BY <1>2, <4>1
    <3>2. \A j \in Args : To(j) = Append(call.dest, Base(From(j)))
      BY <3>1 DEF To
    <3>3. ASSUME NEW j \in Args PROVE Base(To(j)) = Base(From(j))
      <4>1. call.dest \in Paths /\ To(j) = Append(call.dest, Base(From(j)))
        BY <3>2 DEF IsMove
      <4>2. call.dest \in Seq(Names) /\ Len(call.dest) \in Nat
        BY <4>1, PathIs
      <4>3. Append(call.dest, Base(From(j)))[Len(call.dest) + 1] = Base(From(j)) /\ Len(Append(call.dest, Base(From(j)))) = Len(call.dest) + 1
        BY <4>2
      <4> QED BY <4>1, <4>3 DEF Base
    <3>4. \A j \in Args : Base(To(j)) = Base(From(k)) => To(j) = To(k)
      BY <3>2, <3>3
    <3>5. \A t \in TargetsIn(before) : Base(t) = Base(From(k)) <=> t = To(k)
      BY <1>4, <3>3, <3>4
    <3>6. To(k) \in TargetsIn(before)
      BY <1>4
    <3> HIDE DEF isDir
    <3> QED BY <2>2, <3>5, <3>6
  <2> QED BY <2>1, <2>2
<1> QED BY <1>1, <1>2, <1>3, <1>4, <1>5

LEMMA MoveStart ==
    ASSUME PathsOK, NEW calls, NEW trees, \A t \in trees : Tree(t), FilesInit(calls, trees), IsMove
    PROVE  MoveInv
<1>1. before = Current /\ before.node = node /\ before.inode = inode
  BY DEF FilesInit, Current
<1>2. Here /\ Tree(before)
  <2>1. PICK t \in trees : node = t.node /\ inode = t.inode
    BY DEF FilesInit
  <2>2. \A q : KindIn(Current, q) = KindIn(t, q)
    BY <2>1 DEF KindIn, NodeIn, Current
  <2>3. Tree(t)
    OBVIOUS
  <2>4. Current.node = t.node /\ Current.inode = t.inode
    BY <2>1 DEF Current
  <2> QED BY <1>1, <2>2, <2>3, <2>4 DEF Here, Tree
<1>3. /\ call.tool = "mv" /\ call.operands \in Seq(Paths) /\ Len(call.operands) \in Nat /\ 0 \in 0..Len(call.operands)
  BY DEF IsMove
<1>4. DestIsDir <=> KindIn(before, FinalIn(before, call.dest)) = "dir"
  BY <1>1 DEF DestIsDir, Kind, Final
<1>5. Len(call.operands) > 1 => DestIsDir
  BY <1>4, TargetsAre
<1>6. todo = [k \in 1..Len(call.operands) |-> Work("move", From(k), To(k), k)]
  <2>1. FirstOp("mv") = "move"
    BY DEF FirstOp
  <2>2. \A k : TargetOf(call.operands[k]) = To(k)
    BY <1>4 DEF TargetOf, To, From
  <2> QED BY <1>3, <1>5, <2>1, <2>2 DEF FilesInit, From
<1>7. todo = Rest(0)
  <2>1. \A k \in 1..Len(call.operands) : 0 + k = k
    OBVIOUS
  <2>2. Len(call.operands) - 0 = Len(call.operands)
    BY <1>3
  <2>3. Rest(0) = [k \in 1..Len(call.operands) |-> Job("move", 0 + k)]
    BY <2>2 DEF Rest
  <2> QED BY <1>6, <2>1, <2>3 DEF Job
<1>8. (\A j : Untouched(j)) /\ Elsewhere
  BY <1>1 DEF Untouched, Elsewhere
<1>9. MoveNext(0)
  <2>1. \A j \in Args : ~(j <= 0)
    BY <1>3 DEF Args
  <2> QED BY <1>7, <1>8, <2>1 DEF MoveNext
<1> QED BY <1>1, <1>2, <1>3, <1>8, <1>9 DEF MoveInv, Shift

LEMMA MoveSafe ==
    ASSUME PathsOK, MoveInv
    PROVE  FilesRight
<1>1. IsMove /\ Here /\ Tree(before) /\ inode = before.inode /\ Elsewhere /\ Shift /\ call.tool = "mv"
  BY DEF MoveInv, IsMove
<1>2. RmComplete /\ CopyComplete /\ NamesTogether
  BY <1>1 DEF RmComplete, CopyComplete, NamesTogether, Copied
<1>3. TargetsIn(before) = {To(k) : k \in Args} /\ Operands = {From(k) : k \in Args} /\ DOMAIN call.operands = Args
  BY <1>1, TargetsAre
<1>4. Touched(before) = {r \in Paths : \E p \in TargetsIn(before) \union Operands : Under(r, p)}
                           \union {FinalIn(before, q) : q \in TargetsIn(before)}
  BY <1>1 DEF Touched
<1>5. \A k \in Args, r \in Paths : Under(r, From(k)) \/ Under(r, To(k)) => r \in Touched(before)
  BY <1>3, <1>4
<1>6. OthersUntouched
  BY <1>1, <1>5 DEF OthersUntouched, Elsewhere
<1>7. ASSUME NEW p \in Paths, NEW q \in Paths, node[q] = before.node[p]
      PROVE  Kind(q) = KindIn(before, p) /\ (KindIn(before, p) = "file" => DataIn(Current, q) = DataIn(before, p))
  <2>1. Kind(q) = KindIn(before, p)
    BY <1>1, <1>7 DEF Kind, KindIn, NodeIn, Current
  <2>2. ASSUME KindIn(before, p) = "file" PROVE DataIn(Current, q) = DataIn(before, p)
    <3>1. KindIn(Current, q) = "file" /\ FinalIn(before, p) = p /\ FinalIn(Current, q) = q
      BY <2>1, <2>2 DEF Kind, FinalIn
    <3> QED BY <1>1, <1>7, <2>2, <3>1 DEF DataIn, Current
  <2> QED BY <2>1, <2>2
<1>8. ASSUME NEW k \in Args PROVE Held(k) \/ Gained(k)
  <2>1. \A j \in Args : Settled(j) => Held(j) \/ Gained(j)
    BY DEF Settled
  <2>2. \A j \in Args : Untouched(j) => Held(j)
    BY DEF Untouched, Held
  <2>3. CASE \E m \in 0..Len(call.operands) : MoveNext(m)
    BY <2>1, <2>2, <2>3 DEF MoveNext
  <2>4. CASE \E m \in Args : RenameNext(m)
    BY <2>1, <2>2, <2>4 DEF RenameNext
  <2>5. CASE \E m \in Args : UnlinkNext(m)
    BY <2>1, <2>2, <2>5 DEF UnlinkNext
  <2> QED BY <1>1, <2>3, <2>4, <2>5 DEF Shift
<1>9. ASSUME NEW k \in Args, NEW p \in Paths, Under(p, From(k)), KindIn(before, p) # "none"
      PROVE  before.node[p] # NoNode /\ Moved(p, From(k), To(k)) \in Paths /\ Under(Moved(p, From(k), To(k)), To(k))
  <2>1. before.node[p] # NoNode
    BY <1>9 DEF KindIn, NodeIn
  <2>2. Moved(p, From(k), To(k)) \in Paths
    BY <1>1, <1>9, <2>1 DEF IsMove
  <2> QED BY <1>1, <1>9, <2>1, <2>2, ArgIs, MovedBack
<1>10. MoveKeepsData
  <2>1. SUFFICES ASSUME NEW p \in Paths, NEW k \in Args, Under(p, From(k)), KindIn(before, p) = "file"
                 PROVE  \E q \in Touched(before) : DataIn(Current, q) = DataIn(before, p)
    BY <1>3 DEF MoveKeepsData
  <2>2. CASE Held(k)
    <3>1. node[p] = before.node[p] /\ p \in Touched(before)
      BY <1>5, <2>1, <2>2 DEF Held
    <3> QED BY <1>7, <2>1, <3>1
  <2>3. CASE Gained(k)
    <3> DEFINE m == Moved(p, From(k), To(k))
    <3>1. m \in Paths /\ Under(m, To(k))
      BY <1>9, <2>1
    <3>2. node[m] = before.node[p] /\ m \in Touched(before)
      BY <1>5, <2>1, <2>3, <3>1 DEF Gained
    <3> HIDE DEF m
    <3> QED BY <1>7, <2>1, <3>1, <3>2
  <2> QED BY <1>8, <2>2, <2>3
<1>11. MoveIsWhole
  <2>1. SUFFICES ASSUME todo = <<>>, status = 0, NEW k \in Args
                 PROVE  LET s == From(k)
                            t == To(k) IN
                        IF Kept /\ KindIn(before, FinalIn(before, t)) # "none"
                        THEN \A p \in Paths : Under(p, s) \/ Under(p, t) => node[p] = before.node[p]
                        ELSE \A p \in Paths : Under(p, s) =>
                               /\ node[p] = NoNode
                               /\ KindIn(before, p) = "file" => DataIn(Current, Moved(p, s, t)) = DataIn(before, p)
                               /\ KindIn(before, p) # "none" => Kind(Moved(p, s, t)) # "none"
    <3>1. \A k \in Args : To(k) = CHOOSE t \in TargetsIn(before) : Len(call.operands) = 1 \/ Base(t) = Base(From(k))
      BY <1>1, TargetsAre
    <3> QED BY <1>3, <2>1, <3>1 DEF MoveIsWhole, Succeeded, From
  <2>2. PICK m \in 0..Len(call.operands) : MoveNext(m)
    <3>1. ASSUME NEW j \in Args, RenameNext(j) \/ UnlinkNext(j) PROVE FALSE
      <4>1. Rest(j) \in Seq(Jobs) /\ Job("rename", j) \in Jobs /\ Job("unlink", j) \in Jobs
        BY <1>1, ArgIs, RestIs, JobIs
      <4>2. <<Job("rename", j)>> \o Rest(j) # <<>> /\ <<Job("unlink", j), Job("rename", j)>> \o Rest(j) # <<>>
        BY <4>1, FrontIs
      <4> QED BY <2>1, <3>1, <4>2 DEF RenameNext, UnlinkNext
    <3> QED BY <1>1, <3>1 DEF Shift
  <2>3. m = Len(call.operands)
    BY <1>1, <2>1, <2>2, RestIs DEF IsMove, MoveNext
  <2>4. Settled(k)
    <3>1. k <= m
      BY <1>1, <2>3, ArgIs
    <3> QED BY <2>2, <3>1 DEF MoveNext
  <2>5. CASE Blocks(k)
    BY <2>1, <2>4, <2>5 DEF Settled, Untouched, Blocks
  <2>6. CASE ~Blocks(k)
    <3>1. Gained(k)
      BY <2>1, <2>4, <2>6 DEF Settled
    <3>2. ASSUME NEW p \in Paths, Under(p, From(k))
          PROVE  /\ node[p] = NoNode
                 /\ KindIn(before, p) # "none" => Kind(Moved(p, From(k), To(k))) = KindIn(before, p)
                 /\ KindIn(before, p) = "file" => DataIn(Current, Moved(p, From(k), To(k))) = DataIn(before, p)
      <4>1. node[p] = NoNode
        BY <3>1, <3>2 DEF Gained
      <4>2. KindIn(before, p) # "none" => Moved(p, From(k), To(k)) \in Paths /\ node[Moved(p, From(k), To(k))] = before.node[p]
        BY <1>9, <3>1, <3>2 DEF Gained
      <4> QED BY <1>7, <4>1, <4>2
    <3> QED BY <2>6, <3>2 DEF Blocks
  <2> QED BY <2>5, <2>6
<1>12. TreeHolds
  BY <1>1, TreeIs
<1> QED BY <1>2, <1>6, <1>10, <1>11, <1>12 DEF FilesRight

\* mv, where it renames, loses no file in any state it may die in, with any options, operands
\* and tree in which no operand or target is in another; it touches nothing else, keeps the
\* tree a tree, and when it succeeds all of every operand is at its target and nothing at its
\* source, unless the target was to be kept.
\* (movePath, ResolveDest, TargetPath, os.Rename)
THEOREM MovesHold ==
    ASSUME PathsOK, NEW calls, NEW trees, \A t \in trees : Tree(t)
    PROVE  FilesInit(calls, trees) /\ IsMove /\ [][FilesNext]_files => []FilesRight
<1>1. FilesInit(calls, trees) /\ IsMove => MoveInv
  BY MoveStart
<1>2. MoveInv /\ [FilesNext]_files => MoveInv'
  BY MoveStep
<1>3. MoveInv => FilesRight
  BY MoveSafe
<1> QED BY <1>1, <1>2, <1>3, PTL
=============================================================================
