--------------------------- MODULE InventoryProofs ---------------------------
(***************************************************************************)
(* What Inventory promises, for every volume, setup and number of scanners. *)
(*                                                                         *)
(* The walk (Inv).  A lane has read a set D of directories and has others  *)
(* pending; every directory it has come to is in one of the two, and every *)
(* file of a directory in D is listed.  Each path it works on is that of a *)
(* way, so nothing else is listed, and links followed, a directory is read *)
(* once by all the roots together.  When no lane has anything pending, the *)
(* list is exact: no file is missing, none is there that the rules shut    *)
(* out, and none is listed under two paths but one that may be.            *)
(*                                                                         *)
(* The file table (TableInv).  The records read are those of the first     *)
(* references, the sizes asked for are the files', and the rounds in which *)
(* reconstruct_path finds the paths are as many as the longest path needs. *)
(*                                                                         *)
(* The snapshot (Follows, of the setups FoldersStay).  Everything an        *)
(* inventory holds, from the delta read to the sizes asked for, is the      *)
(* volume but for the entries the journal tells of from the cursor on that  *)
(* the snapshot will get; the last record of an entry tells what it is, and *)
(* the directories above what the journal has done with are done with too,  *)
(* so that a path made of old and new records together leads to the entry.  *)
(*                                                                         *)
(* Quantities defined by recursion (Resolve, Ways, the rounds) are reached *)
(* through the functions that satisfy their equations; induction over them *)
(* is induction over sets of numbers, and over the tree, that a set of     *)
(* entries closed under "directory of" is empty.                           *)
(***************************************************************************)
EXTENDS Inventory, FiniteSetTheorems, SequenceTheorems, WellFoundedInduction, TLAPS

-----------------------------------------------------------------------------
(* Induction over the natural numbers, and functions defined by recursion.   *)

\* A set of natural numbers that is not empty has a least one.
LEMMA Least ==
  ASSUME NEW T \in SUBSET Nat, T # {}
  PROVE  \E n \in T : \A m \in T : n <= m
<1>1. PICK n \in T : \A m \in T : ~ (<<m, n>> \in OpToRel(<, Nat))
  BY NatLessThanWellFounded, WFMin
<1>2. \A m \in T : ~ (m < n)
  BY <1>1 DEF OpToRel
<1> QED BY <1>2

\* Induction, over a set rather than a predicate.
LEMMA Induction ==
  ASSUME NEW T, 0 \in T, \A n \in Nat : n \in T => n + 1 \in T
  PROVE  \A n \in Nat : n \in T
<1> DEFINE without == {n \in Nat : n \notin T}
<1>1. SUFFICES ASSUME without # {} PROVE FALSE
  OBVIOUS
<1>2. PICK n \in without : \A m \in without : n <= m
  <2>1. without \in SUBSET Nat
    OBVIOUS
  <2> HIDE DEF without
  <2> QED BY <1>1, <2>1, Least
<1>3. n # 0 /\ n - 1 \in Nat /\ n - 1 \notin without
  BY <1>2
<1> QED BY <1>2, <1>3

\* A function over 0..N is determined by its first value and by how each of the others
\* follows from the one before.
LEMMA RecursionExists ==
  ASSUME NEW S, NEW a \in S, NEW N \in Nat, NEW h \in [1..N -> [S -> S]]
  PROVE  \E f \in [0..N -> S] : f[0] = a /\ \A n \in 1..N : f[n] = h[n][f[n - 1]]
<1> DEFINE G(f, k) == f[0] = a /\ \A n \in 1..k : f[n] = h[n][f[n - 1]]
           T == {k \in Nat : k <= N => \E f \in [0..k -> S] : G(f, k)}
<1>1. 0 \in T
  <2>1. [n \in 0..0 |-> a] \in [0..0 -> S] /\ G([n \in 0..0 |-> a], 0)
    OBVIOUS
  <2> QED BY <2>1
<1>2. ASSUME NEW k \in Nat, k \in T PROVE k + 1 \in T
  <2> SUFFICES ASSUME k + 1 <= N PROVE \E f \in [0..(k + 1) -> S] : G(f, k + 1)
    OBVIOUS
  <2>1. PICK f \in [0..k -> S] : G(f, k)
    BY <1>2
  <2> DEFINE g == [n \in 0..(k + 1) |-> IF n = k + 1 THEN h[k + 1][f[k]] ELSE f[n]]
  <2>2. h[k + 1][f[k]] \in S
    OBVIOUS
  <2>3. g \in [0..(k + 1) -> S]
    BY <2>2
  <2>4. \A n \in 0..k : g[n] = f[n]
    OBVIOUS
  <2>5. g[k + 1] = h[k + 1][f[k]]
    OBVIOUS
  <2> HIDE DEF g
  <2>6. G(g, k + 1)
    <3>1. g[0] = a
      BY <2>1, <2>4
    <3>2. ASSUME NEW n \in 1..(k + 1) PROVE g[n] = h[n][g[n - 1]]
      <4>1. CASE n = k + 1
        BY <2>4, <2>5, <4>1
      <4>2. CASE n # k + 1
        <5>1. n \in 1..k /\ n \in 0..k /\ n - 1 \in 0..k
          BY <4>2
        <5> QED BY <2>1, <2>4, <5>1
      <4> QED BY <4>1, <4>2
    <3> QED BY <3>1, <3>2
  <2> QED BY <2>3, <2>6
<1> HIDE DEF T
<1>3. N \in T
  BY <1>1, <1>2, Induction
<1> QED BY <1>3 DEF T

-----------------------------------------------------------------------------
(* Paths.                                                                    *)

\* What a name leads to: an entry, the root, or nothing.
Spots == Refs \cup {Top, Missing}

\* A name leads to an entry that is there, to the root, or to nothing.
LEMMA StepIsSpot ==
  ASSUME WellFormed(tree), NEW d, NEW name
  PROVE  Step(d, name) \in DOMAIN tree \cup {Top, Missing} /\ Step(d, name) \in Spots
BY DEF Step, Spots, WellFormed

\* The spots a path leads through.
Trail(path, f) ==
  f \in [0..Len(path) -> Spots] /\ f[0] = Top /\ \A n \in 1..Len(path) : f[n] = Step(f[n - 1], path[n])

\* What a path leads to is the last spot of its trail.
LEMMA ResolveTrail ==
  ASSUME WellFormed(tree), NEW path \in Seq(STRING)
  PROVE  \E f : Trail(path, f) /\ Resolve(path) = f[Len(path)]
<1> DEFINE N == Len(path)
           h == [n \in 1..N |-> [d \in Spots |-> Step(d, path[n])]]
           Is(g) == g = [n \in 0..N |-> IF n = 0 THEN Top ELSE Step(g[n - 1], path[n])]
<1>1. N \in Nat /\ Top \in Spots
  BY DEF Spots
<1>2. h \in [1..N -> [Spots -> Spots]]
  BY StepIsSpot
<1>3. \A d \in Spots, n \in 1..N : h[n][d] = Step(d, path[n])
  OBVIOUS
<1> HIDE DEF h
<1>4. PICK f \in [0..N -> Spots] : f[0] = Top /\ \A n \in 1..N : f[n] = h[n][f[n - 1]]
  <2> HIDE DEF N
  <2> QED BY <1>1, <1>2, RecursionExists
<1>5. \A n \in 1..N : f[n] = Step(f[n - 1], path[n])
  BY <1>1, <1>3, <1>4
<1>6. Is(f)
  BY <1>4, <1>5
<1> DEFINE spot == CHOOSE g : Is(g)
<1>7. Is(spot)
  <2> HIDE DEF Is
  <2> QED BY <1>6
<1>8. Resolve(path) = spot[N]
  BY DEF Resolve
<1> HIDE DEF spot
<1>9. Trail(path, spot)
  <2>1. spot[0] = Top /\ \A n \in 1..N : spot[n] = Step(spot[n - 1], path[n])
    BY <1>7, <1>1
  <2>2. \A n \in 0..N : spot[n] \in Spots
    BY <1>1, <2>1, StepIsSpot
  <2> QED BY <1>7, <2>1, <2>2 DEF Trail
<1> QED BY <1>8, <1>9

\* As far as two paths are alike they lead through the same spots.
LEMMA TrailUnique ==
  ASSUME NEW path \in Seq(STRING), NEW other \in Seq(STRING), NEW f, NEW g,
         Trail(path, f), Trail(other, g), Len(path) <= Len(other),
         \A n \in 1..Len(path) : path[n] = other[n]
  PROVE  \A n \in 0..Len(path) : f[n] = g[n]
<1> DEFINE T == {n \in Nat : n <= Len(path) => f[n] = g[n]}
<1>1. 0 \in T
  BY DEF Trail
<1>2. ASSUME NEW n \in Nat, n \in T PROVE n + 1 \in T
  <2> SUFFICES ASSUME n + 1 <= Len(path) PROVE f[n + 1] = g[n + 1]
    OBVIOUS
  <2>1. n + 1 \in 1..Len(path) /\ n + 1 \in 1..Len(other) /\ (n + 1) - 1 = n
    OBVIOUS
  <2>2. f[n + 1] = Step(f[n], path[n + 1]) /\ g[n + 1] = Step(g[n], other[n + 1])
    BY <2>1 DEF Trail
  <2> QED BY <1>2, <2>1, <2>2
<1> HIDE DEF T
<1>3. \A n \in Nat : n \in T
  BY <1>1, <1>2, Induction
<1> QED BY <1>3 DEF T

\* What a path leads to: the root, and with each name what that name leads to from there.
LEMMA ResolveEmpty ==
  ASSUME WellFormed(tree)
  PROVE  Resolve(<<>>) = Top
<1>1. <<>> \in Seq(STRING) /\ Len(<<>>) = 0
  OBVIOUS
<1> QED BY <1>1, ResolveTrail DEF Trail

\* A path with a name more leads to what the name leads to from where the path leads.
LEMMA ResolveAppend ==
  ASSUME WellFormed(tree), NEW path \in Seq(STRING), NEW name \in STRING
  PROVE  Resolve(Append(path, name)) = Step(Resolve(path), name)
<1> DEFINE longer == Append(path, name)
<1>1. /\ longer \in Seq(STRING) /\ Len(longer) = Len(path) + 1
      /\ \A n \in 1..Len(path) : path[n] = longer[n]
      /\ longer[Len(path) + 1] = name
  <2> HIDE DEF longer
  <2>1. longer \in Seq(STRING) /\ Len(longer) = Len(path) + 1
    BY AppendProperties DEF longer
  <2>2. \A n \in 1..Len(path) : path[n] = longer[n]
    BY AppendProperties DEF longer
  <2>3. longer[Len(path) + 1] = name
    BY AppendProperties DEF longer
  <2> QED BY <2>1, <2>2, <2>3
<1> HIDE DEF longer
<1>2. PICK f : Trail(path, f) /\ Resolve(path) = f[Len(path)]
  BY ResolveTrail
<1>3. PICK g : Trail(longer, g) /\ Resolve(longer) = g[Len(longer)]
  BY <1>1, ResolveTrail
<1>4. f[Len(path)] = g[Len(path)]
  BY <1>1, <1>2, <1>3, TrailUnique
<1>5. g[Len(path) + 1] = Step(g[Len(path)], name)
  <2>1. Len(path) \in Nat /\ Len(path) + 1 \in 1..Len(longer) /\ (Len(path) + 1) - 1 = Len(path)
    BY <1>1
  <2> QED BY <1>1, <1>3, <2>1 DEF Trail
<1> QED BY <1>1, <1>2, <1>3, <1>4, <1>5 DEF longer

-----------------------------------------------------------------------------
(* The tree.                                                                 *)

\* Links that are there are known to lead somewhere.
LinksKnown == \A x \in DOMAIN tree : tree[x].kind = "link" => x \in DOMAIN setup.linkTo

\* The volume as the steps of others leave it: a tree, changed only as the setup has it.
TreeOK == setup \in Setups /\ done \subseteq setup.changes /\ WellFormed(tree) /\ LinksKnown

\* The entries of a directory bear the names that lead to them.
LEMMA StepToChild ==
  ASSUME WellFormed(tree), NEW x \in DOMAIN tree, Target(x) \in DOMAIN tree \cup {Top}
  PROVE  Step(tree[x].parent, tree[x].name) = Target(x)
<1> DEFINE named == {y \in DOMAIN tree : tree[y].name = tree[x].name /\ tree[y].parent = tree[x].parent}
<1>1. named = {x}
  BY DEF WellFormed
<1> QED BY <1>1 DEF Step

\* A name that leads anywhere is that of an entry.
LEMMA StepFromChild ==
  ASSUME WellFormed(tree), NEW d, NEW name, Step(d, name) # Missing
  PROVE  \E x \in DOMAIN tree : /\ tree[x].parent = d /\ tree[x].name = name
                                /\ Step(d, name) = Target(x)
                                /\ Target(x) \in DOMAIN tree \cup {Top}
<1> DEFINE named == {y \in DOMAIN tree : tree[y].name = name /\ tree[y].parent = d}
<1>1. named # {}
  BY DEF Step
<1>2. (CHOOSE x \in named : TRUE) \in named
  BY <1>1
<1>3. Step(d, name) = Target(CHOOSE x \in named : TRUE)
      /\ Target(CHOOSE x \in named : TRUE) \in DOMAIN tree \cup {Top}
  BY <1>1 DEF Step
<1> QED BY <1>2, <1>3

\* What a link leads to is no link.
LEMMA TargetIsNoLink ==
  ASSUME TreeOK, NEW x \in DOMAIN tree, Target(x) \in DOMAIN tree
  PROVE  IsDir(Target(x)) \/ IsFile(Target(x))
<1>1. tree[Target(x)].kind # "link"
  BY SetupsAssumption DEF TreeOK, LinksKnown, Target
<1>2. tree[Target(x)].kind \in {"dir", "file", "link"}
  BY DEF TreeOK, WellFormed, Entry
<1> QED BY <1>1, <1>2 DEF IsDir, IsFile

\* What a path leads to is the root, nothing, or an entry that is no link.
LEMMA ResolveKinds ==
  ASSUME TreeOK, NEW path \in Seq(STRING)
  PROVE  \/ Resolve(path) = Missing \/ IsDir(Resolve(path)) \/ IsFile(Resolve(path))
<1>1. WellFormed(tree)
  BY DEF TreeOK
<1>2. CASE path = <<>>
  BY <1>1, <1>2, ResolveEmpty DEF IsDir
<1>3. CASE path # <<>>
  <2>1. PICK front \in Seq(STRING), name \in STRING : path = Append(front, name)
    BY <1>3, SequenceEmptyOrAppend
  <2>2. Resolve(path) = Step(Resolve(front), name)
    BY <1>1, <2>1, ResolveAppend
  <2>3. SUFFICES ASSUME Resolve(path) # Missing PROVE IsDir(Resolve(path)) \/ IsFile(Resolve(path))
    OBVIOUS
  <2>4. PICK x \in DOMAIN tree : Resolve(path) = Target(x) /\ Target(x) \in DOMAIN tree \cup {Top}
    BY <1>1, <2>2, <2>3, StepFromChild
  <2> QED BY <2>4, TargetIsNoLink DEF IsDir
<1> QED BY <1>2, <1>3

\* A directory's entries do not have it below them.
LEMMA ChildIsBelow ==
  ASSUME WellFormed(tree), NEW x \in DOMAIN tree
  PROVE  ~ Within(tree[x].parent, x)
<1> DEFINE Closed(S) == x \in S /\ \A z \in DOMAIN tree : tree[z].parent \in S => z \in S
           below == {y \in DOMAIN tree : \A S \in SUBSET Refs : Closed(S) => y \in S}
           in == {y \in below : y = x \/ tree[y].parent \in below}
<1>1. SUFFICES ASSUME Within(tree[x].parent, x) PROVE FALSE
  OBVIOUS
<1>2. below \in SUBSET Refs /\ Closed(below)
  BY DEF WellFormed
<1>3. in \in SUBSET Refs /\ Closed(in)
  BY <1>2
<1>4. below \subseteq in
  BY <1>3
<1>5. tree[x].parent \in below
  BY <1>1, <1>2 DEF Within
<1>6. \A y \in below : tree[y].parent \in below
  BY <1>4, <1>5
<1> QED BY <1>2, <1>6 DEF WellFormed

\* What has an entry above it has the entry's directory above it.
LEMMA WithinChild ==
  ASSUME WellFormed(tree), NEW x \in DOMAIN tree, NEW m, Within(tree[x].parent, m)
  PROVE  Within(x, m)
BY DEF Within

\* Everything is within itself.
LEMMA WithinSelf == \A x : Within(x, x)
BY DEF Within

-----------------------------------------------------------------------------
(* What other programs do leaves a tree.                                     *)

\* A new entry leaves a tree: its name is free in its directory and nothing is below it.
LEMMA CreateKeeps ==
  ASSUME TreeOK, NEW c \in setup.changes, Create(c), setup' = setup, done' = done \cup {c}
  PROVE  TreeOK'
<1>1. c.ref \in Refs /\ c.entry \in Entry
      /\ (c.entry.kind = "link" => c.ref \in DOMAIN setup.linkTo)
  BY SetupsAssumption DEF TreeOK, Create
<1>2. DOMAIN tree' = DOMAIN tree \cup {c.ref} /\ tree'[c.ref] = c.entry /\ c.ref \notin DOMAIN tree
      /\ \A x \in DOMAIN tree : tree'[x] = tree[x] /\ x # c.ref
  BY DEF Create
<1>3. /\ c.entry.parent = Top \/ (c.entry.parent \in DOMAIN tree /\ tree[c.entry.parent].kind = "dir")
      /\ \A x \in DOMAIN tree : tree[x].parent = c.entry.parent => tree[x].name # c.entry.name
  BY DEF Create, Free, IsDir, ChildrenOf
<1>4. \A x \in DOMAIN tree' :
        /\ tree'[x] \in Entry
        /\ tree'[x].parent = Top \/ (tree'[x].parent \in DOMAIN tree' /\ tree'[tree'[x].parent].kind = "dir")
  BY <1>1, <1>2, <1>3 DEF TreeOK, WellFormed
<1>5. \A x, y \in DOMAIN tree' : tree'[x].parent = tree'[y].parent /\ tree'[x].name = tree'[y].name => x = y
  BY <1>2, <1>3 DEF TreeOK, WellFormed
<1>6. ASSUME NEW S \in SUBSET DOMAIN tree', \A x \in S : tree'[x].parent \in S PROVE S = {}
  <2>1. \A x \in DOMAIN tree : tree[x].parent # c.ref
    BY <1>1, <1>2, RefsAssumption DEF TreeOK, WellFormed
  <2>2. S \ {c.ref} \in SUBSET DOMAIN tree /\ \A x \in S \ {c.ref} : tree[x].parent \in S \ {c.ref}
    BY <1>2, <1>6, <2>1
  <2>3. S \ {c.ref} = {}
    BY <2>2 DEF TreeOK, WellFormed
  <2>4. c.entry.parent # c.ref
    BY <1>1, <1>2, <1>3, RefsAssumption
  <2> QED BY <1>2, <1>6, <2>3, <2>4
<1>7. LinksKnown'
  BY <1>1, <1>2 DEF TreeOK, LinksKnown
<1>8. DOMAIN tree' \subseteq Refs
  BY <1>1, <1>2 DEF TreeOK, WellFormed
<1> QED BY <1>4, <1>5, <1>6, <1>7, <1>8 DEF TreeOK, WellFormed

\* A file written to leaves the tree as it is.
LEMMA WriteKeeps ==
  ASSUME TreeOK, NEW c \in setup.changes, Write(c), setup' = setup, done' = done \cup {c}
  PROVE  TreeOK'
<1>1. c.size \in Nat /\ c.ref \in DOMAIN tree
  BY SetupsAssumption DEF TreeOK, Write, IsFile
<1>2. \A x \in DOMAIN tree : tree[x] \in Entry
  BY DEF TreeOK, WellFormed
<1>3. DOMAIN tree' = DOMAIN tree /\ \A x \in DOMAIN tree :
        /\ tree'[x] \in Entry /\ tree'[x].parent = tree[x].parent
        /\ tree'[x].name = tree[x].name /\ tree'[x].kind = tree[x].kind
  BY <1>1, <1>2 DEF Write, Entry
<1>4. WellFormed(tree')
  BY <1>3 DEF TreeOK, WellFormed
<1> QED BY <1>3, <1>4 DEF TreeOK, LinksKnown

\* A move leaves a tree: a directory is not moved to where it is above.
LEMMA MoveKeeps ==
  ASSUME TreeOK, NEW c \in setup.changes, Move(c), setup' = setup, done' = done \cup {c}
  PROVE  TreeOK'
<1>1. c.parent \in Refs \cup {Top} /\ c.name \in STRING /\ c.ref \in DOMAIN tree
  BY SetupsAssumption DEF TreeOK, Move
<1>2. \A x \in DOMAIN tree : tree[x] \in Entry
  BY DEF TreeOK, WellFormed
<1>3. DOMAIN tree' = DOMAIN tree /\ \A x \in DOMAIN tree :
        /\ tree'[x] \in Entry /\ tree'[x].kind = tree[x].kind
        /\ x # c.ref => tree'[x].parent = tree[x].parent /\ tree'[x].name = tree[x].name
        /\ x = c.ref => tree'[x].parent = c.parent /\ tree'[x].name = c.name
  BY <1>1, <1>2 DEF Move, Entry
<1>4. /\ c.parent = Top \/ (c.parent \in DOMAIN tree /\ tree[c.parent].kind = "dir")
      /\ \A x \in DOMAIN tree : tree[x].parent = c.parent => tree[x].name # c.name
  BY DEF Move, Free, IsDir, ChildrenOf
<1>5. PICK B \in SUBSET Refs : /\ c.ref \in B /\ c.parent \notin B
                               /\ \A z \in DOMAIN tree : tree[z].parent \in B => z \in B
  BY DEF Move, Within
<1>6. \A x \in DOMAIN tree' :
        tree'[x].parent = Top \/ (tree'[x].parent \in DOMAIN tree' /\ tree'[tree'[x].parent].kind = "dir")
  BY <1>3, <1>4 DEF TreeOK, WellFormed
<1>7. \A x, y \in DOMAIN tree' : tree'[x].parent = tree'[y].parent /\ tree'[x].name = tree'[y].name => x = y
  BY <1>3, <1>4 DEF TreeOK, WellFormed
<1>8. ASSUME NEW S \in SUBSET DOMAIN tree', \A x \in S : tree'[x].parent \in S PROVE S = {}
  <2>1. CASE c.ref \notin S
    BY <1>3, <1>8, <2>1 DEF TreeOK, WellFormed
  <2>2. CASE c.ref \in S
    <3>1. c.parent \in S \ B
      BY <1>3, <1>5, <1>8, <2>2
    <3>2. S \ B \in SUBSET DOMAIN tree /\ \A x \in S \ B : tree[x].parent \in S \ B
      BY <1>3, <1>5, <1>8
    <3> QED BY <3>1, <3>2 DEF TreeOK, WellFormed
  <2> QED BY <2>1, <2>2
<1>9. WellFormed(tree')
  BY <1>3, <1>6, <1>7, <1>8 DEF TreeOK, WellFormed
<1> QED BY <1>3, <1>9 DEF TreeOK, LinksKnown

\* An erased entry leaves a tree: a directory that goes is empty.
LEMMA EraseKeeps ==
  ASSUME TreeOK, NEW c \in setup.changes, Erase(c), setup' = setup, done' = done \cup {c}
  PROVE  TreeOK'
<1>1. DOMAIN tree' = DOMAIN tree \ {c.ref} /\ \A x \in DOMAIN tree' : tree'[x] = tree[x]
  BY DEF Erase
<1>2. \A x \in DOMAIN tree : tree[x].parent # c.ref
  BY DEF Erase, ChildrenOf
<1>3. WellFormed(tree')
  BY <1>1, <1>2 DEF TreeOK, WellFormed
<1> QED BY <1>1, <1>3 DEF TreeOK, LinksKnown

\* Whatever another program does leaves a tree.
LEMMA ChangeKeeps ==
  ASSUME TreeOK, Change, setup' = setup
  PROVE  TreeOK'
<1>1. PICK c \in setup.changes \ done :
        /\ Create(c) \/ Write(c) \/ Move(c) \/ Erase(c) \/ Trim(c) \/ Recreate(c)
        /\ done' = done \cup {c}
  BY DEF Change
<1>2. CASE tree' = tree
  BY <1>1, <1>2 DEF TreeOK, LinksKnown, WellFormed
<1> QED BY <1>1, <1>2, CreateKeeps, WriteKeeps, MoveKeeps, EraseKeeps DEF Trim, Recreate

-----------------------------------------------------------------------------
(* The ways down the tree.                                                   *)

\* What a way is made of.
AnyWay == [path : Seq(STRING), dir : Refs \cup {Top}, met : SUBSET (Refs \cup {Top})]

\* The roots are paths.
LEMMA RootsArePaths ==
  ASSUME TreeOK
  PROVE  Roots = 1..Len(setup.roots) /\ Roots \subseteq Nat /\ \A i \in Roots : setup.roots[i] \in Seq(STRING)
<1>1. setup.roots \in Seq(Seq(STRING))
  BY SetupsAssumption DEF TreeOK
<1> QED BY <1>1 DEF Roots

\* What is taken of a directory are entries that are there, and they lead to an entry or the root.
LEMMA TakenFacts ==
  ASSUME TreeOK, NEW d, NEW x \in Taken(d)
  PROVE  /\ x \in DOMAIN tree /\ tree[x].parent = d /\ tree[x].name \in STRING
         /\ Target(x) \in DOMAIN tree \cup {Top}
         /\ Step(d, tree[x].name) = Target(x)
<1>1. x \in DOMAIN tree /\ tree[x].parent = d /\ tree[x].name \in STRING
  BY DEF TreeOK, WellFormed, Taken, ChildrenOf, Entry
<1>2. Target(x) \in DOMAIN tree \cup {Top}
  BY <1>1 DEF Taken, Target
<1> QED BY <1>1, <1>2, StepToChild DEF TreeOK

\* A directory is an entry or the root.
LEMMA DirsAreSpots ==
  ASSUME TreeOK, NEW x, IsDir(x)
  PROVE  x \in Refs \cup {Top}
BY DEF TreeOK, WellFormed, IsDir

\* The ways the roots themselves are, and all the ways one name further than some.
Starts == {w \in {Way(setup.roots[i], Resolve(setup.roots[i]), {}) : i \in Roots} : IsDir(w.dir)}

Further(W) == W \cup UNION {Onward(w) : w \in {v \in W : v.dir \notin setup.denied}}

\* The ways in up to so many names, level by level.
Levels(ways) ==
  /\ ways \in [0..Cardinality(Refs) -> SUBSET AnyWay]
  /\ ways[0] = Starts
  /\ \A k \in 1..Cardinality(Refs) : ways[k] = Further(ways[k - 1])

\* A name further than a way is a way.
LEMMA OnwardTyped ==
  ASSUME TreeOK, NEW W \in SUBSET AnyWay
  PROVE  Further(W) \in SUBSET AnyWay
<1>1. ASSUME NEW w \in W PROVE Onward(w) \subseteq AnyWay
  <2> SUFFICES ASSUME NEW x \in Taken(w.dir), IsDir(Target(x))
               PROVE  Way(Append(w.path, tree[x].name), Target(x), w.met) \in AnyWay
    BY DEF Onward
  <2>1. tree[x].name \in STRING /\ Target(x) \in Refs \cup {Top}
    BY TakenFacts, DirsAreSpots
  <2>2. w.path \in Seq(STRING) /\ w.met \in SUBSET (Refs \cup {Top})
    BY DEF AnyWay
  <2>3. Append(w.path, tree[x].name) \in Seq(STRING)
    BY <2>1, <2>2
  <2> QED BY <2>1, <2>2, <2>3 DEF Way, AnyWay
<1> QED BY <1>1 DEF Further

\* A root is a way.
LEMMA StartsTyped ==
  ASSUME TreeOK
  PROVE  Starts \in SUBSET AnyWay
<1> SUFFICES ASSUME NEW i \in Roots, IsDir(Resolve(setup.roots[i]))
             PROVE  Way(setup.roots[i], Resolve(setup.roots[i]), {}) \in AnyWay
  BY DEF Starts, Way
<1>1. setup.roots[i] \in Seq(STRING) /\ Resolve(setup.roots[i]) \in Refs \cup {Top}
  BY RootsArePaths, DirsAreSpots
<1> QED BY <1>1 DEF Way, AnyWay

\* There are finitely many references.
LEMMA RefsCount == Cardinality(Refs) \in Nat
BY RefsAssumption, FS_CardinalityType

\* The ways are the last of the levels.
LEMMA WaysLevels ==
  ASSUME TreeOK
  PROVE  \E ways : Levels(ways) /\ Ways = ways[Cardinality(Refs)]
<1> DEFINE N == Cardinality(Refs)
           h == [k \in 1..N |-> [W \in SUBSET AnyWay |-> Further(W)]]
           Is(ways) == ways = [k \in 0..N |-> IF k = 0 THEN Starts ELSE Further(ways[k - 1])]
<1>1. N \in Nat /\ Starts \in SUBSET AnyWay
  BY RefsCount, StartsTyped
<1>2. h \in [1..N -> [SUBSET AnyWay -> SUBSET AnyWay]]
  BY OnwardTyped
<1>3. \A W \in SUBSET AnyWay, k \in 1..N : h[k][W] = Further(W)
  OBVIOUS
<1> HIDE DEF h
<1>4. PICK f \in [0..N -> SUBSET AnyWay] : f[0] = Starts /\ \A n \in 1..N : f[n] = h[n][f[n - 1]]
  <2> DEFINE U == SUBSET AnyWay
  <2>1. N \in Nat /\ Starts \in U /\ h \in [1..N -> [U -> U]]
    BY <1>1, <1>2
  <2> HIDE DEF N, U, Is
  <2>2. \E f \in [0..N -> U] : f[0] = Starts /\ \A n \in 1..N : f[n] = h[n][f[n - 1]]
    BY <2>1, RecursionExists
  <2> QED BY <2>2 DEF U
<1>5. \A n \in 1..N : f[n] = Further(f[n - 1])
  BY <1>1, <1>3, <1>4
<1>6. Is(f)
  BY <1>1, <1>4, <1>5
<1> DEFINE ways == CHOOSE g : Is(g)
<1>7. Is(ways)
  <2> HIDE DEF Is
  <2> QED BY <1>6
<1>8. Ways = ways[N]
  BY DEF Ways, Starts, Further
<1> HIDE DEF ways
<1>9. ways[0] = Starts /\ \A k \in 1..N : ways[k] = Further(ways[k - 1])
  BY <1>1, <1>7
<1>10. \A k \in Nat : k <= N => ways[k] \in SUBSET AnyWay
  <2> DEFINE T == {k \in Nat : k <= N => ways[k] \in SUBSET AnyWay}
  <2>1. 0 \in T
    BY <1>1, <1>9
  <2>2. ASSUME NEW k \in Nat, k \in T PROVE k + 1 \in T
    <3> SUFFICES ASSUME k + 1 <= N PROVE ways[k + 1] \in SUBSET AnyWay
      OBVIOUS
    <3>1. k + 1 \in 1..N /\ (k + 1) - 1 = k /\ ways[k] \in SUBSET AnyWay
      BY <1>1, <2>2
    <3>2. ways[k + 1] = Further(ways[k])
      BY <1>9, <3>1
    <3> QED BY <3>1, <3>2, OnwardTyped
  <2> HIDE DEF T
  <2>3. \A k \in Nat : k \in T
    BY <2>1, <2>2, Induction
  <2> QED BY <2>3 DEF T
<1>11. Levels(ways)
  BY <1>1, <1>7, <1>9, <1>10 DEF Levels
<1> QED BY <1>8, <1>11

\* A level has the ways of those before it.
LEMMA LevelsGrow ==
  ASSUME TreeOK, NEW ways, Levels(ways), NEW j \in 0..Cardinality(Refs)
  PROVE  \A k \in j..Cardinality(Refs) : ways[j] \subseteq ways[k]
<1> DEFINE T == {m \in Nat : j + m <= Cardinality(Refs) => ways[j] \subseteq ways[j + m]}
<1>1. 0 \in T
  OBVIOUS
<1>2. ASSUME NEW m \in Nat, m \in T PROVE m + 1 \in T
  <2> SUFFICES ASSUME j + (m + 1) <= Cardinality(Refs) PROVE ways[j] \subseteq ways[j + (m + 1)]
    OBVIOUS
  <2>1. j + (m + 1) \in 1..Cardinality(Refs) /\ (j + (m + 1)) - 1 = j + m /\ j + m <= Cardinality(Refs)
    BY RefsCount
  <2>2. ways[j + (m + 1)] = Further(ways[j + m])
    BY <2>1 DEF Levels
  <2> QED BY <1>2, <2>1, <2>2 DEF Further
<1> HIDE DEF T
<1>3. \A m \in Nat : m \in T
  BY <1>1, <1>2, Induction
<1>4. ASSUME NEW k \in j..Cardinality(Refs) PROVE ways[j] \subseteq ways[k]
  <2>1. k - j \in Nat /\ j + (k - j) = k /\ k <= Cardinality(Refs)
    BY RefsCount
  <2> QED BY <1>3, <2>1 DEF T
<1> QED BY <1>4

\* A way's directory is where its path leads, and what it has met says at which level it
\* first is.
Steady(ways, w) ==
  /\ w.dir = Resolve(w.path) /\ IsDir(w.dir) /\ w.dir \in w.met
  /\ Cardinality(w.met) - 1 \in 0..Cardinality(Refs)
  /\ w \in ways[Cardinality(w.met) - 1]

\* Every way leads where its path does, and has been to at most one directory more
\* than it has names.
LEMMA WaysSteady ==
  ASSUME TreeOK, NEW ways, Levels(ways)
  PROVE  \A k \in 0..Cardinality(Refs) : \A w \in ways[k] : Steady(ways, w) /\ Cardinality(w.met) - 1 <= k
<1> DEFINE N == Cardinality(Refs)
           T == {k \in Nat : k <= N => \A w \in ways[k] : Steady(ways, w) /\ Cardinality(w.met) - 1 <= k}
<1>1. N \in Nat /\ \A S \in SUBSET (Refs \cup {Top}) : IsFiniteSet(S)
  <2>1. IsFiniteSet(Refs \cup {Top})
    BY RefsAssumption, FS_AddElement
  <2> QED BY <2>1, FS_Subset, RefsCount
<1>2. 0 \in T
  <2> SUFFICES ASSUME NEW w \in ways[0] PROVE Steady(ways, w) /\ Cardinality(w.met) - 1 <= 0
    OBVIOUS
  <2>1. PICK i \in Roots : w = Way(setup.roots[i], Resolve(setup.roots[i]), {}) /\ IsDir(w.dir)
    BY DEF Levels, Starts
  <2>2. w.dir = Resolve(w.path) /\ w.met = {w.dir}
    BY <2>1 DEF Way
  <2>3. Cardinality(w.met) = 1
    BY <2>2, FS_Singleton
  <2> QED BY <1>1, <2>1, <2>2, <2>3 DEF Steady
<1>3. ASSUME NEW k \in Nat, k \in T PROVE k + 1 \in T
  <2> SUFFICES ASSUME k + 1 <= N, NEW w \in ways[k + 1]
               PROVE  Steady(ways, w) /\ Cardinality(w.met) - 1 <= k + 1
    OBVIOUS
  <2>1. k + 1 \in 1..N /\ (k + 1) - 1 = k /\ k <= N /\ k \in 0..N
    BY <1>1
  <2>2. ways[k + 1] = Further(ways[k])
    BY <2>1 DEF Levels
  <2>3. CASE w \in ways[k]
    BY <1>3, <2>1, <2>3 DEF Steady
  <2>4. CASE w \notin ways[k]
    <3>1. PICK v \in ways[k] : v.dir \notin setup.denied /\ w \in Onward(v)
      BY <2>2, <2>4 DEF Further
    <3>2. PICK x \in Taken(v.dir) : /\ w = Way(Append(v.path, tree[x].name), Target(x), v.met)
                                    /\ IsDir(Target(x)) /\ Target(x) \notin v.met
      BY <3>1 DEF Onward
    <3>3. v \in AnyWay /\ Steady(ways, v) /\ Cardinality(v.met) - 1 <= k
      BY <1>3, <2>1, <3>1 DEF Levels
    <3>4. w.dir = Target(x) /\ w.path = Append(v.path, tree[x].name) /\ w.met = v.met \cup {Target(x)}
      BY <3>2 DEF Way
    <3>5. w.dir = Resolve(w.path)
      <4>1. v.path \in Seq(STRING) /\ v.dir = Resolve(v.path)
        BY <3>3 DEF Steady, AnyWay
      <4>2. tree[x].name \in STRING /\ Step(v.dir, tree[x].name) = Target(x)
        BY TakenFacts
      <4>3. Resolve(Append(v.path, tree[x].name)) = Step(Resolve(v.path), tree[x].name)
        BY <4>1, <4>2, ResolveAppend DEF TreeOK
      <4> QED BY <3>4, <4>1, <4>2, <4>3
    <3>6. IsFiniteSet(v.met)
      BY <1>1, <3>3 DEF AnyWay
    <3>7. Cardinality(w.met) = Cardinality(v.met) + 1 /\ Cardinality(v.met) \in Nat
      BY <3>2, <3>4, <3>6, FS_AddElement, FS_CardinalityType
    <3> DEFINE j == Cardinality(v.met) - 1
    <3>8. j \in 0..k /\ v \in ways[j] /\ j + 1 \in 1..N /\ (j + 1) - 1 = j
      BY <1>1, <3>3, <3>7 DEF Steady
    <3>9. ways[j + 1] = Further(ways[j])
      BY <3>8 DEF Levels
    <3>10. w \in ways[j + 1]
      <4> HIDE DEF j
      <4> QED BY <3>1, <3>8, <3>9 DEF Further
    <3>11. Cardinality(w.met) - 1 = j + 1
      BY <3>7
    <3>12. Cardinality(w.met) - 1 \in 0..N /\ Cardinality(w.met) - 1 <= k + 1 /\ w \in ways[Cardinality(w.met) - 1]
      BY <3>8, <3>10, <3>11
    <3> QED BY <3>2, <3>4, <3>5, <3>12 DEF Steady
  <2> QED BY <2>3, <2>4
<1> HIDE DEF T
<1>4. \A k \in Nat : k \in T
  BY <1>2, <1>3, Induction
<1> QED BY <1>1, <1>4 DEF T

\* A way leads to a directory, by its path, and has been to it.
LEMMA WayFacts ==
  ASSUME TreeOK, NEW w \in Ways
  PROVE  /\ w.path \in Seq(STRING) /\ w.met \in SUBSET (Refs \cup {Top})
         /\ w.dir = Resolve(w.path) /\ IsDir(w.dir) /\ w.dir \in w.met
<1>1. PICK ways : Levels(ways) /\ Ways = ways[Cardinality(Refs)]
  BY WaysLevels
<1>2. Cardinality(Refs) \in 0..Cardinality(Refs)
  BY RefsCount
<1>3. w \in AnyWay /\ Steady(ways, w)
  BY <1>1, <1>2, WaysSteady DEF Levels
<1> QED BY <1>3 DEF Steady, AnyWay

\* Each root that is a directory is a way.
LEMMA WaysStart ==
  ASSUME TreeOK, NEW i \in Roots, IsDir(Resolve(setup.roots[i]))
  PROVE  Way(setup.roots[i], Resolve(setup.roots[i]), {}) \in Ways
<1>1. PICK ways : Levels(ways) /\ Ways = ways[Cardinality(Refs)]
  BY WaysLevels
<1>2. 0 \in 0..Cardinality(Refs) /\ Cardinality(Refs) \in 0..Cardinality(Refs)
  BY RefsCount
<1>3. ways[0] \subseteq Ways
  BY <1>1, <1>2, LevelsGrow
<1>4. Way(setup.roots[i], Resolve(setup.roots[i]), {}) \in ways[0]
  BY <1>1 DEF Levels, Starts, Way
<1> QED BY <1>3, <1>4

\* Ways are never cut short: there are not more directories than levels.
LEMMA WaysOnward ==
  ASSUME TreeOK, NEW w \in Ways, w.dir \notin setup.denied,
         NEW x \in Taken(w.dir), IsDir(Target(x)), Target(x) \notin w.met
  PROVE  Way(Append(w.path, tree[x].name), Target(x), w.met) \in Ways
<1> DEFINE N == Cardinality(Refs)
           j == Cardinality(w.met) - 1
<1>1. PICK ways : Levels(ways) /\ Ways = ways[N]
  BY WaysLevels
<1>2. N \in Nat /\ N \in 0..N
  BY RefsCount
<1>3. Steady(ways, w) /\ w \in AnyWay
  BY <1>1, <1>2, WaysSteady DEF Levels
<1>4. Target(x) \in Refs \cup {Top}
  BY DirsAreSpots
<1>5. IsFiniteSet(Refs \cup {Top}) /\ Cardinality(Refs \cup {Top}) = N + 1
  BY RefsAssumption, FS_AddElement
<1>6. /\ w.met \cup {Target(x)} \in SUBSET (Refs \cup {Top})
      /\ w.met \in SUBSET (Refs \cup {Top})
  BY <1>3, <1>4 DEF AnyWay
<1>7. IsFiniteSet(w.met) /\ Cardinality(w.met \cup {Target(x)}) <= N + 1
  BY <1>5, <1>6, FS_Subset
<1>8. Cardinality(w.met \cup {Target(x)}) = Cardinality(w.met) + 1 /\ Cardinality(w.met) \in Nat
  BY <1>7, FS_AddElement, FS_CardinalityType
<1>9. j \in 0..N /\ j + 1 \in 1..N /\ j + 1 \in 0..N /\ (j + 1) - 1 = j /\ w \in ways[j] /\ N \in (j + 1)..N
  BY <1>2, <1>3, <1>7, <1>8 DEF Steady
<1> HIDE DEF j
<1>10. ways[j + 1] = Further(ways[j])
  BY <1>1, <1>9 DEF Levels
<1>11. Way(Append(w.path, tree[x].name), Target(x), w.met) \in Onward(w)
  BY DEF Onward
<1>12. Way(Append(w.path, tree[x].name), Target(x), w.met) \in ways[j + 1]
  BY <1>9, <1>10, <1>11 DEF Further
<1>13. ways[j + 1] \subseteq ways[N]
  BY <1>1, <1>9, LevelsGrow
<1> QED BY <1>1, <1>12, <1>13

\* Directories that have the roots and with each readable one what it has: all ways' are
\* among them.
LEMMA WaysInside ==
  ASSUME TreeOK, NEW D,
         \A i \in Roots : IsDir(Resolve(setup.roots[i])) => Resolve(setup.roots[i]) \in D,
         \A d \in D \ setup.denied : \A x \in Taken(d) : IsDir(Target(x)) => Target(x) \in D
  PROVE  \A w \in Ways : w.dir \in D
<1> DEFINE N == Cardinality(Refs)
<1>1. PICK ways : Levels(ways) /\ Ways = ways[N]
  BY WaysLevels
<1> DEFINE T == {k \in Nat : k <= N => \A w \in ways[k] : w.dir \in D}
<1>2. 0 \in T
  BY <1>1 DEF Levels, Starts, Way
<1>3. ASSUME NEW k \in Nat, k \in T PROVE k + 1 \in T
  <2> SUFFICES ASSUME k + 1 <= N, NEW w \in ways[k + 1] PROVE w.dir \in D
    OBVIOUS
  <2>1. k + 1 \in 1..N /\ (k + 1) - 1 = k /\ k <= N
    BY RefsCount
  <2>2. ways[k + 1] = Further(ways[k])
    BY <1>1, <2>1 DEF Levels
  <2>3. CASE w \in ways[k]
    BY <1>3, <2>1, <2>3
  <2>4. CASE w \notin ways[k]
    <3>1. PICK v \in ways[k] : v.dir \notin setup.denied /\ w \in Onward(v)
      BY <2>2, <2>4 DEF Further
    <3>2. PICK x \in Taken(v.dir) : w.dir = Target(x) /\ IsDir(Target(x))
      BY <3>1 DEF Onward, Way
    <3>3. v.dir \in D \ setup.denied
      BY <1>3, <2>1, <3>1
    <3> QED BY <3>2, <3>3
  <2> QED BY <2>3, <2>4
<1> HIDE DEF T
<1>4. \A k \in Nat : k \in T
  BY <1>2, <1>3, Induction
<1> QED BY <1>1, <1>4, RefsCount DEF T

-----------------------------------------------------------------------------
(* What the lanes hold.                                                      *)

\* What a lane lists, what a lane holds, and what the walk's variables hold.
FileRecord == [path : Seq(STRING), ref : Refs, size : Nat]

LaneType ==
  [state : {"waiting", "walking", "done", "failed"}, layer : SUBSET Seq(STRING),
   announced : SUBSET Seq(STRING), next : SUBSET Seq(STRING),
   visited : SUBSET (Refs \cup {Top}), entries : SUBSET FileRecord, cut : BOOLEAN]

Typed ==
  /\ TreeOK
  /\ lanes \in [Scanners -> [Roots -> LaneType]]
  /\ at \in [Scanners -> Steps]
  /\ cancelled \in [Scanners -> BOOLEAN] /\ quiet \in [Scanners -> BOOLEAN]
  /\ list = [s \in Scanners |-> list[s]]

\* What the paths lead to, and the directories a lane has yet to read.
LedTo(paths) == {Resolve(p) : p \in paths}

Pending(lane) == lane.layer \cup lane.announced \cup lane.next

\* The order of the work: layer by layer, and when the roots are not walked side by side
\* one after the other.
Orderly(s, i) ==
  LET lane == lanes[s][i]
  IN  /\ lane.state = "waiting" => lane = NewLane
      /\ lane.layer # {} => lane.announced = {} /\ lane.next = {}
      /\ ~SideBySide /\ lane.state # "waiting" => \A j \in Roots : j < i => lanes[s][j].state = "done"
      /\ ~cancelled[s] /\ lane.state = "done" => Pending(lane) = {}
      /\ lane.cut => cancelled[s]

\* A directory that is being read has been come to by a way, and the directories of the
\* way have been visited; without links they are the ones it is in.
Known(lane, w, met) ==
  IF setup.follow THEN met \subseteq lane.visited ELSE \A m \in w.met : Within(w.dir, m)

\* A way by this path.
WayTo(p, w) == w \in Ways /\ w.path = p /\ w.dir = Resolve(p)

\* What is announced and not read has been come to by a way.
AnnouncedOK(lane) ==
  \A p \in lane.announced : \E w : WayTo(p, w) /\ Known(lane, w, w.met)

\* A directory that is to be read has been visited, or has been come to by a way too.
AheadOK(lane) ==
  \A p \in lane.layer \cup lane.next :
    /\ IsDir(Resolve(p))
    /\ \/ setup.follow /\ Resolve(p) \in lane.visited
       \/ \E w : WayTo(p, w) /\ Known(lane, w, w.met \ {w.dir})

\* An entry is a file under the path of a root, or of a way and a name.
EntriesOK(lane, i) ==
  \A e \in lane.entries :
    /\ e = FileEntry(e.path, Resolve(e.path)) /\ IsFile(Resolve(e.path))
    /\ Passes(e.path, Resolve(e.path))
    /\ \/ e.path = setup.roots[i]
       \/ \E w \in Ways : \E y \in Taken(w.dir) :
            w.dir \notin setup.denied /\ e.path = Append(w.path, tree[y].name)

\* What the lanes of a scanner have listed so far.
AllEntries(s) == UNION {lanes[s][i].entries : i \in Roots}

\* The directories D have been read: their files are among those listed, and their
\* directories are in D too or yet to be read; so is the root, and so are all that were
\* visited.
Covers(lane, root, listed, D) ==
  /\ lane.visited \subseteq D \cup LedTo(lane.announced)
  /\ IsDir(Resolve(root)) => Resolve(root) \in D \cup LedTo(Pending(lane))
  /\ IsFile(Resolve(root)) /\ Passes(root, Resolve(root)) =>
       FileEntry(root, Resolve(root)) \in lane.entries
  /\ \A d \in D \ setup.denied :
       /\ \E w \in Ways : w.dir = d /\ FileEntries(w.path, d) \subseteq listed
       /\ \A y \in Taken(d) : IsDir(Target(y)) => Target(y) \in D \cup LedTo(Pending(lane))

Covered(lane, root, listed) ==
  lane.state \in {"walking", "done"} =>
    \E D : D \subseteq Refs \cup {Top} /\ Covers(lane, root, listed, D)

\* Links followed and the roots one after the other, a directory is read once: the paths
\* entries were found under lead to directories visited by this root and not before, all
\* of them different, and different from those yet to be read.
OnceEach(lane, root, before) ==
  LET own == lane.visited \ before
  IN  /\ lane.state \in {"walking", "done"} => before \subseteq lane.visited
      /\ LedTo(lane.announced) \subseteq own
      /\ \A p, q \in lane.announced : Resolve(p) = Resolve(q) => p = q
      /\ \A e \in lane.entries :
           \/ e.path = root /\ lane.entries = {e} /\ lane.state = "done"
           \/ \E p \in Seq(STRING), a \in STRING :
                e.path = Append(p, a) /\ Resolve(p) \in own \ LedTo(lane.announced)
      /\ \A e, g \in lane.entries : \A p, q \in Seq(STRING) : \A a, b \in STRING :
           e.path = Append(p, a) /\ g.path = Append(q, b) /\ Resolve(p) = Resolve(q) => p = q

\* A lane on a tree nothing has changed since the scanner began.
Walked(s, i) ==
  /\ AnnouncedOK(lanes[s][i]) /\ AheadOK(lanes[s][i]) /\ EntriesOK(lanes[s][i], i)
  /\ ~cancelled[s] => Covered(lanes[s][i], setup.roots[i], AllEntries(s))
  /\ setup.follow /\ ~SideBySide => OnceEach(lanes[s][i], setup.roots[i], VisitedBefore(s, i))

\* A scanner: its lanes are new unless it walks, in order when it does; the walk on a tree
\* nothing has changed since is as above, and its list in the end exact.
Sound(s) ==
  /\ at[s] # "walk" => lanes[s] = NewLanes /\ ~cancelled[s]
  /\ \A i \in Roots : Orderly(s, i)
  /\ quiet[s] /\ at[s] = "walk" => \A i \in Roots : Walked(s, i)
  /\ Ended(s) /\ quiet[s] /\ list[s].how = "walk" => Exact(list[s])

\* The inductive invariant of the walk.
Inv == Typed /\ \A s \in Scanners : Sound(s)

-----------------------------------------------------------------------------
(* While the tree stays as it is, so does all that is read off it.           *)

\* Resolve with the tree and the setup as parameters: what it reads of the state.
ResolveIn(t, u, path) ==
  LET spot[n \in 0..Len(path)] ==
        IF n = 0 THEN Top
        ELSE LET d == spot[n - 1]
                 named == {x \in DOMAIN t : t[x].name = path[n] /\ t[x].parent = d}
             IN  IF named = {} THEN Missing
                 ELSE LET c == CHOOSE x \in named : TRUE
                          e == IF t[c].kind = "link" THEN u.linkTo[c] ELSE c
                      IN  IF e \in DOMAIN t \cup {Top} THEN e ELSE Missing
  IN  spot[Len(path)]

\* A path leads where it did.
LEMMA ResolveStays ==
  ASSUME tree' = tree, setup' = setup
  PROVE  \A path : Resolve(path)' = Resolve(path)
<1> SUFFICES ASSUME NEW path PROVE Resolve(path)' = Resolve(path)
  OBVIOUS
<1>1. Resolve(path) = ResolveIn(tree, setup, path)
  BY Zenon DEF Resolve, ResolveIn, Step, Target
<1>2. Resolve(path)' = ResolveIn(tree', setup', path)
  BY Zenon DEF Resolve, ResolveIn, Step, Target
<1> HIDE DEF ResolveIn
<1> QED BY <1>1, <1>2

\* Entries are of the same kinds and in the same directories.
LEMMA TakenStays ==
  ASSUME tree' = tree, setup' = setup
  PROVE  /\ \A x : Target(x)' = Target(x) /\ IsDir(x)' = IsDir(x) /\ IsFile(x)' = IsFile(x)
         /\ \A d : Taken(d)' = Taken(d)
         /\ \A x, y : Within(x, y)' = Within(x, y)
         /\ Roots' = Roots /\ SideBySide' = SideBySide
BY DEF Target, IsDir, IsFile, Taken, ChildrenOf, Within, Roots, SideBySide

\* The rules let the same paths pass.
LEMMA PassesStays ==
  ASSUME tree' = tree, setup' = setup
  PROVE  /\ \A size : SizeFits(size)' = SizeFits(size)
         /\ \A path : path_passes_globs(path)' = path_passes_globs(path)
         /\ \A path : dropped_by_exclusions(path)' = dropped_by_exclusions(path)
         /\ \A path, x : Passes(path, x)' = Passes(path, x)
         /\ \A path, x : FileEntry(path, x)' = FileEntry(path, x)
<1>1. \A size : SizeFits(size)' = SizeFits(size)
  BY DEF SizeFits
<1>2. \A path : path_passes_globs(path)' = path_passes_globs(path)
  BY DEF path_passes_globs
<1>3. \A path : dropped_by_exclusions(path)' = dropped_by_exclusions(path)
  <2>1. Policy' = Policy
    BY DEF Policy
  <2> QED BY <2>1 DEF dropped_by_exclusions
<1>4. \A path, x : Passes(path, x)' = Passes(path, x)
  BY <1>1, <1>2, <1>3 DEF Passes
<1>5. \A path, x : FileEntry(path, x)' = FileEntry(path, x)
  BY DEF FileEntry
<1> QED BY <1>1, <1>2, <1>3, <1>4, <1>5

\* A directory has the same files, and the ways on from it are the same.
LEMMA FilesStay ==
  ASSUME tree' = tree, setup' = setup
  PROVE  /\ \A path, d : FileEntries(path, d)' = FileEntries(path, d)
         /\ \A w : Onward(w)' = Onward(w)
         /\ Starts' = Starts
<1>1. \A path, d : FileEntries(path, d)' = FileEntries(path, d)
  BY TakenStays, PassesStays DEF FileEntries
<1>2. \A w : Onward(w)' = Onward(w)
  BY TakenStays DEF Onward
<1>3. Starts' = Starts
  BY TakenStays, ResolveStays DEF Starts
<1> QED BY <1>1, <1>2, <1>3

\* Ways with the tree and the setup as parameters.
WaysIn(t, u) ==
  LET TargetIn(x) == IF t[x].kind = "link" THEN u.linkTo[x] ELSE x
      IsDirIn(x) == x = Top \/ (x \in DOMAIN t /\ t[x].kind = "dir")
      TakenIn(d) ==
        {x \in {y \in DOMAIN t : t[y].parent = d} :
           /\ t[x].kind = "link" => u.follow /\ TargetIn(x) \in DOMAIN t \cup {Top}
           /\ t[x].name \notin u.ownNames}
      OnwardIn(w) ==
        {Way(Append(w.path, t[x].name), TargetIn(x), w.met) :
           x \in {y \in TakenIn(w.dir) : IsDirIn(TargetIn(y)) /\ TargetIn(y) \notin w.met}}
      ways[k \in 0..Cardinality(Refs)] ==
        IF k = 0
        THEN {w \in {Way(u.roots[i], ResolveIn(t, u, u.roots[i]), {}) : i \in DOMAIN u.roots} :
                IsDirIn(w.dir)}
        ELSE ways[k - 1] \cup UNION {OnwardIn(w) : w \in {v \in ways[k - 1] : v.dir \notin u.denied}}
  IN  ways[Cardinality(Refs)]

\* The ways are the same.
LEMMA WaysStay ==
  ASSUME tree' = tree, setup' = setup
  PROVE  Ways' = Ways
<1>1. Ways = WaysIn(tree, setup)
  BY Zenon DEF Ways, WaysIn, Onward, Taken, ChildrenOf, Target, IsDir, Roots, Resolve, ResolveIn, Step
<1>2. Ways' = WaysIn(tree', setup')
  BY Zenon DEF Ways, WaysIn, Onward, Taken, ChildrenOf, Target, IsDir, Roots, Resolve, ResolveIn, Step
<1> HIDE DEF WaysIn
<1> QED BY <1>1, <1>2

\* A list that was exact is, and no other.
LEMMA ExactStays ==
  ASSUME tree' = tree, setup' = setup
  PROVE  \A l : Exact(l)' = Exact(l)
<1>1. Places' = Places
  BY WaysStay, ResolveStays, TakenStays DEF Places
<1>2. \A how, p : Allowed(how, p)' = Allowed(how, p)
  BY PassesStays DEF Allowed
<1>3. \A path : MayRepeat(path)' = MayRepeat(path)
  BY TakenStays DEF MayRepeat, LinkName, Range
<1>4. \A how : MayList(how)' = MayList(how) /\ MustList(how)' = MustList(how)
  BY <1>1, <1>2 DEF MayList, MustList
<1> SUFFICES ASSUME NEW l PROVE Exact(l)' = Exact(l)
  OBVIOUS
<1> QED BY <1>2, <1>3, <1>4, ResolveStays DEF Exact

\* What a lane is said to be, as long as the tree stays, depends on the lane alone.
LEMMA LaneStays ==
  ASSUME tree' = tree, setup' = setup
  PROVE  /\ \A paths : LedTo(paths)' = LedTo(paths)
         /\ \A p, w : WayTo(p, w)' = WayTo(p, w)
         /\ \A lane, w, met : Known(lane, w, met)' = Known(lane, w, met)
         /\ \A lane : AnnouncedOK(lane)' = AnnouncedOK(lane) /\ AheadOK(lane)' = AheadOK(lane)
         /\ \A lane, i : EntriesOK(lane, i)' = EntriesOK(lane, i)
         /\ \A lane, root, listed, D : Covers(lane, root, listed, D)' = Covers(lane, root, listed, D)
         /\ \A lane, root, before : OnceEach(lane, root, before)' = OnceEach(lane, root, before)
<1>1. \A paths : LedTo(paths)' = LedTo(paths)
  BY ResolveStays DEF LedTo
<1>2. \A p, w : WayTo(p, w)' = WayTo(p, w)
  BY WaysStay, ResolveStays DEF WayTo
<1>3. \A lane, w, met : Known(lane, w, met)' = Known(lane, w, met)
  BY TakenStays DEF Known
<1>4. \A lane : AnnouncedOK(lane)' = AnnouncedOK(lane) /\ AheadOK(lane)' = AheadOK(lane)
  <2> SUFFICES ASSUME NEW lane
               PROVE  AnnouncedOK(lane)' = AnnouncedOK(lane) /\ AheadOK(lane)' = AheadOK(lane)
    OBVIOUS
  <2>1. AnnouncedOK(lane)' = AnnouncedOK(lane)
    BY <1>2, <1>3 DEF AnnouncedOK
  <2>2. AheadOK(lane)' = AheadOK(lane)
    <3>1. setup' = setup
      OBVIOUS
    <3>2. \A p : IsDir(Resolve(p))' = IsDir(Resolve(p)) /\ Resolve(p)' = Resolve(p)
      BY TakenStays, ResolveStays
    <3> QED BY <1>2, <1>3, <3>1, <3>2 DEF AheadOK
  <2> QED BY <2>1, <2>2
<1>5. \A lane, i : EntriesOK(lane, i)' = EntriesOK(lane, i)
  BY WaysStay, TakenStays, ResolveStays, PassesStays DEF EntriesOK
<1>6. ASSUME NEW lane, NEW root, NEW listed, NEW D
      PROVE  Covers(lane, root, listed, D)' = Covers(lane, root, listed, D)
  <2>1. LedTo(lane.announced)' = LedTo(lane.announced) /\ LedTo(Pending(lane))' = LedTo(Pending(lane))
    BY <1>1 DEF Pending
  <2>2. /\ IsDir(Resolve(root))' = IsDir(Resolve(root)) /\ Resolve(root)' = Resolve(root)
        /\ IsFile(Resolve(root))' = IsFile(Resolve(root))
        /\ Passes(root, Resolve(root))' = Passes(root, Resolve(root))
        /\ FileEntry(root, Resolve(root))' = FileEntry(root, Resolve(root))
    BY ResolveStays, TakenStays, PassesStays
  <2>3. \A d : /\ Taken(d)' = Taken(d) /\ Target(d)' = Target(d) /\ IsDir(Target(d))' = IsDir(Target(d))
               /\ (d \in D \ setup.denied)' = (d \in D \ setup.denied)
    BY TakenStays
  <2>4. \A d : (\E w \in Ways : w.dir = d /\ FileEntries(w.path, d) \subseteq listed)'
               = (\E w \in Ways : w.dir = d /\ FileEntries(w.path, d) \subseteq listed)
    BY WaysStay, FilesStay
  <2>5. \A d : (\A y \in Taken(d) : IsDir(Target(y)) => Target(y) \in D \cup LedTo(Pending(lane)))'
               = (\A y \in Taken(d) : IsDir(Target(y)) => Target(y) \in D \cup LedTo(Pending(lane)))
    BY <2>1, <2>3
  <2> QED BY <2>1, <2>2, <2>3, <2>4, <2>5 DEF Covers
<1>7. ASSUME NEW lane, NEW root, NEW before
      PROVE  OnceEach(lane, root, before)' = OnceEach(lane, root, before)
  <2>1. LedTo(lane.announced)' = LedTo(lane.announced)
    BY <1>1
  <2>2. (\A p, q \in lane.announced : Resolve(p) = Resolve(q) => p = q)'
          = (\A p, q \in lane.announced : Resolve(p) = Resolve(q) => p = q)
    BY ResolveStays
  <2>3. (\A e \in lane.entries :
           \/ e.path = root /\ lane.entries = {e} /\ lane.state = "done"
           \/ \E p \in Seq(STRING), a \in STRING :
                e.path = Append(p, a) /\ Resolve(p) \in (lane.visited \ before) \ LedTo(lane.announced))'
        = (\A e \in lane.entries :
           \/ e.path = root /\ lane.entries = {e} /\ lane.state = "done"
           \/ \E p \in Seq(STRING), a \in STRING :
                e.path = Append(p, a) /\ Resolve(p) \in (lane.visited \ before) \ LedTo(lane.announced))
    BY <2>1, ResolveStays
  <2> DEFINE Apart(e, g) == \A p, q \in Seq(STRING) : \A a, b \in STRING :
               e.path = Append(p, a) /\ g.path = Append(q, b) /\ Resolve(p) = Resolve(q) => p = q
  <2>4. \A e, g : Apart(e, g)' = Apart(e, g)
    <3>1. \A p, q : (Resolve(p) = Resolve(q))' = (Resolve(p) = Resolve(q))
      BY ResolveStays
    <3>2. SUFFICES ASSUME NEW e, NEW g PROVE Apart(e, g)' <=> Apart(e, g)
      OBVIOUS
    <3>3. ASSUME Apart(e, g) PROVE Apart(e, g)'
      BY <3>1, <3>3
    <3>4. ASSUME Apart(e, g)' PROVE Apart(e, g)
      BY <3>1, <3>4
    <3> QED BY <3>3, <3>4
  <2>5. (\A e, g \in lane.entries : Apart(e, g))' = (\A e, g \in lane.entries : Apart(e, g))
    <3> HIDE DEF Apart
    <3> QED BY <2>4
  <2> QED BY <2>1, <2>2, <2>3, <2>5 DEF OnceEach
<1> QED BY <1>1, <1>2, <1>3, <1>4, <1>5, <1>6, <1>7

-----------------------------------------------------------------------------
(* One step of one lane.                                                     *)

\* What a lane is once it has been set.
LEMMA LaneSet ==
  ASSUME Typed, NEW s \in Scanners, NEW i \in Roots, NEW L \in LaneType, SetLane(s, i, L)
  PROVE  /\ lanes' \in [Scanners -> [Roots -> LaneType]]
         /\ lanes'[s][i] = L
         /\ \A j \in Roots : j # i => lanes'[s][j] = lanes[s][j]
         /\ \A t \in Scanners : t # s => lanes'[t] = lanes[t]
BY DEF Typed, SetLane

\* More may be listed.
LEMMA CoveredGrows ==
  ASSUME NEW lane, NEW root, NEW listed, NEW more, listed \subseteq more, Covered(lane, root, listed)
  PROVE  Covered(lane, root, more)
BY DEF Covered, Covers

\* The other lanes do not mind what one that is not done does.
LEMMA OtherLanes ==
  ASSUME Typed, tree' = tree, setup' = setup, cancelled' = cancelled,
         NEW s \in Scanners, NEW i \in Roots, NEW j \in Roots, i # j,
         \A k \in Roots : k # i => lanes'[s][k] = lanes[s][k],
         lanes[s][i].entries \subseteq lanes'[s][i].entries,
         lanes[s][i].state # "done",
         \A k \in Roots : Orderly(s, k),
         Walked(s, j)
  PROVE  Walked(s, j)'
<1>1. Roots' = Roots /\ SideBySide' = SideBySide /\ Roots \subseteq Nat
  BY TakenStays, RootsArePaths DEF Typed
<1>2. AnnouncedOK(lanes[s][j])' /\ AheadOK(lanes[s][j])' /\ EntriesOK(lanes[s][j], j)'
  BY LaneStays DEF Walked
<1>3. lanes[s][j]' = lanes[s][j] /\ (setup.roots[j])' = setup.roots[j]
  OBVIOUS
<1>4. ASSUME ~cancelled[s] PROVE Covered(lanes[s][j], setup.roots[j], AllEntries(s))'
  <2>1. AllEntries(s) \subseteq AllEntries(s)'
    <3>1. \A k \in Roots : lanes[s][k].entries \subseteq lanes'[s][k].entries
      OBVIOUS
    <3> QED BY <1>1, <3>1 DEF AllEntries
  <2>2. Covered(lanes[s][j], setup.roots[j], AllEntries(s)')
    BY <1>4, <2>1, CoveredGrows DEF Walked
  <2> QED BY <1>3, <2>2, LaneStays DEF Covered
<1>5. ASSUME setup.follow, ~SideBySide
      PROVE  OnceEach(lanes[s][j], setup.roots[j], VisitedBefore(s, j))'
  <2>1. i \in Nat /\ j \in Nat
    BY <1>1
  <2>2. CASE i < j
    <3>1. lanes[s][j] = NewLane
      BY <1>1, <1>5, <2>2 DEF Orderly
    <3> QED BY <1>3, <3>1 DEF OnceEach, NewLane, LedTo
  <2>3. CASE j < i
    <3>1. VisitedBefore(s, j)' = VisitedBefore(s, j)
      BY <1>1, <2>3 DEF VisitedBefore
    <3> QED BY <1>3, <1>5, <3>1, LaneStays DEF Walked
  <2> QED BY <2>1, <2>2, <2>3
<1> QED BY <1>1, <1>2, <1>3, <1>4, <1>5 DEF Walked
\* A lane moves on: what its new contents have to be for everything to be as it should.
LEMMA LaneMoves ==
  ASSUME Typed, tree' = tree, setup' = setup, cancelled' = cancelled,
         NEW s \in Scanners, NEW i \in Roots, NEW L \in LaneType, SetLane(s, i, L),
         lanes[s][i].state # "done", lanes[s][i].entries \subseteq L.entries,
         \A k \in Roots : Orderly(s, k) /\ Walked(s, k),
         AnnouncedOK(L), AheadOK(L), EntriesOK(L, i),
         ~cancelled[s] => Covered(L, setup.roots[i], AllEntries(s) \cup L.entries),
         setup.follow /\ ~SideBySide => OnceEach(L, setup.roots[i], VisitedBefore(s, i))
  PROVE  \A j \in Roots' : Walked(s, j)'
<1>1. Roots' = Roots /\ SideBySide' = SideBySide /\ Roots \subseteq Nat
  BY TakenStays, RootsArePaths DEF Typed
<1>2. /\ lanes'[s][i] = L
      /\ \A j \in Roots : j # i => lanes'[s][j] = lanes[s][j]
  BY LaneSet
<1> SUFFICES ASSUME NEW j \in Roots PROVE Walked(s, j)'
  BY <1>1
<1>3. CASE j # i
  BY <1>2, <1>3, OtherLanes
<1>4. CASE j = i
  <2>1. lanes[s][i]' = L /\ (setup.roots[i])' = setup.roots[i]
    BY <1>2
  <2>2. AnnouncedOK(lanes[s][i])' /\ AheadOK(lanes[s][i])' /\ EntriesOK(lanes[s][i], i)'
    BY <2>1, LaneStays
  <2>3. AllEntries(s)' = AllEntries(s) \cup L.entries
    BY <1>1, <1>2 DEF AllEntries
  <2>4. ASSUME ~cancelled[s] PROVE Covered(lanes[s][i], setup.roots[i], AllEntries(s))'
    BY <2>1, <2>3, <2>4, LaneStays DEF Covered
  <2>5. ASSUME setup.follow, ~SideBySide
        PROVE  OnceEach(lanes[s][i], setup.roots[i], VisitedBefore(s, i))'
    <3>1. VisitedBefore(s, i)' = VisitedBefore(s, i)
      BY <1>1, <1>2 DEF VisitedBefore
    <3> QED BY <2>1, <2>5, <3>1, LaneStays
  <2> QED BY <1>1, <1>4, <2>2, <2>4, <2>5 DEF Walked
<1> QED BY <1>3, <1>4

\* A lane that moves on leaves the order as it should be.
LEMMA LaneOrder ==
  ASSUME Typed, setup' = setup, cancelled' = cancelled,
         NEW s \in Scanners, NEW i \in Roots, NEW L \in LaneType, SetLane(s, i, L),
         lanes[s][i].state # "done",
         \A k \in Roots : Orderly(s, k),
         L.state # "waiting",
         L.layer # {} => L.announced = {} /\ L.next = {},
         ~SideBySide => \A j \in Roots : j < i => lanes[s][j].state = "done",
         ~cancelled[s] /\ L.state = "done" => Pending(L) = {},
         L.cut => cancelled[s]
  PROVE  \A j \in Roots' : Orderly(s, j)'
<1>1. Roots' = Roots /\ SideBySide' = SideBySide /\ Roots \subseteq Nat /\ NewLane' = NewLane
  BY RootsArePaths DEF Typed, Roots, SideBySide, NewLane
<1>2. /\ lanes'[s][i] = L
      /\ \A j \in Roots : j # i => lanes'[s][j] = lanes[s][j]
  BY LaneSet
<1> SUFFICES ASSUME NEW j \in Roots PROVE Orderly(s, j)'
  BY <1>1
<1>3. CASE j = i
  BY <1>1, <1>2, <1>3 DEF Orderly, Pending
<1>4. CASE j # i
  <2>1. Orderly(s, j)
    OBVIOUS
  <2>2. ~SideBySide /\ lanes[s][j].state # "waiting" => ~ (i < j)
    BY <2>1 DEF Orderly
  <2>3. lanes'[s][j] = lanes[s][j]
    BY <1>2, <1>4
  <2> QED BY <1>1, <1>2, <2>1, <2>2, <2>3 DEF Orderly, Pending
<1> QED BY <1>3, <1>4

\* A path leads to an entry, to the root or to nothing.
LEMMA ResolveTyped ==
  ASSUME TreeOK, NEW path \in Seq(STRING)
  PROVE  Resolve(path) \in Refs \cup {Top, Missing}
BY ResolveKinds, DirsAreSpots DEF IsFile, TreeOK, WellFormed

\* Nothing is neither file nor directory.
LEMMA MissingIsNothing ==
  ASSUME TreeOK
  PROVE  ~ IsDir(Missing) /\ ~ IsFile(Missing) /\ ~ IsFile(Top) /\ \A x : ~ (IsDir(x) /\ IsFile(x))
BY RefsAssumption DEF TreeOK, WellFormed, IsDir, IsFile

\* A directory's files are listed as records of files.
LEMMA EntriesTyped ==
  ASSUME TreeOK, NEW path \in Seq(STRING), NEW d
  PROVE  /\ FileEntries(path, d) \subseteq FileRecord
         /\ SubDirs(path, d) \subseteq Seq(STRING)
         /\ \A x : IsFile(x) => FileEntry(path, x) \in FileRecord
<1>1. \A x : IsFile(x) => x \in Refs /\ tree[x].size \in Nat
  BY DEF IsFile, TreeOK, WellFormed, Entry
<1>2. \A name \in STRING : Append(path, name) \in Seq(STRING)
  BY AppendProperties
<1>3. \A p \in Seq(STRING) : \A x : IsFile(x) => FileEntry(p, x) \in FileRecord
  BY <1>1 DEF FileEntry, FileRecord
<1>4. FileEntries(path, d) \subseteq FileRecord
  <2> SUFFICES ASSUME NEW x \in Taken(d), IsFile(Target(x))
               PROVE  FileEntry(Append(path, tree[x].name), Target(x)) \in FileRecord
    BY DEF FileEntries
  <2>1. tree[x].name \in STRING
    BY TakenFacts
  <2> QED BY <1>2, <1>3, <2>1
<1> QED BY <1>2, <1>3, <1>4, TakenFacts DEF SubDirs

-----------------------------------------------------------------------------
(* A root is opened.                                                         *)

\* The directories visited when a root is opened, and its lane then.
Before(s, i) == IF SideBySide THEN {} ELSE VisitedBefore(s, i)

OpenedLane(s, i) ==
  LET lane == [NewLane EXCEPT !.visited = Before(s, i)]
  IN  IF cancelled[s] THEN [lane EXCEPT !.state = "done"] ELSE Opened(setup.roots[i], lane)

\* A root opened: a directory is its lane's first layer, a file its one entry.
LEMMA OpenedFacts ==
  ASSUME Typed, NEW s \in Scanners, NEW i \in Roots
  PROVE  LET L == OpenedLane(s, i)
             root == setup.roots[i]
             x == Resolve(root)
         IN  /\ L \in LaneType
             /\ L.visited = Before(s, i) /\ L.announced = {} /\ L.next = {} /\ L.cut = FALSE
             /\ \/ L.state = "failed" /\ L.layer = {} /\ L.entries = {} /\ x = Missing /\ ~cancelled[s]
                \/ L.state = "done" /\ L.layer = {} /\ L.entries = {} /\ cancelled[s]
                \/ /\ L.state = "done" /\ L.layer = {} /\ IsFile(x) /\ ~cancelled[s]
                   /\ L.entries = IF Passes(root, x) THEN {FileEntry(root, x)} ELSE {}
                \/ L.state = "walking" /\ L.layer = {root} /\ L.entries = {} /\ IsDir(x) /\ ~cancelled[s]
<1> DEFINE L == OpenedLane(s, i)
           root == setup.roots[i]
           x == Resolve(root)
           V == Before(s, i)
<1>1. V \subseteq Refs \cup {Top}
  BY DEF Before, VisitedBefore, Typed, LaneType
<1>2. root \in Seq(STRING) /\ TreeOK
  BY RootsArePaths DEF Typed
<1>3. x = Missing \/ IsDir(x) \/ IsFile(x)
  BY <1>2, ResolveKinds
<1>4. IsFile(x) => FileEntry(root, x) \in FileRecord
  BY <1>2, EntriesTyped
<1>5. x = Missing => ~ IsFile(x)
  BY <1>2, MissingIsNothing
<1> DEFINE lane == [NewLane EXCEPT !.visited = V]
<1> HIDE DEF x, V, root
<1>6. NewLane \in LaneType
  BY DEF NewLane, LaneType
<1>7. /\ lane \in LaneType
      /\ lane.visited = V /\ lane.layer = {} /\ lane.announced = {} /\ lane.next = {}
      /\ lane.entries = {} /\ lane.cut = FALSE
  <2>1. lane \in LaneType
    BY <1>1, <1>6 DEF LaneType
  <2>2. lane.visited = V /\ lane.layer = NewLane.layer /\ lane.announced = NewLane.announced
        /\ lane.next = NewLane.next /\ lane.entries = NewLane.entries /\ lane.cut = NewLane.cut
    BY <1>6 DEF LaneType
  <2> QED BY <2>1, <2>2 DEF NewLane
<1> HIDE DEF lane
<1>8. CASE cancelled[s]
  <2>1. L = [lane EXCEPT !.state = "done"]
    BY <1>8 DEF OpenedLane, lane, V
  <2> HIDE DEF L
  <2> QED BY <1>7, <1>8, <2>1 DEF LaneType, L, x, V, root
<1>9. CASE ~cancelled[s]
  <2>1. L = Opened(root, lane)
    BY <1>9 DEF OpenedLane, lane, root, V
  <2> HIDE DEF L
  <2>2. CASE x = Missing
    <3>1. L = [lane EXCEPT !.state = "failed"]
      BY <2>1, <2>2 DEF Opened, x
    <3>2. /\ L \in LaneType /\ L.visited = V /\ L.announced = {} /\ L.next = {} /\ L.cut = FALSE
          /\ L.state = "failed" /\ L.layer = {} /\ L.entries = {}
      BY <1>7, <3>1 DEF LaneType
    <3> QED BY <1>9, <2>2, <3>2 DEF L, x, V, root
  <2>3. CASE IsFile(x)
    <3> DEFINE files == IF Passes(root, x) THEN {FileEntry(root, x)} ELSE {}
    <3>1. files \subseteq FileRecord
      BY <1>4, <2>3
    <3>2. L = [lane EXCEPT !.state = "done", !.entries = files]
      BY <1>5, <2>1, <2>3 DEF Opened, x
    <3> HIDE DEF files
    <3>3. /\ L \in LaneType /\ L.visited = V /\ L.announced = {} /\ L.next = {} /\ L.cut = FALSE
          /\ L.state = "done" /\ L.layer = {} /\ L.entries = files
      BY <1>7, <3>1, <3>2 DEF LaneType
    <3> QED BY <1>9, <2>3, <3>3 DEF L, x, V, root, files
  <2>4. CASE IsDir(x) /\ ~ IsFile(x) /\ x # Missing
    <3>1. L = [lane EXCEPT !.state = "walking", !.layer = {root}]
      BY <2>1, <2>4 DEF Opened, x
    <3>2. /\ L \in LaneType /\ L.visited = V /\ L.announced = {} /\ L.next = {} /\ L.cut = FALSE
          /\ L.state = "walking" /\ L.layer = {root} /\ L.entries = {}
      BY <1>2, <1>7, <3>1 DEF LaneType, root
    <3> QED BY <1>9, <2>4, <3>2 DEF L, x, V, root
  <2> QED BY <1>3, <2>2, <2>3, <2>4 DEF x
<1> QED BY <1>8, <1>9

\* The directories the roots before have read.
ReadBefore(s, i) ==
  {d \in Refs \cup {Top} :
     \E j \in Roots : j < i /\ \E E : /\ E \subseteq Refs \cup {Top} /\ d \in E
                                       /\ Covers(lanes[s][j], setup.roots[j], AllEntries(s), E)}

\* Those directories are covered as one lane's would be.
LEMMA ReadBeforeCovers ==
  ASSUME Typed, NEW s \in Scanners, NEW i \in Nat, ~cancelled[s],
         \A j \in Roots : j < i => lanes[s][j].state = "done",
         \A k \in Roots : Orderly(s, k) /\ Walked(s, k)
  PROVE  /\ VisitedBefore(s, i) \subseteq ReadBefore(s, i)
         /\ \A j \in Roots : j < i /\ IsDir(Resolve(setup.roots[j])) =>
              Resolve(setup.roots[j]) \in ReadBefore(s, i)
         /\ \A d \in ReadBefore(s, i) \ setup.denied :
              /\ \E w \in Ways : w.dir = d /\ FileEntries(w.path, d) \subseteq AllEntries(s)
              /\ \A y \in Taken(d) : IsDir(Target(y)) => Target(y) \in ReadBefore(s, i)
<1>1. \A j \in Roots : j < i => LedTo(Pending(lanes[s][j])) = {} /\ LedTo(lanes[s][j].announced) = {}
  BY DEF Orderly, Pending, LedTo
<1>2. \A j \in Roots : j < i =>
        \E E : E \subseteq Refs \cup {Top} /\ Covers(lanes[s][j], setup.roots[j], AllEntries(s), E)
  BY DEF Walked, Covered
<1>3. ASSUME NEW j \in Roots, j < i, NEW E, E \subseteq Refs \cup {Top},
             Covers(lanes[s][j], setup.roots[j], AllEntries(s), E)
      PROVE  /\ E \subseteq ReadBefore(s, i)
             /\ lanes[s][j].visited \subseteq E
             /\ IsDir(Resolve(setup.roots[j])) => Resolve(setup.roots[j]) \in E
             /\ \A d \in E \ setup.denied :
                  /\ \E w \in Ways : w.dir = d /\ FileEntries(w.path, d) \subseteq AllEntries(s)
                  /\ \A y \in Taken(d) : IsDir(Target(y)) => Target(y) \in E
  <2>1. E \subseteq ReadBefore(s, i)
    BY <1>3 DEF ReadBefore
  <2>2. /\ lanes[s][j].visited \subseteq E
        /\ IsDir(Resolve(setup.roots[j])) => Resolve(setup.roots[j]) \in E
    BY <1>1, <1>3 DEF Covers
  <2>3. \A d \in E \ setup.denied :
          /\ \E w \in Ways : w.dir = d /\ FileEntries(w.path, d) \subseteq AllEntries(s)
          /\ \A y \in Taken(d) : IsDir(Target(y)) => Target(y) \in E \cup {}
    BY <1>1, <1>3 DEF Covers
  <2> QED BY <2>1, <2>2, <2>3
<1>4. VisitedBefore(s, i) \subseteq ReadBefore(s, i)
  <2> SUFFICES ASSUME NEW j \in Roots, j < i PROVE lanes[s][j].visited \subseteq ReadBefore(s, i)
    BY DEF VisitedBefore
  <2>1. PICK E : /\ E \subseteq Refs \cup {Top}
                 /\ Covers(lanes[s][j], setup.roots[j], AllEntries(s), E)
    BY <1>2
  <2>2. E \subseteq ReadBefore(s, i) /\ lanes[s][j].visited \subseteq E
    BY <1>3, <2>1
  <2> QED BY <2>2
<1>5. ASSUME NEW d \in ReadBefore(s, i) \ setup.denied
      PROVE  /\ \E w \in Ways : w.dir = d /\ FileEntries(w.path, d) \subseteq AllEntries(s)
             /\ \A y \in Taken(d) : IsDir(Target(y)) => Target(y) \in ReadBefore(s, i)
  <2>1. PICK j \in Roots, E \in SUBSET (Refs \cup {Top}) :
               /\ j < i /\ d \in E /\ Covers(lanes[s][j], setup.roots[j], AllEntries(s), E)
    BY DEF ReadBefore
  <2> QED BY <1>3, <2>1
<1>6. ASSUME NEW j \in Roots, j < i, IsDir(Resolve(setup.roots[j]))
      PROVE  Resolve(setup.roots[j]) \in ReadBefore(s, i)
  <2>1. PICK E : E \subseteq Refs \cup {Top} /\ Covers(lanes[s][j], setup.roots[j], AllEntries(s), E)
    BY <1>2, <1>6
  <2> QED BY <1>3, <1>6, <2>1
<1> QED BY <1>4, <1>5, <1>6

\* What a sequence with an element more is.
Lengthened(u, p, a) ==
  Len(u) = Len(p) + 1 /\ (\A i \in 1..Len(p) : u[i] = p[i]) /\ u[Len(p) + 1] = a

\* Append makes it.
LEMMA Appended == \A p \in Seq(STRING), a \in STRING : Lengthened(Append(p, a), p, a)
<1>1. ASSUME NEW S, NEW p \in Seq(S), NEW a \in S PROVE Lengthened(Append(p, a), p, a)
  BY AppendProperties DEF Lengthened
<1> QED BY <1>1

\* A path with a name more determines both.
LEMMA LastName ==
  ASSUME NEW p \in Seq(STRING), NEW q \in Seq(STRING), NEW a \in STRING, NEW b \in STRING,
         Append(p, a) = Append(q, b)
  PROVE  p = q /\ a = b
<1> DEFINE u == Append(p, a)
           v == Append(q, b)
<1>1. u = v
  OBVIOUS
<1>2. Lengthened(u, p, a)
  BY Zenon, Appended
<1>3. Lengthened(v, q, b)
  BY Zenon, Appended
<1> HIDE DEF u, v
<1>4. Len(p) = Len(q)
  BY <1>1, <1>2, <1>3 DEF Lengthened
<1>5. a = b
  BY <1>1, <1>2, <1>3, <1>4 DEF Lengthened
<1>6. \A i \in 1..Len(p) : p[i] = q[i]
  BY <1>1, <1>2, <1>3, <1>4 DEF Lengthened
<1> QED BY <1>4, <1>5, <1>6

\* A root is opened as the invariant wants it.
LEMMA OpenRootWalks ==
  ASSUME Typed, NEW s \in Scanners, NEW i \in Roots, OpenRoot(s, i),
         \A k \in Roots : Orderly(s, k)
  PROVE  /\ \E L \in LaneType : SetLane(s, i, L)
         /\ \A j \in Roots' : Orderly(s, j)'
         /\ (\A k \in Roots : Walked(s, k)) => \A j \in Roots' : Walked(s, j)'
<1> DEFINE L == OpenedLane(s, i)
           root == setup.roots[i]
           x == Resolve(root)
<1>1. /\ L \in LaneType
      /\ L.visited = Before(s, i) /\ L.announced = {} /\ L.next = {} /\ L.cut = FALSE
      /\ \/ L.state = "failed" /\ L.layer = {} /\ L.entries = {} /\ x = Missing /\ ~cancelled[s]
         \/ L.state = "done" /\ L.layer = {} /\ L.entries = {} /\ cancelled[s]
         \/ /\ L.state = "done" /\ L.layer = {} /\ IsFile(x) /\ ~cancelled[s]
            /\ L.entries = IF Passes(root, x) THEN {FileEntry(root, x)} ELSE {}
         \/ L.state = "walking" /\ L.layer = {root} /\ L.entries = {} /\ IsDir(x) /\ ~cancelled[s]
  BY OpenedFacts
<1>2. SetLane(s, i, L)
  BY DEF OpenRoot, OpenedLane, Before
<1>3. /\ tree' = tree /\ setup' = setup /\ cancelled' = cancelled
      /\ lanes[s][i] = NewLane
      /\ ~SideBySide => \A j \in Roots : j < i => lanes[s][j].state = "done"
  BY DEF OpenRoot, OtherThanLanes, volume, MayOpen, Orderly
<1>4. lanes[s][i].state # "done" /\ lanes[s][i].entries = {}
  BY <1>3 DEF NewLane
<1>5. root \in Seq(STRING) /\ TreeOK /\ i \in Nat
  BY RootsArePaths DEF Typed
<1>6. ~(IsDir(x) /\ IsFile(x)) /\ (x = Missing => ~IsDir(x) /\ ~IsFile(x))
  BY <1>5, MissingIsNothing
<1> HIDE DEF L, x, root
<1>7. \A j \in Roots' : Orderly(s, j)'
  <2>1. /\ L.state # "waiting" /\ (L.layer # {} => L.announced = {} /\ L.next = {})
        /\ ~cancelled[s] /\ L.state = "done" => Pending(L) = {}
        /\ L.cut => cancelled[s]
    BY <1>1 DEF Pending
  <2> QED BY <1>1, <1>2, <1>3, <1>4, <2>1, LaneOrder
<1>8. ASSUME \A k \in Roots : Walked(s, k) PROVE \A j \in Roots' : Walked(s, j)'
  <2>1. AnnouncedOK(L)
    BY <1>1 DEF AnnouncedOK
  <2>2. AheadOK(L)
    <3> SUFFICES ASSUME IsDir(x), L.layer = {root}, L.next = {} PROVE AheadOK(L)
      BY <1>1 DEF AheadOK
    <3>1. Way(root, x, {}) \in Ways
      BY <1>5, WaysStart DEF root, x
    <3>2. WayTo(root, Way(root, x, {}))
      BY <3>1 DEF WayTo, Way, x
    <3>3. Known(L, Way(root, x, {}), Way(root, x, {}).met \ {Way(root, x, {}).dir})
      BY WithinSelf DEF Known, Way
    <3> QED BY <3>2, <3>3 DEF AheadOK, x
  <2>3. EntriesOK(L, i)
    BY <1>1 DEF EntriesOK, FileEntry, x, root
  <2>4. ASSUME ~cancelled[s] PROVE Covered(L, root, AllEntries(s) \cup L.entries)
    <3> DEFINE listed == AllEntries(s) \cup L.entries
               D == IF SideBySide THEN {} ELSE ReadBefore(s, i)
    <3>1. /\ D \subseteq Refs \cup {Top} /\ L.visited \subseteq D
          /\ \A d \in D \ setup.denied :
               /\ \E w \in Ways : w.dir = d /\ FileEntries(w.path, d) \subseteq listed
               /\ \A y \in Taken(d) : IsDir(Target(y)) => Target(y) \in D
      <4>1. CASE SideBySide
        BY <1>1, <4>1 DEF Before
      <4>2. CASE ~SideBySide
        <5>1. ReadBefore(s, i) \subseteq Refs \cup {Top}
          BY DEF ReadBefore
        <5>2. L.visited = VisitedBefore(s, i)
          BY <1>1, <4>2 DEF Before
        <5>3. VisitedBefore(s, i) \subseteq ReadBefore(s, i)
          BY <1>3, <1>5, <1>8, <2>4, <4>2, ReadBeforeCovers
        <5>4. \A d \in ReadBefore(s, i) \ setup.denied :
                /\ \E w \in Ways : w.dir = d /\ FileEntries(w.path, d) \subseteq AllEntries(s)
                /\ \A y \in Taken(d) : IsDir(Target(y)) => Target(y) \in ReadBefore(s, i)
          BY <1>3, <1>5, <1>8, <2>4, <4>2, ReadBeforeCovers
        <5>5. AllEntries(s) \subseteq listed
          OBVIOUS
        <5> QED BY <4>2, <5>1, <5>2, <5>3, <5>4, <5>5
      <4> QED BY <4>1, <4>2
    <3> HIDE DEF D
    <3>2. L.state \in {"walking", "done"} =>
            /\ IsDir(x) => x \in LedTo(Pending(L))
            /\ IsFile(x) /\ Passes(root, x) => FileEntry(root, x) \in L.entries
      BY <1>1, <1>6, <2>4 DEF Pending, LedTo, x
    <3>3. L.state \in {"walking", "done"} => Covers(L, root, listed, D)
      BY <3>1, <3>2 DEF Covers, x
    <3> QED BY <3>1, <3>3 DEF Covered
  <2>5. ASSUME setup.follow, ~SideBySide PROVE OnceEach(L, root, VisitedBefore(s, i))
    <3>1. L.visited = VisitedBefore(s, i) /\ LedTo(L.announced) = {} /\ L.announced = {}
      BY <1>1, <2>5 DEF Before, LedTo
    <3>2. L.entries = {} \/ (L.state = "done" /\ L.entries = {FileEntry(root, x)})
      BY <1>1
    <3>3. CASE L.entries = {}
      BY <3>1, <3>3 DEF OnceEach
    <3>4. CASE L.state = "done" /\ L.entries = {FileEntry(root, x)}
      <4>1. \A e \in L.entries : e.path = root /\ L.entries = {e}
        BY <3>4 DEF FileEntry
      <4>2. ASSUME NEW p \in Seq(STRING), NEW q \in Seq(STRING), NEW a \in STRING, NEW b \in STRING,
                   Append(p, a) = Append(q, b)
            PROVE  p = q
        BY <4>2, LastName
      <4>3. \A e, g \in L.entries : \A p, q \in Seq(STRING) : \A a, b \in STRING :
              e.path = Append(p, a) /\ g.path = Append(q, b) /\ Resolve(p) = Resolve(q) => p = q
        <5> SUFFICES ASSUME NEW e \in L.entries, NEW g \in L.entries, NEW p \in Seq(STRING),
                            NEW q \in Seq(STRING), NEW a \in STRING, NEW b \in STRING,
                            e.path = Append(p, a), g.path = Append(q, b)
                     PROVE  p = q
          OBVIOUS
        <5>1. Append(p, a) = Append(q, b)
          BY <4>1
        <5> QED BY <4>2, <5>1
      <4> QED BY <3>1, <3>4, <4>1, <4>3 DEF OnceEach
    <3> QED BY <3>2, <3>3, <3>4
  <2>6. lanes[s][i].entries \subseteq L.entries
    BY <1>4
  <2> QED BY <1>1, <1>2, <1>3, <1>4, <1>8, <2>1, <2>2, <2>3, <2>4, <2>5, <2>6, LaneMoves DEF root
<1> QED BY <1>1, <1>2, <1>7, <1>8

-----------------------------------------------------------------------------
(* A layer is announced.                                                     *)

\* A layer's directories are announced, each that was not visited.
LEMMA AnnounceWalks ==
  ASSUME Typed, NEW s \in Scanners, NEW i \in Roots, Announce(s, i),
         \A k \in Roots : Orderly(s, k)
  PROVE  /\ \E L \in LaneType : SetLane(s, i, L)
         /\ \A j \in Roots' : Orderly(s, j)'
         /\ (\A k \in Roots : Walked(s, k)) => \A j \in Roots' : Walked(s, j)'
<1> DEFINE lane == lanes[s][i]
<1>1. /\ tree' = tree /\ setup' = setup /\ cancelled' = cancelled
      /\ lane.state = "walking" /\ lane.layer # {}
  BY DEF Announce, OtherThanLanes, volume
<1>2. /\ lane \in LaneType /\ TreeOK
      /\ lane.announced = {} /\ lane.next = {} /\ (lane.cut => cancelled[s])
      /\ ~SideBySide => \A j \in Roots : j < i => lanes[s][j].state = "done"
  BY <1>1 DEF Typed, Orderly
<1>3. CASE cancelled[s]
  <2> DEFINE L == [lane EXCEPT !.state = "done"]
  <2>1. SetLane(s, i, L)
    BY <1>3 DEF Announce
  <2> HIDE DEF lane
  <2>2. /\ L \in LaneType /\ L.state = "done" /\ L.layer = lane.layer /\ L.announced = lane.announced
        /\ L.next = lane.next /\ L.visited = lane.visited /\ L.entries = lane.entries /\ L.cut = lane.cut
    BY <1>2 DEF LaneType
  <2> HIDE DEF L
  <2>3. \A j \in Roots' : Orderly(s, j)'
    BY <1>1, <1>2, <1>3, <2>1, <2>2, LaneOrder DEF lane
  <2>4. ASSUME \A k \in Roots : Walked(s, k) PROVE \A j \in Roots' : Walked(s, j)'
    <3>1. AnnouncedOK(L) /\ AheadOK(L) /\ EntriesOK(L, i)
      BY <2>2, <2>4 DEF Walked, AnnouncedOK, AheadOK, EntriesOK, Known, lane
    <3>2. ASSUME setup.follow, ~SideBySide PROVE OnceEach(L, setup.roots[i], VisitedBefore(s, i))
      <4>1. OnceEach(lane, setup.roots[i], VisitedBefore(s, i))
        BY <2>4, <3>2 DEF Walked, lane
      <4> QED BY <1>1, <2>2, <4>1 DEF OnceEach, lane
    <3> QED BY <1>1, <1>3, <2>1, <2>2, <2>4, <3>1, <3>2, LaneMoves DEF lane
  <2> QED BY <2>1, <2>2, <2>3, <2>4
<1>4. CASE ~cancelled[s]
  <2> DEFINE L(kept) ==
        [lane EXCEPT !.layer = {}, !.announced = kept,
           !.visited = IF setup.follow THEN @ \cup ({Resolve(p) : p \in kept} \ {Missing}) ELSE @,
           !.state = IF kept = {} THEN "done" ELSE @]
      seen(kept) == IF setup.follow THEN LedTo(kept) \ {Missing} ELSE {}
  <2>1. PICK kept \in SUBSET lane.layer : Pruned(lane, kept) /\ SetLane(s, i, L(kept))
    BY <1>4 DEF Announce
  <2>2. \A p \in kept : p \in Seq(STRING) /\ Resolve(p) \in Refs \cup {Top, Missing}
    BY <1>2, <2>1, ResolveTyped DEF LaneType
  <2>3. seen(kept) \subseteq Refs \cup {Top}
    BY <2>2 DEF LedTo
  <2>4. L(kept) = [lane EXCEPT !.layer = {}, !.announced = kept, !.visited = @ \cup seen(kept),
                     !.state = IF kept = {} THEN "done" ELSE @]
    <3>1. (IF setup.follow THEN lane.visited \cup ({Resolve(p) : p \in kept} \ {Missing}) ELSE lane.visited)
            = lane.visited \cup seen(kept)
      BY DEF LedTo
    <3> QED BY <3>1
  <2> DEFINE M == L(kept)
             new == seen(kept)
  <2>5. SetLane(s, i, M) /\ M = [lane EXCEPT !.layer = {}, !.announced = kept, !.visited = @ \cup new,
                                   !.state = IF kept = {} THEN "done" ELSE @]
    BY <2>1, <2>4
  <2>6. new = IF setup.follow THEN LedTo(kept) \ {Missing} ELSE {}
    OBVIOUS
  <2>7. kept \subseteq lane.layer /\ Pruned(lane, kept) /\ new \subseteq Refs \cup {Top}
    BY <2>1, <2>3
  <2> HIDE DEF L, M, new, seen, lane
  <2>8. /\ M \in LaneType /\ M.layer = {} /\ M.announced = kept /\ M.next = lane.next
        /\ M.visited = lane.visited \cup new /\ M.entries = lane.entries /\ M.cut = lane.cut
        /\ M.state = IF kept = {} THEN "done" ELSE lane.state
    BY <1>2, <2>5, <2>7 DEF LaneType
  <2>9. \A j \in Roots' : Orderly(s, j)'
    <3>1. ~cancelled[s] /\ M.state = "done" => Pending(M) = {}
      BY <1>1, <1>2, <2>8 DEF Pending
    <3>2. M.state # "waiting" /\ M.layer = {} /\ (M.cut => cancelled[s]) /\ SetLane(s, i, M)
      BY <1>1, <1>2, <2>5, <2>8
    <3>3. setup' = setup /\ cancelled' = cancelled /\ lanes[s][i].state # "done" /\ M \in LaneType
      BY <1>1, <2>8 DEF lane
    <3> QED BY <1>2, <3>1, <3>2, <3>3, LaneOrder
  <2>10. ASSUME \A k \in Roots : Walked(s, k) PROVE \A j \in Roots' : Walked(s, j)'
    <3>1. \A p \in lane.layer :
            /\ IsDir(Resolve(p)) /\ Resolve(p) # Missing
            /\ \/ setup.follow /\ Resolve(p) \in lane.visited
               \/ \E w : WayTo(p, w) /\ Known(lane, w, w.met \ {w.dir})
      BY <1>2, <2>10, MissingIsNothing DEF Walked, AheadOK, lane
    <3>2. setup.follow => /\ \A p \in kept : Resolve(p) \notin lane.visited
                          /\ \A p \in lane.layer : Resolve(p) \notin lane.visited =>
                               \E q \in kept : Resolve(q) = Resolve(p)
                          /\ \A p, q \in kept : Resolve(p) = Resolve(q) => p = q
      BY <2>7, <3>1 DEF Pruned
    <3>3. ~setup.follow => kept = lane.layer
      BY <2>7 DEF Pruned
    <3>4. setup.follow => new = LedTo(kept)
      BY <2>6, <2>7, <3>1 DEF LedTo
    <3>5. AnnouncedOK(M)
      <4> SUFFICES ASSUME NEW p \in kept PROVE \E w : WayTo(p, w) /\ Known(M, w, w.met)
        BY <2>8 DEF AnnouncedOK
      <4>1. PICK w : WayTo(p, w) /\ Known(lane, w, w.met \ {w.dir})
        BY <2>7, <3>1, <3>2
      <4>2. setup.follow => w.dir \in new
        BY <3>4, <4>1 DEF LedTo, WayTo
      <4> QED BY <2>8, <4>1, <4>2 DEF Known
    <3>6. AheadOK(M)
      BY <1>2, <2>8 DEF AheadOK
    <3>7. EntriesOK(M, i)
      BY <2>8, <2>10 DEF Walked, EntriesOK, lane
    <3>8. Covered(M, setup.roots[i], AllEntries(s) \cup M.entries)
      <4> DEFINE listed == AllEntries(s) \cup M.entries
                 root == setup.roots[i]
      <4>1. PICK D : D \subseteq Refs \cup {Top} /\ Covers(lane, root, AllEntries(s), D)
        BY <1>1, <1>4, <2>10 DEF Walked, Covered, lane
      <4>2. LedTo(Pending(lane)) \subseteq D \cup LedTo(Pending(M))
        <5> SUFFICES ASSUME NEW p \in lane.layer PROVE Resolve(p) \in D \cup LedTo(kept)
          BY <1>2, <2>8 DEF LedTo, Pending
        <5>1. lane.visited \subseteq D
          BY <1>2, <4>1 DEF Covers, LedTo
        <5> QED BY <3>2, <3>3, <5>1 DEF LedTo
      <4>3. M.visited \subseteq D \cup LedTo(M.announced)
        BY <1>2, <2>6, <2>8, <4>1 DEF Covers, LedTo
      <4>4. Covers(M, root, listed, D)
        BY <2>8, <4>1, <4>2, <4>3 DEF Covers
      <4> QED BY <4>1, <4>4 DEF Covered
    <3>9. ASSUME setup.follow, ~SideBySide PROVE OnceEach(M, setup.roots[i], VisitedBefore(s, i))
      <4> DEFINE root == setup.roots[i]
                 before == VisitedBefore(s, i)
                 own == lane.visited \ before
      <4>1. OnceEach(lane, root, before)
        BY <2>10, <3>9 DEF Walked, lane
      <4> HIDE DEF root, before
      <4>2. before \subseteq lane.visited /\ before \subseteq M.visited
        BY <1>1, <2>8, <4>1 DEF OnceEach
      <4>3. LedTo(kept) \cap lane.visited = {}
        BY <3>2, <3>9 DEF LedTo
      <4>4. M.visited \ before = own \cup LedTo(kept)
        BY <2>8, <3>4, <3>9, <4>2, <4>3
      <4>5. \A e \in M.entries : \E p \in Seq(STRING), a \in STRING :
              e.path = Append(p, a) /\ Resolve(p) \in (M.visited \ before) \ LedTo(M.announced)
        <5>1. \A e \in lane.entries : \E p \in Seq(STRING), a \in STRING :
                e.path = Append(p, a) /\ Resolve(p) \in own
          BY <1>1, <4>1 DEF OnceEach
        <5> QED BY <2>8, <4>3, <4>4, <5>1
      <4>6. \A p, q \in M.announced : Resolve(p) = Resolve(q) => p = q
        BY <2>8, <3>2, <3>9
      <4>7. \A e, g \in M.entries : \A p, q \in Seq(STRING) : \A a, b \in STRING :
              e.path = Append(p, a) /\ g.path = Append(q, b) /\ Resolve(p) = Resolve(q) => p = q
        BY <2>8, <4>1 DEF OnceEach
      <4>8. LedTo(M.announced) \subseteq M.visited \ before
        BY <2>8, <4>4
      <4> HIDE DEF own
      <4> QED BY <4>2, <4>5, <4>6, <4>7, <4>8 DEF OnceEach, root, before
    <3>10. lanes[s][i].entries \subseteq M.entries
      BY <2>8 DEF lane
    <3> QED BY <1>1, <2>5, <2>8, <2>10, <3>5, <3>6, <3>7, <3>8, <3>9, <3>10, LaneMoves DEF lane
  <2> QED BY <2>5, <2>8, <2>9, <2>10
<1> QED BY <1>3, <1>4

-----------------------------------------------------------------------------
(* The next layer.                                                           *)

\* What was found becomes the layer.
LEMMA NextLayerWalks ==
  ASSUME Typed, NEW s \in Scanners, NEW i \in Roots, NextLayer(s, i),
         \A k \in Roots : Orderly(s, k)
  PROVE  /\ \E L \in LaneType : SetLane(s, i, L)
         /\ \A j \in Roots' : Orderly(s, j)'
         /\ (\A k \in Roots : Walked(s, k)) => \A j \in Roots' : Walked(s, j)'
<1> DEFINE lane == lanes[s][i]
           L == [lane EXCEPT !.layer = lane.next, !.next = {},
                   !.state = IF lane.cut \/ lane.next = {} THEN "done" ELSE @]
<1>1. /\ tree' = tree /\ setup' = setup /\ cancelled' = cancelled
      /\ lane.state = "walking" /\ lane.layer = {} /\ lane.announced = {} /\ SetLane(s, i, L)
  BY DEF NextLayer, OtherThanLanes, volume
<1>2. /\ lane \in LaneType /\ TreeOK /\ (lane.cut => cancelled[s])
      /\ ~SideBySide => \A j \in Roots : j < i => lanes[s][j].state = "done"
  BY <1>1 DEF Typed, Orderly
<1> HIDE DEF lane
<1>3. /\ L \in LaneType /\ L.layer = lane.next /\ L.next = {} /\ L.announced = lane.announced
      /\ L.visited = lane.visited /\ L.entries = lane.entries /\ L.cut = lane.cut
      /\ L.state = IF lane.cut \/ lane.next = {} THEN "done" ELSE lane.state
  BY <1>2 DEF LaneType
<1> HIDE DEF L
<1>4. Pending(L) = Pending(lane)
  BY <1>1, <1>3 DEF Pending
<1>5. \A j \in Roots' : Orderly(s, j)'
  <2>1. ~cancelled[s] /\ L.state = "done" => Pending(L) = {}
    BY <1>1, <1>2, <1>3 DEF Pending
  <2>2. L.state # "waiting" /\ (L.layer # {} => L.announced = {} /\ L.next = {}) /\ (L.cut => cancelled[s])
    BY <1>1, <1>2, <1>3
  <2>3. lanes[s][i].state # "done"
    BY <1>1 DEF lane
  <2> QED BY <1>1, <1>2, <1>3, <2>1, <2>2, <2>3, LaneOrder
<1>6. ASSUME \A k \in Roots : Walked(s, k) PROVE \A j \in Roots' : Walked(s, j)'
  <2>1. AnnouncedOK(L) /\ AheadOK(L) /\ EntriesOK(L, i)
    BY <1>1, <1>3, <1>6 DEF Walked, AnnouncedOK, AheadOK, EntriesOK, Known, lane
  <2>2. ASSUME ~cancelled[s] PROVE Covered(L, setup.roots[i], AllEntries(s) \cup L.entries)
    <3>1. PICK D : D \subseteq Refs \cup {Top} /\ Covers(lane, setup.roots[i], AllEntries(s), D)
      BY <1>1, <1>6, <2>2 DEF Walked, Covered, lane
    <3>2. Covers(L, setup.roots[i], AllEntries(s), D)
      BY <1>3, <1>4, <3>1 DEF Covers
    <3>3. Covers(L, setup.roots[i], AllEntries(s) \cup L.entries, D)
      BY <3>2 DEF Covers
    <3> QED BY <3>1, <3>3 DEF Covered
  <2>3. ASSUME setup.follow, ~SideBySide PROVE OnceEach(L, setup.roots[i], VisitedBefore(s, i))
    <3>1. OnceEach(lane, setup.roots[i], VisitedBefore(s, i))
      BY <1>6, <2>3 DEF Walked, lane
    <3>2. lane.state = "walking" /\ L.state \in {"walking", "done"}
      BY <1>1, <1>3
    <3> DEFINE before == VisitedBefore(s, i)
    <3> HIDE DEF lane, before
    <3>3. /\ before \subseteq L.visited /\ LedTo(L.announced) \subseteq L.visited \ before
          /\ \A p, q \in L.announced : Resolve(p) = Resolve(q) => p = q
      BY <1>3, <3>1, <3>2 DEF OnceEach, before
    <3>4. \A e \in L.entries : \E p \in Seq(STRING), a \in STRING :
            e.path = Append(p, a) /\ Resolve(p) \in (L.visited \ before) \ LedTo(L.announced)
      BY <1>3, <3>1, <3>2 DEF OnceEach, before
    <3>5. \A e, g \in L.entries : \A p, q \in Seq(STRING) : \A a, b \in STRING :
            e.path = Append(p, a) /\ g.path = Append(q, b) /\ Resolve(p) = Resolve(q) => p = q
      <4>1. \A e, g \in lane.entries : \A p, q \in Seq(STRING) : \A a, b \in STRING :
              e.path = Append(p, a) /\ g.path = Append(q, b) /\ Resolve(p) = Resolve(q) => p = q
        BY <3>1 DEF OnceEach
      <4> QED BY <1>3, <4>1
    <3> QED BY <3>3, <3>4, <3>5 DEF OnceEach, before
  <2>4. lanes[s][i].state # "done" /\ lanes[s][i].entries \subseteq L.entries
    BY <1>1, <1>3 DEF lane
  <2> QED BY <1>1, <1>3, <1>6, <2>1, <2>2, <2>3, <2>4, LaneMoves
<1> QED BY <1>1, <1>3, <1>5, <1>6

-----------------------------------------------------------------------------
(* A directory is read.                                                      *)

\* What a directory read gives: the files it has and the directories below it.
Found(p) == IF IsDir(Resolve(p)) /\ Resolve(p) \notin setup.denied THEN FileEntries(p, Resolve(p)) ELSE {}
Below(p) == IF IsDir(Resolve(p)) /\ Resolve(p) \notin setup.denied THEN SubDirs(p, Resolve(p)) ELSE {}

\* An entry of a directory that was come to by a way.
LEMMA FoundFacts ==
  ASSUME TreeOK, NEW p \in Seq(STRING), NEW e \in Found(p)
  PROVE  /\ e = FileEntry(e.path, Resolve(e.path)) /\ IsFile(Resolve(e.path))
         /\ Passes(e.path, Resolve(e.path))
         /\ Resolve(p) \notin setup.denied
         /\ \E y \in Taken(Resolve(p)) : e.path = Append(p, tree[y].name)
<1>1. e \in FileEntries(p, Resolve(p)) /\ Resolve(p) \notin setup.denied
  BY DEF Found
<1>2. PICK y \in Taken(Resolve(p)) :
        /\ IsFile(Target(y)) /\ Passes(Append(p, tree[y].name), Target(y))
        /\ e = FileEntry(Append(p, tree[y].name), Target(y))
  BY <1>1 DEF FileEntries
<1>3. e.path = Append(p, tree[y].name)
  BY <1>2 DEF FileEntry
<1>4. Resolve(Append(p, tree[y].name)) = Target(y)
  <2>1. tree[y].name \in STRING /\ Step(Resolve(p), tree[y].name) = Target(y)
    BY TakenFacts
  <2> QED BY <2>1, ResolveAppend DEF TreeOK
<1> QED BY <1>1, <1>2, <1>3, <1>4

\* A directory below one that was come to by a way is a name further.
LEMMA SubDirFacts ==
  ASSUME TreeOK, NEW p \in Seq(STRING)
  PROVE  /\ \A q \in Below(p) : \E y \in Taken(Resolve(p)) :
              IsDir(Target(y)) /\ q = Append(p, tree[y].name) /\ Resolve(q) = Target(y)
         /\ IsDir(Resolve(p)) /\ Resolve(p) \notin setup.denied =>
              \A y \in Taken(Resolve(p)) : IsDir(Target(y)) => Target(y) \in LedTo(Below(p))
<1>1. \A y \in Taken(Resolve(p)) : Resolve(Append(p, tree[y].name)) = Target(y)
  <2> SUFFICES ASSUME NEW y \in Taken(Resolve(p)) PROVE Resolve(Append(p, tree[y].name)) = Target(y)
    OBVIOUS
  <2>1. tree[y].name \in STRING /\ Step(Resolve(p), tree[y].name) = Target(y)
    BY TakenFacts
  <2> QED BY <2>1, ResolveAppend DEF TreeOK
<1>2. \A q \in Below(p) : \E y \in Taken(Resolve(p)) : IsDir(Target(y)) /\ q = Append(p, tree[y].name)
  BY DEF Below, SubDirs
<1>3. ASSUME IsDir(Resolve(p)), Resolve(p) \notin setup.denied,
             NEW y \in Taken(Resolve(p)), IsDir(Target(y))
      PROVE  Target(y) \in LedTo(Below(p))
  <2>1. Append(p, tree[y].name) \in Below(p)
    BY <1>3 DEF Below, SubDirs
  <2> QED BY <1>1, <2>1 DEF LedTo
<1> QED BY <1>1, <1>2, <1>3

\* From a directory come to by a way, a way leads on to each of its directories but those
\* it has been to.
LEMMA WayOn ==
  ASSUME TreeOK, NEW lane, NEW p \in Seq(STRING), NEW w, WayTo(p, w), Known(lane, w, w.met),
         NEW q \in Below(p)
  PROVE  /\ IsDir(Resolve(q))
         /\ \/ setup.follow /\ Resolve(q) \in lane.visited
            \/ \E v : WayTo(q, v) /\ Known(lane, v, v.met \ {v.dir})
<1>1. PICK y \in Taken(Resolve(p)) :
        IsDir(Target(y)) /\ q = Append(p, tree[y].name) /\ Resolve(q) = Target(y)
  BY SubDirFacts
<1>2. w \in Ways /\ w.path = p /\ w.dir = Resolve(p) /\ w.dir \notin setup.denied
  BY DEF WayTo, Below
<1>3. CASE Target(y) \notin w.met
  <2> DEFINE v == Way(Append(w.path, tree[y].name), Target(y), w.met)
  <2>1. v \in Ways
    BY <1>1, <1>2, <1>3, WaysOnward
  <2>2. v.path = q /\ v.dir = Target(y) /\ v.met = w.met \cup {Target(y)}
    BY <1>1, <1>2 DEF Way
  <2>3. WayTo(q, v)
    BY <1>1, <2>1, <2>2 DEF WayTo
  <2> HIDE DEF v
  <2>4. CASE setup.follow
    BY <1>1, <2>2, <2>3, <2>4 DEF Known
  <2>5. CASE ~setup.follow
    <3>1. y \in DOMAIN tree /\ tree[y].parent = w.dir /\ Target(y) = y
      BY <1>2, <2>5, TakenFacts DEF Taken, Target
    <3>2. \A m \in v.met : Within(y, m)
      BY <2>2, <2>5, <3>1, WithinChild, WithinSelf DEF Known, TreeOK
    <3> QED BY <1>1, <2>2, <2>3, <2>5, <3>1, <3>2 DEF Known
  <2> QED BY <2>4, <2>5
<1>4. CASE Target(y) \in w.met
  <2>1. CASE setup.follow
    BY <1>1, <1>4, <2>1 DEF Known
  <2>2. CASE ~setup.follow
    <3>1. y \in DOMAIN tree /\ tree[y].parent = w.dir /\ Target(y) = y
      BY <1>2, <2>2, TakenFacts DEF Taken, Target
    <3>2. Within(tree[y].parent, y)
      BY <1>4, <2>2, <3>1 DEF Known
    <3> QED BY <3>1, <3>2, ChildIsBelow DEF TreeOK
  <2> QED BY <2>1, <2>2
<1> QED BY <1>3, <1>4

\* What the reading of a directory leaves: the directory is read, or the reading was cut
\* short by a cancel.
HarvestedLane(lane, p, some, whole) ==
  IF whole THEN [lane EXCEPT !.announced = @ \ {p}, !.entries = @ \cup some, !.next = @ \cup Below(p)]
  ELSE [lane EXCEPT !.announced = @ \ {p}, !.cut = TRUE, !.entries = @ \cup some]

\* A harvest is that of one announced directory, whole or cut.
LEMMA HarvestParts ==
  ASSUME Typed, NEW s \in Scanners, NEW i \in Roots, Harvest(s, i)
  PROVE  \E p \in lanes[s][i].announced : \E some \in SUBSET Found(p) : \E whole \in BOOLEAN :
           /\ SetLane(s, i, HarvestedLane(lanes[s][i], p, some, whole))
           /\ whole => some = Found(p)
           /\ ~whole => cancelled[s]
<1> DEFINE lane == lanes[s][i]
<1>1. PICK p \in lane.announced :
        \/ SetLane(s, i, [lane EXCEPT !.announced = @ \ {p}, !.entries = @ \cup Found(p), !.next = @ \cup Below(p)])
        \/ /\ cancelled[s]
           /\ \E some \in SUBSET Found(p) :
                SetLane(s, i, [lane EXCEPT !.announced = @ \ {p}, !.cut = TRUE, !.entries = @ \cup some])
  BY DEF Harvest, Found, Below
<1>2. CASE SetLane(s, i, [lane EXCEPT !.announced = @ \ {p}, !.entries = @ \cup Found(p), !.next = @ \cup Below(p)])
  <2>1. SetLane(s, i, HarvestedLane(lane, p, Found(p), TRUE))
    BY <1>2 DEF HarvestedLane
  <2> QED BY <2>1
<1>3. CASE /\ cancelled[s]
           /\ \E some \in SUBSET Found(p) :
                SetLane(s, i, [lane EXCEPT !.announced = @ \ {p}, !.cut = TRUE, !.entries = @ \cup some])
  <2>1. PICK some \in SUBSET Found(p) :
          SetLane(s, i, [lane EXCEPT !.announced = @ \ {p}, !.cut = TRUE, !.entries = @ \cup some])
    BY <1>3
  <2>2. SetLane(s, i, HarvestedLane(lane, p, some, FALSE))
    BY <2>1 DEF HarvestedLane
  <2> QED BY <1>3, <2>2
<1> QED BY <1>1, <1>2, <1>3

\* What is known of a lane after a harvest, without the parts a cancel may have cut.
Harvested(lane, p, some, whole, L) ==
  /\ L \in LaneType /\ L.state = lane.state /\ L.layer = lane.layer /\ L.visited = lane.visited
  /\ L.announced = lane.announced \ {p} /\ L.entries = lane.entries \cup some
  /\ whole => L.next = lane.next \cup Below(p) /\ L.cut = lane.cut
  /\ ~whole => L.next = lane.next /\ L.cut = TRUE

\* A harvest is such a step.
LEMMA HarvestedFacts ==
  ASSUME TreeOK, NEW lane \in LaneType, NEW p \in lane.announced, NEW some \in SUBSET Found(p),
         NEW whole \in BOOLEAN
  PROVE  Harvested(lane, p, some, whole, HarvestedLane(lane, p, some, whole))
<1>1. p \in Seq(STRING)
  BY DEF LaneType
<1>2. Below(p) \subseteq Seq(STRING) /\ some \subseteq FileRecord
  BY <1>1, EntriesTyped DEF Found, Below
<1> DEFINE L == HarvestedLane(lane, p, some, whole)
           more == Below(p)
<1>3. CASE whole
  <2>1. L = [lane EXCEPT !.announced = @ \ {p}, !.entries = @ \cup some, !.next = @ \cup more]
    BY <1>3 DEF HarvestedLane
  <2> HIDE DEF L, more
  <2>2. more \subseteq Seq(STRING)
    BY <1>2 DEF more
  <2>3. /\ L \in LaneType /\ L.state = lane.state /\ L.layer = lane.layer /\ L.visited = lane.visited
        /\ L.announced = lane.announced \ {p} /\ L.entries = lane.entries \cup some
        /\ L.next = lane.next \cup more /\ L.cut = lane.cut
    BY <1>2, <2>1, <2>2 DEF LaneType
  <2> QED BY <1>3, <2>3 DEF L, more, Harvested
<1>4. CASE ~whole
  <2>1. L = [lane EXCEPT !.announced = @ \ {p}, !.cut = TRUE, !.entries = @ \cup some]
    BY <1>4 DEF HarvestedLane
  <2> HIDE DEF L
  <2>2. /\ L \in LaneType /\ L.state = lane.state /\ L.layer = lane.layer /\ L.visited = lane.visited
        /\ L.announced = lane.announced \ {p} /\ L.entries = lane.entries \cup some
        /\ L.next = lane.next /\ L.cut = TRUE
    BY <1>2, <2>1 DEF LaneType
  <2> QED BY <1>4, <2>2 DEF L, Harvested
<1> QED BY <1>3, <1>4

\* A directory is read as the invariant wants it.
LEMMA HarvestWalks ==
  ASSUME Typed, NEW s \in Scanners, NEW i \in Roots, Harvest(s, i),
         \A k \in Roots : Orderly(s, k)
  PROVE  /\ \E L \in LaneType : SetLane(s, i, L)
         /\ \A j \in Roots' : Orderly(s, j)'
         /\ (\A k \in Roots : Walked(s, k)) => \A j \in Roots' : Walked(s, j)'
<1> DEFINE lane == lanes[s][i]
<1>1. /\ tree' = tree /\ setup' = setup /\ cancelled' = cancelled /\ lane.state = "walking"
  BY DEF Harvest, OtherThanLanes, volume
<1>2. /\ lane \in LaneType /\ TreeOK /\ (lane.cut => cancelled[s])
      /\ lane.layer # {} => lane.announced = {}
      /\ ~SideBySide => \A j \in Roots : j < i => lanes[s][j].state = "done"
  BY <1>1 DEF Typed, Orderly
<1>3. PICK p, some, whole :
        /\ p \in lane.announced /\ some \in SUBSET Found(p) /\ whole \in BOOLEAN
        /\ SetLane(s, i, HarvestedLane(lane, p, some, whole))
        /\ whole => some = Found(p)
        /\ ~whole => cancelled[s]
  BY HarvestParts
<1> DEFINE L == HarvestedLane(lane, p, some, whole)
           d == Resolve(p)
<1> HIDE DEF lane
<1> HIDE DEF lane
<1>4. /\ L \in LaneType /\ L.state = lane.state /\ L.layer = lane.layer /\ L.visited = lane.visited
      /\ L.announced = lane.announced \ {p} /\ L.entries = lane.entries \cup some
      /\ whole => L.next = lane.next \cup Below(p) /\ L.cut = lane.cut
      /\ ~whole => L.next = lane.next /\ L.cut = TRUE
  <2>1. Harvested(lane, p, some, whole, L)
    BY <1>2, <1>3, HarvestedFacts
  <2> HIDE DEF L
  <2> QED BY <2>1 DEF Harvested
<1>5. SetLane(s, i, L) /\ lane.layer = {} /\ p \in Seq(STRING)
  BY <1>2, <1>3 DEF LaneType
<1> HIDE DEF L, d
<1>6. \A j \in Roots' : Orderly(s, j)'
  <2>1. L.state # "waiting" /\ L.layer = {} /\ (L.cut => cancelled[s]) /\ L.state # "done"
    BY <1>1, <1>2, <1>3, <1>4, <1>5
  <2>2. lanes[s][i].state # "done"
    BY <1>1 DEF lane
  <2> QED BY <1>1, <1>2, <1>4, <1>5, <2>1, <2>2, LaneOrder
<1>7. ASSUME \A k \in Roots : Walked(s, k) PROVE \A j \in Roots' : Walked(s, j)'
  <2>1. PICK w : WayTo(p, w) /\ Known(lane, w, w.met)
    BY <1>3, <1>7 DEF Walked, AnnouncedOK, lane
  <2>2. w \in Ways /\ w.path = p /\ w.dir = d /\ IsDir(d)
    BY <1>2, <2>1, WayFacts DEF WayTo, d
  <2>3. AnnouncedOK(L)
    BY <1>4, <1>7 DEF Walked, AnnouncedOK, Known, lane
  <2>4. AheadOK(L)
    <3> SUFFICES ASSUME NEW q \in L.layer \cup L.next
                 PROVE  /\ IsDir(Resolve(q))
                        /\ \/ setup.follow /\ Resolve(q) \in lane.visited
                           \/ \E v : WayTo(q, v) /\ Known(lane, v, v.met \ {v.dir})
      BY <1>4 DEF AheadOK, Known
    <3>1. CASE q \in lane.layer \cup lane.next
      BY <1>7, <3>1 DEF Walked, AheadOK, lane
    <3>2. CASE q \in Below(p)
      BY <1>2, <1>5, <2>1, <3>2, WayOn
    <3> QED BY <1>4, <3>1, <3>2
  <2>5. EntriesOK(L, i)
    <3> SUFFICES ASSUME NEW e \in L.entries
                 PROVE  /\ e = FileEntry(e.path, Resolve(e.path)) /\ IsFile(Resolve(e.path))
                        /\ Passes(e.path, Resolve(e.path))
                        /\ \/ e.path = setup.roots[i]
                           \/ \E v \in Ways : \E y \in Taken(v.dir) :
                                v.dir \notin setup.denied /\ e.path = Append(v.path, tree[y].name)
      BY DEF EntriesOK
    <3>1. CASE e \in lane.entries
      BY <1>7, <3>1 DEF Walked, EntriesOK, lane
    <3>2. CASE e \in Found(p)
      BY <1>2, <1>5, <2>2, <3>2, FoundFacts DEF d
    <3> QED BY <1>3, <1>4, <3>1, <3>2
  <2>6. ASSUME ~cancelled[s] PROVE Covered(L, setup.roots[i], AllEntries(s) \cup L.entries)
    <3> DEFINE root == setup.roots[i]
               listed == AllEntries(s) \cup L.entries
    <3>1. PICK D : D \subseteq Refs \cup {Top} /\ Covers(lane, root, AllEntries(s), D)
      BY <1>1, <1>7, <2>6 DEF Walked, Covered, lane
    <3>2. whole /\ some = Found(p) /\ L.next = lane.next \cup Below(p)
      BY <1>3, <1>4, <2>6
    <3> DEFINE E == D \cup {d}
    <3>3. E \subseteq Refs \cup {Top}
      BY <1>2, <2>2, <3>1, DirsAreSpots
    <3>4. /\ LedTo(lane.announced) \subseteq LedTo(L.announced) \cup {d}
          /\ LedTo(Pending(lane)) \subseteq LedTo(Pending(L)) \cup {d}
          /\ LedTo(Below(p)) \subseteq LedTo(Pending(L))
      BY <1>4, <3>2 DEF LedTo, Pending, d
    <3>5. D \cup LedTo(Pending(lane)) \subseteq E \cup LedTo(Pending(L))
      BY <3>4
    <3>6. L.visited \subseteq E \cup LedTo(L.announced)
      BY <1>4, <3>1, <3>4 DEF Covers
    <3>7. /\ IsDir(Resolve(root)) => Resolve(root) \in E \cup LedTo(Pending(L))
          /\ IsFile(Resolve(root)) /\ Passes(root, Resolve(root)) =>
               FileEntry(root, Resolve(root)) \in L.entries
      BY <1>4, <3>1, <3>5 DEF Covers
    <3>8. ASSUME NEW c \in E \ setup.denied
          PROVE  /\ \E v \in Ways : v.dir = c /\ FileEntries(v.path, c) \subseteq listed
                 /\ \A y \in Taken(c) : IsDir(Target(y)) => Target(y) \in E \cup LedTo(Pending(L))
      <4>1. CASE c \in D
        <5>1. /\ \E v \in Ways : v.dir = c /\ FileEntries(v.path, c) \subseteq AllEntries(s)
              /\ \A y \in Taken(c) : IsDir(Target(y)) => Target(y) \in D \cup LedTo(Pending(lane))
          BY <3>1, <3>8, <4>1 DEF Covers
        <5> QED BY <3>5, <5>1
      <4>2. CASE c = d
        <5>1. FileEntries(p, d) \subseteq listed
          BY <1>4, <2>2, <3>2, <3>8, <4>2 DEF Found, d
        <5>2. \A y \in Taken(d) : IsDir(Target(y)) => Target(y) \in LedTo(Below(p))
          BY <1>2, <1>5, <2>2, <3>8, <4>2, SubDirFacts DEF d
        <5> QED BY <2>2, <3>4, <4>2, <5>1, <5>2
      <4> QED BY <4>1, <4>2
    <3> HIDE DEF E, listed, root
    <3>9. Covers(L, root, listed, E)
      BY <3>6, <3>7, <3>8 DEF Covers
    <3> QED BY <3>3, <3>9 DEF Covered, listed, root
  <2>7. ASSUME setup.follow, ~SideBySide PROVE OnceEach(L, setup.roots[i], VisitedBefore(s, i))
    <3> DEFINE root == setup.roots[i]
               before == VisitedBefore(s, i)
               own == lane.visited \ before
    <3>1. OnceEach(lane, root, before)
      BY <1>7, <2>7 DEF Walked, lane
    <3> HIDE DEF root, before
    <3>2. /\ before \subseteq lane.visited /\ LedTo(lane.announced) \subseteq own
          /\ \A q, r \in lane.announced : Resolve(q) = Resolve(r) => q = r
      BY <1>1, <3>1 DEF OnceEach
    <3>3. d \in LedTo(lane.announced) /\ d \notin LedTo(L.announced) /\ LedTo(L.announced) \subseteq LedTo(lane.announced)
      BY <1>3, <1>4, <3>2 DEF LedTo, d
    <3>4. \A e \in lane.entries : \E q \in Seq(STRING), a \in STRING :
            e.path = Append(q, a) /\ Resolve(q) \in own \ LedTo(lane.announced)
      BY <1>1, <3>1 DEF OnceEach
    <3>5. \A e \in some : \E a \in STRING : e.path = Append(p, a)
      <4> SUFFICES ASSUME NEW e \in some PROVE \E a \in STRING : e.path = Append(p, a)
        OBVIOUS
      <4>1. PICK y \in Taken(Resolve(p)) : e.path = Append(p, tree[y].name)
        BY <1>2, <1>3, <1>5, FoundFacts
      <4> QED BY <1>2, <4>1, TakenFacts
    <3> HIDE DEF own
    <3>6. \A e \in L.entries : \E q \in Seq(STRING), a \in STRING :
            e.path = Append(q, a) /\ Resolve(q) \in own \ LedTo(L.announced)
      <4> SUFFICES ASSUME NEW e \in L.entries
                   PROVE  \E q \in Seq(STRING), a \in STRING :
                            e.path = Append(q, a) /\ Resolve(q) \in own \ LedTo(L.announced)
        OBVIOUS
      <4>1. CASE e \in lane.entries
        BY <3>3, <3>4, <4>1
      <4>2. CASE e \in some
        BY <1>5, <3>2, <3>3, <3>5, <4>2 DEF d
      <4> QED BY <1>4, <4>1, <4>2
    <3>7. ASSUME NEW e \in L.entries, NEW g \in L.entries, NEW q \in Seq(STRING), NEW r \in Seq(STRING),
                 NEW a \in STRING, NEW b \in STRING,
                 e.path = Append(q, a), g.path = Append(r, b), Resolve(q) = Resolve(r)
          PROVE  q = r
      <4>1. \A x \in lane.entries : \A t \in Seq(STRING), c \in STRING :
              x.path = Append(t, c) => Resolve(t) \notin LedTo(lane.announced)
        <5> SUFFICES ASSUME NEW x \in lane.entries, NEW t \in Seq(STRING), NEW c \in STRING,
                            x.path = Append(t, c)
                     PROVE  Resolve(t) \notin LedTo(lane.announced)
          OBVIOUS
        <5>1. PICK u \in Seq(STRING), f \in STRING :
                x.path = Append(u, f) /\ Resolve(u) \notin LedTo(lane.announced)
          BY <3>4
        <5>2. u = t
          BY <5>1, LastName
        <5> QED BY <5>1, <5>2
      <4>2. \A x \in some : \A t \in Seq(STRING), c \in STRING : x.path = Append(t, c) => t = p
        <5> SUFFICES ASSUME NEW x \in some, NEW t \in Seq(STRING), NEW c \in STRING,
                            x.path = Append(t, c)
                     PROVE  t = p
          OBVIOUS
        <5>1. PICK f \in STRING : x.path = Append(p, f)
          BY <3>5
        <5> QED BY <1>5, <5>1, LastName
      <4>3. CASE e \in lane.entries /\ g \in lane.entries
        <5>1. \A x, y \in lane.entries : \A t, u \in Seq(STRING) : \A c, f \in STRING :
                x.path = Append(t, c) /\ y.path = Append(u, f) /\ Resolve(t) = Resolve(u) => t = u
          BY <3>1 DEF OnceEach
        <5> QED BY <3>7, <4>3, <5>1
      <4>4. CASE e \in some /\ g \in some
        BY <3>7, <4>2, <4>4
      <4>5. CASE e \in lane.entries /\ g \in some
        BY <3>3, <3>7, <4>1, <4>2, <4>5 DEF d
      <4>6. CASE e \in some /\ g \in lane.entries
        BY <3>3, <3>7, <4>1, <4>2, <4>6 DEF d
      <4> QED BY <1>4, <4>3, <4>4, <4>5, <4>6
    <3>8. /\ before \subseteq L.visited /\ L.visited \ before = own
          /\ LedTo(L.announced) \subseteq own
          /\ \A q, r \in L.announced : Resolve(q) = Resolve(r) => q = r
      BY <1>4, <3>2, <3>3 DEF own
    <3> QED BY <3>6, <3>7, <3>8 DEF OnceEach, root, before
  <2>8. lanes[s][i].state # "done" /\ lanes[s][i].entries \subseteq L.entries
    BY <1>1, <1>4 DEF lane
  <2> QED BY <1>1, <1>4, <1>5, <1>7, <2>3, <2>4, <2>5, <2>6, <2>7, <2>8, LaneMoves
<1> QED BY <1>4, <1>5, <1>6, <1>7

-----------------------------------------------------------------------------
(* What a walk that has come to its end has found.                           *)

\* A name no link has leads to the entry that bears it.
LEMMA StepWithoutLink ==
  ASSUME TreeOK, NEW path \in Seq(STRING), NEW name \in STRING, ~ LinkName(name),
         Resolve(Append(path, name)) # Missing
  PROVE  /\ Resolve(Append(path, name)) \in DOMAIN tree
         /\ tree[Resolve(Append(path, name))].parent = Resolve(path)
         /\ tree[Resolve(Append(path, name))].name = name
<1>1. Resolve(Append(path, name)) = Step(Resolve(path), name)
  BY ResolveAppend DEF TreeOK
<1>2. PICK x \in DOMAIN tree : /\ tree[x].parent = Resolve(path) /\ tree[x].name = name
                               /\ Step(Resolve(path), name) = Target(x)
  BY <1>1, StepFromChild DEF TreeOK
<1>3. Target(x) = x
  BY <1>2 DEF LinkName, Target
<1> QED BY <1>1, <1>2, <1>3

\* A path none of whose names a link has.
Linkless(path) == \A n \in 1..Len(path) : ~ LinkName(path[n])

\* The path before the last name is without a link too.
LEMMA LinklessFront ==
  ASSUME NEW path \in Seq(STRING), NEW name \in STRING, Linkless(Append(path, name))
  PROVE  Linkless(path) /\ ~ LinkName(name)
<1> DEFINE longer == Append(path, name)
<1>1. Len(longer) = Len(path) + 1 /\ (\A n \in 1..Len(path) : longer[n] = path[n]) /\ longer[Len(path) + 1] = name
  <2>1. Len(longer) = Len(path) + 1
    BY AppendProperties
  <2>2. \A n \in 1..Len(path) : longer[n] = path[n]
    BY AppendProperties
  <2>3. longer[Len(path) + 1] = name
    BY AppendProperties
  <2> QED BY <2>1, <2>2, <2>3
<1>2. Len(path) \in Nat
  OBVIOUS
<1>3. \A n \in 1..Len(longer) : ~ LinkName(longer[n])
  BY DEF Linkless
<1> HIDE DEF longer
<1>4. ~ LinkName(name)
  <2>1. Len(path) + 1 \in 1..Len(longer)
    BY <1>1, <1>2
  <2> QED BY <1>1, <1>3, <2>1
<1>5. \A n \in 1..Len(path) : ~ LinkName(path[n])
  <2>1. \A n \in 1..Len(path) : n \in 1..Len(longer)
    BY <1>1, <1>2
  <2> QED BY <1>1, <1>3, <2>1
<1> QED BY <1>4, <1>5 DEF Linkless

\* No two paths without a link lead to the same place.
LEMMA LinklessUnique ==
  ASSUME TreeOK
  PROVE  \A p, q \in Seq(STRING) :
           Linkless(p) /\ Linkless(q) /\ Resolve(p) = Resolve(q) /\ Resolve(p) # Missing => p = q
<1> DEFINE Only(p) == \A q \in Seq(STRING) :
             Linkless(p) /\ Linkless(q) /\ Resolve(p) = Resolve(q) /\ Resolve(p) # Missing => p = q
           T == {k \in Nat : \A p \in Seq(STRING) : Len(p) = k => Only(p)}
<1>0. ASSUME NEW p \in Seq(STRING), p # <<>>
      PROVE  \E r \in Seq(STRING), a \in STRING : p = Append(r, a)
  BY <1>0, SequenceEmptyOrAppend
<1>1. Resolve(<<>>) = Top /\ Top \notin DOMAIN tree /\ Missing \notin DOMAIN tree /\ Missing # Top
  BY ResolveEmpty, RefsAssumption DEF TreeOK, WellFormed
<1>2. 0 \in T
  <2> SUFFICES ASSUME NEW p \in Seq(STRING), Len(p) = 0, NEW q \in Seq(STRING),
                      Linkless(q), Resolve(p) = Resolve(q), q # <<>>
               PROVE  FALSE
    OBVIOUS
  <2>1. p = <<>>
    OBVIOUS
  <2>2. PICK r \in Seq(STRING), b \in STRING : q = Append(r, b)
    BY <1>0
  <2>3. ~ LinkName(b) /\ Resolve(q) = Top
    BY <1>1, <2>1, <2>2, LinklessFront
  <2> QED BY <1>1, <2>2, <2>3, StepWithoutLink
<1>3. ASSUME NEW k \in Nat, k \in T PROVE k + 1 \in T
  <2> SUFFICES ASSUME NEW p \in Seq(STRING), Len(p) = k + 1, NEW q \in Seq(STRING),
                      Linkless(p), Linkless(q), Resolve(p) = Resolve(q), Resolve(p) # Missing
               PROVE  p = q
    OBVIOUS
  <2>1. p # <<>>
    OBVIOUS
  <2>2. PICK r \in Seq(STRING), a \in STRING : p = Append(r, a)
    BY <2>1, <1>0
  <2>3. Linkless(r) /\ ~ LinkName(a)
    BY <2>2, LinklessFront
  <2> DEFINE x == Resolve(p)
  <2>4. x \in DOMAIN tree /\ tree[x].parent = Resolve(r) /\ tree[x].name = a
    BY <2>2, <2>3, StepWithoutLink
  <2>5. q # <<>>
    BY <1>1, <2>4
  <2>6. PICK t \in Seq(STRING), b \in STRING : q = Append(t, b)
    BY <2>5, <1>0
  <2>7. Linkless(t) /\ ~ LinkName(b)
    BY <2>6, LinklessFront
  <2>8. tree[x].parent = Resolve(t) /\ tree[x].name = b
    BY <2>6, <2>7, StepWithoutLink
  <2>9. Len(r) = k
    <3>1. Len(p) = Len(r) + 1 /\ Len(r) \in Nat
      BY <2>2, AppendProperties
    <3> QED BY <3>1
  <2>10. Resolve(r) # Missing
    BY <1>1, <2>4, RefsAssumption DEF TreeOK, WellFormed, Entry
  <2>11. Only(r)
    BY <1>3, <2>9
  <2>12. r = t
    BY <2>3, <2>4, <2>7, <2>8, <2>10, <2>11
  <2> QED BY <2>2, <2>4, <2>6, <2>8, <2>12
<1> HIDE DEF T
<1>4. \A k \in Nat : k \in T
  BY <1>2, <1>3, Induction
<1> QED BY <1>4 DEF T

\* Every lane has come to its end.
AllDone(s) == \A i \in Roots : lanes[s][i].state = "done"

\* Nothing is listed twice, so no entry is left out for its path.
LEMMA NothingLeftOut ==
  ASSUME Typed, NEW s \in Scanners, \A k \in Roots : Walked(s, k)
  PROVE  /\ dedup_by_path(s) = AllEntries(s)
         /\ \A e, g \in AllEntries(s) : e.path = g.path => e = g
<1>1. ASSUME NEW e \in AllEntries(s) PROVE e = FileEntry(e.path, Resolve(e.path))
  <2>1. PICK i \in Roots : e \in lanes[s][i].entries
    BY DEF AllEntries
  <2>2. EntriesOK(lanes[s][i], i)
    BY DEF Walked
  <2> QED BY <2>1, <2>2 DEF EntriesOK
<1>2. \A e, g \in AllEntries(s) : e.path = g.path => e = g
  BY <1>1
<1>3. Roots \subseteq Nat
  BY RootsArePaths DEF Typed
<1>4. dedup_by_path(s) \subseteq AllEntries(s)
  BY DEF dedup_by_path, AllEntries
<1>5. ASSUME NEW e \in AllEntries(s) PROVE e \in dedup_by_path(s)
  <2> DEFINE J == {j \in Roots : e \in lanes[s][j].entries}
  <2>1. J # {} /\ J \in SUBSET Nat
    BY <1>3 DEF AllEntries
  <2> HIDE DEF J
  <2>2. PICK i \in J : \A m \in J : i <= m
    BY <2>1, Least
  <2>3. i \in Roots /\ e \in lanes[s][i].entries
    BY <2>2 DEF J
  <2>4. ASSUME NEW j \in Roots, j < i, NEW g \in lanes[s][j].entries, g.path = e.path PROVE FALSE
    <3>1. g = e
      BY <1>2, <2>4 DEF AllEntries
    <3>2. j \in J
      BY <2>4, <3>1 DEF J
    <3> QED BY <1>3, <2>2, <2>3, <2>4, <3>2
  <2> QED BY <2>3, <2>4 DEF dedup_by_path
<1> QED BY <1>2, <1>4, <1>5

\* A file in the directory of a way is a place.
LEMMA PlaceOfWay ==
  ASSUME NEW w \in Ways, w.dir \notin setup.denied, NEW y \in Taken(w.dir), IsFile(Target(y))
  PROVE  [path |-> Append(w.path, tree[y].name), ref |-> Target(y)] \in Places
<1> DEFINE place == [path |-> Append(w.path, tree[y].name), ref |-> Target(y)]
           of(v) == {[path |-> Append(v.path, tree[x].name), ref |-> Target(x)] : x \in Taken(v.dir)}
<1>1. place \in of(w)
  OBVIOUS
<1>2. place \in UNION {of(v) : v \in {u \in Ways : u.dir \notin setup.denied}}
  BY <1>1
<1>3. IsFile(place.ref)
  OBVIOUS
<1> DEFINE those == UNION {of(v) : v \in {u \in Ways : u.dir \notin setup.denied}}
           roots == {[path |-> setup.roots[i], ref |-> Resolve(setup.roots[i])] : i \in Roots}
<1>4. Places = {p \in roots \cup those : IsFile(p.ref)}
  BY DEF Places
<1> HIDE DEF place, of, those, roots
<1>5. place \in those
  BY <1>2 DEF those
<1>6. place \in Places
  BY <1>3, <1>4, <1>5
<1> QED BY <1>6 DEF place

\* The entries are places of the volume the rules leave in.
LEMMA EntriesArePlaces ==
  ASSUME Typed, NEW s \in Scanners, \A k \in Roots : Walked(s, k), NEW e \in AllEntries(s)
  PROVE  /\ e = FileEntry(e.path, Resolve(e.path))
         /\ IsFile(e.ref) /\ Resolve(e.path) = e.ref /\ e.size = tree[e.ref].size
         /\ Allowed("walk", e)
         /\ [path |-> e.path, ref |-> e.ref] \in {q \in Places : Allowed("walk", q)}
<1> DEFINE x == Resolve(e.path)
           place == [path |-> e.path, ref |-> e.ref]
<1>1. PICK i \in Roots : e \in lanes[s][i].entries
  BY DEF AllEntries
<1>2. /\ e = FileEntry(e.path, x) /\ IsFile(x) /\ Passes(e.path, x)
      /\ \/ e.path = setup.roots[i]
         \/ \E w \in Ways : \E y \in Taken(w.dir) :
              w.dir \notin setup.denied /\ e.path = Append(w.path, tree[y].name)
  BY <1>1 DEF Walked, EntriesOK
<1>3. e.ref = x /\ e.size = tree[x].size
  BY <1>2 DEF FileEntry
<1>4. Allowed("walk", e) /\ Allowed("walk", place)
  BY <1>2, <1>3 DEF Allowed, Passes
<1>5. place \in Places
  <2>1. CASE e.path = setup.roots[i]
    BY <1>2, <1>3, <2>1 DEF Places
  <2>2. CASE \E w \in Ways : \E y \in Taken(w.dir) :
               w.dir \notin setup.denied /\ e.path = Append(w.path, tree[y].name)
    <3>1. PICK w \in Ways, y \in DOMAIN tree :
                 y \in Taken(w.dir) /\ w.dir \notin setup.denied /\ e.path = Append(w.path, tree[y].name)
      BY <2>2 DEF Taken, ChildrenOf
    <3>2. w.path \in Seq(STRING) /\ w.dir = Resolve(w.path) /\ TreeOK
      BY WayFacts DEF Typed
    <3>3. tree[y].name \in STRING /\ Step(w.dir, tree[y].name) = Target(y)
      BY <3>1, <3>2, TakenFacts
    <3>4. x = Target(y)
      BY <3>1, <3>2, <3>3, ResolveAppend DEF TreeOK
    <3>5. place = [path |-> Append(w.path, tree[y].name), ref |-> Target(y)]
      BY <1>3, <3>1, <3>4
    <3> QED BY <1>2, <3>1, <3>4, <3>5, PlaceOfWay
  <2> QED BY <1>2, <2>1, <2>2
<1> QED BY <1>2, <1>3, <1>4, <1>5

\* Every place the rules do not shut out on some path is among the entries.
LEMMA PlacesAreEntries ==
  ASSUME Typed, NEW s \in Scanners, ~cancelled[s], AllDone(s),
         \A k \in Roots : Orderly(s, k) /\ Walked(s, k)
  PROVE  MustList("walk") \subseteq {e.ref : e \in AllEntries(s)}
<1> DEFINE N == Len(setup.roots) + 1
           D == ReadBefore(s, N)
<1>1. /\ TreeOK /\ N \in Nat /\ \A i \in Roots : i < N
  BY RootsArePaths DEF Typed
<1>2. \A j \in Roots : j < N => lanes[s][j].state = "done"
  BY DEF AllDone
<1>3. /\ \A j \in Roots : IsDir(Resolve(setup.roots[j])) => Resolve(setup.roots[j]) \in D
      /\ \A d \in D \ setup.denied :
           /\ \E w \in Ways : w.dir = d /\ FileEntries(w.path, d) \subseteq AllEntries(s)
           /\ \A y \in Taken(d) : IsDir(Target(y)) => Target(y) \in D
  <2> HIDE DEF N
  <2> QED BY <1>1, <1>2, ReadBeforeCovers
<1> HIDE DEF D, N
<1>4. \A w \in Ways : w.dir \in D
  BY <1>1, <1>3, WaysInside
<1>5. SUFFICES ASSUME NEW p \in Places, \A q \in Places : q.ref = p.ref => Allowed("walk", q)
               PROVE  \E e \in AllEntries(s) : e.ref = p.ref
  BY DEF MustList
<1>6. IsFile(p.ref)
  BY DEF Places
<1>7. CASE \E i \in Roots : p = [path |-> setup.roots[i], ref |-> Resolve(setup.roots[i])]
  <2>1. PICK i \in Roots : p = [path |-> setup.roots[i], ref |-> Resolve(setup.roots[i])]
    BY <1>7
  <2>2. Passes(setup.roots[i], Resolve(setup.roots[i])) /\ IsFile(Resolve(setup.roots[i]))
    BY <1>5, <1>6, <2>1 DEF Allowed, Passes
  <2>3. FileEntry(setup.roots[i], Resolve(setup.roots[i])) \in lanes[s][i].entries
    <3>1. Covered(lanes[s][i], setup.roots[i], AllEntries(s)) /\ lanes[s][i].state = "done"
      BY DEF Walked, AllDone
    <3> QED BY <2>2, <3>1 DEF Covered, Covers
  <2> QED BY <2>1, <2>3 DEF FileEntry, AllEntries
<1>8. CASE \E w \in Ways : \E y \in Taken(w.dir) :
             w.dir \notin setup.denied /\ p = [path |-> Append(w.path, tree[y].name), ref |-> Target(y)]
  <2>1. PICK w \in Ways, y \in DOMAIN tree :
               /\ y \in Taken(w.dir) /\ w.dir \notin setup.denied
               /\ p = [path |-> Append(w.path, tree[y].name), ref |-> Target(y)]
    BY <1>8 DEF Taken, ChildrenOf
  <2>2. PICK v \in Ways : v.dir = w.dir /\ FileEntries(v.path, w.dir) \subseteq AllEntries(s)
    BY <1>3, <1>4, <2>1
  <2> DEFINE path == Append(v.path, tree[y].name)
             q == [path |-> path, ref |-> Target(y)]
  <2>3. p.ref = Target(y) /\ IsFile(Target(y))
    BY <1>6, <2>1
  <2>4. q \in Places
    BY <2>1, <2>2, <2>3, PlaceOfWay
  <2>5. Passes(path, Target(y))
    BY <1>5, <2>3, <2>4 DEF Allowed, Passes
  <2>6. FileEntry(path, Target(y)) \in AllEntries(s)
    BY <2>1, <2>2, <2>3, <2>5 DEF FileEntries
  <2> QED BY <2>3, <2>6 DEF FileEntry
<1>9. \/ \E i \in Roots : p = [path |-> setup.roots[i], ref |-> Resolve(setup.roots[i])]
      \/ \E w \in Ways : \E y \in Taken(w.dir) :
           w.dir \notin setup.denied /\ p = [path |-> Append(w.path, tree[y].name), ref |-> Target(y)]
  BY DEF Places
<1> QED BY <1>7, <1>8, <1>9

\* A name last in a path is that of the entry the path leads to, unless a link has it.
LEMMA NameLast ==
  ASSUME NEW path \in Seq(STRING), NEW name \in STRING
  PROVE  Append(path, name)[Len(Append(path, name))] = name
<1> DEFINE longer == Append(path, name)
<1>1. Len(longer) = Len(path) + 1
  BY AppendProperties
<1>2. longer[Len(path) + 1] = name
  BY AppendProperties
<1> HIDE DEF longer
<1>3. longer[Len(longer)] = name
  BY <1>1, <1>2
<1> QED BY <1>3 DEF longer

\* No file is listed under two paths, neither of which may repeat.
LEMMA NothingTwice ==
  ASSUME Typed, NEW s \in Scanners, AllDone(s), \A k \in Roots : Orderly(s, k) /\ Walked(s, k),
         NEW e \in AllEntries(s), NEW g \in AllEntries(s), e.ref = g.ref,
         ~ MayRepeat(e.path), ~ MayRepeat(g.path)
  PROVE  e.path = g.path
<1>1. TreeOK /\ Roots \subseteq Nat
  BY RootsArePaths DEF Typed
<1>2. e.path \in Seq(STRING) /\ g.path \in Seq(STRING)
  BY DEF AllEntries, Typed, LaneType, FileRecord
<1>3. /\ Resolve(e.path) = e.ref /\ Resolve(g.path) = e.ref /\ IsFile(e.ref) /\ e.ref # Missing
  BY <1>1, EntriesArePlaces, MissingIsNothing
<1>4. CASE ~(setup.follow /\ ~SideBySide)
  <2>1. Linkless(e.path) /\ Linkless(g.path)
    BY <1>2, <1>4 DEF MayRepeat, Linkless
  <2> QED BY <1>1, <1>2, <1>3, <2>1, LinklessUnique
<1>5. CASE setup.follow /\ ~SideBySide
  <2>1. /\ ~ LinkName(e.path[Len(e.path)]) /\ e.path \notin Range(setup.roots)
        /\ ~ LinkName(g.path[Len(g.path)]) /\ g.path \notin Range(setup.roots)
    BY <1>5 DEF MayRepeat
  <2>2. PICK i \in Roots, j \in Roots : e \in lanes[s][i].entries /\ g \in lanes[s][j].entries
    BY DEF AllEntries
  <2>3. e.path # setup.roots[i] /\ g.path # setup.roots[j]
    BY <2>1 DEF Range, Roots
  <2>4. OnceEach(lanes[s][i], setup.roots[i], VisitedBefore(s, i)) /\ OnceEach(lanes[s][j], setup.roots[j], VisitedBefore(s, j))
    BY <1>5 DEF Walked
  <2>5. PICK p \in Seq(STRING), a \in STRING :
          e.path = Append(p, a) /\ Resolve(p) \in lanes[s][i].visited \ VisitedBefore(s, i)
    BY <2>2, <2>3, <2>4 DEF OnceEach
  <2>6. PICK q \in Seq(STRING), b \in STRING :
          g.path = Append(q, b) /\ Resolve(q) \in lanes[s][j].visited \ VisitedBefore(s, j)
    BY <2>2, <2>3, <2>4 DEF OnceEach
  <2>7. e.path[Len(e.path)] = a /\ g.path[Len(g.path)] = b
    BY <2>5, <2>6, NameLast
  <2>8. /\ tree[e.ref].parent = Resolve(p) /\ tree[e.ref].name = a
        /\ tree[e.ref].parent = Resolve(q) /\ tree[e.ref].name = b
    BY <1>1, <1>3, <2>1, <2>5, <2>6, <2>7, StepWithoutLink
  <2>9. ~(i < j) /\ ~(j < i)
    BY <2>5, <2>6, <2>8 DEF VisitedBefore
  <2>10. i = j
    BY <1>1, <2>9
  <2>11. p = q
    <3>1. e \in lanes[s][i].entries /\ g \in lanes[s][i].entries
      BY <2>2, <2>10
    <3>2. \A c, h \in lanes[s][i].entries : \A t, u \in Seq(STRING) : \A f, k \in STRING :
            c.path = Append(t, f) /\ h.path = Append(u, k) /\ Resolve(t) = Resolve(u) => t = u
      BY <2>4 DEF OnceEach
    <3>3. Resolve(p) = Resolve(q)
      BY <2>8
    <3> QED BY <2>5, <2>6, <3>1, <3>2, <3>3
  <2> QED BY <2>5, <2>6, <2>8, <2>11
<1> QED BY <1>4, <1>5

\* A walk whose lanes are done and that was not stopped has an exact list.
LEMMA WalkIsExact ==
  ASSUME Typed, NEW s \in Scanners, AllDone(s), \A k \in Roots : Orderly(s, k) /\ Walked(s, k)
  PROVE  Exact(Listed(dedup_by_path(s), "walk", ~cancelled[s]))
<1> DEFINE l == Listed(dedup_by_path(s), "walk", ~cancelled[s])
<1>1. l.entries = AllEntries(s) /\ l.how = "walk" /\ l.whole = ~cancelled[s]
  BY NothingLeftOut DEF Listed
<1> HIDE DEF l
<1>2. \A e \in l.entries : Resolve(e.path) = e.ref /\ e.size = tree[e.ref].size /\ Allowed(l.how, e)
  BY <1>1, EntriesArePlaces
<1>3. {e.ref : e \in l.entries} \subseteq MayList(l.how)
  <2> SUFFICES ASSUME NEW e \in AllEntries(s) PROVE e.ref \in MayList("walk")
    BY <1>1
  <2> DEFINE p == [path |-> e.path, ref |-> e.ref]
  <2>1. p \in {q \in Places : Allowed("walk", q)} /\ p.ref = e.ref
    BY EntriesArePlaces
  <2> QED BY <2>1 DEF MayList
<1>4. l.whole => MustList(l.how) \subseteq {e.ref : e \in l.entries}
  BY <1>1, PlacesAreEntries
<1>5. \A e, g \in l.entries : e # g => e.path # g.path
  BY <1>1, NothingLeftOut
<1>6. \A e, g \in l.entries : e # g /\ e.ref = g.ref => MayRepeat(e.path) \/ MayRepeat(g.path)
  BY <1>1, <1>5, NothingTwice
<1>7. Exact(l)
  BY <1>2, <1>3, <1>4, <1>5, <1>6 DEF Exact
<1> QED BY <1>7 DEF l

-----------------------------------------------------------------------------
(* The invariant.                                                            *)

\* A walk begins as the invariant wants it.
LEMMA FreshWalk ==
  ASSUME Typed, NEW s \in Scanners, lanes[s] = NewLanes
  PROVE  \A i \in Roots : lanes[s][i] = NewLane /\ Orderly(s, i) /\ Walked(s, i)
<1> SUFFICES ASSUME NEW i \in Roots PROVE lanes[s][i] = NewLane /\ Orderly(s, i) /\ Walked(s, i)
  OBVIOUS
<1>1. lanes[s][i] = NewLane
  BY DEF NewLanes
<1>2. /\ NewLane.state = "waiting" /\ NewLane.layer = {} /\ NewLane.announced = {} /\ NewLane.next = {}
      /\ NewLane.entries = {} /\ NewLane.visited = {} /\ NewLane.cut = FALSE
  BY DEF NewLane
<1>3. Orderly(s, i)
  BY <1>1, <1>2 DEF Orderly
<1>4. AnnouncedOK(NewLane) /\ AheadOK(NewLane) /\ EntriesOK(NewLane, i)
  BY <1>2 DEF AnnouncedOK, AheadOK, EntriesOK
<1>5. Covered(NewLane, setup.roots[i], AllEntries(s))
  BY <1>2 DEF Covered
<1>6. OnceEach(NewLane, setup.roots[i], VisitedBefore(s, i))
  BY <1>2 DEF OnceEach, LedTo
<1> QED BY <1>1, <1>3, <1>4, <1>5, <1>6 DEF Walked

\* A walk nothing is done to, or that is told to stop.
LEMMA WalkStays ==
  ASSUME Typed, setup' = setup, NEW s \in Scanners,
         lanes'[s] = lanes[s], cancelled'[s] = cancelled[s] \/ cancelled'[s]
  PROVE  /\ Roots' = Roots
         /\ \A i \in Roots : Orderly(s, i) => Orderly(s, i)'
         /\ tree' = tree => \A i \in Roots : Walked(s, i) => Walked(s, i)'
<1>1. Roots' = Roots /\ SideBySide' = SideBySide /\ NewLane' = NewLane
  BY DEF Roots, SideBySide, NewLane
<1>2. ASSUME NEW i \in Roots, Orderly(s, i) PROVE Orderly(s, i)'
  BY <1>1, <1>2 DEF Orderly, Pending
<1>3. ASSUME tree' = tree, NEW i \in Roots, Walked(s, i) PROVE Walked(s, i)'
  <2>1. /\ (lanes[s][i])' = lanes[s][i] /\ (setup.roots[i])' = setup.roots[i]
        /\ AllEntries(s)' = AllEntries(s) /\ VisitedBefore(s, i)' = VisitedBefore(s, i)
    BY <1>1 DEF AllEntries, VisitedBefore
  <2>2. AnnouncedOK(lanes[s][i])' /\ AheadOK(lanes[s][i])' /\ EntriesOK(lanes[s][i], i)'
    BY <1>3, <2>1, LaneStays DEF Walked
  <2>3. ASSUME ~cancelled'[s] PROVE Covered(lanes[s][i], setup.roots[i], AllEntries(s))'
    <3>1. Covered(lanes[s][i], setup.roots[i], AllEntries(s))
      BY <1>3, <2>3 DEF Walked
    <3> QED BY <1>3, <2>1, <3>1, LaneStays DEF Covered
  <2>4. ASSUME setup.follow, ~SideBySide
        PROVE  OnceEach(lanes[s][i], setup.roots[i], VisitedBefore(s, i))'
    <3>1. OnceEach(lanes[s][i], setup.roots[i], VisitedBefore(s, i))
      BY <1>3, <2>4 DEF Walked
    <3> QED BY <1>3, <2>1, <3>1, LaneStays
  <2> QED BY <1>1, <2>2, <2>3, <2>4 DEF Walked
<1> QED BY <1>1, <1>2, <1>3

\* The outcome there is stays true while the tree stays.
LEMMA OutcomeStays ==
  ASSUME setup' = setup, tree' = tree, NEW s, list'[s] = list[s], quiet'[s] => quiet[s],
         Ended(s) /\ quiet[s] /\ list[s].how = "walk" => Exact(list[s])
  PROVE  (Ended(s) /\ quiet[s] /\ list[s].how = "walk" => Exact(list[s]))'
<1> SUFFICES ASSUME Ended(s)', quiet'[s], list'[s].how = "walk" PROVE Exact(list[s])'
  OBVIOUS
<1>1. Exact(list[s])
  BY DEF Ended
<1> QED BY <1>1, ExactStays

\* One scanner does not mind what another does.
LEMMA OtherScanner ==
  ASSUME Typed, tree' = tree, setup' = setup, NEW t \in Scanners,
         lanes'[t] = lanes[t], at'[t] = at[t], cancelled'[t] = cancelled[t],
         quiet'[t] = quiet[t], list'[t] = list[t], Sound(t)
  PROVE  Sound(t)'
<1>1. Roots' = Roots /\ NewLanes' = NewLanes
  BY DEF Roots, NewLanes, NewLane
<1>2. (at[t] # "walk" => lanes[t] = NewLanes /\ ~cancelled[t])'
  BY <1>1 DEF Sound
<1>3. \A i \in Roots : Orderly(t, i)'
  BY WalkStays DEF Sound
<1>4. (quiet[t] /\ at[t] = "walk") => \A i \in Roots : Walked(t, i)'
  BY WalkStays DEF Sound
<1>5. (Ended(t) /\ quiet[t] /\ list[t].how = "walk" => Exact(list[t]))'
  BY OutcomeStays DEF Sound
<1> QED BY <1>1, <1>2, <1>3, <1>4, <1>5 DEF Sound

\* It holds at first.
LEMMA InvInit == Init => Inv
<1> SUFFICES ASSUME Init PROVE Inv
  OBVIOUS
<1>1. TreeOK
  BY SetupsAssumption DEF Init, WarmInit, VolumeInit, TreeOK, LinksKnown
<1>2. NewLane \in LaneType
  BY DEF NewLane, LaneType
<1>3. lanes \in [Scanners -> [Roots -> LaneType]] /\ \A s \in Scanners : lanes[s] = NewLanes
  BY <1>2 DEF Init, Roots, NewLanes
<1>4. /\ at = [s \in Scanners |-> "idle"] /\ list = [s \in Scanners |-> None]
      /\ quiet = [s \in Scanners |-> TRUE] /\ cancelled = [s \in Scanners |-> FALSE]
  BY DEF Init, WarmInit, VolumeInit
<1>5. Typed
  BY <1>1, <1>3, <1>4 DEF Typed, Steps
<1>6. ASSUME NEW s \in Scanners PROVE Sound(s)
  <2>1. at[s] # "walk" /\ ~cancelled[s] /\ lanes[s] = NewLanes /\ ~Ended(s)
    BY <1>3, <1>4 DEF Ended
  <2>2. \A i \in Roots : Orderly(s, i)
    BY <1>5, <2>1, FreshWalk
  <2> QED BY <2>1, <2>2 DEF Sound
<1> QED BY <1>5, <1>6 DEF Inv

\* Another program's change: nothing is said of the scanners at work any more.
LEMMA ChangeInv ==
  ASSUME Inv, Change, UNCHANGED <<setup, snapshot, at, job, list, runs, kills, TheWalk>>
  PROVE  Inv'
<1>1. Typed /\ (\A s \in Scanners : Sound(s)) /\ setup' = setup /\ lanes' = lanes /\ cancelled' = cancelled
      /\ at' = at /\ list' = list /\ quiet' = [s \in Scanners |-> FALSE]
  BY DEF Inv, TheWalk, Change
<1>2. TreeOK'
  BY <1>1, ChangeKeeps DEF Typed
<1>3. Roots' = Roots /\ NewLanes' = NewLanes
  BY <1>1 DEF Roots, NewLanes, NewLane
<1>4. Typed'
  BY <1>1, <1>2, <1>3 DEF Typed, LaneType, FileRecord
<1>5. ASSUME NEW s \in Scanners PROVE Sound(s)'
  <2>1. \A i \in Roots : Orderly(s, i)'
    BY <1>1, WalkStays DEF Sound
  <2>2. (at[s] # "walk" => lanes[s] = NewLanes /\ ~cancelled[s])'
    BY <1>1, <1>3 DEF Sound
  <2>3. ~quiet'[s]
    BY <1>1
  <2> QED BY <1>3, <2>1, <2>2, <2>3 DEF Sound
<1> QED BY <1>4, <1>5 DEF Inv

\* The warm and the cold path leave the lanes alone.
LEMMA TableStepFacts ==
  ASSUME Typed, NEW s \in Scanners, TableStep(s)
  PROVE  /\ setup' = setup /\ tree' = tree /\ done' = done /\ quiet' = quiet
         /\ at[s] # "walk" /\ at' \in [Scanners -> Steps]
         /\ list' = [t \in Scanners |-> list'[t]]
         /\ \A t \in Scanners : t # s => at'[t] = at[t] /\ list'[t] = list[t]
         /\ list'[s] = list[s] \/ list'[s].how # "walk"
<1> USE DEF Typed, Steps, volume, snapshot
<1>1. CASE CheckMeta(s) \/ DropRows(s)
  BY <1>1 DEF CheckMeta, DropRows, invalidate_inventory_snapshot, Go
<1>2. CASE LoadRows(s)
  BY <1>2 DEF LoadRows, Go
<1>3. CASE ReadDelta(s)
  BY <1>3 DEF ReadDelta, Go
<1>4. CASE ApplyRecord(s)
  BY <1>4 DEF ApplyRecord
<1>5. CASE GiveUp(s)
  BY <1>5 DEF GiveUp, invalidate_inventory_snapshot, Go
<1>6. CASE FinishWarm(s)
  BY <1>6 DEF FinishWarm, End, Listed
<1>7. CASE ColdOpen(s)
  BY <1>7 DEF ColdOpen, Go
<1>8. CASE ColdFails(s)
  BY <1>8 DEF ColdFails, Go
<1>9. CASE EnumNext(s)
  BY <1>9 DEF EnumNext
<1>10. CASE EnumEnd(s)
  BY <1>10 DEF EnumEnd, Go
<1>11. CASE ColdStat(s)
  BY <1>11 DEF ColdStat
<1>12. CASE FinishCold(s)
  BY <1>12 DEF FinishCold, End, Listed
<1> QED BY <1>1, <1>2, <1>3, <1>4, <1>5, <1>6, <1>7, <1>8, <1>9, <1>10, <1>11, <1>12 DEF TableStep

\* What one scanner does to itself is enough to look at.
LEMMA OneScanner ==
  ASSUME Inv, NEW s \in Scanners, tree' = tree, done' = done, setup' = setup,
         lanes' \in [Scanners -> [Roots -> LaneType]], at' \in [Scanners -> Steps],
         cancelled' \in [Scanners -> BOOLEAN], quiet' \in [Scanners -> BOOLEAN],
         list' = [t \in Scanners |-> list'[t]],
         \A t \in Scanners : t # s =>
           /\ lanes'[t] = lanes[t] /\ at'[t] = at[t] /\ cancelled'[t] = cancelled[t]
           /\ quiet'[t] = quiet[t] /\ list'[t] = list[t],
         Sound(s)'
  PROVE  Inv'
<1>1. TreeOK'
  BY DEF Inv, Typed, TreeOK, LinksKnown, WellFormed
<1>2. Roots' = Roots
  BY DEF Roots
<1>3. Typed'
  BY <1>1, <1>2 DEF Typed, LaneType, FileRecord
<1>4. ASSUME NEW t \in Scanners PROVE Sound(t)'
  <2>1. CASE t = s
    BY <2>1
  <2>2. CASE t # s
    <3>1. Typed /\ Sound(t)
      BY DEF Inv
    <3> QED BY <2>2, <3>1, OtherScanner
  <2> QED BY <2>1, <2>2
<1> QED BY <1>3, <1>4 DEF Inv

\* An inventory begins.
LEMMA BeginInv ==
  ASSUME Inv, NEW s \in Scanners, Begin(s), UNCHANGED TheWalk
  PROVE  Inv'
<1>1. Typed /\ Sound(s)
  BY DEF Inv
<1>2. /\ tree' = tree /\ done' = done /\ setup' = setup /\ lanes' = lanes /\ cancelled' = cancelled
      /\ at[s] # "walk"
      /\ at' = [at EXCEPT ![s] = IF setup.forceMft THEN "meta" ELSE "walk"]
      /\ quiet' = [quiet EXCEPT ![s] = TRUE] /\ list' = [list EXCEPT ![s] = None]
  BY DEF Begin, TheWalk, volume
<1>3. /\ at' \in [Scanners -> Steps] /\ quiet' \in [Scanners -> BOOLEAN]
      /\ list' = [t \in Scanners |-> list'[t]] /\ list'[s] = None
      /\ \A t \in Scanners : t # s => at'[t] = at[t] /\ quiet'[t] = quiet[t] /\ list'[t] = list[t]
  BY <1>1, <1>2 DEF Typed, Steps
<1>4. lanes[s] = NewLanes /\ ~cancelled[s]
  BY <1>1, <1>2 DEF Sound
<1>5. Roots' = Roots /\ NewLanes' = NewLanes
  BY <1>2 DEF Roots, NewLanes, NewLane
<1>6. \A i \in Roots : Orderly(s, i)' /\ Walked(s, i)'
  BY <1>1, <1>2, <1>4, FreshWalk, WalkStays
<1>7. Sound(s)'
  BY <1>2, <1>3, <1>4, <1>5, <1>6 DEF Sound, Ended
<1> QED BY <1>1, <1>2, <1>3, <1>7, OneScanner DEF Typed

\* The warm and the cold path keep the invariant.
LEMMA TableStepInv ==
  ASSUME Inv, NEW s \in Scanners, TableStep(s), UNCHANGED TheWalk
  PROVE  Inv'
<1>1. Typed /\ Sound(s)
  BY DEF Inv
<1>2. /\ setup' = setup /\ tree' = tree /\ done' = done /\ quiet' = quiet
      /\ lanes' = lanes /\ cancelled' = cancelled
      /\ at[s] # "walk" /\ at' \in [Scanners -> Steps]
      /\ list' = [t \in Scanners |-> list'[t]]
      /\ \A t \in Scanners : t # s => at'[t] = at[t] /\ list'[t] = list[t]
      /\ list'[s] = list[s] \/ list'[s].how # "walk"
  BY <1>1, TableStepFacts DEF TheWalk
<1>3. lanes[s] = NewLanes /\ ~cancelled[s]
  BY <1>1, <1>2 DEF Sound
<1>4. Roots' = Roots /\ NewLanes' = NewLanes
  BY <1>2 DEF Roots, NewLanes, NewLane
<1>5. \A i \in Roots : Orderly(s, i)' /\ Walked(s, i)'
  BY <1>1, <1>2, <1>3, FreshWalk, WalkStays
<1>6. (Ended(s) /\ quiet[s] /\ list[s].how = "walk" => Exact(list[s]))'
  <2>1. CASE list'[s] = list[s]
    BY <1>1, <1>2, <2>1, OutcomeStays DEF Sound
  <2>2. CASE list'[s].how # "walk"
    BY <2>2
  <2> QED BY <1>2, <2>1, <2>2
<1>7. Sound(s)'
  BY <1>2, <1>3, <1>4, <1>5, <1>6 DEF Sound
<1>8. /\ lanes' \in [Scanners -> [Roots -> LaneType]] /\ cancelled' \in [Scanners -> BOOLEAN]
      /\ quiet' \in [Scanners -> BOOLEAN]
  BY <1>1, <1>2 DEF Typed
<1> QED BY <1>2, <1>7, <1>8, OneScanner

\* One step of one lane, for the steps that do not end the walk.
LEMMA LaneStepInv ==
  ASSUME Inv, NEW s \in Scanners, NEW i \in Roots,
         OpenRoot(s, i) \/ Announce(s, i) \/ Harvest(s, i) \/ NextLayer(s, i)
  PROVE  Inv'
<1>1. Typed /\ Sound(s)
  BY DEF Inv
<1>2. /\ UNCHANGED OtherThanLanes /\ at[s] = "walk"
  BY DEF OpenRoot, MayOpen, Announce, Harvest, NextLayer
<1>3. \A k \in Roots : Orderly(s, k)
  BY <1>1 DEF Sound
<1>4. /\ \E L \in LaneType : SetLane(s, i, L)
      /\ \A j \in Roots' : Orderly(s, j)'
      /\ (\A k \in Roots : Walked(s, k)) => \A j \in Roots' : Walked(s, j)'
  BY <1>1, <1>3, OpenRootWalks, AnnounceWalks, HarvestWalks, NextLayerWalks
<1>5. /\ setup' = setup /\ tree' = tree /\ done' = done /\ quiet' = quiet /\ at' = at /\ list' = list
      /\ cancelled' = cancelled
  BY <1>2 DEF OtherThanLanes, volume
<1>6. /\ lanes' \in [Scanners -> [Roots -> LaneType]]
      /\ \A t \in Scanners : t # s => lanes'[t] = lanes[t]
  BY <1>1, <1>4, LaneSet
<1>7. (Ended(s) /\ quiet[s] /\ list[s].how = "walk" => Exact(list[s]))'
  BY <1>1, <1>5, OutcomeStays DEF Sound
<1>8. Sound(s)'
  BY <1>1, <1>2, <1>4, <1>5, <1>7 DEF Sound
<1>9. /\ at' \in [Scanners -> Steps] /\ cancelled' \in [Scanners -> BOOLEAN]
      /\ quiet' \in [Scanners -> BOOLEAN] /\ list' = [t \in Scanners |-> list'[t]]
  BY <1>1, <1>5 DEF Typed
<1> QED BY <1>5, <1>6, <1>8, <1>9, OneScanner

\* A walk that ends has an exact list.
LEMMA FinishWalkInv ==
  ASSUME Inv, NEW s \in Scanners, FinishWalk(s)
  PROVE  Inv'
<1> DEFINE outcome == IF \E i \in Roots : lanes[s][i].state = "failed" THEN Failed
                      ELSE Listed(dedup_by_path(s), "walk", ~cancelled[s])
<1>1. Typed /\ Sound(s)
  BY DEF Inv
<1>2. /\ at[s] = "walk" /\ Settled(s)
      /\ at' = [at EXCEPT ![s] = "idle"] /\ list' = [list EXCEPT ![s] = outcome]
      /\ lanes' = [lanes EXCEPT ![s] = NewLanes] /\ cancelled' = [cancelled EXCEPT ![s] = FALSE]
      /\ setup' = setup /\ tree' = tree /\ done' = done /\ quiet' = quiet
  BY DEF FinishWalk, End, volume
<1> HIDE DEF outcome
<1>3. NewLanes \in [Roots -> LaneType]
  BY DEF NewLanes, NewLane, LaneType
<1>4. /\ at' \in [Scanners -> Steps] /\ at'[s] = "idle"
      /\ list' = [t \in Scanners |-> list'[t]] /\ list'[s] = outcome
      /\ lanes' \in [Scanners -> [Roots -> LaneType]] /\ lanes'[s] = NewLanes
      /\ cancelled' \in [Scanners -> BOOLEAN] /\ ~cancelled'[s]
      /\ quiet' \in [Scanners -> BOOLEAN]
      /\ \A t \in Scanners : t # s =>
           /\ lanes'[t] = lanes[t] /\ at'[t] = at[t] /\ cancelled'[t] = cancelled[t]
           /\ quiet'[t] = quiet[t] /\ list'[t] = list[t]
  BY <1>1, <1>2, <1>3 DEF Typed, Steps
<1>5. Roots' = Roots /\ NewLanes' = NewLanes /\ NewLane' = NewLane
  BY <1>2 DEF Roots, NewLanes, NewLane
<1>6. \A i \in Roots : Orderly(s, i)'
  <2>1. \A i \in Roots : lanes'[s][i] = NewLane
    BY <1>4 DEF NewLanes
  <2>2. /\ NewLane.state = "waiting" /\ NewLane.layer = {} /\ NewLane.announced = {} /\ NewLane.next = {}
        /\ NewLane.cut = FALSE
    BY DEF NewLane
  <2> QED BY <1>5, <2>1, <2>2 DEF Orderly
<1>7. ASSUME Ended(s)', quiet'[s] PROVE Exact(list[s])'
  <2>1. outcome = Listed(dedup_by_path(s), "walk", ~cancelled[s]) /\ ~ \E i \in Roots : lanes[s][i].state = "failed"
    BY <1>4, <1>7 DEF Ended, outcome
  <2>2. AllDone(s)
    BY <1>2, <2>1 DEF Settled, AllDone
  <2>3. \A k \in Roots : Orderly(s, k) /\ Walked(s, k)
    BY <1>1, <1>2, <1>7 DEF Sound
  <2>4. Exact(outcome)
    BY <1>1, <2>1, <2>2, <2>3, WalkIsExact
  <2> QED BY <1>2, <1>4, <2>4, ExactStays
<1>8. Sound(s)'
  BY <1>4, <1>5, <1>6, <1>7 DEF Sound
<1> QED BY <1>2, <1>4, <1>8, OneScanner

\* A process that is killed takes its scanner's work with it.
LEMMA KillInv ==
  ASSUME Inv, NEW s \in Scanners, Kill(s),
         lanes' = [lanes EXCEPT ![s] = NewLanes], cancelled' = [cancelled EXCEPT ![s] = FALSE]
  PROVE  Inv'
<1>1. Typed /\ Sound(s)
  BY DEF Inv
<1>2. /\ at' = [at EXCEPT ![s] = "idle"] /\ list' = [list EXCEPT ![s] = None]
      /\ setup' = setup /\ tree' = tree /\ done' = done /\ quiet' = quiet
  BY DEF Kill, End, volume
<1>3. NewLanes \in [Roots -> LaneType]
  BY DEF NewLanes, NewLane, LaneType
<1>4. /\ at' \in [Scanners -> Steps] /\ at'[s] = "idle"
      /\ list' = [t \in Scanners |-> list'[t]] /\ list'[s] = None
      /\ lanes' \in [Scanners -> [Roots -> LaneType]] /\ lanes'[s] = NewLanes
      /\ cancelled' \in [Scanners -> BOOLEAN] /\ ~cancelled'[s]
      /\ quiet' \in [Scanners -> BOOLEAN]
      /\ \A t \in Scanners : t # s =>
           /\ lanes'[t] = lanes[t] /\ at'[t] = at[t] /\ cancelled'[t] = cancelled[t]
           /\ quiet'[t] = quiet[t] /\ list'[t] = list[t]
  BY <1>1, <1>2, <1>3 DEF Typed, Steps
<1>5. Roots' = Roots /\ NewLanes' = NewLanes /\ NewLane' = NewLane
  BY <1>2 DEF Roots, NewLanes, NewLane
<1>6. \A i \in Roots : Orderly(s, i)'
  <2>1. \A i \in Roots : lanes'[s][i] = NewLane
    BY <1>4 DEF NewLanes
  <2>2. /\ NewLane.state = "waiting" /\ NewLane.layer = {} /\ NewLane.announced = {} /\ NewLane.next = {}
        /\ NewLane.cut = FALSE
    BY DEF NewLane
  <2> QED BY <1>5, <2>1, <2>2 DEF Orderly
<1>7. Sound(s)'
  BY <1>4, <1>5, <1>6 DEF Sound, Ended
<1> QED BY <1>2, <1>4, <1>7, OneScanner

\* A walk that is told to stop promises nothing any more.
LEMMA CancelInv ==
  ASSUME Inv, NEW s \in Scanners, Cancel(s)
  PROVE  Inv'
<1>1. Typed /\ Sound(s)
  BY DEF Inv
<1>2. /\ setup' = setup /\ tree' = tree /\ done' = done /\ quiet' = quiet /\ at' = at /\ list' = list
      /\ lanes' = lanes /\ at[s] = "walk" /\ cancelled' = [cancelled EXCEPT ![s] = TRUE]
  BY DEF Cancel, warmVars, volume
<1>3. /\ cancelled' \in [Scanners -> BOOLEAN] /\ cancelled'[s]
      /\ \A t \in Scanners : t # s => cancelled'[t] = cancelled[t]
  BY <1>1, <1>2 DEF Typed
<1>4. Roots' = Roots /\ \A i \in Roots : Orderly(s, i)' /\ (Walked(s, i) => Walked(s, i)')
  BY <1>1, <1>2, <1>3, WalkStays DEF Sound
<1>5. (Ended(s) /\ quiet[s] /\ list[s].how = "walk" => Exact(list[s]))'
  BY <1>1, <1>2, OutcomeStays DEF Sound
<1>6. Sound(s)'
  BY <1>1, <1>2, <1>4, <1>5 DEF Sound
<1>7. /\ lanes' \in [Scanners -> [Roots -> LaneType]] /\ at' \in [Scanners -> Steps]
      /\ quiet' \in [Scanners -> BOOLEAN] /\ list' = [t \in Scanners |-> list'[t]]
  BY <1>1, <1>2 DEF Typed
<1> QED BY <1>2, <1>3, <1>6, <1>7, OneScanner

\* Every step keeps the invariant.
LEMMA InvNext == Inv /\ [Next]_vars => Inv'
<1> SUFFICES ASSUME Inv, [Next]_vars PROVE Inv'
  OBVIOUS
<1>1. CASE Change /\ UNCHANGED <<setup, snapshot, at, job, list, runs, kills, TheWalk>>
  BY <1>1, ChangeInv
<1>2. ASSUME NEW s \in Scanners, Begin(s), UNCHANGED TheWalk PROVE Inv'
  BY <1>2, BeginInv
<1>3. ASSUME NEW s \in Scanners, TableStep(s), UNCHANGED TheWalk PROVE Inv'
  BY <1>3, TableStepInv
<1>4. ASSUME NEW s \in Scanners, WalkStep(s) PROVE Inv'
  BY <1>4, LaneStepInv, FinishWalkInv DEF WalkStep
<1>5. ASSUME NEW s \in Scanners, Cancel(s) PROVE Inv'
  BY <1>5, CancelInv
<1>6. ASSUME NEW s \in Scanners, Kill(s), lanes' = [lanes EXCEPT ![s] = NewLanes],
             cancelled' = [cancelled EXCEPT ![s] = FALSE]
      PROVE  Inv'
  BY <1>6, KillInv
<1>7. CASE UNCHANGED vars
  <2>1. /\ tree' = tree /\ done' = done /\ setup' = setup /\ lanes' = lanes /\ at' = at
        /\ cancelled' = cancelled /\ quiet' = quiet /\ list' = list
    BY <1>7 DEF vars, warmVars, volume
  <2>2. Typed'
    BY <2>1 DEF Inv, Typed, TreeOK, LinksKnown, WellFormed, Roots, LaneType, FileRecord
  <2>3. \A s \in Scanners : Sound(s)'
    BY <2>1, OtherScanner DEF Inv
  <2> QED BY <2>2, <2>3 DEF Inv
<1> QED BY <1>1, <1>2, <1>3, <1>4, <1>5, <1>6, <1>7 DEF Next

\* The lanes of every walk are as described, and a walk's list is exact if nothing has
\* changed since it began.
THEOREM InvHolds == Spec => []Inv
<1>1. Init => Inv
  BY InvInit
<1>2. Inv /\ [Next]_vars => Inv'
  BY InvNext
<1> QED BY <1>1, <1>2, PTL DEF Spec

\* The volume is a tree whatever other programs do.
THEOREM VolumeIsATree == Spec => []WellFormed(tree)
<1>1. Inv => WellFormed(tree)
  BY DEF Inv, Typed, TreeOK
<1> QED BY <1>1, InvHolds, PTL

-----------------------------------------------------------------------------
(* The paths the file table's records give.                                  *)

\* The records of the whole table, and of its first references.
TableTo(n) == [x \in {y \in DOMAIN tree : y <= n} |-> Row(RecordOf(x, tree[x], FALSE), 0)]
Table == [x \in DOMAIN tree |-> Row(RecordOf(x, tree[x], FALSE), 0)]

\* The path the whole table gives an entry.
PathOf(x) == reconstruct_path(Table, x)

\* The paths of the directories found so far, one name further.
Named(x) == <<tree[x].name>>
Longer(p) == [y \in DOMAIN tree |->
                IF tree[y].parent \notin DOMAIN tree THEN Named(y) ELSE Append(p[tree[y].parent], tree[y].name)]

\* The rounds the paths are found in.
Rounds(paths) ==
  /\ paths \in [0..Cardinality(Refs) -> [DOMAIN tree -> Seq(STRING)]]
  /\ paths[0] = [y \in DOMAIN tree |-> Named(y)]
  /\ \A n \in 1..Cardinality(Refs) : paths[n] = Longer(paths[n - 1])

\* A record says what the entry is.
LEMMA TableRow ==
  \A x \in DOMAIN tree : /\ Table[x].parent = tree[x].parent /\ Table[x].name = tree[x].name
                         /\ Table[x].dir = (tree[x].kind = "dir")
BY DEF Table, Row, RecordOf

\* Paths one name further are paths.
LEMMA LongerTyped ==
  ASSUME WellFormed(tree), NEW p \in [DOMAIN tree -> Seq(STRING)]
  PROVE  Longer(p) \in [DOMAIN tree -> Seq(STRING)]
<1>1. ASSUME NEW y \in DOMAIN tree PROVE Longer(p)[y] \in Seq(STRING)
  <2>1. tree[y].name \in STRING /\ Named(y) \in Seq(STRING)
    BY DEF WellFormed, Entry, Named
  <2>2. tree[y].parent \in DOMAIN tree => Append(p[tree[y].parent], tree[y].name) \in Seq(STRING)
    BY <2>1
  <2> QED BY <2>1, <2>2 DEF Longer
<1> QED BY <1>1 DEF Longer

\* The rounds reconstruct_path goes through with any map of records.
MapRounds(map, paths) ==
  /\ paths \in [0..Cardinality(Refs) -> [DOMAIN map -> Seq(STRING)]]
  /\ \A y \in DOMAIN map : paths[0][y] = <<map[y].name>>
  /\ \A n \in 1..Cardinality(Refs) : \A y \in DOMAIN map :
       /\ map[y].parent \notin DOMAIN map => paths[n][y] = <<map[y].name>>
       /\ map[y].parent \in DOMAIN map => paths[n][y] = Append(paths[n - 1][map[y].parent], map[y].name)

\* The paths a map gives are found in rounds.
LEMMA MapPaths ==
  ASSUME NEW map, \A y \in DOMAIN map : map[y].name \in STRING
  PROVE  \E paths : /\ MapRounds(map, paths)
                    /\ \A x \in DOMAIN map : reconstruct_path(map, x) = paths[Cardinality(Refs)][x]
<1> DEFINE N == Cardinality(Refs)
           S == [DOMAIN map -> Seq(STRING)]
           a == [y \in DOMAIN map |-> <<map[y].name>>]
           G(p) == [y \in DOMAIN map |->
                      IF map[y].parent \notin DOMAIN map THEN <<map[y].name>>
                      ELSE Append(p[map[y].parent], map[y].name)]
           h == [n \in 1..N |-> [p \in S |-> G(p)]]
           Is(path) == path = [n \in 0..N |->
                         [y \in DOMAIN map |->
                            IF n = 0 \/ map[y].parent \notin DOMAIN map THEN <<map[y].name>>
                            ELSE Append(path[n - 1][map[y].parent], map[y].name)]]
<1>1. N \in Nat
  BY RefsCount
<1>2. a \in S
  OBVIOUS
<1>3. \A p \in S : G(p) \in S
  <2>1. ASSUME NEW p \in S, NEW y \in DOMAIN map PROVE G(p)[y] \in Seq(STRING)
    <3>1. map[y].parent \in DOMAIN map => Append(p[map[y].parent], map[y].name) \in Seq(STRING)
      BY AppendProperties
    <3>2. <<map[y].name>> \in Seq(STRING)
      OBVIOUS
    <3> QED BY <3>1, <3>2
  <2> QED BY <2>1
<1>4. h \in [1..N -> [S -> S]] /\ \A p \in S, n \in 1..N : h[n][p] = G(p)
  <2> HIDE DEF S, G
  <2> QED BY <1>3
<1>5. PICK f \in [0..N -> S] : f[0] = a /\ \A n \in 1..N : f[n] = h[n][f[n - 1]]
  <2>1. h \in [1..N -> [S -> S]]
    BY <1>4
  <2> HIDE DEF N, S, a, h, Is, G
  <2> QED BY <1>1, <1>2, <2>1, RecursionExists
<1> HIDE DEF h
<1>6. \A n \in 1..N : f[n] = G(f[n - 1])
  <2> SUFFICES ASSUME NEW n \in 1..N PROVE f[n] = G(f[n - 1])
    OBVIOUS
  <2>1. n - 1 \in 0..N
    BY <1>1
  <2>2. f[n - 1] \in S
    <3> HIDE DEF S, N
    <3> QED BY <2>1, <1>5
  <2> HIDE DEF S, G
  <2> QED BY <2>2, <1>4, <1>5
<1>7. Is(f)
  <2>1. ASSUME NEW n \in 0..N
        PROVE  f[n] = [y \in DOMAIN map |->
                         IF n = 0 \/ map[y].parent \notin DOMAIN map THEN <<map[y].name>>
                         ELSE Append(f[n - 1][map[y].parent], map[y].name)]
    <3>1. CASE n = 0
      BY <1>5, <3>1
    <3>2. CASE n # 0
      <4>1. n \in 1..N
        BY <1>1, <3>2
      <4>2. f[n] = G(f[n - 1])
        BY <1>6, <4>1
      <4> QED BY <3>2, <4>2
    <3> QED BY <3>1, <3>2
  <2> QED BY <1>5, <2>1
<1> DEFINE paths == CHOOSE g : Is(g)
<1>8. Is(paths)
  <2> HIDE DEF Is
  <2> QED BY <1>7
<1>9. \A x : reconstruct_path(map, x) = paths[N][x]
  BY DEF reconstruct_path
<1> HIDE DEF paths
<1>10. paths[0] = a
  BY <1>1, <1>8
<1>11. ASSUME NEW n \in 1..N PROVE paths[n] = G(paths[n - 1])
  <2>1. n \in 0..N /\ n # 0
    BY <1>1
  <2>2. paths[n] = [y \in DOMAIN map |->
                         IF n = 0 \/ map[y].parent \notin DOMAIN map THEN <<map[y].name>>
                         ELSE Append(paths[n - 1][map[y].parent], map[y].name)]
    BY <1>8, <2>1
  <2> QED BY <2>1, <2>2
<1>12. \A n \in Nat : n <= N => paths[n] \in S
  <2> DEFINE T == {n \in Nat : n <= N => paths[n] \in S}
  <2>1. 0 \in T
    BY <1>2, <1>10
  <2>2. ASSUME NEW n \in Nat, n \in T PROVE n + 1 \in T
    <3> SUFFICES ASSUME n + 1 <= N PROVE paths[n + 1] \in S
      OBVIOUS
    <3>1. n + 1 \in 1..N /\ (n + 1) - 1 = n /\ paths[n] \in S
      BY <1>1, <2>2
    <3>2. paths[n + 1] = G(paths[n])
      BY <1>11, <3>1
    <3> HIDE DEF S, G
    <3> QED BY <1>3, <3>1, <3>2
  <2> HIDE DEF T
  <2>3. \A n \in Nat : n \in T
    BY <2>1, <2>2, Induction
  <2> QED BY <2>3 DEF T
<1>13. paths \in [0..N -> S]
  <2>1. DOMAIN paths = 0..N /\ paths = [n \in 0..N |-> paths[n]]
    BY <1>8
  <2>2. \A n \in 0..N : paths[n] \in S
    BY <1>1, <1>12
  <2> HIDE DEF S
  <2> QED BY <2>1, <2>2
<1>14. MapRounds(map, paths)
  <2>1. \A n \in 1..N, y \in DOMAIN map : paths[n][y] = G(paths[n - 1])[y]
    BY <1>11
  <2> QED BY <1>10, <1>13, <2>1 DEF MapRounds
<1> QED BY <1>9, <1>14

\* The paths of the table's records are found in rounds.
LEMMA PathRounds ==
  ASSUME WellFormed(tree)
  PROVE  \E paths : Rounds(paths) /\ \A x \in DOMAIN tree : PathOf(x) = paths[Cardinality(Refs)][x]
<1> DEFINE N == Cardinality(Refs)
<1>1. /\ DOMAIN Table = DOMAIN tree
      /\ \A y \in DOMAIN tree : /\ Table[y].parent = tree[y].parent /\ Table[y].name = tree[y].name
                                /\ tree[y].name \in STRING
  BY TableRow DEF Table, WellFormed, Entry
<1>2. PICK paths : MapRounds(Table, paths) /\ \A x \in DOMAIN tree : reconstruct_path(Table, x) = paths[N][x]
  BY <1>1, MapPaths
<1>3. N \in Nat
  BY RefsCount
<1>4. paths \in [0..N -> [DOMAIN tree -> Seq(STRING)]]
  BY <1>1, <1>2 DEF MapRounds
<1>5. paths[0] = [y \in DOMAIN tree |-> Named(y)]
  <2>1. paths[0] \in [DOMAIN tree -> Seq(STRING)]
    BY <1>3, <1>4
  <2>2. \A y \in DOMAIN tree : paths[0][y] = Named(y)
    BY <1>1, <1>2 DEF MapRounds, Named
  <2> QED BY <2>1, <2>2
<1>6. ASSUME NEW n \in 1..N PROVE paths[n] = Longer(paths[n - 1])
  <2>1. paths[n] \in [DOMAIN tree -> Seq(STRING)]
    BY <1>3, <1>4
  <2>2. \A y \in DOMAIN tree :
          paths[n][y] = IF tree[y].parent \notin DOMAIN tree THEN Named(y)
                        ELSE Append(paths[n - 1][tree[y].parent], tree[y].name)
    <3>1. ASSUME NEW y \in DOMAIN Table
          PROVE  /\ Table[y].parent \notin DOMAIN Table => paths[n][y] = <<Table[y].name>>
                 /\ Table[y].parent \in DOMAIN Table =>
                      paths[n][y] = Append(paths[n - 1][Table[y].parent], Table[y].name)
      BY <1>2 DEF MapRounds
    <3> QED BY <1>1, <3>1 DEF Named
  <2> QED BY <2>1, <2>2 DEF Longer
<1> QED BY <1>2, <1>4, <1>5, <1>6 DEF Rounds, PathOf

\* The entries whose path no round after the n-th changes.
Deep(paths, n) == {y \in DOMAIN tree : \A m \in n..Cardinality(Refs) : paths[m][y] = paths[n][y]}

\* An entry whose directory has its path for good has it a round later.
LEMMA DeepGrows ==
  ASSUME WellFormed(tree), NEW paths, Rounds(paths), NEW n \in 0..Cardinality(Refs)
  PROVE  /\ \A y \in DOMAIN tree : tree[y].parent \notin DOMAIN tree => y \in Deep(paths, n)
         /\ n + 1 <= Cardinality(Refs) =>
              /\ Deep(paths, n) \subseteq Deep(paths, n + 1)
              /\ \A y \in DOMAIN tree : tree[y].parent \in Deep(paths, n) => y \in Deep(paths, n + 1)
<1> DEFINE N == Cardinality(Refs)
<1>1. N \in Nat
  BY RefsCount
<1>2. /\ \A y \in DOMAIN tree : paths[0][y] = Named(y)
      /\ \A m \in 1..N : \A y \in DOMAIN tree :
           /\ tree[y].parent \notin DOMAIN tree => paths[m][y] = Named(y)
           /\ tree[y].parent \in DOMAIN tree => paths[m][y] = Append(paths[m - 1][tree[y].parent], tree[y].name)
  <2>1. \A y \in DOMAIN tree : paths[0][y] = Named(y)
    BY DEF Rounds
  <2>2. ASSUME NEW m \in 1..N, NEW y \in DOMAIN tree
        PROVE  /\ tree[y].parent \notin DOMAIN tree => paths[m][y] = Named(y)
               /\ tree[y].parent \in DOMAIN tree => paths[m][y] = Append(paths[m - 1][tree[y].parent], tree[y].name)
    <3>1. paths[m] = Longer(paths[m - 1])
      BY DEF Rounds
    <3>2. paths[m][y] = Longer(paths[m - 1])[y]
      BY <3>1
    <3>3. Longer(paths[m - 1])[y] = IF tree[y].parent \notin DOMAIN tree THEN Named(y)
                                    ELSE Append(paths[m - 1][tree[y].parent], tree[y].name)
      BY DEF Longer
    <3> QED BY <3>2, <3>3
  <2> QED BY <2>1, <2>2
<1>3. ASSUME NEW y \in DOMAIN tree, tree[y].parent \notin DOMAIN tree PROVE y \in Deep(paths, n)
  <2>1. \A m \in 0..N : paths[m][y] = Named(y)
    BY <1>1, <1>2, <1>3
  <2>2. \A m \in n..N : m \in 0..N
    BY <1>1
  <2>3. n \in 0..N
    OBVIOUS
  <2> QED BY <2>1, <2>2, <2>3 DEF Deep
<1>4. ASSUME n + 1 <= N, NEW y \in Deep(paths, n) PROVE y \in Deep(paths, n + 1)
  <2>1. n + 1 \in n..N /\ \A m \in (n + 1)..N : m \in n..N
    BY <1>1, <1>4
  <2> QED BY <1>4, <2>1 DEF Deep
<1>5. ASSUME n + 1 <= N, NEW y \in DOMAIN tree, tree[y].parent \in Deep(paths, n) PROVE y \in Deep(paths, n + 1)
  <2> DEFINE p == tree[y].parent
  <2>1. p \in DOMAIN tree /\ \A m \in n..N : paths[m][p] = paths[n][p]
    BY <1>5 DEF Deep
  <2>2. ASSUME NEW m \in (n + 1)..N PROVE paths[m][y] = Append(paths[n][p], tree[y].name)
    <3>1. m \in 1..N /\ m - 1 \in n..N
      BY <1>1, <1>5
    <3>2. paths[m][y] = Append(paths[m - 1][p], tree[y].name)
      BY <1>2, <2>1, <3>1
    <3> QED BY <2>1, <3>1, <3>2
  <2>3. n + 1 \in (n + 1)..N
    BY <1>1, <1>5
  <2> HIDE DEF p
  <2> QED BY <2>2, <2>3 DEF Deep
<1> QED BY <1>3, <1>4, <1>5

\* With every round at least one more entry has its path for good, so there are rounds
\* enough: the last changes nothing.
LEMMA PathsSettle ==
  ASSUME WellFormed(tree), NEW paths, Rounds(paths), NEW x \in DOMAIN tree
  PROVE  /\ Cardinality(Refs) \in 1..Cardinality(Refs)
         /\ \A y \in DOMAIN tree : paths[Cardinality(Refs)][y] = paths[Cardinality(Refs) - 1][y]
<1> DEFINE N == Cardinality(Refs)
<1>1. N \in Nat /\ DOMAIN tree \in SUBSET Refs /\ IsFiniteSet(Refs)
  BY RefsCount, RefsAssumption DEF WellFormed
<1> DEFINE T == {n \in Nat : n <= N => \/ Deep(paths, n) = DOMAIN tree
                                       \/ Cardinality(Deep(paths, n)) >= n + 1}
<1>3. \A n : Deep(paths, n) \in SUBSET Refs /\ IsFiniteSet(Deep(paths, n))
  <2>1. \A n : Deep(paths, n) \in SUBSET Refs
    BY <1>1 DEF Deep
  <2> QED BY <1>1, <2>1, FS_Subset
<1>4. 0 \in T
  <2>1. SUFFICES ASSUME Deep(paths, 0) # DOMAIN tree PROVE Cardinality(Deep(paths, 0)) >= 1
    OBVIOUS
  <2>2. DOMAIN tree # {}
    BY <2>1 DEF Deep
  <2>3. PICK y \in DOMAIN tree : tree[y].parent \notin DOMAIN tree
    BY <2>2 DEF WellFormed
  <2>4. y \in Deep(paths, 0)
    BY <1>1, <2>3, DeepGrows
  <2>5. Cardinality(Deep(paths, 0)) \in Nat /\ Cardinality(Deep(paths, 0)) # 0
    BY <1>3, <2>4, FS_CardinalityType, FS_EmptySet
  <2> QED BY <2>5
<1>5. ASSUME NEW n \in Nat, n \in T PROVE n + 1 \in T
  <2> SUFFICES ASSUME n + 1 <= N, Deep(paths, n + 1) # DOMAIN tree
               PROVE  Cardinality(Deep(paths, n + 1)) >= (n + 1) + 1
    OBVIOUS
  <2>1. n \in 0..N /\ n <= N
    BY <1>1
  <2>2. /\ Deep(paths, n) \subseteq Deep(paths, n + 1)
        /\ \A y \in DOMAIN tree : tree[y].parent \in Deep(paths, n) => y \in Deep(paths, n + 1)
        /\ \A y \in DOMAIN tree : tree[y].parent \notin DOMAIN tree => y \in Deep(paths, n)
    BY <2>1, DeepGrows
  <2>3. Deep(paths, n) \subseteq DOMAIN tree /\ Deep(paths, n + 1) \subseteq DOMAIN tree
    BY DEF Deep
  <2>4. Deep(paths, n) # DOMAIN tree
    BY <2>2, <2>3
  <2>5. Cardinality(Deep(paths, n)) >= n + 1
    BY <1>5, <2>1, <2>4
  <2>6. PICK y \in DOMAIN tree \ Deep(paths, n) : tree[y].parent \notin DOMAIN tree \ Deep(paths, n)
    BY <2>3, <2>4 DEF WellFormed
  <2>7. y \in Deep(paths, n + 1)
    BY <2>2, <2>6
  <2> DEFINE A == Deep(paths, n)
             B == Deep(paths, n + 1)
  <2>8. A \cup {y} \subseteq B /\ y \notin A /\ IsFiniteSet(A) /\ IsFiniteSet(B) /\ Cardinality(A) >= n + 1
    BY <1>3, <2>2, <2>5, <2>6, <2>7
  <2> HIDE DEF A, B
  <2>9. Cardinality(A) \in Nat /\ Cardinality(A \cup {y}) = Cardinality(A) + 1
    BY <2>8, FS_CardinalityType, FS_AddElement
  <2>10. Cardinality(A \cup {y}) <= Cardinality(B) /\ Cardinality(B) \in Nat
    BY <2>8, FS_Subset, FS_CardinalityType
  <2>11. Cardinality(B) >= (n + 1) + 1
    BY <2>8, <2>9, <2>10
  <2> QED BY <2>11 DEF B
<1> HIDE DEF T
<1>6. \A n \in Nat : n \in T
  BY <1>4, <1>5, Induction
<1>8. N # 0
  BY <1>1, FS_EmptySet
<1>9. N \in 1..N /\ N - 1 \in Nat /\ N - 1 \in 0..N /\ N - 1 <= N /\ N \in (N - 1)..N
  BY <1>1, <1>8
<1>10. Deep(paths, N - 1) = DOMAIN tree
  <2> DEFINE A == Deep(paths, N - 1)
  <2>1. SUFFICES ASSUME A # DOMAIN tree PROVE FALSE
    OBVIOUS
  <2>2. Cardinality(A) >= (N - 1) + 1
    BY <1>6, <1>9, <2>1 DEF T
  <2>3. Cardinality(A) <= N /\ (Cardinality(A) = N => A = Refs) /\ Cardinality(A) \in Nat
    BY <1>1, <1>3, FS_Subset, FS_CardinalityType
  <2>4. A = Refs
    <3> HIDE DEF A, N
    <3> QED BY <1>1, <2>2, <2>3
  <2> QED BY <1>1, <2>1, <2>4 DEF Deep
<1>11. \A y \in DOMAIN tree : paths[N][y] = paths[N - 1][y]
  BY <1>9, <1>10 DEF Deep
<1> QED BY <1>9, <1>11

\* The records' paths are the directories' paths and a name.
LEMMA PathsOfRecords ==
  ASSUME WellFormed(tree)
  PROVE  \A x \in DOMAIN tree :
           /\ PathOf(x) \in Seq(STRING)
           /\ tree[x].parent \notin DOMAIN tree => PathOf(x) = Named(x)
           /\ tree[x].parent \in DOMAIN tree => PathOf(x) = Append(PathOf(tree[x].parent), tree[x].name)
<1> DEFINE N == Cardinality(Refs)
<1>1. N \in Nat /\ DOMAIN tree \in SUBSET Refs /\ IsFiniteSet(Refs)
  BY RefsCount, RefsAssumption DEF WellFormed
<1>2. PICK paths : Rounds(paths) /\ \A x \in DOMAIN tree : PathOf(x) = paths[N][x]
  BY PathRounds
<1>7. SUFFICES ASSUME NEW x \in DOMAIN tree
      PROVE  /\ PathOf(x) \in Seq(STRING)
             /\ tree[x].parent \notin DOMAIN tree => PathOf(x) = Named(x)
             /\ tree[x].parent \in DOMAIN tree => PathOf(x) = Append(PathOf(tree[x].parent), tree[x].name)
  OBVIOUS
<1>8. N \in 1..N /\ \A y \in DOMAIN tree : paths[N][y] = paths[N - 1][y]
  BY <1>2, PathsSettle
<1>12. paths[N] = Longer(paths[N - 1])
  BY <1>2, <1>8 DEF Rounds
<1>13. paths[N] \in [DOMAIN tree -> Seq(STRING)]
  <2>1. N \in 0..N /\ paths \in [0..N -> [DOMAIN tree -> Seq(STRING)]]
    BY <1>1, <1>2 DEF Rounds
  <2> HIDE DEF N
  <2> QED BY <2>1
<1>14. PathOf(x) \in Seq(STRING)
  BY <1>2, <1>13
<1>15. tree[x].parent \notin DOMAIN tree => PathOf(x) = Named(x)
  BY <1>2, <1>12 DEF Longer
<1>16. tree[x].parent \in DOMAIN tree => PathOf(x) = Append(PathOf(tree[x].parent), tree[x].name)
  <2> SUFFICES ASSUME tree[x].parent \in DOMAIN tree
               PROVE  PathOf(x) = Append(PathOf(tree[x].parent), tree[x].name)
    OBVIOUS
  <2>1. PathOf(x) = paths[N][x] /\ PathOf(tree[x].parent) = paths[N][tree[x].parent]
    BY <1>2
  <2>2. paths[N][tree[x].parent] = paths[N - 1][tree[x].parent]
    BY <1>8
  <2>3. Longer(paths[N - 1])[x] = Append(paths[N - 1][tree[x].parent], tree[x].name)
    BY DEF Longer
  <2>4. paths[N][x] = Longer(paths[N - 1])[x]
    BY <1>12
  <2> HIDE DEF N
  <2> QED BY <2>1, <2>2, <2>3, <2>4
<1> QED BY <1>14, <1>15, <1>16

\* What the file table gives back as it is: a volume without links, of which nothing is
\* the scanner's own and nothing is denied to it, and of which the roots are the whole.
OfTheTable ==
  /\ Roots # {} /\ \A i \in Roots : setup.roots[i] = <<>>
  /\ setup.denied = {}
  /\ \A x \in DOMAIN tree : tree[x].kind # "link" /\ tree[x].name \notin setup.ownNames

\* The path of a directory.
DirPath(d) == IF d = Top THEN <<>> ELSE PathOf(d)

\* An entry's path is its directory's and its name.
LEMMA RecordPath ==
  ASSUME WellFormed(tree), NEW x \in DOMAIN tree
  PROVE  /\ DirPath(tree[x].parent) \in Seq(STRING) /\ tree[x].name \in STRING
         /\ PathOf(x) = Append(DirPath(tree[x].parent), tree[x].name)
<1>1. tree[x].name \in STRING /\ (tree[x].parent = Top \/ tree[x].parent \in DOMAIN tree)
  BY DEF WellFormed, Entry
<1>2. Top \notin DOMAIN tree
  BY RefsAssumption DEF WellFormed
<1>3. CASE tree[x].parent = Top
  <2>1. PathOf(x) = <<tree[x].name>> /\ DirPath(tree[x].parent) = <<>>
    BY <1>2, <1>3, PathsOfRecords DEF Named, DirPath
  <2>2. <<tree[x].name>> = Append(<<>>, tree[x].name)
    OBVIOUS
  <2> QED BY <1>1, <2>1, <2>2
<1>4. CASE tree[x].parent # Top
  <2>1. tree[x].parent \in DOMAIN tree
    BY <1>1, <1>4
  <2>2. DirPath(tree[x].parent) = PathOf(tree[x].parent)
    BY <1>4 DEF DirPath
  <2> QED BY <1>1, <2>1, <2>2, PathsOfRecords
<1> QED BY <1>3, <1>4

\* Without links an entry's path leads to it.
LEMMA RecordPathsLead ==
  ASSUME TreeOK, \A x \in DOMAIN tree : tree[x].kind # "link"
  PROVE  \A x \in DOMAIN tree : Resolve(PathOf(x)) = x
<1> DEFINE S == {x \in DOMAIN tree : Resolve(PathOf(x)) # x}
<1>1. WellFormed(tree)
  BY DEF TreeOK
<1>2. ASSUME NEW x \in S PROVE tree[x].parent \in S
  <2>1. SUFFICES ASSUME tree[x].parent \notin S PROVE Resolve(PathOf(x)) = x
    OBVIOUS
  <2>2. /\ DirPath(tree[x].parent) \in Seq(STRING) /\ tree[x].name \in STRING
        /\ PathOf(x) = Append(DirPath(tree[x].parent), tree[x].name)
    BY <1>1, RecordPath
  <2>3. Resolve(DirPath(tree[x].parent)) = tree[x].parent
    <3>1. CASE tree[x].parent = Top
      BY <1>1, <3>1, ResolveEmpty DEF DirPath
    <3>2. CASE tree[x].parent # Top
      <4>1. tree[x].parent \in DOMAIN tree
        BY <1>1, <3>2 DEF WellFormed
      <4> QED BY <2>1, <3>2, <4>1 DEF DirPath
    <3> QED BY <3>1, <3>2
  <2>4. Target(x) = x /\ Step(tree[x].parent, tree[x].name) = Target(x)
    <3>1. Target(x) = x
      BY DEF Target
    <3> QED BY <1>1, <3>1, StepToChild
  <2> QED BY <1>1, <2>2, <2>3, <2>4, ResolveAppend
<1>3. S = {}
  BY <1>1, <1>2 DEF WellFormed
<1> QED BY <1>3

\* A way leads to every directory, under the path the table gives it.
LEMMA WaysToAll ==
  ASSUME TreeOK, OfTheTable
  PROVE  \A d \in DOMAIN tree \cup {Top} : IsDir(d) =>
           \E w \in Ways : w.dir = d /\ w.path = DirPath(d) /\ \A m \in w.met : Within(d, m)
<1> DEFINE Reached(d) == \E w \in Ways : w.dir = d /\ w.path = DirPath(d) /\ \A m \in w.met : Within(d, m)
           S == {x \in DOMAIN tree : IsDir(x) /\ ~Reached(x)}
<1>1. WellFormed(tree)
  BY DEF TreeOK
<1>2. Reached(Top)
  <2>1. PICK i \in Roots : setup.roots[i] = <<>>
    BY DEF OfTheTable
  <2>2. Resolve(<<>>) = Top /\ IsDir(Top)
    BY <1>1, ResolveEmpty DEF IsDir
  <2> DEFINE w == Way(<<>>, Top, {})
  <2>3. w \in Ways
    BY <2>1, <2>2, WaysStart
  <2>4. w.dir = Top /\ w.path = <<>> /\ w.met = {Top}
    BY DEF Way
  <2> QED BY <2>3, <2>4, WithinSelf DEF DirPath
<1>3. ASSUME NEW x \in S PROVE tree[x].parent \in S
  <2> DEFINE d == tree[x].parent
  <2>1. IsDir(d) /\ (d = Top \/ d \in DOMAIN tree)
    BY <1>1 DEF WellFormed, IsDir
  <2>2. SUFFICES ASSUME Reached(d) PROVE Reached(x)
    BY <1>2, <2>1
  <2>3. PICK w \in Ways : w.dir = d /\ w.path = DirPath(d) /\ \A m \in w.met : Within(d, m)
    BY <2>2
  <2>4. Target(x) = x /\ x \in Taken(d) /\ w.dir \notin setup.denied
    BY DEF OfTheTable, Target, Taken, ChildrenOf
  <2>5. x \notin w.met
    BY <1>1, <2>3, ChildIsBelow
  <2> DEFINE v == Way(Append(w.path, tree[x].name), Target(x), w.met)
  <2>6. v \in Ways
    BY <2>3, <2>4, <2>5, WaysOnward
  <2>7. v.dir = x /\ v.path = PathOf(x) /\ v.met = w.met \cup {x}
    BY <1>1, <2>3, <2>4, RecordPath DEF Way
  <2>8. \A m \in v.met : Within(x, m)
    BY <1>1, <2>3, <2>7, WithinChild, WithinSelf
  <2>9. PathOf(x) = DirPath(x)
    BY <1>1, RefsAssumption DEF DirPath, WellFormed
  <2> HIDE DEF v
  <2> QED BY <2>6, <2>7, <2>8, <2>9
<1>4. S = {}
  BY <1>1, <1>3 DEF WellFormed
<1> QED BY <1>2, <1>4

\* A file is a place under the path the table gives it.
LEMMA TablePlaces ==
  ASSUME TreeOK, OfTheTable, NEW x \in DOMAIN tree, IsFile(x)
  PROVE  [path |-> PathOf(x), ref |-> x] \in Places
<1> DEFINE d == tree[x].parent
<1>1. WellFormed(tree)
  BY DEF TreeOK
<1>2. IsDir(d) /\ d \in DOMAIN tree \cup {Top}
  BY <1>1 DEF WellFormed, IsDir
<1>3. PICK w \in Ways : w.dir = d /\ w.path = DirPath(d)
  BY <1>2, WaysToAll
<1>4. Target(x) = x /\ x \in Taken(d) /\ w.dir \notin setup.denied
  BY DEF OfTheTable, Target, Taken, ChildrenOf
<1>5. PathOf(x) = Append(w.path, tree[x].name)
  BY <1>1, <1>3, RecordPath
<1> QED BY <1>3, <1>4, <1>5, PlaceOfWay

\* The size a file is asked for is its own.
LEMMA TableSizes ==
  ASSUME TreeOK, OfTheTable, NEW x \in DOMAIN tree, IsFile(x)
  PROVE  SizeAt(PathOf(x)) = tree[x].size
<1>1. Resolve(PathOf(x)) = x
  BY RecordPathsLead DEF OfTheTable
<1>2. x # Missing
  BY RefsAssumption DEF TreeOK, WellFormed
<1> QED BY <1>1, <1>2 DEF SizeAt

\* The rows of a whole table with the sizes of its files are the volume's files.
LEMMA TableIsExact ==
  ASSUME TreeOK, OfTheTable, NEW sizes, DOMAIN sizes = FilesOf(Table),
         \A x \in DOMAIN sizes : sizes[x] = tree[x].size
  PROVE  Exact(Listed(entries_from_records(Table, sizes), "cold", TRUE))
<1> DEFINE l == Listed(entries_from_records(Table, sizes), "cold", TRUE)
           EntryOf(x) == [path |-> PathOf(x), ref |-> x, size |-> tree[x].size]
           Fits(x) == SizeFits(tree[x].size) /\ path_passes_globs(PathOf(x))
<1>1. FilesOf(Table) = {x \in DOMAIN tree : IsFile(x)}
  <2>1. ASSUME NEW x \in DOMAIN tree PROVE ~Table[x].dir <=> IsFile(x)
    <3>1. tree[x].kind \in {"dir", "file"}
      BY DEF TreeOK, WellFormed, Entry, OfTheTable
    <3> QED BY <3>1, TableRow DEF IsFile
  <2>2. DOMAIN Table = DOMAIN tree
    BY DEF Table
  <2> QED BY <2>1, <2>2 DEF FilesOf
<1>2. l.entries = {EntryOf(x) : x \in {y \in DOMAIN tree : IsFile(y) /\ Fits(y)}} /\ l.how = "cold" /\ l.whole
  BY <1>1 DEF entries_from_records, Listed, PathOf
<1> HIDE DEF l
<1>3. ASSUME NEW e \in l.entries
      PROVE  /\ e = EntryOf(e.ref) /\ e.ref \in DOMAIN tree /\ IsFile(e.ref) /\ Fits(e.ref)
             /\ Resolve(e.path) = e.ref /\ e.size = tree[e.ref].size /\ e.path = PathOf(e.ref)
             /\ Allowed("cold", e)
  <2>1. PICK x \in DOMAIN tree : IsFile(x) /\ Fits(x) /\ e = EntryOf(x)
    BY <1>2
  <2>2. e.ref = x /\ e.path = PathOf(x) /\ e.size = tree[x].size
    BY <2>1
  <2>3. Resolve(PathOf(x)) = x
    BY RecordPathsLead DEF OfTheTable
  <2> QED BY <2>1, <2>2, <2>3 DEF Allowed
<1>4. ASSUME NEW e \in l.entries PROVE e.ref \in MayList(l.how)
  <2> DEFINE p == [path |-> PathOf(e.ref), ref |-> e.ref]
  <2>1. p \in Places
    BY <1>3, TablePlaces
  <2>2. Allowed("cold", p)
    BY <1>3 DEF Allowed
  <2> QED BY <1>2, <2>1, <2>2 DEF MayList
<1>5. ASSUME NEW x \in MustList(l.how) PROVE \E e \in l.entries : e.ref = x
  <2> DEFINE p == [path |-> PathOf(x), ref |-> x]
  <2>1. x \in DOMAIN tree /\ IsFile(x) /\ \A q \in Places : q.ref = x => Allowed("cold", q)
    BY <1>2 DEF MustList, Places, IsFile
  <2>2. p \in Places
    BY <2>1, TablePlaces
  <2>3. Fits(x)
    BY <2>1, <2>2 DEF Allowed
  <2>4. EntryOf(x) \in l.entries /\ EntryOf(x).ref = x
    BY <1>2, <2>1, <2>3
  <2> QED BY <2>4
<1>6. ASSUME NEW e \in l.entries, NEW g \in l.entries, e.path = g.path \/ e.ref = g.ref PROVE e = g
  <2>1. e.ref = g.ref
    BY <1>3, <1>6
  <2> QED BY <1>3, <2>1
<1>7. Exact(l)
  <2>1. \A e \in l.entries : /\ Resolve(e.path) = e.ref /\ e.size = tree[e.ref].size
                             /\ Allowed(l.how, e)
    BY <1>2, <1>3
  <2>2. {e.ref : e \in l.entries} \subseteq MayList(l.how)
    BY <1>4
  <2>3. MustList(l.how) \subseteq {e.ref : e \in l.entries}
    BY <1>5
  <2>4. \A e, g \in l.entries : e # g => e.path # g.path /\ e.ref # g.ref
    BY <1>6
  <2> QED BY <2>1, <2>2, <2>3, <2>4 DEF Exact
<1> QED BY <1>7 DEF l

-----------------------------------------------------------------------------
(* The reading of the file table.                                            *)

\* What a job is made of.
AJob(j) ==
  DOMAIN j = {"id", "cursor", "byRef", "delta", "upserts", "deletes", "page", "todo", "sizes"}

\* What has been asked for is what the files have.
SizesOK(j) ==
  /\ j.byRef = Table
  /\ OfTheTable => /\ j.todo \cup DOMAIN j.sizes = FilesOf(Table)
                   /\ \A x \in DOMAIN j.sizes : j.sizes[x] = tree[x].size

\* On a volume nothing changes, the records read are those of the first references, and
\* the sizes asked for are the files'.
TableSound(s) ==
  /\ at[s] \in {"idle", "meta", "drop", "open", "walk"} => job[s] = NoJob
  /\ at[s] \in {"enum", "stat"} => AJob(job[s])
  /\ at[s] = "enum" => job[s].sizes = NoRows
  /\ quiet[s] /\ at[s] = "enum" => job[s].page \in Nat /\ job[s].byRef = TableTo(job[s].page)
  /\ quiet[s] /\ at[s] = "stat" => SizesOK(job[s])
  /\ Ended(s) /\ quiet[s] /\ list[s].how = "cold" /\ OfTheTable => Exact(list[s])

\* The inductive invariant of the reading of the table; it rests on that of the walk.
TableInv == job = [s \in Scanners |-> job[s]] /\ \A s \in Scanners : TableSound(s)

\* No job is a job of nothing.
LEMMA NoJobFacts ==
  /\ AJob(NoJob) /\ NoJob.sizes = NoRows /\ NoJob.page = 0 /\ NoJob.byRef = NoRows
BY DEF NoJob, AJob

\* While the tree stays, so do its records.
LEMMA TableStays ==
  ASSUME tree' = tree, setup' = setup
  PROVE  /\ \A n : TableTo(n)' = TableTo(n)
         /\ Table' = Table /\ OfTheTable' = OfTheTable
         /\ \A j : SizesOK(j)' = SizesOK(j)
<1>1. Table' = Table /\ \A n : TableTo(n)' = TableTo(n)
  BY DEF Table, TableTo
<1>2. OfTheTable' = OfTheTable
  BY DEF OfTheTable, Roots
<1> QED BY <1>1, <1>2 DEF SizesOK

\* A list that is exact stays it while the tree stays.
LEMMA ColdListStays ==
  ASSUME setup' = setup, tree' = tree, NEW s, list'[s] = list[s], quiet'[s] => quiet[s],
         Ended(s) /\ quiet[s] /\ list[s].how = "cold" /\ OfTheTable => Exact(list[s])
  PROVE  (Ended(s) /\ quiet[s] /\ list[s].how = "cold" /\ OfTheTable => Exact(list[s]))'
<1> SUFFICES ASSUME Ended(s)', quiet'[s], list'[s].how = "cold", OfTheTable' PROVE Exact(list[s])'
  OBVIOUS
<1>1. Exact(list[s])
  BY TableStays DEF Ended
<1> QED BY <1>1, ExactStays

\* A scanner nothing is done by, on a tree that stays.
LEMMA OtherTable ==
  ASSUME tree' = tree, setup' = setup, NEW t \in Scanners,
         at'[t] = at[t], job'[t] = job[t], list'[t] = list[t], quiet'[t] = quiet[t], TableSound(t)
  PROVE  TableSound(t)'
<1>1. /\ \A n : TableTo(n)' = TableTo(n)
      /\ \A j : SizesOK(j)' = SizesOK(j)
  BY TableStays
<1>2. (Ended(t) /\ quiet[t] /\ list[t].how = "cold" /\ OfTheTable => Exact(list[t]))'
  BY ColdListStays DEF TableSound
<1>3. /\ (at[t] \in {"idle", "meta", "open", "walk"} => job[t] = NoJob)'
      /\ (at[t] \in {"enum", "stat"} => AJob(job[t]))'
      /\ (at[t] = "enum" => job[t].sizes = NoRows)'
  BY DEF TableSound, NoJob, NoRows, AJob
<1>4. (quiet[t] /\ at[t] = "enum" => job[t].page \in Nat /\ job[t].byRef = TableTo(job[t].page))'
  <2>1. quiet[t] /\ at[t] = "enum" => job[t].page \in Nat /\ job[t].byRef = TableTo(job[t].page)
    BY DEF TableSound
  <2> QED BY <1>1, <2>1
<1>5. (quiet[t] /\ at[t] = "stat" => SizesOK(job[t]))'
  <2>1. quiet[t] /\ at[t] = "stat" => SizesOK(job[t])
    BY DEF TableSound
  <2> QED BY <1>1, <2>1
<1> QED BY <1>2, <1>3, <1>4, <1>5 DEF TableSound

\* What one scanner does to itself is enough to look at.
LEMMA OneTable ==
  ASSUME TableInv, NEW s \in Scanners, tree' = tree, setup' = setup,
         job' = [t \in Scanners |-> job'[t]],
         \A t \in Scanners : t # s =>
           at'[t] = at[t] /\ job'[t] = job[t] /\ list'[t] = list[t] /\ quiet'[t] = quiet[t],
         TableSound(s)'
  PROVE  TableInv'
<1>1. ASSUME NEW t \in Scanners PROVE TableSound(t)'
  BY OtherTable DEF TableInv
<1> QED BY <1>1 DEF TableInv

\* An inventory that ends without a list, or with one that is exact if it is of the table.
LEMMA EndTable ==
  ASSUME Inv, TableInv, NEW s \in Scanners, NEW outcome, End(s, outcome),
         tree' = tree, setup' = setup, quiet' = quiet,
         outcome \in {None, Failed} \/ (outcome.how = "cold" /\ quiet[s] /\ OfTheTable => Exact(outcome))
  PROVE  TableInv'
<1>1. /\ at' = [at EXCEPT ![s] = "idle"] /\ job' = [job EXCEPT ![s] = NoJob]
      /\ list' = [list EXCEPT ![s] = outcome]
  BY DEF End
<1>2. /\ at'[s] = "idle" /\ job'[s] = NoJob /\ list'[s] = outcome
      /\ job' = [t \in Scanners |-> job'[t]]
      /\ \A t \in Scanners : t # s =>
           at'[t] = at[t] /\ job'[t] = job[t] /\ list'[t] = list[t] /\ quiet'[t] = quiet[t]
  BY <1>1 DEF Inv, Typed, TableInv
<1>3. (Ended(s) /\ quiet[s] /\ list[s].how = "cold" /\ OfTheTable => Exact(list[s]))'
  <2> SUFFICES ASSUME Ended(s)', quiet'[s], list'[s].how = "cold", OfTheTable' PROVE Exact(list[s])'
    OBVIOUS
  <2>1. outcome \notin {None, Failed} /\ outcome.how = "cold" /\ quiet[s] /\ OfTheTable
    BY <1>2, TableStays DEF Ended
  <2>2. Exact(outcome)
    BY <2>1
  <2> QED BY <1>2, <2>2, ExactStays
<1>4. NoJob' = NoJob
  BY DEF NoJob, NoRows
<1>5. TableSound(s)'
  BY <1>2, <1>3, <1>4 DEF TableSound
<1> QED BY <1>2, <1>5, OneTable

\* A step that leaves the list alone and goes from a step of the reading to another.
LEMMA GoTable ==
  ASSUME Inv, TableInv, NEW s \in Scanners, NEW step \in Steps, NEW j,
         at' = [at EXCEPT ![s] = step], job' = [job EXCEPT ![s] = j], list' = list,
         tree' = tree, setup' = setup, quiet' = quiet,
         step \in {"idle", "meta", "drop", "open", "walk"} => j = NoJob,
         step \in {"enum", "stat"} => AJob(j),
         step = "enum" => j.sizes = NoRows,
         quiet[s] /\ step = "enum" => j.page \in Nat /\ j.byRef = TableTo(j.page),
         quiet[s] /\ step = "stat" => SizesOK(j)
  PROVE  TableInv'
<1>1. /\ at'[s] = step /\ job'[s] = j /\ list'[s] = list[s] /\ quiet'[s] = quiet[s]
      /\ job' = [t \in Scanners |-> job'[t]]
      /\ \A t \in Scanners : t # s =>
           at'[t] = at[t] /\ job'[t] = job[t] /\ list'[t] = list[t] /\ quiet'[t] = quiet[t]
  BY DEF Inv, Typed, TableInv
<1>2. (Ended(s) /\ quiet[s] /\ list[s].how = "cold" /\ OfTheTable => Exact(list[s]))'
  BY <1>1, ColdListStays DEF TableInv, TableSound
<1>3. /\ (at[s] \in {"idle", "meta", "drop", "open", "walk"} => job[s] = NoJob)'
      /\ (at[s] \in {"enum", "stat"} => AJob(job[s]))'
      /\ (at[s] = "enum" => job[s].sizes = NoRows)'
  BY <1>1 DEF NoJob, NoRows, AJob
<1>4. (quiet[s] /\ at[s] = "enum" => job[s].page \in Nat /\ job[s].byRef = TableTo(job[s].page))'
  BY <1>1, TableStays
<1>5. (quiet[s] /\ at[s] = "stat" => SizesOK(job[s]))'
  BY <1>1, TableStays
<1>6. TableSound(s)'
  BY <1>2, <1>3, <1>4, <1>5 DEF TableSound
<1> QED BY <1>1, <1>6, OneTable

\* The warm path hands the cold one a job of nothing.
LEMMA WarmTable ==
  ASSUME Inv, TableInv, NEW s \in Scanners,
         \/ CheckMeta(s) \/ DropRows(s) \/ LoadRows(s) \/ ReadDelta(s)
         \/ ApplyRecord(s) \/ GiveUp(s) \/ FinishWarm(s)
  PROVE  TableInv'
<1>1. tree' = tree /\ setup' = setup /\ quiet' = quiet /\ at \in [Scanners -> Steps]
      /\ job = [t \in Scanners |-> job[t]]
  BY DEF CheckMeta, DropRows, LoadRows, ReadDelta, ApplyRecord, GiveUp, FinishWarm, volume, Inv, Typed, TableInv
<1>2. CASE CheckMeta(s)
  <2>1. job[s] = NoJob
    BY <1>2 DEF CheckMeta, TableInv, TableSound
  <2>2. ASSUME job' = job, list' = list, NEW step \in {"drop", "open"}, at' = [at EXCEPT ![s] = step]
        PROVE  TableInv'
    <3>1. job' = [job EXCEPT ![s] = NoJob]
      BY <1>1, <2>1, <2>2
    <3> QED BY <1>1, <2>2, <3>1, GoTable DEF Steps
  <2>3. CASE job' = [job EXCEPT ![s].id = journal.id, ![s].cursor = meta.cursor]
             /\ at' = [at EXCEPT ![s] = "rows"] /\ list' = list
    <3>1. job' = [job EXCEPT ![s] = job'[s]]
      BY <1>1, <2>3
    <3> QED BY <1>1, <2>3, <3>1, GoTable DEF Steps
  <2> QED BY <1>2, <2>2, <2>3 DEF CheckMeta, invalidate_inventory_snapshot, Go
<1>3. CASE LoadRows(s)
  <2>1. job' = [job EXCEPT ![s].byRef = rows] /\ at' = [at EXCEPT ![s] = "read"] /\ list' = list
    BY <1>3 DEF LoadRows, Go
  <2>2. job' = [job EXCEPT ![s] = job'[s]]
    BY <1>1, <2>1
  <2> QED BY <1>1, <2>1, <2>2, GoTable DEF Steps
<1>4. CASE ReadDelta(s)
  <2>1. CASE job' = [job EXCEPT ![s] = NoJob] /\ at' = [at EXCEPT ![s] = "open"] /\ list' = list
    BY <1>1, <2>1, GoTable DEF Steps
  <2>2. CASE at' = [at EXCEPT ![s] = "apply"] /\ list' = list
             /\ \E d : job' = [job EXCEPT ![s].delta = d, ![s].cursor = @ + Len(d)]
    <3>1. job' = [job EXCEPT ![s] = job'[s]]
      BY <1>1, <2>2
    <3> QED BY <1>1, <2>2, <3>1, GoTable DEF Steps
  <2> QED BY <1>4, <2>1, <2>2 DEF ReadDelta, Go
<1>5. CASE ApplyRecord(s)
  <2>1. at[s] = "apply" /\ at' = at /\ list' = list /\ \E j : job' = [job EXCEPT ![s] = j]
    BY <1>5 DEF ApplyRecord
  <2>2. at' = [at EXCEPT ![s] = "apply"]
    BY <1>1, <2>1
  <2> QED BY <1>1, <2>1, <2>2, GoTable DEF Steps
<1>6. CASE GiveUp(s)
  <2>1. job' = [job EXCEPT ![s] = NoJob] /\ at' = [at EXCEPT ![s] = "drop"] /\ list' = list
    BY <1>6 DEF GiveUp, invalidate_inventory_snapshot, Go
  <2> QED BY <1>1, <2>1, GoTable DEF Steps
<1>7. CASE FinishWarm(s)
  <2>1. \E entries, whole : End(s, Listed(entries, "warm", whole))
    BY <1>7 DEF FinishWarm
  <2>2. PICK outcome : End(s, outcome) /\ outcome.how = "warm"
    BY <2>1 DEF Listed
  <2> QED BY <1>1, <2>2, EndTable
<1>8. CASE DropRows(s)
  <2>1. job' = job /\ at' = [at EXCEPT ![s] = "open"] /\ list' = list /\ job[s] = NoJob
    BY <1>8 DEF DropRows, Go, TableInv, TableSound
  <2>2. job' = [job EXCEPT ![s] = NoJob]
    BY <1>1, <2>1
  <2> QED BY <1>1, <2>1, <2>2, GoTable DEF Steps
<1> QED BY <1>2, <1>3, <1>4, <1>5, <1>6, <1>7, <1>8

\* The table is opened: no record has been read.
LEMMA ColdOpenTable ==
  ASSUME Inv, TableInv, NEW s \in Scanners, ColdOpen(s) \/ ColdFails(s)
  PROVE  TableInv'
<1>1. tree' = tree /\ setup' = setup /\ quiet' = quiet /\ at \in [Scanners -> Steps]
      /\ job = [t \in Scanners |-> job[t]]
  BY DEF ColdOpen, ColdFails, volume, Inv, Typed, TableInv
<1>2. CASE ColdOpen(s)
  <2>1. job[s] = NoJob /\ at' = [at EXCEPT ![s] = "enum"] /\ list' = list
    BY <1>2 DEF ColdOpen, Go, TableInv, TableSound
  <2>2. TableTo(0) = NoRows
    <3>1. \A y \in DOMAIN tree : ~(y <= 0)
      BY RefsAssumption DEF Inv, Typed, TreeOK, WellFormed
    <3> QED BY <3>1 DEF TableTo, NoRows
  <2>3. PICK j : /\ job' = [job EXCEPT ![s] = j] /\ AJob(j) /\ j.sizes = NoRows
                 /\ j.page = 0 /\ j.byRef = NoRows
    <3>1. CASE job' = job
      <4>1. job' = [job EXCEPT ![s] = NoJob]
        BY <1>1, <2>1, <3>1
      <4> QED BY <4>1, NoJobFacts
    <3>2. CASE job' = [job EXCEPT ![s].id = journal.id, ![s].cursor = NextUsn]
      <4> DEFINE j == [NoJob EXCEPT !.id = journal.id, !.cursor = NextUsn]
      <4>1. job' = [job EXCEPT ![s] = j]
        BY <1>1, <2>1, <3>2
      <4>2. AJob(j) /\ j.sizes = NoRows /\ j.page = 0 /\ j.byRef = NoRows
        BY DEF NoJob, AJob
      <4> HIDE DEF j
      <4> QED BY <4>1, <4>2
    <3> QED BY <1>2, <3>1, <3>2 DEF ColdOpen
  <2>4. j.page \in Nat /\ j.byRef = TableTo(j.page) /\ "enum" \in Steps
    BY <2>2, <2>3 DEF Steps
  <2> QED BY <1>1, <2>1, <2>3, <2>4, GoTable
<1>3. CASE ColdFails(s)
  <2>1. job' = [job EXCEPT ![s] = NoJob] /\ at' = [at EXCEPT ![s] = "walk"] /\ list' = list
    BY <1>3 DEF ColdFails, Go
  <2> QED BY <1>1, <2>1, GoTable DEF Steps
<1> QED BY <1>2, <1>3

\* The records that are there come one after the other, by their references.
LEMMA EnumNextTable ==
  ASSUME Inv, TableInv, NEW s \in Scanners, EnumNext(s)
  PROVE  TableInv'
<1> DEFINE x == CHOOSE y \in Unread(s) : \A z \in Unread(s) : y <= z
           more == Put(job[s].byRef, x, Row(RecordOf(x, tree[x], FALSE), 0))
           j == [job[s] EXCEPT !.byRef = more, !.page = x]
<1>1. /\ tree' = tree /\ setup' = setup /\ quiet' = quiet /\ at \in [Scanners -> Steps]
      /\ job = [t \in Scanners |-> job[t]] /\ at[s] = "enum" /\ Unread(s) # {}
      /\ at' = at /\ list' = list /\ TreeOK
  <2>1. /\ tree' = tree /\ setup' = setup /\ quiet' = quiet /\ at[s] = "enum" /\ Unread(s) # {}
        /\ at' = at /\ list' = list
    BY Zenon DEF EnumNext, volume
  <2> QED BY <2>1 DEF Inv, Typed, TableInv
<1>2. job' = [job EXCEPT ![s] = j]
  <2>1. job' = [job EXCEPT ![s].byRef = Put(@, x, Row(RecordOf(x, tree[x], FALSE), 0)), ![s].page = x]
    BY Zenon DEF EnumNext
  <2> HIDE DEF x
  <2> QED BY <1>1, <2>1
<1>3. AJob(job[s]) /\ job[s].sizes = NoRows
      /\ (quiet[s] => job[s].page \in Nat /\ job[s].byRef = TableTo(job[s].page))
  BY <1>1 DEF TableInv, TableSound
<1>4. DOMAIN tree \subseteq Nat
  BY <1>1, RefsAssumption DEF TreeOK, WellFormed
<1>5. x \in Unread(s) /\ \A z \in Unread(s) : x <= z
  <2>1. Unread(s) \in SUBSET Nat
    BY <1>4 DEF Unread
  <2>2. \E y \in Unread(s) : \A z \in Unread(s) : y <= z
    BY <1>1, <2>1, Least
  <2> QED BY <2>2
<1> HIDE DEF x
<1>6. x \in DOMAIN tree /\ x \in Nat
  BY <1>4, <1>5 DEF Unread
<1>7. quiet[s] => more = TableTo(x)
  <2> SUFFICES ASSUME quiet[s] PROVE more = TableTo(x)
    OBVIOUS
  <2> DEFINE n == job[s].page
  <2>1. n \in Nat /\ job[s].byRef = TableTo(n)
    BY <1>3
  <2>2. \A y \in DOMAIN tree : y > n => x <= y
    BY <1>5 DEF Unread
  <2>3. x > n
    BY <1>5 DEF Unread
  <2> HIDE DEF n
  <2>4. {y \in DOMAIN tree : y <= n} \cup {x} = {y \in DOMAIN tree : y <= x}
    BY <1>4, <1>6, <2>1, <2>2, <2>3
  <2>5. more = [y \in {z \in DOMAIN tree : z <= n} \cup {x} |-> Row(RecordOf(y, tree[y], FALSE), 0)]
    BY <2>1 DEF Put, TableTo
  <2> QED BY <2>4, <2>5 DEF TableTo
<1> HIDE DEF more
<1>8. AJob(j) /\ j.sizes = NoRows /\ j.page = x /\ j.byRef = more
  BY <1>3 DEF AJob
<1> HIDE DEF j
<1>9. at' = [at EXCEPT ![s] = "enum"]
  BY <1>1
<1> QED BY <1>1, <1>2, <1>6, <1>7, <1>8, <1>9, GoTable DEF Steps

\* After the last of them the records are the volume's.
LEMMA EnumEndTable ==
  ASSUME Inv, TableInv, NEW s \in Scanners, EnumEnd(s)
  PROVE  TableInv'
<1> DEFINE j == [job[s] EXCEPT !.todo = FilesOf(job[s].byRef)]
<1>1. /\ tree' = tree /\ setup' = setup /\ quiet' = quiet /\ at \in [Scanners -> Steps]
      /\ job = [t \in Scanners |-> job[t]] /\ at[s] = "enum" /\ Unread(s) = {}
      /\ at' = [at EXCEPT ![s] = "stat"] /\ list' = list /\ TreeOK
  BY DEF EnumEnd, Go, volume, Inv, Typed, TableInv
<1>2. job' = [job EXCEPT ![s] = j]
  BY <1>1 DEF EnumEnd
<1>3. AJob(job[s]) /\ job[s].sizes = NoRows
      /\ (quiet[s] => job[s].page \in Nat /\ job[s].byRef = TableTo(job[s].page))
  BY <1>1 DEF TableInv, TableSound
<1>4. DOMAIN tree \subseteq Nat
  BY <1>1, RefsAssumption DEF TreeOK, WellFormed
<1>5. AJob(j) /\ j.sizes = NoRows /\ j.todo = FilesOf(job[s].byRef) /\ j.byRef = job[s].byRef
  BY <1>3 DEF AJob
<1> HIDE DEF j
<1>6. quiet[s] => SizesOK(j)
  <2> SUFFICES ASSUME quiet[s] PROVE SizesOK(j)
    OBVIOUS
  <2>1. {y \in DOMAIN tree : y <= job[s].page} = DOMAIN tree
    BY <1>1, <1>3, <1>4 DEF Unread
  <2>2. j.byRef = Table
    BY <1>3, <1>5, <2>1 DEF Table, TableTo
  <2>3. DOMAIN j.sizes = {}
    BY <1>5 DEF NoRows
  <2> QED BY <1>5, <2>2, <2>3 DEF SizesOK
<1> QED BY <1>1, <1>2, <1>5, <1>6, GoTable DEF Steps

\* A file is asked for its size.
LEMMA ColdStatTable ==
  ASSUME Inv, TableInv, NEW s \in Scanners, ColdStat(s)
  PROVE  TableInv'
<1>1. /\ tree' = tree /\ setup' = setup /\ quiet' = quiet /\ at \in [Scanners -> Steps]
      /\ job = [t \in Scanners |-> job[t]] /\ at[s] = "stat"
      /\ at' = at /\ list' = list /\ TreeOK
  BY DEF ColdStat, volume, Inv, Typed, TableInv
<1>2. AJob(job[s]) /\ (quiet[s] => SizesOK(job[s]))
  BY <1>1 DEF TableInv, TableSound
<1>3. PICK x \in job[s].todo :
        LET size == SizeAt(reconstruct_path(job[s].byRef, x))
        IN  job' = [job EXCEPT ![s].todo = @ \ {x}, ![s].sizes = IF size = None THEN @ ELSE Put(@, x, size)]
  BY DEF ColdStat
<1> DEFINE size == SizeAt(reconstruct_path(job[s].byRef, x))
           sizes == IF size = None THEN job[s].sizes ELSE Put(job[s].sizes, x, size)
           j == [job[s] EXCEPT !.todo = @ \ {x}, !.sizes = sizes]
<1>4. job' = [job EXCEPT ![s] = j]
  BY <1>1, <1>3
<1>5. AJob(j) /\ j.sizes = sizes /\ j.todo = job[s].todo \ {x} /\ j.byRef = job[s].byRef
  BY <1>2 DEF AJob
<1> HIDE DEF j
<1>6. quiet[s] => SizesOK(j)
  <2> SUFFICES ASSUME quiet[s] PROVE SizesOK(j)
    OBVIOUS
  <2>1. job[s].byRef = Table /\ j.byRef = Table
    BY <1>2, <1>5 DEF SizesOK
  <2>2. SUFFICES ASSUME OfTheTable
                 PROVE  /\ j.todo \cup DOMAIN j.sizes = FilesOf(Table)
                        /\ \A y \in DOMAIN j.sizes : j.sizes[y] = tree[y].size
    BY <2>1 DEF SizesOK
  <2>3. /\ job[s].todo \cup DOMAIN job[s].sizes = FilesOf(Table)
        /\ \A y \in DOMAIN job[s].sizes : job[s].sizes[y] = tree[y].size
    BY <1>2, <2>2 DEF SizesOK
  <2>4. x \in DOMAIN tree /\ IsFile(x)
    <3>1. x \in FilesOf(Table)
      BY <1>3, <2>3
    <3>2. x \in DOMAIN tree /\ ~Table[x].dir
      BY <3>1 DEF FilesOf, Table
    <3>3. tree[x].kind \in {"dir", "file"}
      BY <1>1, <2>2, <3>2 DEF TreeOK, WellFormed, Entry, OfTheTable
    <3> QED BY <3>2, <3>3, TableRow DEF IsFile
  <2>5. size = tree[x].size
    BY <1>1, <2>1, <2>2, <2>4, TableSizes DEF PathOf
  <2>6. size # None
    <3>1. tree[x].size \in Nat
      BY <1>1, <2>4 DEF TreeOK, WellFormed, Entry
    <3> QED BY <2>5, <3>1, SnapshotsAssumption
  <2> HIDE DEF size
  <2>7. j.sizes = Put(job[s].sizes, x, size)
    BY <1>5, <2>6
  <2>8. /\ DOMAIN j.sizes = DOMAIN job[s].sizes \cup {x}
        /\ \A y \in DOMAIN j.sizes : j.sizes[y] = IF y = x THEN size ELSE job[s].sizes[y]
    BY <2>7 DEF Put
  <2>9. j.todo \cup DOMAIN j.sizes = FilesOf(Table)
    BY <1>3, <1>5, <2>3, <2>8
  <2> QED BY <2>3, <2>5, <2>8, <2>9
<1>7. at' = [at EXCEPT ![s] = "stat"]
  BY <1>1
<1> QED BY <1>1, <1>2, <1>4, <1>5, <1>6, <1>7, GoTable DEF Steps

\* The table's list is exact.
LEMMA FinishColdTable ==
  ASSUME Inv, TableInv, NEW s \in Scanners, FinishCold(s)
  PROVE  TableInv'
<1> DEFINE outcome == Listed(entries_from_records(job[s].byRef, job[s].sizes), "cold", TRUE)
<1>1. /\ tree' = tree /\ setup' = setup /\ quiet' = quiet /\ at[s] = "stat" /\ job[s].todo = {}
      /\ End(s, outcome) /\ TreeOK
  BY DEF FinishCold, volume, Inv, Typed
<1>2. quiet[s] => SizesOK(job[s])
  BY <1>1 DEF TableInv, TableSound
<1>3. quiet[s] /\ OfTheTable => Exact(outcome)
  <2> SUFFICES ASSUME quiet[s], OfTheTable PROVE Exact(outcome)
    OBVIOUS
  <2>1. /\ job[s].byRef = Table /\ DOMAIN job[s].sizes = FilesOf(Table)
        /\ \A x \in DOMAIN job[s].sizes : job[s].sizes[x] = tree[x].size
    BY <1>1, <1>2 DEF SizesOK
  <2> QED BY <1>1, <2>1, TableIsExact
<1> HIDE DEF outcome
<1> QED BY <1>1, <1>3, EndTable

\* A lane's step leaves everything but the lanes alone.
LEMMA LaneStepKeeps ==
  ASSUME NEW s \in Scanners, NEW i \in Roots,
         OpenRoot(s, i) \/ Announce(s, i) \/ Harvest(s, i) \/ NextLayer(s, i)
  PROVE  /\ tree' = tree /\ setup' = setup /\ quiet' = quiet /\ journal' = journal
         /\ at' = at /\ job' = job /\ list' = list /\ UNCHANGED snapshot /\ UNCHANGED volume
<1>1. UNCHANGED OtherThanLanes
  <2>1. CASE OpenRoot(s, i)
    BY Zenon, <2>1 DEF OpenRoot
  <2>2. CASE Announce(s, i)
    BY Zenon, <2>2 DEF Announce
  <2>3. CASE Harvest(s, i)
    BY Zenon, <2>3 DEF Harvest
  <2>4. CASE NextLayer(s, i)
    BY Zenon, <2>4 DEF NextLayer
  <2> QED BY <2>1, <2>2, <2>3, <2>4
<1> QED BY <1>1 DEF OtherThanLanes, volume

\* The walk has no part in the reading of the table.
LEMMA WalkTable ==
  ASSUME Inv, TableInv, NEW s \in Scanners, WalkStep(s) \/ Cancel(s)
  PROVE  TableInv'
<1>1. CASE FinishWalk(s)
  <2>1. tree' = tree /\ setup' = setup /\ quiet' = quiet
    BY <1>1 DEF FinishWalk, volume
  <2>2. PICK outcome : End(s, outcome) /\ (outcome = Failed \/ outcome.how = "walk")
    BY <1>1 DEF FinishWalk, Listed
  <2> QED BY <2>1, <2>2, EndTable
<1>2. CASE Cancel(s) \/ \E i \in Roots : OpenRoot(s, i) \/ Announce(s, i) \/ Harvest(s, i) \/ NextLayer(s, i)
  <2>1. /\ tree' = tree /\ setup' = setup /\ quiet' = quiet /\ at' = at /\ job' = job /\ list' = list
    <3>1. CASE Cancel(s)
      BY <3>1 DEF Cancel, warmVars, volume
    <3> QED BY <1>2, <3>1, LaneStepKeeps
  <2> QED BY <2>1, OtherTable DEF TableInv
<1> QED BY <1>1, <1>2 DEF WalkStep

\* It holds at first.
LEMMA TableInit == Init => TableInv
<1> SUFFICES ASSUME Init PROVE TableInv
  OBVIOUS
<1>1. /\ at = [s \in Scanners |-> "idle"] /\ job = [s \in Scanners |-> NoJob]
      /\ list = [s \in Scanners |-> None]
  BY DEF Init, WarmInit
<1>2. ASSUME NEW s \in Scanners PROVE TableSound(s)
  BY <1>1 DEF TableSound, Ended
<1> QED BY <1>1, <1>2 DEF TableInv

\* Every step keeps it.
LEMMA TableNext ==
  ASSUME Inv, TableInv, [Next]_vars
  PROVE  TableInv'
<1>1. CASE Change /\ UNCHANGED <<setup, snapshot, at, job, list, runs, kills, TheWalk>>
  <2>1. /\ at' = at /\ job' = job /\ list' = list /\ \A s \in Scanners : ~quiet'[s]
    BY <1>1 DEF Change
  <2>2. ASSUME NEW s \in Scanners PROVE TableSound(s)'
    BY <2>1 DEF TableInv, TableSound, NoJob, NoRows, AJob
  <2> QED BY <2>1, <2>2 DEF TableInv
<1>2. ASSUME NEW s \in Scanners, Begin(s), UNCHANGED TheWalk PROVE TableInv'
  <2>1. /\ tree' = tree /\ setup' = setup /\ job' = job /\ at[s] = "idle"
        /\ at' = [at EXCEPT ![s] = IF setup.forceMft THEN "meta" ELSE "walk"]
        /\ quiet' = [quiet EXCEPT ![s] = TRUE] /\ list' = [list EXCEPT ![s] = None]
    BY <1>2 DEF Begin, volume
  <2>2. /\ at'[s] \in {"meta", "walk"} /\ list'[s] = None
        /\ \A t \in Scanners : t # s => at'[t] = at[t] /\ quiet'[t] = quiet[t] /\ list'[t] = list[t]
    BY <2>1 DEF Inv, Typed
  <2>3. job'[s] = NoJob /\ NoJob' = NoJob
    BY <1>2, <2>1 DEF TableInv, TableSound, NoJob, NoRows
  <2>4. TableSound(s)'
    BY <2>2, <2>3 DEF TableSound, Ended
  <2> QED BY <1>2, <2>1, <2>2, <2>4, OneTable DEF TableInv
<1>3. ASSUME NEW s \in Scanners, TableStep(s) PROVE TableInv'
  BY <1>3, WarmTable, ColdOpenTable, EnumNextTable, EnumEndTable, ColdStatTable, FinishColdTable DEF TableStep
<1>4. ASSUME NEW s \in Scanners, WalkStep(s) \/ Cancel(s) PROVE TableInv'
  BY <1>4, WalkTable
<1>5. ASSUME NEW s \in Scanners, Kill(s) PROVE TableInv'
  <2>1. tree' = tree /\ setup' = setup /\ quiet' = quiet /\ End(s, None)
    BY <1>5 DEF Kill, volume
  <2> QED BY <1>5, <2>1, EndTable
<1>6. CASE UNCHANGED vars
  <2>1. /\ tree' = tree /\ setup' = setup /\ quiet' = quiet /\ at' = at /\ job' = job /\ list' = list
    BY <1>6 DEF vars, warmVars, volume
  <2> QED BY <2>1, OtherTable DEF TableInv
<1> QED BY <1>1, <1>2, <1>3, <1>4, <1>5, <1>6 DEF Next

\* On a volume nothing has changed since the scanner began, the records read of the table
\* are those of its first references and the sizes asked for the files', in every state.
THEOREM TableInvHolds == Spec => []TableInv
<1>1. Init => TableInv
  BY TableInit
<1>2. Inv /\ TableInv /\ [Next]_vars => TableInv'
  BY TableNext
<1> QED BY <1>1, <1>2, InvHolds, PTL DEF Spec

\* The list of a scanner nothing has changed under since it began is exact, if it walked
\* or read the whole table of a volume that is as the table shows it.
THEOREM ListsExact ==
  Spec => [](\A s \in Scanners :
               Ended(s) /\ quiet[s] /\ (list[s].how = "walk" \/ (list[s].how = "cold" /\ OfTheTable)) =>
                 Exact(list[s]))
<1>1. Inv /\ TableInv =>
        \A s \in Scanners :
          Ended(s) /\ quiet[s] /\ (list[s].how = "walk" \/ (list[s].how = "cold" /\ OfTheTable)) =>
            Exact(list[s])
  BY DEF Inv, Sound, TableInv, TableSound
<1> QED BY <1>1, InvHolds, TableInvHolds, PTL

-----------------------------------------------------------------------------
(* The window never asks for the file table, nor does the command line       *)
(* without --force-mft.                                                      *)

\* The setup is chosen at first.
LEMMA SetupStays ==
  ASSUME Inv, [Next]_vars
  PROVE  setup' = setup
<1>1. \A s \in Scanners : TableStep(s) => setup' = setup
  BY TableStepFacts DEF Inv
<1>2. \A s \in Scanners : WalkStep(s) => setup' = setup
  BY LaneStepKeeps DEF WalkStep, FinishWalk
<1>3. \A s \in Scanners : Begin(s) \/ Cancel(s) \/ Kill(s) => setup' = setup
  BY DEF Begin, Cancel, Kill, warmVars
<1>4. UNCHANGED vars => setup' = setup
  BY DEF vars, warmVars
<1> QED BY <1>1, <1>2, <1>3, <1>4 DEF Next

\* What a setup without the flag comes to.
Unforced ==
  ~setup.forceMft =>
    \A s \in Scanners : at[s] \in {"idle", "walk"} /\ (Ended(s) => list[s].how = "walk")

\* It holds at first.
LEMMA UnforcedInit == Init => Unforced
BY DEF Init, WarmInit, Unforced, Ended

\* Every step keeps it.
LEMMA UnforcedNext ==
  ASSUME Inv, Unforced, [Next]_vars
  PROVE  Unforced'
<1> SUFFICES ASSUME ~setup'.forceMft, NEW t \in Scanners
             PROVE  at'[t] \in {"idle", "walk"} /\ (Ended(t)' => list'[t].how = "walk")
  BY DEF Unforced
<1> DEFINE Fine == at'[t] \in {"idle", "walk"} /\ (Ended(t)' => list'[t].how = "walk")
<1>1. /\ setup' = setup /\ at \in [Scanners -> Steps] /\ list = [s \in Scanners |-> list[s]]
  BY SetupStays DEF Inv, Typed
<1>2. /\ ~setup.forceMft
      /\ \A s \in Scanners : at[s] \in {"idle", "walk"} /\ (Ended(s) => list[s].how = "walk")
  BY <1>1 DEF Unforced
<1>3. ASSUME at'[t] = at[t], list'[t] = list[t] PROVE Fine
  BY <1>2, <1>3 DEF Ended
<1>4. ASSUME NEW s \in Scanners, NEW outcome, End(s, outcome),
             outcome \in {None, Failed} \/ outcome.how = "walk"
      PROVE  Fine
  <2>1. CASE t # s
    BY <1>1, <1>3, <1>4, <2>1 DEF End
  <2>2. CASE t = s
    BY <1>1, <1>4, <2>2 DEF End, Ended
  <2> QED BY <2>1, <2>2
<1>5. CASE Change /\ UNCHANGED <<setup, snapshot, at, job, list, runs, kills, TheWalk>>
  BY <1>3, <1>5
<1>6. ASSUME NEW s \in Scanners, Begin(s) PROVE Fine
  <2>1. CASE t # s
    BY <1>1, <1>3, <1>6, <2>1 DEF Begin
  <2>2. CASE t = s
    BY <1>1, <1>2, <1>6, <2>2 DEF Begin, Ended
  <2> QED BY <2>1, <2>2
<1>7. ASSUME NEW s \in Scanners, TableStep(s) PROVE Fine
  <2>1. at[s] \notin {"idle", "walk"}
    BY <1>7 DEF TableStep, CheckMeta, DropRows, LoadRows, ReadDelta, ApplyRecord, GiveUp, FinishWarm,
                ColdOpen, ColdFails, EnumNext, EnumEnd, ColdStat, FinishCold
  <2> QED BY <1>2, <2>1
<1>8. ASSUME NEW s \in Scanners, WalkStep(s) PROVE Fine
  <2>1. CASE FinishWalk(s)
    <3>1. PICK outcome : End(s, outcome) /\ (outcome = Failed \/ outcome.how = "walk")
      BY <2>1 DEF FinishWalk, Listed
    <3> QED BY <3>1, <1>4
  <2>2. CASE \E i \in Roots : OpenRoot(s, i) \/ Announce(s, i) \/ Harvest(s, i) \/ NextLayer(s, i)
    <3>1. at' = at /\ list' = list
      BY <2>2, LaneStepKeeps
    <3> QED BY <3>1, <1>3
  <2> QED BY <1>8, <2>1, <2>2 DEF WalkStep
<1>9. ASSUME NEW s \in Scanners, Cancel(s) PROVE Fine
  BY <1>3, <1>9 DEF Cancel, warmVars
<1>10. ASSUME NEW s \in Scanners, Kill(s) PROVE Fine
  BY <1>4, <1>10 DEF Kill
<1>11. CASE UNCHANGED vars
  BY <1>3, <1>11 DEF vars, warmVars
<1> QED BY <1>5, <1>6, <1>7, <1>8, <1>9, <1>10, <1>11 DEF Next

\* Unless the file table was asked for, every inventory of a volume nothing has changed
\* on since it began is exact.
THEOREM UnforcedListsExact == Spec => [](~setup.forceMft => QuietListExact)
<1>1. Unforced /\ [Next]_vars /\ Inv => Unforced'
  BY UnforcedNext
<1>2. Inv /\ Unforced => (~setup.forceMft => QuietListExact)
  BY DEF Inv, Sound, Unforced, QuietListExact
<1> QED BY <1>1, <1>2, UnforcedInit, InvHolds, PTL DEF Spec

-----------------------------------------------------------------------------
(* Types: the journal, the snapshot, and what a scanner works on.            *)

\* What the journal is, what the rows of a snapshot are, and what its meta says.
Journal == [id : Nat \ {0}, first : Nat \ {0}, records : Seq(Record)]

RowsOK(map) == \A x \in DOMAIN map : x \in Refs /\ map[x] \in SnapshotRow

MetaOK == meta # None => meta.id \in 1..journal.id /\ meta.cursor \in Nat \ {0}

\* A job has a cursor in the journal there is or an earlier one; the warm path always has.
JobOK(j, step) ==
  /\ AJob(j) /\ RowsOK(j.byRef) /\ RowsOK(j.upserts) /\ j.delta \in Seq(Record)
  /\ \A x \in DOMAIN j.sizes : j.sizes[x] \in Nat
  /\ j.cursor \in Nat /\ (j.cursor # 0 => j.id \in 1..journal.id)
  /\ step \in {"rows", "read", "apply"} => j.cursor # 0

\* The inductive invariant of the types; it rests on that of the walk.
TypesInv ==
  /\ journal \in Journal /\ MetaOK /\ RowsOK(rows)
  /\ job = [s \in Scanners |-> job[s]]
  /\ \A s \in Scanners : JobOK(job[s], at[s])

\* No job will do where no cursor is needed.
LEMMA NoJobOK == \A step : step \notin {"rows", "read", "apply"} => JobOK(NoJob, step)
BY EmptySeq DEF NoJob, NoRows, JobOK, AJob, RowsOK

\* An entry's record is a record, and its row a row.
LEMMA RecordsAreRecords ==
  ASSUME NEW x \in Refs, NEW e \in Entry, NEW gone \in BOOLEAN
  PROVE  /\ RecordOf(x, e, gone) \in Record
         /\ \A n \in Nat : Row(RecordOf(x, e, gone), n) \in SnapshotRow
BY DEF Entry, Record, RecordOf, Row, SnapshotRow

\* A size is a number, if anything.
LEMMA SizesAreNumbers ==
  ASSUME WellFormed(tree), NEW path
  PROVE  SizeAt(path) \in Nat \cup {None}
BY DEF SizeAt, IsFile, WellFormed, Entry

\* One element is a sequence.
LEMMA OneOf ==
  ASSUME NEW S, NEW x \in S
  PROVE  <<x>> \in Seq(S)
OBVIOUS

\* Logged records are records.
LEMMA LogOK ==
  ASSUME journal \in Journal, NEW rs \in Seq(Record), Log(rs)
  PROVE  journal' \in Journal /\ journal'.id = journal.id
<1>1. journal.records \o rs \in Seq(Record)
  BY DEF Journal
<1> QED BY <1>1 DEF Log, Journal

\* Other programs log records.
LEMMA ChangeTypes ==
  ASSUME Inv, TypesInv, Change, UNCHANGED <<setup, snapshot, at, job, list, runs, kills, TheWalk>>
  PROVE  TypesInv'
<1>1. WellFormed(tree) /\ TreeOK /\ journal \in Journal
  BY DEF Inv, Typed, TreeOK, TypesInv
<1>2. PICK c \in setup.changes : Create(c) \/ Write(c) \/ Move(c) \/ Erase(c) \/ Trim(c) \/ Recreate(c)
  BY DEF Change
<1>3. journal' \in Journal /\ journal'.id \in Nat /\ journal'.id >= journal.id
  <2>1. CASE Create(c)
    <3>1. c.ref \in Refs /\ c.entry \in Entry
      BY <1>1, <2>1, SetupsAssumption DEF TreeOK, Create
    <3>2. RecordOf(c.ref, c.entry, FALSE) \in Record
      BY <3>1, RecordsAreRecords
    <3>3. <<RecordOf(c.ref, c.entry, FALSE)>> \in Seq(Record)
      BY <3>2, OneOf
    <3>4. Log(<<RecordOf(c.ref, c.entry, FALSE)>>)
      BY Zenon, <2>1 DEF Create
    <3>5. journal' \in Journal /\ journal'.id = journal.id
      BY <1>1, <3>3, <3>4, LogOK
    <3> QED BY <1>1, <3>5 DEF Journal
  <2>2. CASE Write(c) \/ Erase(c)
    <3>1. c.ref \in Refs /\ tree[c.ref] \in Entry
      BY <1>1, <2>2 DEF WellFormed, Write, Erase, IsFile
    <3>2. \A gone \in BOOLEAN : <<RecordOf(c.ref, tree[c.ref], gone)>> \in Seq(Record)
      BY <1>1, <3>1, RecordsAreRecords
    <3>3. \E gone \in BOOLEAN : Log(<<RecordOf(c.ref, tree[c.ref], gone)>>)
      BY <2>2 DEF Write, Erase
    <3>4. journal' \in Journal /\ journal'.id = journal.id
      BY <1>1, <3>2, <3>3, LogOK
    <3> QED BY <1>1, <3>4 DEF Journal
  <2>3. CASE Move(c)
    <3> DEFINE old == RecordOf(c.ref, tree[c.ref], FALSE)
               new == RecordOf(c.ref, tree'[c.ref], FALSE)
    <3>1. c.ref \in DOMAIN tree /\ c.ref \in Refs /\ tree[c.ref] \in Entry /\ c.parent \in Refs \cup {Top} /\ c.name \in STRING
      BY <1>1, <2>3, SetupsAssumption DEF TreeOK, WellFormed, Move
    <3>2. tree'[c.ref] \in Entry
      <4>1. tree'[c.ref] = [tree[c.ref] EXCEPT !.parent = c.parent, !.name = c.name]
        BY <2>3, <3>1 DEF Move
      <4> QED BY <3>1, <4>1 DEF Entry
    <3>3. old \in Record /\ new \in Record
      BY <1>1, <3>1, <3>2, RecordsAreRecords
    <3>4. Log(<<old, new>>)
      BY <2>3 DEF Move
    <3> HIDE DEF old, new
    <3>5. <<old, new>> \in Seq(Record)
      BY <3>3
    <3>6. journal' \in Journal /\ journal'.id = journal.id
      BY <1>1, <3>4, <3>5, LogOK
    <3> QED BY <1>1, <3>6 DEF Journal
  <2>4. CASE Trim(c)
    <3>1. journal' = [journal EXCEPT !.first = Len(journal.records) + 1] /\ Len(journal.records) + 1 \in Nat \ {0}
      BY <1>1, <2>4 DEF Trim, Journal
    <3> QED BY <1>1, <3>1 DEF Journal
  <2>5. CASE Recreate(c)
    <3>1. journal' = [id |-> journal.id + 1, first |-> 1, records |-> <<>>] /\ journal.id \in Nat
      BY <1>1, <2>5 DEF Recreate, Journal
    <3>2. <<>> \in Seq(Record)
      OBVIOUS
    <3> QED BY <3>1, <3>2 DEF Journal
  <2> QED BY <1>2, <2>1, <2>2, <2>3, <2>4, <2>5
<1>4. journal.id \in Nat /\ \A n \in 1..journal.id : n \in 1..journal'.id
  BY <1>1, <1>3 DEF Journal
<1>5. meta' = meta /\ rows' = rows /\ job' = job /\ at' = at
  BY DEF snapshot
<1>6. ASSUME NEW s \in Scanners PROVE JobOK(job[s], at[s])'
  BY <1>4, <1>5 DEF TypesInv, JobOK, AJob, RowsOK, SnapshotRow, Record
<1>7. MetaOK' /\ RowsOK(rows)'
  BY <1>4, <1>5 DEF TypesInv, MetaOK, RowsOK, SnapshotRow
<1> QED BY <1>3, <1>5, <1>6, <1>7 DEF TypesInv

\* A step of one scanner that leaves the journal alone.
LEMMA SetTypes ==
  ASSUME Inv, TypesInv, NEW s \in Scanners, NEW step, NEW j, at' = [at EXCEPT ![s] = step],
         job' = [job EXCEPT ![s] = j], journal' = journal, JobOK(j, step), MetaOK', RowsOK(rows)'
  PROVE  TypesInv'
<1>1. /\ at'[s] = step /\ job'[s] = j /\ job' = [t \in Scanners |-> job'[t]]
      /\ \A t \in Scanners : t # s => at'[t] = at[t] /\ job'[t] = job[t]
  BY DEF Inv, Typed, TypesInv
<1>2. \A k, p : JobOK(k, p)' = JobOK(k, p)
  BY DEF JobOK, AJob, RowsOK, SnapshotRow, Record
<1>3. \A t \in Scanners : JobOK(job[t], at[t])'
  BY <1>1, <1>2 DEF TypesInv
<1> QED BY <1>1, <1>3 DEF TypesInv

\* An inventory that ends has no job.
LEMMA EndTypes ==
  ASSUME Inv, TypesInv, NEW s \in Scanners, NEW outcome, End(s, outcome), journal' = journal,
         MetaOK', RowsOK(rows)'
  PROVE  TypesInv'
<1>1. JobOK(NoJob, "idle")
  BY NoJobOK
<1>2. at' = [at EXCEPT ![s] = "idle"] /\ job' = [job EXCEPT ![s] = NoJob]
  BY DEF End
<1> QED BY <1>1, <1>2, SetTypes

\* What a record of the journal does to a job.
LEMMA AppliedOK ==
  ASSUME WellFormed(tree), NEW j, JobOK(j, "apply"), NEW r \in Record
  PROVE  JobOK(Applied(j, r), "apply") /\ Applied(j, r).delta = j.delta
<1>1. /\ AJob(j) /\ RowsOK(j.byRef) /\ RowsOK(j.upserts) /\ r.ref \in Refs
      /\ \A n \in Nat : Row(r, n) \in SnapshotRow
  BY DEF JobOK, Record, Row, SnapshotRow
<1>2. JobOK(Forget(j, r.ref), "apply") /\ Forget(j, r.ref).delta = j.delta
  <2>1. RowsOK(Drop(j.byRef, r.ref))
    BY <1>1 DEF RowsOK, Drop
  <2> QED BY <1>1, <2>1 DEF JobOK, AJob, Forget
<1>3. ASSUME NEW n \in Nat
      PROVE  JobOK(Remember(j, r.ref, Row(r, n)), "apply") /\ Remember(j, r.ref, Row(r, n)).delta = j.delta
  <2> DEFINE row == Row(r, n)
  <2>1. row \in SnapshotRow
    BY <1>1
  <2> HIDE DEF row
  <2>2. RowsOK(Put(j.byRef, r.ref, row)) /\ RowsOK(Put(j.upserts, r.ref, row))
    BY <1>1, <2>1 DEF RowsOK, Put
  <2>3. JobOK(Remember(j, r.ref, row), "apply") /\ Remember(j, r.ref, row).delta = j.delta
    BY <1>1, <2>2 DEF JobOK, AJob, Remember
  <2> QED BY <2>3 DEF row
<1>4. \A path : SizeAt(path) \in Nat \cup {None}
  BY SizesAreNumbers
<1>5. 0 \in Nat
  OBVIOUS
<1> DEFINE size == SizeAt(reconstruct_path(Put(j.byRef, r.ref, Row(r, 0)), r.ref))
<1>6. size = None \/ size \in Nat
  BY <1>4
<1>7. Applied(j, r) = IF r.gone THEN Forget(j, r.ref)
                      ELSE IF r.dir THEN Remember(j, r.ref, Row(r, 0))
                      ELSE IF size = None THEN Forget(j, r.ref)
                      ELSE Remember(j, r.ref, Row(r, size))
  BY DEF Applied
<1> HIDE DEF size
<1> QED BY <1>2, <1>3, <1>5, <1>6, <1>7

\* What is read of the journal is records.
LEMMA DeltaOK ==
  ASSUME TypesInv, TreeOK, NEW id, NEW since \in Nat, Readable(id, since)
  PROVE  read_usn_journal_delta(since) \in Seq(Record)
<1> DEFINE n == IF NextUsn - since > setup.buffer THEN since + setup.buffer - 1 ELSE NextUsn - 1
<1>1. setup.buffer \in Nat /\ journal \in Journal
  BY SetupsAssumption DEF TreeOK, TypesInv
<1>2. since >= 1 /\ NextUsn = Len(journal.records) + 1 /\ Len(journal.records) \in Nat /\ since <= NextUsn
  BY <1>1 DEF Journal, Readable, NextUsn
<1>3. n \in Int /\ n <= Len(journal.records) /\ since \in Int
  BY <1>1, <1>2
<1>4. read_usn_journal_delta(since) = SubSeq(journal.records, since, n)
  BY DEF read_usn_journal_delta
<1> HIDE DEF n
<1>5. \A i \in since..n : journal.records[i] \in Record
  <2>1. \A i \in since..n : i \in 1..Len(journal.records)
    BY <1>2, <1>3
  <2>2. journal.records \in Seq(Record)
    BY <1>1 DEF Journal
  <2> QED BY <2>1, <2>2
<1>6. SubSeq(journal.records, since, n) \in Seq(Record)
  BY <1>3, <1>5, SubSeqProperties
<1> QED BY <1>4, <1>6

\* The steps of the warm path keep the types.
LEMMA WarmTypes ==
  ASSUME Inv, TypesInv, NEW s \in Scanners,
         \/ CheckMeta(s) \/ DropRows(s) \/ LoadRows(s) \/ ReadDelta(s)
         \/ ApplyRecord(s) \/ GiveUp(s) \/ FinishWarm(s)
  PROVE  TypesInv'
<1>1. journal' = journal /\ TreeOK /\ WellFormed(tree) /\ JobOK(job[s], at[s]) /\ MetaOK /\ RowsOK(rows)
  BY DEF CheckMeta, DropRows, LoadRows, ReadDelta, ApplyRecord, GiveUp, FinishWarm, volume, Inv, Typed, TypesInv, TreeOK
<1>2. /\ at \in [Scanners -> Steps] /\ job = [t \in Scanners |-> job[t]]
      /\ journal.id \in Nat \ {0}
  BY DEF Inv, Typed, TypesInv, Journal
<1>3. UNCHANGED snapshot => MetaOK' /\ RowsOK(rows)'
  BY <1>1 DEF snapshot, MetaOK, RowsOK, SnapshotRow
<1>4. meta' = None /\ rows' = rows => MetaOK' /\ RowsOK(rows)'
  BY <1>1 DEF MetaOK, RowsOK, SnapshotRow
<1>5. CASE CheckMeta(s)
  <2>1. job' = job => job' = [job EXCEPT ![s] = job[s]]
    BY <1>2
  <2>2. JobOK(job[s], "drop") /\ JobOK(job[s], "open")
    BY <1>1 DEF JobOK
  <2>3. MetaOK' /\ RowsOK(rows)'
    BY <1>3, <1>4, <1>5 DEF CheckMeta, invalidate_inventory_snapshot
  <2>4. ASSUME job' = job, NEW step \in {"drop", "open"}, at' = [at EXCEPT ![s] = step]
        PROVE  TypesInv'
    BY <1>1, <2>1, <2>2, <2>3, <2>4, SetTypes
  <2>5. CASE /\ job' = [job EXCEPT ![s].id = journal.id, ![s].cursor = meta.cursor]
             /\ at' = [at EXCEPT ![s] = "rows"] /\ meta # None
    <3> DEFINE j == [job[s] EXCEPT !.id = journal.id, !.cursor = meta.cursor]
    <3>1. job' = [job EXCEPT ![s] = j]
      BY <1>2, <2>5
    <3>2. JobOK(j, "rows")
      BY <1>1, <1>2, <2>5 DEF JobOK, AJob, MetaOK
    <3> HIDE DEF j
    <3> QED BY <1>1, <2>3, <2>5, <3>1, <3>2, SetTypes
  <2> QED BY <1>5, <2>4, <2>5 DEF CheckMeta, invalidate_inventory_snapshot, Go
<1>6. CASE LoadRows(s)
  <2> DEFINE j == [job[s] EXCEPT !.byRef = rows]
  <2>1. job' = [job EXCEPT ![s] = j] /\ at' = [at EXCEPT ![s] = "read"] /\ UNCHANGED snapshot /\ at[s] = "rows"
    BY <1>2, <1>6 DEF LoadRows, Go
  <2>2. JobOK(j, "read")
    BY <1>1, <2>1 DEF JobOK, AJob
  <2> HIDE DEF j
  <2> QED BY <1>1, <1>3, <2>1, <2>2, SetTypes
<1>7. CASE ReadDelta(s)
  <2>1. CASE job' = [job EXCEPT ![s] = NoJob] /\ at' = [at EXCEPT ![s] = "open"] /\ UNCHANGED snapshot
    <3>1. JobOK(NoJob, "open")
      BY NoJobOK
    <3> QED BY <1>1, <1>3, <2>1, <3>1, SetTypes
  <2>2. CASE /\ Readable(job[s].id, job[s].cursor) /\ at[s] = "read"
             /\ at' = [at EXCEPT ![s] = "apply"] /\ UNCHANGED snapshot
             /\ LET delta == read_usn_journal_delta(job[s].cursor)
                IN  job' = [job EXCEPT ![s].delta = delta, ![s].cursor = @ + Len(delta)]
    <3> DEFINE delta == read_usn_journal_delta(job[s].cursor)
               j == [job[s] EXCEPT !.delta = delta, !.cursor = @ + Len(delta)]
    <3>1. job' = [job EXCEPT ![s] = j]
      BY <1>2, <2>2
    <3>2. job[s].cursor \in Nat /\ job[s].cursor # 0
      BY <1>1, <2>2 DEF JobOK
    <3>3. delta \in Seq(Record)
      BY <1>1, <2>2, <3>2, DeltaOK
    <3> HIDE DEF delta
    <3>4. job[s].cursor + Len(delta) \in Nat \ {0}
      BY <3>2, <3>3
    <3>5. JobOK(j, "apply")
      BY <1>1, <3>2, <3>3, <3>4 DEF JobOK, AJob
    <3> HIDE DEF j
    <3> QED BY <1>1, <1>3, <2>2, <3>1, <3>5, SetTypes
  <2> QED BY <1>7, <2>1, <2>2 DEF ReadDelta, Go
<1>8. CASE ApplyRecord(s)
  <2> DEFINE r == Head(job[s].delta)
             a == Applied(job[s], r)
             j == [a EXCEPT !.delta = Tail(@)]
  <2>1. /\ at[s] = "apply" /\ job[s].delta # <<>> /\ at' = at /\ UNCHANGED snapshot
        /\ job' = [job EXCEPT ![s] = j]
    BY <1>8 DEF ApplyRecord
  <2>2. JobOK(job[s], "apply") /\ job[s].delta \in Seq(Record)
    BY <1>1, <2>1 DEF JobOK
  <2>3. r \in Record /\ Tail(job[s].delta) \in Seq(Record)
    BY <2>1, <2>2, HeadTailProperties
  <2> HIDE DEF r
  <2>4. JobOK(a, "apply") /\ a.delta = job[s].delta
    BY <1>1, <2>2, <2>3, AppliedOK
  <2> HIDE DEF a
  <2>5. JobOK(j, "apply")
    BY <2>3, <2>4 DEF JobOK, AJob
  <2> HIDE DEF j
  <2>6. at' = [at EXCEPT ![s] = "apply"]
    BY <1>2, <2>1
  <2> QED BY <1>1, <1>3, <2>1, <2>5, <2>6, SetTypes
<1>9. CASE GiveUp(s)
  <2>1. /\ job' = [job EXCEPT ![s] = NoJob] /\ at' = [at EXCEPT ![s] = "drop"]
        /\ meta' = None /\ rows' = rows
    BY <1>9 DEF GiveUp, invalidate_inventory_snapshot, Go
  <2>2. JobOK(NoJob, "drop")
    BY NoJobOK
  <2> QED BY <1>1, <1>4, <2>1, <2>2, SetTypes
<1>10. CASE FinishWarm(s)
  <2>1. at[s] = "apply" /\ apply_inventory_delta(job[s]) /\ \E outcome : End(s, outcome)
    BY <1>10 DEF FinishWarm
  <2> DEFINE j == job[s]
  <2>2. j.cursor \in Nat \ {0} /\ j.id \in 1..journal.id /\ RowsOK(j.upserts)
    BY <1>1, <2>1 DEF JobOK
  <2>3. /\ meta' = [id |-> j.id, cursor |-> j.cursor]
        /\ rows' = [x \in (DOMAIN rows \ j.deletes) \cup DOMAIN j.upserts |->
                      IF x \in DOMAIN j.upserts THEN j.upserts[x] ELSE rows[x]]
    BY <2>1 DEF apply_inventory_delta
  <2> HIDE DEF j
  <2>4. MetaOK'
    BY <1>1, <2>2, <2>3 DEF MetaOK
  <2>5. ASSUME NEW x \in DOMAIN rows' PROVE x \in Refs /\ rows'[x] \in SnapshotRow
    BY <1>1, <2>2, <2>3 DEF RowsOK
  <2>6. RowsOK(rows)'
    BY <2>5 DEF RowsOK, SnapshotRow
  <2> QED BY <1>1, <2>1, <2>4, <2>6, EndTypes
<1>11. CASE DropRows(s)
  <2>1. job' = [job EXCEPT ![s] = job[s]] /\ at' = [at EXCEPT ![s] = "open"] /\ meta' = meta /\ rows' = NoRows
    BY <1>2, <1>11 DEF DropRows, Go
  <2>2. MetaOK' /\ RowsOK(rows)'
    BY <1>1, <2>1 DEF MetaOK, RowsOK, NoRows
  <2>3. JobOK(job[s], "open")
    BY <1>1 DEF JobOK
  <2> QED BY <1>1, <2>1, <2>2, <2>3, SetTypes
<1> QED BY <1>5, <1>6, <1>7, <1>8, <1>9, <1>10, <1>11

\* The steps of the cold path keep the types.
LEMMA ColdTypes ==
  ASSUME Inv, TypesInv, NEW s \in Scanners,
         ColdOpen(s) \/ ColdFails(s) \/ EnumNext(s) \/ EnumEnd(s) \/ ColdStat(s) \/ FinishCold(s)
  PROVE  TypesInv'
<1>1. journal' = journal
  BY Zenon DEF ColdOpen, ColdFails, EnumNext, EnumEnd, ColdStat, FinishCold, volume
<1>2. TreeOK /\ WellFormed(tree) /\ JobOK(job[s], at[s]) /\ MetaOK /\ RowsOK(rows) /\ journal \in Journal
  BY DEF Inv, Typed, TypesInv, TreeOK
<1>3. /\ at \in [Scanners -> Steps] /\ job = [t \in Scanners |-> job[t]]
  BY DEF Inv, Typed, TypesInv
<1>4. UNCHANGED snapshot => MetaOK' /\ RowsOK(rows)'
  BY <1>1, <1>2 DEF snapshot, MetaOK, RowsOK, SnapshotRow
<1>5. CASE ColdOpen(s)
  <2>1. at' = [at EXCEPT ![s] = "enum"] /\ UNCHANGED snapshot
    BY <1>5 DEF ColdOpen, Go
  <2>2. CASE job' = job
    <3>1. job' = [job EXCEPT ![s] = job[s]] /\ JobOK(job[s], "enum")
      BY <1>2, <1>3, <2>2 DEF JobOK
    <3> QED BY <1>1, <1>4, <2>1, <3>1, SetTypes
  <2>3. CASE job' = [job EXCEPT ![s].id = journal.id, ![s].cursor = NextUsn]
    <3> DEFINE j == [job[s] EXCEPT !.id = journal.id, !.cursor = NextUsn]
    <3>1. job' = [job EXCEPT ![s] = j]
      BY <1>3, <2>3
    <3>2. NextUsn \in Nat /\ journal.id \in 1..journal.id
      BY <1>2 DEF Journal, NextUsn
    <3>3. JobOK(j, "enum")
      BY <1>2, <3>2 DEF JobOK, AJob
    <3> HIDE DEF j
    <3> QED BY <1>1, <1>4, <2>1, <3>1, <3>3, SetTypes
  <2> QED BY <1>5, <2>2, <2>3 DEF ColdOpen
<1>6. CASE ColdFails(s)
  <2>1. job' = [job EXCEPT ![s] = NoJob] /\ at' = [at EXCEPT ![s] = "walk"] /\ UNCHANGED snapshot
    BY <1>6 DEF ColdFails, Go
  <2>2. JobOK(NoJob, "walk")
    BY NoJobOK
  <2> QED BY <1>1, <1>4, <2>1, <2>2, SetTypes
<1>7. CASE EnumNext(s)
  <2> DEFINE x == CHOOSE y \in Unread(s) : \A z \in Unread(s) : y <= z
             row == Row(RecordOf(x, tree[x], FALSE), 0)
             j == [job[s] EXCEPT !.byRef = Put(@, x, row), !.page = x]
  <2>1. at[s] = "enum" /\ Unread(s) # {} /\ at' = at /\ UNCHANGED snapshot
    BY Zenon, <1>7 DEF EnumNext
  <2>2. x \in DOMAIN tree
    <3>1. DOMAIN tree \subseteq Nat /\ Unread(s) \subseteq DOMAIN tree
      BY <1>2, RefsAssumption DEF WellFormed, Unread
    <3>2. \E y \in Unread(s) : \A z \in Unread(s) : y <= z
      BY <2>1, <3>1, Least
    <3> QED BY <3>1, <3>2
  <2>3. job' = [job EXCEPT ![s].byRef = Put(@, x, row), ![s].page = x]
    BY Zenon, <1>7 DEF EnumNext
  <2> HIDE DEF x
  <2>4. x \in Refs /\ row \in SnapshotRow
    BY <1>2, <2>2, RecordsAreRecords DEF WellFormed
  <2> HIDE DEF row
  <2>5. RowsOK(Put(job[s].byRef, x, row))
    BY <1>2, <2>4 DEF JobOK, RowsOK, Put
  <2>6. JobOK(j, "enum")
    BY <1>2, <2>5 DEF JobOK, AJob
  <2>7. job' = [job EXCEPT ![s] = j] /\ at' = [at EXCEPT ![s] = "enum"]
    BY <1>3, <2>1, <2>3
  <2> HIDE DEF j
  <2> QED BY <1>1, <1>4, <2>1, <2>6, <2>7, SetTypes
<1>8. CASE EnumEnd(s)
  <2> DEFINE j == [job[s] EXCEPT !.todo = FilesOf(job[s].byRef)]
  <2>1. job' = [job EXCEPT ![s] = j] /\ at' = [at EXCEPT ![s] = "stat"] /\ UNCHANGED snapshot
    BY <1>3, <1>8 DEF EnumEnd, Go
  <2>2. JobOK(j, "stat")
    BY <1>2 DEF JobOK, AJob
  <2> HIDE DEF j
  <2> QED BY <1>1, <1>4, <2>1, <2>2, SetTypes
<1>9. CASE ColdStat(s)
  <2>1. at[s] = "stat" /\ at' = at /\ UNCHANGED snapshot
    BY <1>9 DEF ColdStat
  <2>2. PICK x \in job[s].todo :
          LET size == SizeAt(reconstruct_path(job[s].byRef, x))
          IN  job' = [job EXCEPT ![s].todo = @ \ {x}, ![s].sizes = IF size = None THEN @ ELSE Put(@, x, size)]
    BY <1>9 DEF ColdStat
  <2> DEFINE size == SizeAt(reconstruct_path(job[s].byRef, x))
             sizes == IF size = None THEN job[s].sizes ELSE Put(job[s].sizes, x, size)
             j == [job[s] EXCEPT !.todo = @ \ {x}, !.sizes = sizes]
  <2>3. job' = [job EXCEPT ![s] = j] /\ at' = [at EXCEPT ![s] = "stat"]
    BY <1>3, <2>1, <2>2
  <2>4. size \in Nat \cup {None}
    BY <1>2, SizesAreNumbers
  <2> HIDE DEF size
  <2>5. \A y \in DOMAIN sizes : sizes[y] \in Nat
    BY <1>2, <2>4 DEF JobOK, Put
  <2> HIDE DEF sizes
  <2>6. JobOK(j, "stat")
    BY <1>2, <2>5 DEF JobOK, AJob
  <2> HIDE DEF j
  <2> QED BY <1>1, <1>4, <2>1, <2>3, <2>6, SetTypes
<1>10. CASE FinishCold(s)
  <2> DEFINE j == job[s]
  <2>1. \E outcome : End(s, outcome)
    BY <1>10 DEF FinishCold
  <2>2. CASE UNCHANGED snapshot
    BY <1>1, <1>4, <2>1, <2>2, EndTypes
  <2>3. CASE j.cursor # 0 /\ persist_cold_snapshot(j)
    <3>1. j.cursor \in Nat \ {0} /\ j.id \in 1..journal.id /\ RowsOK(j.byRef) /\ \A x \in DOMAIN j.sizes : j.sizes[x] \in Nat
      BY <1>2, <2>3 DEF JobOK
    <3>2. /\ meta' = [id |-> j.id, cursor |-> j.cursor]
          /\ rows' = [x \in DOMAIN j.byRef |->
                        [j.byRef[x] EXCEPT !.size = IF x \in DOMAIN j.sizes THEN j.sizes[x] ELSE 0]]
      BY <2>3 DEF persist_cold_snapshot
    <3> HIDE DEF j
    <3>3. MetaOK'
      BY <1>1, <3>1, <3>2 DEF MetaOK
    <3>4. ASSUME NEW x \in DOMAIN rows' PROVE x \in Refs /\ rows'[x] \in SnapshotRow
      <4>1. x \in Refs /\ j.byRef[x] \in SnapshotRow /\ x \in DOMAIN j.byRef
        BY <3>1, <3>2 DEF RowsOK
      <4> DEFINE n == IF x \in DOMAIN j.sizes THEN j.sizes[x] ELSE 0
      <4>2. n \in Nat
        BY <3>1
      <4>3. rows'[x] = [j.byRef[x] EXCEPT !.size = n]
        BY <3>2, <4>1
      <4> HIDE DEF n
      <4> QED BY <4>1, <4>2, <4>3 DEF SnapshotRow
    <3>5. RowsOK(rows)'
      BY <3>4 DEF RowsOK, SnapshotRow
    <3> QED BY <1>1, <2>1, <3>3, <3>5, EndTypes
  <2> QED BY <1>10, <2>2, <2>3 DEF FinishCold
<1> QED BY <1>5, <1>6, <1>7, <1>8, <1>9, <1>10

\* They hold at first.
LEMMA TypesInit == Init => TypesInv
<1> SUFFICES ASSUME Init PROVE TypesInv
  OBVIOUS
<1>1. /\ setup \in Setups /\ meta = setup.meta /\ rows = setup.rows
      /\ journal = [id |-> 1, first |-> 1, records |-> <<>>]
      /\ at = [s \in Scanners |-> "idle"] /\ job = [s \in Scanners |-> NoJob]
  BY DEF Init, WarmInit, VolumeInit
<1>2. journal \in Journal /\ journal.id = 1
  BY <1>1, EmptySeq DEF Journal
<1>3. MetaOK /\ RowsOK(rows)
  BY <1>1, <1>2, SnapshotsAssumption DEF MetaOK, RowsOK
<1>4. \A s \in Scanners : JobOK(job[s], at[s])
  BY <1>1, NoJobOK
<1> QED BY <1>1, <1>2, <1>3, <1>4 DEF TypesInv

\* Every step keeps them.
LEMMA TypesNext ==
  ASSUME Inv, TypesInv, [Next]_vars
  PROVE  TypesInv'
<1>1. MetaOK /\ RowsOK(rows) /\ journal \in Journal
      /\ job = [s \in Scanners |-> job[s]] /\ \A s \in Scanners : JobOK(job[s], at[s])
  BY DEF TypesInv
<1>2. ASSUME journal' = journal, UNCHANGED snapshot PROVE MetaOK' /\ RowsOK(rows)'
  BY <1>1, <1>2 DEF snapshot, MetaOK, RowsOK, SnapshotRow
<1>3. ASSUME journal' = journal, UNCHANGED snapshot, job' = job, at' = at PROVE TypesInv'
  <2>1. \A s \in Scanners : JobOK(job[s], at[s])'
    BY <1>1, <1>3 DEF JobOK, AJob, RowsOK, SnapshotRow, Record
  <2>2. journal' \in Journal' /\ Journal' = Journal
    BY <1>1, <1>3 DEF Journal, Record
  <2> QED BY <1>1, <1>2, <1>3, <2>1, <2>2 DEF TypesInv
<1>4. CASE Change /\ UNCHANGED <<setup, snapshot, at, job, list, runs, kills, TheWalk>>
  BY <1>4, ChangeTypes
<1>5. ASSUME NEW s \in Scanners, Begin(s) PROVE TypesInv'
  <2>1. /\ journal' = journal /\ UNCHANGED snapshot /\ job' = job /\ at[s] = "idle"
        /\ \E step \in {"meta", "walk"} : at' = [at EXCEPT ![s] = step]
    BY <1>5 DEF Begin, volume
  <2>2. PICK step \in {"meta", "walk"} : at' = [at EXCEPT ![s] = step]
    BY <2>1
  <2>3. job' = [job EXCEPT ![s] = job[s]] /\ JobOK(job[s], step)
    BY <1>1, <1>5, <2>1, <2>2 DEF JobOK
  <2> QED BY <1>2, <1>5, <2>1, <2>2, <2>3, SetTypes
<1>6. ASSUME NEW s \in Scanners, TableStep(s) PROVE TypesInv'
  BY <1>6, WarmTypes, ColdTypes DEF TableStep
<1>7. ASSUME NEW s \in Scanners, NEW outcome, End(s, outcome), journal' = journal, UNCHANGED snapshot
      PROVE  TypesInv'
  BY <1>2, <1>7, EndTypes
<1>8. ASSUME NEW s \in Scanners, WalkStep(s) PROVE TypesInv'
  <2>1. CASE FinishWalk(s)
    <3>1. journal' = journal /\ UNCHANGED snapshot /\ \E outcome : End(s, outcome)
      BY <2>1 DEF FinishWalk, volume
    <3> QED BY <1>7, <3>1
  <2>2. CASE \E i \in Roots : OpenRoot(s, i) \/ Announce(s, i) \/ Harvest(s, i) \/ NextLayer(s, i)
    BY <1>3, <2>2, LaneStepKeeps
  <2> QED BY <1>8, <2>1, <2>2 DEF WalkStep
<1>9. ASSUME NEW s \in Scanners, Cancel(s) PROVE TypesInv'
  BY <1>3, <1>9 DEF Cancel, warmVars, volume
<1>10. ASSUME NEW s \in Scanners, Kill(s) PROVE TypesInv'
  <2>1. journal' = journal /\ UNCHANGED snapshot /\ End(s, None)
    BY <1>10 DEF Kill, volume
  <2> QED BY <1>7, <2>1
<1>11. CASE UNCHANGED vars
  BY <1>3, <1>11 DEF vars, warmVars, volume
<1> QED BY <1>4, <1>5, <1>6, <1>8, <1>9, <1>10, <1>11 DEF Next

\* They hold in every state.
LEMMA TypesHold == Spec => []TypesInv
<1>1. Inv /\ TypesInv /\ [Next]_vars => TypesInv'
  BY TypesNext
<1> QED BY <1>1, TypesInit, InvHolds, PTL DEF Spec

\* The variables hold what they are said to: the journal and the snapshot records, and the
\* snapshot a cursor of a journal there has been.
THEOREM TypeCorrect == Spec => []TypeOK
<1>1. Inv /\ TypesInv => TypeOK
  BY DEF Inv, Typed, TreeOK, WellFormed, TypesInv, Journal, MetaOK, RowsOK, TypeOK
<1> QED BY <1>1, InvHolds, TypesHold, PTL

-----------------------------------------------------------------------------
(* The snapshot and the journal.                                             *)

\* Where the setup may have an entry stand, and of what kind it may be.
Stands(x) ==
  {<<setup.tree[y].parent, setup.tree[y].name>> : y \in {x} \cap DOMAIN setup.tree}
    \cup {<<c.entry.parent, c.entry.name>> : c \in {b \in setup.changes : b.do = "create" /\ b.ref = x}}
    \cup {<<c.parent, c.name>> : c \in {b \in setup.changes : b.do = "move" /\ b.ref = x}}

Kinds(x) ==
  {setup.tree[y].kind : y \in {x} \cap DOMAIN setup.tree}
    \cup {c.entry.kind : c \in {b \in setup.changes : b.do = "create" /\ b.ref = x}}

\* The row a snapshot should have of an entry.
RowOf(x, e) == Row(RecordOf(x, e, FALSE), IF e.kind = "file" THEN e.size ELSE 0)

\* The setups in which the snapshot follows the journal: one scanner, a snapshot of the
\* volume as it first is if any, no links, directories that come and stay where they are,
\* and no place that two entries stand in, not even one after the other.
FoldersStay ==
  /\ \A s, t \in setup.scanners : s = t
  /\ setup.meta # None =>
       setup.meta.cursor = 1 /\ setup.rows = [x \in DOMAIN setup.tree |-> RowOf(x, setup.tree[x])]
  /\ \A x \in Refs : "link" \notin Kinds(x)
  /\ \A c \in setup.changes : c.do \in {"move", "remove"} => Kinds(c.ref) \subseteq {"file"}
  /\ \A x, y \in Refs : x # y => Stands(x) \cap Stands(y) = {}

\* The entries the journal tells of from the n-th record on.
Ahead(n) == {journal.records[m].ref : m \in n..Len(journal.records)}

\* A map of rows that is the volume but for the entries the journal tells of from there.
CatchUp(n, map) ==
  /\ \A x \in DOMAIN tree \ Ahead(n) : x \in DOMAIN map /\ map[x] = RowOf(x, tree[x])
  /\ \A x \in FilesOf(map) \ Ahead(n) : x \in DOMAIN tree

\* The last record of an entry tells what it is; the directory of a record that is not of
\* an end is there, and the journal tells no more of it.
RecordSound(n) ==
  LET r == journal.records[n]
  IN  /\ r.ref \notin Ahead(n + 1) =>
           IF r.gone THEN r.ref \notin DOMAIN tree
           ELSE r.ref \in DOMAIN tree /\ r = RecordOf(r.ref, tree[r.ref], FALSE)
      /\ \/ r.gone \/ r.parent = Top
         \/ r.parent \in DOMAIN tree /\ tree[r.parent].kind = "dir" /\ r.parent \notin Ahead(n)
      /\ <<r.parent, r.name>> \in Stands(r.ref)

LogSound ==
  /\ \A x \in DOMAIN tree :
       /\ <<tree[x].parent, tree[x].name>> \in Stands(x) /\ tree[x].kind \in Kinds(x)
       /\ \A n \in 1..NextUsn :
            x \notin Ahead(n) => tree[x].parent = Top \/ tree[x].parent \notin Ahead(n)
  /\ \A n \in 1..Len(journal.records) : RecordSound(n)

SnapshotSound ==
  meta # None /\ meta.id = journal.id => meta.cursor <= NextUsn /\ CatchUp(meta.cursor, rows)

\* A warm inventory before its delta has been read works on the snapshot as it is.
OfMeta(j) == meta # None /\ j.id = meta.id /\ j.cursor = meta.cursor /\ j.upserts = NoRows /\ j.deletes = {}

\* The snapshot with the deletes and upserts so far is the map.
OfRows(j) ==
  /\ \A x \in DOMAIN j.byRef :
       \/ x \in DOMAIN j.upserts /\ j.upserts[x] = j.byRef[x]
       \/ x \notin DOMAIN j.upserts /\ x \in DOMAIN rows \ j.deletes /\ rows[x] = j.byRef[x]
  /\ DOMAIN rows \subseteq DOMAIN j.byRef \cup j.deletes

\* The first record that is still to be applied.
Upto(j) == j.cursor - Len(j.delta)

\* While the delta is applied the map catches up from the first record still to come.
ApplySound(j) ==
  j.id = journal.id =>
    /\ OfRows(j)
    /\ 1 <= Upto(j) /\ j.cursor <= NextUsn
    /\ \A i \in 1..Len(j.delta) : j.delta[i] = journal.records[Upto(j) + i - 1]
    /\ CatchUp(Upto(j), j.byRef)
    /\ \A x \in FilesOf(j.upserts) : x \in DOMAIN tree \/ x \in Ahead(j.cursor)

\* The records of the table read so far are of the volume, but for what has changed since.
TableRowOf(x) == Row(RecordOf(x, tree[x], FALSE), 0)

Live(j) == j.cursor # 0 /\ j.id = journal.id

EnumSound(j) ==
  Live(j) =>
    /\ j.cursor <= NextUsn /\ j.page \in Nat
    /\ \A x \in DOMAIN tree \ Ahead(j.cursor) :
         x <= j.page => x \in DOMAIN j.byRef /\ j.byRef[x] = TableRowOf(x)
    /\ \A x \in FilesOf(j.byRef) \ Ahead(j.cursor) : x \in DOMAIN tree

StatSound(j) ==
  /\ j.todo \cup DOMAIN j.sizes \subseteq FilesOf(j.byRef)
  /\ Live(j) =>
       /\ j.cursor <= NextUsn
       /\ \A x \in DOMAIN tree \ Ahead(j.cursor) :
            /\ x \in DOMAIN j.byRef /\ j.byRef[x] = TableRowOf(x)
            /\ IsFile(x) => x \in j.todo \/ (x \in DOMAIN j.sizes /\ j.sizes[x] = tree[x].size)
       /\ \A x \in FilesOf(j.byRef) \ Ahead(j.cursor) : x \in DOMAIN tree

JobIs(j, step) ==
  /\ step = "drop" => meta = None
  /\ step \in {"rows", "read"} => OfMeta(j)
  /\ step = "read" => j.byRef = rows
  /\ step = "apply" => ApplySound(j)
  /\ step = "enum" => EnumSound(j)
  /\ step = "stat" => StatSound(j)

JobSound(s) == (s \notin setup.scanners => at[s] = "idle") /\ JobIs(job[s], at[s])

\* The inductive invariant of the snapshot; it rests on those of the walk, of the table
\* and of the types.
Follows == LogSound /\ SnapshotSound /\ \A s \in Scanners : JobSound(s)

\* The setup stays, and with it what it says.
LEMMA FoldersStayPut ==
  ASSUME setup' = setup
  PROVE  /\ FoldersStay' = FoldersStay
         /\ \A x : Stands(x)' = Stands(x) /\ Kinds(x)' = Kinds(x)
BY DEF FoldersStay, Stands, Kinds, RowOf, Row, RecordOf

\* The entries ahead of a record are its own and those ahead of the next.
LEMMA AheadOfNext ==
  ASSUME journal \in Journal, NEW n \in 1..Len(journal.records)
  PROVE  Ahead(n) = Ahead(n + 1) \cup {journal.records[n].ref}
<1>1. Len(journal.records) \in Nat
  BY DEF Journal
<1>2. n..Len(journal.records) = ((n + 1)..Len(journal.records)) \cup {n}
  BY <1>1
<1> QED BY <1>2 DEF Ahead

-----------------------------------------------------------------------------
(* The paths a map of records gives, where it has the volume's directories.  *)

\* A map that has the entries of a set closed under "directory of" as they are gives
\* what stands in one of them the path to it and a name.
LEMMA PathByParent ==
  ASSUME WellFormed(tree), NEW map, RowsOK(map), NEW C \in SUBSET DOMAIN tree,
         \A y \in C : /\ y \in DOMAIN map
                      /\ map[y].parent = tree[y].parent /\ map[y].name = tree[y].name
                      /\ tree[y].parent = Top \/ tree[y].parent \in C,
         NEW x \in DOMAIN map, map[x].parent = Top \/ map[x].parent \in C
  PROVE  reconstruct_path(map, x) = Append(DirPath(map[x].parent), map[x].name)
<1> DEFINE N == Cardinality(Refs)
<1>1. /\ N \in Nat /\ Top \notin DOMAIN tree /\ Top \notin DOMAIN map
      /\ \A y \in DOMAIN map : map[y].name \in STRING
  BY RefsCount, RefsAssumption DEF WellFormed, RowsOK, SnapshotRow
<1>2. PICK f : MapRounds(map, f) /\ \A y \in DOMAIN map : reconstruct_path(map, y) = f[N][y]
  BY <1>1, MapPaths
<1>3. PICK paths : Rounds(paths) /\ \A y \in DOMAIN tree : PathOf(y) = paths[N][y]
  BY PathRounds
<1>4. CASE map[x].parent = Top
  <2>1. f[N][x] = <<map[x].name>>
    <3>1. N = 0 \/ N \in 1..N
      BY <1>1
    <3> QED BY <1>1, <1>2, <1>4, <3>1 DEF MapRounds
  <2>2. <<map[x].name>> = Append(<<>>, map[x].name)
    OBVIOUS
  <2> QED BY <1>2, <1>4, <2>1, <2>2 DEF DirPath
<1>5. CASE map[x].parent \in C
  <2> DEFINE T == {n \in Nat : n <= N => \A y \in C : f[n][y] = paths[n][y]}
  <2>1. 0 \in T
    <3>1. ASSUME NEW y \in C PROVE f[0][y] = <<tree[y].name>>
      BY <1>2 DEF MapRounds
    <3>2. ASSUME NEW y \in C PROVE paths[0][y] = <<tree[y].name>>
      BY <1>3 DEF Rounds, Named
    <3> QED BY <3>1, <3>2
  <2>2. ASSUME NEW n \in Nat, n \in T PROVE n + 1 \in T
    <3> SUFFICES ASSUME n + 1 <= N, NEW y \in C PROVE f[n + 1][y] = paths[n + 1][y]
      OBVIOUS
    <3>1. n + 1 \in 1..N /\ (n + 1) - 1 = n /\ \A z \in C : f[n][z] = paths[n][z]
      BY <1>1, <2>2
    <3>2. paths[n + 1][y] = IF tree[y].parent \notin DOMAIN tree THEN <<tree[y].name>>
                            ELSE Append(paths[n][tree[y].parent], tree[y].name)
      <4>1. paths[n + 1] = Longer(paths[n])
        BY <1>3, <3>1 DEF Rounds
      <4> QED BY <4>1 DEF Longer, Named
    <3>3. /\ map[y].parent \notin DOMAIN map => f[n + 1][y] = <<map[y].name>>
          /\ map[y].parent \in DOMAIN map => f[n + 1][y] = Append(f[n][map[y].parent], map[y].name)
      BY <1>2, <3>1 DEF MapRounds
    <3>4. CASE tree[y].parent = Top
      BY <1>1, <3>2, <3>3, <3>4
    <3>5. CASE tree[y].parent \in C
      BY <3>1, <3>2, <3>3, <3>5
    <3> QED BY <3>4, <3>5
  <2> HIDE DEF T
  <2>3. \A n \in Nat : n \in T
    BY <2>1, <2>2, Induction
  <2>4. N \in 1..N /\ \A y \in C : paths[N][y] = paths[N - 1][y]
    BY <1>3, <1>5, PathsSettle
  <2>5. N - 1 \in Nat /\ N - 1 <= N
    BY <2>4
  <2>6. f[N - 1][map[x].parent] = paths[N - 1][map[x].parent]
    <3>1. N - 1 \in T
      BY <2>3, <2>5
    <3> HIDE DEF N
    <3> QED BY <1>5, <2>5, <3>1 DEF T
  <2>7. f[N][x] = Append(f[N - 1][map[x].parent], map[x].name)
    <3>1. map[x].parent \in DOMAIN map
      BY <1>5
    <3> QED BY <1>2, <2>4, <3>1 DEF MapRounds
  <2>8. PathOf(map[x].parent) = paths[N - 1][map[x].parent] /\ DirPath(map[x].parent) = PathOf(map[x].parent)
    <3>1. map[x].parent \in DOMAIN tree /\ map[x].parent # Top
      BY <1>1, <1>5
    <3> QED BY <1>3, <1>5, <2>4, <3>1 DEF DirPath
  <2> QED BY <1>2, <2>6, <2>7, <2>8
<1> QED BY <1>4, <1>5

\* On a volume without links that path leads where the directory has the name.
LEMMA LedByParent ==
  ASSUME TreeOK, \A y \in DOMAIN tree : tree[y].kind # "link",
         NEW map, RowsOK(map), NEW C \in SUBSET DOMAIN tree,
         \A y \in C : /\ y \in DOMAIN map
                      /\ map[y].parent = tree[y].parent /\ map[y].name = tree[y].name
                      /\ tree[y].parent = Top \/ tree[y].parent \in C,
         NEW x \in DOMAIN map, map[x].parent = Top \/ map[x].parent \in C
  PROVE  Resolve(reconstruct_path(map, x)) = Step(map[x].parent, map[x].name)
<1>1. WellFormed(tree) /\ map[x].name \in STRING
  BY DEF TreeOK, RowsOK, SnapshotRow
<1>2. reconstruct_path(map, x) = Append(DirPath(map[x].parent), map[x].name)
  BY <1>1, PathByParent
<1>3. DirPath(map[x].parent) \in Seq(STRING) /\ Resolve(DirPath(map[x].parent)) = map[x].parent
  <2>1. CASE map[x].parent = Top
    <3>1. DirPath(map[x].parent) = <<>> /\ <<>> \in Seq(STRING)
      BY <2>1 DEF DirPath
    <3> QED BY <1>1, <2>1, <3>1, ResolveEmpty
  <2>2. CASE map[x].parent # Top
    <3>1. map[x].parent \in DOMAIN tree /\ DirPath(map[x].parent) = PathOf(map[x].parent)
      BY <2>2 DEF DirPath
    <3> QED BY <1>1, <3>1, PathsOfRecords, RecordPathsLead
  <2> QED BY <2>1, <2>2
<1> QED BY <1>1, <1>2, <1>3, ResolveAppend

-----------------------------------------------------------------------------
(* What other programs do, and the journal.                                  *)

\* An entry is changed, no directory, and the journal gets records of it.
Logs(x) ==
  /\ x \in Refs /\ (x \in DOMAIN tree => tree[x].kind = "file")
  /\ \A y \in DOMAIN tree \cup DOMAIN tree' :
       y # x => y \in DOMAIN tree /\ y \in DOMAIN tree' /\ tree'[y] = tree[y]
  /\ journal'.id = journal.id /\ Len(journal'.records) > Len(journal.records)
  /\ \A n \in 1..Len(journal'.records) :
       IF n <= Len(journal.records) THEN journal'.records[n] = journal.records[n]
       ELSE journal'.records[n].ref = x

\* Then the entry is ahead of every cursor there was.
LEMMA LogsAhead ==
  ASSUME journal \in Journal, journal' \in Journal, NEW x, Logs(x)
  PROVE  /\ NextUsn \in Nat \ {0} /\ NextUsn' \in Nat /\ NextUsn < NextUsn'
         /\ \A n \in 1..NextUsn : Ahead(n)' = Ahead(n) \cup {x}
         /\ \A n \in Nat : n < NextUsn' => x \in Ahead(n)'
         /\ \A n \in Nat : n >= NextUsn => Ahead(n)' \subseteq {x}
<1> DEFINE L == Len(journal.records)
           M == Len(journal'.records)
<1>1. L \in Nat /\ M \in Nat /\ L < M
  BY DEF Journal, Logs
<1>2. NextUsn = L + 1 /\ NextUsn' = M + 1
  BY DEF NextUsn
<1>3. \A n \in Nat : n >= 1 => \A m \in n..M : IF m <= L THEN journal'.records[m] = journal.records[m]
                                          ELSE journal'.records[m].ref = x
  BY <1>1 DEF Logs
<1>4. \A n : Ahead(n)' = {journal'.records[m].ref : m \in n..M} /\ Ahead(n) = {journal.records[m].ref : m \in n..L}
  BY DEF Ahead
<1> HIDE DEF L, M
<1>5. ASSUME NEW n \in Nat, n <= M PROVE x \in Ahead(n)'
  <2>1. M \in n..M /\ M \in M..M /\ M >= 1 /\ ~ (M <= L)
    BY <1>1, <1>5
  <2>2. journal'.records[M].ref = x
    BY <1>3, <2>1, <1>1
  <2> QED BY <1>4, <2>1, <2>2
<1>6. ASSUME NEW n \in 1..NextUsn PROVE Ahead(n)' = Ahead(n) \cup {x}
  <2>1. n \in Nat /\ n >= 1 /\ n <= M
    BY <1>1, <1>2
  <2>2. x \in Ahead(n)'
    BY <1>5, <2>1
  <2>3. ASSUME NEW m \in n..L PROVE m \in n..M /\ journal'.records[m] = journal.records[m]
    BY <1>1, <1>3, <2>1
  <2>4. ASSUME NEW m \in n..M PROVE m \in n..L \/ journal'.records[m].ref = x
    BY <1>1, <1>3, <2>1
  <2> QED BY <1>4, <2>2, <2>3, <2>4
<1>7. ASSUME NEW n \in Nat, n >= NextUsn PROVE Ahead(n)' \subseteq {x}
  <2>1. \A m \in n..M : ~ (m <= L) /\ n >= 1
    BY <1>1, <1>2, <1>7
  <2> QED BY <1>3, <1>4, <2>1
<1> QED BY <1>1, <1>2, <1>5, <1>6, <1>7

\* What has caught up with the volume from a cursor on still has.
LEMMA CatchUpKept ==
  ASSUME journal \in Journal, journal' \in Journal, NEW x, Logs(x), NEW n \in 1..NextUsn
  PROVE  \A map : CatchUp(n, map) => CatchUp(n, map)'
<1>1. Ahead(n)' = Ahead(n) \cup {x}
  BY LogsAhead
<1> SUFFICES ASSUME NEW map, CatchUp(n, map) PROVE CatchUp(n, map)'
  OBVIOUS
<1>2. \A y \in DOMAIN tree' \ Ahead(n)' : y \in DOMAIN tree \ Ahead(n) /\ tree'[y] = tree[y]
  BY <1>1 DEF Logs
<1>3. \A y \in FilesOf(map) \ Ahead(n)' : y \in DOMAIN tree'
  BY <1>1 DEF CatchUp, Logs
<1> QED BY <1>2, <1>3 DEF CatchUp, FilesOf, RowOf, Row, RecordOf

\* The journal tells the truth of the entry too, if the records it gets do.
LEMMA LogGrows ==
  ASSUME WellFormed(tree), WellFormed(tree'), journal \in Journal, journal' \in Journal, setup' = setup,
         LogSound, NEW x, Logs(x),
         x \in DOMAIN tree' =>
           <<tree'[x].parent, tree'[x].name>> \in Stands(x) /\ tree'[x].kind \in Kinds(x),
         \A n \in NextUsn..Len(journal'.records) :
           /\ <<journal'.records[n].parent, journal'.records[n].name>> \in Stands(x)
           /\ journal'.records[n].gone \/ IsDir(journal'.records[n].parent),
         LET r == journal'.records[Len(journal'.records)]
         IN  IF r.gone THEN x \notin DOMAIN tree'
             ELSE x \in DOMAIN tree' /\ r = RecordOf(x, tree'[x], FALSE)
  PROVE  LogSound'
<1> DEFINE L == Len(journal.records)
           M == Len(journal'.records)
<1>1. /\ L \in Nat /\ M \in Nat /\ L < M /\ NextUsn = L + 1 /\ NextUsn' = M + 1
      /\ \A n \in 1..M : IF n <= L THEN journal'.records[n] = journal.records[n]
                         ELSE journal'.records[n].ref = x
  BY DEF Journal, Logs, NextUsn
<1>2. /\ \A n \in 1..NextUsn : Ahead(n)' = Ahead(n) \cup {x}
      /\ \A n \in Nat : n < NextUsn' => x \in Ahead(n)'
      /\ \A n \in Nat : n >= NextUsn => Ahead(n)' \subseteq {x}
  BY LogsAhead
<1>3. /\ \A n \in Nat : n = NextUsn' => Ahead(n)' = {}
      /\ \A y : Stands(y)' = Stands(y) /\ Kinds(y)' = Kinds(y)
  <2>1. \A n \in Nat : n = M + 1 => n..M = {}
    BY <1>1
  <2>2. \A n : Ahead(n)' = {journal'.records[m].ref : m \in n..M}
    BY DEF Ahead
  <2> HIDE DEF M
  <2> QED BY <1>1, <2>1, <2>2, FoldersStayPut
<1>4. \A d : d \in DOMAIN tree /\ tree[d].kind = "dir" => d # x /\ d \in DOMAIN tree' /\ tree'[d] = tree[d]
  BY DEF Logs
<1>5. \A y \in DOMAIN tree : tree[y].parent # x
  BY <1>4, RefsAssumption DEF WellFormed, Logs
<1>6. ASSUME NEW y \in DOMAIN tree'
      PROVE  /\ <<tree'[y].parent, tree'[y].name>> \in Stands(y)' /\ tree'[y].kind \in Kinds(y)'
             /\ \A n \in 1..NextUsn' :
                  y \notin Ahead(n)' => tree'[y].parent = Top \/ tree'[y].parent \notin Ahead(n)'
  <2>1. <<tree'[y].parent, tree'[y].name>> \in Stands(y) /\ tree'[y].kind \in Kinds(y)
    <3>1. CASE y = x
      BY <3>1
    <3>2. CASE y # x
      <4>1. y \in DOMAIN tree /\ tree'[y] = tree[y]
        BY <3>2 DEF Logs
      <4> QED BY <4>1 DEF LogSound
    <3> QED BY <3>1, <3>2
  <2>2. ASSUME NEW n \in 1..NextUsn', y \notin Ahead(n)', tree'[y].parent # Top
        PROVE  tree'[y].parent \notin Ahead(n)'
    <3>1. CASE n = NextUsn'
      BY <1>3, <3>1
    <3>2. CASE n < NextUsn'
      <4>1. n \in Nat /\ y # x
        BY <1>1, <1>2, <2>2, <3>2
      <4>2. y \in DOMAIN tree /\ tree'[y] = tree[y] /\ tree[y].parent # x
        BY <1>5, <4>1 DEF Logs
      <4>3. CASE n <= NextUsn
        <5>1. n \in 1..NextUsn /\ Ahead(n)' = Ahead(n) \cup {x}
          BY <1>1, <1>2, <4>1, <4>3
        <5>2. tree[y].parent \notin Ahead(n)
          BY <2>2, <4>2, <5>1 DEF LogSound
        <5> QED BY <4>2, <5>1, <5>2
      <4>4. CASE n > NextUsn
        BY <1>1, <1>2, <4>1, <4>2, <4>4
      <4> QED BY <1>1, <4>1, <4>3, <4>4
    <3> QED BY <1>1, <3>1, <3>2
  <2> QED BY <1>3, <2>1, <2>2
<1>7. ASSUME NEW n \in 1..M PROVE RecordSound(n)'
  <2> DEFINE r == journal'.records[n]
  <2>1. CASE n <= L
    <3>1. r = journal.records[n] /\ RecordSound(n) /\ n \in 1..NextUsn /\ n + 1 \in 1..NextUsn
      BY <1>1, <2>1 DEF LogSound
    <3>2. Ahead(n)' = Ahead(n) \cup {x} /\ Ahead(n + 1)' = Ahead(n + 1) \cup {x}
      BY <1>2, <3>1
    <3> HIDE DEF r
    <3>3. /\ r.ref \notin Ahead(n + 1) =>
               IF r.gone THEN r.ref \notin DOMAIN tree
               ELSE r.ref \in DOMAIN tree /\ r = RecordOf(r.ref, tree[r.ref], FALSE)
          /\ \/ r.gone \/ r.parent = Top
             \/ r.parent \in DOMAIN tree /\ tree[r.parent].kind = "dir" /\ r.parent \notin Ahead(n)
          /\ <<r.parent, r.name>> \in Stands(r.ref)
      BY <3>1 DEF RecordSound
    <3>4. ASSUME r.ref \notin Ahead(n + 1)'
          PROVE  IF r.gone THEN r.ref \notin DOMAIN tree'
                 ELSE r.ref \in DOMAIN tree' /\ r = RecordOf(r.ref, tree'[r.ref], FALSE)
      <4>1. r.ref # x /\ r.ref \notin Ahead(n + 1)
        BY <3>2, <3>4
      <4> QED BY <3>3, <4>1 DEF Logs, RecordOf
    <3>5. \/ r.gone \/ r.parent = Top
          \/ r.parent \in DOMAIN tree' /\ tree'[r.parent].kind = "dir" /\ r.parent \notin Ahead(n)'
      BY <1>4, <3>2, <3>3
    <3>6. journal'.records[n] = r
      BY DEF r
    <3> QED BY <1>3, <3>3, <3>4, <3>5, <3>6 DEF RecordSound, RecordOf
  <2>2. CASE n > L
    <3>1. r.ref = x /\ n \in NextUsn..M /\ n \in Nat /\ n >= NextUsn
      BY <1>1, <2>2
    <3>2. ASSUME r.ref \notin Ahead(n + 1)'
          PROVE  IF r.gone THEN r.ref \notin DOMAIN tree'
                 ELSE r.ref \in DOMAIN tree' /\ r = RecordOf(r.ref, tree'[r.ref], FALSE)
      <4>1. n = M
        <5>1. ~ (n + 1 < NextUsn')
          BY <1>2, <3>1, <3>2
        <5> QED BY <1>1, <3>1, <5>1
      <4> QED BY <3>1, <4>1
    <3>3. <<r.parent, r.name>> \in Stands(x) /\ (r.gone \/ IsDir(r.parent))
      BY <3>1
    <3>4. \/ r.gone \/ r.parent = Top
          \/ r.parent \in DOMAIN tree' /\ tree'[r.parent].kind = "dir" /\ r.parent \notin Ahead(n)'
      BY <1>2, <1>4, <3>1, <3>3 DEF IsDir
    <3>5. journal'.records[n] = r
      OBVIOUS
    <3> HIDE DEF r
    <3> QED BY <1>3, <3>1, <3>2, <3>3, <3>4, <3>5 DEF RecordSound, RecordOf
  <2> QED BY <1>1, <2>1, <2>2
<1> QED BY <1>6, <1>7 DEF LogSound

\* An entry changes, no directory and no other entry, as the setup has it.
ChangesOne(x) ==
  /\ x \in Refs /\ (x \in DOMAIN tree => tree[x].kind = "file")
  /\ \A y \in DOMAIN tree \cup DOMAIN tree' :
       y # x => y \in DOMAIN tree /\ y \in DOMAIN tree' /\ tree'[y] = tree[y]
  /\ x \in DOMAIN tree' =>
       <<tree'[x].parent, tree'[x].name>> \in Stands(x) /\ tree'[x].kind \in Kinds(x)

\* Records of it, the last of which tells what it is now.
Tells(x, rs) ==
  /\ rs \in Seq(Record) /\ Len(rs) > 0
  /\ \A i \in 1..Len(rs) : /\ rs[i].ref = x /\ <<rs[i].parent, rs[i].name>> \in Stands(x)
                           /\ rs[i].gone \/ IsDir(rs[i].parent)
  /\ IF rs[Len(rs)].gone THEN x \notin DOMAIN tree'
     ELSE x \in DOMAIN tree' /\ rs[Len(rs)] = RecordOf(x, tree'[x], FALSE)

\* What a change logs is what LogGrows asks for.
LEMMA Logged ==
  ASSUME WellFormed(tree), WellFormed(tree'), journal \in Journal, journal' \in Journal, setup' = setup,
         LogSound, NEW x, ChangesOne(x), NEW rs, Tells(x, rs), Log(rs)
  PROVE  Logs(x) /\ LogSound'
<1>0. /\ x \in Refs /\ (x \in DOMAIN tree => tree[x].kind = "file")
      /\ \A y \in DOMAIN tree \cup DOMAIN tree' :
           y # x => y \in DOMAIN tree /\ y \in DOMAIN tree' /\ tree'[y] = tree[y]
      /\ x \in DOMAIN tree' =>
           <<tree'[x].parent, tree'[x].name>> \in Stands(x) /\ tree'[x].kind \in Kinds(x)
      /\ rs \in Seq(Record) /\ Len(rs) > 0
      /\ \A i \in 1..Len(rs) : /\ rs[i].ref = x /\ <<rs[i].parent, rs[i].name>> \in Stands(x)
                               /\ rs[i].gone \/ IsDir(rs[i].parent)
      /\ IF rs[Len(rs)].gone THEN x \notin DOMAIN tree'
         ELSE x \in DOMAIN tree' /\ rs[Len(rs)] = RecordOf(x, tree'[x], FALSE)
  BY DEF ChangesOne, Tells
<1> DEFINE L == Len(journal.records)
           K == Len(rs)
           old == journal.records
           new == journal'.records
<1>1. old \in Seq(Record) /\ new = old \o rs /\ journal'.id = journal.id
  BY <1>0 DEF Journal, Log
<1>2. /\ L \in Nat /\ K \in Nat /\ K > 0 /\ Len(new) = L + K
      /\ \A n \in 1..(L + K) : new[n] = IF n <= L THEN old[n] ELSE rs[n - L]
  <2> HIDE DEF old, new
  <2>1. Len(old \o rs) = Len(old) + Len(rs)
        /\ \A n \in 1..(Len(old) + Len(rs)) : (old \o rs)[n] = IF n <= Len(old) THEN old[n] ELSE rs[n - Len(old)]
    BY <1>0, <1>1, ConcatProperties
  <2> QED BY <1>0, <1>1, <2>1 DEF old
<1> HIDE DEF K
<1>3. \A n \in 1..(L + K) : ~ (n <= L) => n - L \in 1..K /\ new[n] = rs[n - L]
  BY <1>2
<1>4. Logs(x)
  <2>1. ASSUME NEW n \in 1..Len(new), ~ (n <= L) PROVE new[n].ref = x
    <3>1. n - L \in 1..K /\ new[n] = rs[n - L]
      BY <1>2, <1>3, <2>1
    <3> QED BY <1>0, <3>1 DEF K
  <2>2. Len(new) > L
    BY <1>2
  <2>3. \A n \in 1..Len(new) : n <= L => new[n] = old[n]
    BY <1>2
  <2> QED BY <1>0, <1>1, <2>1, <2>2, <2>3 DEF Logs
<1>5. ASSUME NEW n \in NextUsn..Len(new)
      PROVE  /\ <<new[n].parent, new[n].name>> \in Stands(x)
             /\ new[n].gone \/ IsDir(new[n].parent)
  <2>1. n \in 1..(L + K) /\ ~ (n <= L)
    BY <1>2 DEF NextUsn
  <2>2. n - L \in 1..K /\ new[n] = rs[n - L]
    BY <1>3, <2>1
  <2> QED BY <1>0, <2>2 DEF K
<1>6. new[Len(new)] = rs[K]
  <2>1. L + K \in 1..(L + K) /\ ~ (L + K <= L) /\ (L + K) - L = K
    BY <1>2
  <2> QED BY <1>2, <1>3, <2>1
<1>7. LET r == new[Len(new)]
      IN  IF r.gone THEN x \notin DOMAIN tree' ELSE x \in DOMAIN tree' /\ r = RecordOf(x, tree'[x], FALSE)
  BY <1>0, <1>6 DEF K
<1> QED BY <1>0, <1>4, <1>5, <1>7, LogGrows

\* What other programs do to the volume is logged, truly.
LEMMA ChangeLogs ==
  ASSUME TreeOK, WellFormed(tree'), FoldersStay, journal \in Journal, journal' \in Journal, setup' = setup,
         LogSound, NEW c \in setup.changes, Create(c) \/ Write(c) \/ Move(c) \/ Erase(c)
  PROVE  Logs(c.ref) /\ LogSound'
<1> DEFINE x == c.ref
<1>1. /\ WellFormed(tree) /\ setup \in Setups
      /\ \A y \in DOMAIN tree : /\ tree[y] \in Entry /\ IsDir(tree[y].parent) /\ y \in Refs
                                /\ <<tree[y].parent, tree[y].name>> \in Stands(y) /\ tree[y].kind \in Kinds(y)
  BY DEF TreeOK, WellFormed, IsDir, LogSound
<1>2. CASE Create(c)
  <2>1. x \in Refs /\ c.entry \in Entry /\ c.do = "create" /\ x \notin DOMAIN tree /\ IsDir(c.entry.parent)
    BY <1>1, <1>2, SetupsAssumption DEF Create, Free
  <2>2. /\ DOMAIN tree' = DOMAIN tree \cup {x} /\ tree'[x] = c.entry
        /\ \A y \in DOMAIN tree : y # x /\ tree'[y] = tree[y]
    BY <1>2, <2>1 DEF Create
  <2>3. <<c.entry.parent, c.entry.name>> \in Stands(x) /\ c.entry.kind \in Kinds(x)
    BY <2>1 DEF Stands, Kinds
  <2> DEFINE r == RecordOf(x, c.entry, FALSE)
             rs == <<r>>
  <2>4. Log(rs) /\ r \in Record
    BY <1>2, <2>1, RecordsAreRecords DEF Create
  <2>5. r.ref = x /\ r.parent = c.entry.parent /\ r.name = c.entry.name /\ ~r.gone
    BY DEF RecordOf
  <2>6. r = RecordOf(x, tree'[x], FALSE)
    BY <2>2
  <2> HIDE DEF r
  <2>7. rs \in Seq(Record) /\ Len(rs) = 1 /\ rs[1] = r
    BY <2>4
  <2> HIDE DEF rs, x
  <2>8. \A i \in 1..Len(rs) : i = 1
    BY <2>7
  <2>9. ChangesOne(x)
    BY <1>1, <2>1, <2>2, <2>3, <2>4, <2>5, <2>6, <2>7, <2>8 DEF ChangesOne
  <2>10. Tells(x, rs)
    <3>1. \A i \in 1..Len(rs) : /\ rs[i].ref = x /\ <<rs[i].parent, rs[i].name>> \in Stands(x)
                                /\ rs[i].gone \/ IsDir(rs[i].parent)
      BY <1>1, <2>1, <2>2, <2>3, <2>4, <2>5, <2>6, <2>7, <2>8
    <3>2. IF rs[Len(rs)].gone THEN x \notin DOMAIN tree'
          ELSE x \in DOMAIN tree' /\ rs[Len(rs)] = RecordOf(x, tree'[x], FALSE)
      BY <1>1, <2>1, <2>2, <2>3, <2>4, <2>5, <2>6, <2>7, <2>8
    <3> QED BY <1>1, <2>1, <2>2, <2>3, <2>4, <2>5, <2>6, <2>7, <2>8, <3>1, <3>2 DEF Tells
  <2> QED BY <1>1, <2>9, <2>10, <2>4, Logged DEF x
<1>3. CASE Write(c)
  <2>1. x \in DOMAIN tree /\ x \in Refs /\ tree[x].kind = "file" /\ tree[x] \in Entry
    BY <1>1, <1>3 DEF Write, IsFile
  <2>2. /\ DOMAIN tree' = DOMAIN tree /\ \A y \in DOMAIN tree : y # x => tree'[y] = tree[y]
        /\ tree'[x].parent = tree[x].parent /\ tree'[x].name = tree[x].name /\ tree'[x].kind = tree[x].kind
    BY <1>3, <2>1 DEF Write, Entry
  <2> DEFINE r == RecordOf(x, tree[x], FALSE)
             rs == <<r>>
  <2>3. Log(rs) /\ r \in Record
    BY <1>3, <2>1, RecordsAreRecords DEF Write
  <2>4. r.ref = x /\ r.parent = tree[x].parent /\ r.name = tree[x].name /\ ~r.gone
    BY DEF RecordOf
  <2>5. r = RecordOf(x, tree'[x], FALSE)
    BY <2>2 DEF RecordOf
  <2> HIDE DEF r
  <2>6. rs \in Seq(Record) /\ Len(rs) = 1 /\ rs[1] = r
    BY <2>3
  <2> HIDE DEF rs, x
  <2>7. \A i \in 1..Len(rs) : i = 1
    BY <2>6
  <2>8. ChangesOne(x)
    BY <1>1, <2>1, <2>2, <2>3, <2>4, <2>5, <2>6, <2>7 DEF ChangesOne
  <2>9. Tells(x, rs)
    <3>1. \A i \in 1..Len(rs) : /\ rs[i].ref = x /\ <<rs[i].parent, rs[i].name>> \in Stands(x)
                                /\ rs[i].gone \/ IsDir(rs[i].parent)
      BY <1>1, <2>1, <2>2, <2>3, <2>4, <2>5, <2>6, <2>7
    <3>2. IF rs[Len(rs)].gone THEN x \notin DOMAIN tree'
          ELSE x \in DOMAIN tree' /\ rs[Len(rs)] = RecordOf(x, tree'[x], FALSE)
      BY <1>1, <2>1, <2>2, <2>3, <2>4, <2>5, <2>6, <2>7
    <3> QED BY <1>1, <2>1, <2>2, <2>3, <2>4, <2>5, <2>6, <2>7, <3>1, <3>2 DEF Tells
  <2> QED BY <1>1, <2>8, <2>9, <2>3, Logged DEF x
<1>4. CASE Move(c)
  <2>1. /\ x \in DOMAIN tree /\ x \in Refs /\ tree[x] \in Entry /\ c.do = "move"
        /\ IsDir(c.parent) /\ c.parent \in Refs \cup {Top} /\ c.name \in STRING
    BY <1>1, <1>4, SetupsAssumption DEF Move, Free
  <2>2. tree[x].kind = "file"
    BY <1>1, <2>1 DEF FoldersStay
  <2>3. /\ DOMAIN tree' = DOMAIN tree /\ \A y \in DOMAIN tree : y # x => tree'[y] = tree[y]
        /\ tree'[x].parent = c.parent /\ tree'[x].name = c.name /\ tree'[x].kind = tree[x].kind
        /\ tree'[x] \in Entry
    BY <1>4, <2>1 DEF Move, Entry
  <2>4. <<c.parent, c.name>> \in Stands(x)
    BY <2>1 DEF Stands
  <2> DEFINE a == RecordOf(x, tree[x], FALSE)
             b == RecordOf(x, tree'[x], FALSE)
             rs == <<a, b>>
  <2>5. Log(rs) /\ a \in Record /\ b \in Record
    BY <1>4, <2>1, <2>3, RecordsAreRecords DEF Move
  <2>6. /\ a.ref = x /\ a.parent = tree[x].parent /\ a.name = tree[x].name
        /\ b.ref = x /\ b.parent = c.parent /\ b.name = c.name /\ ~b.gone
    BY <2>3 DEF RecordOf
  <2>7. b = RecordOf(x, tree'[x], FALSE)
    OBVIOUS
  <2> HIDE DEF a, b
  <2>8. rs \in Seq(Record) /\ Len(rs) = 2 /\ rs[1] = a /\ rs[2] = b
    BY <2>5
  <2> HIDE DEF rs, x
  <2>9. \A i \in 1..Len(rs) : i = 1 \/ i = 2
    BY <2>8
  <2>10. /\ <<a.parent, a.name>> \in Stands(x) /\ IsDir(a.parent)
         /\ <<b.parent, b.name>> \in Stands(x) /\ IsDir(b.parent)
    BY <1>1, <2>1, <2>4, <2>6
  <2>11. ChangesOne(x)
    BY <1>1, <2>1, <2>2, <2>3, <2>4, <2>5, <2>6, <2>7, <2>8, <2>9, <2>10 DEF ChangesOne
  <2>12. Tells(x, rs)
    <3>1. \A i \in 1..Len(rs) : /\ rs[i].ref = x /\ <<rs[i].parent, rs[i].name>> \in Stands(x)
                                /\ rs[i].gone \/ IsDir(rs[i].parent)
      BY <1>1, <2>1, <2>2, <2>3, <2>4, <2>5, <2>6, <2>7, <2>8, <2>9, <2>10
    <3>2. IF rs[Len(rs)].gone THEN x \notin DOMAIN tree'
          ELSE x \in DOMAIN tree' /\ rs[Len(rs)] = RecordOf(x, tree'[x], FALSE)
      BY <1>1, <2>1, <2>2, <2>3, <2>4, <2>5, <2>6, <2>7, <2>8, <2>9, <2>10
    <3> QED BY <1>1, <2>1, <2>2, <2>3, <2>4, <2>5, <2>6, <2>7, <2>8, <2>9, <2>10, <3>1, <3>2 DEF Tells
  <2> QED BY <1>1, <2>11, <2>12, <2>5, Logged DEF x
<1>5. CASE Erase(c)
  <2>1. x \in DOMAIN tree /\ x \in Refs /\ tree[x] \in Entry /\ c.do = "remove"
    BY <1>1, <1>5 DEF Erase
  <2>2. tree[x].kind = "file"
    BY <1>1, <2>1 DEF FoldersStay
  <2>3. DOMAIN tree' = DOMAIN tree \ {x} /\ \A y \in DOMAIN tree' : tree'[y] = tree[y]
    BY <1>5 DEF Erase
  <2> DEFINE r == RecordOf(x, tree[x], TRUE)
             rs == <<r>>
  <2>4. Log(rs) /\ r \in Record
    BY <1>5, <2>1, RecordsAreRecords DEF Erase
  <2>5. r.ref = x /\ r.parent = tree[x].parent /\ r.name = tree[x].name /\ r.gone
    BY DEF RecordOf
  <2> HIDE DEF r
  <2>6. rs \in Seq(Record) /\ Len(rs) = 1 /\ rs[1] = r
    BY <2>4
  <2> HIDE DEF rs, x
  <2>7. \A i \in 1..Len(rs) : i = 1
    BY <2>6
  <2>8. ChangesOne(x)
    BY <1>1, <2>1, <2>2, <2>3, <2>4, <2>5, <2>6, <2>7 DEF ChangesOne
  <2>9. Tells(x, rs)
    <3>1. \A i \in 1..Len(rs) : /\ rs[i].ref = x /\ <<rs[i].parent, rs[i].name>> \in Stands(x)
                                /\ rs[i].gone \/ IsDir(rs[i].parent)
      BY <1>1, <2>1, <2>2, <2>3, <2>4, <2>5, <2>6, <2>7
    <3>2. IF rs[Len(rs)].gone THEN x \notin DOMAIN tree'
          ELSE x \in DOMAIN tree' /\ rs[Len(rs)] = RecordOf(x, tree'[x], FALSE)
      BY <1>1, <2>1, <2>2, <2>3, <2>4, <2>5, <2>6, <2>7
    <3> QED BY <1>1, <2>1, <2>2, <2>3, <2>4, <2>5, <2>6, <2>7, <3>1, <3>2 DEF Tells
  <2> QED BY <1>1, <2>8, <2>9, <2>4, Logged DEF x
<1> QED BY <1>2, <1>3, <1>4, <1>5

\* While rows are as they are, the records applied so far stay applied.
LEMMA ApplyKept ==
  ASSUME journal \in Journal, journal' \in Journal, NEW x, Logs(x), rows' = rows
  PROVE  \A j : JobOK(j, "apply") /\ ApplySound(j) => ApplySound(j)'
<1> SUFFICES ASSUME NEW j, JobOK(j, "apply"), ApplySound(j), j.id = journal'.id
             PROVE  /\ OfRows(j)'
                    /\ 1 <= Upto(j) /\ j.cursor <= NextUsn'
                    /\ \A i \in 1..Len(j.delta) : j.delta[i] = journal'.records[Upto(j) + i - 1]
                    /\ CatchUp(Upto(j), j.byRef)'
                    /\ \A y \in FilesOf(j.upserts) : y \in DOMAIN tree' \/ y \in Ahead(j.cursor)'
  BY DEF ApplySound, Upto, FilesOf
<1>1. /\ OfRows(j) /\ 1 <= Upto(j) /\ j.cursor <= NextUsn
      /\ \A i \in 1..Len(j.delta) : j.delta[i] = journal.records[Upto(j) + i - 1]
      /\ CatchUp(Upto(j), j.byRef)
      /\ \A y \in FilesOf(j.upserts) : y \in DOMAIN tree \/ y \in Ahead(j.cursor)
  BY DEF ApplySound, Logs
<1>2. j.cursor \in Nat /\ Len(j.delta) \in Nat /\ Upto(j) \in Int /\ Upto(j) + Len(j.delta) = j.cursor
  BY DEF JobOK, Upto
<1>3. NextUsn \in Nat /\ NextUsn' \in Nat /\ NextUsn < NextUsn' /\ NextUsn = Len(journal.records) + 1
      /\ Len(journal.records) \in Nat /\ Len(journal'.records) \in Nat /\ Len(journal.records) < Len(journal'.records)
  BY LogsAhead DEF NextUsn, Journal, Logs
<1>4. OfRows(j)'
  BY <1>1 DEF OfRows
<1>5. ASSUME NEW i \in 1..Len(j.delta) PROVE j.delta[i] = journal'.records[Upto(j) + i - 1]
  <2>1. Upto(j) + i - 1 \in 1..Len(journal.records)
    BY <1>1, <1>2, <1>3
  <2>2. Upto(j) + i - 1 \in 1..Len(journal'.records)
    BY <1>3, <2>1
  <2>3. journal'.records[Upto(j) + i - 1] = journal.records[Upto(j) + i - 1]
    BY <2>1, <2>2 DEF Logs
  <2> QED BY <1>1, <2>3
<1>6. CatchUp(Upto(j), j.byRef)'
  <2>1. Upto(j) \in 1..NextUsn
    BY <1>1, <1>2, <1>3
  <2>2. \A map : CatchUp(Upto(j), map) => CatchUp(Upto(j), map)'
    <3> DEFINE n == Upto(j)
    <3>1. n \in 1..NextUsn
      BY <2>1
    <3>2. \A m \in 1..NextUsn : \A map : CatchUp(m, map) => CatchUp(m, map)'
      BY CatchUpKept
    <3> QED BY <3>1, <3>2 DEF Upto
  <2> QED BY <1>1, <2>2 DEF Upto
<1>7. ASSUME NEW y \in FilesOf(j.upserts) PROVE y \in DOMAIN tree' \/ y \in Ahead(j.cursor)'
  <2>1. j.cursor \in 1..NextUsn
    BY <1>1, <1>2, <1>3
  <2>2. Ahead(j.cursor)' = Ahead(j.cursor) \cup {x}
    <3>1. \A n \in 1..NextUsn : Ahead(n)' = Ahead(n) \cup {x}
      BY LogsAhead
    <3> QED BY <2>1, <3>1
  <2> QED BY <1>1, <2>2 DEF Logs
<1> QED BY <1>1, <1>3, <1>2, <1>4, <1>5, <1>6, <1>7

\* What the table gave stays right but for what changes.
LEMMA TableKept ==
  ASSUME journal \in Journal, journal' \in Journal, NEW x, Logs(x)
  PROVE  /\ \A j : JobOK(j, "enum") /\ EnumSound(j) => EnumSound(j)'
         /\ \A j : JobOK(j, "stat") /\ StatSound(j) => StatSound(j)'
<1>1. NextUsn \in Nat /\ NextUsn' \in Nat /\ NextUsn < NextUsn'
      /\ \A n \in 1..NextUsn : Ahead(n)' = Ahead(n) \cup {x}
  BY LogsAhead
<1>2. ASSUME NEW j, j.cursor \in Nat, Live(j)', j.cursor <= NextUsn
      PROVE  /\ Live(j) /\ j.cursor <= NextUsn'
             /\ \A y \in DOMAIN tree' \ Ahead(j.cursor)' :
                  /\ y \in DOMAIN tree \ Ahead(j.cursor) /\ tree'[y] = tree[y]
                  /\ TableRowOf(y)' = TableRowOf(y) /\ IsFile(y)' = IsFile(y)
             /\ \A map : (\A y \in FilesOf(map) \ Ahead(j.cursor) : y \in DOMAIN tree) =>
                           \A y \in FilesOf(map) \ Ahead(j.cursor)' : y \in DOMAIN tree'
  <2>1. Live(j) /\ j.cursor <= NextUsn'
    BY <1>1, <1>2 DEF Live, Logs
  <2>2. Ahead(j.cursor)' = Ahead(j.cursor) \cup {x}
    <3>1. j.cursor \in 1..NextUsn
      BY <1>1, <1>2, <2>1 DEF Live
    <3> QED BY <1>1, <3>1
  <2>3. ASSUME NEW y \in DOMAIN tree' \ Ahead(j.cursor)'
        PROVE  y \in DOMAIN tree \ Ahead(j.cursor) /\ tree'[y] = tree[y]
    BY <2>2 DEF Logs
  <2>4. ASSUME NEW y \in DOMAIN tree' \ Ahead(j.cursor)'
        PROVE  TableRowOf(y)' = TableRowOf(y) /\ IsFile(y)' = IsFile(y)
    BY <2>3 DEF TableRowOf, Row, RecordOf, IsFile
  <2>5. ASSUME NEW map, \A y \in FilesOf(map) \ Ahead(j.cursor) : y \in DOMAIN tree,
               NEW y \in FilesOf(map) \ Ahead(j.cursor)'
        PROVE  y \in DOMAIN tree'
    BY <2>2, <2>5 DEF Logs
  <2> QED BY <2>1, <2>3, <2>4, <2>5
<1>3. ASSUME NEW j, JobOK(j, "enum"), EnumSound(j), Live(j)' PROVE EnumSound(j)'
  <2>1. j.cursor \in Nat /\ j.cursor <= NextUsn /\ Live(j)
    BY <1>3 DEF JobOK, EnumSound, Live, Logs
  <2> QED BY <1>2, <1>3, <2>1 DEF EnumSound, FilesOf
<1>4. ASSUME NEW j, JobOK(j, "stat"), StatSound(j), Live(j)' PROVE StatSound(j)'
  <2>1. j.cursor \in Nat /\ j.cursor <= NextUsn /\ Live(j)
    BY <1>4 DEF JobOK, StatSound, Live, Logs
  <2>2. \A y \in DOMAIN tree' \ Ahead(j.cursor)' :
          /\ y \in DOMAIN j.byRef /\ j.byRef[y] = TableRowOf(y)'
          /\ IsFile(y)' => y \in j.todo \/ (y \in DOMAIN j.sizes /\ j.sizes[y] = tree'[y].size)
    BY <1>2, <1>4, <2>1 DEF StatSound
  <2>3. \A y \in FilesOf(j.byRef) \ Ahead(j.cursor)' : y \in DOMAIN tree'
    BY <1>2, <1>4, <2>1 DEF StatSound
  <2>4. j.cursor <= NextUsn' /\ j.todo \cup DOMAIN j.sizes \subseteq FilesOf(j.byRef)
    BY <1>2, <1>4, <2>1 DEF StatSound
  <2> QED BY <2>2, <2>3, <2>4 DEF StatSound, FilesOf
<1>5. ASSUME NEW j, ~ Live(j)', StatSound(j) PROVE StatSound(j)'
  BY <1>5 DEF StatSound, FilesOf
<1>6. ASSUME NEW j, ~ Live(j)' PROVE EnumSound(j)'
  BY <1>6 DEF EnumSound
<1> QED BY <1>3, <1>4, <1>5, <1>6

\* While tree, records and snapshot stay, so does what is said of them.
LEMMA SameLog ==
  ASSUME tree' = tree, setup' = setup, journal'.records = journal.records, journal'.id = journal.id
  PROVE  /\ LogSound' = LogSound /\ NextUsn' = NextUsn /\ \A n : Ahead(n)' = Ahead(n)
         /\ \A n, map : CatchUp(n, map)' = CatchUp(n, map)
         /\ UNCHANGED snapshot => \A j, step : JobIs(j, step)' = JobIs(j, step)
<1>1. /\ NextUsn' = NextUsn /\ \A n : Ahead(n)' = Ahead(n)
      /\ \A y : Stands(y)' = Stands(y) /\ Kinds(y)' = Kinds(y)
      /\ \A y : IsFile(y)' = IsFile(y) /\ TableRowOf(y)' = TableRowOf(y)
  BY FoldersStayPut DEF NextUsn, Ahead, IsFile, TableRowOf, Row, RecordOf
<1>2. \A n : RecordSound(n)' = RecordSound(n)
  BY <1>1 DEF RecordSound, RecordOf
<1>3. LogSound' = LogSound
  BY <1>1, <1>2 DEF LogSound
<1>4. \A n, map : CatchUp(n, map)' = CatchUp(n, map)
  BY <1>1 DEF CatchUp, RowOf, Row, RecordOf, FilesOf
<1>5. ASSUME UNCHANGED snapshot, NEW j, NEW step PROVE JobIs(j, step)' = JobIs(j, step)
  <2>1. meta' = meta /\ rows' = rows
    BY <1>5 DEF snapshot
  <2>2. OfMeta(j)' = OfMeta(j) /\ OfRows(j)' = OfRows(j)
    BY <2>1 DEF OfMeta, OfRows, NoRows
  <2>3. Live(j)' = Live(j) /\ Upto(j)' = Upto(j) /\ FilesOf(j.byRef)' = FilesOf(j.byRef)
        /\ FilesOf(j.upserts)' = FilesOf(j.upserts)
    BY DEF Live, Upto, FilesOf
  <2>4. ApplySound(j)' = ApplySound(j)
    BY <1>1, <1>4, <2>2, <2>3 DEF ApplySound
  <2>5. EnumSound(j)' = EnumSound(j)
    BY <1>1, <2>3 DEF EnumSound
  <2>6. StatSound(j)' = StatSound(j)
    BY <1>1, <2>3 DEF StatSound
  <2> QED BY <2>1, <2>2, <2>4, <2>5, <2>6 DEF JobIs
<1> QED BY <1>1, <1>3, <1>4, <1>5

\* What other programs do, the snapshot and the scanners can follow.
LEMMA ChangeFollows ==
  ASSUME Inv, TypesInv, FoldersStay, Follows, Change,
         UNCHANGED <<setup, snapshot, at, job, list, runs, kills, TheWalk>>
  PROVE  Follows'
<1>1. /\ TreeOK /\ journal \in Journal /\ MetaOK /\ setup' = setup
      /\ meta' = meta /\ rows' = rows /\ at' = at /\ job' = job
      /\ \A s \in Scanners : JobOK(job[s], at[s])
  BY DEF Inv, Typed, TypesInv, snapshot
<1>2. journal' \in Journal
  <2>1. TypesInv' /\ Journal' = Journal
    BY ChangeTypes DEF Journal, Record
  <2> QED BY <2>1 DEF TypesInv
<1>3. WellFormed(tree')
  <2>1. TreeOK'
    BY <1>1, ChangeKeeps
  <2> QED BY <2>1 DEF TreeOK
<1>4. PICK c \in setup.changes : Create(c) \/ Write(c) \/ Move(c) \/ Erase(c) \/ Trim(c) \/ Recreate(c)
  BY DEF Change
<1>5. CASE Create(c) \/ Write(c) \/ Move(c) \/ Erase(c)
  <2> DEFINE x == c.ref
  <2>1. Logs(x) /\ LogSound'
    BY <1>1, <1>2, <1>3, <1>5, ChangeLogs DEF Follows
  <2> HIDE DEF x
  <2>2. /\ NextUsn \in Nat /\ NextUsn' \in Nat /\ NextUsn < NextUsn' /\ journal'.id = journal.id
        /\ \A n \in 1..NextUsn : \A map : CatchUp(n, map) => CatchUp(n, map)'
    BY <1>1, <1>2, <2>1, LogsAhead, CatchUpKept DEF Logs
  <2>3. SnapshotSound'
    <3>1. SUFFICES ASSUME meta # None, meta.id = journal.id
                   PROVE  meta.cursor <= NextUsn' /\ CatchUp(meta.cursor, rows)'
      BY <1>1, <2>2 DEF SnapshotSound
    <3>2. meta.cursor <= NextUsn /\ CatchUp(meta.cursor, rows) /\ meta.cursor \in Nat \ {0}
      BY <1>1, <3>1 DEF Follows, SnapshotSound, MetaOK
    <3>3. meta.cursor \in 1..NextUsn
      BY <2>2, <3>2
    <3>4. \A n, map : n = meta.cursor /\ map = rows => CatchUp(n, map)'
      BY <2>2, <3>2, <3>3
    <3> QED BY <1>1, <2>2, <3>2, <3>4
  <2>4. ASSUME NEW s \in Scanners PROVE JobSound(s)'
    <3>1. JobOK(job[s], at[s]) /\ JobIs(job[s], at[s]) /\ (s \notin setup.scanners => at[s] = "idle")
      BY <1>1 DEF Follows, JobSound
    <3>2. ASSUME NEW j, NEW step, JobOK(j, step), JobIs(j, step) PROVE JobIs(j, step)'
      <4>1. step \in {"rows", "read"} => OfMeta(j)'
        BY <1>1, <3>2 DEF JobIs, OfMeta, NoRows
      <4>2. (step = "read" => j.byRef = rows') /\ (step = "drop" => meta' = None)
        BY <1>1, <3>2 DEF JobIs
      <4>3. step = "apply" => ApplySound(j)'
        BY <1>1, <1>2, <2>1, <3>2, ApplyKept DEF JobIs
      <4>4. (step = "enum" => EnumSound(j)') /\ (step = "stat" => StatSound(j)')
        BY <1>1, <1>2, <2>1, <3>2, TableKept DEF JobIs
      <4> QED BY <4>1, <4>2, <4>3, <4>4 DEF JobIs
    <3> QED BY <1>1, <3>1, <3>2 DEF JobSound
  <2> QED BY <2>1, <2>3, <2>4 DEF Follows
<1>6. CASE Trim(c)
  <2>1. tree' = tree /\ journal'.records = journal.records /\ journal'.id = journal.id
    BY <1>1, <1>6 DEF Trim, Journal
  <2>2. SnapshotSound'
    BY <1>1, <2>1, SameLog DEF Follows, SnapshotSound
  <2>3. \A j, step : JobIs(j, step)' = JobIs(j, step)
    BY <1>1, <2>1, SameLog
  <2>4. \A s \in Scanners : JobSound(s)'
    BY <1>1, <2>3 DEF Follows, JobSound
  <2>5. LogSound'
    BY <1>1, <2>1, SameLog DEF Follows
  <2> QED BY <2>2, <2>4, <2>5 DEF Follows
<1>7. CASE Recreate(c)
  <2>1. tree' = tree /\ journal'.records = <<>> /\ journal'.id = journal.id + 1 /\ journal.id \in Nat
    BY <1>1, <1>7 DEF Recreate, Journal
  <2>2. Len(journal'.records) = 0 /\ \A n \in Nat : n >= 1 => Ahead(n)' = {}
    BY <2>1 DEF Ahead
  <2>3. LogSound'
    <3>1. \A y : Stands(y)' = Stands(y) /\ Kinds(y)' = Kinds(y)
      BY <1>1, FoldersStayPut
    <3>2. \A n \in 1..NextUsn' : Ahead(n)' = {}
      BY <2>2 DEF NextUsn
    <3>3. 1..Len(journal'.records) = {}
      BY <2>2
    <3> QED BY <2>1, <3>1, <3>2, <3>3 DEF Follows, LogSound
  <2>4. SnapshotSound'
    BY <1>1, <2>1 DEF SnapshotSound, MetaOK
  <2>5. ASSUME NEW s \in Scanners PROVE JobSound(s)'
    <3>1. JobOK(job[s], at[s]) /\ JobIs(job[s], at[s]) /\ (s \notin setup.scanners => at[s] = "idle")
      BY <1>1 DEF Follows, JobSound
    <3>2. ASSUME NEW j, NEW step, JobOK(j, step), JobIs(j, step) PROVE JobIs(j, step)'
      <4>1. step \in {"rows", "read"} => OfMeta(j)'
        BY <1>1, <3>2 DEF JobIs, OfMeta, NoRows
      <4>2. (step = "read" => j.byRef = rows') /\ (step = "drop" => meta' = None)
        BY <1>1, <3>2 DEF JobIs
      <4>3. j.cursor # 0 => j.id # journal'.id
        BY <2>1, <3>2 DEF JobOK
      <4>4. step = "apply" => ApplySound(j)'
        BY <3>2, <4>3 DEF JobOK, ApplySound
      <4>5. step = "enum" => EnumSound(j)'
        BY <4>3 DEF EnumSound, Live
      <4>6. step = "stat" => StatSound(j)'
        BY <3>2, <4>3 DEF JobIs, StatSound, Live, FilesOf
      <4> QED BY <4>1, <4>2, <4>4, <4>5, <4>6 DEF JobIs
    <3> QED BY <1>1, <3>1, <3>2 DEF JobSound
  <2> QED BY <2>3, <2>4, <2>5 DEF Follows
<1> QED BY <1>4, <1>5, <1>6, <1>7

\* At first the journal is empty and the snapshot, if there is one, is the volume.
LEMMA FollowsInit ==
  ASSUME Init, FoldersStay
  PROVE  Follows
<1>1. /\ setup \in Setups /\ tree = setup.tree /\ meta = setup.meta /\ rows = setup.rows
      /\ journal = [id |-> 1, first |-> 1, records |-> <<>>]
      /\ at = [s \in Scanners |-> "idle"]
  BY DEF Init, WarmInit, VolumeInit
<1>2. Len(journal.records) = 0 /\ NextUsn = 1 /\ 1..0 = {}
  BY <1>1 DEF NextUsn
<1>3. Ahead(1) = {}
  BY <1>2 DEF Ahead
<1>4. LogSound
  <2>1. \A x \in DOMAIN tree : <<tree[x].parent, tree[x].name>> \in Stands(x) /\ tree[x].kind \in Kinds(x)
    BY <1>1 DEF Stands, Kinds
  <2>2. \A n \in 1..NextUsn : n = 1
    BY <1>2
  <2>3. \A n \in 1..NextUsn : Ahead(n) = {}
    BY <1>3, <2>2
  <2> QED BY <1>2, <2>1, <2>3 DEF LogSound
<1>5. SnapshotSound
  <2>1. SUFFICES ASSUME meta # None PROVE meta.cursor <= NextUsn /\ CatchUp(meta.cursor, rows)
    BY DEF SnapshotSound
  <2>2. meta.cursor = 1 /\ rows = [x \in DOMAIN tree |-> RowOf(x, tree[x])]
    BY <1>1, <2>1 DEF FoldersStay
  <2>3. CatchUp(1, rows)
    BY <2>2 DEF CatchUp, FilesOf
  <2> QED BY <1>2, <2>2, <2>3
<1>6. \A s \in Scanners : JobSound(s)
  BY <1>1 DEF JobSound, JobIs
<1> QED BY <1>4, <1>5, <1>6 DEF Follows

\* The steps of an inventory in which something is said of its job.
Busy == {"rows", "read", "apply", "enum", "stat"}

\* What the one scanner does to its job is enough to look at.
LEMMA JobFollows ==
  ASSUME Inv, TypesInv, Follows, NEW s \in Scanners, s \in setup.scanners,
         setup' = setup, UNCHANGED volume, UNCHANGED snapshot, NEW step, NEW j,
         at' = [at EXCEPT ![s] = step], job' = [job EXCEPT ![s] = j], JobIs(j, step)
  PROVE  Follows'
<1>1. /\ at'[s] = step /\ job'[s] = j
      /\ \A t \in Scanners : t # s => at'[t] = at[t] /\ job'[t] = job[t]
  BY DEF Inv, Typed, TypesInv
<1>2. tree' = tree /\ journal' = journal /\ meta' = meta /\ rows' = rows
  BY DEF volume, snapshot
<1>3. \A k, p : JobIs(k, p)' = JobIs(k, p)
  BY <1>2, SameLog
<1>4. ASSUME NEW t \in Scanners PROVE JobSound(t)'
  <2>1. t # s => JobIs(job[t], at[t]) /\ (t \notin setup.scanners => at[t] = "idle")
    BY DEF Follows, JobSound
  <2> QED BY <1>1, <1>3, <2>1 DEF JobSound
<1>5. LogSound'
  BY <1>2, SameLog DEF Follows
<1>6. SnapshotSound'
  BY <1>2, SameLog DEF Follows, SnapshotSound
<1> QED BY <1>4, <1>5, <1>6 DEF Follows

\* A step to where nothing is said of the job; the snapshot may change, and no other
\* scanner is there to see it.
LEMMA SnapshotFollows ==
  ASSUME Inv, FoldersStay, Follows, NEW s \in Scanners, s \in setup.scanners,
         setup' = setup, UNCHANGED volume, NEW step, step \notin Busy,
         at' = [at EXCEPT ![s] = step], SnapshotSound', step = "drop" => meta' = None
  PROVE  Follows'
<1>1. /\ at'[s] = step /\ \A t \in Scanners : t # s => at'[t] = at[t]
  BY DEF Inv, Typed
<1>2. LogSound'
  BY SameLog DEF volume, Follows
<1>3. ASSUME NEW t \in Scanners PROVE JobSound(t)'
  <2>1. t \notin setup.scanners => at'[t] = "idle"
    BY <1>1 DEF Follows, JobSound
  <2>2. at'[t] \notin Busy /\ (at'[t] = "drop" => meta' = None)
    <3>1. CASE t = s
      BY <1>1, <3>1
    <3>2. CASE t # s
      BY <2>1, <3>2 DEF FoldersStay, Busy
    <3> QED BY <3>1, <3>2
  <2> QED BY <2>1, <2>2 DEF JobSound, JobIs, Busy
<1> QED BY <1>2, <1>3 DEF Follows

\* A snapshot that stays, or whose cursor is gone, follows.
LEMMA SnapshotStays ==
  ASSUME Follows, UNCHANGED volume, setup' = setup,
         UNCHANGED snapshot \/ meta' = None
  PROVE  SnapshotSound'
<1>1. CASE UNCHANGED snapshot
  <2>1. tree' = tree /\ journal' = journal /\ meta' = meta /\ rows' = rows
    BY <1>1 DEF volume, snapshot
  <2> QED BY <2>1, SameLog DEF Follows, SnapshotSound
<1>2. CASE meta' = None
  BY <1>2 DEF SnapshotSound
<1> QED BY <1>1, <1>2

\* Nothing is a link.
LEMMA NoLinks ==
  ASSUME TreeOK, FoldersStay, LogSound
  PROVE  \A x \in DOMAIN tree : tree[x].kind # "link" /\ Target(x) = x
<1>1. ASSUME NEW x \in DOMAIN tree PROVE tree[x].kind # "link"
  <2>1. x \in Refs /\ tree[x].kind \in Kinds(x)
    BY DEF TreeOK, WellFormed, LogSound
  <2>2. "link" \notin Kinds(x)
    BY <2>1 DEF FoldersStay
  <2> QED BY <2>1, <2>2
<1> QED BY <1>1 DEF Target

\* What the journal says no more of stands in directories it says no more of.
LEMMA SettledIsClosed ==
  ASSUME TreeOK, LogSound, NEW n \in 1..NextUsn
  PROVE  \A y \in DOMAIN tree \ Ahead(n) :
           tree[y].parent = Top \/ tree[y].parent \in DOMAIN tree \ Ahead(n)
BY DEF TreeOK, WellFormed, LogSound

\* The size found for a file is the file's when the path leads to its name.
LEMMA SizeOfChild ==
  ASSUME TreeOK, FoldersStay, LogSound, NEW x \in DOMAIN tree, tree[x].kind # "dir", NEW path,
         Resolve(path) = Step(tree[x].parent, tree[x].name)
  PROVE  SizeAt(path) = tree[x].size /\ SizeAt(path) # None
<1>1. WellFormed(tree) /\ tree[x] \in Entry /\ x \in Refs
  BY DEF TreeOK, WellFormed
<1>2. Resolve(path) = x
  BY <1>1, NoLinks, StepToChild
<1>3. IsFile(x) /\ x # Missing
  BY <1>1, NoLinks, RefsAssumption DEF IsFile, Entry
<1> QED BY <1>1, <1>2, <1>3, SnapshotsAssumption DEF SizeAt, Entry

-----------------------------------------------------------------------------
(* The warm path's records.                                                  *)

\* A file's record leads to its file, if it is there, and to the file as it is if the
\* record is its last.
LEMMA RecordLeads ==
  ASSUME TreeOK, FoldersStay, LogSound, journal \in Journal, NEW map, RowsOK(map),
         NEW n \in 1..Len(journal.records), CatchUp(n, map),
         NEW r, r = journal.records[n], ~r.gone, ~r.dir,
         NEW size, size = SizeAt(reconstruct_path(Put(map, r.ref, Row(r, 0)), r.ref))
  PROVE  /\ size # None => r.ref \in DOMAIN tree
         /\ r.ref \notin Ahead(n + 1) => size # None /\ size = tree[r.ref].size
<1> DEFINE x == r.ref
           placed == Put(map, x, Row(r, 0))
           C == DOMAIN tree \ Ahead(n)
<1>1. /\ WellFormed(tree) /\ r \in Record /\ n \in 1..NextUsn /\ x \in Ahead(n) /\ RecordSound(n)
  <2>1. r \in Record /\ Len(journal.records) \in Nat
    BY DEF Journal
  <2>2. n \in 1..NextUsn
    BY <2>1 DEF NextUsn
  <2> QED BY <2>1, <2>2, AheadOfNext DEF TreeOK, LogSound
<1>2. /\ x \notin Ahead(n + 1) => x \in DOMAIN tree /\ r = RecordOf(x, tree[x], FALSE)
      /\ r.parent = Top \/ r.parent \in C
      /\ <<r.parent, r.name>> \in Stands(x)
  BY <1>1 DEF RecordSound
<1>3. Row(r, 0).parent = r.parent /\ Row(r, 0).name = r.name /\ Row(r, 0) \in SnapshotRow /\ x \in Refs
  BY <1>1 DEF Row, Record, SnapshotRow
<1>4. RowsOK(placed) /\ x \in DOMAIN placed /\ placed[x].parent = r.parent /\ placed[x].name = r.name
  BY <1>3 DEF RowsOK, Put
<1>5. \A y \in C : /\ y \in DOMAIN placed
                   /\ placed[y].parent = tree[y].parent /\ placed[y].name = tree[y].name
                   /\ tree[y].parent = Top \/ tree[y].parent \in C
  <2>1. ASSUME NEW y \in C PROVE y \in DOMAIN map /\ y # x /\ map[y].parent = tree[y].parent /\ map[y].name = tree[y].name
    <3>1. y \in DOMAIN map /\ map[y] = RowOf(y, tree[y]) /\ y # x
      BY <1>1 DEF CatchUp
    <3>2. RowOf(y, tree[y]).parent = tree[y].parent /\ RowOf(y, tree[y]).name = tree[y].name
      BY DEF RowOf, Row, RecordOf
    <3> QED BY <3>1, <3>2
  <2>2. \A y \in C : tree[y].parent = Top \/ tree[y].parent \in C
    BY <1>1, SettledIsClosed
  <2> QED BY <2>1, <2>2 DEF Put
<1>6. Resolve(reconstruct_path(placed, x)) = Step(r.parent, r.name)
  <2>1. C \in SUBSET DOMAIN tree /\ \A y \in DOMAIN tree : tree[y].kind # "link"
    BY NoLinks
  <2> HIDE DEF C, placed, x
  <2>2. placed[x].parent = Top \/ placed[x].parent \in C
    BY <1>2, <1>4
  <2>3. Resolve(reconstruct_path(placed, x)) = Step(placed[x].parent, placed[x].name)
    BY <1>4, <1>5, <2>1, <2>2, LedByParent
  <2> QED BY <1>4, <2>3
<1>7. ASSUME size # None PROVE x \in DOMAIN tree
  <2>1. Step(r.parent, r.name) # Missing
    BY <1>6, <1>7 DEF SizeAt
  <2>2. PICK y \in DOMAIN tree : tree[y].parent = r.parent /\ tree[y].name = r.name
    BY <1>1, <2>1, StepFromChild
  <2>3. <<r.parent, r.name>> \in Stands(y) /\ y \in Refs
    BY <1>1, <2>2 DEF LogSound, WellFormed
  <2> QED BY <1>2, <1>3, <2>2, <2>3 DEF FoldersStay
<1>8. ASSUME x \notin Ahead(n + 1) PROVE size # None /\ size = tree[x].size
  <2>1. /\ x \in DOMAIN tree /\ r.parent = tree[x].parent /\ r.name = tree[x].name
        /\ tree[x].kind # "dir"
    <3>1. x \in DOMAIN tree /\ r = RecordOf(x, tree[x], FALSE)
      BY <1>2, <1>8
    <3>2. /\ RecordOf(x, tree[x], FALSE).parent = tree[x].parent
          /\ RecordOf(x, tree[x], FALSE).name = tree[x].name
          /\ RecordOf(x, tree[x], FALSE).dir = (tree[x].kind = "dir")
      BY DEF RecordOf
    <3> HIDE DEF x
    <3> QED BY <3>1, <3>2
  <2> QED BY <1>6, <2>1, SizeOfChild
<1> QED BY <1>7, <1>8

\* An entry forgotten: the map goes on from the next record.
LEMMA ForgetCatchesUp ==
  ASSUME NEW j, NEW n, CatchUp(n, j.byRef), NEW x, AJob(j), OfRows(j),
         Ahead(n) = Ahead(n + 1) \cup {x}, x \notin Ahead(n + 1) => x \notin DOMAIN tree
  PROVE  CatchUp(n + 1, Forget(j, x).byRef) /\ OfRows(Forget(j, x))
<1>1. /\ Forget(j, x).byRef = Drop(j.byRef, x) /\ Forget(j, x).upserts = j.upserts
      /\ Forget(j, x).deletes = IF x \in DOMAIN j.byRef THEN j.deletes \cup {x} ELSE j.deletes
  BY DEF Forget, AJob
<1>2. /\ DOMAIN Drop(j.byRef, x) = DOMAIN j.byRef \ {x}
      /\ \A y \in DOMAIN j.byRef \ {x} : Drop(j.byRef, x)[y] = j.byRef[y]
  BY DEF Drop
<1>3. CatchUp(n + 1, Drop(j.byRef, x))
  BY <1>2 DEF CatchUp, FilesOf
<1>4. OfRows(Forget(j, x))
  <2> DEFINE f == Forget(j, x)
  <2>1. ASSUME NEW y \in DOMAIN f.byRef
        PROVE  \/ y \in DOMAIN f.upserts /\ f.upserts[y] = f.byRef[y]
               \/ y \notin DOMAIN f.upserts /\ y \in DOMAIN rows \ f.deletes /\ rows[y] = f.byRef[y]
    <3>1. y \in DOMAIN j.byRef /\ y # x /\ f.byRef[y] = j.byRef[y]
      BY <1>1, <1>2
    <3>2. f.upserts = j.upserts /\ f.deletes \subseteq j.deletes \cup {x}
      BY <1>1
    <3> HIDE DEF f
    <3> QED BY <3>1, <3>2 DEF OfRows
  <2>2. ASSUME NEW y \in DOMAIN rows PROVE y \in DOMAIN f.byRef \cup f.deletes
    <3>1. y \in DOMAIN j.byRef \cup j.deletes
      BY DEF OfRows
    <3> QED BY <1>1, <1>2, <3>1
  <2> HIDE DEF f
  <2>3. OfRows(f)
    BY <2>1, <2>2 DEF OfRows
  <2> QED BY <2>3 DEF f
<1> QED BY <1>1, <1>3, <1>4

\* An entry remembered as it is, likewise.
LEMMA RememberCatchesUp ==
  ASSUME NEW j, NEW n, CatchUp(n, j.byRef), NEW x, NEW row, AJob(j), OfRows(j),
         Ahead(n) = Ahead(n + 1) \cup {x},
         x \notin Ahead(n + 1) => x \in DOMAIN tree /\ row = RowOf(x, tree[x])
  PROVE  CatchUp(n + 1, Remember(j, x, row).byRef) /\ OfRows(Remember(j, x, row))
<1>1. /\ Remember(j, x, row).byRef = Put(j.byRef, x, row)
      /\ Remember(j, x, row).upserts = Put(j.upserts, x, row)
      /\ Remember(j, x, row).deletes = j.deletes
  BY DEF Remember, AJob
<1>2. \A f : /\ DOMAIN Put(f, x, row) = DOMAIN f \cup {x} /\ Put(f, x, row)[x] = row
             /\ \A y \in DOMAIN f \ {x} : Put(f, x, row)[y] = f[y]
  BY DEF Put
<1>3. CatchUp(n + 1, Put(j.byRef, x, row))
  <2> DEFINE map == Put(j.byRef, x, row)
  <2>1. /\ DOMAIN map = DOMAIN j.byRef \cup {x} /\ map[x] = row
        /\ \A y \in DOMAIN j.byRef \ {x} : map[y] = j.byRef[y]
    BY <1>2
  <2> HIDE DEF map
  <2>2. \A y \in DOMAIN tree \ Ahead(n + 1) : y \in DOMAIN map /\ map[y] = RowOf(y, tree[y])
    BY <2>1 DEF CatchUp
  <2>3. ASSUME NEW y \in FilesOf(map) \ Ahead(n + 1) PROVE y \in DOMAIN tree
    <3>1. y # x => y \in FilesOf(j.byRef) \ Ahead(n)
      BY <2>1 DEF FilesOf
    <3> QED BY <3>1 DEF CatchUp
  <2>4. CatchUp(n + 1, map)
    BY <2>2, <2>3 DEF CatchUp
  <2> QED BY <2>4 DEF map
<1>4. OfRows(Remember(j, x, row))
  <2> DEFINE g == Remember(j, x, row)
  <2>1. /\ DOMAIN g.byRef = DOMAIN j.byRef \cup {x} /\ g.byRef[x] = row
        /\ \A y \in DOMAIN j.byRef \ {x} : g.byRef[y] = j.byRef[y]
    BY <1>1 DEF Put
  <2>2. /\ DOMAIN g.upserts = DOMAIN j.upserts \cup {x} /\ g.upserts[x] = row
        /\ \A y \in DOMAIN j.upserts \ {x} : g.upserts[y] = j.upserts[y]
    BY <1>1 DEF Put
  <2>3. g.deletes = j.deletes
    BY <1>1
  <2> HIDE DEF g
  <2>4. ASSUME NEW y \in DOMAIN g.byRef
        PROVE  \/ y \in DOMAIN g.upserts /\ g.upserts[y] = g.byRef[y]
               \/ y \notin DOMAIN g.upserts /\ y \in DOMAIN rows \ g.deletes /\ rows[y] = g.byRef[y]
    <3>1. CASE y = x
      BY <2>1, <2>2, <3>1
    <3>2. CASE y # x
      <4>1. y \in DOMAIN j.byRef /\ g.byRef[y] = j.byRef[y]
        BY <2>1, <2>4, <3>2
      <4> QED BY <2>2, <2>3, <3>2, <4>1 DEF OfRows
    <3> QED BY <3>1, <3>2
  <2>5. DOMAIN rows \subseteq DOMAIN g.byRef \cup g.deletes
    BY <2>1, <2>3 DEF OfRows
  <2>6. OfRows(g)
    BY <2>4, <2>5 DEF OfRows
  <2> QED BY <2>6 DEF g
<1> QED BY <1>1, <1>3, <1>4

\* A record applied, the map catches up from the next one.
LEMMA RecordApplied ==
  ASSUME TreeOK, FoldersStay, LogSound, journal \in Journal, NEW j, JobOK(j, "apply"), ApplySound(j),
         j.delta # <<>>, NEW a, a = Applied(j, Head(j.delta)),
         NEW k, k = [a EXCEPT !.delta = Tail(j.delta)]
  PROVE  ApplySound(k)
<1> DEFINE n == Upto(j)
           r == Head(j.delta)
           x == r.ref
           found == SizeAt(reconstruct_path(Put(j.byRef, x, Row(r, 0)), x))
<1>1. /\ AJob(j) /\ RowsOK(j.byRef) /\ j.delta \in Seq(Record) /\ j.cursor \in Nat
      /\ Len(j.delta) \in Nat /\ Len(j.delta) > 0 /\ r = j.delta[1] /\ r \in Record
      /\ Tail(j.delta) \in Seq(Record) /\ Len(Tail(j.delta)) = Len(j.delta) - 1
      /\ \A i \in 1..(Len(j.delta) - 1) : Tail(j.delta)[i] = j.delta[i + 1]
      /\ Len(journal.records) \in Nat
  <2>1. AJob(j) /\ RowsOK(j.byRef) /\ j.delta \in Seq(Record) /\ j.cursor \in Nat
    BY DEF JobOK
  <2>2. Len(journal.records) \in Nat
    BY DEF Journal
  <2> QED BY <2>1, <2>2, HeadTailProperties
<1>2. /\ AJob(a) /\ a.id = j.id /\ a.cursor = j.cursor
      /\ a = Forget(j, x) \/ \E size : a = Remember(j, x, Row(r, size))
  <2>1. AJob(Forget(j, x)) /\ Forget(j, x).id = j.id /\ Forget(j, x).cursor = j.cursor
    BY <1>1 DEF Forget, AJob
  <2>2. \A row : /\ AJob(Remember(j, x, row)) /\ Remember(j, x, row).id = j.id
                 /\ Remember(j, x, row).cursor = j.cursor
    BY <1>1 DEF Remember, AJob
  <2>3. a = Forget(j, x) \/ \E size : a = Remember(j, x, Row(r, size))
    BY DEF Applied
  <2> QED BY <2>1, <2>2, <2>3
<1>3. k.delta = Tail(j.delta) /\ k.id = j.id /\ k.cursor = j.cursor /\ k.byRef = a.byRef
      /\ k.upserts = a.upserts /\ k.deletes = a.deletes
  BY <1>2 DEF AJob
<1>4. SUFFICES ASSUME j.id = journal.id PROVE ApplySound(k)
  BY <1>3 DEF ApplySound
<1>5. /\ OfRows(j) /\ 1 <= n /\ j.cursor <= NextUsn /\ CatchUp(n, j.byRef)
      /\ \A i \in 1..Len(j.delta) : j.delta[i] = journal.records[n + i - 1]
      /\ \A y \in FilesOf(j.upserts) : y \in DOMAIN tree \/ y \in Ahead(j.cursor)
  BY <1>4 DEF ApplySound
<1>6. /\ n \in 1..Len(journal.records) /\ n = j.cursor - Len(j.delta)
      /\ Upto(k) = n + 1
  <2>1. NextUsn = Len(journal.records) + 1 /\ n = j.cursor - Len(j.delta)
    BY DEF NextUsn, Upto
  <2>2. n \in 1..Len(journal.records)
    BY <1>1, <1>5, <2>1
  <2>3. Upto(k) = n + 1
    BY <1>1, <1>3, <2>1 DEF Upto
  <2> QED BY <2>1, <2>2, <2>3
<1>7. r = journal.records[n] /\ RecordSound(n) /\ Ahead(n) = Ahead(n + 1) \cup {x}
  <2>1. 1 \in 1..Len(j.delta) /\ n + 1 - 1 = n
    BY <1>1, <1>6
  <2>2. r = journal.records[n]
    BY <1>1, <1>5, <2>1
  <2> HIDE DEF n, r
  <2> QED BY <1>6, <2>2, AheadOfNext DEF LogSound
<1> HIDE DEF n, r
<1>8. x \notin Ahead(n + 1) => IF r.gone THEN x \notin DOMAIN tree
                               ELSE x \in DOMAIN tree /\ r = RecordOf(x, tree[x], FALSE)
  BY <1>7 DEF RecordSound
<1>9. ~r.gone /\ ~r.dir => /\ found # None => x \in DOMAIN tree
                           /\ x \notin Ahead(n + 1) => found # None /\ found = tree[x].size
  <2> HIDE DEF found
  <2>1. found = SizeAt(reconstruct_path(Put(j.byRef, r.ref, Row(r, 0)), r.ref))
    BY DEF found
  <2>2. n \in 1..Len(journal.records) /\ RowsOK(j.byRef) /\ CatchUp(n, j.byRef) /\ r = journal.records[n]
    BY <1>1, <1>5, <1>6, <1>7
  <2> QED BY <2>1, <2>2, RecordLeads
<1>10. /\ CatchUp(n + 1, a.byRef) /\ OfRows(a)
       /\ \A y \in FilesOf(a.upserts) : y \in DOMAIN tree \/ y \in Ahead(j.cursor)
  <2> HIDE DEF found
  <2>1. CASE r.gone \/ (~r.dir /\ found = None)
    <3>1. a = Forget(j, x)
      BY <2>1 DEF Applied, found, r
    <3>2. x \notin Ahead(n + 1) => x \notin DOMAIN tree
      BY <1>8, <1>9, <2>1
    <3>3. CatchUp(n + 1, Forget(j, x).byRef) /\ OfRows(Forget(j, x))
      BY <1>1, <1>5, <1>7, <3>2, ForgetCatchesUp
    <3>4. Forget(j, x).upserts = j.upserts
      BY <1>1 DEF Forget, AJob
    <3> QED BY <1>5, <3>1, <3>3, <3>4
  <2>2. CASE ~r.gone /\ (r.dir \/ found # None)
    <3> DEFINE row == Row(r, IF r.dir THEN 0 ELSE found)
    <3>1. a = Remember(j, x, row)
      BY <2>2 DEF Applied, found, r
    <3>2. x \notin Ahead(n + 1) => x \in DOMAIN tree /\ row = RowOf(x, tree[x])
      <4> SUFFICES ASSUME x \notin Ahead(n + 1) PROVE x \in DOMAIN tree /\ row = RowOf(x, tree[x])
        OBVIOUS
      <4>1. x \in DOMAIN tree /\ r = RecordOf(x, tree[x], FALSE) /\ r.dir = (tree[x].kind = "dir")
        BY <1>8, <2>2 DEF RecordOf
      <4>2. ~r.dir => tree[x].kind = "file"
        BY <4>1, NoLinks DEF TreeOK, WellFormed, Entry
      <4>3. (IF r.dir THEN 0 ELSE found) = IF tree[x].kind = "file" THEN tree[x].size ELSE 0
        BY <1>9, <2>2, <4>1, <4>2
      <4> QED BY <4>1, <4>3 DEF RowOf
    <3>3. row.dir = r.dir
      BY DEF Row
    <3> HIDE DEF row
    <3>4. CatchUp(n + 1, Remember(j, x, row).byRef) /\ OfRows(Remember(j, x, row))
      BY <1>1, <1>5, <1>7, <3>2, RememberCatchesUp
    <3>5. Remember(j, x, row).upserts = Put(j.upserts, x, row)
      BY <1>1 DEF Remember, AJob
    <3>6. \A y \in FilesOf(Put(j.upserts, x, row)) : y \in DOMAIN tree \/ y \in Ahead(j.cursor)
      <4>1. ASSUME NEW y \in FilesOf(Put(j.upserts, x, row)) PROVE y \in DOMAIN tree \/ y \in Ahead(j.cursor)
        <5>1. CASE y = x
          <6>1. Put(j.upserts, x, row)[x] = row
            BY DEF Put
          <6>2. ~row.dir
            BY <4>1, <5>1, <6>1 DEF FilesOf
          <6> QED BY <1>9, <2>2, <3>3, <5>1, <6>2
        <5>2. CASE y # x
          <6>1. y \in FilesOf(j.upserts)
            BY <4>1, <5>2 DEF FilesOf, Put
          <6> QED BY <1>5, <6>1
        <5> QED BY <5>1, <5>2
      <4> QED BY <4>1
    <3> QED BY <3>1, <3>4, <3>5, <3>6
  <2>3. r.gone \in BOOLEAN /\ r.dir \in BOOLEAN
    BY <1>1 DEF Record
  <2> QED BY <2>1, <2>2, <2>3
<1>11. \A i \in 1..Len(k.delta) : k.delta[i] = journal.records[Upto(k) + i - 1]
  <2>1. ASSUME NEW i \in 1..(Len(j.delta) - 1) PROVE Tail(j.delta)[i] = journal.records[(n + 1) + i - 1]
    <3>1. i + 1 \in 1..Len(j.delta) /\ i \in 1..(Len(j.delta) - 1)
      BY <1>1
    <3>0. n + (i + 1) - 1 = (n + 1) + i - 1
      BY <1>6
    <3>2. Tail(j.delta)[i] = j.delta[i + 1] /\ j.delta[i + 1] = journal.records[n + (i + 1) - 1]
      BY <1>1, <1>5, <3>1
    <3> QED BY <3>0, <3>2
  <2> QED BY <1>1, <1>3, <1>6, <2>1
<1>12. OfRows(k)
  BY <1>3, <1>10 DEF OfRows
<1>13. 1 <= Upto(k)
  BY <1>6
<1> QED BY <1>3, <1>5, <1>6, <1>10, <1>11, <1>12, <1>13 DEF ApplySound

\* What is read of the journal is its records from the cursor on.
LEMMA DeltaIs ==
  ASSUME Inv, TypesInv, NEW id, NEW since \in Nat \ {0}, Readable(id, since),
         NEW delta, delta = read_usn_journal_delta(since)
  PROVE  /\ delta \in Seq(Record) /\ since + Len(delta) <= NextUsn
         /\ \A i \in 1..Len(delta) : delta[i] = journal.records[since + i - 1]
<1> DEFINE n == IF NextUsn - since > setup.buffer THEN since + setup.buffer - 1 ELSE NextUsn - 1
<1>1. setup.buffer \in Nat /\ journal \in Journal
  BY SetupsAssumption DEF Inv, Typed, TreeOK, TypesInv
<1>2. since >= 1 /\ NextUsn = Len(journal.records) + 1 /\ Len(journal.records) \in Nat /\ since <= NextUsn
  BY <1>1 DEF Journal, Readable, NextUsn
<1>3. n \in Int /\ n <= Len(journal.records) /\ since \in Int /\ n + 1 >= since
  BY <1>1, <1>2
<1>4. delta = SubSeq(journal.records, since, n)
  BY DEF read_usn_journal_delta
<1> HIDE DEF n
<1>5. \A i \in since..n : journal.records[i] \in Record
  <2>1. \A i \in since..n : i \in 1..Len(journal.records)
    BY <1>2, <1>3
  <2>2. journal.records \in Seq(Record)
    BY <1>1 DEF Journal
  <2> QED BY <2>1, <2>2
<1>6. /\ delta \in Seq(Record) /\ Len(delta) = IF since <= n THEN n - since + 1 ELSE 0
      /\ \A i \in 1..(n - since + 1) : delta[i] = journal.records[since + i - 1]
  BY <1>3, <1>4, <1>5, SubSeqProperties
<1>7. Len(delta) = n - since + 1
  BY <1>3, <1>6
<1> QED BY <1>2, <1>3, <1>6, <1>7

\* The warm path follows.
LEMMA WarmFollows ==
  ASSUME Inv, TableInv, TypesInv, FoldersStay, Follows, NEW s \in Scanners,
         \/ CheckMeta(s) \/ DropRows(s) \/ LoadRows(s) \/ ReadDelta(s)
         \/ ApplyRecord(s) \/ GiveUp(s) \/ FinishWarm(s)
  PROVE  Follows'
<1>1. setup' = setup /\ UNCHANGED volume /\ at[s] # "idle"
  BY Zenon DEF CheckMeta, DropRows, LoadRows, ReadDelta, ApplyRecord, GiveUp, FinishWarm
<1>2. /\ TreeOK /\ JobOK(job[s], at[s]) /\ JobIs(job[s], at[s]) /\ s \in setup.scanners
      /\ job = [t \in Scanners |-> job[t]] /\ at \in [Scanners -> Steps]
      /\ journal \in Journal /\ LogSound /\ SnapshotSound /\ MetaOK
  BY <1>1 DEF Inv, Typed, TypesInv, Follows, JobSound
<1>3. ASSUME NEW step, step \notin Busy, at' = [at EXCEPT ![s] = step],
             UNCHANGED snapshot \/ meta' = None, step = "drop" => meta' = None
      PROVE  Follows'
  BY <1>1, <1>2, <1>3, SnapshotStays, SnapshotFollows
<1>4. CASE CheckMeta(s)
  <2>1. CASE at' = [at EXCEPT ![s] = "open"] /\ UNCHANGED snapshot
    BY <1>3, <2>1 DEF Busy
  <2>2. CASE /\ job' = [job EXCEPT ![s].id = journal.id, ![s].cursor = meta.cursor]
             /\ at' = [at EXCEPT ![s] = "rows"] /\ meta # None /\ CursorUsable(meta) /\ at[s] = "meta"
             /\ UNCHANGED snapshot
    <3> DEFINE j == [job[s] EXCEPT !.id = journal.id, !.cursor = meta.cursor]
    <3>1. job' = [job EXCEPT ![s] = j]
      BY <1>2, <2>2
    <3>2. job[s] = NoJob
      BY <2>2 DEF TableInv, TableSound
    <3>3. OfMeta(j)
      BY <2>2, <3>2 DEF OfMeta, CursorUsable, NoJob
    <3> HIDE DEF j
    <3>4. JobIs(j, "rows")
      BY <3>3 DEF JobIs
    <3> QED BY <1>1, <1>2, <2>2, <3>1, <3>4, JobFollows
  <2>3. CASE at' = [at EXCEPT ![s] = "drop"] /\ meta' = None
    BY <1>3, <2>3 DEF Busy
  <2> QED BY <1>4, <2>1, <2>2, <2>3 DEF CheckMeta, invalidate_inventory_snapshot, Go
<1>5. CASE LoadRows(s)
  <2> DEFINE j == [job[s] EXCEPT !.byRef = rows]
  <2>1. job' = [job EXCEPT ![s] = j] /\ at' = [at EXCEPT ![s] = "read"] /\ UNCHANGED snapshot /\ at[s] = "rows"
    BY <1>2, <1>5 DEF LoadRows, Go
  <2>2. OfMeta(j) /\ j.byRef = rows
    BY <1>2, <2>1 DEF JobIs, OfMeta, JobOK, AJob
  <2> HIDE DEF j
  <2>3. JobIs(j, "read")
    BY <2>2 DEF JobIs
  <2> QED BY <1>1, <1>2, <2>1, <2>3, JobFollows
<1>6. CASE ReadDelta(s)
  <2>1. CASE at' = [at EXCEPT ![s] = "open"] /\ UNCHANGED snapshot
    BY <1>3, <2>1 DEF Busy
  <2>2. CASE /\ Readable(job[s].id, job[s].cursor) /\ at[s] = "read"
             /\ at' = [at EXCEPT ![s] = "apply"] /\ UNCHANGED snapshot
             /\ LET delta == read_usn_journal_delta(job[s].cursor)
                IN  job' = [job EXCEPT ![s].delta = delta, ![s].cursor = @ + Len(delta)]
    <3> DEFINE delta == read_usn_journal_delta(job[s].cursor)
               j == [job[s] EXCEPT !.delta = delta, !.cursor = @ + Len(delta)]
    <3>1. job' = [job EXCEPT ![s] = j]
      BY <1>2, <2>2
    <3>2. job[s].cursor \in Nat \ {0} /\ AJob(job[s])
      BY <1>2, <2>2 DEF JobOK
    <3>3. OfMeta(job[s]) /\ job[s].byRef = rows /\ job[s].id = journal.id
      BY <1>2, <2>2 DEF JobIs, Readable
    <3>4. /\ delta \in Seq(Record) /\ job[s].cursor + Len(delta) <= NextUsn
          /\ \A i \in 1..Len(delta) : delta[i] = journal.records[job[s].cursor + i - 1]
      BY <2>2, <3>2, DeltaIs
    <3> HIDE DEF delta
    <3>5. /\ j.cursor = job[s].cursor + Len(delta) /\ j.delta = delta /\ j.byRef = rows /\ j.id = journal.id
          /\ j.upserts = NoRows /\ j.deletes = {}
      BY <3>2, <3>3 DEF AJob, OfMeta
    <3> HIDE DEF j
    <3>6. Upto(j) = job[s].cursor
      BY <3>2, <3>4, <3>5 DEF Upto
    <3>7. CatchUp(job[s].cursor, rows)
      BY <1>2, <3>3 DEF OfMeta, SnapshotSound
    <3>8. OfRows(j) /\ FilesOf(j.upserts) = {}
      BY <3>5 DEF OfRows, NoRows, FilesOf
    <3>9. ApplySound(j)
      BY <3>2, <3>4, <3>5, <3>6, <3>7, <3>8 DEF ApplySound
    <3>10. JobIs(j, "apply")
      BY <3>9 DEF JobIs
    <3> QED BY <1>1, <1>2, <2>2, <3>1, <3>10, JobFollows
  <2> QED BY <1>6, <2>1, <2>2 DEF ReadDelta, Go
<1>7. CASE ApplyRecord(s)
  <2> DEFINE a == Applied(job[s], Head(job[s].delta))
             j == [a EXCEPT !.delta = Tail(@)]
             k == [a EXCEPT !.delta = Tail(job[s].delta)]
  <2>1. /\ at[s] = "apply" /\ job[s].delta # <<>> /\ at' = at /\ UNCHANGED snapshot
        /\ job' = [job EXCEPT ![s] = j]
    BY <1>7 DEF ApplyRecord
  <2>2. JobOK(job[s], "apply") /\ ApplySound(job[s]) /\ job[s].delta \in Seq(Record)
    BY <1>2, <2>1 DEF JobIs, JobOK
  <2>3. j = k
    <3>1. Head(job[s].delta) \in Record /\ WellFormed(tree)
      BY <1>2, <2>1, <2>2, HeadTailProperties DEF TreeOK
    <3>2. a.delta = job[s].delta
      BY <2>2, <3>1, AppliedOK
    <3> HIDE DEF a
    <3> QED BY <3>2
  <2>4. ApplySound(k)
    BY <1>2, <2>1, <2>2, RecordApplied
  <2> HIDE DEF a, j, k
  <2>5. at' = [at EXCEPT ![s] = "apply"] /\ JobIs(j, "apply")
    BY <1>2, <2>1, <2>3, <2>4 DEF JobIs
  <2> QED BY <1>1, <1>2, <2>1, <2>5, JobFollows
<1>8. CASE GiveUp(s)
  BY <1>3, <1>8 DEF GiveUp, invalidate_inventory_snapshot, Go, Busy
<1>9. CASE FinishWarm(s)
  <2> DEFINE j == job[s]
             map == [x \in (DOMAIN rows \ j.deletes) \cup DOMAIN j.upserts |->
                       IF x \in DOMAIN j.upserts THEN j.upserts[x] ELSE rows[x]]
  <2>1. /\ at[s] = "apply" /\ j.delta = <<>> /\ meta' = [id |-> j.id, cursor |-> j.cursor] /\ rows' = map
        /\ at' = [at EXCEPT ![s] = "idle"]
    BY <1>9 DEF FinishWarm, apply_inventory_delta, End
  <2>2. SnapshotSound'
    <3> SUFFICES ASSUME j.id = journal.id PROVE j.cursor <= NextUsn' /\ CatchUp(meta.cursor, rows)'
      BY <1>1, <2>1 DEF SnapshotSound, volume
    <3>1. ApplySound(j) /\ j.cursor \in Nat /\ Upto(j) = j.cursor
      <4>1. ApplySound(j) /\ j.cursor \in Nat
        BY <1>2, <2>1 DEF JobIs, JobOK
      <4>2. Len(j.delta) = 0
        BY <2>1
      <4> HIDE DEF j
      <4> QED BY <4>1, <4>2 DEF Upto
    <3>2. /\ OfRows(j) /\ j.cursor <= NextUsn /\ CatchUp(j.cursor, j.byRef)
          /\ \A y \in FilesOf(j.upserts) : y \in DOMAIN tree \/ y \in Ahead(j.cursor)
      BY <3>1 DEF ApplySound
    <3> HIDE DEF j
    <3>3. \A x \in DOMAIN j.byRef : x \in DOMAIN map /\ map[x] = j.byRef[x]
      BY <3>2 DEF OfRows
    <3>4. \A x \in FilesOf(map) : x \in FilesOf(j.upserts) \/ x \in FilesOf(j.byRef)
      BY <3>2 DEF OfRows, FilesOf
    <3>5. CatchUp(j.cursor, map)
      <4> HIDE DEF map
      <4> QED BY <3>2, <3>3, <3>4 DEF CatchUp
    <3> HIDE DEF map
    <3>6. NextUsn' = NextUsn /\ \A n, m : CatchUp(n, m)' = CatchUp(n, m)
      BY <1>1, SameLog DEF volume
    <3>7. meta'.cursor = j.cursor /\ rows' = map
      BY <2>1
    <3>8. CatchUp(meta.cursor, rows)'
      <4>1. \A n, m : n = meta'.cursor /\ m = rows' /\ CatchUp(n, m) => CatchUp(meta.cursor, rows)'
        BY <3>6
      <4> QED BY <3>5, <3>7, <4>1
    <3> QED BY <3>2, <3>6, <3>8
  <2> QED BY <1>1, <1>2, <2>1, <2>2, SnapshotFollows DEF Busy
<1>10. CASE DropRows(s)
  <2>1. at' = [at EXCEPT ![s] = "open"] /\ meta' = meta /\ meta = None
    BY <1>2, <1>10 DEF DropRows, Go, JobIs
  <2> QED BY <1>3, <2>1 DEF Busy
<1> QED BY <1>4, <1>5, <1>6, <1>7, <1>8, <1>9, <1>10

\* The reading of the table follows.
LEMMA EnumFollows ==
  ASSUME Inv, TypesInv, Follows, NEW s \in Scanners, EnumNext(s)
  PROVE  Follows'
<1> DEFINE x == CHOOSE y \in Unread(s) : \A z \in Unread(s) : y <= z
           row == Row(RecordOf(x, tree[x], FALSE), 0)
           j == [job[s] EXCEPT !.byRef = Put(@, x, row), !.page = x]
<1>1. /\ setup' = setup /\ UNCHANGED volume /\ UNCHANGED snapshot
      /\ at[s] = "enum" /\ Unread(s) # {} /\ at' = at
      /\ job' = [job EXCEPT ![s].byRef = Put(@, x, row), ![s].page = x]
  BY Zenon DEF EnumNext
<1>2. /\ TreeOK /\ AJob(job[s]) /\ EnumSound(job[s]) /\ s \in setup.scanners
      /\ job = [t \in Scanners |-> job[t]] /\ at \in [Scanners -> Steps]
  BY <1>1 DEF Inv, Typed, TypesInv, JobOK, Follows, JobSound, JobIs
<1>3. DOMAIN tree \subseteq Nat
  BY <1>2, RefsAssumption DEF TreeOK, WellFormed
<1>4. x \in Unread(s) /\ \A z \in Unread(s) : x <= z
  <2>1. Unread(s) \in SUBSET Nat
    BY <1>3 DEF Unread
  <2>2. \E y \in Unread(s) : \A z \in Unread(s) : y <= z
    BY <1>1, <2>1, Least
  <2> QED BY <2>2
<1> HIDE DEF x
<1>5. job' = [job EXCEPT ![s] = j] /\ at' = [at EXCEPT ![s] = "enum"]
  BY <1>1, <1>2
<1>6. x \in DOMAIN tree /\ x \in Nat /\ row = TableRowOf(x)
  BY <1>3, <1>4 DEF Unread, TableRowOf
<1> DEFINE more == Put(job[s].byRef, x, row)
<1>7. j.byRef = more /\ j.page = x /\ j.cursor = job[s].cursor /\ j.id = job[s].id
  BY <1>2 DEF AJob
<1>8. /\ DOMAIN more = DOMAIN job[s].byRef \cup {x} /\ more[x] = row
      /\ \A y \in DOMAIN job[s].byRef \ {x} : more[y] = job[s].byRef[y]
  BY DEF Put
<1> HIDE DEF j, more, row
<1>9. ASSUME Live(j)
      PROVE  /\ j.cursor <= NextUsn /\ j.page \in Nat
             /\ \A y \in DOMAIN tree \ Ahead(j.cursor) :
                  y <= j.page => y \in DOMAIN j.byRef /\ j.byRef[y] = TableRowOf(y)
             /\ \A y \in FilesOf(j.byRef) \ Ahead(j.cursor) : y \in DOMAIN tree
  <2>1. /\ j.cursor <= NextUsn /\ job[s].page \in Nat
        /\ \A y \in DOMAIN tree \ Ahead(j.cursor) :
             y <= job[s].page => y \in DOMAIN job[s].byRef /\ job[s].byRef[y] = TableRowOf(y)
        /\ \A y \in FilesOf(job[s].byRef) \ Ahead(j.cursor) : y \in DOMAIN tree
    BY <1>2, <1>7, <1>9 DEF EnumSound, Live
  <2>2. ASSUME NEW y \in DOMAIN tree \ Ahead(j.cursor), y <= x
        PROVE  y \in DOMAIN more /\ more[y] = TableRowOf(y)
    <3>1. y = x \/ y <= job[s].page
      <4>1. y \in Nat /\ (y > job[s].page => x <= y)
        BY <1>3, <1>4 DEF Unread
      <4> QED BY <1>6, <2>1, <2>2, <4>1
    <3> QED BY <1>6, <1>8, <2>1, <3>1
  <2>3. ASSUME NEW y \in FilesOf(more) \ Ahead(j.cursor) PROVE y \in DOMAIN tree
    <3>1. y # x => y \in FilesOf(job[s].byRef)
      BY <1>8, <2>3 DEF FilesOf
    <3> QED BY <1>6, <2>1, <3>1
  <2> QED BY <1>6, <1>7, <2>1, <2>2, <2>3
<1>10. JobIs(j, "enum")
  BY <1>9 DEF JobIs, EnumSound
<1> QED BY <1>1, <1>2, <1>5, <1>10, JobFollows

\* A size asked for in the reading of the table is the file's.
LEMMA StatFollows ==
  ASSUME Inv, TypesInv, FoldersStay, Follows, NEW s \in Scanners, ColdStat(s)
  PROVE  Follows'
<1>1. /\ setup' = setup /\ UNCHANGED volume /\ UNCHANGED snapshot /\ at[s] = "stat" /\ at' = at
  BY DEF ColdStat
<1>2. /\ TreeOK /\ AJob(job[s]) /\ RowsOK(job[s].byRef) /\ StatSound(job[s]) /\ s \in setup.scanners
      /\ job = [t \in Scanners |-> job[t]] /\ at \in [Scanners -> Steps] /\ job[s].cursor \in Nat
      /\ LogSound /\ journal \in Journal
  BY <1>1 DEF Inv, Typed, TypesInv, JobOK, Follows, JobSound, JobIs
<1>3. PICK x \in job[s].todo :
        LET size == SizeAt(reconstruct_path(job[s].byRef, x))
        IN  job' = [job EXCEPT ![s].todo = @ \ {x}, ![s].sizes = IF size = None THEN @ ELSE Put(@, x, size)]
  BY DEF ColdStat
<1> DEFINE size == SizeAt(reconstruct_path(job[s].byRef, x))
           sizes == IF size = None THEN job[s].sizes ELSE Put(job[s].sizes, x, size)
           j == [job[s] EXCEPT !.todo = @ \ {x}, !.sizes = sizes]
<1>4. job' = [job EXCEPT ![s] = j] /\ at' = [at EXCEPT ![s] = "stat"]
  BY <1>1, <1>2, <1>3
<1>5. /\ j.sizes = sizes /\ j.todo = job[s].todo \ {x} /\ j.byRef = job[s].byRef
      /\ j.cursor = job[s].cursor /\ j.id = job[s].id
  BY <1>2 DEF AJob
<1>6. /\ DOMAIN sizes = IF size = None THEN DOMAIN job[s].sizes ELSE DOMAIN job[s].sizes \cup {x}
      /\ size # None => sizes[x] = size
      /\ \A y \in DOMAIN job[s].sizes \ {x} : sizes[y] = job[s].sizes[y]
      /\ size = None => sizes = job[s].sizes
  BY DEF Put
<1> HIDE DEF j, sizes
<1>7. Live(job[s]) /\ x \in DOMAIN tree \ Ahead(job[s].cursor) /\ IsFile(x) => size # None /\ size = tree[x].size
  <2> SUFFICES ASSUME Live(job[s]), x \in DOMAIN tree \ Ahead(job[s].cursor), IsFile(x)
               PROVE  size # None /\ size = tree[x].size
    OBVIOUS
  <2> DEFINE C == DOMAIN tree \ Ahead(job[s].cursor)
             map == job[s].byRef
  <2>1. job[s].cursor \in 1..NextUsn
    <3>1. job[s].cursor <= NextUsn /\ job[s].cursor \in Nat \ {0} /\ NextUsn \in Nat
      BY <1>2 DEF StatSound, Live, Journal, NextUsn
    <3> QED BY <3>1
  <2>2. \A y \in C : tree[y].parent = Top \/ tree[y].parent \in C
    BY <1>2, <2>1, SettledIsClosed
  <2>3. \A y \in C : /\ y \in DOMAIN map
                     /\ map[y].parent = tree[y].parent /\ map[y].name = tree[y].name
    <3>1. ASSUME NEW y \in C PROVE y \in DOMAIN map /\ map[y] = TableRowOf(y)
      BY <1>2 DEF StatSound
    <3>2. \A y : TableRowOf(y).parent = tree[y].parent /\ TableRowOf(y).name = tree[y].name
      BY DEF TableRowOf, Row, RecordOf
    <3> QED BY <3>1, <3>2
  <2>4. C \in SUBSET DOMAIN tree /\ (\A y \in DOMAIN tree : tree[y].kind # "link") /\ x \in C
    BY <1>2, NoLinks
  <2>5. tree[x].kind # "dir"
    BY DEF IsFile
  <2> HIDE DEF C
  <2>6. Resolve(reconstruct_path(map, x)) = Step(map[x].parent, map[x].name)
    <3>1. RowsOK(map) /\ x \in DOMAIN map /\ (map[x].parent = Top \/ map[x].parent \in C)
      BY <1>2, <2>2, <2>3, <2>4
    <3>2. \A y \in C : /\ y \in DOMAIN map
                       /\ map[y].parent = tree[y].parent /\ map[y].name = tree[y].name
                       /\ tree[y].parent = Top \/ tree[y].parent \in C
      BY <2>2, <2>3
    <3> HIDE DEF map
    <3> QED BY <1>2, <2>4, <3>1, <3>2, LedByParent
  <2>7. Resolve(reconstruct_path(map, x)) = Step(tree[x].parent, tree[x].name)
    BY <2>3, <2>4, <2>6
  <2> QED BY <1>2, <2>5, <2>7, SizeOfChild
<1> HIDE DEF size
<1>8. StatSound(j)
  <2>1. j.todo \cup DOMAIN j.sizes \subseteq FilesOf(j.byRef)
    BY <1>2, <1>3, <1>5, <1>6 DEF StatSound
  <2>2. ASSUME Live(j) PROVE Live(job[s])
    BY <1>5, <2>2 DEF Live
  <2>3. ASSUME Live(j), NEW y \in DOMAIN tree \ Ahead(j.cursor)
        PROVE  /\ y \in DOMAIN j.byRef /\ j.byRef[y] = TableRowOf(y)
               /\ IsFile(y) => y \in j.todo \/ (y \in DOMAIN j.sizes /\ j.sizes[y] = tree[y].size)
    <3>1. /\ y \in DOMAIN job[s].byRef /\ job[s].byRef[y] = TableRowOf(y)
          /\ IsFile(y) => y \in job[s].todo \/ (y \in DOMAIN job[s].sizes /\ job[s].sizes[y] = tree[y].size)
      BY <1>2, <1>5, <2>2, <2>3 DEF StatSound
    <3>2. CASE y = x
      BY <1>5, <1>6, <1>7, <2>2, <2>3, <3>1, <3>2
    <3>3. CASE y # x
      BY <1>5, <1>6, <3>1, <3>3
    <3> QED BY <3>2, <3>3
  <2>4. Live(j) => j.cursor <= NextUsn /\ \A y \in FilesOf(j.byRef) \ Ahead(j.cursor) : y \in DOMAIN tree
    BY <1>2, <1>5, <2>2 DEF StatSound
  <2> QED BY <2>1, <2>3, <2>4 DEF StatSound
<1>9. JobIs(j, "stat")
  BY <1>8 DEF JobIs
<1> QED BY <1>1, <1>2, <1>4, <1>9, JobFollows

\* The snapshot the reading of the table leaves follows.
LEMMA PersistFollows ==
  ASSUME Inv, TypesInv, FoldersStay, Follows, NEW s \in Scanners, at[s] = "stat",
         NEW j, j = job[s], j.todo = {}, UNCHANGED volume, setup' = setup, persist_cold_snapshot(j),
         j.cursor # 0
  PROVE  SnapshotSound'
<1> DEFINE map == [x \in DOMAIN j.byRef |->
                     [j.byRef[x] EXCEPT !.size = IF x \in DOMAIN j.sizes THEN j.sizes[x] ELSE 0]]
<1>1. meta' = [id |-> j.id, cursor |-> j.cursor] /\ rows' = map
  BY DEF persist_cold_snapshot
<1>2. TreeOK /\ RowsOK(j.byRef) /\ StatSound(j) /\ LogSound
  BY DEF Inv, Typed, TypesInv, JobOK, Follows, JobSound, JobIs
<1> SUFFICES ASSUME j.id = journal.id PROVE j.cursor <= NextUsn' /\ CatchUp(meta.cursor, rows)'
  BY <1>1 DEF SnapshotSound, volume
<1>3. /\ j.cursor <= NextUsn /\ DOMAIN j.sizes \subseteq FilesOf(j.byRef)
      /\ \A x \in DOMAIN tree \ Ahead(j.cursor) :
           /\ x \in DOMAIN j.byRef /\ j.byRef[x] = TableRowOf(x)
           /\ IsFile(x) => x \in DOMAIN j.sizes /\ j.sizes[x] = tree[x].size
      /\ \A x \in FilesOf(j.byRef) \ Ahead(j.cursor) : x \in DOMAIN tree
  BY <1>2 DEF StatSound, Live
<1>4. DOMAIN map = DOMAIN j.byRef
  OBVIOUS
<1>5. \A x \in DOMAIN j.byRef : /\ map[x] = [j.byRef[x] EXCEPT !.size = IF x \in DOMAIN j.sizes THEN j.sizes[x] ELSE 0]
                                /\ map[x].dir = j.byRef[x].dir
  BY <1>2 DEF RowsOK, SnapshotRow
<1>6. FilesOf(map) = FilesOf(j.byRef)
  BY <1>5 DEF FilesOf
<1>7. ASSUME NEW x \in DOMAIN tree \ Ahead(j.cursor) PROVE x \in DOMAIN map /\ map[x] = RowOf(x, tree[x])
  <2> DEFINE n == IF x \in DOMAIN j.sizes THEN j.sizes[x] ELSE 0
             m == IF tree[x].kind = "file" THEN tree[x].size ELSE 0
  <2>1. x \in DOMAIN j.byRef /\ j.byRef[x] = TableRowOf(x) /\ map[x] = [TableRowOf(x) EXCEPT !.size = n]
    BY <1>3, <1>5, <1>7
  <2>2. n = m
    <3>1. CASE tree[x].kind = "file"
      <4>1. IsFile(x)
        BY <1>2, <1>7, <3>1, RefsAssumption DEF IsFile, TreeOK, WellFormed
      <4> QED BY <1>3, <1>7, <3>1, <4>1
    <3>2. CASE tree[x].kind # "file"
      <4>1. tree[x].kind = "dir"
        BY <1>2, <1>7, <3>2, NoLinks DEF TreeOK, WellFormed, Entry
      <4>2. j.byRef[x].dir
        BY <2>1, <4>1 DEF TableRowOf, Row, RecordOf
      <4>3. x \notin DOMAIN j.sizes
        BY <1>3, <4>2 DEF FilesOf
      <4> QED BY <3>2, <4>3
    <3> QED BY <3>1, <3>2
  <2>3. [TableRowOf(x) EXCEPT !.size = m] = RowOf(x, tree[x])
    <3>1. \A r, k : [Row(r, 0) EXCEPT !.size = k] = Row(r, k)
      BY DEF Row
    <3> QED BY <3>1 DEF TableRowOf, RowOf
  <2> HIDE DEF n, m
  <2> QED BY <1>4, <2>1, <2>2, <2>3
<1> HIDE DEF map
<1>8. CatchUp(j.cursor, map)
  BY <1>3, <1>6, <1>7 DEF CatchUp
<1>9. NextUsn' = NextUsn /\ \A n, m : CatchUp(n, m)' = CatchUp(n, m)
  BY SameLog DEF volume
<1>10. CatchUp(meta.cursor, rows)'
  <2>1. \A n, m : n = meta'.cursor /\ m = rows' /\ CatchUp(n, m) => CatchUp(meta.cursor, rows)'
    BY <1>9
  <2>2. meta'.cursor = j.cursor
    BY <1>1
  <2> QED BY <1>1, <1>8, <2>1, <2>2
<1> QED BY <1>3, <1>9, <1>10

\* The cold path follows.
LEMMA ColdFollows ==
  ASSUME Inv, TableInv, TypesInv, FoldersStay, Follows, NEW s \in Scanners,
         ColdOpen(s) \/ ColdFails(s) \/ EnumNext(s) \/ EnumEnd(s) \/ ColdStat(s) \/ FinishCold(s)
  PROVE  Follows'
<1>1. setup' = setup /\ UNCHANGED volume /\ at[s] # "idle"
  BY Zenon DEF ColdOpen, ColdFails, EnumNext, EnumEnd, ColdStat, FinishCold
<1>2. /\ TreeOK /\ JobOK(job[s], at[s]) /\ JobIs(job[s], at[s]) /\ s \in setup.scanners
      /\ job = [t \in Scanners |-> job[t]] /\ at \in [Scanners -> Steps]
      /\ journal \in Journal /\ LogSound /\ SnapshotSound
  BY <1>1 DEF Inv, Typed, TypesInv, Follows, JobSound
<1>3. DOMAIN tree \subseteq Nat \ {0}
  BY <1>2, RefsAssumption DEF TreeOK, WellFormed
<1>4. CASE ColdOpen(s)
  <2>1. job[s] = NoJob /\ at' = [at EXCEPT ![s] = "enum"] /\ UNCHANGED snapshot
    BY <1>4 DEF ColdOpen, Go, TableInv, TableSound
  <2>2. PICK j : job' = [job EXCEPT ![s] = j] /\ j.byRef = NoRows /\ j.page = 0
                 /\ j.cursor \in {0, NextUsn}
    <3>1. CASE job' = job
      <4>1. job' = [job EXCEPT ![s] = NoJob]
        BY <1>2, <2>1, <3>1
      <4>2. NoJob.byRef = NoRows /\ NoJob.page = 0 /\ NoJob.cursor = 0
        BY DEF NoJob
      <4> QED BY <4>1, <4>2
    <3>2. CASE job' = [job EXCEPT ![s].id = journal.id, ![s].cursor = NextUsn]
      <4> DEFINE k == [NoJob EXCEPT !.id = journal.id, !.cursor = NextUsn]
      <4>1. job' = [job EXCEPT ![s] = k]
        BY <1>2, <2>1, <3>2
      <4>2. k.byRef = NoRows /\ k.page = 0 /\ k.cursor = NextUsn
        BY DEF NoJob
      <4> HIDE DEF k
      <4> QED BY <4>1, <4>2
    <3> QED BY <1>4, <3>1, <3>2 DEF ColdOpen
  <2>3. EnumSound(j)
    <3>1. \A x \in DOMAIN tree : ~(x <= 0)
      BY <1>3
    <3>2. FilesOf(NoRows) = {}
      BY DEF FilesOf, NoRows
    <3>3. NextUsn <= NextUsn
      BY <1>2 DEF Journal, NextUsn
    <3> QED BY <2>2, <3>1, <3>2, <3>3 DEF EnumSound, Live
  <2>4. JobIs(j, "enum")
    BY <2>3 DEF JobIs
  <2> QED BY <1>1, <1>2, <2>1, <2>2, <2>4, JobFollows
<1>5. CASE ColdFails(s)
  <2>1. at' = [at EXCEPT ![s] = "walk"] /\ UNCHANGED snapshot
    BY <1>5 DEF ColdFails, Go
  <2> QED BY <1>1, <1>2, <2>1, SnapshotStays, SnapshotFollows DEF Busy
<1>6. CASE EnumEnd(s)
  <2> DEFINE j == [job[s] EXCEPT !.todo = FilesOf(job[s].byRef)]
  <2>1. /\ job' = [job EXCEPT ![s] = j] /\ at' = [at EXCEPT ![s] = "stat"] /\ UNCHANGED snapshot
        /\ at[s] = "enum" /\ Unread(s) = {}
    BY <1>2, <1>6 DEF EnumEnd, Go
  <2>2. EnumSound(job[s]) /\ AJob(job[s]) /\ job[s].sizes = NoRows
    BY <1>2, <2>1 DEF JobIs, JobOK, TableInv, TableSound
  <2>3. /\ j.todo = FilesOf(job[s].byRef) /\ j.byRef = job[s].byRef /\ j.sizes = NoRows
        /\ j.cursor = job[s].cursor /\ j.id = job[s].id
    BY <2>2 DEF AJob
  <2> HIDE DEF j
  <2>4. ASSUME Live(j)
        PROVE  /\ j.cursor <= NextUsn
               /\ \A x \in DOMAIN tree \ Ahead(j.cursor) :
                    /\ x \in DOMAIN j.byRef /\ j.byRef[x] = TableRowOf(x)
                    /\ IsFile(x) => x \in j.todo
               /\ \A x \in FilesOf(j.byRef) \ Ahead(j.cursor) : x \in DOMAIN tree
    <3>1. /\ j.cursor <= NextUsn /\ job[s].page \in Nat
          /\ \A x \in DOMAIN tree \ Ahead(j.cursor) :
               x <= job[s].page => x \in DOMAIN j.byRef /\ j.byRef[x] = TableRowOf(x)
          /\ \A x \in FilesOf(j.byRef) \ Ahead(j.cursor) : x \in DOMAIN tree
      BY <2>2, <2>3, <2>4 DEF EnumSound, Live
    <3>2. \A x \in DOMAIN tree : x <= job[s].page
      BY <1>3, <2>1, <3>1 DEF Unread
    <3>3. ASSUME NEW x \in DOMAIN tree \ Ahead(j.cursor), IsFile(x) PROVE x \in j.todo
      <4>1. x \in DOMAIN j.byRef /\ j.byRef[x] = TableRowOf(x)
        BY <3>1, <3>2
      <4>2. ~TableRowOf(x).dir
        BY <3>3 DEF TableRowOf, Row, RecordOf, IsFile
      <4> QED BY <2>3, <4>1, <4>2 DEF FilesOf
    <3> QED BY <3>1, <3>2, <3>3
  <2>5. DOMAIN j.sizes = {}
    BY <2>3 DEF NoRows
  <2>6. StatSound(j)
    BY <2>3, <2>4, <2>5 DEF StatSound
  <2>7. JobIs(j, "stat")
    BY <2>6 DEF JobIs
  <2> QED BY <1>1, <1>2, <2>1, <2>7, JobFollows
<1>7. CASE FinishCold(s)
  <2>1. /\ at[s] = "stat" /\ job[s].todo = {} /\ at' = [at EXCEPT ![s] = "idle"]
        /\ UNCHANGED snapshot \/ (job[s].cursor # 0 /\ persist_cold_snapshot(job[s]))
    BY <1>7 DEF FinishCold, End
  <2>2. SnapshotSound'
    BY <1>1, <2>1, SnapshotStays, PersistFollows
  <2> QED BY <1>1, <1>2, <2>1, <2>2, SnapshotFollows DEF Busy
<1> QED BY <1>4, <1>5, <1>6, <1>7, EnumFollows, StatFollows

\* Every step keeps it.
LEMMA FollowsNext ==
  ASSUME Inv, TableInv, TypesInv, FoldersStay, Follows, [Next]_vars
  PROVE  Follows'
<1>1. ASSUME UNCHANGED volume, setup' = setup, UNCHANGED snapshot, at' = at, job' = job
      PROVE  Follows'
  <2>1. tree' = tree /\ journal' = journal /\ meta' = meta /\ rows' = rows
    BY <1>1 DEF volume, snapshot
  <2>2. LogSound' /\ SnapshotSound'
    BY <1>1, <2>1, SameLog DEF Follows, SnapshotSound
  <2>3. \A j, step : JobIs(j, step)' = JobIs(j, step)
    BY <1>1, <2>1, SameLog
  <2>4. ASSUME NEW s \in Scanners PROVE JobSound(s)'
    BY <1>1, <2>3 DEF Follows, JobSound
  <2> QED BY <2>2, <2>4 DEF Follows
<1>2. ASSUME NEW s \in Scanners, at[s] # "idle" \/ s \in setup.scanners, NEW step, step \notin Busy,
             at' = [at EXCEPT ![s] = step], UNCHANGED volume, setup' = setup, UNCHANGED snapshot,
             step # "drop"
      PROVE  Follows'
  <2>1. s \in setup.scanners
    BY <1>2 DEF Follows, JobSound
  <2> QED BY <1>2, <2>1, SnapshotStays, SnapshotFollows
<1>3. CASE Change /\ UNCHANGED <<setup, snapshot, at, job, list, runs, kills, TheWalk>>
  BY <1>3, ChangeFollows
<1>4. ASSUME NEW s \in Scanners, Begin(s) PROVE Follows'
  <2>1. /\ s \in setup.scanners /\ UNCHANGED volume /\ setup' = setup /\ UNCHANGED snapshot
        /\ at' = [at EXCEPT ![s] = "meta"] \/ at' = [at EXCEPT ![s] = "walk"]
    BY <1>4 DEF Begin
  <2> QED BY <1>2, <2>1 DEF Busy
<1>5. ASSUME NEW s \in Scanners, TableStep(s) PROVE Follows'
  BY <1>5, WarmFollows, ColdFollows DEF TableStep
<1>6. ASSUME NEW s \in Scanners, WalkStep(s) PROVE Follows'
  <2>1. CASE FinishWalk(s)
    <3>1. /\ at[s] = "walk" /\ at' = [at EXCEPT ![s] = "idle"]
          /\ UNCHANGED volume /\ setup' = setup /\ UNCHANGED snapshot
      BY <2>1 DEF FinishWalk, End
    <3> QED BY <1>2, <3>1 DEF Busy
  <2>2. CASE \E i \in Roots : OpenRoot(s, i) \/ Announce(s, i) \/ Harvest(s, i) \/ NextLayer(s, i)
    BY <1>1, <2>2, LaneStepKeeps
  <2> QED BY <1>6, <2>1, <2>2 DEF WalkStep
<1>7. ASSUME NEW s \in Scanners, Cancel(s) PROVE Follows'
  BY <1>1, <1>7 DEF Cancel, warmVars
<1>8. ASSUME NEW s \in Scanners, Kill(s) PROVE Follows'
  <2>1. /\ at[s] # "idle" /\ at' = [at EXCEPT ![s] = "idle"]
        /\ UNCHANGED volume /\ setup' = setup /\ UNCHANGED snapshot
    BY <1>8 DEF Kill, End
  <2> QED BY <1>2, <2>1 DEF Busy
<1>9. CASE UNCHANGED vars
  BY <1>1, <1>9 DEF vars, warmVars
<1> QED BY <1>3, <1>4, <1>5, <1>6, <1>7, <1>8, <1>9 DEF Next

\* The snapshot of the setups it can be expected of is the volume but for what the journal
\* has still to say, in every state: through kills, through inventories that fail or are
\* given up at any record, and whatever changes while the table or the delta is read.
THEOREM SnapshotFollowsJournal == Spec => [](FoldersStay => SnapshotCatchesUp)
<1>1. Init => (FoldersStay => Follows)
  BY FollowsInit
<1>2. /\ Inv /\ TableInv /\ TypesInv /\ (FoldersStay => Follows) /\ [Next]_vars
      => (FoldersStay => Follows)'
  <2> SUFFICES ASSUME Inv, TableInv, TypesInv, FoldersStay => Follows, [Next]_vars, FoldersStay'
               PROVE  Follows'
    OBVIOUS
  <2>1. setup' = setup
    BY SetupStays
  <2> QED BY <2>1, FoldersStayPut, FollowsNext
<1>3. (FoldersStay => Follows) => (FoldersStay => SnapshotCatchesUp)
  BY DEF Follows, SnapshotSound, SnapshotCatchesUp, CursorUsable, CatchUp, Ahead, RowOf
<1> QED BY <1>1, <1>2, <1>3, InvHolds, TableInvHolds, TypesHold, PTL DEF Spec

=============================================================================
