------------------------------ MODULE GuiProofs ------------------------------
(***************************************************************************)
(* What is proved of GuiActions, for every table, every user and any       *)
(* number of workers.                                                      *)
(***************************************************************************)
EXTENDS GuiActions, FiniteSetTheorems, SequenceTheorems, WellFoundedInduction, TLAPS

-----------------------------------------------------------------------------
(* Sequences.                                                              *)

\* Of some rows one comes first.
LEMMA LeastRow ==
  ASSUME NEW S \in SUBSET Nat, S # {}
  PROVE  \E i \in S : \A j \in S : i <= j
<1>1. PICK i \in S : \A j \in S : ~ (<<j, i>> \in OpToRel(<, Nat))
  BY NatLessThanWellFounded, WFMin
<1>2. \A j \in S : ~ (j < i)
  BY <1>1 DEF OpToRel
<1> QED BY <1>2

\* The i-th leaves, and those after it move up.
LEMMA RemoveAtOK ==
  ASSUME NEW S, NEW s \in Seq(S), NEW i \in 1..Len(s)
  PROVE  /\ RemoveAt(s, i) \in Seq(S)
         /\ Len(RemoveAt(s, i)) = Len(s) - 1
         /\ \A j \in 1..(Len(s) - 1) : RemoveAt(s, i)[j] = IF j < i THEN s[j] ELSE s[j + 1]
<1> DEFINE a == SubSeq(s, 1, i - 1)
           b == SubSeq(s, i + 1, Len(s))
<1>1. a \in Seq(S) /\ Len(a) = i - 1 /\ \A j \in 1..(i - 1) : a[j] = s[j]
  OBVIOUS
<1>2. b \in Seq(S) /\ Len(b) = Len(s) - i /\ \A j \in 1..(Len(s) - i) : b[j] = s[j + i]
  OBVIOUS
<1>3. RemoveAt(s, i) = a \o b
  BY DEF RemoveAt
<1> HIDE DEF a, b
<1>4. a \o b \in Seq(S) /\ Len(a \o b) = Len(s) - 1
  <2>1. a \o b \in Seq(S) /\ Len(a \o b) = Len(a) + Len(b)
    BY <1>1, <1>2, ConcatProperties
  <2> QED BY <2>1, <1>1, <1>2
<1>5. ASSUME NEW j \in 1..(Len(s) - 1) PROVE (a \o b)[j] = IF j < i THEN s[j] ELSE s[j + 1]
  <2>1. CASE j < i
    BY <2>1, <1>1, <1>2
  <2>2. CASE ~ (j < i)
    <3>1. (a \o b)[j] = b[j - (i - 1)]
      BY <2>2, <1>1, <1>2
    <3>2. b[j - (i - 1)] = s[(j - (i - 1)) + i]
      BY <2>2, <1>2
    <3>3. (j - (i - 1)) + i = j + 1
      OBVIOUS
    <3> QED BY <2>2, <3>1, <3>2, <3>3
  <2> QED BY <2>1, <2>2
<1> QED BY <1>3, <1>4, <1>5

\* ... so that each of the rest is at a place of its own again.
LEMMA Pulled ==
  ASSUME NEW S, NEW s \in Seq(S), NEW i \in 1..Len(s)
  PROVE  \E from \in [DOMAIN RemoveAt(s, i) -> DOMAIN s] :
           /\ \A j \in DOMAIN RemoveAt(s, i) : RemoveAt(s, i)[j] = s[from[j]] /\ from[j] # i
           /\ \A j, k \in DOMAIN RemoveAt(s, i) : from[j] = from[k] => j = k
           /\ \A h \in DOMAIN s : h # i => \E j \in DOMAIN RemoveAt(s, i) : from[j] = h
<1> DEFINE r == RemoveAt(s, i)
           n == Len(s) - 1
           from == [j \in 1..n |-> IF j < i THEN j ELSE j + 1]
<1>1. /\ r \in Seq(S) /\ Len(r) = n
      /\ \A j \in 1..n : r[j] = IF j < i THEN s[j] ELSE s[j + 1]
  BY RemoveAtOK
<1>2. DOMAIN r = 1..n /\ DOMAIN s = 1..Len(s) /\ Len(s) \in Nat
  BY <1>1
<1> HIDE DEF r
<1>3. from \in [DOMAIN r -> DOMAIN s]
  BY <1>2
<1>4. \A j \in DOMAIN r : r[j] = s[from[j]] /\ from[j] # i
  BY <1>1, <1>2
<1>5. \A j, k \in DOMAIN r : from[j] = from[k] => j = k
  BY <1>2
<1>6. ASSUME NEW h \in DOMAIN s, h # i PROVE \E j \in DOMAIN r : from[j] = h
  <2>1. CASE h < i
    BY <1>2, <2>1
  <2>2. CASE ~ (h < i)
    <3>1. h - 1 \in 1..n /\ ~ (h - 1 < i) /\ (h - 1) + 1 = h
      BY <1>2, <1>6, <2>2
    <3> QED BY <1>2, <3>1
  <2> QED BY <2>1, <2>2
<1> HIDE DEF from
<1> QED BY <1>3, <1>4, <1>5, <1>6 DEF r

\* Every element of a finite set is listed, once, and nothing else.
LEMMA SetToSeqOK ==
  ASSUME NEW S, IsFiniteSet(S)
  PROVE  SetToSeq(S) \in Seq(S) /\ Range(SetToSeq(S)) = S /\ IsInjective(SetToSeq(S))
<1>1. Cardinality(S) \in Nat /\ ExistsBijection(1..Cardinality(S), S)
  BY FS_CardinalityType
<1>2. PICK b \in [1..Cardinality(S) -> S] : b \in Bijection(1..Cardinality(S), S)
  BY <1>1 DEF ExistsBijection, Bijection, Injection
<1>3. IsInjective(b)
  BY <1>2 DEF Bijection, Injection, IsInjective
<1>4. SetToSeq(S) \in [1..Cardinality(S) -> S] /\ IsInjective(SetToSeq(S))
  BY <1>2, <1>3 DEF SetToSeq
<1> DEFINE f == SetToSeq(S)
<1>5. f \in Injection(1..Cardinality(S), S)
  BY <1>4 DEF Injection, IsInjective
<1>6. f \in Surjection(1..Cardinality(S), S)
  <2>1. IsFiniteSet(1..Cardinality(S)) /\ Cardinality(1..Cardinality(S)) = Cardinality(S)
    BY <1>1, FS_Interval
  <2> QED BY <2>1, <1>5, FS_Injection
<1> HIDE DEF f
<1>7. f \in Seq(S)
  BY <1>1, <1>4 DEF f
<1>8. Range(f) = S
  <2>1. f \in [1..Cardinality(S) -> S] /\ \A t \in S : \E k \in 1..Cardinality(S) : f[k] = t
    BY <1>6 DEF Surjection
  <2> QED BY <2>1 DEF Range
<1> QED BY <1>4, <1>7, <1>8 DEF f

\* What is at the front of a sequence, and what is left.
LEMMA FirstAndRest ==
  ASSUME NEW S, NEW s \in Seq(S), s # <<>>
  PROVE  /\ Head(s) \in S /\ Tail(s) \in Seq(S)
         /\ Len(s) \in Nat /\ Len(Tail(s)) = Len(s) - 1
         /\ Head(s) \in Range(s) /\ Range(Tail(s)) \subseteq Range(s)
         /\ \A x \in Range(s) : x = Head(s) \/ x \in Range(Tail(s))
<1>1. Head(s) \in S /\ Tail(s) \in Seq(S)
  BY HeadTailProperties
<1>2. Len(s) \in Nat \ {0} /\ Head(s) = s[1] /\ DOMAIN s = 1..Len(s)
  BY EmptySeq
<1>3. Len(Tail(s)) = Len(s) - 1 /\ \A i \in 1..Len(Tail(s)) : Tail(s)[i] = s[i + 1]
  BY HeadTailProperties
<1>4. DOMAIN Tail(s) = 1..Len(Tail(s))
  BY <1>1
<1>5. Head(s) \in Range(s)
  BY <1>2 DEF Range
<1>6. ASSUME NEW x \in Range(Tail(s)) PROVE x \in Range(s)
  <2>1. PICK i \in 1..Len(Tail(s)) : x = Tail(s)[i]
    BY <1>4 DEF Range
  <2>2. i + 1 \in DOMAIN s /\ x = s[i + 1]
    BY <2>1, <1>2, <1>3
  <2> QED BY <2>2 DEF Range
<1>7. ASSUME NEW x \in Range(s), x # Head(s) PROVE x \in Range(Tail(s))
  <2>1. PICK i \in 1..Len(s) : x = s[i]
    BY <1>2 DEF Range
  <2>2. i - 1 \in 1..Len(Tail(s)) /\ s[(i - 1) + 1] = x
    BY <2>1, <1>2, <1>3, <1>7
  <2>3. Tail(s)[i - 1] = x
    BY <2>2, <1>3
  <2> QED BY <2>2, <2>3, <1>4 DEF Range
<1> QED BY <1>1, <1>2, <1>3, <1>5, <1>6, <1>7

\* One more at the end.
LEMMA OneMore ==
  ASSUME NEW S, NEW s \in Seq(S), NEW e \in S
  PROVE  Append(s, e) \in Seq(S) /\ Range(Append(s, e)) = Range(s) \union {e}
<1>1. Append(s, e) \in Seq(S) /\ Len(Append(s, e)) = Len(s) + 1 /\ Len(s) \in Nat
  OBVIOUS
<1>2. \A i \in 1..(Len(s) + 1) : Append(s, e)[i] = IF i = Len(s) + 1 THEN e ELSE s[i]
  OBVIOUS
<1>3. DOMAIN s = 1..Len(s) /\ DOMAIN Append(s, e) = 1..(Len(s) + 1)
  BY <1>1
<1>4. ASSUME NEW x \in Range(Append(s, e)) PROVE x \in Range(s) \union {e}
  <2>1. PICK i \in 1..(Len(s) + 1) : x = Append(s, e)[i]
    BY <1>3 DEF Range
  <2>2. CASE i = Len(s) + 1
    BY <2>1, <2>2, <1>2
  <2>3. CASE i # Len(s) + 1
    <3>1. i \in DOMAIN s /\ x = s[i]
      BY <2>1, <2>3, <1>1, <1>2, <1>3
    <3> QED BY <3>1 DEF Range
  <2> QED BY <2>2, <2>3
<1>5. ASSUME NEW x \in Range(s) PROVE x \in Range(Append(s, e))
  <2>1. PICK i \in 1..Len(s) : x = s[i]
    BY <1>3 DEF Range
  <2>2. i \in DOMAIN Append(s, e) /\ Append(s, e)[i] = x
    BY <2>1, <1>1, <1>2, <1>3
  <2> QED BY <2>2 DEF Range
<1>6. e \in Range(Append(s, e))
  <2>1. Len(s) + 1 \in DOMAIN Append(s, e) /\ Append(s, e)[Len(s) + 1] = e
    BY <1>1, <1>2, <1>3
  <2> QED BY <2>1 DEF Range
<1> QED BY <1>1, <1>4, <1>5, <1>6

-----------------------------------------------------------------------------
(* What every state is made of.                                            *)

MovePcs == {"look", "move", "copy", "unlink", "cleanup"}
Pcs == {"idle", "start", "next", "acting", "record", "saving", "finish"} \union MovePcs

FileDeeds == Actions \ {"reflink"}
Moves     == {"archive", "copy", "unsuffix", "restore"}

Job == [phase : Phases, action : Actions \union {None}, target : Paths \union {None},
        keeper : Paths \union {None}, kid : Inodes \union {None}]

ItemSet == [keeper : Paths \union {None}, target : Paths]

TaskSet == [pc : Pcs, deed : {"none"} \union FileDeeds \union Moves, todo : Seq(ItemSet),
            roots : Seq(SUBSET Files), renamed : SUBSET Paths, moved : SUBSET (Paths \X Entries), loaded : SUBSET Paths]

Pending == [action : ForGroup \union ForAll \union ForRoots, keeper : Paths \union {None},
            dupes : Seq(Paths)]

Events == {Started, Finished} \union {Gone(p) : p \in Paths}
            \union {MovedTo(p, NewPathOf[p]) : p \in Paths}

\* A row of the table has a keeper and a dupe at least.
Rows == {r \in Seq(Paths) : Len(r) >= 2}

Dirs == [Entries -> Inodes \union {None}]

DiskTyped ==
  /\ dir \in Dirs
  /\ data \in [Inodes -> Contents \union {None}]
  /\ job \in [Workers -> Job]

WindowTyped ==
  /\ user \in Users
  /\ table \in Seq(Rows)
  /\ pending # None => /\ pending \in Pending /\ pending.action \in user.offered
                       /\ pending.action \in ForGroup => pending.keeper \in Paths
  /\ cancel \in BOOLEAN /\ down \in BOOLEAN
  /\ channel \in Seq(Events)

TasksTyped ==
  /\ task \in [Workers -> TaskSet]
  /\ store \subseteq Paths /\ manifests \in Seq(SUBSET (Paths \X Entries))
  /\ stopped \subseteq Workers

\* The phases an action can be in; nothing is cloned.
PhasesOf(a) ==
  CASE a = "hardlink" -> {"guard", "act", "aside", "link", "drop", "restore", "ok", "failed"}
    [] a = "safeRename" -> {"guard", "guardTarget", "act", "rename", "ok", "failed"}
    [] a \in {"remove", "recycle"} -> {"guard", "guardTarget", "act", "ok", "failed"}

\* What a worker t is at fits the file action j it has under way.
Fits(t, j) ==
  /\ t.pc = "idle" => t = NoTask
  /\ t.pc \in {"acting"} \union MovePcs => t.todo # <<>>
  /\ t.pc = "acting" =>
       /\ t.deed \in FileDeeds
       /\ j.action = t.deed /\ j.phase \in PhasesOf(t.deed)
       /\ j.target = Head(t.todo).target /\ j.keeper = Head(t.todo).keeper
  /\ t.pc # "acting" => j = NoJob
  /\ t.pc \in MovePcs => t.deed \in Moves
  /\ t.pc = "move" => t.deed # "copy"
  /\ t.pc = "copy" => t.deed # "unsuffix"
  /\ t.pc = "unlink" => t.deed \in {"archive", "restore"}
  /\ t.pc = "cleanup" => t.deed = "archive"
  /\ t.renamed # {} => t.deed = "safeRename"
  /\ t.pc = "saving" => t.renamed # {}
  /\ t.deed = "unsuffix" => \A it \in Range(t.todo) : it.target \in Files
  /\ t.roots # <<>> => t.deed = "unsuffix"
  /\ t.deed \in FileDeeds => \A it \in Range(t.todo) : it.keeper \in Paths

Hands == \A w \in Workers : Fits(task[w], job[w])

\* A worker does what was chosen.
Chosen == \A w \in Workers : task[w].pc # "idle" => \E a \in user.offered : task[w].deed = Deeds[a]

TypeInv == DiskTyped /\ WindowTyped /\ TasksTyped /\ Hands /\ Chosen

-----------------------------------------------------------------------------
(* A step of a file action: what it may do to the disk.                    *)

Keeps(w) ==
  /\ UNCHANGED dir
  /\ \/ /\ job[w].phase \in {"guard", "guardTarget", "act", "aside", "rename"}
        /\ \/ job'[w].phase \in {"guardTarget", "act", "rename", "failed"}
           \/ job[w].action = "safeRename" /\ job'[w].phase = "ok"
     \/ job[w].phase = "link" /\ job'[w].phase = "restore"

Takes(w) ==
  /\ job[w].phase = "act" /\ job[w].action \in {"remove", "recycle"} /\ job'[w].phase = "ok"
  /\ Exists(Target(w)) /\ dir' = [dir EXCEPT ![Target(w)] = None]

AddsSuffix(w) ==
  /\ job[w].phase = "rename" /\ job[w].action = "safeRename" /\ job'[w].phase = "ok"
  /\ Exists(Target(w)) /\ dir' = Renamed(dir, Target(w), SafeNameOf[Target(w)])

ClearsAside(w) ==
  /\ job[w].phase = "act" /\ job[w].action = "hardlink" /\ job'[w].phase = "aside"
  /\ dir' = [dir EXCEPT ![AsideOf[Target(w)]] = None]

PutsAside(w) ==
  /\ job[w].phase = "aside" /\ job[w].action = "hardlink" /\ job'[w].phase = "link"
  /\ Exists(Target(w)) /\ dir' = Renamed(dir, Target(w), AsideOf[Target(w)])

Links(w) ==
  /\ job[w].phase = "link" /\ job[w].action = "hardlink" /\ job'[w].phase = "drop"
  /\ Exists(Keeper(w)) /\ ~ Exists(Target(w)) /\ dir' = [dir EXCEPT ![Target(w)] = dir[Keeper(w)]]

DropsAside(w) ==
  /\ job[w].phase = "drop" /\ job[w].action = "hardlink" /\ job'[w].phase = "ok"
  /\ \/ dir' = [dir EXCEPT ![AsideOf[Target(w)]] = None]
     \/ FlakyCleanup /\ UNCHANGED dir

PutsBack(w) ==
  /\ job[w].phase = "restore" /\ job[w].action = "hardlink" /\ job'[w].phase = "failed"
  /\ \/ Exists(AsideOf[Target(w)]) /\ dir' = Renamed(dir, AsideOf[Target(w)], Target(w))
     \/ ~ Exists(AsideOf[Target(w)]) /\ UNCHANGED dir
     \/ FlakyCleanup /\ UNCHANGED dir

Effect(w) == \/ Keeps(w) \/ Takes(w) \/ AddsSuffix(w) \/ ClearsAside(w) \/ PutsAside(w)
             \/ Links(w) \/ DropsAside(w) \/ PutsBack(w)

\* Everything a directory operation makes of a directory is one.
LEMMA DirTypes ==
  ASSUME dir \in Dirs
  PROVE  /\ \A e \in Entries, x \in Inodes \union {None} : [dir EXCEPT ![e] = x] \in Dirs
         /\ \A e, f \in Entries : Renamed(dir, e, f) \in Dirs
         /\ \A e \in Entries : dir[e] \in Inodes \union {None}
BY NamesAssumption DEF NamesAssumption, Dirs, Renamed

\* The entries an action is about.
LEMMA NameTypes ==
  /\ \A p \in Paths : Canon[p] \in Files
  /\ \A f \in Files : /\ f \in Entries /\ f \in Paths /\ Canon[f] = f
                      /\ AsideOf[f] \in Entries /\ SafeNameOf[f] \in Entries
  /\ \A p \in Paths : ArchivedAs[p] \in Entries /\ ArchivedAs[p] \notin Files
  /\ \A p \in Paths : NewPathOf[p] \in Paths
  /\ None \notin Inodes /\ None \notin Paths /\ None \notin Entries
  /\ \A f \in Files : SafeNameOf[f] \in Files => SafeNameOf[SafeNameOf[f]] = SafeNameOf[f]
BY NamesAssumption, GuiAssumption DEF NamesAssumption, GuiAssumption

\* A file action goes to a phase of its own, changes no content, and does one of a few
\* things to the directory.
LEMMA ActShape ==
  ASSUME DiskTyped, NEW w \in Workers, GuardKeeper(w, FALSE) \/ ActStep(w),
         job[w].action \in FileDeeds, job[w].phase \in PhasesOf(job[w].action),
         job[w].target \in Paths, job[w].keeper \in Paths
  PROVE  /\ \E j \in Job : /\ job' = [job EXCEPT ![w] = j]
                           /\ j.action = job[w].action /\ j.phase \in PhasesOf(job[w].action)
                           /\ j.target = job[w].target /\ j.keeper = job[w].keeper
         /\ UNCHANGED data /\ dir' \in Dirs
         /\ Effect(w)
<1> DEFINE t == Target(w)
           k == Keeper(w)
<1>1. job \in [Workers -> Job] /\ job[w] \in Job /\ dir \in Dirs
  BY DEF DiskTyped
<1>2. /\ t \in Files /\ k \in Files /\ t \in Entries /\ k \in Entries
      /\ AsideOf[t] \in Entries /\ SafeNameOf[t] \in Entries
  BY NameTypes DEF Target, Keeper
<1>p. /\ PhasesOf("hardlink") = {"guard", "act", "aside", "link", "drop", "restore", "ok", "failed"}
      /\ PhasesOf("safeRename") = {"guard", "guardTarget", "act", "rename", "ok", "failed"}
      /\ PhasesOf("remove") = {"guard", "guardTarget", "act", "ok", "failed"}
      /\ PhasesOf("recycle") = {"guard", "guardTarget", "act", "ok", "failed"}
      /\ \A a \in FileDeeds : PhasesOf(a) \subseteq Phases
      /\ FileDeeds = {"hardlink", "safeRename", "remove", "recycle"}
  BY DEF PhasesOf, Phases, FileDeeds, Actions
<1>3. ASSUME NEW ph \in PhasesOf(job[w].action), Goto(w, ph)
      PROVE  /\ \E j \in Job : /\ job' = [job EXCEPT ![w] = j]
                               /\ j.action = job[w].action /\ j.phase \in PhasesOf(job[w].action)
                               /\ j.target = job[w].target /\ j.keeper = job[w].keeper
             /\ job'[w].phase = ph
  <2> DEFINE j == [job[w] EXCEPT !.phase = ph]
  <2>1. job' = [job EXCEPT ![w] = j]
    BY <1>3, <1>1 DEF Goto
  <2>2. ph \in Phases
    BY <1>p
  <2>3. /\ j \in Job /\ j.phase = ph /\ j.action = job[w].action
        /\ j.target = job[w].target /\ j.keeper = job[w].keeper
    BY <1>1, <2>2 DEF Job
  <2> HIDE DEF j
  <2> QED BY <2>1, <2>3, <1>1
<1>g. CASE GuardKeeper(w, FALSE)
  <2>1. UNCHANGED <<dir, data>> /\ job[w].phase = "guard"
    BY <1>g DEF GuardKeeper, disk
  <2>2. CASE Goto(w, "failed") \/ (Goto(w, "act") /\ job[w].action = "hardlink")
    BY <2>1, <2>2, <1>1, <1>3, <1>p DEF Effect, Keeps
  <2>3. CASE /\ job[w].action \notin {"hardlink", "reflink"}
             /\ \E kid \in IdentityReads(job[w].keeper) :
                  job' = [job EXCEPT ![w].phase = "guardTarget", ![w].kid = kid]
    <3>1. PICK kid \in Inodes \union {None} :
            job' = [job EXCEPT ![w].phase = "guardTarget", ![w].kid = kid]
      BY <2>3, <1>1, DirTypes, NameTypes DEF IdentityReads
    <3> DEFINE j == [job[w] EXCEPT !.phase = "guardTarget", !.kid = kid]
    <3>2. job' = [job EXCEPT ![w] = j]
      BY <3>1, <1>1
    <3>3. "guardTarget" \in Phases /\ "guardTarget" \in PhasesOf(job[w].action)
      BY <2>3, <1>p DEF Phases
    <3>4. /\ j \in Job /\ j.phase = "guardTarget" /\ j.action = job[w].action
          /\ j.target = job[w].target /\ j.keeper = job[w].keeper
      BY <1>1, <3>3 DEF Job
    <3> HIDE DEF j
    <3>5. job'[w].phase = "guardTarget"
      BY <3>2, <3>4, <1>1
    <3>6. Keeps(w)
      BY <2>1, <3>5 DEF Keeps
    <3>7. Effect(w) /\ dir' \in Dirs
      BY <2>1, <3>6, <1>1 DEF Effect
    <3> QED BY <2>1, <3>2, <3>3, <3>4, <3>7
  <2> HIDE DEF t, k
  <2>4. \/ Goto(w, "failed") \/ (Goto(w, "act") /\ job[w].action = "hardlink")
        \/ /\ job[w].action \notin {"hardlink", "reflink"}
           /\ \E kid \in IdentityReads(job[w].keeper) :
                job' = [job EXCEPT ![w].phase = "guardTarget", ![w].kid = kid]
    BY <1>g, <1>p, Zenon DEF GuardKeeper
  <2> QED BY <2>2, <2>3, <2>4
<1>a. CASE GuardTarget(w) \/ Refused(w) \/ SafeRenameCheck(w)
  <2>1. UNCHANGED <<dir, data>> /\ job[w].phase \in {"guardTarget", "act", "aside", "rename"}
    BY <1>a DEF GuardTarget, Refused, SafeRenameCheck, disk
  <2>2. \/ Goto(w, "failed")
        \/ Goto(w, "act") /\ job[w].phase = "guardTarget"
        \/ (Goto(w, "ok") \/ Goto(w, "rename")) /\ job[w].action = "safeRename"
    BY <1>a DEF GuardTarget, Refused, SafeRenameCheck
  <2> QED BY <2>1, <2>2, <1>1, <1>3, <1>p DEF Effect, Keeps
<1>b. CASE RemoveFile(w) \/ Recycle(w)
  <2>1. /\ Goto(w, "ok") /\ UNCHANGED data /\ dir' = [dir EXCEPT ![t] = None] /\ Exists(t)
        /\ job[w].phase = "act" /\ job[w].action \in {"remove", "recycle"}
    BY <1>b DEF RemoveFile, Recycle
  <2>2. dir' \in Dirs
    BY <2>1, <1>1, <1>2, DirTypes
  <2> QED BY <2>1, <2>2, <1>3, <1>p DEF Effect, Takes
<1>c. CASE SafeRename(w)
  <2>1. UNCHANGED data /\ job[w].phase = "rename" /\ job[w].action = "safeRename"
    BY <1>c, <1>p DEF SafeRename
  <2>2. \/ Exists(t) /\ Goto(w, "ok") /\ dir' = Renamed(dir, t, SafeNameOf[t])
        \/ Goto(w, "failed") /\ UNCHANGED dir
    BY <1>c DEF SafeRename
  <2>3. dir' \in Dirs
    BY <2>2, <1>1, <1>2, DirTypes
  <2> QED BY <2>1, <2>2, <2>3, <1>3, <1>p DEF Effect, AddsSuffix, Keeps
<1>d. CASE ClearStale(w)
  <2>1. job[w].phase = "act" /\ job[w].action = "hardlink" /\ UNCHANGED data
    BY <1>d, <1>p DEF ClearStale, MovesAside
  <2>2. Goto(w, "aside") /\ dir' = [e \in Entries |-> IF e \in {AsideOf[t]} THEN None ELSE dir[e]]
    BY <1>d, <2>1 DEF ClearStale
  <2>3. dir' = [dir EXCEPT ![AsideOf[t]] = None]
    BY <2>2, <1>1 DEF Dirs
  <2>4. dir' \in Dirs
    BY <2>3, <1>1, <1>2, DirTypes
  <2> QED BY <2>1, <2>2, <2>3, <2>4, <1>3, <1>p DEF Effect, ClearsAside
<1>e. CASE MoveAside(w)
  <2>1. UNCHANGED data /\ job[w].phase = "aside" /\ job[w].action = "hardlink"
    BY <1>e, <1>p DEF MoveAside
  <2>2. \/ Exists(t) /\ Goto(w, "link") /\ dir' = Renamed(dir, t, AsideOf[t])
        \/ Goto(w, "failed") /\ UNCHANGED dir
    BY <1>e DEF MoveAside
  <2>3. dir' \in Dirs
    BY <2>2, <1>1, <1>2, DirTypes
  <2> QED BY <2>1, <2>2, <2>3, <1>3, <1>p DEF Effect, PutsAside, Keeps
<1>f. CASE HardLink(w)
  <2>1. /\ job[w].phase = "link" /\ job[w].action = "hardlink" /\ UNCHANGED data
        /\ Exists(k) /\ ~ Exists(t) /\ dir' = [dir EXCEPT ![t] = dir[k]] /\ Goto(w, "drop")
    BY <1>f DEF HardLink
  <2>2. dir' \in Dirs
    BY <2>1, <1>1, <1>2, DirTypes
  <2> QED BY <2>1, <2>2, <1>3, <1>p DEF Effect, Links
<1>h. CASE BlockClone(w) \/ Ficlone(w) \/ FicloneFails(w) \/ SwapIn(w) \/ RenameClone(w)
  <2>1. job[w].action = "reflink" \/ job[w].phase \in {"swap", "cloned"}
    BY <1>h DEF BlockClone, Ficlone, FicloneFails, SwapIn, RenameClone
  <2> QED BY <2>1, <1>p
<1>i. CASE LinkFails(w)
  <2>1. /\ UNCHANGED <<dir, data>> /\ Goto(w, "restore")
        /\ job[w].phase = "link" /\ job[w].action = "hardlink"
    BY <1>i, <1>p DEF LinkFails, disk
  <2> QED BY <2>1, <1>1, <1>3, <1>p DEF Effect, Keeps
<1>j. CASE DropAside(w)
  <2>1. /\ job[w].phase = "drop" /\ job[w].action = "hardlink" /\ UNCHANGED data /\ Goto(w, "ok")
        /\ dir' = [dir EXCEPT ![AsideOf[t]] = None] \/ (FlakyCleanup /\ UNCHANGED dir)
    BY <1>j, <1>p DEF DropAside
  <2>2. dir' \in Dirs
    BY <2>1, <1>1, <1>2, DirTypes
  <2> QED BY <2>1, <2>2, <1>3, <1>p DEF Effect, DropsAside
<1>k. CASE Restore(w)
  <2>1. job[w].phase = "restore" /\ job[w].action = "hardlink" /\ UNCHANGED data /\ Goto(w, "failed")
    BY <1>k, <1>p DEF Restore
  <2> DEFINE back == IF Exists(AsideOf[t]) THEN Renamed(dir, AsideOf[t], t) ELSE dir
  <2>2. \E d \in {back} \union (IF FlakyCleanup THEN {dir} ELSE {}) : dir' = d
    BY <1>k, <2>1, Zenon DEF Restore
  <2>3. dir' = back \/ (FlakyCleanup /\ UNCHANGED dir)
    <3> HIDE DEF back
    <3> QED BY <2>2
  <2>4. dir' \in Dirs
    BY <2>3, <1>1, <1>2, DirTypes
  <2>5. PutsBack(w)
    <3>1. job'[w].phase = "failed"
      BY <2>1, <1>3, <1>p
    <3> QED BY <2>1, <2>3, <3>1 DEF PutsBack
  <2> QED BY <2>1, <2>4, <2>5, <1>3, <1>p DEF Effect
<1> QED BY <1>g, <1>a, <1>b, <1>c, <1>d, <1>e, <1>f, <1>h, <1>i, <1>j, <1>k DEF ActStep

-----------------------------------------------------------------------------
(* A step of a worker: what it may do to its task.                         *)

LEMMA PcEdit ==
  ASSUME NEW u \in TaskSet, NEW c \in Pcs
  PROVE  LET t == [u EXCEPT !.pc = c] IN
         /\ t \in TaskSet /\ t.pc = c /\ t.deed = u.deed /\ t.todo = u.todo
         /\ t.renamed = u.renamed /\ t.moved = u.moved /\ t.roots = u.roots
BY DEF TaskSet

LEMMA NothingUnderWay ==
  /\ NoJob \in Job /\ NoTask \in TaskSet /\ Fits(NoTask, NoJob)
  /\ NoTask.pc = "idle" /\ NoTask.deed = "none" /\ NoTask.todo = <<>> /\ NoJob.phase = "none"
  /\ NoTask.moved = {} /\ NoTask.roots = <<>>
BY DEF NoJob, Job, Phases, NoTask, TaskSet, Pcs, MovePcs, Fits, FileDeeds, Actions, Moves

\* What a worker's step makes of its task and its job.
Works(w, t, j) ==
  /\ t \in TaskSet /\ j \in Job /\ Fits(t, j)
  /\ task' = [task EXCEPT ![w] = t] /\ job' = [job EXCEPT ![w] = j]
  /\ \/ t.deed = task[w].deed /\ t.pc # "idle" /\ stopped' = stopped
     \/ t = NoTask /\ stopped' = stopped \ {w}

\* A worker goes on to another part of what it does.
LEMMA GoesTo ==
  ASSUME TypeInv, NEW w \in Workers, NEW c \in Pcs, To(w, c), UNCHANGED <<job, stopped>>,
         task[w].pc \notin {"idle", "acting"}, c \notin {"idle", "acting", "saving"},
         c \in MovePcs => task[w].todo # <<>> /\ task[w].deed \in Moves,
         c = "move" => task[w].deed # "copy",
         c = "copy" => task[w].deed # "unsuffix",
         c = "unlink" => task[w].deed \in {"archive", "restore"},
         c = "cleanup" => task[w].deed = "archive"
  PROVE  Works(w, [task[w] EXCEPT !.pc = c], NoJob)
<1> DEFINE u == task[w]
           t == [u EXCEPT !.pc = c]
<1>1. task \in [Workers -> TaskSet] /\ job \in [Workers -> Job] /\ u \in TaskSet
  BY DEF TypeInv, TasksTyped, DiskTyped
<1>2. Fits(u, job[w]) /\ job[w] = NoJob
  BY DEF TypeInv, Hands, Fits
<1>3. /\ t \in TaskSet /\ t.pc = c /\ t.deed = u.deed /\ t.todo = u.todo
      /\ t.renamed = u.renamed /\ t.roots = u.roots
  BY <1>1, PcEdit
<1>4. task' = [task EXCEPT ![w] = t] /\ job' = [job EXCEPT ![w] = NoJob]
  BY <1>1, <1>2 DEF To
<1> HIDE DEF t
<1>5. Fits(t, NoJob)
  BY <1>2, <1>3 DEF Fits
<1> QED BY <1>3, <1>4, <1>5, NothingUnderWay DEF Works, t

\* A worker is done with an item.
LEMMA GoesToNext ==
  ASSUME TypeInv, NEW w \in Workers, task[w].pc \in {"next", "acting"} \union MovePcs,
         task[w].todo # <<>>,
         NEW t \in TaskSet, t.pc = "next", t.deed = task[w].deed, t.todo = Tail(task[w].todo),
         t.roots = task[w].roots, t.renamed # {} => task[w].deed = "safeRename",
         task' = [task EXCEPT ![w] = t], job' = [job EXCEPT ![w] = NoJob], UNCHANGED stopped
  PROVE  Works(w, t, NoJob)
<1>1. task[w] \in TaskSet /\ task[w].todo \in Seq(ItemSet)
  BY DEF TypeInv, TasksTyped, TaskSet
<1>2. Fits(task[w], job[w])
  BY DEF TypeInv, Hands
<1>3. Range(Tail(task[w].todo)) \subseteq Range(task[w].todo)
  BY <1>1, FirstAndRest
<1>4. Fits(t, NoJob)
  BY <1>2, <1>3 DEF Fits, MovePcs
<1> QED BY <1>4, NothingUnderWay DEF Works

\* ... with nothing to remember of it.
LEMMA SkipsOn ==
  ASSUME TypeInv, NEW w \in Workers, task[w].pc \in {"next"} \union MovePcs,
         task[w].todo # <<>>, NextOf(w), UNCHANGED <<job, stopped>>
  PROVE  \E t : Works(w, t, NoJob) /\ t.pc = "next" /\ t.todo = Tail(task[w].todo)
                /\ t.moved = task[w].moved /\ t.renamed = task[w].renamed
<1> DEFINE u == task[w]
           t == [u EXCEPT !.pc = "next", !.todo = Tail(u.todo)]
<1>1. task \in [Workers -> TaskSet] /\ u \in TaskSet /\ job \in [Workers -> Job]
  BY DEF TypeInv, TasksTyped, DiskTyped
<1>2. job[w] = NoJob /\ (u.renamed # {} => u.deed = "safeRename")
  BY DEF TypeInv, Hands, Fits, MovePcs
<1>3. /\ t \in TaskSet /\ t.pc = "next" /\ t.deed = u.deed /\ t.todo = Tail(u.todo)
      /\ t.renamed = u.renamed /\ t.moved = u.moved /\ t.roots = u.roots
  <2>1. u.todo \in Seq(ItemSet) /\ "next" \in Pcs
    BY <1>1 DEF TaskSet, Pcs
  <2>2. Tail(u.todo) \in Seq(ItemSet)
    BY <2>1, FirstAndRest
  <2> QED BY <1>1, <2>1, <2>2 DEF TaskSet
<1>4. task' = [task EXCEPT ![w] = t]
  BY <1>1 DEF NextOf
<1>5. job' = [job EXCEPT ![w] = NoJob]
  BY <1>1, <1>2
<1> HIDE DEF t
<1> QED BY <1>2, <1>3, <1>4, <1>5, GoesToNext

\* What a worker may be doing.
LEMMA Doing ==
  ASSUME TypeInv, NEW w \in Workers, task[w].pc # "idle"
  PROVE  task[w].deed \in FileDeeds \union Moves /\ user.offered \subseteq ForGroup \union ForAll \union ForRoots
<1>1. PICK a \in user.offered : task[w].deed = Deeds[a]
  BY DEF TypeInv, Chosen
<1>2. user.offered \subseteq ForGroup \union ForAll \union ForRoots
  BY GuiAssumption DEF GuiAssumption, TypeInv, WindowTyped
<1> QED BY <1>1, <1>2 DEF Deeds, ForGroup, ForAll, ForRoots, FileDeeds, Actions, Moves

\* A worker has an item in hand when it acts or moves.
LEMMA InHand ==
  ASSUME TypeInv, NEW w \in Workers, task[w].todo # <<>>
  PROVE  /\ First(w) \in ItemSet /\ First(w).target \in Paths
         /\ First(w).keeper \in Paths \union {None}
         /\ First(w) \in Range(task[w].todo)
         /\ From(w) \in Entries /\ Dest(w) \in Entries
<1>1. task[w] \in TaskSet /\ task[w].todo \in Seq(ItemSet) /\ Fits(task[w], job[w])
  BY DEF TypeInv, TasksTyped, TaskSet, Hands
<1>2. First(w) \in ItemSet /\ First(w) \in Range(task[w].todo)
  BY <1>1, FirstAndRest DEF First
<1>3. First(w).target \in Paths /\ First(w).keeper \in Paths \union {None}
  BY <1>2 DEF ItemSet
<1>4. task[w].deed = "unsuffix" => First(w).target \in Files
  BY <1>1, <1>2 DEF Fits
<1> HIDE DEF First
<1>5. From(w) \in Entries /\ Dest(w) \in Entries
  BY <1>3, <1>4, NameTypes DEF From, Dest
<1> QED BY <1>2, <1>3, <1>5

LEMMA SendTypes ==
  ASSUME channel \in Seq(Events)
  PROVE  /\ \A p \in Paths : Send(Gone(p)) => channel' \in Seq(Events)
         /\ \A p \in Paths : Send(MovedTo(p, NewPathOf[p])) => channel' \in Seq(Events)
         /\ Send(Started) => channel' \in Seq(Events)
         /\ Send(Finished) => channel' \in Seq(Events)
<1>1. /\ Started \in Events /\ Finished \in Events
      /\ \A p \in Paths : Gone(p) \in Events /\ MovedTo(p, NewPathOf[p]) \in Events
  BY DEF Events
<1> HIDE DEF Started, Finished, Gone, MovedTo, Events
<1> QED BY <1>1, OneMore DEF Send

\* What a worker leaves behind has its type, and what is not its own it leaves alone.
LeavesTyped ==
  /\ dir' \in Dirs /\ data' \in [Inodes -> Contents \union {None}]
  /\ channel' \in Seq(Events) /\ store' \subseteq Paths
  /\ manifests' \in Seq(SUBSET (Paths \X Entries))
  /\ UNCHANGED <<user, table, acted, pending, modal, cancel, down>>

LEMMA StaysTyped ==
  ASSUME TypeInv, UNCHANGED <<user, table, acted, pending, modal, cancel, down>>
  PROVE  /\ UNCHANGED <<dir, data, channel, store, manifests>> => LeavesTyped
         /\ UNCHANGED <<data, channel, store, manifests>> /\ dir' \in Dirs => LeavesTyped
         /\ UNCHANGED <<dir, data, store, manifests>> /\ channel' \in Seq(Events) => LeavesTyped
         /\ UNCHANGED <<data, store, manifests>> /\ dir' \in Dirs /\ channel' \in Seq(Events)
              => LeavesTyped
BY DEF TypeInv, DiskTyped, WindowTyped, TasksTyped, LeavesTyped

\* The suffixed files of a root.
LEMMA InSomeOrderListed ==
  ASSUME NEW S \in SUBSET Paths
  PROVE  InSomeOrder(S) \in Seq(ItemSet) /\ Range(InSomeOrder(S)) = {Item(None, p) : p \in S}
<1>1. IsFiniteSet(S)
  BY GuiAssumption, FS_Subset DEF GuiAssumption
<1> DEFINE s == SetToSeq(S)
<1>2. s \in Seq(S) /\ Range(s) = S
  BY <1>1, SetToSeqOK
<1> HIDE DEF s
<1>3. InSomeOrder(S) = [i \in DOMAIN s |-> Item(None, s[i])]
  BY DEF InSomeOrder, s
<1>4. DOMAIN s = 1..Len(s) /\ Len(s) \in Nat
  BY <1>2
<1>5. \A i \in DOMAIN s : s[i] \in Paths
  BY <1>2, <1>4
<1>6. \A i \in DOMAIN s : Item(None, s[i]) \in ItemSet
  BY <1>5 DEF Item, ItemSet
<1>7. InSomeOrder(S) \in Seq(ItemSet)
  BY <1>3, <1>4, <1>6
<1>8. Range(InSomeOrder(S)) = {Item(None, s[i]) : i \in DOMAIN s}
  BY <1>3 DEF Range
<1>9. Range(s) = {s[i] : i \in DOMAIN s}
  BY DEF Range
<1> HIDE DEF Item
<1> QED BY <1>2, <1>7, <1>8, <1>9

\* Manifests are added, and replaced.
LEMMA ManifestsTyped ==
  ASSUME NEW S, NEW s \in Seq(S), NEW m \in S
  PROVE  /\ Append(s, m) \in Seq(S)
         /\ s # <<>> => [s EXCEPT ![Len(s)] = m] \in Seq(S)
OBVIOUS

\* Unsuperdeduper goes into a root.
LEMMA EnterShape ==
  ASSUME TypeInv, NEW w \in Workers, EnterRoot(w)
  PROVE  \E t : /\ Works(w, t, NoJob) /\ LeavesTyped /\ t.pc = "next"
                /\ task[w].pc = "next" /\ task[w].deed = "unsuffix" /\ task[w].roots # <<>>
                /\ ~ StopSeen(w)
                /\ Range(t.todo) = {Item(None, f) : f \in {e \in Head(task[w].roots) : SafeNameOf[e] # e}}
                /\ t.roots = Tail(task[w].roots) /\ UNCHANGED <<dir, data>>
<1> DEFINE u == task[w]
           S == {e \in Head(u.roots) : SafeNameOf[e] # e}
           l == InSomeOrder(S)
           t == [u EXCEPT !.roots = Tail(u.roots), !.todo = l]
<1>1. /\ task \in [Workers -> TaskSet] /\ u \in TaskSet /\ Fits(u, job[w])
      /\ job \in [Workers -> Job] /\ u.roots \in Seq(SUBSET Files)
  BY DEF TypeInv, TasksTyped, Hands, DiskTyped, TaskSet
<1>2. /\ u.pc = "next" /\ u.roots # <<>> /\ ~ StopSeen(w) /\ job' = job /\ UNCHANGED stopped
      /\ task' = [task EXCEPT ![w].roots = Tail(@), ![w].todo = l]
  BY DEF EnterRoot, At, fvars
<1>3. u.deed = "unsuffix" /\ job[w] = NoJob
  BY <1>1, <1>2 DEF Fits
<1>4. Head(u.roots) \subseteq Files /\ Tail(u.roots) \in Seq(SUBSET Files)
  BY <1>1, <1>2, FirstAndRest
<1>5. l \in Seq(ItemSet) /\ Range(l) = {Item(None, p) : p \in S}
  <2>1. S \subseteq Paths
    BY <1>4, NameTypes
  <2> HIDE DEF S
  <2> QED BY <2>1, InSomeOrderListed
<1>6. \A it \in Range(l) : it.target \in Files
  <2> HIDE DEF l
  <2> QED BY <1>4, <1>5 DEF Item
<1> HIDE DEF l, S
<1>7. task' = [task EXCEPT ![w] = t] /\ job' = [job EXCEPT ![w] = NoJob]
  BY <1>1, <1>2, <1>3
<1>8. /\ t \in TaskSet /\ t.pc = "next" /\ t.deed = u.deed /\ t.todo = l
      /\ t.roots = Tail(u.roots) /\ t.renamed = u.renamed
  BY <1>1, <1>2, <1>4, <1>5 DEF TaskSet
<1> HIDE DEF t
<1>9. Fits(t, NoJob)
  BY <1>1, <1>2, <1>3, <1>6, <1>8 DEF Fits, MovePcs, FileDeeds, Actions
<1>10. Works(w, t, NoJob)
  BY <1>2, <1>7, <1>8, <1>9, NothingUnderWay DEF Works
<1>11. LeavesTyped /\ UNCHANGED <<dir, data>>
  BY StaysTyped DEF EnterRoot, fvars, files, window, bounds, disk
<1> QED BY <1>2, <1>3, <1>5, <1>8, <1>10, <1>11 DEF S

\* The parts of the loop that touch no file.
LEMMA LoopShape ==
  ASSUME TypeInv, NEW w \in Workers,
         StartTask(w) \/ EndLoop(w) \/ LoadStore(w) \/ SaveStore(w) \/ ForgetRenamed(w)
           \/ NothingToRecord(w) \/ WriteManifest(w) \/ UnlinkFails(w) \/ Look(w)
  PROVE  \E t, j : Works(w, t, j) /\ LeavesTyped
<1>0. task \in [Workers -> TaskSet] /\ task[w] \in TaskSet /\ Fits(task[w], job[w])
  BY DEF TypeInv, TasksTyped, Hands
<1>1. CASE StartTask(w)
  <2>1. To(w, "next") /\ UNCHANGED <<job, stopped>> /\ task[w].pc = "start"
    BY <1>1 DEF StartTask, At, fvars
  <2>2. Works(w, [task[w] EXCEPT !.pc = "next"], NoJob)
    BY <2>1, GoesTo DEF Pcs, MovePcs
  <2>3. channel' \in Seq(Events) /\ UNCHANGED <<dir, data, store, manifests>>
    BY <1>1, SendTypes DEF StartTask, TypeInv, WindowTyped, fvars, files
  <2>4. UNCHANGED <<user, table, acted, pending, modal, cancel, down>>
    BY <1>1 DEF StartTask, window, bounds
  <2> QED BY <2>2, <2>3, <2>4, StaysTyped
<1>2. CASE EndLoop(w) \/ NothingToRecord(w)
  <2>1. /\ To(w, "record") \/ To(w, "finish")
        /\ UNCHANGED <<job, stopped>> /\ task[w].pc \in {"next", "record"}
    BY <1>2 DEF EndLoop, NothingToRecord, At, fvars
  <2>2. /\ To(w, "record") => Works(w, [task[w] EXCEPT !.pc = "record"], NoJob)
        /\ To(w, "finish") => Works(w, [task[w] EXCEPT !.pc = "finish"], NoJob)
    BY <2>1, GoesTo DEF Pcs, MovePcs
  <2>3. LeavesTyped
    BY <1>2, StaysTyped DEF EndLoop, NothingToRecord, fvars, files, window, bounds
  <2> QED BY <2>1, <2>2, <2>3
<1>3. CASE WriteManifest(w) \/ SaveStore(w) \/ ForgetRenamed(w)
  <2>1. To(w, "finish") /\ UNCHANGED <<job, stopped>> /\ task[w].pc \in {"record", "saving"}
    BY <1>3 DEF WriteManifest, SaveStore, ForgetRenamed, At, fvars
  <2>2. Works(w, [task[w] EXCEPT !.pc = "finish"], NoJob)
    BY <2>1, GoesTo DEF Pcs, MovePcs
  <2>3. /\ UNCHANGED <<dir, data, channel>>
        /\ UNCHANGED <<user, table, acted, pending, modal, cancel, down>>
        /\ \/ store' = store \/ store' = {} \/ store' = task[w].loaded \union task[w].renamed
        /\ \/ manifests' = manifests \/ manifests' = Append(manifests, task[w].moved)
           \/ /\ manifests # <<>>
              /\ manifests' = [manifests EXCEPT ![Len(manifests)] = task[w].moved]
    BY <1>3 DEF WriteManifest, SaveStore, ForgetRenamed, fvars, files, window, bounds
  <2>m. manifests' \in Seq(SUBSET (Paths \X Entries))
    <3> DEFINE S == SUBSET (Paths \X Entries)
    <3>1. manifests \in Seq(S) /\ task[w].moved \in S
      BY <1>0 DEF TypeInv, TasksTyped, TaskSet
    <3> HIDE DEF S
    <3>2. manifests' \in Seq(S)
      BY <2>3, <3>1, ManifestsTyped
    <3> QED BY <3>2 DEF S
  <2>4. LeavesTyped
    BY <1>0, <2>3, <2>m DEF TypeInv, DiskTyped, WindowTyped, TasksTyped, LeavesTyped, TaskSet
  <2> QED BY <2>2, <2>4
<1>4. CASE LoadStore(w)
  <2> DEFINE t == [task[w] EXCEPT !.loaded = store, !.pc = "saving"]
  <2>1. /\ task' = [task EXCEPT ![w] = t] /\ UNCHANGED <<job, stopped>>
        /\ task[w].pc = "record" /\ task[w].renamed # {}
        /\ job[w] = NoJob /\ job \in [Workers -> Job]
    BY <1>0, <1>4 DEF LoadStore, At, fvars, Fits, TypeInv, DiskTyped
  <2>2. /\ t \in TaskSet /\ t.pc = "saving" /\ t.deed = task[w].deed /\ t.todo = task[w].todo
        /\ t.renamed = task[w].renamed /\ t.roots = task[w].roots
    BY <1>0 DEF TaskSet, Pcs, TypeInv, TasksTyped
  <2> HIDE DEF t
  <2>3. Fits(t, NoJob)
    BY <1>0, <2>1, <2>2 DEF Fits, MovePcs
  <2>4. Works(w, t, NoJob)
    BY <2>1, <2>2, <2>3, NothingUnderWay DEF Works
  <2>5. LeavesTyped
    BY <1>4, StaysTyped DEF LoadStore, fvars, files, window, bounds
  <2> QED BY <2>4, <2>5
<1>5. CASE UnlinkFails(w) \/ Look(w)
  <2>1. /\ UNCHANGED <<job, stopped>> /\ task[w].pc \in MovePcs /\ LeavesTyped
    BY <1>5, StaysTyped DEF UnlinkFails, Look, At, fvars, files, window, bounds, MovePcs
  <2>2. \/ To(w, "cleanup") /\ task[w].deed = "archive"
        \/ To(w, "move") /\ task[w].deed # "copy"
        \/ To(w, "copy") /\ task[w].deed = "copy"
        \/ NextOf(w)
    BY <1>5 DEF UnlinkFails, Look
  <2>3. task[w].todo # <<>> /\ task[w].deed \in Moves /\ task[w].pc \notin {"idle", "acting"}
    BY <1>0, <2>1 DEF Fits, MovePcs
  <2>4. CASE To(w, "cleanup") /\ task[w].deed = "archive"
    BY <2>1, <2>3, <2>4, GoesTo DEF Pcs, MovePcs
  <2>5. CASE To(w, "move") /\ task[w].deed # "copy"
    BY <2>1, <2>3, <2>5, GoesTo DEF Pcs, MovePcs
  <2>6. CASE To(w, "copy") /\ task[w].deed = "copy"
    BY <2>1, <2>3, <2>6, GoesTo DEF Pcs, MovePcs
  <2>7. CASE NextOf(w)
    BY <2>1, <2>3, <2>7, SkipsOn
  <2> QED BY <2>2, <2>4, <2>5, <2>6, <2>7
<1> QED BY <1>1, <1>2, <1>3, <1>4, <1>5

\* The parts that perform a file action.
LEMMA ActingShape ==
  ASSUME TypeInv, NEW w \in Workers, NextItem(w) \/ PerformAction(w) \/ Settle(w)
  PROVE  \E t, j : Works(w, t, j) /\ LeavesTyped
<1>0. /\ task \in [Workers -> TaskSet] /\ task[w] \in TaskSet /\ Fits(task[w], job[w])
      /\ job \in [Workers -> Job] /\ task[w].todo \in Seq(ItemSet)
  BY DEF TypeInv, TasksTyped, Hands, DiskTyped, TaskSet
<1>1. CASE NextItem(w)
  <2>1. /\ UNCHANGED stopped /\ task[w].pc = "next" /\ task[w].todo # <<>> /\ LeavesTyped
    BY <1>1, StaysTyped DEF NextItem, At, disk, files, window, bounds
  <2>2. /\ task[w].deed \in FileDeeds \union Moves
        /\ First(w) \in ItemSet /\ First(w).target \in Paths
        /\ First(w).keeper \in Paths \union {None} /\ First(w) \in Range(task[w].todo)
    BY <2>1, Doing, InHand
  <2>3. \/ NextOf(w) /\ job' = job
        \/ /\ task[w].deed \in FileDeeds /\ To(w, "acting")
           /\ Begin(w, task[w].deed, First(w).target, First(w).keeper)
        \/ task[w].deed \in Moves /\ To(w, "look") /\ job' = job
    BY <1>1, <2>2 DEF NextItem, FileDeeds, Moves, Actions
  <2>4. CASE NextOf(w) /\ job' = job
    BY <2>1, <2>4, SkipsOn
  <2>5. CASE task[w].deed \in Moves /\ To(w, "look") /\ job' = job
    BY <2>1, <2>5, GoesTo DEF Pcs, MovePcs
  <2>6. CASE /\ task[w].deed \in FileDeeds /\ To(w, "acting")
             /\ Begin(w, task[w].deed, First(w).target, First(w).keeper)
    <3> DEFINE t == [task[w] EXCEPT !.pc = "acting"]
               j == [phase |-> "guard", action |-> task[w].deed, target |-> First(w).target,
                     keeper |-> First(w).keeper, kid |-> None]
    <3>1. task' = [task EXCEPT ![w] = t] /\ job' = [job EXCEPT ![w] = j]
      BY <1>0, <2>6 DEF To, Begin
    <3>2. /\ t \in TaskSet /\ t.pc = "acting" /\ t.deed = task[w].deed /\ t.todo = task[w].todo
          /\ t.renamed = task[w].renamed /\ t.roots = task[w].roots
      BY <1>0, PcEdit DEF Pcs
    <3>3. "guard" \in Phases /\ task[w].deed \in Actions
      BY <2>6 DEF Phases, FileDeeds
    <3>4. j \in Job
      BY <2>2, <3>3 DEF Job
    <3>5. "guard" \in PhasesOf(task[w].deed)
      BY <2>6 DEF PhasesOf, FileDeeds, Actions
    <3>6. /\ j.phase = "guard" /\ j.action = task[w].deed
          /\ j.target = First(w).target /\ j.keeper = First(w).keeper
      OBVIOUS
    <3> HIDE DEF t, j
    <3>7. Fits(t, j)
      BY <1>0, <2>1, <2>6, <3>2, <3>5, <3>6 DEF Fits, First, MovePcs
    <3> QED BY <2>1, <3>1, <3>2, <3>4, <3>7 DEF Works
  <2> QED BY <2>3, <2>4, <2>5, <2>6
<1>2. CASE PerformAction(w)
  <2>1. /\ task[w].pc = "acting" /\ UNCHANGED <<task, stopped, channel, store, manifests>>
        /\ UNCHANGED <<user, table, acted, pending, modal, cancel, down>>
        /\ GuardKeeper(w, FALSE) \/ ActStep(w)
    BY <1>2 DEF PerformAction, At, files, window, bounds
  <2>2. /\ job[w].action \in FileDeeds /\ job[w].phase \in PhasesOf(job[w].action)
        /\ job[w].target = Head(task[w].todo).target /\ job[w].keeper = Head(task[w].todo).keeper
        /\ job[w].action = task[w].deed /\ task[w].todo # <<>>
        /\ \A it \in Range(task[w].todo) : it.keeper \in Paths
    BY <1>0, <2>1 DEF Fits
  <2>3. job[w].target \in Paths /\ job[w].keeper \in Paths
    BY <2>2, InHand DEF First
  <2>4. /\ \E j \in Job : /\ job' = [job EXCEPT ![w] = j]
                          /\ j.action = job[w].action /\ j.phase \in PhasesOf(job[w].action)
                          /\ j.target = job[w].target /\ j.keeper = job[w].keeper
        /\ UNCHANGED data /\ dir' \in Dirs
    BY <2>1, <2>2, <2>3, ActShape DEF TypeInv
  <2>5. PICK j \in Job : /\ job' = [job EXCEPT ![w] = j]
                         /\ j.action = job[w].action /\ j.phase \in PhasesOf(job[w].action)
                         /\ j.target = job[w].target /\ j.keeper = job[w].keeper
    BY <2>4
  <2>6. Fits(task[w], j)
    BY <1>0, <2>1, <2>2, <2>5 DEF Fits, MovePcs
  <2>7. task' = [task EXCEPT ![w] = task[w]]
    BY <1>0, <2>1
  <2>8. LeavesTyped
    BY <2>1, <2>4, StaysTyped
  <2> QED BY <1>0, <2>1, <2>5, <2>6, <2>7, <2>8 DEF Works
<1>3. CASE Settle(w)
  <2> DEFINE p == First(w).target
             R == IF job[w].phase = "ok" /\ task[w].deed = "safeRename"
                  THEN task[w].renamed \union {p} ELSE task[w].renamed
             t == [task[w] EXCEPT !.pc = "next", !.todo = Tail(task[w].todo), !.renamed = R]
  <2>1. task[w].pc = "acting" /\ task[w].todo # <<>>
    BY <1>0, <1>3 DEF Settle, At, Fits
  <2>2. p \in Paths /\ Tail(task[w].todo) \in Seq(ItemSet) /\ R \subseteq Paths
    BY <1>0, <2>1, InHand, FirstAndRest DEF TaskSet
  <2>3. task' = [task EXCEPT ![w] = t] /\ job' = [job EXCEPT ![w] = NoJob] /\ UNCHANGED stopped
    BY <1>0, <1>3 DEF Settle
  <2>4. R # {} => task[w].deed = "safeRename"
    BY <1>0 DEF Fits
  <2>5. channel' \in Seq(Events)
    <3>1. channel' = channel \/ Send(MovedTo(p, NewPathOf[p])) \/ Send(Gone(p))
      BY <1>3 DEF Settle
    <3> HIDE DEF p
    <3> QED BY <2>2, <3>1, SendTypes DEF TypeInv, WindowTyped
  <2>6. LeavesTyped
    BY <1>3, <2>5, StaysTyped DEF Settle, disk, files, window, bounds
  <2> HIDE DEF R, p
  <2>7. /\ t \in TaskSet /\ t.pc = "next" /\ t.deed = task[w].deed /\ t.todo = Tail(task[w].todo)
        /\ t.renamed = R /\ t.roots = task[w].roots
    BY <1>0, <2>2 DEF TaskSet, Pcs
  <2> HIDE DEF t
  <2>8. Works(w, t, NoJob)
    BY <2>1, <2>3, <2>4, <2>7, GoesToNext
  <2> QED BY <2>6, <2>8
<1> QED BY <1>1, <1>2, <1>3

\* An item that went well.
LEMMA MovedOn ==
  ASSUME TypeInv, NEW w \in Workers, task[w].pc \in MovePcs, task[w].todo # <<>>,
         Moved(w), UNCHANGED <<job, stopped>>
  PROVE  /\ channel' \in Seq(Events)
         /\ \E t : /\ Works(w, t, NoJob) /\ t.pc = "next" /\ t.todo = Tail(task[w].todo)
                   /\ t.renamed = task[w].renamed
                   /\ t.moved = IF task[w].deed \in {"archive", "copy"}
                                THEN task[w].moved \union {<<First(w).target, Dest(w)>>}
                                ELSE task[w].moved
<1> DEFINE p == First(w).target
           M == IF task[w].deed \in {"archive", "copy"}
                THEN task[w].moved \union {<<p, Dest(w)>>} ELSE task[w].moved
           t == [task[w] EXCEPT !.pc = "next", !.todo = Tail(task[w].todo), !.moved = M]
<1>1. /\ task \in [Workers -> TaskSet] /\ task[w] \in TaskSet /\ Fits(task[w], job[w])
      /\ job \in [Workers -> Job] /\ task[w].todo \in Seq(ItemSet) /\ job[w] = NoJob
  BY DEF TypeInv, TasksTyped, Hands, DiskTyped, TaskSet, Fits, MovePcs
<1>2. p \in Paths /\ Dest(w) \in Entries /\ Tail(task[w].todo) \in Seq(ItemSet)
  BY <1>1, InHand, FirstAndRest
<1>3. M \subseteq Paths \X Entries
  BY <1>1, <1>2 DEF TaskSet
<1>4. task' = [task EXCEPT ![w] = t]
  BY <1>1 DEF Moved
<1>5. job' = [job EXCEPT ![w] = NoJob]
  BY <1>1
<1>6. channel' \in Seq(Events)
  <2>1. channel' = channel \/ Send(Gone(p))
    BY DEF Moved
  <2> HIDE DEF p
  <2> QED BY <1>2, <2>1, SendTypes DEF TypeInv, WindowTyped
<1>7. /\ t \in TaskSet /\ t.pc = "next" /\ t.deed = task[w].deed /\ t.todo = Tail(task[w].todo)
      /\ t.renamed = task[w].renamed /\ t.moved = M /\ t.roots = task[w].roots
  <2> HIDE DEF M
  <2> QED BY <1>1, <1>2, <1>3 DEF TaskSet, Pcs
<1> HIDE DEF t
<1>8. Works(w, t, NoJob)
  <2>1. t.renamed # {} => task[w].deed = "safeRename"
    BY <1>1, <1>7 DEF Fits
  <2> QED BY <1>4, <1>5, <1>7, <2>1, GoesToNext
<1> QED BY <1>6, <1>7, <1>8

\* What a copy makes of the disk.
LEMMA CopyTypes ==
  ASSUME TypeInv, NEW e \in Entries, NEW c \in Contents \union {None}, CopyInto(e, c)
  PROVE  /\ dir' \in Dirs /\ data' \in [Inodes -> Contents \union {None}]
         /\ \E i \in Inodes : /\ dir' = [dir EXCEPT ![e] = i] /\ data' = [data EXCEPT ![i] = c]
                              /\ Exists(e) => i = dir[e]
                              /\ ~ Exists(e) => i \in FreshInodes
<1>1. PICK i : /\ dir' = [dir EXCEPT ![e] = i] /\ data' = [data EXCEPT ![i] = c]
               /\ Exists(e) => i = dir[e]
               /\ ~ Exists(e) => i \in FreshInodes
  BY DEF CopyInto
<1>2. dir \in Dirs /\ data \in [Inodes -> Contents \union {None}]
  BY DEF TypeInv, DiskTyped
<1>3. i \in Inodes
  BY <1>1, <1>2, DirTypes DEF FreshInodes, Exists
<1> QED BY <1>1, <1>2, <1>3, DirTypes

\* The parts that move.
LEMMA MovingShape ==
  ASSUME TypeInv, NEW w \in Workers,
         Move(w) \/ Copy(w) \/ CopyFails(w) \/ Unlink(w) \/ Cleanup(w)
  PROVE  \E t, j : Works(w, t, j) /\ LeavesTyped
<1>0. /\ task[w].pc \in MovePcs /\ UNCHANGED <<job, stopped, store, manifests>>
      /\ UNCHANGED <<user, table, acted, pending, modal, cancel, down>>
  BY DEF Move, Copy, CopyFails, Unlink, Cleanup, At, MovePcs, files, window, bounds
<1>1. /\ task[w].todo # <<>> /\ task[w].deed \in Moves /\ task[w].pc \notin {"idle", "acting"}
      /\ dir \in Dirs /\ data \in [Inodes -> Contents \union {None}] /\ Fits(task[w], job[w])
  BY <1>0 DEF TypeInv, DiskTyped, Hands, Fits, MovePcs
<1>2. From(w) \in Entries /\ Dest(w) \in Entries
  BY <1>1, InHand
<1>3. dir' \in Dirs /\ data' \in [Inodes -> Contents \union {None}]
  <2>1. CASE Move(w)
    <3>1. data' = data /\ (dir' = dir \/ dir' = Renamed(dir, From(w), Dest(w)))
      BY <2>1 DEF Move
    <3> QED BY <1>1, <1>2, <3>1, DirTypes
  <2>2. CASE Copy(w) \/ CopyFails(w)
    <3>1. \/ UNCHANGED <<dir, data>>
          \/ Exists(From(w)) /\ CopyInto(Dest(w), data[dir[From(w)]])
          \/ CopyInto(Dest(w), None)
      BY <2>2 DEF Copy, CopyFails
    <3>2. Exists(From(w)) => data[dir[From(w)]] \in Contents \union {None}
      BY <1>1, <1>2, DirTypes DEF Exists
    <3> QED BY <1>1, <1>2, <3>1, <3>2, CopyTypes
  <2>3. CASE Unlink(w) \/ Cleanup(w)
    <3>1. /\ data' = data
          /\ dir' = dir \/ dir' = [dir EXCEPT ![From(w)] = None] \/ dir' = [dir EXCEPT ![Dest(w)] = None]
      BY <2>3 DEF Unlink, Cleanup
    <3> QED BY <1>1, <1>2, <3>1, DirTypes
  <2> QED BY <2>1, <2>2, <2>3
<1>4. \/ Moved(w)
      \/ NextOf(w) /\ channel' = channel
      \/ To(w, "copy") /\ task[w].deed # "unsuffix" /\ channel' = channel
      \/ To(w, "unlink") /\ task[w].pc = "copy" /\ task[w].deed # "copy" /\ channel' = channel
  BY DEF Move, Copy, CopyFails, Unlink, Cleanup, At
<1>5. CASE Moved(w)
  <2>1. channel' \in Seq(Events) /\ \E t : Works(w, t, NoJob)
    BY <1>0, <1>1, <1>5, MovedOn
  <2> QED BY <1>0, <1>3, <2>1 DEF LeavesTyped, TypeInv, TasksTyped
<1>6. CASE channel' = channel
  <2>1. LeavesTyped
    BY <1>0, <1>3, <1>6 DEF LeavesTyped, TypeInv, TasksTyped, WindowTyped
  <2>2. CASE NextOf(w)
    BY <1>0, <1>1, <2>1, <2>2, SkipsOn
  <2>3. CASE To(w, "copy") /\ task[w].deed # "unsuffix"
    BY <1>0, <1>1, <2>1, <2>3, GoesTo DEF Pcs, MovePcs
  <2>4. CASE To(w, "unlink") /\ task[w].pc = "copy" /\ task[w].deed # "copy"
    <3>1. task[w].deed \in {"archive", "restore"}
      BY <1>1, <2>4 DEF Moves, Fits
    <3> QED BY <1>0, <1>1, <2>1, <2>4, <3>1, GoesTo DEF Pcs, MovePcs
  <2>5. CASE Moved(w)
    BY <1>5, <2>5
  <2> QED BY <1>4, <2>2, <2>3, <2>4, <2>5
<1> QED BY <1>4, <1>5, <1>6

LEMMA FinishShape ==
  ASSUME TypeInv, NEW w \in Workers, Finish(w)
  PROVE  \E t, j : Works(w, t, j) /\ LeavesTyped
<1>1. /\ job \in [Workers -> Job] /\ job[w] = NoJob
      /\ task' = [task EXCEPT ![w] = NoTask] /\ stopped' = stopped \ {w} /\ job' = job
  BY DEF TypeInv, DiskTyped, Hands, Fits, Finish, At, fvars
<1>2. job' = [job EXCEPT ![w] = NoJob]
  BY <1>1
<1>3. Works(w, NoTask, NoJob)
  BY <1>1, <1>2, NothingUnderWay DEF Works
<1>4. channel' \in Seq(Events) /\ UNCHANGED <<dir, data, store, manifests>>
  BY SendTypes DEF Finish, TypeInv, WindowTyped, fvars, files
<1>5. UNCHANGED <<user, table, acted, pending, modal, cancel, down>>
  BY DEF Finish, window, bounds
<1> QED BY <1>3, <1>4, <1>5, StaysTyped

\* A worker that takes a step was running, and the process with it; what it does is
\* within its type.
LEMMA WorkerShape ==
  ASSUME TypeInv, NEW w \in Workers, Worker(w)
  PROVE  /\ task[w].pc # "idle" /\ ~ down /\ LeavesTyped
         /\ \E t, j : Works(w, t, j)
<1>1. task[w].pc # "idle" /\ ~ down
  BY DEF Worker, StartTask, NextItem, EnterRoot, EndLoop, PerformAction, Settle, Look, Move, Copy, CopyFails,
         Unlink, UnlinkFails, Cleanup, WriteManifest, LoadStore, SaveStore, ForgetRenamed,
         NothingToRecord, Finish, At
<1>2. \E t, j : Works(w, t, j) /\ LeavesTyped
  <2>1. \/ StartTask(w) \/ EndLoop(w) \/ LoadStore(w) \/ SaveStore(w) \/ ForgetRenamed(w)
           \/ NothingToRecord(w) \/ WriteManifest(w) \/ UnlinkFails(w) \/ Look(w)
        \/ NextItem(w) \/ PerformAction(w) \/ Settle(w)
        \/ Move(w) \/ Copy(w) \/ CopyFails(w) \/ Unlink(w) \/ Cleanup(w)
        \/ EnterRoot(w)
        \/ Finish(w)
    BY DEF Worker
  <2> QED BY <2>1, LoopShape, ActingShape, MovingShape, FinishShape, EnterShape
<1> QED BY <1>1, <1>2

LEMMA WorkerType ==
  ASSUME TypeInv, NEW w \in Workers, Worker(w)
  PROVE  TypeInv'
<1>1. PICK t, j : Works(w, t, j)
  BY WorkerShape
<1>2. LeavesTyped /\ task[w].pc # "idle"
  BY WorkerShape
<1>3. task \in [Workers -> TaskSet] /\ job \in [Workers -> Job]
  BY DEF TypeInv, TasksTyped, DiskTyped
<1>4. /\ task' = [task EXCEPT ![w] = t] /\ job' = [job EXCEPT ![w] = j]
      /\ t \in TaskSet /\ j \in Job /\ Fits(t, j) /\ stopped' \subseteq stopped
      /\ t.pc # "idle" => t.deed = task[w].deed
  BY <1>1, NothingUnderWay DEF Works
<1>5. DiskTyped' /\ WindowTyped' /\ TasksTyped'
  BY <1>2, <1>3, <1>4 DEF LeavesTyped, TypeInv, DiskTyped, WindowTyped, TasksTyped
<1>6. Hands'
  <2> SUFFICES ASSUME NEW v \in Workers PROVE Fits(task'[v], job'[v])
    BY DEF Hands, Fits
  <2>1. Fits(task[v], job[v])
    BY DEF TypeInv, Hands
  <2> QED BY <1>3, <1>4, <2>1
<1>7. Chosen'
  <2> SUFFICES ASSUME NEW v \in Workers, task'[v].pc # "idle"
               PROVE  \E a \in user'.offered : task'[v].deed = Deeds[a]
    BY DEF Chosen
  <2>1. user' = user
    BY <1>2 DEF LeavesTyped
  <2>2. \A x \in Workers : task[x].pc # "idle" => \E a \in user.offered : task[x].deed = Deeds[a]
    BY DEF TypeInv, Chosen
  <2> QED BY <1>2, <1>3, <1>4, <2>1, <2>2
<1> QED BY <1>5, <1>6, <1>7 DEF TypeInv

-----------------------------------------------------------------------------
(* What an action is about.                                                *)

\* A row and its members.
LEMMA RowMembers ==
  ASSUME TypeInv, NEW g \in DOMAIN table
  PROVE  /\ table[g] \in Rows /\ table[g] \in Seq(Paths) /\ table[g] # <<>>
         /\ Head(table[g]) \in Paths /\ Tail(table[g]) \in Seq(Paths)
         /\ Head(table[g]) \in Range(table[g]) /\ Range(Tail(table[g])) \subseteq Range(table[g])
         /\ Range(table[g]) \subseteq Paths
         /\ \A p \in Range(table[g]) : p = Head(table[g]) \/ p \in Range(Tail(table[g]))
<1>1. table[g] \in Rows
  BY DEF TypeInv, WindowTyped
<1>2. table[g] \in Seq(Paths) /\ Len(table[g]) >= 2
  BY <1>1 DEF Rows
<1>3. table[g] # <<>>
  BY <1>2, EmptySeq
<1>4. Range(table[g]) \subseteq Paths
  BY <1>2 DEF Range
<1> HIDE DEF Rows
<1> QED BY <1>1, <1>2, <1>3, <1>4, FirstAndRest

\* The items of an action on all groups.
Visible == UNION {{Item(Head(table[g]), p) : p \in Range(Tail(table[g])) \ user.references} :
                    g \in DOMAIN table}

LEMMA VisibleListed ==
  ASSUME TypeInv
  PROVE  /\ VisibleDupes \in Seq(ItemSet) /\ Range(VisibleDupes) = Visible
         /\ IsInjective(VisibleDupes)
         /\ \A it \in Visible : it.keeper \in Paths /\ it.target \in Paths
<1>1. ASSUME NEW it \in Visible
      PROVE  it \in ItemSet /\ it.keeper \in Paths /\ it.target \in Paths
             /\ it = Item(it.keeper, it.target)
  <2>1. PICK g \in DOMAIN table : \E p \in Range(Tail(table[g])) : it = Item(Head(table[g]), p)
    BY DEF Visible
  <2>2. PICK p \in Range(Tail(table[g])) : it = Item(Head(table[g]), p)
    BY <2>1
  <2>3. Head(table[g]) \in Paths /\ p \in Paths
    BY RowMembers
  <2> QED BY <2>2, <2>3 DEF Item, ItemSet
<1> DEFINE f == [it \in Visible |-> <<it.keeper, it.target>>]
<1>2. f \in Injection(Visible, Paths \X Paths)
  <2>1. f \in [Visible -> Paths \X Paths]
    BY <1>1
  <2>2. ASSUME NEW a \in Visible, NEW b \in Visible, f[a] = f[b] PROVE a = b
    <3>1. a.keeper = b.keeper /\ a.target = b.target
      BY <2>2
    <3> QED BY <3>1, <1>1
  <2> QED BY <2>1, <2>2 DEF Injection, IsInjective
<1>3. IsFiniteSet(Paths \X Paths)
  BY GuiAssumption, FS_Product DEF GuiAssumption
<1>4. IsFiniteSet(Visible)
  <2> HIDE DEF f
  <2> QED BY <1>2, <1>3, FS_Injection
<1>5. VisibleDupes = SetToSeq(Visible)
  BY DEF VisibleDupes, Visible
<1>6. VisibleDupes \in Seq(Visible) /\ Range(VisibleDupes) = Visible /\ IsInjective(VisibleDupes)
  BY <1>4, <1>5, SetToSeqOK
<1>7. Visible \subseteq ItemSet
  BY <1>1
<1>8. VisibleDupes \in Seq(ItemSet)
  BY <1>6, <1>7
<1> QED BY <1>1, <1>6, <1>8

LEMMA RowListed ==
  ASSUME NEW k \in Paths \union {None}, NEW s \in Seq(Paths)
  PROVE  LET l == [i \in DOMAIN s |-> Item(k, s[i])] IN
         l \in Seq(ItemSet) /\ Range(l) = {Item(k, p) : p \in Range(s)}
<1> DEFINE l == [i \in DOMAIN s |-> Item(k, s[i])]
<1>1. DOMAIN s = 1..Len(s) /\ Len(s) \in Nat /\ \A i \in DOMAIN s : s[i] \in Paths
  OBVIOUS
<1>2. \A i \in DOMAIN s : Item(k, s[i]) \in ItemSet
  BY <1>1 DEF Item, ItemSet
<1>3. l \in Seq(ItemSet)
  BY <1>1, <1>2
<1>4. Range(l) = {Item(k, s[i]) : i \in DOMAIN s} /\ Range(s) = {s[i] : i \in DOMAIN s}
  BY DEF Range
<1> HIDE DEF Item, l
<1>5. l \in Seq(ItemSet) /\ Range(l) = {Item(k, p) : p \in Range(s)}
  BY <1>3, <1>4
<1> QED BY <1>5 DEF l

\* What a confirmed action is about.
LEMMA TodoListed ==
  ASSUME TypeInv, pending # None
  PROVE  LET l == Todo(pending) IN
         /\ l \in Seq(ItemSet)
         /\ pending.action \in ForGroup \union {"archiveRestore"} =>
              Range(l) = {Item(pending.keeper, p) : p \in Range(pending.dupes)}
         /\ pending.action \in ForAll => Range(l) = Visible
         /\ pending.action = "unsuperdeduper" => l = <<>>
         /\ pending.action \notin ForRoots => \A it \in Range(l) : it.keeper \in Paths
<1> DEFINE a == pending.action
<1>1. /\ pending \in Pending /\ a \in ForGroup \union ForAll \union ForRoots
      /\ pending.keeper \in Paths \union {None} /\ pending.dupes \in Seq(Paths)
      /\ a \in ForGroup => pending.keeper \in Paths
  BY DEF TypeInv, WindowTyped, Pending
<1>2. CASE a \in ForGroup \union {"archiveRestore"}
  <2>1. Todo(pending) = [i \in DOMAIN pending.dupes |-> Item(pending.keeper, pending.dupes[i])]
    <3>1. a \notin ForAll
      BY <1>2 DEF ForGroup, ForAll
    <3> QED BY <1>2, <3>1 DEF Todo
  <2>2. /\ Todo(pending) \in Seq(ItemSet)
        /\ Range(Todo(pending)) = {Item(pending.keeper, p) : p \in Range(pending.dupes)}
    BY <1>1, <2>1, RowListed, Zenon
  <2>3. a \notin ForRoots => \A it \in Range(Todo(pending)) : it.keeper \in Paths
    BY <1>1, <1>2, <2>2 DEF Item, ForRoots
  <2>4. a \notin ForAll /\ a # "unsuperdeduper"
    BY <1>2 DEF ForGroup, ForAll
  <2> HIDE DEF Item
  <2> QED BY <1>2, <2>2, <2>3, <2>4
<1>3. CASE a \in ForAll
  <2>1. Todo(pending) = VisibleDupes /\ a \notin ForGroup \union {"archiveRestore", "unsuperdeduper"}
    BY <1>3 DEF Todo, ForGroup, ForAll
  <2>2. a \notin ForRoots
    BY <1>3 DEF ForAll, ForRoots
  <2> QED BY <1>3, <2>1, <2>2, VisibleListed
<1>4. CASE a = "unsuperdeduper"
  <2>1. Todo(pending) = <<>> /\ a \notin ForGroup \union ForAll \union {"archiveRestore"}
        /\ a \in ForRoots
    BY <1>4 DEF Todo, ForGroup, ForAll, ForRoots
  <2> QED BY <1>4, <2>1
<1> QED BY <1>1, <1>2, <1>3, <1>4 DEF ForRoots

-----------------------------------------------------------------------------
(* The types hold.                                                         *)

LEMMA InitType ==
  ASSUME Init
  PROVE  TypeInv
<1>1. user \in Users /\ table = user.table /\ pending = None /\ cancel = FALSE /\ down = FALSE
      /\ channel = <<>> /\ store = {} /\ manifests = <<>> /\ stopped = {}
      /\ task = [w \in Workers |-> NoTask] /\ job = [w \in Workers |-> NoJob]
  BY DEF Init
<1>2. /\ user.table \in Seq(Seq(Paths)) /\ \A g \in DOMAIN user.table : Len(user.table[g]) >= 2
      /\ Scanned \subseteq Files
      /\ \E l \in [Scanned -> Inodes] : IsInjective(l)
      /\ user.content \in [Scanned -> Contents]
  BY <1>1, GuiAssumption DEF GuiAssumption, Scanned
<1> DEFINE link == CHOOSE l \in [Scanned -> Inodes] : IsInjective(l)
<1>3. link \in [Scanned -> Inodes] /\ IsInjective(link)
  BY <1>2
<1>4. /\ dir = [e \in Entries |-> IF e \in Scanned THEN link[e] ELSE None]
      /\ data = [i \in Inodes |-> IF i \in Range(link)
                                  THEN user.content[CHOOSE f \in Scanned : link[f] = i] ELSE None]
  BY DEF Init
<1> HIDE DEF link
<1>5. dir \in Dirs
  BY <1>3, <1>4 DEF Dirs
<1>6. data \in [Inodes -> Contents \union {None}]
  <2> SUFFICES ASSUME NEW i \in Range(link)
               PROVE  user.content[CHOOSE f \in Scanned : link[f] = i] \in Contents
    BY <1>4
  <2>1. \E f \in Scanned : link[f] = i
    BY <1>3 DEF Range
  <2>2. (CHOOSE f \in Scanned : link[f] = i) \in Scanned
    BY <2>1
  <2> QED BY <1>2, <2>2
<1>7. table \in Seq(Rows)
  <2>1. user.table \in [1..Len(user.table) -> Seq(Paths)] /\ Len(user.table) \in Nat
    BY <1>2
  <2>2. \A g \in DOMAIN user.table : user.table[g] \in Rows
    BY <1>2, <2>1 DEF Rows
  <2> HIDE DEF Rows
  <2> QED BY <1>1, <2>1, <2>2
<1>8. DiskTyped
  BY <1>1, <1>5, <1>6, NothingUnderWay DEF DiskTyped
<1>9. WindowTyped /\ TasksTyped
  <2>1. channel \in Seq(Events)
    BY <1>1
  <2>2. WindowTyped
    BY <1>1, <1>7, <2>1 DEF WindowTyped
  <2>3. TasksTyped
    BY <1>1, NothingUnderWay DEF TasksTyped
  <2> QED BY <2>2, <2>3
<1>10. Hands /\ Chosen
  BY <1>1, NothingUnderWay DEF Hands, Chosen
<1> QED BY <1>8, <1>9, <1>10 DEF TypeInv

\* What the user does, but for Confirm.
LEMMA UserType ==
  ASSUME TypeInv, User, \A w \in Workers : ~ Confirm(w)
  PROVE  TypeInv' /\ UNCHANGED <<user, fvars, channel, task, files, down>>
<1>1. /\ UNCHANGED <<user, dir, data, job, channel, task, store, manifests, down>>
      /\ UNCHANGED <<user, fvars, channel, task, files, down>>
  BY DEF User, ClickRow, ClickAll, ClickRestore, Decline, Promote, Stop, fvars, files, bounds
<1>2. stopped' \subseteq Workers /\ cancel' \in BOOLEAN
  <2>1. stopped' \in {stopped, stopped \union Running} /\ cancel' \in {cancel, TRUE}
    BY DEF User, ClickRow, ClickAll, ClickRestore, Decline, Promote, Stop
  <2> QED BY <2>1 DEF TypeInv, TasksTyped, WindowTyped, Running
<1>3. table' \in Seq(Rows)
  <2>1. CASE UNCHANGED table
    BY <2>1 DEF TypeInv, WindowTyped
  <2>2. CASE \E g \in DOMAIN table : \E i \in 2..Len(table[g]) : Promote(g, i)
    <3>0. PICK g \in DOMAIN table : \E i \in 2..Len(table[g]) : Promote(g, i)
      BY <2>2
    <3>1. PICK i \in 2..Len(table[g]) : Promote(g, i)
      BY <3>0
    <3> DEFINE r == table[g]
               q == [r EXCEPT ![1] = r[i], ![i] = r[1]]
    <3>2. table \in Seq(Rows) /\ r \in Rows
      BY RowMembers DEF TypeInv, WindowTyped
    <3>3. r \in Seq(Paths) /\ Len(r) \in Nat /\ i \in 1..Len(r) /\ 1 \in 1..Len(r)
      BY <3>2 DEF Rows
    <3>4. q \in Seq(Paths) /\ Len(q) = Len(r)
      BY <3>3
    <3>5. q \in Rows
      BY <3>2, <3>4 DEF Rows
    <3>6. table' = [table EXCEPT ![g] = q]
      BY <3>1, <3>2 DEF Promote
    <3> HIDE DEF q, Rows
    <3> QED BY <3>2, <3>5, <3>6
  <2>3. UNCHANGED table \/ \E g \in DOMAIN table : \E i \in 2..Len(table[g]) : Promote(g, i)
    BY DEF User, ClickRow, ClickAll, ClickRestore, Decline, Stop, window
  <2> QED BY <2>1, <2>2, <2>3
<1>4. pending' # None => /\ pending' \in Pending /\ pending'.action \in user'.offered
                         /\ pending'.action \in ForGroup => pending'.keeper \in Paths
  <2>1. CASE pending' = pending \/ pending' = None
    BY <1>1, <2>1 DEF TypeInv, WindowTyped
  <2>2. CASE \E a \in ForGroup : \E g \in DOMAIN table : ClickRow(a, g)
    <3>1. PICK a \in ForGroup, g \in DOMAIN table : ClickRow(a, g)
      BY <2>2
    <3>2. /\ pending' = [action |-> a, keeper |-> Head(table[g]), dupes |-> Tail(table[g])]
          /\ a \in user.offered
      BY <3>1 DEF ClickRow
    <3> QED BY <1>1, <3>2, RowMembers DEF Pending
  <2>3. CASE \E a \in ForAll \union {"unsuperdeduper"} : ClickAll(a)
    <3>1. PICK a \in ForAll \union {"unsuperdeduper"} : ClickAll(a)
      BY <2>3
    <3>2. pending' = [action |-> a, keeper |-> None, dupes |-> <<>>] /\ a \in user.offered
      BY <3>1 DEF ClickAll
    <3>3. a \notin ForGroup /\ a \in ForAll \union ForRoots
      BY DEF ForGroup, ForAll, ForRoots
    <3> QED BY <1>1, <3>2, <3>3 DEF Pending
  <2>4. CASE \E k \in DOMAIN manifests : ClickRestore(k)
    <3>1. PICK k \in DOMAIN manifests : ClickRestore(k)
      BY <2>4
    <3> DEFINE S == {m[1] : m \in manifests[k]}
    <3>2. /\ pending' = [action |-> "archiveRestore", keeper |-> None, dupes |-> SetToSeq(S)]
          /\ "archiveRestore" \in user.offered
      BY <3>1 DEF ClickRestore
    <3>3. S \subseteq Paths
      BY DEF TypeInv, TasksTyped
    <3> HIDE DEF S
    <3>4. IsFiniteSet(S)
      BY <3>3, GuiAssumption, FS_Subset DEF GuiAssumption
    <3>5. SetToSeq(S) \in Seq(Paths)
      BY <3>3, <3>4, SetToSeqOK
    <3>6. "archiveRestore" \in ForRoots /\ "archiveRestore" \notin ForGroup
      BY DEF ForRoots, ForGroup
    <3> QED BY <1>1, <3>2, <3>5, <3>6 DEF Pending
  <2> QED BY <2>1, <2>2, <2>3, <2>4 DEF User, Decline, Promote, Stop, window
<1>5. WindowTyped' /\ DiskTyped' /\ TasksTyped'
  BY <1>1, <1>2, <1>3, <1>4 DEF WindowTyped, DiskTyped, TasksTyped, TypeInv
<1>6. Hands' /\ Chosen'
  BY <1>1 DEF TypeInv, Hands, Chosen, Fits
<1> QED BY <1>1, <1>5, <1>6 DEF TypeInv

LEMMA ConfirmShape ==
  ASSUME TypeInv, NEW w \in Workers, Confirm(w)
  PROVE  \E t \in TaskSet :
           /\ task' = [task EXCEPT ![w] = t] /\ job[w] = NoJob /\ task[w] = NoTask
           /\ t.pc = "start" /\ t.deed = Deeds[pending.action] /\ t.todo = Todo(pending)
           /\ t.roots = Roots(pending) /\ t.renamed = {} /\ t.moved = {} /\ t.loaded = {}
           /\ Fits(t, NoJob) /\ t.deed \in FileDeeds \union Moves
           /\ pending # None /\ pending.action \in user.offered
<1>1. /\ pending # None /\ task[w].pc = "idle" /\ task \in [Workers -> TaskSet]
      /\ Fits(task[w], job[w])
      /\ task' = [task EXCEPT ![w] = [NoTask EXCEPT !.pc = "start", !.deed = Deeds[pending.action],
                                                    !.todo = Todo(pending),
                                                    !.roots = Roots(pending)]]
  BY DEF Confirm, TypeInv, TasksTyped, Hands
<1> DEFINE a == pending.action
           t == [NoTask EXCEPT !.pc = "start", !.deed = Deeds[a], !.todo = Todo(pending),
                               !.roots = Roots(pending)]
<1>2. pending \in Pending /\ a \in user.offered /\ a \in ForGroup \union ForAll \union ForRoots
  BY <1>1 DEF TypeInv, WindowTyped, Pending
<1>3. /\ Deeds[a] \in FileDeeds \union Moves
      /\ Deeds[a] = "unsuffix" <=> a = "unsuperdeduper"
      /\ Deeds[a] \in FileDeeds => a \notin ForRoots
      /\ Deeds[a] # "none"
  BY <1>2 DEF Deeds, ForGroup, ForAll, ForRoots, FileDeeds, Actions, Moves
<1>4. Todo(pending) \in Seq(ItemSet) /\ Roots(pending) \in Seq(SUBSET Files)
  <2>1. user.roots \in Seq(SUBSET Files)
    BY GuiAssumption DEF GuiAssumption, TypeInv, WindowTyped
  <2> QED BY <1>1, <2>1, TodoListed DEF Roots
<1>5. /\ t \in TaskSet /\ t.pc = "start" /\ t.deed = Deeds[a] /\ t.todo = Todo(pending)
      /\ t.roots = Roots(pending) /\ t.renamed = {} /\ t.moved = {} /\ t.loaded = {}
  BY <1>3, <1>4 DEF TaskSet, NoTask, Pcs
<1> HIDE DEF t
<1>6. Fits(t, NoJob)
  <2>1. t.deed = "unsuffix" => \A it \in Range(t.todo) : it.target \in Files
    <3>1. t.deed = "unsuffix" => t.todo = <<>>
      BY <1>1, <1>3, <1>5, TodoListed
    <3> QED BY <3>1 DEF Range
  <2>2. t.deed \in FileDeeds => \A it \in Range(t.todo) : it.keeper \in Paths
    BY <1>1, <1>3, <1>5, TodoListed
  <2>3. t.roots # <<>> => t.deed = "unsuffix"
    BY <1>3, <1>5 DEF Roots
  <2> QED BY <1>5, <2>1, <2>2, <2>3 DEF Fits, MovePcs
<1>7. job[w] = NoJob /\ task[w] = NoTask
  BY <1>1 DEF Fits
<1> QED BY <1>1, <1>2, <1>3, <1>5, <1>6, <1>7 DEF t

LEMMA ConfirmType ==
  ASSUME TypeInv, NEW w \in Workers, Confirm(w)
  PROVE  TypeInv'
<1>1. PICK t \in TaskSet :
           /\ task' = [task EXCEPT ![w] = t] /\ job[w] = NoJob
           /\ t.deed = Deeds[pending.action] /\ Fits(t, NoJob) /\ pending.action \in user.offered
  BY ConfirmShape
<1>2. /\ UNCHANGED <<user, dir, data, job, table, channel, store, manifests, stopped, down>>
      /\ pending' = None /\ cancel' = FALSE
  BY DEF Confirm, fvars, files
<1>3. task \in [Workers -> TaskSet]
  BY DEF TypeInv, TasksTyped
<1>4. WindowTyped' /\ DiskTyped' /\ TasksTyped'
  BY <1>1, <1>2, <1>3 DEF WindowTyped, DiskTyped, TasksTyped, TypeInv
<1>5. Hands'
  <2> SUFFICES ASSUME NEW v \in Workers PROVE Fits(task'[v], job'[v])
    BY DEF Hands, Fits
  <2>1. Fits(task[v], job[v])
    BY DEF TypeInv, Hands
  <2> QED BY <1>1, <1>2, <1>3, <2>1
<1>6. Chosen'
  <2> SUFFICES ASSUME NEW v \in Workers, task'[v].pc # "idle"
               PROVE  \E a \in user'.offered : task'[v].deed = Deeds[a]
    BY DEF Chosen
  <2>1. \A x \in Workers : task[x].pc # "idle" => \E a \in user.offered : task[x].deed = Deeds[a]
    BY DEF TypeInv, Chosen
  <2> QED BY <1>1, <1>2, <1>3, <2>1
<1> QED BY <1>4, <1>5, <1>6 DEF TypeInv

LEMMA TwoOrMore ==
  ASSUME NEW n \in Nat, n >= 2
  PROVE  n = 2 \/ n > 2
OBVIOUS

\* What an event does to the table.
LEMMA AppliedShape ==
  ASSUME TypeInv, NEW e
  PROVE  \/ Applied(e) = table /\ \A g \in DOMAIN table : e.src \notin Range(table[g])
         \/ \E g \in DOMAIN table : \E i \in 1..Len(table[g]) :
              /\ table[g][i] = e.src
              /\ \/ e.type = "renamed" /\ Applied(e) = [table EXCEPT ![g][i] = e.to]
                 \/ /\ e.type # "renamed" /\ Len(table[g]) = 2
                    /\ Applied(e) = RemoveAt(table, g)
                 \/ /\ e.type # "renamed" /\ Len(table[g]) > 2
                    /\ Applied(e) = [table EXCEPT ![g] = RemoveAt(table[g], i)]
<1> DEFINE hit == {g \in DOMAIN table : e.src \in Range(table[g])}
           g == CHOOSE h \in hit : \A k \in hit : h <= k
           i == CHOOSE k \in DOMAIN table[g] : table[g][k] = e.src
           rest == RemoveAt(table[g], i)
<1>1. Applied(e) = IF hit = {} THEN table
                   ELSE IF e.type = "renamed" THEN [table EXCEPT ![g][i] = e.to]
                   ELSE IF Len(rest) < 2 THEN RemoveAt(table, g) ELSE [table EXCEPT ![g] = rest]
  BY DEF Applied
<1>2. CASE hit = {}
  BY <1>1, <1>2
<1>3. CASE hit # {}
  <2>1. hit \subseteq Nat
    BY DEF TypeInv, WindowTyped
  <2>2. \E h \in hit : \A k \in hit : h <= k
    <3> HIDE DEF hit
    <3> QED BY <1>3, <2>1, LeastRow
  <2>3. g \in hit
    BY <2>2
  <2>4. g \in DOMAIN table /\ \E k \in DOMAIN table[g] : table[g][k] = e.src
    BY <2>3 DEF Range
  <2> HIDE DEF g
  <2>5. i \in DOMAIN table[g] /\ table[g][i] = e.src
    BY <2>4
  <2> HIDE DEF i
  <2>6. table[g] \in Seq(Paths) /\ Len(table[g]) >= 2
    BY <2>4, RowMembers DEF Rows
  <2>7. i \in 1..Len(table[g])
    BY <2>5, <2>6
  <2>8. Len(rest) = Len(table[g]) - 1 /\ Len(table[g]) \in Nat
    BY <2>6, <2>7, RemoveAtOK
  <2> HIDE DEF hit
  <2>9. CASE e.type = "renamed"
    BY <1>1, <1>3, <2>4, <2>5, <2>7, <2>9
  <2>10. CASE e.type # "renamed"
    <3>1. Applied(e) = IF Len(rest) < 2 THEN RemoveAt(table, g) ELSE [table EXCEPT ![g] = rest]
      BY <1>1, <1>3, <2>10
    <3>2. CASE Len(table[g]) = 2
      <4>1. Len(rest) < 2
        BY <2>8, <3>2
      <4>2. Applied(e) = RemoveAt(table, g)
        BY <3>1, <4>1
      <4> QED BY <2>4, <2>5, <2>7, <2>10, <3>2, <4>2, Zenon
    <3>3. CASE Len(table[g]) > 2
      <4>1. ~ (Len(rest) < 2)
        BY <2>8, <3>3
      <4>2. Applied(e) = [table EXCEPT ![g] = rest]
        BY <3>1, <4>1
      <4> QED BY <2>4, <2>5, <2>7, <2>10, <3>3, <4>2, Zenon
    <3>4. Len(table[g]) = 2 \/ Len(table[g]) > 2
      <4>1. Len(table[g]) \in Nat
        BY <2>8
      <4>2. Len(table[g]) >= 2
        BY <2>6
      <4> QED BY <4>1, <4>2, TwoOrMore, Zenon
    <3> QED BY <3>2, <3>3, <3>4, Zenon
  <2> QED BY <2>9, <2>10, Zenon
<1> QED BY <1>2, <1>3, Zenon

\* An event takes a path out of a row, or puts another in its place.
LEMMA AppliedType ==
  ASSUME TypeInv, NEW e \in Events, e.type \notin {"started", "finished"}
  PROVE  Applied(e) \in Seq(Rows)
<1>1. table \in Seq(Rows)
  BY DEF TypeInv, WindowTyped
<1>2. e.type = "renamed" => e.to \in Paths
  BY NameTypes DEF Events, Started, Finished, Gone, MovedTo
<1>3. CASE Applied(e) = table
  BY <1>1, <1>3
<1>4. CASE \E g \in DOMAIN table : \E i \in 1..Len(table[g]) :
              /\ table[g][i] = e.src
              /\ \/ e.type = "renamed" /\ Applied(e) = [table EXCEPT ![g][i] = e.to]
                 \/ /\ e.type # "renamed" /\ Len(table[g]) = 2
                    /\ Applied(e) = RemoveAt(table, g)
                 \/ /\ e.type # "renamed" /\ Len(table[g]) > 2
                    /\ Applied(e) = [table EXCEPT ![g] = RemoveAt(table[g], i)]
  <2>1. PICK g \in DOMAIN table : \E i \in 1..Len(table[g]) :
              /\ table[g][i] = e.src
              /\ \/ e.type = "renamed" /\ Applied(e) = [table EXCEPT ![g][i] = e.to]
                 \/ /\ e.type # "renamed" /\ Len(table[g]) = 2
                    /\ Applied(e) = RemoveAt(table, g)
                 \/ /\ e.type # "renamed" /\ Len(table[g]) > 2
                    /\ Applied(e) = [table EXCEPT ![g] = RemoveAt(table[g], i)]
    BY <1>4
  <2>2. PICK i \in 1..Len(table[g]) :
              \/ e.type = "renamed" /\ Applied(e) = [table EXCEPT ![g][i] = e.to]
              \/ Applied(e) = RemoveAt(table, g)
              \/ Len(table[g]) > 2 /\ Applied(e) = [table EXCEPT ![g] = RemoveAt(table[g], i)]
    BY <2>1
  <2>3. table[g] \in Seq(Paths) /\ Len(table[g]) >= 2 /\ Len(table[g]) \in Nat
    BY RowMembers DEF Rows
  <2>4. CASE e.type = "renamed" /\ Applied(e) = [table EXCEPT ![g][i] = e.to]
    <3> DEFINE q == [table[g] EXCEPT ![i] = e.to]
    <3>1. q \in Seq(Paths) /\ Len(q) = Len(table[g])
      BY <1>2, <2>3, <2>4
    <3>2. q \in Rows
      BY <2>3, <3>1 DEF Rows
    <3>3. Applied(e) = [table EXCEPT ![g] = q]
      BY <1>1, <2>4
    <3> HIDE DEF q, Rows
    <3> QED BY <1>1, <3>2, <3>3
  <2>5. CASE Applied(e) = RemoveAt(table, g)
    BY <1>1, <2>5, RemoveAtOK
  <2>6. CASE Len(table[g]) > 2 /\ Applied(e) = [table EXCEPT ![g] = RemoveAt(table[g], i)]
    <3> DEFINE q == RemoveAt(table[g], i)
    <3>1. q \in Seq(Paths) /\ Len(q) = Len(table[g]) - 1
      BY <2>3, RemoveAtOK
    <3>2. q \in Rows
      BY <2>3, <2>6, <3>1 DEF Rows
    <3> HIDE DEF q, Rows
    <3> QED BY <1>1, <2>6, <3>2 DEF q
  <2> QED BY <2>2, <2>4, <2>5, <2>6
<1> QED BY <1>3, <1>4, AppliedShape

LEMMA DrainType ==
  ASSUME TypeInv, Drain
  PROVE  TypeInv'
<1>1. /\ UNCHANGED <<user, dir, data, job, pending, cancel, task, store, manifests, stopped, down>>
      /\ channel # <<>> /\ channel' = Tail(channel)
  BY DEF Drain, fvars, files, bounds
<1>2. Head(channel) \in Events /\ channel' \in Seq(Events)
  BY <1>1, FirstAndRest DEF TypeInv, WindowTyped
<1>3. table' \in Seq(Rows)
  <2>1. \/ table' = table
        \/ table' = Applied(Head(channel)) /\ Head(channel).type \notin {"started", "finished"}
    BY DEF Drain
  <2> QED BY <1>2, <2>1, AppliedType DEF TypeInv, WindowTyped
<1>4. WindowTyped' /\ DiskTyped' /\ TasksTyped'
  BY <1>1, <1>2, <1>3 DEF WindowTyped, DiskTyped, TasksTyped, TypeInv
<1>5. Hands' /\ Chosen'
  BY <1>1 DEF TypeInv, Hands, Chosen, Fits
<1> QED BY <1>4, <1>5 DEF TypeInv

LEMMA CrashType ==
  ASSUME TypeInv, Crash
  PROVE  TypeInv'
<1>1. /\ UNCHANGED <<user, dir, data, table, store, manifests>>
      /\ job' = [w \in Workers |-> NoJob] /\ task' = [w \in Workers |-> NoTask]
      /\ channel' = <<>> /\ pending' = None /\ cancel' = FALSE /\ stopped' = {} /\ down' = TRUE
  BY DEF Crash, disk, files, bounds
<1>2. channel' \in Seq(Events)
  BY <1>1
<1>3. WindowTyped'
  BY <1>1, <1>2 DEF WindowTyped, TypeInv
<1>4. DiskTyped' /\ TasksTyped'
  BY <1>1, NothingUnderWay DEF DiskTyped, TasksTyped, TypeInv
<1>5. Hands' /\ Chosen'
  BY <1>1, NothingUnderWay DEF Hands, Chosen, Fits
<1> QED BY <1>3, <1>4, <1>5 DEF TypeInv

LEMMA NextType ==
  ASSUME TypeInv, [Next]_vars
  PROVE  TypeInv'
<1>1. CASE User
  BY <1>1, UserType, ConfirmType
<1>2. CASE \E w \in Workers : Worker(w)
  BY <1>2, WorkerType
<1>3. CASE Drain
  BY <1>3, DrainType
<1>4. CASE Crash
  BY <1>4, CrashType
<1>5. CASE UNCHANGED vars
  BY <1>5 DEF vars, fvars, window, files, bounds, TypeInv, DiskTyped, WindowTyped, TasksTyped,
              Hands, Chosen, Fits
<1> QED BY <1>1, <1>2, <1>3, <1>4, <1>5 DEF Next

\* Every state is made of what the code makes it of: an idle worker has nothing in hand, one
\* that acts has the first of its items, in a phase of its own kind of action, and a row of
\* the window keeps two members at least (gui/app.rs, gui/state.rs).
THEOREM Types == Spec => []TypeInv
<1>1. Init => TypeInv
  BY InitType
<1>2. TypeInv /\ [Next]_vars => TypeInv'
  BY NextType
<1> QED BY <1>1, <1>2, PTL DEF Spec

-----------------------------------------------------------------------------
(* One action at a time, and Stop.                                         *)

\* Who is running, whom Stop was clicked on, and what the flag says.
Alone ==
  /\ stopped \subseteq Running
  /\ down => Running = {} /\ channel = <<>>
  /\ user.patient => /\ \A v, w \in Running : v = w
                     /\ stopped # {} => cancel

\* A worker's step changes its own task and job only.
LEMMA OthersKeep ==
  ASSUME TypeInv, NEW w \in Workers, NEW t, NEW j, Works(w, t, j)
  PROVE  /\ task'[w] = t /\ job'[w] = j
         /\ \A v \in Workers : v # w => task'[v] = task[v] /\ job'[v] = job[v]
         /\ Running' = IF t.pc = "idle" THEN Running \ {w} ELSE Running \union {w}
<1>1. task \in [Workers -> TaskSet] /\ job \in [Workers -> Job]
  BY DEF TypeInv, TasksTyped, DiskTyped
<1>2. task' = [task EXCEPT ![w] = t] /\ job' = [job EXCEPT ![w] = j]
  BY DEF Works
<1> QED BY <1>1, <1>2 DEF Running

LEMMA AloneInit == Init => Alone
BY NothingUnderWay DEF Init, Alone, Running

LEMMA AloneNext ==
  ASSUME TypeInv, Alone, [Next]_vars
  PROVE  Alone'
<1>1. CASE \E w \in Workers : Worker(w)
  <2>1. PICK w \in Workers : Worker(w)
    BY <1>1
  <2>2. PICK t, j : Works(w, t, j)
    BY <2>1, WorkerShape
  <2>3. UNCHANGED <<user, cancel, down>> /\ ~ down /\ w \in Running
    BY <2>1, WorkerShape DEF LeavesTyped, Running
  <2>4. \/ t.pc # "idle" /\ stopped' = stopped /\ Running' = Running
        \/ t.pc = "idle" /\ stopped' = stopped \ {w} /\ Running' = Running \ {w}
    <3>1. Running' = IF t.pc = "idle" THEN Running \ {w} ELSE Running \union {w}
      BY <2>2, OthersKeep
    <3>2. \/ t.pc # "idle" /\ stopped' = stopped
          \/ t.pc = "idle" /\ stopped' = stopped \ {w}
      BY <2>2, NothingUnderWay DEF Works
    <3> HIDE DEF Running
    <3>3. Running \union {w} = Running
      BY <2>3
    <3> QED BY <3>1, <3>2, <3>3
  <2>5. Running' \subseteq Running /\ stopped' \subseteq stopped /\ stopped' \subseteq Running'
    BY <2>4 DEF Alone
  <2> QED BY <2>3, <2>5 DEF Alone
<1>2. CASE \E w \in Workers : Confirm(w)
  <2>1. PICK w \in Workers : Confirm(w)
    BY <1>2
  <2>2. ~ down /\ (user.patient => Running = {}) /\ UNCHANGED <<user, stopped, down>>
    BY <2>1 DEF Confirm, MayTouch, Quiet
  <2>3. PICK t \in TaskSet : task' = [task EXCEPT ![w] = t] /\ t.pc = "start"
    BY <2>1, ConfirmShape
  <2>4. Running' = Running \union {w}
    BY <2>3 DEF Running, TypeInv, TasksTyped
  <2> QED BY <2>2, <2>4 DEF Alone
<1>3. CASE User /\ \A w \in Workers : ~ Confirm(w)
  <2>1. UNCHANGED <<user, channel, task, down>> /\ Running' = Running
    BY <1>3, UserType DEF Running
  <2>2. \/ stopped' = stopped /\ cancel' = cancel
        \/ stopped' = stopped \union Running /\ cancel' = TRUE
    BY <1>3 DEF User, ClickRow, ClickAll, ClickRestore, Decline, Promote, Stop
  <2> QED BY <2>1, <2>2 DEF Alone
<1>4. CASE Drain
  <2>1. UNCHANGED <<user, cancel, task, stopped, down>> /\ Running' = Running /\ ~ down
    BY <1>4 DEF Drain, Running, bounds
  <2> QED BY <2>1 DEF Alone
<1>5. CASE Crash
  BY <1>5, NothingUnderWay DEF Crash, Alone, Running, bounds
<1>6. CASE UNCHANGED vars
  BY <1>6 DEF vars, bounds, Alone, Running
<1> QED BY <1>1, <1>2, <1>3, <1>4, <1>5, <1>6 DEF Next

\* "No further files are touched": whoever was running when Stop was clicked takes up no
\* other file and no other root, however many steps later, as long as the user waits for
\* it before the next action, which would take the flag back; unsuperdeduper finishes the
\* root it is in.
THEOREM StopHolds == Spec => StopIsHonoured
<1> DEFINE Honoured == user.patient => \A w \in stopped : task[w].pc = "next" /\ ~ InRoot(w) =>
             /\ task'[w].pc \notin {"acting", "look"}
             /\ task'[w].pc = "next" => task'[w].roots = task[w].roots
<1>1. ASSUME TypeInv, Alone, [Next]_vars PROVE Honoured
  <2> SUFFICES ASSUME user.patient, NEW w \in stopped, task[w].pc = "next", ~ InRoot(w),
                      task'[w].pc \notin {"record", "idle", "start"}, task'[w] # task[w]
               PROVE  FALSE
    OBVIOUS
  <2>1. cancel /\ w \in Workers /\ ~ down /\ task \in [Workers -> TaskSet]
    BY <1>1 DEF Alone, TypeInv, TasksTyped
  <2>2. CASE \E v \in Workers : Worker(v)
    <3>1. PICK v \in Workers : Worker(v)
      BY <2>2
    <3>2. CASE v # w
      <4>1. \E t, j : Works(v, t, j)
        BY <1>1, <3>1, WorkerShape
      <4>2. task'[w] = task[w]
        BY <1>1, <2>1, <3>2, <4>1, OthersKeep
      <4> QED BY <4>2
    <3>3. CASE v = w
      <4>1. EndLoop(w)
        BY <2>1, <3>1, <3>3 DEF Worker, StartTask, NextItem, EnterRoot, StopSeen, PerformAction,
           Settle, Look, Move, Copy, CopyFails, Unlink, UnlinkFails, Cleanup, WriteManifest,
           LoadStore, SaveStore, ForgetRenamed, NothingToRecord, Finish, At
      <4>2. task' = [task EXCEPT ![w].pc = "record"]
        BY <4>1 DEF EndLoop, To
      <4> QED BY <2>1, <4>2 DEF TaskSet
    <3> QED BY <3>2, <3>3
  <2>3. CASE \E v \in Workers : Confirm(v)
    <3>1. PICK v \in Workers : Confirm(v)
      BY <2>3
    <3>2. PICK t \in TaskSet : task' = [task EXCEPT ![v] = t] /\ t.pc = "start"
      BY <1>1, <3>1, ConfirmShape
    <3> QED BY <2>1, <3>2
  <2>4. CASE User /\ \A v \in Workers : ~ Confirm(v)
    BY <1>1, <2>4, UserType
  <2>5. CASE Drain
    BY <2>5 DEF Drain
  <2>6. CASE Crash
    BY <2>1, <2>6, NothingUnderWay DEF Crash
  <2>7. CASE UNCHANGED vars
    BY <2>7 DEF vars
  <2> QED BY <1>1, <2>2, <2>3, <2>4, <2>5, <2>6, <2>7 DEF Next
<1>2. TypeInv /\ Alone /\ [Next]_vars => [Honoured]_vars
  BY <1>1
<1>3. TypeInv /\ Alone /\ [Next]_vars => Alone'
  BY AloneNext
<1> HIDE DEF Honoured
<1>4. Spec => [][Honoured]_vars
  BY <1>2, <1>3, AloneInit, Types, PTL DEF Spec
<1> QED BY <1>4 DEF StopIsHonoured, Honoured

-----------------------------------------------------------------------------
(* References.                                                             *)

\* A step of a file action that a worker performs.
LEMMA ActingEffect ==
  ASSUME TypeInv, NEW w \in Workers, PerformAction(w)
  PROVE  /\ task[w].pc = "acting" /\ task[w].deed \in FileDeeds /\ task[w].todo # <<>>
         /\ Effect(w) /\ UNCHANGED <<data, task, channel, table, down, user, store, manifests>>
         /\ Target(w) \in Files /\ Keeper(w) \in Files
         /\ Target(w) = Canon[First(w).target] /\ Keeper(w) = Canon[First(w).keeper]
         /\ job[w].action = task[w].deed /\ job[w].phase \in PhasesOf(task[w].deed)
         /\ \E j \in Job : /\ job' = [job EXCEPT ![w] = j] /\ j.action = task[w].deed
                           /\ j.phase \in PhasesOf(task[w].deed)
                           /\ j.target = job[w].target /\ j.keeper = job[w].keeper
<1>1. /\ task[w].pc = "acting" /\ UNCHANGED <<task, channel, table, down, user, store, manifests>>
      /\ GuardKeeper(w, FALSE) \/ ActStep(w)
  BY DEF PerformAction, At, window, files, bounds
<1>2. Fits(task[w], job[w]) /\ DiskTyped
  BY DEF TypeInv, Hands
<1>3. /\ job[w].action = task[w].deed /\ job[w].action \in FileDeeds
      /\ job[w].phase \in PhasesOf(job[w].action) /\ task[w].todo # <<>>
      /\ job[w].target = First(w).target /\ job[w].keeper = First(w).keeper
      /\ \A it \in Range(task[w].todo) : it.keeper \in Paths
  BY <1>1, <1>2 DEF Fits, First
<1>4. job[w].target \in Paths /\ job[w].keeper \in Paths
  BY <1>3, InHand
<1>5. /\ \E j \in Job : /\ job' = [job EXCEPT ![w] = j] /\ j.action = job[w].action
                        /\ j.phase \in PhasesOf(job[w].action)
                        /\ j.target = job[w].target /\ j.keeper = job[w].keeper
      /\ UNCHANGED data /\ Effect(w)
  BY <1>1, <1>2, <1>3, <1>4, ActShape
<1> QED BY <1>1, <1>3, <1>4, <1>5, NameTypes DEF Target, Keeper

RefEntries == {Canon[r] : r \in user.references}

\* The user keeps to the actions that pass the guards, and the reference roots hold no
\* file with a name that an action would clear away or build.
Careful ==
  /\ user.offered \intersect {"archiveAll", "archiveRestore", "unsuperdeduper"} = {}
  /\ \A f \in Files : /\ AsideOf[f] \notin RefEntries
                      /\ SafeNameOf[f] \in RefEntries => SafeNameOf[f] = f

\* What is being acted on is no reference.
Referenced == \A w \in Workers : task[w].pc = "acting" => Canon[job[w].target] \notin RefEntries

\* References are files.
LEMMA RefTypes ==
  ASSUME TypeInv
  PROVE  /\ RefEntries \subseteq Files /\ RefEntries \subseteq Entries
         /\ \A r \in user.references : Canon[r] \in RefEntries
<1>1. user.references \subseteq Paths
  BY GuiAssumption DEF GuiAssumption, TypeInv, WindowTyped
<1> QED BY <1>1, NameTypes DEF RefEntries

\* Of the careful user's moves only copies are left.
LEMMA CarefulDeeds ==
  ASSUME TypeInv, Careful, NEW w \in Workers, task[w].pc # "idle"
  PROVE  task[w].deed \in FileDeeds \union {"copy"}
<1>1. PICK a \in user.offered : task[w].deed = Deeds[a]
  BY DEF TypeInv, Chosen
<1>2. a \in (ForGroup \union ForAll \union ForRoots) \ {"archiveAll", "archiveRestore", "unsuperdeduper"}
  BY Doing DEF Careful
<1> QED BY <1>1, <1>2 DEF Deeds, ForGroup, ForAll, ForRoots, FileDeeds, Actions

\* No worker's step changes what a reference holds.
LEMMA ReferenceStays ==
  ASSUME TypeInv, Careful, Referenced, NEW w \in Workers, Worker(w), NEW r \in RefEntries
  PROVE  dir'[r] = dir[r]
<1>1. dir \in Dirs /\ r \in Entries /\ r \in Files
  BY RefTypes DEF TypeInv, DiskTyped
<1>2. CASE UNCHANGED dir
  BY <1>2
<1>3. CASE PerformAction(w)
  <2> DEFINE t == Target(w)
  <2>1. /\ Effect(w) /\ t \in Files /\ t # r
        /\ AsideOf[t] \in Entries /\ SafeNameOf[t] \in Entries /\ t \in Entries
    BY <1>3, ActingEffect, NameTypes DEF Referenced, Target
  <2>2. AsideOf[t] # r /\ (SafeNameOf[t] = r => SafeNameOf[t] = t)
    BY <2>1 DEF Careful
  <2> HIDE DEF t
  <2> QED BY <1>1, <2>1, <2>2 DEF Effect, Keeps, Takes, AddsSuffix, ClearsAside, PutsAside, Links,
                                  DropsAside, PutsBack, Renamed, Dirs, t
<1>4. CASE Copy(w) \/ CopyFails(w)
  <2>1. task[w].pc = "copy" /\ task[w].todo # <<>> /\ task[w].deed = "copy"
    BY <1>4, CarefulDeeds DEF Copy, CopyFails, At, TypeInv, Hands, Fits, MovePcs, FileDeeds, Actions, Moves
  <2>2. Dest(w) \in Entries /\ Dest(w) \notin Files
    BY <2>1, InHand, NameTypes DEF Dest
  <2>3. UNCHANGED dir \/ \E i : dir' = [dir EXCEPT ![Dest(w)] = i]
    BY <1>4 DEF Copy, CopyFails, CopyInto
  <2> QED BY <1>1, <2>2, <2>3 DEF Dirs
<1>5. CASE Move(w) \/ Unlink(w) \/ Cleanup(w)
  <2>1. task[w].pc \in {"move", "unlink", "cleanup"}
    BY <1>5 DEF Move, Unlink, Cleanup, At
  <2>2. task[w].deed \in Moves /\ task[w].deed # "copy" /\ task[w].pc # "idle"
    BY <2>1 DEF TypeInv, Hands, Fits, MovePcs
  <2> QED BY <2>2, CarefulDeeds DEF FileDeeds, Moves, Actions
<1> QED BY <1>2, <1>3, <1>4, <1>5
        DEF Worker, StartTask, NextItem, EnterRoot, EndLoop, Settle, Look, UnlinkFails, WriteManifest,
            LoadStore, SaveStore, ForgetRenamed, NothingToRecord, Finish, fvars, disk

\* A worker acts because it goes on with an action, or has just taken one up.
LEMMA TakesUp ==
  ASSUME TypeInv, NEW w \in Workers, Worker(w), task'[w].pc = "acting"
  PROVE  \/ PerformAction(w)
         \/ /\ task[w].pc = "next" /\ task[w].todo # <<>>
            /\ ~ RefusedByPath(First(w).target)
            /\ Begin(w, task[w].deed, First(w).target, First(w).keeper)
            /\ UNCHANGED <<disk, channel, table, store, manifests>>
            /\ To(w, "acting")
<1>1. task \in [Workers -> TaskSet] /\ task[w] \in TaskSet
  BY DEF TypeInv, TasksTyped
<1>2. /\ \A c \in Pcs : To(w, c) => task'[w].pc = c
      /\ NextOf(w) => task'[w].pc = "next"
      /\ task' = [task EXCEPT ![w] = NoTask] => task'[w].pc = "idle"
      /\ Moved(w) => task'[w].pc = "next"
  BY <1>1, NothingUnderWay DEF To, NextOf, Moved, TaskSet
<1>3. CASE NextItem(w)
  <2>1. /\ task[w].pc = "next" /\ task[w].todo # <<>>
        /\ UNCHANGED <<disk, channel, table, store, manifests>>
    BY <1>3 DEF NextItem, At, window, files
  <2>2. \/ NextOf(w)
        \/ /\ ~ RefusedByPath(First(w).target) /\ To(w, "acting")
           /\ Begin(w, task[w].deed, First(w).target, First(w).keeper)
        \/ To(w, "look")
    BY <1>3, <2>1, Doing DEF NextItem, FileDeeds, Moves, Actions
  <2> QED BY <1>2, <2>1, <2>2 DEF Pcs, MovePcs
<1>4. CASE StartTask(w) \/ EndLoop(w) \/ Look(w) \/ UnlinkFails(w) \/ WriteManifest(w)
           \/ SaveStore(w) \/ ForgetRenamed(w) \/ NothingToRecord(w)
  <2>1. \/ NextOf(w)
        \/ \E c \in {"next", "record", "move", "copy", "cleanup", "finish"} : To(w, c)
    BY <1>4 DEF StartTask, EndLoop, Look, UnlinkFails, WriteManifest, SaveStore, ForgetRenamed,
                NothingToRecord
  <2> QED BY <1>2, <2>1 DEF Pcs, MovePcs
<1>5. CASE Move(w) \/ Copy(w) \/ CopyFails(w) \/ Unlink(w) \/ Cleanup(w)
  <2>1. Moved(w) \/ NextOf(w) \/ To(w, "copy") \/ To(w, "unlink")
    BY <1>5 DEF Move, Copy, CopyFails, Unlink, Cleanup
  <2> QED BY <1>2, <2>1 DEF Pcs, MovePcs
<1>6. CASE LoadStore(w) \/ Settle(w) \/ Finish(w) \/ EnterRoot(w)
  <2>1. task'[w].pc \in {"saving", "next", "idle"}
    BY <1>1, <1>2, <1>6 DEF LoadStore, Settle, Finish, EnterRoot, At, TaskSet
  <2> QED BY <2>1
<1> QED BY <1>3, <1>4, <1>5, <1>6 DEF Worker

LEMMA ReferencedNext ==
  ASSUME TypeInv, Careful, Referenced, [Next]_vars
  PROVE  Careful' /\ Referenced'
<1>1. user' = user
  BY DEF Next, User, ClickRow, ClickAll, ClickRestore, Decline, Confirm, Promote, Stop, Drain, Crash, bounds, vars,
         Worker, StartTask, NextItem, EnterRoot, EndLoop, PerformAction, Settle, Look, Move, Copy, CopyFails,
         Unlink, UnlinkFails, Cleanup, WriteManifest, LoadStore, SaveStore, ForgetRenamed,
         NothingToRecord, Finish
<1>2. Careful' /\ RefEntries' = RefEntries
  BY <1>1 DEF Careful, RefEntries
<1>3. CASE \E w \in Workers : Worker(w)
  <2>1. PICK w \in Workers : Worker(w)
    BY <1>3
  <2>2. PICK t, j : Works(w, t, j)
    BY <2>1, WorkerShape
  <2>3. ASSUME NEW v \in Workers, task'[v].pc = "acting" PROVE Canon[job'[v].target] \notin RefEntries
    <3>1. CASE v # w
      BY <2>2, <2>3, <3>1, OthersKeep DEF Referenced
    <3>2. CASE v = w /\ PerformAction(w)
      <4>1. task[w].pc = "acting" /\ job'[w].target = job[w].target
        BY <3>2, ActingEffect DEF TypeInv, DiskTyped
      <4> QED BY <3>2, <4>1 DEF Referenced
    <3>3. CASE v = w /\ ~ PerformAction(w)
      <4>1. /\ ~ RefusedByPath(First(w).target)
            /\ Begin(w, task[w].deed, First(w).target, First(w).keeper)
        BY <2>1, <2>3, <3>3, TakesUp
      <4>2. job'[w].target = First(w).target
        BY <4>1 DEF Begin, TypeInv, DiskTyped
      <4> QED BY <3>3, <4>1, <4>2 DEF RefusedByPath, RefEntries
    <3> QED BY <3>1, <3>2, <3>3
  <2> QED BY <1>2, <2>3 DEF Referenced
<1>4. CASE \E w \in Workers : Confirm(w)
  <2>1. PICK w \in Workers : Confirm(w)
    BY <1>4
  <2>2. PICK t \in TaskSet : task' = [task EXCEPT ![w] = t] /\ t.pc = "start"
    BY <2>1, ConfirmShape
  <2>3. job' = job
    BY <2>1 DEF Confirm, fvars
  <2> QED BY <1>2, <2>2, <2>3 DEF Referenced, TypeInv, TasksTyped
<1>5. CASE User /\ \A w \in Workers : ~ Confirm(w)
  BY <1>2, <1>5, UserType DEF Referenced, fvars
<1>6. CASE Drain
  BY <1>2, <1>6 DEF Drain, Referenced, fvars
<1>7. CASE Crash
  BY <1>2, <1>7, NothingUnderWay DEF Crash, Referenced
<1>8. CASE UNCHANGED vars
  BY <1>2, <1>8 DEF vars, Referenced, fvars
<1> QED BY <1>2, <1>3, <1>4, <1>5, <1>6, <1>7, <1>8 DEF Next

\* "Reference paths are never touched", under whatever spelling the table lists them:
\* the guard of every file action resolves its target (gui/app.rs, dedupe.rs).
THEOREM ReferencesHold == Spec /\ Careful => ReferencesKept
<1> DEFINE Kept == \A r \in user.references : dir'[Canon[r]] = dir[Canon[r]]
<1>1. ASSUME TypeInv, Careful, Referenced, [Next]_vars PROVE Kept
  <2>1. CASE \E w \in Workers : Worker(w)
    BY <1>1, <2>1, ReferenceStays, RefTypes
  <2>2. CASE UNCHANGED dir
    BY <2>2
  <2> QED BY <1>1, <2>1, <2>2 DEF Next, User, ClickRow, ClickAll, ClickRestore, Decline, Confirm, Promote, Stop,
                                  Drain, Crash, vars, fvars, disk
<1>2. TypeInv /\ Careful /\ Referenced /\ [Next]_vars => [Kept]_vars
  BY <1>1
<1>3. TypeInv /\ Careful /\ Referenced /\ [Next]_vars => (Careful /\ Referenced)'
  BY ReferencedNext
<1>4. Init => Referenced
  BY NothingUnderWay DEF Init, Referenced
<1> HIDE DEF Kept
<1>5. Spec /\ Careful => [][Kept]_vars
  BY <1>2, <1>3, <1>4, Types, PTL DEF Spec
<1> QED BY <1>5 DEF ReferencesKept, Kept

-----------------------------------------------------------------------------
(* Moves are whole.                                                        *)

\* No two names for one file.
OneName == \A e, f \in Entries : Exists(e) /\ dir[e] = dir[f] => e = f

\* Renaming keeps files apart.
LEMMA RenameKeepsApart ==
  ASSUME dir \in Dirs, OneName, NEW e \in Entries, NEW f \in Entries, dir' = Renamed(dir, e, f)
  PROVE  OneName'
BY DEF OneName, Renamed, Dirs, Exists

\* So does taking a name away, or giving one to a new file.
LEMMA EditKeepsApart ==
  ASSUME dir \in Dirs, OneName, NEW e \in Entries, NEW i, dir' = [dir EXCEPT ![e] = i],
         i \in {None, dir[e]} \union FreshInodes
  PROVE  OneName'
<1>1. i # None /\ i # dir[e] => \A f \in Entries : dir[f] # i
  BY DEF FreshInodes, Reachable, Dirs
<1> QED BY <1>1 DEF OneName, Dirs, Exists

LEMMA OneNameNext ==
  ASSUME TypeInv, "hardlink" \notin user.offered, OneName, [Next]_vars
  PROVE  OneName'
<1>1. CASE \E w \in Workers : Worker(w)
  <2>1. PICK w \in Workers : Worker(w)
    BY <1>1
  <2>2. dir \in Dirs /\ task[w].deed # "hardlink"
    <3>1. PICK a \in user.offered : task[w].deed = Deeds[a]
      BY <2>1, WorkerShape DEF TypeInv, Chosen
    <3>2. a \in (ForGroup \union ForAll \union ForRoots) \ {"hardlink"}
      BY <2>1, WorkerShape, Doing
    <3> QED BY <3>1, <3>2 DEF TypeInv, DiskTyped, Deeds, ForGroup, ForAll, ForRoots
  <2>3. CASE UNCHANGED dir
    BY <2>3 DEF OneName, Exists
  <2>4. CASE PerformAction(w)
    <3>1. /\ Effect(w) /\ job[w].action # "hardlink"
          /\ Target(w) \in Entries /\ SafeNameOf[Target(w)] \in Entries
      BY <2>2, <2>4, ActingEffect, NameTypes
    <3>2. \/ UNCHANGED dir
          \/ dir' = [dir EXCEPT ![Target(w)] = None]
          \/ dir' = Renamed(dir, Target(w), SafeNameOf[Target(w)])
      BY <3>1 DEF Effect, Keeps, Takes, AddsSuffix, ClearsAside, PutsAside, Links, DropsAside, PutsBack
    <3> QED BY <2>2, <2>3, <3>1, <3>2, RenameKeepsApart, EditKeepsApart
  <2>5. CASE Move(w) \/ Copy(w) \/ CopyFails(w) \/ Unlink(w) \/ Cleanup(w)
    <3>1. task[w].todo # <<>>
      BY <2>5 DEF Move, Copy, CopyFails, Unlink, Cleanup, At, TypeInv, Hands, Fits, MovePcs
    <3>2. From(w) \in Entries /\ Dest(w) \in Entries
      BY <3>1, InHand
    <3>3. \/ UNCHANGED dir
          \/ dir' = Renamed(dir, From(w), Dest(w))
          \/ \E i \in {None, dir[Dest(w)]} \union FreshInodes : dir' = [dir EXCEPT ![Dest(w)] = i]
          \/ dir' = [dir EXCEPT ![From(w)] = None]
      <4>1. ASSUME NEW c, CopyInto(Dest(w), c)
            PROVE  \E i \in {None, dir[Dest(w)]} \union FreshInodes : dir' = [dir EXCEPT ![Dest(w)] = i]
        BY <4>1 DEF CopyInto
      <4> QED BY <2>5, <4>1 DEF Move, Copy, CopyFails, Unlink, Cleanup
    <3> QED BY <2>2, <2>3, <3>2, <3>3, RenameKeepsApart, EditKeepsApart
  <2> QED BY <2>1, <2>3, <2>4, <2>5
          DEF Worker, StartTask, NextItem, EnterRoot, EndLoop, Settle, Look, UnlinkFails, WriteManifest,
              LoadStore, SaveStore, ForgetRenamed, NothingToRecord, Finish, fvars, disk
<1>2. CASE UNCHANGED dir
  BY <1>2 DEF OneName, Exists
<1> QED BY <1>1, <1>2 DEF Next, User, ClickRow, ClickAll, ClickRestore, Decline, Confirm, Promote, Stop, Drain,
                          Crash, vars, fvars, disk

LEMMA OneNameInit == Init => OneName
<1> SUFFICES ASSUME Init PROVE OneName
  OBVIOUS
<1> DEFINE link == CHOOSE l \in [Scanned -> Inodes] : IsInjective(l)
<1>1. \E l \in [Scanned -> Inodes] : IsInjective(l)
  BY GuiAssumption DEF GuiAssumption, Init, Scanned
<1>2. link \in [Scanned -> Inodes] /\ IsInjective(link)
  BY <1>1
<1>3. dir = [e \in Entries |-> IF e \in Scanned THEN link[e] ELSE None]
  BY DEF Init
<1> HIDE DEF link
<1> QED BY <1>2, <1>3 DEF OneName, Exists, IsInjective

\* The user never changes.
LEMMA SameUser ==
  ASSUME [Next]_vars
  PROVE  user' = user
BY DEF Next, User, ClickRow, ClickAll, ClickRestore, Decline, Confirm, Promote, Stop, Drain, Crash, bounds, vars,
       Worker, StartTask, NextItem, EnterRoot, EndLoop, PerformAction, Settle, Look, Move, Copy, CopyFails,
       Unlink, UnlinkFails, Cleanup, WriteManifest, LoadStore, SaveStore, ForgetRenamed,
       NothingToRecord, Finish

\* Copies do not break off, what is removed is gone, and no two scanned names become one
\* file, or the archive is not reached by renaming.
Whole ==
  /\ ~ user.copiesFail /\ ~ FlakyCleanup
  /\ user.otherVolume \/ "hardlink" \notin user.offered

\* A list that loses its head is shorter, and one that does not is not.
LEMMA NotShorter ==
  ASSUME TypeInv, NEW w \in Workers, NEW q, q.todo = task[w].todo
  PROVE  ~ (Len(q.todo) < Len(task[w].todo))
<1>1. Len(task[w].todo) \in Nat
  BY DEF TypeInv, TasksTyped, TaskSet
<1> QED BY <1>1

\* When the archive is done with a file, it is not at both places.
LEMMA ArchivedWhole ==
  ASSUME TypeInv, Whole, "hardlink" \notin user.offered => OneName,
         NEW w \in Workers, Worker(w), task[w].deed = "archive", task'[w].deed = "archive",
         Len(task'[w].todo) < Len(task[w].todo)
  PROVE  dir'[Canon[First(w).target]] = None \/ dir'[ArchivedAs[First(w).target]] = None
<1>1. /\ dir \in Dirs /\ task \in [Workers -> TaskSet] /\ task[w] \in TaskSet
  BY DEF TypeInv, DiskTyped, TasksTyped
<1> DEFINE p == First(w).target
<1>2. ASSUME task[w].todo # <<>>
      PROVE  /\ From(w) = Canon[p] /\ Dest(w) = ArchivedAs[p]
             /\ Canon[p] \in Entries /\ ArchivedAs[p] \in Entries /\ Canon[p] # ArchivedAs[p]
  BY <1>2, InHand, NameTypes DEF From, Dest
<1>3. CASE task'[w].todo = task[w].todo
  BY <1>3, NotShorter
<1>4. ASSUME NEW c, To(w, c) PROVE FALSE
  BY <1>1, <1>3, <1>4 DEF To, TaskSet
<1>5. CASE StartTask(w) \/ EndLoop(w) \/ WriteManifest(w) \/ SaveStore(w) \/ ForgetRenamed(w)
           \/ NothingToRecord(w)
  BY <1>4, <1>5 DEF StartTask, EndLoop, WriteManifest, SaveStore, ForgetRenamed, NothingToRecord
<1>6. CASE NextItem(w) \/ EnterRoot(w)
  <2>1. ~ EnterRoot(w)
    BY EnterShape
  <2> QED BY <1>4, <1>6, <2>1 DEF NextItem, Actions
<1>7. CASE PerformAction(w) \/ Settle(w)
  <2>1. task[w].pc = "acting"
    BY <1>7 DEF PerformAction, Settle, At
  <2> QED BY <2>1 DEF TypeInv, Hands, Fits, FileDeeds, Actions
<1>8. CASE Look(w) \/ UnlinkFails(w)
  BY <1>4, <1>8 DEF Look, UnlinkFails
<1>9. CASE LoadStore(w)
  BY <1>1, <1>3, <1>9 DEF LoadStore, TaskSet
<1>10. CASE Finish(w)
  BY <1>1, <1>10, NothingUnderWay DEF Finish
<1>11. CASE Move(w) \/ Copy(w) \/ CopyFails(w) \/ Unlink(w) \/ Cleanup(w)
  <2>1. task[w].todo # <<>>
    BY <1>11 DEF Move, Copy, CopyFails, Unlink, Cleanup, At, TypeInv, Hands, Fits, MovePcs
  <2>2. /\ From(w) = Canon[p] /\ Dest(w) = ArchivedAs[p]
        /\ Canon[p] \in Entries /\ ArchivedAs[p] \in Entries /\ Canon[p] # ArchivedAs[p]
    BY <1>2, <2>1
  <2> HIDE DEF p
  <2>3. CASE Move(w)
    <3>1. Exists(From(w)) /\ ~ user.otherVolume /\ dir' = Renamed(dir, From(w), Dest(w))
      BY <1>4, <2>3 DEF Move
    <3>2. dir[Canon[p]] # dir[ArchivedAs[p]]
      BY <2>2, <3>1 DEF Whole, OneName
    <3>3. dir' = [dir EXCEPT ![Dest(w)] = dir[From(w)], ![From(w)] = None]
      BY <2>2, <3>1, <3>2 DEF Renamed
    <3>4. dir'[Canon[p]] = None
      BY <1>1, <2>2, <3>3 DEF Dirs
    <3> QED BY <3>4 DEF p
  <2>4. CASE Copy(w)
    BY <1>4, <2>4 DEF Copy
  <2>5. CASE CopyFails(w)
    <3>1. dir' = dir /\ dir[Canon[p]] = None
      BY <2>2, <2>5 DEF CopyFails, Whole, Exists
    <3> QED BY <3>1 DEF p
  <2>6. CASE Unlink(w)
    <3>1. dir'[Canon[p]] = None
      BY <1>1, <2>2, <2>6 DEF Unlink, Dirs
    <3> QED BY <3>1 DEF p
  <2>7. CASE Cleanup(w)
    <3>1. dir'[ArchivedAs[p]] = None
      BY <1>1, <2>2, <2>7 DEF Cleanup, Whole, Dirs
    <3> QED BY <3>1 DEF p
  <2> QED BY <1>11, <2>3, <2>4, <2>5, <2>6, <2>7
<1> QED BY <1>5, <1>6, <1>7, <1>8, <1>9, <1>10, <1>11 DEF Worker

\* "Either both halves happen or neither does": whatever fails to be removed and whoever
\* else is at work, a file that the archive is done with is not at both places
\* (archive_one and move_file_with_fallback, gui/app.rs).
THEOREM MovesAreWhole == Spec /\ Whole => MovedOrNot
<1> DEFINE Either == \A w \in Workers :
       task[w].deed = "archive" /\ task'[w].deed = "archive" /\ Len(task'[w].todo) < Len(task[w].todo)
         => LET p == First(w).target IN dir'[Canon[p]] = None \/ dir'[ArchivedAs[p]] = None
           Inv == Whole /\ ("hardlink" \notin user.offered => OneName)
<1>1. ASSUME TypeInv, Inv, [Next]_vars PROVE Either
  <2> SUFFICES ASSUME NEW w \in Workers, task[w].deed = "archive", task'[w].deed = "archive",
                      Len(task'[w].todo) < Len(task[w].todo)
               PROVE  dir'[Canon[First(w).target]] = None \/ dir'[ArchivedAs[First(w).target]] = None
    OBVIOUS
  <2>1. task'[w].todo # task[w].todo
    BY NotShorter, <1>1
  <2>2. CASE \E v \in Workers : Worker(v)
    <3>1. PICK v \in Workers : Worker(v)
      BY <2>2
    <3>2. CASE v # w
      <4>1. \E t, j : Works(v, t, j)
        BY <1>1, <3>1, WorkerShape
      <4> QED BY <1>1, <2>1, <3>2, <4>1, OthersKeep
    <3>3. CASE v = w
      BY <1>1, <3>1, <3>3, ArchivedWhole
    <3> QED BY <3>2, <3>3
  <2>3. CASE \E v \in Workers : Confirm(v)
    <3>1. PICK v \in Workers : Confirm(v)
      BY <2>3
    <3>2. PICK t \in TaskSet : task' = [task EXCEPT ![v] = t] /\ task[v] = NoTask
      BY <1>1, <3>1, ConfirmShape
    <3> QED BY <1>1, <2>1, <3>2, NothingUnderWay DEF TypeInv, TasksTyped
  <2>4. CASE User /\ \A v \in Workers : ~ Confirm(v)
    BY <1>1, <2>1, <2>4, UserType
  <2>5. CASE Drain
    BY <2>1, <2>5 DEF Drain
  <2>6. CASE Crash
    BY <2>6, NothingUnderWay DEF Crash
  <2>7. CASE UNCHANGED vars
    BY <2>1, <2>7 DEF vars
  <2> QED BY <1>1, <2>2, <2>3, <2>4, <2>5, <2>6, <2>7 DEF Next
<1>2. TypeInv /\ Inv /\ [Next]_vars => [Either]_vars
  BY <1>1
<1>3. TypeInv /\ Inv /\ [Next]_vars => Inv'
  BY OneNameNext, SameUser DEF Whole
<1>4. Init /\ Whole => Inv
  BY OneNameInit
<1> HIDE DEF Either, Inv
<1>5. Spec /\ Whole => [][Either]_vars
  BY <1>2, <1>3, <1>4, Types, PTL DEF Spec
<1> QED BY <1>5 DEF MovedOrNot, Either

-----------------------------------------------------------------------------
(* What is in the archive is listed.                                       *)

\* A manifests, or a worker that will write one, accounts for an archived name.
Accounts(t, e) ==
  /\ t.deed \in {"archive", "copy"}
  /\ \/ t.pc \notin {"idle", "finish"} /\ \E m \in t.moved : m[2] = e
     \/ t.pc \in {"unlink", "cleanup"} /\ ArchivedAs[Head(t.todo).target] = e

\* A manifest names it.
Listed(ms, e) == \E k \in DOMAIN ms : \E m \in ms[k] : m[2] = e

Logged == \A p \in Paths : Exists(ArchivedAs[p]) =>
            \/ Listed(manifests, ArchivedAs[p])
            \/ \E w \in Workers : Accounts(task[w], ArchivedAs[p])

\* Neither copies, nor manifests, nor clean-ups fail, the process is not killed, no two
\* runs end in one second, and the archive's names are not those an action builds beside
\* a file.
Archived ==
  /\ ~ user.copiesFail /\ ~ user.sameSecond /\ ~ user.crash /\ ~ FlakyCleanup
  /\ \A p \in Paths, f \in Files : ArchivedAs[p] \notin {AsideOf[f], SafeNameOf[f]}

\* A step that goes on with what the task remembers accounts for it still.
LEMMA AccountKept ==
  ASSUME NEW t, NEW u, NEW e, Accounts(t, e), u.deed = t.deed, t.moved \subseteq u.moved,
         u.pc \notin {"idle", "finish"}, t.pc \notin {"unlink", "cleanup"}
  PROVE  Accounts(u, e)
BY DEF Accounts

\* What a worker accounts for it goes on accounting for, or writes down, or takes away.
LEMMA StillAccounted ==
  ASSUME TypeInv, Archived, NEW w \in Workers, Worker(w), NEW p \in Paths,
         Accounts(task[w], ArchivedAs[p]), Exists(ArchivedAs[p])'
  PROVE  \/ Listed(manifests', ArchivedAs[p])
         \/ Accounts(task'[w], ArchivedAs[p])
<1> DEFINE e == ArchivedAs[p]
           u == task[w]
<1>1. /\ task \in [Workers -> TaskSet] /\ u \in TaskSet /\ Fits(u, job[w])
      /\ u.deed \in {"archive", "copy"} /\ u.pc \notin {"idle", "finish"}
  BY DEF TypeInv, TasksTyped, Hands, Accounts
<1>2. ASSUME NEW c \in {"next", "record", "look", "move", "copy", "unlink"}, To(w, c),
             u.pc \notin {"unlink", "cleanup"}
      PROVE  Accounts(task'[w], e)
  <2>1. /\ task'[w].deed = u.deed /\ task'[w].moved = u.moved /\ task'[w].pc = c
    BY <1>1, <1>2 DEF To, TaskSet
  <2> QED BY <1>2, <2>1, AccountKept
<1>3. ASSUME NextOf(w), u.pc \notin {"unlink", "cleanup"} PROVE Accounts(task'[w], e)
  <2>1. /\ task'[w].deed = u.deed /\ task'[w].moved = u.moved /\ task'[w].pc = "next"
    BY <1>1, <1>3 DEF NextOf, TaskSet
  <2> QED BY <1>3, <2>1, AccountKept
<1>4. ASSUME Moved(w), u.pc \in MovePcs, UNCHANGED <<job, stopped>> PROVE Accounts(task'[w], e)
  <2>1. u.todo # <<>>
    BY <1>1, <1>4 DEF Fits
  <2>2. PICK t : /\ Works(w, t, NoJob) /\ t.pc = "next"
                 /\ t.moved = u.moved \union {<<First(w).target, Dest(w)>>}
    BY <1>1, <1>4, <2>1, MovedOn
  <2>3. task'[w] = t /\ t.deed = u.deed
    <3>1. task'[w] = t
      BY <2>2, OthersKeep
    <3> QED BY <2>2, <3>1, NothingUnderWay DEF Works
  <2>4. Dest(w) = ArchivedAs[Head(u.todo).target]
    BY <1>1 DEF Dest, First
  <2>5. \E m \in t.moved : m[2] = e
    <3>1. CASE \E m \in u.moved : m[2] = e
      BY <2>2, <3>1
    <3>2. CASE Dest(w) = e
      <4>1. <<First(w).target, Dest(w)>>[2] = e
        BY <3>2
      <4> QED BY <2>2, <4>1
    <3> QED BY <2>4, <3>1, <3>2 DEF Accounts
  <2> QED BY <1>1, <2>2, <2>3, <2>5 DEF Accounts
<1>5. CASE StartTask(w) \/ EndLoop(w) \/ EnterRoot(w) \/ NextItem(w) \/ Look(w)
  <2>e. ~ EnterRoot(w)
    BY <1>1, EnterShape
  <2>1. u.pc \notin {"unlink", "cleanup"}
    BY <1>5, <2>e DEF StartTask, EndLoop, NextItem, Look, At
  <2>2. \/ \E c \in {"next", "record", "look", "move", "copy"} : To(w, c)
        \/ NextOf(w)
    BY <1>1, <1>5, <2>e DEF StartTask, EndLoop, NextItem, Look, Actions
  <2> QED BY <1>2, <1>3, <2>1, <2>2
<1>6. CASE PerformAction(w) \/ Settle(w)
  BY <1>1, <1>6 DEF PerformAction, Settle, At, Fits, FileDeeds, Actions
<1>7. CASE Move(w) \/ Copy(w)
  <2>1. u.pc \in {"move", "copy"} /\ UNCHANGED <<job, stopped>>
    BY <1>7 DEF Move, Copy, At
  <2>2. Moved(w) \/ To(w, "copy") \/ To(w, "unlink")
    BY <1>1, <1>7 DEF Move, Copy
  <2> QED BY <1>2, <1>4, <2>1, <2>2 DEF MovePcs
<1>8. CASE CopyFails(w)
  BY <1>3, <1>8 DEF CopyFails, At
<1>9. CASE Unlink(w)
  BY <1>4, <1>9 DEF Unlink, At, MovePcs
<1>10. CASE UnlinkFails(w)
  <2>1. u.deed = "archive" /\ u.pc = "unlink" /\ To(w, "cleanup")
    BY <1>1, <1>10 DEF UnlinkFails, At, Fits
  <2>2. /\ task'[w].deed = u.deed /\ task'[w].moved = u.moved /\ task'[w].pc = "cleanup"
        /\ task'[w].todo = u.todo
    BY <1>1, <2>1 DEF To, TaskSet
  <2> QED BY <2>1, <2>2 DEF Accounts
<1>11. CASE Cleanup(w)
  <2>1. /\ u.pc = "cleanup" /\ u.deed = "archive" /\ NextOf(w)
        /\ dir' = [dir EXCEPT ![Dest(w)] = None]
    BY <1>1, <1>11 DEF Cleanup, At, Fits, Archived
  <2>2. Dest(w) = ArchivedAs[Head(u.todo).target]
    BY <2>1 DEF Dest, First
  <2>3. e \in Entries /\ dir \in Dirs
    BY NameTypes DEF TypeInv, DiskTyped
  <2>4. e # Dest(w)
    BY <2>1, <2>3 DEF Exists, Dirs
  <2>5. \E m \in u.moved : m[2] = e
    BY <2>2, <2>4 DEF Accounts
  <2>6. task'[w].deed = u.deed /\ task'[w].moved = u.moved /\ task'[w].pc = "next"
    BY <1>1, <2>1 DEF NextOf, TaskSet
  <2> QED BY <1>1, <2>5, <2>6 DEF Accounts
<1>12. CASE WriteManifest(w)
  <2>1. u.pc = "record" /\ manifests' = Append(manifests, u.moved)
    BY <1>12 DEF WriteManifest, At, Archived
  <2>2. Len(manifests) + 1 \in DOMAIN manifests' /\ manifests'[Len(manifests) + 1] = u.moved
    BY <2>1 DEF TypeInv, TasksTyped
  <2> QED BY <2>1, <2>2 DEF Accounts, Listed
<1>13. CASE LoadStore(w) \/ SaveStore(w) \/ ForgetRenamed(w) \/ NothingToRecord(w) \/ Finish(w)
  BY <1>1, <1>13 DEF LoadStore, SaveStore, ForgetRenamed, NothingToRecord, Finish, At, Fits
<1> QED BY <1>5, <1>6, <1>7, <1>8, <1>9, <1>10, <1>11, <1>12, <1>13 DEF Worker

\* The item that was moved or copied well is remembered.
LEMMA MovedAccounts ==
  ASSUME TypeInv, NEW w \in Workers, task[w].pc \in MovePcs, task[w].deed \in {"archive", "copy"},
         Moved(w), UNCHANGED <<job, stopped>>
  PROVE  Accounts(task'[w], Dest(w))
<1>1. task[w].todo # <<>>
  BY DEF TypeInv, Hands, Fits
<1>2. PICK t : /\ Works(w, t, NoJob) /\ t.pc = "next"
               /\ t.moved = task[w].moved \union {<<First(w).target, Dest(w)>>}
  BY <1>1, MovedOn
<1>3. task'[w] = t /\ t.deed = task[w].deed
  <2>1. task'[w] = t
    BY <1>2, OthersKeep
  <2> QED BY <1>2, <2>1, NothingUnderWay DEF Works
<1>4. <<First(w).target, Dest(w)>> \in t.moved /\ <<First(w).target, Dest(w)>>[2] = Dest(w)
  BY <1>2
<1> QED BY <1>2, <1>3, <1>4 DEF Accounts

\* Only the archive puts files in the archive, and it accounts for them.
LEMMA NewlyAccounted ==
  ASSUME TypeInv, Archived, NEW w \in Workers, Worker(w), NEW p \in Paths,
         ~ Exists(ArchivedAs[p]), Exists(ArchivedAs[p])'
  PROVE  Accounts(task'[w], ArchivedAs[p])
<1> DEFINE e == ArchivedAs[p]
<1>1. /\ dir \in Dirs /\ e \in Entries /\ e \notin Files /\ dir[e] = None /\ dir'[e] # None
  BY NameTypes DEF TypeInv, DiskTyped, Exists
<1>2. CASE UNCHANGED dir
  BY <1>1, <1>2
<1>3. CASE PerformAction(w)
  <2> DEFINE t == Target(w)
  <2>1. /\ Effect(w) /\ t \in Files /\ t \in Entries /\ t # e
        /\ AsideOf[t] \in Entries /\ SafeNameOf[t] \in Entries
    BY <1>1, <1>3, ActingEffect, NameTypes
  <2>2. e # AsideOf[t] /\ e # SafeNameOf[t]
    BY <2>1 DEF Archived
  <2> HIDE DEF e, t
  <2> QED BY <1>1, <2>1, <2>2 DEF Effect, Keeps, Takes, AddsSuffix, ClearsAside, PutsAside, Links,
                                  DropsAside, PutsBack, Renamed, Dirs, t
<1>4. CASE Move(w) \/ Copy(w) \/ CopyFails(w) \/ Unlink(w) \/ Cleanup(w)
  <2>1. task[w].todo # <<>> /\ task[w].pc \in MovePcs /\ UNCHANGED <<job, stopped>>
    BY <1>4 DEF Move, Copy, CopyFails, Unlink, Cleanup, At, TypeInv, Hands, Fits, MovePcs
  <2>2. From(w) \in Entries /\ Dest(w) \in Entries /\ task[w].deed \in Moves
    BY <2>1, InHand DEF TypeInv, Hands, Fits
  <2>3. /\ Move(w) \/ Copy(w)
        /\ e = Dest(w)
    <3>1. CASE Move(w)
      <4>1. UNCHANGED dir \/ dir' = Renamed(dir, From(w), Dest(w))
        BY <3>1 DEF Move
      <4> HIDE DEF e
      <4> QED BY <1>1, <2>2, <3>1, <4>1 DEF Renamed, Dirs
    <3>2. CASE Copy(w)
      <4>1. \E i : dir' = [dir EXCEPT ![Dest(w)] = i]
        BY <3>2 DEF Copy, CopyInto
      <4> HIDE DEF e
      <4> QED BY <1>1, <2>2, <3>2, <4>1 DEF Dirs
    <3>3. CASE CopyFails(w)
      BY <1>1, <3>3 DEF CopyFails, Archived
    <3>4. CASE Unlink(w) \/ Cleanup(w)
      <4>1. \/ UNCHANGED dir \/ dir' = [dir EXCEPT ![From(w)] = None]
            \/ dir' = [dir EXCEPT ![Dest(w)] = None]
        BY <3>4 DEF Unlink, Cleanup
      <4> HIDE DEF e
      <4> QED BY <1>1, <2>2, <4>1 DEF Dirs
    <3> QED BY <1>4, <3>1, <3>2, <3>3, <3>4
  <2>4. First(w).target \in Paths /\ task[w].deed \in {"archive", "copy"}
        /\ Dest(w) = ArchivedAs[First(w).target]
    <3>1. First(w).target \in Paths
      BY <2>1, InHand
    <3> QED BY <1>1, <2>3, <3>1, NameTypes DEF Dest
  <2>5. CASE Moved(w)
    BY <2>1, <2>3, <2>4, <2>5, MovedAccounts
  <2>6. CASE ~ Moved(w)
    <3>1. Copy(w) /\ To(w, "unlink")
      <4>1. Move(w) => UNCHANGED dir
        BY <2>6 DEF Move
      <4> QED BY <1>2, <1>1, <2>3, <2>6, <4>1 DEF Copy
    <3>2. /\ task'[w].pc = "unlink" /\ task'[w].deed = task[w].deed
          /\ task'[w].todo = task[w].todo
      BY <3>1 DEF To, TypeInv, TasksTyped, TaskSet
    <3> QED BY <2>3, <2>4, <3>2 DEF Accounts, First
  <2> QED BY <2>5, <2>6
<1> QED BY <1>2, <1>3, <1>4
        DEF Worker, StartTask, NextItem, EnterRoot, EndLoop, Settle, Look, UnlinkFails, WriteManifest,
            LoadStore, SaveStore, ForgetRenamed, NothingToRecord, Finish, fvars, disk

LEMMA LoggedNext ==
  ASSUME TypeInv, Archived, Logged, [Next]_vars
  PROVE  Logged'
<1> SUFFICES ASSUME NEW p \in Paths, Exists(ArchivedAs[p])'
             PROVE  \/ Listed(manifests', ArchivedAs[p])
                    \/ \E w \in Workers : Accounts(task'[w], ArchivedAs[p])
  BY DEF Logged, Accounts
<1> DEFINE e == ArchivedAs[p]
<1>1. Exists(e) => \/ Listed(manifests, e)
                   \/ \E w \in Workers : Accounts(task[w], e)
  BY DEF Logged
<1>2. CASE \E w \in Workers : Worker(w)
  <2>1. PICK w \in Workers : Worker(w)
    BY <1>2
  <2>2. \A v \in Workers : v # w => task'[v] = task[v]
    <3>1. \E t, j : Works(w, t, j)
      BY <2>1, WorkerShape
    <3> QED BY <3>1, OthersKeep
  <2>3. Listed(manifests, e) => Listed(manifests', e)
    <3>1. \/ manifests' = manifests
          \/ \E x \in Workers : manifests' = Append(manifests, task[x].moved)
      BY <2>1 DEF Archived, Worker, StartTask, NextItem, EnterRoot, EndLoop, PerformAction, Settle,
         Look, Move, Copy, CopyFails, Unlink, UnlinkFails, Cleanup, WriteManifest, LoadStore,
         SaveStore, ForgetRenamed, NothingToRecord, Finish, files
    <3>2. ASSUME NEW m, manifests' = Append(manifests, m)
          PROVE  \A k \in DOMAIN manifests : k \in DOMAIN manifests' /\ manifests'[k] = manifests[k]
      BY <3>2 DEF TypeInv, TasksTyped
    <3> QED BY <3>1, <3>2 DEF Listed
  <2>4. CASE ~ Exists(e)
    BY <2>1, <2>4, NewlyAccounted
  <2>5. CASE Listed(manifests, e)
    BY <2>3, <2>5
  <2>6. CASE Exists(e) /\ \E v \in Workers : Accounts(task[v], e)
    <3>1. PICK v \in Workers : Accounts(task[v], e)
      BY <2>6
    <3>2. CASE v = w
      BY <2>1, <3>1, <3>2, StillAccounted
    <3>3. CASE v # w
      BY <2>2, <3>1, <3>3
    <3> QED BY <3>2, <3>3
  <2> QED BY <1>1, <2>4, <2>5, <2>6
<1>3. CASE \E w \in Workers : Confirm(w)
  <2>1. PICK w \in Workers : Confirm(w)
    BY <1>3
  <2>2. PICK t \in TaskSet : task' = [task EXCEPT ![w] = t] /\ task[w] = NoTask
    BY <2>1, ConfirmShape
  <2>3. UNCHANGED <<dir, manifests>>
    BY <2>1 DEF Confirm, fvars, files
  <2>4. \A v \in Workers : Accounts(task[v], e) => task'[v] = task[v]
    BY <2>2, NothingUnderWay DEF Accounts, TypeInv, TasksTyped
  <2> QED BY <1>1, <2>3, <2>4 DEF Exists
<1>4. CASE User /\ \A w \in Workers : ~ Confirm(w)
  BY <1>1, <1>4, UserType DEF fvars, files, Exists
<1>5. CASE Drain
  BY <1>1, <1>5 DEF Drain, fvars, files, Exists
<1>6. CASE Crash
  BY <1>6 DEF Crash, Archived
<1>7. CASE UNCHANGED vars
  BY <1>1, <1>7 DEF vars, fvars, files, Exists
<1> QED BY <1>2, <1>3, <1>4, <1>5, <1>6, <1>7 DEF Next

\* "A manifest JSON is written so the move can be restored later": as long as no archive
\* run is going, no file is in the archive that no manifest names, whatever was stopped,
\* refused or brought back in between (archive.rs, gui/app.rs).
THEOREM ArchiveIsListed == Spec /\ Archived => []ArchivedIsListed
<1>1. Init => Logged
  <2> SUFFICES ASSUME Init, NEW p \in Paths PROVE ~ Exists(ArchivedAs[p])
    BY DEF Logged
  <2>1. ArchivedAs[p] \in Entries /\ ArchivedAs[p] \notin Scanned
    BY NameTypes, GuiAssumption DEF GuiAssumption, Init, Scanned
  <2> QED BY <2>1 DEF Init, Exists
<1>2. TypeInv /\ Archived /\ Logged /\ [Next]_vars => (Archived /\ Logged)'
  BY LoggedNext, SameUser DEF Archived
<1>3. Logged => ArchivedIsListed
  BY DEF Logged, Listed, ArchivedIsListed, Archiving, Running, Accounts
<1> QED BY <1>1, <1>2, <1>3, Types, PTL DEF Spec

-----------------------------------------------------------------------------
(* Safe renames are undone.                                                *)

\* A file that is left under its suffixed name alone is still to be seen to.
LeftIn(d, f) == d[SafeNameOf[f]] # None /\ d[f] = None

Rooted == UNION Range(user.roots)

Awaits(t, f) == (\E it \in Range(t.todo) : it.target = f) \/ f \in UNION Range(t.roots)

StillToDo(t) == \A f \in Rooted : LeftIn(dir, f) => Awaits(t, f)

UndoInv == \A w \in Workers : task[w].pc # "idle" /\ task[w].deed = "unsuffix" => StillToDo(task[w])

\* An undoing looks and moves, and does nothing else to files.
LEMMA UndoSteps ==
  ASSUME TypeInv, NEW w \in Workers, Worker(w), task[w].deed = "unsuffix"
  PROVE  \/ UNCHANGED dir /\ task'[w].todo = task[w].todo /\ task'[w].roots = task[w].roots
         \/ task'[w].pc = "idle"
         \/ EnterRoot(w)
         \/ Look(w) /\ NextOf(w) /\ UNCHANGED dir
         \/ Move(w)
<1>1. /\ task \in [Workers -> TaskSet] /\ task[w] \in TaskSet /\ Fits(task[w], job[w])
  BY DEF TypeInv, TasksTyped, Hands
<1>2. ASSUME NEW c, To(w, c)
      PROVE  task'[w].todo = task[w].todo /\ task'[w].roots = task[w].roots
  BY <1>1, <1>2 DEF To, TaskSet
<1>3. CASE StartTask(w) \/ EndLoop(w) \/ WriteManifest(w) \/ SaveStore(w) \/ ForgetRenamed(w)
           \/ NothingToRecord(w) \/ UnlinkFails(w)
  <2>1. UNCHANGED dir
    BY <1>3 DEF StartTask, EndLoop, WriteManifest, SaveStore, ForgetRenamed, NothingToRecord,
                UnlinkFails, fvars
  <2>2. \E c \in {"next", "record", "finish"} : To(w, c)
    BY <1>1, <1>3 DEF StartTask, EndLoop, WriteManifest, SaveStore, ForgetRenamed, NothingToRecord,
                      UnlinkFails, At, Fits
  <2> QED BY <1>2, <2>1, <2>2
<1>4. CASE NextItem(w)
  BY <1>2, <1>4 DEF NextItem, Actions, disk
<1>5. CASE PerformAction(w) \/ Settle(w) \/ Copy(w) \/ CopyFails(w) \/ Unlink(w) \/ Cleanup(w)
  BY <1>1, <1>5 DEF PerformAction, Settle, Copy, CopyFails, Unlink, Cleanup, At, Fits, FileDeeds, Actions
<1>6. CASE LoadStore(w)
  BY <1>1, <1>6 DEF LoadStore, TaskSet, fvars
<1>7. CASE Finish(w)
  BY <1>1, <1>7, NothingUnderWay DEF Finish
<1>8. CASE Look(w)
  BY <1>2, <1>8 DEF Look, fvars
<1>9. CASE Move(w) \/ EnterRoot(w)
  BY <1>9
<1> QED BY <1>3, <1>4, <1>5, <1>6, <1>7, <1>8, <1>9 DEF Worker

LEMMA RootedFiles ==
  ASSUME TypeInv
  PROVE  Rooted \subseteq Files
<1>1. user.roots \in Seq(SUBSET Files)
  BY GuiAssumption DEF GuiAssumption, TypeInv, WindowTyped
<1> QED BY <1>1 DEF Rooted, Range

\* Of the listed files the first may be left out once it is where it belongs, or was not
\* to be found.
LEMMA FirstSeenTo ==
  ASSUME TypeInv, NEW w \in Workers, task[w].todo # <<>>, StillToDo(task[w]), NEW t,
         t.todo = Tail(task[w].todo), t.roots = task[w].roots,
         ~ LeftIn(dir', First(w).target),
         \A f \in Rooted : LeftIn(dir', f) => f = First(w).target \/ LeftIn(dir, f)
  PROVE  \A f \in Rooted : LeftIn(dir', f) => Awaits(t, f)
<1>1. task[w].todo \in Seq(ItemSet)
  BY DEF TypeInv, TasksTyped, TaskSet
<1> SUFFICES ASSUME NEW f \in Rooted, LeftIn(dir', f), f \notin UNION Range(t.roots)
             PROVE  \E it \in Range(t.todo) : it.target = f
  BY DEF Awaits
<1>2. f # First(w).target /\ LeftIn(dir, f)
  OBVIOUS
<1>3. PICK it \in Range(task[w].todo) : it.target = f
  BY <1>2 DEF StillToDo, Awaits
<1>4. it # First(w)
  BY <1>2, <1>3
<1> QED BY <1>1, <1>3, <1>4, FirstAndRest DEF First

LEMMA UndoStep ==
  ASSUME TypeInv, NEW w \in Workers, Worker(w), task[w].deed = "unsuffix", StillToDo(task[w]),
         task'[w].pc # "idle"
  PROVE  StillToDo(task[w])'
<1>1. /\ task \in [Workers -> TaskSet] /\ task[w] \in TaskSet /\ Fits(task[w], job[w]) /\ dir \in Dirs
  BY DEF TypeInv, TasksTyped, Hands, DiskTyped
<1> DEFINE p == First(w).target
<1>2. ASSUME task[w].pc \in MovePcs
      PROVE  /\ task[w].todo # <<>> /\ p \in Files /\ Canon[p] = p
             /\ From(w) = SafeNameOf[p] /\ Dest(w) = p
             /\ SafeNameOf[p] \in Entries /\ p \in Entries
  <2>1. task[w].todo # <<>> /\ \A it \in Range(task[w].todo) : it.target \in Files
    BY <1>1, <1>2 DEF Fits
  <2>2. p \in Files
    BY <2>1, InHand
  <2> QED BY <2>1, <2>2, NameTypes DEF From, Dest
<1>u. Rooted' = Rooted /\ Rooted \subseteq Files
  <2>1. user' = user
    BY WorkerShape DEF LeavesTyped
  <2> QED BY <2>1, RootedFiles DEF Rooted
<1>3. CASE UNCHANGED dir /\ task'[w].todo = task[w].todo /\ task'[w].roots = task[w].roots
  BY <1>u, <1>3 DEF StillToDo, Awaits
<1>e. CASE EnterRoot(w)
  <2>1. PICK t : /\ Works(w, t, NoJob) /\ t.roots = Tail(task[w].roots) /\ dir' = dir
                 /\ Range(t.todo) = {Item(None, f) : f \in {e \in Head(task[w].roots) : SafeNameOf[e] # e}}
                 /\ task[w].roots # <<>>
    BY <1>e, EnterShape
  <2>2. task'[w] = t /\ task[w].todo = <<>> /\ task[w].roots \in Seq(SUBSET Files)
    BY <1>1, <1>e, <2>1, OthersKeep DEF EnterRoot, TaskSet
  <2> SUFFICES ASSUME NEW f \in Rooted, LeftIn(dir, f), f \notin UNION Range(t.roots)
               PROVE  \E it \in Range(t.todo) : it.target = f
    BY <1>u, <2>1, <2>2 DEF StillToDo, Awaits
  <2>3. f \in UNION Range(task[w].roots)
    BY <2>2 DEF StillToDo, Awaits, Range
  <2>4. f \in Head(task[w].roots)
    <3>1. PICK r \in Range(task[w].roots) : f \in r
      BY <2>3
    <3>2. r \notin Range(t.roots)
      BY <3>1
    <3> QED BY <2>1, <2>2, <3>1, <3>2, FirstAndRest
  <2>5. SafeNameOf[f] # f
    BY DEF LeftIn
  <2>6. Item(None, f) \in Range(t.todo) /\ Item(None, f).target = f
    BY <2>1, <2>4, <2>5 DEF Item
  <2> QED BY <2>6
<1>4. CASE Look(w) /\ NextOf(w) /\ UNCHANGED dir
  <2>1. task[w].pc = "look" /\ ~ (Exists(From(w)) /\ ~ Exists(Dest(w)))
    <3>1. task[w].pc = "look" /\ ~ To(w, "move")
      <4>1. To(w, "move") => task'[w].pc = "move"
        BY <1>1 DEF To, TaskSet
      <4>2. task'[w].pc = "next"
        BY <1>1, <1>4 DEF NextOf, TaskSet
      <4> QED BY <1>4, <4>1, <4>2 DEF Look, At
    <3> QED BY <1>4, <3>1 DEF Look
  <2>2. task'[w].todo = Tail(task[w].todo) /\ task'[w].roots = task[w].roots
    BY <1>1, <1>4 DEF NextOf, TaskSet
  <2>3. task[w].todo # <<>> /\ ~ LeftIn(dir, p)
    BY <1>2, <2>1 DEF MovePcs, LeftIn, Exists
  <2>4. dir' = dir
    BY <1>4
  <2>5. \A f \in Rooted : LeftIn(dir', f) => Awaits(task'[w], f)
    BY <2>2, <2>3, <2>4, FirstSeenTo
  <2> QED BY <1>u, <2>5 DEF StillToDo, Awaits
<1>5. CASE Move(w)
  <2>1. task[w].pc = "move" /\ (Moved(w) \/ NextOf(w))
    BY <1>5 DEF Move, At
  <2>2. task'[w].todo = Tail(task[w].todo) /\ task'[w].roots = task[w].roots
    BY <1>1, <2>1 DEF Moved, NextOf, TaskSet
  <2>3. /\ task[w].todo # <<>> /\ p \in Files /\ From(w) = SafeNameOf[p] /\ Dest(w) = p
        /\ SafeNameOf[p] \in Entries /\ p \in Entries
    BY <1>2, <2>1 DEF MovePcs
  <2>4. \/ dir[SafeNameOf[p]] = None /\ dir' = dir
        \/ dir[SafeNameOf[p]] # None /\ dir' = Renamed(dir, SafeNameOf[p], p)
    BY <1>5, <2>3 DEF Move, Exists
  <2> HIDE DEF p
  <2>5. /\ ~ LeftIn(dir', p)
        /\ \A f \in Files : LeftIn(dir', f) => f = p \/ LeftIn(dir, f)
    <3>1. CASE dir[SafeNameOf[p]] = None /\ dir' = dir
      BY <3>1 DEF LeftIn
    <3>2. CASE /\ dir[SafeNameOf[p]] # None /\ dir[SafeNameOf[p]] = dir[p]
               /\ dir' = Renamed(dir, SafeNameOf[p], p)
      <4>1. dir' = dir /\ dir[p] # None
        BY <3>2 DEF Renamed
      <4> QED BY <4>1 DEF LeftIn
    <3>3. CASE /\ dir[SafeNameOf[p]] # None /\ dir[SafeNameOf[p]] # dir[p]
               /\ dir' = Renamed(dir, SafeNameOf[p], p)
      <4>1. dir' = [dir EXCEPT ![p] = dir[SafeNameOf[p]], ![SafeNameOf[p]] = None]
        BY <3>3 DEF Renamed
      <4>2. SafeNameOf[p] # p
        BY <3>3
      <4>3. dir'[SafeNameOf[p]] = None
        BY <1>1, <2>3, <4>1 DEF Dirs
      <4>4. ASSUME NEW f \in Files, LeftIn(dir', f), f # p
            PROVE  LeftIn(dir, f)
        <5>1. f \in Entries /\ SafeNameOf[f] \in Entries /\ SafeNameOf[f] # SafeNameOf[p]
          BY <4>3, <4>4, NameTypes DEF LeftIn
        <5>2. SafeNameOf[f] # p
          BY <2>3, <4>2, NameTypes
        <5>3. f # SafeNameOf[p]
          <6>1. f = SafeNameOf[p] => SafeNameOf[f] = SafeNameOf[p]
            BY <2>3, NameTypes
          <6> QED BY <5>1, <6>1
        <5> QED BY <1>1, <2>3, <4>1, <4>4, <5>1, <5>2, <5>3 DEF LeftIn, Dirs
      <4> QED BY <4>3, <4>4 DEF LeftIn
    <3> QED BY <2>4, <3>1, <3>2, <3>3
  <2>6. \A f \in Rooted : LeftIn(dir', f) => Awaits(task'[w], f)
    BY <1>u, <2>2, <2>3, <2>5, FirstSeenTo DEF p
  <2> QED BY <1>u, <2>6 DEF StillToDo, Awaits
<1> QED BY <1>e, <1>3, <1>4, <1>5, UndoSteps

LEMMA UndoNext ==
  ASSUME TypeInv, Alone, user.patient, UndoInv, [Next]_vars
  PROVE  UndoInv'
<1> SUFFICES ASSUME NEW w \in Workers, task'[w].pc # "idle", task'[w].deed = "unsuffix"
             PROVE  StillToDo(task[w])'
  BY DEF UndoInv
<1>0. task \in [Workers -> TaskSet]
  BY DEF TypeInv, TasksTyped
<1>1. CASE \E v \in Workers : Worker(v)
  <2>1. PICK v \in Workers : Worker(v)
    BY <1>1
  <2>2. PICK t, j : Works(v, t, j)
    BY <2>1, WorkerShape
  <2>3. v \in Running
    BY <2>1, WorkerShape DEF Running
  <2>4. v = w
    <3>1. v # w => task'[w] = task[w]
      BY <2>2, OthersKeep
    <3>2. v # w => w \in Running
      BY <3>1 DEF Running
    <3> QED BY <2>3, <3>2 DEF Alone
  <2>5. task[w].deed = "unsuffix" /\ task[w].pc # "idle"
    <3>1. task'[w] = t
      BY <2>2, <2>4, OthersKeep
    <3>2. t.deed = task[w].deed
      BY <2>2, <2>4, <3>1, NothingUnderWay DEF Works
    <3> QED BY <2>3, <2>4, <3>1, <3>2 DEF Running
  <2> QED BY <2>1, <2>4, <2>5, UndoStep DEF UndoInv
<1>2. CASE \E v \in Workers : Confirm(v)
  <2>1. PICK v \in Workers : Confirm(v)
    BY <1>2
  <2>2. Running = {} /\ dir' = dir
    BY <2>1 DEF Confirm, MayTouch, Quiet, fvars
  <2>3. PICK t \in TaskSet :
           /\ task' = [task EXCEPT ![v] = t] /\ t.deed = Deeds[pending.action]
           /\ t.roots = Roots(pending) /\ pending # None /\ pending.action \in user.offered
    BY <2>1, ConfirmShape
  <2>4. v = w /\ task'[w] = t
    BY <1>0, <2>2, <2>3 DEF Running
  <2>5. pending.action = "unsuperdeduper"
    <3>1. pending.action \in ForGroup \union ForAll \union ForRoots
      BY <2>3 DEF TypeInv, WindowTyped, Pending
    <3> QED BY <2>3, <2>4, <3>1 DEF Deeds, ForGroup, ForAll, ForRoots
  <2>6. t.roots = user.roots /\ user' = user
    BY <2>1, <2>3, <2>5 DEF Roots, Confirm
  <2> QED BY <2>2, <2>4, <2>6 DEF StillToDo, Awaits, Rooted
<1>3. CASE User /\ \A v \in Workers : ~ Confirm(v)
  BY <1>3, UserType DEF UndoInv, StillToDo, Awaits, Rooted, fvars
<1>4. CASE Drain
  BY <1>4 DEF Drain, UndoInv, StillToDo, Awaits, Rooted, fvars, bounds
<1>5. CASE Crash
  BY <1>5, NothingUnderWay DEF Crash
<1>6. CASE UNCHANGED vars
  BY <1>6 DEF vars, UndoInv, StillToDo, Awaits, Rooted, fvars, bounds
<1> QED BY <1>1, <1>2, <1>3, <1>4, <1>5, <1>6 DEF Next

\* "Reversible via Unsuperdeduper": whatever was renamed, moved or stopped before, once a
\* patient user's undoing has been through the roots, no file is left under its suffixed
\* name alone (unsuperdeduper_root, dedupe.rs).
THEOREM RenamesAreUndone == Spec => [](user.patient => RenamesUndone)
<1> DEFINE Inv == Alone /\ (user.patient => UndoInv)
<1>1. Init => Inv
  BY AloneInit, NothingUnderWay DEF Init, UndoInv
<1>2. TypeInv /\ Inv /\ [Next]_vars => Inv'
  BY AloneNext, UndoNext, SameUser
<1>3. Inv => (user.patient => RenamesUndone)
  <2> SUFFICES ASSUME UndoInv, NEW w \in Running, task[w].deed = "unsuffix", task[w].todo = <<>>,
                      task[w].roots = <<>>, NEW f \in Rooted, Exists(SafeNameOf[f]), ~ Exists(f)
               PROVE  FALSE
    BY DEF RenamesUndone, Rooted
  <2>1. (\E it \in Range(task[w].todo) : it.target = f) \/ f \in UNION Range(task[w].roots)
    BY DEF UndoInv, StillToDo, Awaits, LeftIn, Exists, Running
  <2> QED BY <2>1 DEF Range
<1> HIDE DEF Inv
<1> QED BY <1>1, <1>2, <1>3, Types, PTL DEF Spec

-----------------------------------------------------------------------------
(* The table and the disk: what every row promises.                        *)

\* No entry is listed twice, under one spelling or two.
Unaliased(t) == \A g, h \in DOMAIN t : \A i \in DOMAIN t[g] : \A j \in DOMAIN t[h] :
                  Canon[t[g][i]] = Canon[t[h][j]] => g = h /\ i = j

\* The members of a row were scanned, and are copies of each other.
Copies(t) == \A g \in DOMAIN t : \A p, q \in Range(t[g]) :
               Canon[p] \in Scanned /\ user.content[Canon[p]] = user.content[Canon[q]]

TableInv == Unaliased(table) /\ Copies(table)

ListedIn(t, p) == \E g \in DOMAIN t : p \in Range(t[g])
RowIn(t, p, q) == \E g \in DOMAIN t : p \in Range(t[g]) /\ q \in Range(t[g])

\* One place for an entry in the table.
LEMMA OnePlace ==
  ASSUME Unaliased(table), NEW g \in DOMAIN table, NEW h \in DOMAIN table,
         NEW p \in Range(table[g]), NEW q \in Range(table[h]), Canon[p] = Canon[q]
  PROVE  g = h /\ p = q
<1>1. PICK i \in DOMAIN table[g] : p = table[g][i]
  BY DEF Range
<1>2. PICK j \in DOMAIN table[h] : q = table[h][j]
  BY DEF Range
<1> QED BY <1>1, <1>2 DEF Unaliased
\* A row that goes.
LEMMA RowGone ==
  ASSUME TypeInv, TableInv, NEW g \in DOMAIN table, NEW i \in 1..Len(table[g]), Len(table[g]) = 2,
         NEW t, t = RemoveAt(table, g), NEW q, q = table[g][i]
  PROVE  /\ Unaliased(t) /\ Copies(t) /\ ~ ListedIn(t, q)
         /\ \A p : ListedIn(t, p) => ListedIn(table, p)
         /\ \A p, r : RowIn(table, p, r) /\ p # r /\ p # q /\ r # q => RowIn(t, p, r)
<1>1. table \in Seq(Rows) /\ g \in 1..Len(table)
  BY DEF TypeInv, WindowTyped
<1>2. PICK from \in [DOMAIN t -> DOMAIN table] :
         /\ \A j \in DOMAIN t : t[j] = table[from[j]] /\ from[j] # g
         /\ \A j, k \in DOMAIN t : from[j] = from[k] => j = k
         /\ \A h \in DOMAIN table : h # g => \E j \in DOMAIN t : from[j] = h
  BY <1>1, Pulled
<1>3. Unaliased(t)
  <2> SUFFICES ASSUME NEW h \in DOMAIN t, NEW k \in DOMAIN t, NEW a \in DOMAIN t[h],
                      NEW b \in DOMAIN t[k], Canon[t[h][a]] = Canon[t[k][b]]
               PROVE  h = k /\ a = b
    BY DEF Unaliased
  <2>1. from[h] = from[k] /\ a = b
    BY <1>2 DEF TableInv, Unaliased
  <2> QED BY <1>2, <2>1
<1>4. Copies(t)
  BY <1>2 DEF TableInv, Copies
<1>5. \A p : ListedIn(t, p) => ListedIn(table, p)
  BY <1>2 DEF ListedIn
<1>6. q \in Range(table[g]) /\ \A p, r \in Range(table[g]) : p # q /\ r # q => p = r
  <2>1. table[g] \in Seq(Paths)
    BY RowMembers
  <2>2. DOMAIN table[g] = 1..2
    BY <2>1
  <2> QED BY <2>1, <2>2 DEF Range
<1>7. ~ ListedIn(t, q)
  <2> SUFFICES ASSUME NEW h \in DOMAIN t, q \in Range(t[h]) PROVE FALSE
    BY DEF ListedIn
  <2>1. from[h] \in DOMAIN table /\ from[h] # g /\ q \in Range(table[from[h]])
    BY <1>2
  <2> QED BY <1>6, <2>1, OnePlace DEF TableInv
<1>8. ASSUME NEW p, NEW r, RowIn(table, p, r), p # r, p # q, r # q PROVE RowIn(t, p, r)
  <2>1. PICK h \in DOMAIN table : p \in Range(table[h]) /\ r \in Range(table[h])
    BY <1>8 DEF RowIn
  <2>2. h # g
    BY <1>6, <1>8, <2>1
  <2> QED BY <1>2, <2>1, <2>2 DEF RowIn
<1> QED BY <1>3, <1>4, <1>5, <1>7, <1>8

\* A row that loses a member and stays.
LEMMA RowShorter ==
  ASSUME TypeInv, TableInv, NEW g \in DOMAIN table, NEW i \in 1..Len(table[g]),
         NEW t, t = [table EXCEPT ![g] = RemoveAt(table[g], i)], NEW q, q = table[g][i]
  PROVE  /\ Unaliased(t) /\ Copies(t) /\ ~ ListedIn(t, q)
         /\ \A p : ListedIn(t, p) => ListedIn(table, p)
         /\ \A p, r : RowIn(table, p, r) /\ p # r /\ p # q /\ r # q => RowIn(t, p, r)
<1>1. table \in Seq(Rows) /\ table[g] \in Seq(Paths)
  BY RowMembers DEF TypeInv, WindowTyped
<1> DEFINE rest == RemoveAt(table[g], i)
<1>2. PICK from \in [DOMAIN rest -> DOMAIN table[g]] :
         /\ \A j \in DOMAIN rest : rest[j] = table[g][from[j]] /\ from[j] # i
         /\ \A j, k \in DOMAIN rest : from[j] = from[k] => j = k
         /\ \A h \in DOMAIN table[g] : h # i => \E j \in DOMAIN rest : from[j] = h
  BY <1>1, Pulled
<1>3. DOMAIN t = DOMAIN table /\ t[g] = rest /\ \A h \in DOMAIN table : h # g => t[h] = table[h]
  BY <1>1
<1> HIDE DEF rest
<1>4. q \in Range(table[g]) /\ i \in DOMAIN table[g]
  BY <1>1 DEF Range
<1>5. ASSUME NEW p PROVE p \in Range(rest) <=> p \in Range(table[g]) /\ p # q
  <2>1. ASSUME p \in Range(rest) PROVE p \in Range(table[g]) /\ p # q
    <3>1. PICK j \in DOMAIN rest : p = rest[j]
      BY <2>1 DEF Range
    <3>2. from[j] \in DOMAIN table[g] /\ p = table[g][from[j]] /\ from[j] # i
      BY <1>2, <3>1
    <3>3. Canon[p] = Canon[q] => from[j] = i
      BY <1>4, <3>2 DEF TableInv, Unaliased
    <3> QED BY <3>2, <3>3 DEF Range
  <2>2. ASSUME p \in Range(table[g]), p # q PROVE p \in Range(rest)
    <3>1. PICK h \in DOMAIN table[g] : p = table[g][h]
      BY <2>2 DEF Range
    <3>2. h # i
      BY <2>2, <3>1
    <3> QED BY <1>2, <3>1, <3>2 DEF Range
  <2> QED BY <2>1, <2>2
<1>6. Unaliased(t)
  <2> SUFFICES ASSUME NEW h \in DOMAIN table, NEW k \in DOMAIN table, NEW a \in DOMAIN t[h],
                      NEW b \in DOMAIN t[k], Canon[t[h][a]] = Canon[t[k][b]]
               PROVE  h = k /\ a = b
    BY <1>3 DEF Unaliased
  <2> DEFINE of(x, c) == IF x = g THEN from[c] ELSE c
  <2>1. /\ of(h, a) \in DOMAIN table[h] /\ t[h][a] = table[h][of(h, a)]
        /\ of(k, b) \in DOMAIN table[k] /\ t[k][b] = table[k][of(k, b)]
    BY <1>2, <1>3
  <2>2. h = k /\ of(h, a) = of(k, b)
    <3> HIDE DEF of
    <3> QED BY <2>1 DEF TableInv, Unaliased
  <2> QED BY <1>2, <1>3, <2>2
<1>7. \A h \in DOMAIN t : \A p \in Range(t[h]) : p \in Range(table[h])
  BY <1>3, <1>5
<1>8. Copies(t)
  BY <1>3, <1>7 DEF TableInv, Copies
<1>9. \A p : ListedIn(t, p) => ListedIn(table, p)
  BY <1>3, <1>7 DEF ListedIn
<1>10. ~ ListedIn(t, q)
  <2> SUFFICES ASSUME NEW h \in DOMAIN t, q \in Range(t[h]) PROVE FALSE
    BY DEF ListedIn
  <2>1. h = g
    BY <1>3, <1>4, <1>7, OnePlace DEF TableInv
  <2> QED BY <1>3, <1>5, <2>1
<1>11. ASSUME NEW p, NEW r, RowIn(table, p, r), p # r, p # q, r # q PROVE RowIn(t, p, r)
  BY <1>3, <1>5, <1>11 DEF RowIn
<1> QED BY <1>6, <1>8, <1>9, <1>10, <1>11

\* The table learns that a path is gone.
LEMMA Unlisted ==
  ASSUME TypeInv, TableInv, NEW q, NEW t, t = Applied(Gone(q))
  PROVE  /\ Unaliased(t) /\ Copies(t) /\ ~ ListedIn(t, q)
         /\ \A p : ListedIn(t, p) => ListedIn(table, p)
         /\ \A p, r : RowIn(table, p, r) /\ p # r /\ p # q /\ r # q => RowIn(t, p, r)
<1>1. Gone(q).src = q /\ Gone(q).type = "removed"
  BY DEF Gone
<1> HIDE DEF Gone
<1>2. CASE t = table /\ \A g \in DOMAIN table : q \notin Range(table[g])
  BY <1>2 DEF TableInv, ListedIn
<1>3. CASE \E g \in DOMAIN table : \E i \in 1..Len(table[g]) :
              /\ table[g][i] = q
              /\ \/ Len(table[g]) = 2 /\ t = RemoveAt(table, g)
                 \/ t = [table EXCEPT ![g] = RemoveAt(table[g], i)]
  <2>1. PICK g \in DOMAIN table : \E i \in 1..Len(table[g]) :
              /\ table[g][i] = q
              /\ \/ Len(table[g]) = 2 /\ t = RemoveAt(table, g)
                 \/ t = [table EXCEPT ![g] = RemoveAt(table[g], i)]
    BY <1>3
  <2>2. PICK i \in 1..Len(table[g]) :
              /\ table[g][i] = q
              /\ \/ Len(table[g]) = 2 /\ t = RemoveAt(table, g)
                 \/ t = [table EXCEPT ![g] = RemoveAt(table[g], i)]
    BY <2>1
  <2> QED BY <2>2, RowGone, RowShorter
<1> QED BY <1>1, <1>2, <1>3, AppliedShape
\* The table the scan reported.
LEMMA TableReported ==
  ASSUME TypeInv, Init, Unaliased(user.table)
  PROVE  /\ TableInv /\ Scanned \subseteq Files
         /\ \A p : ListedIn(table, p) => Canon[p] \in Scanned
<1>1. /\ table = user.table /\ user \in Users
  BY DEF Init
<1>2. /\ Scanned \subseteq Files
      /\ \A g \in DOMAIN table : \A p, q \in Range(table[g]) : user.content[Canon[p]] = user.content[Canon[q]]
  BY <1>1, GuiAssumption DEF GuiAssumption, Scanned
<1>3. \A g \in DOMAIN table : \A p \in Range(table[g]) : Canon[p] \in Scanned
  BY <1>1 DEF Scanned, ScannedIn
<1> QED BY <1>1, <1>2, <1>3 DEF TableInv, Copies, ListedIn

\* The same row with another keeper.
LEMMA RowExchanged ==
  ASSUME TypeInv, TableInv, NEW g \in DOMAIN table, NEW i \in 2..Len(table[g]), Promote(g, i)
  PROVE  /\ Unaliased(table') /\ Copies(table')
         /\ \A p : ListedIn(table', p) <=> ListedIn(table, p)
         /\ DOMAIN table' = DOMAIN table /\ \A h \in DOMAIN table : h # g => table'[h] = table[h]
<1> DEFINE r == table[g]
           q == [r EXCEPT ![1] = r[i], ![i] = r[1]]
           other(k) == IF k = 1 THEN i ELSE IF k = i THEN 1 ELSE k
<1>1. r \in Seq(Paths) /\ DOMAIN r = 1..Len(r) /\ Len(r) \in Nat
  BY RowMembers
<1>2. i \in DOMAIN r /\ 1 \in DOMAIN r
  BY <1>1
<1>3. table' = [table EXCEPT ![g] = q] /\ table \in Seq(Rows)
  BY DEF Promote, TypeInv, WindowTyped
<1>4. /\ DOMAIN table' = DOMAIN table /\ table'[g] = q
      /\ \A h \in DOMAIN table : h # g => table'[h] = table[h]
  BY <1>3
<1>5. DOMAIN q = DOMAIN r /\ \A k \in DOMAIN r : other(k) \in DOMAIN r /\ q[k] = r[other(k)]
  BY <1>1, <1>2
<1>6. \A k, l \in DOMAIN r : other(k) = other(l) => k = l
  OBVIOUS
<1>7. \A k \in DOMAIN r : other(other(k)) = k
  OBVIOUS
<1> HIDE DEF r, q, other
<1>8. Range(q) = Range(r)
  <2>1. \A k \in DOMAIN r : q[k] \in Range(r)
    BY <1>5 DEF Range
  <2>2. ASSUME NEW k \in DOMAIN r PROVE r[k] \in Range(q)
    <3>1. other(k) \in DOMAIN q /\ q[other(k)] = r[k]
      BY <1>5, <1>7
    <3> QED BY <3>1 DEF Range
  <2>3. Range(q) \subseteq Range(r)
    BY <1>5, <2>1 DEF Range
  <2>4. Range(r) \subseteq Range(q)
    BY <2>2 DEF Range
  <2> QED BY <2>3, <2>4
<1>9. \A h \in DOMAIN table : Range(table'[h]) = Range(table[h])
  BY <1>4, <1>8 DEF r
<1>10. Unaliased(table')
  <2> SUFFICES ASSUME NEW h \in DOMAIN table, NEW k \in DOMAIN table, NEW a \in DOMAIN table'[h],
                      NEW b \in DOMAIN table'[k], Canon[table'[h][a]] = Canon[table'[k][b]]
               PROVE  h = k /\ a = b
    BY <1>4 DEF Unaliased
  <2> DEFINE of(x, c) == IF x = g THEN other(c) ELSE c
  <2>1. /\ of(h, a) \in DOMAIN table[h] /\ table'[h][a] = table[h][of(h, a)]
        /\ of(k, b) \in DOMAIN table[k] /\ table'[k][b] = table[k][of(k, b)]
    BY <1>4, <1>5 DEF r
  <2>2. h = k /\ of(h, a) = of(k, b)
    <3> HIDE DEF of
    <3> QED BY <2>1 DEF TableInv, Unaliased
  <2>3. h = g => a \in DOMAIN r /\ b \in DOMAIN r
    BY <1>4, <1>5, <2>2
  <2> QED BY <1>6, <2>2, <2>3
<1>11. Copies(table')
  BY <1>4, <1>9 DEF TableInv, Copies
<1> QED BY <1>4, <1>9, <1>10, <1>11 DEF ListedIn
-----------------------------------------------------------------------------
(* What deleting and linking copies keeps on the disk.                     *)

Holds(e, c) == dir[e] # None /\ data[dir[e]] = c

\* An entry that was scanned has what the scan hashed.
Sound(p) == Holds(Canon[p], user.content[Canon[p]])

\* The user waits, and keeps to the actions that delete and link copies; the scan lists
\* no file twice, and none that bears the name the original is moved aside to; and the
\* clean-up calls whose errors are dropped do not fail.
Tidy ==
  /\ user.patient /\ user.offered \subseteq {"recycle", "hardlink", "removeAll", "recycleAll"}
  /\ Unaliased(user.table)
  /\ \A f \in Files : AsideOf[f] \notin Files
  /\ ~ FlakyCleanup

TidyDeeds == {"recycle", "remove", "hardlink"}

LEMMA TidyDoing ==
  ASSUME TypeInv, Tidy, NEW w \in Workers, task[w].pc # "idle"
  PROVE  task[w].deed \in TidyDeeds
<1>1. PICK a \in user.offered : task[w].deed = Deeds[a]
  BY DEF TypeInv, Chosen
<1> QED BY <1>1 DEF Tidy, Deeds, TidyDeeds


\* Under way, the target is where it was, or aside, or a link to the keeper.
LEMMA ActKeeps ==
  ASSUME TypeInv, Tidy, NEW w \in Workers, PerformAction(w),
         NEW t, t = Target(w), NEW k, k = Keeper(w), k # t, NEW c, Holds(k, c),
         job[w].phase \notin {"ok", "link", "restore"} => Holds(t, c),
         job[w].phase = "aside" => dir[AsideOf[t]] = None,
         job[w].phase \in {"link", "restore"} => dir[t] = None /\ Holds(AsideOf[t], c)
  PROVE  /\ \A e \in Entries : e # t /\ e # AsideOf[t] => dir'[e] = dir[e]
         /\ job'[w].phase \notin {"ok", "link", "restore"} => Holds(t, c)'
         /\ job'[w].phase = "aside" => dir'[AsideOf[t]] = None
         /\ job'[w].phase \in {"link", "restore"} => dir'[t] = None /\ Holds(AsideOf[t], c)'
<1> DEFINE a == AsideOf[t]
<1>1. /\ Effect(w) /\ UNCHANGED data /\ t \in Files /\ k \in Files
      /\ job[w].action \in TidyDeeds
  BY ActingEffect, TidyDoing
<1>2. /\ t \in Entries /\ k \in Entries /\ a \in Entries /\ a \notin Files
      /\ dir \in Dirs /\ None \notin Inodes
  BY <1>1, NameTypes DEF Tidy, TypeInv, DiskTyped
<1>3. a # t /\ a # k
  BY <1>1, <1>2
<1>4. AsideOf[Target(w)] = a /\ Target(w) = t /\ Keeper(w) = k
  OBVIOUS
<1> HIDE DEF a
<1>5. CASE Keeps(w)
  BY <1>1, <1>5 DEF Keeps, Holds, TidyDeeds, a
<1>6. CASE Takes(w)
  BY <1>1, <1>2, <1>4, <1>6 DEF Takes, Dirs, a
<1>7. CASE AddsSuffix(w)
  BY <1>1, <1>7 DEF AddsSuffix, TidyDeeds
<1>8. CASE ClearsAside(w)
  BY <1>1, <1>2, <1>3, <1>4, <1>8 DEF ClearsAside, Dirs, Holds, a
<1>9. CASE PutsAside(w)
  BY <1>1, <1>2, <1>3, <1>4, <1>9 DEF PutsAside, Renamed, Dirs, Exists, Holds, a
<1>10. CASE Links(w)
  BY <1>1, <1>2, <1>3, <1>4, <1>10 DEF Links, Dirs, Holds, a
<1>11. CASE DropsAside(w)
  BY <1>1, <1>2, <1>3, <1>4, <1>11 DEF DropsAside, Dirs, Tidy, a
<1>12. CASE PutsBack(w)
  BY <1>1, <1>2, <1>3, <1>4, <1>12 DEF PutsBack, Renamed, Dirs, Exists, Holds, Tidy, a
<1> QED BY <1>1, <1>5, <1>6, <1>7, <1>8, <1>9, <1>10, <1>11, <1>12 DEF Effect
Told(c, p) == Gone(p) \in Range(c)

\* What is left of a batch: copies of keepers none of which is to go itself, each once, and
\* nothing that the table has yet to hear of.
Batch(t, c, s) ==
  /\ \A it \in Range(s) : /\ RowIn(t, it.keeper, it.target)
                          /\ ~ Told(c, it.keeper) /\ ~ Told(c, it.target)
  /\ \A it, jt \in Range(s) : it.keeper # jt.target
  /\ \A i, j \in DOMAIN s : s[i].target = s[j].target => i = j

\* The file in hand may be elsewhere.
InDoubt(p) == \E w \in Workers : /\ task[w].pc = "acting" /\ First(w).target = p
                                 /\ job[w].phase \in {"ok", "link", "restore"}

\* What is listed is there, or the table will hear that it is gone, or a worker has it.
Present == \A p \in Paths : ListedIn(table, p) => Sound(p) \/ Told(channel, p) \/ InDoubt(p)

\* While a link is put in its place, the original is aside, and whole.
PutAside ==
  \A w \in Workers : task[w].pc = "acting" =>
    /\ job[w].phase = "aside" => dir[AsideOf[Target(w)]] = None
    /\ job[w].phase \in {"link", "restore"} =>
         dir[Target(w)] = None /\ Holds(AsideOf[Target(w)], user.content[Target(w)])

\* What a row's button captured is still so: nothing happens until it is confirmed.
Captured ==
  pending # None =>
    /\ Quiet
    /\ pending.action \in ForGroup =>
         \E g \in acted \intersect DOMAIN table :
           pending.keeper = Head(table[g]) /\ pending.dupes = Tail(table[g])

GoneOnly == \A e \in Range(channel) : e \in {Started, Finished} \/ \E p \in Paths : e = Gone(p)

TidyInv ==
  /\ TableInv /\ Present /\ PutAside /\ Captured /\ GoneOnly
  /\ \A w \in Workers : Batch(table, channel, task[w].todo)

\* Everything that was scanned is held by an entry that was scanned.
Stored == \A f \in Scanned : \E e \in Scanned : Holds(e, user.content[f])

LEMMA NoBatch == ASSUME NEW t, NEW c PROVE Batch(t, c, <<>>)
BY DEF Batch, Range

\* A batch outlives what happens to other paths.
LEMMA BatchKept ==
  ASSUME NEW t, NEW c, NEW s, Batch(t, c, s), NEW u, NEW d,
         \A p, r : RowIn(t, p, r) /\ p # r /\ ~ Told(c, p) /\ ~ Told(c, r) => RowIn(u, p, r),
         \A it \in Range(s) : /\ Told(d, it.keeper) => Told(c, it.keeper)
                              /\ Told(d, it.target) => Told(c, it.target)
  PROVE  Batch(u, d, s)
<1>1. \A it \in Range(s) : it.keeper # it.target
  BY DEF Batch
<1> QED BY <1>1 DEF Batch

LEMMA BatchRest ==
  ASSUME NEW t, NEW c, NEW s \in Seq(ItemSet), s # <<>>, Batch(t, c, s)
  PROVE  /\ Batch(t, c, Tail(s))
         /\ \A it \in Range(Tail(s)) : it.target # Head(s).target /\ it.keeper # Head(s).target
<1>1. /\ Head(s) \in Range(s) /\ Range(Tail(s)) \subseteq Range(s)
      /\ Len(s) \in Nat /\ Len(Tail(s)) = Len(s) - 1 /\ Tail(s) \in Seq(ItemSet)
  BY FirstAndRest
<1>2. /\ DOMAIN s = 1..Len(s) /\ DOMAIN Tail(s) = 1..(Len(s) - 1) /\ Len(s) > 0
      /\ Head(s) = s[1] /\ \A i \in 1..(Len(s) - 1) : Tail(s)[i] = s[i + 1]
  BY <1>1, EmptySeq, HeadTailProperties
<1>3. ASSUME NEW i \in DOMAIN Tail(s), NEW j \in DOMAIN Tail(s), Tail(s)[i].target = Tail(s)[j].target
      PROVE  i = j
  <2>1. i + 1 \in DOMAIN s /\ j + 1 \in DOMAIN s /\ s[i + 1].target = s[j + 1].target
    BY <1>1, <1>2, <1>3
  <2>2. i + 1 = j + 1
    BY <2>1 DEF Batch
  <2> QED BY <1>2, <2>2
<1>4. ASSUME NEW it \in Range(Tail(s)) PROVE it.target # Head(s).target
  <2>1. PICK i \in DOMAIN Tail(s) : it = Tail(s)[i]
    BY DEF Range
  <2>2. i + 1 \in DOMAIN s /\ 1 \in DOMAIN s /\ i + 1 # 1 /\ it = s[i + 1]
    BY <1>1, <1>2, <2>1
  <2> QED BY <1>2, <2>2 DEF Batch
<1>5. \A it \in Range(Tail(s)) : it.keeper # Head(s).target
  BY <1>1 DEF Batch
<1> QED BY <1>1, <1>3, <1>4, <1>5 DEF Batch

\* With one worker at most, the others have nothing to do.
LEMMA OthersIdle ==
  ASSUME TypeInv, Alone, Tidy, NEW w \in Workers, task[w].pc # "idle"
  PROVE  /\ \A v \in Workers : v # w => task[v] = NoTask /\ task[v].pc = "idle" /\ task[v].todo = <<>>
         /\ ~ Quiet
<1>1. w \in Running
  BY DEF Running
<1>2. \A v \in Workers : v # w => task[v].pc = "idle"
  BY <1>1 DEF Alone, Tidy, Running
<1> QED BY <1>1, <1>2, NothingUnderWay DEF TypeInv, Hands, Fits, Quiet

\* The file in hand and its keeper.
LEMMA KeeperIsThere ==
  ASSUME TypeInv, Alone, Tidy, TidyInv, NEW w \in Workers, task[w].pc = "acting",
         NEW p, p = First(w).target, NEW q, q = First(w).keeper
  PROVE  /\ p \in Paths /\ q \in Paths /\ Canon[q] # Canon[p] /\ ListedIn(table, p)
         /\ Canon[p] \in Scanned /\ Canon[q] \in Scanned
         /\ user.content[Canon[q]] = user.content[Canon[p]]
         /\ Sound(q)
         /\ job[w].phase \notin {"ok", "link", "restore"} => Sound(p)
<1>1. task[w].todo # <<>> /\ task[w].todo \in Seq(ItemSet)
  BY DEF TypeInv, Hands, Fits, TasksTyped, TaskSet
<1>2. First(w) \in Range(task[w].todo)
  BY <1>1, InHand
<1>3. /\ RowIn(table, q, p) /\ ~ Told(channel, q) /\ ~ Told(channel, p) /\ q # p
  BY <1>2 DEF TidyInv, Batch
<1>4. PICK g \in DOMAIN table : q \in Range(table[g]) /\ p \in Range(table[g])
  BY <1>3 DEF RowIn
<1>5. p \in Paths /\ q \in Paths
  BY <1>4, RowMembers
<1>6. Canon[q] # Canon[p]
  BY <1>3, <1>4, OnePlace DEF TidyInv, TableInv
<1>7. /\ Canon[p] \in Scanned /\ Canon[q] \in Scanned
      /\ user.content[Canon[q]] = user.content[Canon[p]]
  BY <1>4 DEF TidyInv, TableInv, Copies
<1>8. ListedIn(table, p) /\ ListedIn(table, q)
  BY <1>4 DEF ListedIn
<1>9. \A r : InDoubt(r) => r = p /\ job[w].phase \in {"ok", "link", "restore"}
  BY OthersIdle DEF InDoubt
<1> QED BY <1>3, <1>5, <1>6, <1>7, <1>8, <1>9 DEF TidyInv, Present
LEMMA ScannedTypes ==
  ASSUME TypeInv
  PROVE  Scanned \subseteq Files /\ Scanned \subseteq Entries
BY NameTypes, GuiAssumption DEF GuiAssumption, TypeInv, WindowTyped, Scanned

LEMMA PerformTidy ==
  ASSUME TypeInv, Alone, Tidy, TidyInv, Stored, NEW w \in Workers, PerformAction(w)
  PROVE  TidyInv' /\ Stored'
<1> DEFINE p == First(w).target
           q == First(w).keeper
           t == Target(w)
           k == Keeper(w)
           c == user.content[t]
<1>1. /\ task[w].pc = "acting" /\ Effect(w) /\ t = Canon[p] /\ k = Canon[q]
      /\ UNCHANGED <<data, task, channel, table, down, user>> /\ t \in Files
  BY ActingEffect
<1>2. pending = None /\ pending' = pending
  BY <1>1, OthersIdle DEF PerformAction, window, TidyInv, Captured
<1>3. /\ p \in Paths /\ k # t /\ ListedIn(table, p) /\ t \in Scanned /\ k \in Scanned
      /\ user.content[k] = c /\ Holds(k, c)
      /\ job[w].phase \notin {"ok", "link", "restore"} => Holds(t, c)
  BY <1>1, KeeperIsThere DEF Sound
<1>4. /\ job[w].phase = "aside" => dir[AsideOf[t]] = None
      /\ job[w].phase \in {"link", "restore"} => dir[t] = None /\ Holds(AsideOf[t], c)
  BY <1>1 DEF TidyInv, PutAside
<1>5. PICK j \in Job : job' = [job EXCEPT ![w] = j] /\ j.target = job[w].target
  BY ActingEffect
<1>6. job'[w] = j /\ \A v \in Workers : v # w => job'[v] = job[v]
  BY <1>5 DEF TypeInv, DiskTyped
<1>7. Target(w)' = t
  BY <1>5, <1>6 DEF Target
<1>8. job[w].phase # "ok"
  BY <1>1 DEF Effect, Keeps, Takes, AddsSuffix, ClearsAside, PutsAside, Links, DropsAside, PutsBack
<1>9. First(w)' = First(w)
  BY <1>1 DEF First
<1> HIDE DEF p, q, t, k, c
<1>10. PICK tt, kk, cc : tt = t /\ kk = k /\ cc = c
  OBVIOUS
<1>11. /\ \A e \in Entries : e # tt /\ e # AsideOf[tt] => dir'[e] = dir[e]
       /\ job'[w].phase \notin {"ok", "link", "restore"} => Holds(tt, cc)'
       /\ job'[w].phase = "aside" => dir'[AsideOf[tt]] = None
       /\ job'[w].phase \in {"link", "restore"} => dir'[tt] = None /\ Holds(AsideOf[tt], cc)'
  BY <1>3, <1>4, <1>10, ActKeeps DEF t, k
<1>12. \A e \in Scanned : e # tt => dir'[e] = dir[e]
  BY <1>1, <1>10, <1>11, ScannedTypes DEF Tidy
<1>13. Present'
  <2> SUFFICES ASSUME NEW r \in Paths, ListedIn(table, r)
               PROVE  (Sound(r) \/ Told(channel, r) \/ InDoubt(r))'
    BY <1>1 DEF Present
  <2>1. Canon[r] \in Scanned
    BY DEF ListedIn, TidyInv, TableInv, Copies
  <2>2. CASE r = p
    <3>1. CASE job'[w].phase \in {"ok", "link", "restore"}
      BY <1>1, <1>9, <2>2, <3>1 DEF InDoubt, p
    <3>2. CASE job'[w].phase \notin {"ok", "link", "restore"}
      BY <1>1, <1>10, <1>11, <2>2, <3>2 DEF Sound, Holds, p, t, c
    <3> QED BY <3>1, <3>2
  <2>3. CASE r # p
    <3>1. Canon[r] # tt
      BY <1>1, <1>3, <1>10, <2>3, OnePlace DEF TidyInv, TableInv, ListedIn, p
    <3>2. Sound(r) \/ Told(channel, r)
      BY <2>3, OthersIdle, <1>1 DEF TidyInv, Present, InDoubt, p
    <3> QED BY <1>1, <1>12, <2>1, <3>1, <3>2 DEF Sound, Holds
  <2> QED BY <2>2, <2>3
<1>14. PutAside'
  <2> SUFFICES ASSUME NEW v \in Workers, task'[v].pc = "acting"
               PROVE  (/\ job[v].phase = "aside" => dir[AsideOf[Target(v)]] = None
                       /\ job[v].phase \in {"link", "restore"} =>
                            dir[Target(v)] = None /\ Holds(AsideOf[Target(v)], user.content[Target(v)]))'
    BY DEF PutAside
  <2>1. v = w
    BY <1>1, OthersIdle
  <2> QED BY <1>1, <1>7, <1>10, <1>11, <2>1 DEF Holds, c
<1>15. Stored'
  <2> SUFFICES ASSUME NEW f \in Scanned PROVE \E e \in Scanned : Holds(e, user.content[f])'
    BY <1>1 DEF Stored, Scanned, Holds
  <2>1. PICK e \in Scanned : Holds(e, user.content[f])
    BY DEF Stored
  <2>2. CASE e # tt
    BY <1>1, <1>12, <2>1, <2>2 DEF Holds
  <2>3. CASE e = tt
    <3>1. Holds(t, c) /\ Holds(k, c)
      BY <1>3, <1>4, <1>8, <1>10, <2>1, <2>3 DEF Holds
    <3>2. user.content[f] = c
      BY <1>10, <2>1, <2>3, <3>1 DEF Holds
    <3> QED BY <1>1, <1>3, <1>10, <1>12, <3>1, <3>2 DEF Holds
  <2> QED BY <2>2, <2>3
<1>16. TableInv' /\ GoneOnly' /\ (\A v \in Workers : Batch(table, channel, task[v].todo))'
  BY <1>1 DEF TidyInv, TableInv, Unaliased, Copies, Scanned, GoneOnly
<1> QED BY <1>2, <1>13, <1>14, <1>15, <1>16 DEF TidyInv, Captured
LEMMA SettleTidy ==
  ASSUME TypeInv, Alone, Tidy, TidyInv, NEW w \in Workers, Settle(w)
  PROVE  TidyInv'
<1> DEFINE p == First(w).target
           s == task[w].todo
<1>1. /\ task[w].pc = "acting" /\ job[w].phase \in {"ok", "failed"}
      /\ UNCHANGED <<dir, data, user, table, pending, acted>>
  BY DEF Settle, At, disk, window, bounds
<1>2. /\ task \in [Workers -> TaskSet] /\ task[w] \in TaskSet /\ s \in Seq(ItemSet) /\ s # <<>>
      /\ task[w].deed \in TidyDeeds /\ channel \in Seq(Events)
  BY <1>1, TidyDoing DEF TypeInv, TasksTyped, TaskSet, Hands, Fits, WindowTyped
<1>3. task'[w].todo = Tail(s) /\ task'[w].pc = "next" /\ \A v \in Workers : v # w => task'[v] = task[v]
  BY <1>2 DEF Settle, TaskSet
<1>4. pending = None
  BY <1>1, OthersIdle DEF TidyInv, Captured
<1>5. p \in Paths
  BY <1>2, InHand
<1>6. \/ job[w].phase = "failed" /\ channel' = channel
      \/ job[w].phase = "ok" /\ channel' = Append(channel, Gone(p))
  BY <1>1, <1>2 DEF Settle, Send, TidyDeeds
<1>7. Gone(p) \in Events
  BY <1>5 DEF Events
<1>8. /\ Range(channel') \subseteq Range(channel) \union {Gone(p)}
      /\ Range(channel) \subseteq Range(channel')
      /\ job[w].phase = "ok" => Gone(p) \in Range(channel')
  <2>1. Range(Append(channel, Gone(p))) = Range(channel) \union {Gone(p)}
    BY <1>2, <1>7, OneMore
  <2> QED BY <1>6, <2>1
<1>9. \A r : Gone(r) = Gone(p) => r = p
  BY DEF Gone
<1> HIDE DEF p
<1>10. \A r : Told(channel', r) => Told(channel, r) \/ r = p
  BY <1>8, <1>9 DEF Told
<1>11. Batch(table, channel', Tail(s))
  <2>1. Batch(table, channel, Tail(s)) /\ \A it \in Range(Tail(s)) : it.target # p /\ it.keeper # p
    BY <1>2, BatchRest DEF TidyInv, p, First
  <2> QED BY <1>10, <2>1, BatchKept
<1>12. \A v \in Workers : Batch(table', channel', task'[v].todo)
  <2>1. \A v \in Workers : v # w => task'[v].todo = <<>>
    BY <1>1, <1>3, OthersIdle
  <2> QED BY <1>1, <1>3, <1>11, <2>1, NoBatch
<1>13. Present'
  <2> SUFFICES ASSUME NEW r \in Paths, ListedIn(table, r)
               PROVE  (Sound(r) \/ Told(channel, r) \/ InDoubt(r))'
    BY <1>1 DEF Present
  <2>1. Sound(r) \/ Told(channel, r) \/ InDoubt(r)
    BY DEF TidyInv, Present
  <2>2. InDoubt(r) => r = p /\ job[w].phase = "ok"
    BY <1>1, OthersIdle DEF InDoubt, p
  <2> QED BY <1>1, <1>8, <2>1, <2>2 DEF Sound, Holds, Told
<1>14. PutAside'
  BY <1>1, <1>3, OthersIdle DEF PutAside
<1>15. GoneOnly'
  BY <1>5, <1>8 DEF TidyInv, GoneOnly
<1>16. TableInv'
  BY <1>1 DEF TidyInv, TableInv, Unaliased, Copies, Scanned
<1> QED BY <1>1, <1>4, <1>12, <1>13, <1>14, <1>15, <1>16 DEF TidyInv, Captured

\* The steps between two files.
LEMMA LoopTidy ==
  ASSUME TypeInv, Alone, Tidy, TidyInv, NEW w \in Workers,
         StartTask(w) \/ NextItem(w) \/ EndLoop(w) \/ NothingToRecord(w) \/ Finish(w)
  PROVE  TidyInv' /\ UNCHANGED <<dir, data>>
<1> DEFINE s == task[w].todo
<1>1. /\ task[w].pc \notin {"idle", "acting"}
      /\ UNCHANGED <<dir, data, user, table, pending, acted>>
  BY DEF StartTask, NextItem, EnterRoot, EndLoop, NothingToRecord, Finish, At, fvars, disk, window, bounds
<1>2. /\ task \in [Workers -> TaskSet] /\ task[w] \in TaskSet /\ s \in Seq(ItemSet)
      /\ task[w].deed \in TidyDeeds /\ channel \in Seq(Events) /\ job \in [Workers -> Job]
  BY <1>1, TidyDoing DEF TypeInv, TasksTyped, TaskSet, WindowTyped, DiskTyped
<1>3. channel' = channel \/ Send(Started) \/ Send(Finished)
  BY DEF StartTask, NextItem, EnterRoot, EndLoop, NothingToRecord, Finish
<1>4. Started \in Events /\ Finished \in Events /\ \A r : Gone(r) \notin {Started, Finished}
  BY DEF Events, Started, Finished, Gone
<1>5. /\ Range(channel') \subseteq Range(channel) \union {Started, Finished}
      /\ Range(channel) \subseteq Range(channel')
  <2>1. \A e \in Events : Range(Append(channel, e)) = Range(channel) \union {e}
    BY <1>2, OneMore
  <2> HIDE DEF Started, Finished
  <2> QED BY <1>3, <1>4, <2>1 DEF Send
<1>6. \A r : Told(channel', r) <=> Told(channel, r)
  <2> HIDE DEF Started, Finished, Gone
  <2> QED BY <1>4, <1>5 DEF Told
<1>7. /\ \/ task'[w].todo = s
         \/ s # <<>> /\ task'[w].todo = Tail(s)
         \/ task'[w].todo = <<>>
      /\ task'[w].pc = "acting" => job'[w].phase = "guard"
      /\ \A v \in Workers : v # w => task'[v] = task[v]
  <2>1. CASE StartTask(w) \/ EndLoop(w) \/ NothingToRecord(w)
    BY <1>2, <2>1 DEF StartTask, EndLoop, NothingToRecord, To, TaskSet
  <2>2. CASE Finish(w)
    BY <1>2, <2>2, NothingUnderWay DEF Finish
  <2>3. CASE NextItem(w)
    <3>1. s # <<>>
      BY <2>3 DEF NextItem
    <3>2. \/ NextOf(w)
          \/ Begin(w, task[w].deed, First(w).target, First(w).keeper) /\ To(w, "acting")
          \/ To(w, "look")
      BY <2>3, <1>2 DEF NextItem, TidyDeeds, Actions
    <3>3. NextOf(w) => task'[w].todo = Tail(s) /\ task'[w].pc = "next"
      BY <1>2 DEF NextOf, TaskSet
    <3>4. To(w, "acting") \/ To(w, "look") => task'[w].todo = s
      BY <1>2 DEF To, TaskSet
    <3>5. To(w, "look") => task'[w].pc = "look"
      BY <1>2 DEF To, TaskSet
    <3>6. Begin(w, task[w].deed, First(w).target, First(w).keeper) => job'[w].phase = "guard"
      BY <1>2 DEF Begin
    <3>7. \A v \in Workers : v # w => task'[v] = task[v]
      BY <1>2, <3>2 DEF NextOf, To
    <3> QED BY <3>1, <3>2, <3>3, <3>4, <3>5, <3>6, <3>7
  <2> QED BY <2>1, <2>2, <2>3
<1>8. pending = None
  BY <1>1, OthersIdle DEF TidyInv, Captured
<1>9. \A v \in Workers : Batch(table', channel', task'[v].todo)
  <2>1. Batch(table, channel, task'[w].todo)
    BY <1>2, <1>7, NoBatch, BatchRest DEF TidyInv
  <2>2. \A v \in Workers : v # w => task'[v].todo = <<>>
    BY <1>1, <1>7, OthersIdle
  <2> QED BY <1>1, <1>6, <2>1, <2>2, NoBatch, BatchKept
<1>10. Present'
  <2> SUFFICES ASSUME NEW r \in Paths, ListedIn(table, r) PROVE (Sound(r) \/ Told(channel, r))'
    BY <1>1 DEF Present
  <2>1. ~ InDoubt(r)
    BY <1>1, OthersIdle DEF InDoubt
  <2> QED BY <1>1, <1>6, <2>1 DEF TidyInv, Present, Sound, Holds
<1>11. PutAside'
  <2>1. \A v \in Workers : v # w => task'[v].pc # "acting"
    BY <1>1, <1>7, OthersIdle
  <2> QED BY <1>7, <2>1 DEF PutAside
<1>12. GoneOnly'
  BY <1>5 DEF TidyInv, GoneOnly
<1>13. TableInv'
  BY <1>1 DEF TidyInv, TableInv, Unaliased, Copies, Scanned
<1> QED BY <1>1, <1>8, <1>9, <1>10, <1>11, <1>12, <1>13 DEF TidyInv, Captured

LEMMA WorkerTidy ==
  ASSUME TypeInv, Alone, Tidy, TidyInv, Stored, NEW w \in Workers, Worker(w)
  PROVE  TidyInv' /\ Stored'
<1>1. task[w].pc # "idle" /\ Fits(task[w], job[w])
  BY WorkerShape DEF TypeInv, Hands
<1>2. task[w].deed \in TidyDeeds
  BY <1>1, TidyDoing
<1>3. task[w].pc \notin MovePcs \union {"saving"} /\ task[w].renamed = {} /\ task[w].roots = <<>>
  BY <1>1, <1>2 DEF Fits, TidyDeeds, Moves, MovePcs
<1>4. \/ PerformAction(w)
      \/ Settle(w)
      \/ StartTask(w) \/ NextItem(w) \/ EndLoop(w) \/ NothingToRecord(w) \/ Finish(w)
  BY <1>2, <1>3 DEF Worker, EnterRoot, Look, Move, Copy, CopyFails, Unlink, UnlinkFails, Cleanup,
     WriteManifest,
     LoadStore, SaveStore, ForgetRenamed, At, MovePcs, TidyDeeds
<1>5. UNCHANGED <<dir, data>> => Stored'
  <2>1. user' = user
    BY WorkerShape DEF LeavesTyped
  <2> QED BY <2>1 DEF Stored, Scanned, Holds
<1>6. Settle(w) => UNCHANGED <<dir, data>>
  BY DEF Settle, disk
<1> QED BY <1>4, <1>5, <1>6, PerformTidy, SettleTidy, LoopTidy
\* A row, and the places of its dupes.
LEMMA DupePlaces ==
  ASSUME TypeInv, TableInv, NEW g \in DOMAIN table
  PROVE  /\ 1 \in DOMAIN table[g] /\ Head(table[g]) = table[g][1]
         /\ \A p \in Range(Tail(table[g])) :
              \E i \in DOMAIN table[g] : i # 1 /\ p = table[g][i]
         /\ \A i, j \in DOMAIN Tail(table[g]) : Tail(table[g])[i] = Tail(table[g])[j] => i = j
<1> DEFINE r == table[g]
<1>1. r \in Seq(Paths) /\ r # <<>>
  BY RowMembers
<1>2. Len(r) \in Nat /\ Len(Tail(r)) = Len(r) - 1 /\ Tail(r) \in Seq(Paths)
  BY <1>1, FirstAndRest
<1>3. /\ DOMAIN r = 1..Len(r) /\ DOMAIN Tail(r) = 1..(Len(r) - 1) /\ Len(r) > 0 /\ Head(r) = r[1]
      /\ \A i \in 1..(Len(r) - 1) : Tail(r)[i] = r[i + 1]
  BY <1>1, <1>2, EmptySeq, HeadTailProperties
<1>4. ASSUME NEW i \in DOMAIN Tail(r), NEW j \in DOMAIN Tail(r), Tail(r)[i] = Tail(r)[j] PROVE i = j
  <2>1. i + 1 \in DOMAIN r /\ j + 1 \in DOMAIN r /\ r[i + 1] = r[j + 1]
    BY <1>2, <1>3, <1>4
  <2>2. i + 1 = j + 1
    BY <2>1 DEF TableInv, Unaliased
  <2> QED BY <1>2, <1>3, <2>2
<1>5. ASSUME NEW p \in Range(Tail(r)) PROVE \E i \in DOMAIN r : i # 1 /\ p = r[i]
  <2>1. PICK i \in DOMAIN Tail(r) : p = Tail(r)[i]
    BY DEF Range
  <2>2. i + 1 \in DOMAIN r /\ i + 1 # 1 /\ p = r[i + 1]
    BY <1>2, <1>3, <2>1
  <2> QED BY <2>2
<1>6. 1 \in DOMAIN r
  BY <1>2, <1>3
<1> QED BY <1>3, <1>4, <1>5, <1>6

\* No keeper is a dupe, of its own row or another.
LEMMA KeeperOrDupe ==
  ASSUME TypeInv, TableInv, NEW g \in DOMAIN table, NEW h \in DOMAIN table,
         NEW p \in Range(Tail(table[h]))
  PROVE  /\ Head(table[g]) # p
         /\ RowIn(table, Head(table[h]), p)
         /\ p \in Range(Tail(table[g])) => g = h
<1>1. PICK i \in DOMAIN table[h] : i # 1 /\ p = table[h][i]
  BY DupePlaces
<1>2. 1 \in DOMAIN table[g] /\ Head(table[g]) = table[g][1]
  BY DupePlaces
<1>3. Head(table[g]) # p
  BY <1>1, <1>2 DEF TableInv, Unaliased
<1>4. RowIn(table, Head(table[h]), p)
  BY RowMembers DEF RowIn
<1>5. p \in Range(Tail(table[g])) => g = h
  BY RowMembers, OnePlace DEF TableInv
<1> QED BY <1>3, <1>4, <1>5

\* A batch is as it should be when it is put together.
LEMMA GroupBatch ==
  ASSUME TypeInv, TableInv, NEW g \in DOMAIN table
  PROVE  Batch(table, <<>>, [i \in DOMAIN Tail(table[g]) |-> Item(Head(table[g]), Tail(table[g])[i])])
<1> DEFINE k == Head(table[g])
           s == Tail(table[g])
           l == [i \in DOMAIN s |-> Item(k, s[i])]
<1>1. \A i \in DOMAIN l : s[i] \in Range(s) /\ l[i].keeper = k /\ l[i].target = s[i]
  BY DEF Range, Item
<1>2. \A i \in DOMAIN l : RowIn(table, l[i].keeper, l[i].target)
  BY <1>1, KeeperOrDupe
<1>3. \A i, j \in DOMAIN l : l[i].keeper # l[j].target
  BY <1>1, KeeperOrDupe
<1>4. \A i, j \in DOMAIN l : l[i].target = l[j].target => i = j
  BY <1>1, DupePlaces
<1>5. \A p : ~ Told(<<>>, p)
  BY DEF Told, Range
<1> HIDE DEF l
<1>6. Batch(table, <<>>, l)
  BY <1>2, <1>3, <1>4, <1>5 DEF Batch, Range
<1> QED BY <1>6 DEF l

LEMMA VisibleBatch ==
  ASSUME TypeInv, TableInv
  PROVE  Batch(table, <<>>, VisibleDupes)
<1>1. Range(VisibleDupes) = Visible /\ IsInjective(VisibleDupes)
  BY VisibleListed
<1>2. ASSUME NEW it \in Visible
      PROVE  \E g \in DOMAIN table : /\ it.keeper = Head(table[g]) /\ it.target \in Range(Tail(table[g]))
                                     /\ it = Item(it.keeper, it.target)
  BY <1>2 DEF Visible, Item
<1>3. \A it \in Visible : RowIn(table, it.keeper, it.target)
  BY <1>2, KeeperOrDupe
<1>4. \A it, jt \in Visible : it.keeper # jt.target
  BY <1>2, KeeperOrDupe
<1>5. ASSUME NEW it \in Visible, NEW jt \in Visible, it.target = jt.target PROVE it = jt
  <2>1. PICK g \in DOMAIN table : /\ it.keeper = Head(table[g]) /\ it.target \in Range(Tail(table[g]))
                                  /\ it = Item(it.keeper, it.target)
    BY <1>2
  <2>2. PICK h \in DOMAIN table : /\ jt.keeper = Head(table[h]) /\ jt.target \in Range(Tail(table[h]))
                                  /\ jt = Item(jt.keeper, jt.target)
    BY <1>2
  <2>3. g = h
    BY <1>5, <2>1, <2>2, KeeperOrDupe
  <2> HIDE DEF Item
  <2> QED BY <1>5, <2>1, <2>2, <2>3
<1>6. \A p : ~ Told(<<>>, p)
  BY DEF Told, Range
<1>7. ASSUME NEW i \in DOMAIN VisibleDupes, NEW j \in DOMAIN VisibleDupes,
             VisibleDupes[i].target = VisibleDupes[j].target
      PROVE  i = j
  <2>1. VisibleDupes[i] \in Visible /\ VisibleDupes[j] \in Visible
    BY <1>1 DEF Range
  <2>2. VisibleDupes[i] = VisibleDupes[j]
    BY <1>5, <1>7, <2>1
  <2> QED BY <1>1, <2>2 DEF IsInjective
<1> QED BY <1>1, <1>3, <1>4, <1>6, <1>7 DEF Batch
LEMMA ConfirmTidy ==
  ASSUME TypeInv, Alone, Tidy, TidyInv, NEW w \in Workers, Confirm(w)
  PROVE  TidyInv' /\ UNCHANGED <<dir, data, user>>
<1>1. /\ Running = {} /\ channel = <<>> /\ pending # None /\ pending' = None
      /\ UNCHANGED <<user, dir, data, job, table, acted, channel>>
  BY DEF Confirm, MayTouch, Quiet, Tidy, fvars
<1>2. PICK t \in TaskSet :
         /\ task' = [task EXCEPT ![w] = t] /\ t.pc = "start" /\ t.todo = Todo(pending)
         /\ pending.action \in user.offered
  BY ConfirmShape
<1>3. /\ task \in [Workers -> TaskSet]
      /\ \A v \in Workers : task[v].pc = "idle" /\ task[v].todo = <<>>
  BY <1>1, NothingUnderWay DEF TypeInv, TasksTyped, Hands, Fits, Running
<1>4. task'[w].todo = Todo(pending) /\ \A v \in Workers : v # w => task'[v].todo = <<>>
  BY <1>2, <1>3
<1>5. \A v \in Workers : task[v].pc # "acting" /\ task'[v].pc # "acting"
  BY <1>2, <1>3
<1>6. TableInv
  BY DEF TidyInv
<1>7. Batch(table, <<>>, Todo(pending))
  <2>1. pending.action \in {"recycle", "hardlink", "removeAll", "recycleAll"}
    BY <1>2 DEF Tidy
  <2>2. CASE pending.action \in {"recycle", "hardlink"}
    <3>1. pending.action \in ForGroup
      BY <2>2 DEF ForGroup
    <3>2. PICK g \in acted \intersect DOMAIN table :
            pending.keeper = Head(table[g]) /\ pending.dupes = Tail(table[g])
      BY <1>1, <3>1 DEF TidyInv, Captured
    <3>3. Todo(pending) = [i \in DOMAIN pending.dupes |-> Item(pending.keeper, pending.dupes[i])]
      BY <2>2 DEF Todo, ForGroup, ForAll
    <3> QED BY <1>6, <3>2, <3>3, GroupBatch
  <2>3. CASE pending.action \in {"removeAll", "recycleAll"}
    <3>1. Todo(pending) = VisibleDupes
      BY <2>3 DEF Todo, ForGroup, ForAll
    <3> QED BY <1>6, <3>1, VisibleBatch
  <2> QED BY <2>1, <2>2, <2>3
<1>8. \A v \in Workers : Batch(table', channel', task'[v].todo)
  BY <1>1, <1>4, <1>7, NoBatch
<1>9. Present'
  BY <1>1, <1>5 DEF TidyInv, Present, InDoubt, Sound, Holds, Told
<1>10. PutAside'
  BY <1>5 DEF PutAside
<1>11. TableInv' /\ GoneOnly'
  BY <1>1 DEF TidyInv, TableInv, Unaliased, Copies, Scanned, GoneOnly
<1> QED BY <1>1, <1>8, <1>9, <1>10, <1>11 DEF TidyInv, Captured

\* What the user does before that.
LEMMA UserTidy ==
  ASSUME TypeInv, Alone, Tidy, TidyInv, User, \A w \in Workers : ~ Confirm(w)
  PROVE  TidyInv' /\ UNCHANGED <<dir, data, user>>
<1>1. /\ UNCHANGED <<user, dir, data, job, channel, task>>
      /\ Quiet' = Quiet
  BY UserType DEF fvars, Quiet, Running
<1>2. CASE UNCHANGED table
  <2>1. /\ TableInv' /\ Present' /\ PutAside' /\ GoneOnly'
        /\ \A v \in Workers : Batch(table', channel', task'[v].todo)
    <3>1. TableInv' /\ GoneOnly' /\ \A v \in Workers : Batch(table', channel', task'[v].todo)
      BY <1>1, <1>2 DEF TidyInv, TableInv, Unaliased, Copies, Scanned, GoneOnly
    <3>2. Present'
      BY <1>1, <1>2 DEF TidyInv, Present, Sound, Holds, InDoubt, First
    <3>3. PutAside'
      BY <1>1, <1>2 DEF TidyInv, PutAside, Target, Holds
    <3> QED BY <3>1, <3>2, <3>3
  <2>2. Captured'
    <3>1. CASE UNCHANGED <<pending, acted>>
      BY <1>1, <1>2, <3>1 DEF TidyInv, Captured
    <3>2. CASE \E a \in ForGroup : \E g \in DOMAIN table : ClickRow(a, g)
      <4>1. PICK a \in ForGroup, g \in DOMAIN table : ClickRow(a, g)
        BY <3>2
      <4> QED BY <1>1, <1>2, <4>1 DEF ClickRow, MayTouch, Tidy, Captured
    <3>3. CASE \E a \in ForAll \union {"unsuperdeduper"} : ClickAll(a)
      <4>1. PICK a \in ForAll \union {"unsuperdeduper"} : ClickAll(a)
        BY <3>3
      <4>2. a \notin ForGroup
        BY DEF ForGroup, ForAll
      <4> QED BY <1>1, <1>2, <4>1, <4>2 DEF ClickAll, MayTouch, Tidy, Captured
    <3>r. CASE \E k \in DOMAIN manifests : ClickRestore(k)
      <4>1. "archiveRestore" \notin ForGroup
        BY DEF ForGroup
      <4> QED BY <1>1, <1>2, <3>r, <4>1 DEF ClickRestore, MayTouch, Tidy, Captured
    <3>4. CASE Decline
      BY <3>4 DEF Decline, Captured
    <3>5. CASE \E g \in DOMAIN table : \E i \in 2..Len(table[g]) : Promote(g, i)
      BY <3>1, <3>5 DEF Promote
    <3>6. CASE Stop
      BY <3>1, <3>6 DEF Stop, window
    <3> QED BY <3>2, <3>3, <3>r, <3>4, <3>5, <3>6 DEF User
  <2> QED BY <1>1, <2>1, <2>2 DEF TidyInv
<1>3. CASE \E g \in DOMAIN table : \E i \in 2..Len(table[g]) : Promote(g, i)
  <2>1. PICK g \in DOMAIN table : \E i \in 2..Len(table[g]) : Promote(g, i)
    BY <1>3
  <2>2. PICK i \in 2..Len(table[g]) : Promote(g, i)
    BY <2>1
  <2>3. /\ Unaliased(table') /\ Copies(table')
        /\ \A p : ListedIn(table', p) <=> ListedIn(table, p)
        /\ DOMAIN table' = DOMAIN table /\ \A h \in DOMAIN table : h # g => table'[h] = table[h]
    BY <2>2, RowExchanged DEF TidyInv
  <2>4. Running = {} /\ g \notin acted /\ UNCHANGED <<pending, acted>>
    BY <2>2 DEF Promote, MayTouch, Quiet, Tidy
  <2>5. \A v \in Workers : task[v].pc = "idle" /\ task[v].todo = <<>>
    BY <2>4, NothingUnderWay DEF TypeInv, Hands, Fits, Running
  <2>6. \A v \in Workers : Batch(table', channel', task'[v].todo)
    BY <1>1, <2>5, NoBatch
  <2>7. Present'
    BY <1>1, <2>3 DEF TidyInv, Present, Sound, Holds, InDoubt, First
  <2>8. PutAside' /\ GoneOnly'
    BY <1>1, <2>5 DEF TidyInv, PutAside, GoneOnly
  <2>9. TableInv'
    BY <1>1, <2>3 DEF TableInv, Copies, Unaliased, Scanned
  <2>10. Captured'
    BY <1>1, <2>3, <2>4 DEF TidyInv, Captured
  <2> QED BY <1>1, <2>6, <2>7, <2>8, <2>9, <2>10 DEF TidyInv
<1>4. UNCHANGED table \/ \E g \in DOMAIN table : \E i \in 2..Len(table[g]) : Promote(g, i)
  BY DEF User, ClickRow, ClickAll, ClickRestore, Decline, Stop, window
<1> QED BY <1>1, <1>2, <1>3, <1>4

\* The window hears of a file.
LEMMA DrainTidy ==
  ASSUME TypeInv, Alone, Tidy, TidyInv, Drain
  PROVE  TidyInv' /\ UNCHANGED <<dir, data, user>>
<1> DEFINE e == Head(channel)
<1>1. /\ UNCHANGED <<user, dir, data, job, pending, task>>
      /\ channel # <<>> /\ channel' = Tail(channel) /\ channel \in Seq(Events)
  BY DEF Drain, fvars, bounds, TypeInv, WindowTyped
<1>2. /\ e \in Range(channel) /\ Range(channel') \subseteq Range(channel)
      /\ \A x \in Range(channel) : x = e \/ x \in Range(channel')
  BY <1>1, FirstAndRest
<1>3. pending = None
  BY <1>1 DEF TidyInv, Captured, Quiet
<1>4. e \in {Started, Finished} \/ \E q \in Paths : e = Gone(q)
  BY <1>2 DEF TidyInv, GoneOnly
<1>5. /\ \A r : Told(channel', r) => Told(channel, r)
      /\ \A r : Told(channel, r) => e = Gone(r) \/ Told(channel', r)
  BY <1>2 DEF Told
<1>6. GoneOnly'
  BY <1>2 DEF TidyInv, GoneOnly
<1>7. PutAside'
  BY <1>1 DEF TidyInv, PutAside, Target, Holds
<1>8. CASE e \in {Started, Finished}
  <2>1. e.type \in {"started", "finished"} /\ \A r : e # Gone(r)
    BY <1>8 DEF Started, Finished, Gone
  <2>2. table' = table
    BY <2>1 DEF Drain
  <2>3. \A v \in Workers : Batch(table', channel', task'[v].todo)
    BY <1>1, <1>5, <2>2, BatchKept DEF TidyInv
  <2>4. Present'
    BY <1>1, <1>5, <2>1, <2>2 DEF TidyInv, Present, Sound, Holds, InDoubt, First
  <2>5. TableInv'
    BY <1>1, <2>2 DEF TidyInv, TableInv, Unaliased, Copies, Scanned
  <2> QED BY <1>1, <1>3, <1>6, <1>7, <2>3, <2>4, <2>5 DEF TidyInv, Captured
<1>9. CASE \E q \in Paths : e = Gone(q)
  <2>1. PICK q \in Paths : e = Gone(q)
    BY <1>9
  <2>2. e.type = "removed" /\ \A r : Gone(r) = e => r = q
    BY <2>1 DEF Gone
  <2>3. table' = Applied(Gone(q))
    BY <2>1, <2>2 DEF Drain
  <2>4. /\ Unaliased(table') /\ Copies(table') /\ ~ ListedIn(table', q)
        /\ \A p : ListedIn(table', p) => ListedIn(table, p)
        /\ \A p, r : RowIn(table, p, r) /\ p # r /\ p # q /\ r # q => RowIn(table', p, r)
    BY <2>3, Unlisted DEF TidyInv
  <2>5. Told(channel, q)
    BY <1>2, <2>1 DEF Told
  <2>6. ASSUME NEW v \in Workers PROVE Batch(table', channel', task'[v].todo)
    <3>1. Batch(table, channel, task[v].todo)
      BY DEF TidyInv
    <3>2. \A p, r : RowIn(table, p, r) /\ p # r /\ ~ Told(channel, p) /\ ~ Told(channel, r)
                      => RowIn(table', p, r)
      BY <2>4, <2>5
    <3> QED BY <1>1, <1>5, <3>1, <3>2, BatchKept
  <2>7. Present'
    <3> SUFFICES ASSUME NEW r \in Paths, ListedIn(table', r)
                 PROVE  (Sound(r) \/ Told(channel, r) \/ InDoubt(r))'
      BY DEF Present
    <3>1. r # q /\ ListedIn(table, r)
      BY <2>4
    <3>2. Sound(r) \/ Told(channel, r) \/ InDoubt(r)
      BY <3>1 DEF TidyInv, Present
    <3> QED BY <1>1, <1>5, <2>2, <3>1, <3>2 DEF Sound, Holds, InDoubt, First
  <2>8. TableInv'
    BY <1>1, <2>4 DEF TableInv, Unaliased, Copies, Scanned
  <2> QED BY <1>1, <1>3, <1>6, <1>7, <2>6, <2>7, <2>8 DEF TidyInv, Captured
<1> QED BY <1>4, <1>8, <1>9
\* When the scan is done, everything is where it was found.
LEMMA TidyInit ==
  ASSUME TypeInv, Init, Tidy
  PROVE  Stored /\ TidyInv
<1>1. /\ user \in Users /\ channel = <<>> /\ pending = None /\ \A w \in Workers : task[w] = NoTask
  BY DEF Init
<1>2. /\ TableInv /\ Scanned \subseteq Files
      /\ \A p : ListedIn(table, p) => Canon[p] \in Scanned
  BY TableReported DEF Tidy
<1> DEFINE link == CHOOSE l \in [Scanned -> Inodes] : IsInjective(l)
<1>3. \E l \in [Scanned -> Inodes] : IsInjective(l)
  BY <1>1, GuiAssumption DEF GuiAssumption, Scanned
<1>4. link \in [Scanned -> Inodes] /\ IsInjective(link)
  BY <1>3
<1>5. /\ dir = [e \in Entries |-> IF e \in Scanned THEN link[e] ELSE None]
      /\ data = [i \in Inodes |-> IF i \in Range(link)
                                  THEN user.content[CHOOSE f \in Scanned : link[f] = i] ELSE None]
  BY DEF Init
<1> HIDE DEF link
<1>6. ASSUME NEW f \in Scanned PROVE Holds(f, user.content[f])
  <2>1. f \in Entries /\ None \notin Inodes
    BY <1>2, NameTypes
  <2>2. dir[f] = link[f] /\ link[f] \in Inodes /\ link[f] \in Range(link)
    BY <1>4, <1>5, <2>1 DEF Range
  <2>3. (CHOOSE g \in Scanned : link[g] = link[f]) = f
    BY <1>4 DEF IsInjective
  <2>4. data[link[f]] = user.content[f]
    BY <1>5, <2>2, <2>3
  <2> QED BY <2>1, <2>2, <2>4 DEF Holds
<1>7. Stored
  BY <1>6 DEF Stored
<1>8. Present
  BY <1>2, <1>6 DEF Present, Sound
<1>9. /\ PutAside /\ GoneOnly
      /\ \A w \in Workers : Batch(table, channel, task[w].todo)
  BY <1>1, NothingUnderWay, NoBatch DEF PutAside, GoneOnly, Range
<1> QED BY <1>1, <1>2, <1>7, <1>8, <1>9 DEF TidyInv, Captured

\* After the process was killed nothing moves any more.
TidySoFar == Stored /\ (down \/ TidyInv)

LEMMA TidyNext ==
  ASSUME TypeInv, Alone, Tidy, TidySoFar, [Next]_vars
  PROVE  Tidy' /\ TidySoFar'
<1>1. user' = user
  BY SameUser
<1>2. Tidy'
  BY <1>1 DEF Tidy, Unaliased
<1>3. UNCHANGED <<dir, data>> => Stored'
  BY <1>1 DEF TidySoFar, Stored, Scanned, Holds
<1>4. CASE UNCHANGED vars
  <2>1. UNCHANGED <<dir, data, job, table, acted, pending, channel, task, down>>
    BY <1>4 DEF vars, fvars, window
  <2>2. TidyInv => TidyInv'
    <3> SUFFICES ASSUME TidyInv PROVE TidyInv'
      OBVIOUS
    <3>1. TableInv' /\ GoneOnly' /\ \A v \in Workers : Batch(table', channel', task'[v].todo)
      BY <1>1, <2>1 DEF TidyInv, TableInv, Unaliased, Copies, Scanned, GoneOnly
    <3>2. Present'
      BY <1>1, <2>1 DEF TidyInv, Present, Sound, Holds, InDoubt, First
    <3>3. PutAside'
      BY <1>1, <2>1 DEF TidyInv, PutAside, Target, Holds
    <3>4. Captured'
      BY <2>1 DEF TidyInv, Captured, Quiet, Running
    <3> QED BY <3>1, <3>2, <3>3, <3>4 DEF TidyInv
  <2> QED BY <1>2, <1>3, <2>1, <2>2 DEF TidySoFar
<1>5. CASE Crash
  <2>1. down' /\ UNCHANGED <<dir, data>>
    BY <1>5 DEF Crash, disk
  <2> QED BY <1>2, <1>3, <2>1 DEF TidySoFar
<1>6. CASE Next /\ ~ Crash
  <2>1. ~ down
    <3>1. CASE \E w \in Workers : Worker(w)
      BY <3>1, WorkerShape
    <3>2. CASE User \/ Drain
      BY <3>2 DEF User, ClickRow, ClickAll, ClickRestore, Decline, Confirm, Promote, Stop, MayTouch, Drain
    <3> QED BY <1>6, <3>1, <3>2 DEF Next
  <2>2. TidyInv /\ Stored
    BY <2>1 DEF TidySoFar
  <2>3. CASE \E w \in Workers : Worker(w)
    BY <1>2, <2>2, <2>3, WorkerTidy DEF TidySoFar
  <2>4. CASE User \/ Drain
    BY <1>2, <1>3, <2>2, <2>4, ConfirmTidy, UserTidy, DrainTidy DEF TidySoFar
  <2> QED BY <1>6, <2>3, <2>4 DEF Next
<1> QED BY <1>4, <1>5, <1>6

LEMMA TidyAlways == Spec /\ Tidy => [](TypeInv /\ TidySoFar /\ Alone)
<1>1. TypeInv /\ Init /\ Tidy => TidySoFar
  BY TidyInit DEF TidySoFar
<1>2. TypeInv /\ Alone /\ Tidy /\ TidySoFar /\ [Next]_vars => (Tidy /\ TidySoFar)'
  BY TidyNext
<1>3. TypeInv /\ Alone /\ [Next]_vars => Alone'
  BY AloneNext
<1> QED BY <1>1, <1>2, <1>3, AloneInit, Types, PTL DEF Spec

\* "Move {} file(s) to the {}, keeping: {}": however many deletions and links a user who
\* waits for them has confirmed, whichever keepers were exchanged in between, whatever
\* failed half-way and wherever the process was killed, everything the scan reported is
\* on the disk under some name (the file actions of dedupe.rs, the workers of gui/app.rs).
THEOREM CopiesStay == Spec /\ Tidy => []CopyStays
<1>1. TypeInv /\ TidySoFar => CopyStays
  <2> SUFFICES ASSUME TypeInv, Stored, NEW f \in Scanned PROVE user.content[f] \in InPlace
    BY DEF TidySoFar, CopyStays
  <2>1. PICK e \in Scanned : Holds(e, user.content[f])
    BY DEF Stored
  <2> QED BY <2>1, ScannedTypes DEF InPlace, Holds
<1> QED BY <1>1, TidyAlways, PTL

\* Between two actions of such a user, the window lists only files that are there, in rows
\* of copies: what was deleted or left alone, and what the window was told of it, agree
\* (apply_file_action_to_duplicates, gui/state.rs).
THEOREM TableIsTruthful == Spec /\ Tidy => []TableTruthful
<1>1. TypeInv /\ TidySoFar /\ Alone => TableTruthful
  <2> SUFFICES ASSUME TypeInv, TidyInv, Quiet, NEW g \in DOMAIN table,
                      NEW p \in Range(table[g]), NEW q \in Range(table[g])
               PROVE  Exists(Canon[p]) /\ data[dir[Canon[p]]] = data[dir[Canon[q]]]
    BY DEF TidySoFar, TableTruthful
  <2>1. \A w \in Workers : task[w].pc # "acting"
    BY DEF Quiet, Running
  <2>2. \A r : ~ Told(channel, r)
    BY DEF Quiet, Told, Range
  <2>3. \A r \in Range(table[g]) : r \in Paths /\ ListedIn(table, r)
    BY RowMembers DEF ListedIn
  <2>4. Sound(p) /\ Sound(q)
    BY <2>1, <2>2, <2>3 DEF TidyInv, Present, InDoubt
  <2>5. user.content[Canon[p]] = user.content[Canon[q]]
    BY DEF TidyInv, TableInv, Copies
  <2> QED BY <2>4, <2>5 DEF Sound, Holds, Exists
<1> QED BY <1>1, TidyAlways, PTL
=============================================================================
