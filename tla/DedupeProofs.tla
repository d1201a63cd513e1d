---------------------------- MODULE DedupeProofs ----------------------------
(***************************************************************************)
(* What TLAPS proves about Dedupe, for any results file, any number of     *)
(* runs, crashes and invocations.                                          *)
(***************************************************************************)
EXTENDS Dedupe, WellFoundedInduction, TLAPS

\* The members of the group the loops are at are paths of one content.
LEMMA GroupMembers ==
  ASSUME gi \in 1..Len(Groups)
  PROVE  /\ Members \in Seq(Paths)
         /\ \A i \in 1..Len(Members) : /\ Members[i] \in Paths
                                       /\ Canon[Members[i]] \in Files
         /\ \A i, j \in 1..Len(Members) :
              FileContent[Canon[Members[i]]] = FileContent[Canon[Members[j]]]
<1>1. Members \in Seq(Paths)
  BY ResultsAssumption DEF ResultsAssumption, Members
<1>2. \A i \in 1..Len(Members) : Members[i] \in Paths
  BY <1>1
<1>3. \A i \in 1..Len(Members) : Canon[Members[i]] \in Files
  BY <1>2, NamesAssumption DEF NamesAssumption
<1>4. \A i \in 1..Len(Members) : Members[i] \in Range(Members)
  BY <1>1 DEF Range
<1>5. \A p, q \in Range(Members) : FileContent[Canon[p]] = FileContent[Canon[q]]
  BY ResultsAssumption DEF ResultsAssumption, Members
<1> QED BY <1>1, <1>2, <1>3, <1>4, <1>5

\* What a path resolves to, and what its identity reads as, has its type.
LEMMA ResolvingTypes ==
  ASSUME FilesTypeOK, NEW p \in Paths
  PROVE  /\ Canon[p] \in Files /\ Canon[p] \in Entries
         /\ dir[Canon[p]] \in Inodes \union {None}
         /\ CanonicalKey(p) \in Paths
         /\ IdentityReads(p) \subseteq Inodes \union {None}
BY NamesAssumption DEF NamesAssumption, FilesTypeOK, CanonicalKey, IdentityReads

\* The keeper is a member of the group.
LEMMA KeeperIsMember == KeeperChoices \subseteq 1..Len(Members) \union {1}
BY DEF KeeperChoices

-----------------------------------------------------------------------------
(* Type correctness.  TypeInv adds to TypeOK that the indexes are at a      *)
(* member of a group, and that a job names paths.                           *)

JobTyped ==
  job[Cli].phase # "none" =>
    job[Cli].target \in Paths /\ job[Cli].keeper \in Paths /\ job[Cli].action \in Actions

TypeInv == TypeOK /\ LoopsOK /\ JobTyped

LEMMA InitType == Init => TypeInv
<1> SUFFICES ASSUME Init PROVE TypeInv
  OBVIOUS
<1> USE NamesAssumption, ResultsAssumption DEF NamesAssumption, ResultsAssumption
<1>1. PICK link \in [Files -> Inodes] :
        /\ dir = [e \in Entries |-> IF e \in Files THEN link[e] ELSE None]
        /\ data = [i \in Inodes |-> IF \E f \in Files : link[f] = i
                                   THEN FileContent[CHOOSE f \in Files : link[f] = i]
                                   ELSE None]
  BY DEF Init
<1>2. dir \in [Entries -> Inodes \union {None}]
  BY <1>1
<1>3. data \in [Inodes -> Contents \union {None}]
  BY <1>1
<1>4. job \in [Workers -> [phase : Phases, action : Actions \union {None},
                 target : Paths \union {None}, keeper : Paths \union {None},
                 kid : Inodes \union {None}]]
  BY DEF Init, NoJob, Phases
<1>5. tally \in [Outcomes -> Nat]
  BY DEF Init, NoTally
<1>6. gi \in 1..(Len(Groups) + 1)
  BY DEF Init
<1>7. JobTyped
  BY DEF Init, JobTyped, NoJob
<1> QED
  BY <1>2, <1>3, <1>4, <1>5, <1>6, <1>7 DEF Init, TypeInv, TypeOK, FilesTypeOK, LoopsOK

\* A step of the action layer keeps the disk and the job typed.
LEMMA ActType ==
  ASSUME FilesTypeOK, JobTyped, Workers = {Cli},
         (\E allow \in BOOLEAN : GuardKeeper(Cli, allow)) \/ ActStep(Cli)
  PROVE  FilesTypeOK' /\ JobTyped'
<1> USE NamesAssumption DEF NamesAssumption
<1> DEFINE t == Canon[job[Cli].target]
<1> DEFINE k == Canon[job[Cli].keeper]
<1> DEFINE Job == [phase : Phases, action : Actions \union {None},
                   target : Paths \union {None}, keeper : Paths \union {None},
                   kid : Inodes \union {None}]
<1>1. job \in [Workers -> Job] /\ job[Cli] \in Job
  BY DEF FilesTypeOK
<1>2. /\ dir \in [Entries -> Inodes \union {None}]
      /\ data \in [Inodes -> Contents \union {None}]
      /\ trash \in SUBSET Inodes
  BY DEF FilesTypeOK
<1>3. job[Cli].phase # "none"
  BY DEF GuardKeeper, ActStep, GuardTarget, Refused, RemoveFile, Recycle, SafeRenameCheck,
         SafeRename, ClearStale, MoveAside, HardLink, BlockClone, SwapIn, LinkFails,
         DropAside, Restore, Ficlone, FicloneFails, RenameClone
<1>4. /\ job[Cli].target \in Paths /\ job[Cli].keeper \in Paths
      /\ t \in Files /\ k \in Files /\ t \in Entries /\ k \in Entries
      /\ AsideOf[t] \in Entries /\ CloneTmpOf[t] \in Entries /\ SafeNameOf[t] \in Entries
  BY <1>3 DEF JobTyped
<1>5. ASSUME NEW ph \in Phases, Goto(Cli, ph)
      PROVE  job' \in [Workers -> Job] /\ JobTyped'
  <2>1. job' = [job EXCEPT ![Cli] = [job[Cli] EXCEPT !.phase = ph]]
    BY <1>5, <1>1 DEF Goto
  <2>2. [job[Cli] EXCEPT !.phase = ph] \in Job
    BY <1>1
  <2>3. job'[Cli].target = job[Cli].target /\ job'[Cli].keeper = job[Cli].keeper
        /\ job'[Cli].action = job[Cli].action
    BY <2>1, <1>1
  <2> QED BY <2>1, <2>2, <2>3, <1>1, <1>3 DEF JobTyped
<1>6. \A e1, e2 \in Entries : Renamed(dir, e1, e2) \in [Entries -> Inodes \union {None}]
  BY <1>2 DEF Renamed
<1>r. /\ Renamed(dir, t, SafeNameOf[t]) \in [Entries -> Inodes \union {None}]
      /\ Renamed(dir, t, AsideOf[t]) \in [Entries -> Inodes \union {None}]
      /\ Renamed(dir, AsideOf[t], t) \in [Entries -> Inodes \union {None}]
      /\ Renamed(dir, CloneTmpOf[t], t) \in [Entries -> Inodes \union {None}]
  BY <1>4, <1>6
<1>7. \A e \in Entries, x \in Inodes \union {None} :
        [dir EXCEPT ![e] = x] \in [Entries -> Inodes \union {None}]
  BY <1>2
<1>8. FreshInodes \subseteq Inodes
  BY DEF FreshInodes
<1>9. CloneKeeper(Cli) => /\ dir' \in [Entries -> Inodes \union {None}]
                          /\ data' \in [Inodes -> Contents \union {None}]
                          /\ trash' \in SUBSET Inodes
  BY <1>2, <1>4, <1>7, <1>8 DEF CloneKeeper, Exists, Keeper, Target
<1> HIDE DEF t, k, Job
<1>a. ASSUME NEW allow \in BOOLEAN, GuardKeeper(Cli, allow)
      PROVE  FilesTypeOK' /\ JobTyped'
  <2>1. disk' = disk
    BY <1>a DEF GuardKeeper
  <2>2. CASE \E ph \in Phases : Goto(Cli, ph)
    BY <2>1, <2>2, <1>2, <1>5 DEF FilesTypeOK, disk, Job
  <2>3. CASE \E kk \in IdentityReads(job[Cli].keeper) :
               job' = [job EXCEPT ![Cli].phase = "guardTarget", ![Cli].kid = kk]
    <3>1. PICK kk \in Inodes \union {None} :
            job' = [job EXCEPT ![Cli].phase = "guardTarget", ![Cli].kid = kk]
      BY <2>3, <1>4, ResolvingTypes
    <3>2. job' = [job EXCEPT ![Cli] = [job[Cli] EXCEPT !.phase = "guardTarget", !.kid = kk]]
      BY <3>1, <1>1
    <3>3. [job[Cli] EXCEPT !.phase = "guardTarget", !.kid = kk] \in Job
      BY <3>1, <1>1 DEF Job, Phases
    <3>4. job' \in [Workers -> Job] /\ JobTyped'
      BY <3>2, <3>3, <1>1, <1>3 DEF JobTyped, Job
    <3> QED BY <3>4, <2>1, <1>2 DEF FilesTypeOK, disk, Job
  <2> QED BY <1>a, <2>2, <2>3 DEF GuardKeeper, Phases
<1>b. CASE ActStep(Cli)
  <2>1. \E ph \in Phases : Goto(Cli, ph)
    BY <1>b DEF ActStep, GuardTarget, Refused, RemoveFile, Recycle, SafeRenameCheck,
         SafeRename, ClearStale, MoveAside, HardLink, BlockClone, SwapIn, LinkFails,
         DropAside, Restore, Ficlone, FicloneFails, RenameClone, Phases
  <2>2. job' \in [Workers -> Job] /\ JobTyped'
    BY <2>1, <1>5
  <2>3. /\ dir' \in [Entries -> Inodes \union {None}]
        /\ data' \in [Inodes -> Contents \union {None}]
        /\ trash' \in SUBSET Inodes
    <3>1. CASE GuardTarget(Cli) \/ Refused(Cli) \/ LinkFails(Cli) \/ SafeRenameCheck(Cli)
      BY <3>1, <1>2 DEF GuardTarget, Refused, LinkFails, SafeRenameCheck, disk
    <3>2. CASE RemoveFile(Cli)
      BY <3>2, <1>2, <1>4, <1>7 DEF RemoveFile, Target, t
    <3>3. CASE Recycle(Cli)
      BY <3>3, <1>2, <1>4, <1>7 DEF Recycle, Target, t, Exists
    <3>4. CASE SafeRename(Cli)
      BY <3>4, <1>2, <1>r, Zenon DEF SafeRename, Target, t
    <3>5. CASE ClearStale(Cli)
      BY <3>5, <1>2 DEF ClearStale
    <3>6. CASE MoveAside(Cli)
      BY <3>6, <1>2, <1>r, Zenon DEF MoveAside, Target, t
    <3>7. CASE HardLink(Cli)
      BY <3>7, <1>2, <1>4, <1>7 DEF HardLink, Target, Keeper, t, k
    <3>8. CASE BlockClone(Cli) \/ Ficlone(Cli)
      BY <3>8, <1>9 DEF BlockClone, Ficlone
    <3>9. CASE SwapIn(Cli)
      BY <3>9, <1>2, <1>r, Zenon DEF SwapIn, Target, t
    <3>10. CASE DropAside(Cli)
      BY <3>10, <1>2, <1>4, <1>7 DEF DropAside, Target, t
    <3>11. CASE Restore(Cli)
      <4> DEFINE back == Renamed(dir, AsideOf[t], t)
      <4>1. back \in [Entries -> Inodes \union {None}]
        BY <1>r
      <4>2. PICK d \in {back, dir} : dir' = IF job[Cli].action = "reflink"
                                            THEN [d EXCEPT ![CloneTmpOf[t]] = None] ELSE d
        <5>1. PICK d \in {IF Exists(AsideOf[t]) THEN back ELSE dir} \union
                          (IF FlakyCleanup THEN {dir} ELSE {}) :
                dir' = IF job[Cli].action = "reflink"
                       THEN [d EXCEPT ![CloneTmpOf[t]] = None] ELSE d
          BY <3>11, Zenon DEF Restore, Target, t
        <5>2. d \in {back, dir}
          BY ONLY <5>1
        <5> QED BY <5>1, <5>2, Zenon
      <4> HIDE DEF back
      <4>3. d \in [Entries -> Inodes \union {None}]
        BY <4>1, <4>2, <1>2
      <4> QED BY <4>2, <4>3, <3>11, <1>2 DEF Restore
    <3>12. CASE FicloneFails(Cli)
      BY <3>12, <1>2, <1>4, <1>7 DEF FicloneFails, Target, t
    <3>13. CASE RenameClone(Cli)
      <4>1. /\ data' = data /\ trash' = trash
            /\ dir' = Renamed(dir, CloneTmpOf[t], t) \/ dir' = [dir EXCEPT ![CloneTmpOf[t]] = None]
        BY <3>13 DEF RenameClone, Target, t
      <4>3. [dir EXCEPT ![CloneTmpOf[t]] = None] \in [Entries -> Inodes \union {None}]
        BY <1>2
      <4> QED BY <4>1, <4>3, <1>r, <1>2, Zenon
    <3> QED BY <1>b, <3>1, <3>2, <3>3, <3>4, <3>5, <3>6, <3>7, <3>8, <3>9, <3>10, <3>11,
                <3>12, <3>13 DEF ActStep
  <2> QED BY <2>2, <2>3 DEF FilesTypeOK, Job
<1> QED BY <1>a, <1>b

\* Every step keeps the types.
LEMMA NextType == TypeInv /\ [Next]_vars => TypeInv'
<1> SUFFICES ASSUME TypeInv, [Next]_vars PROVE TypeInv'
  OBVIOUS
<1> USE ResultsAssumption DEF ResultsAssumption
<1> USE DEF TypeInv, TypeOK, LoopsOK
<1>g. gi <= Len(Groups) => /\ gi \in 1..Len(Groups)
                           /\ Members \in Seq(Paths) /\ Len(Members) \in Nat
                           /\ \A i \in 1..Len(Members) : Members[i] \in Paths
  BY GroupMembers
<1>n. \A o \in Outcomes : [tally EXCEPT ![o] = @ + 1] \in [Outcomes -> Nat]
  OBVIOUS
<1>j. [job EXCEPT ![Cli] = NoJob] \in [Workers ->
        [phase : Phases, action : Actions \union {None}, target : Paths \union {None},
         keeper : Paths \union {None}, kid : Inodes \union {None}]]
      /\ [job EXCEPT ![Cli] = NoJob][Cli].phase = "none"
  BY DEF FilesTypeOK, NoJob, Phases
<1>k. \A p : p \in Paths => CanonicalKey(p) \in Paths
  BY ResolvingTypes
<1>1. ASSUME NEW a \in Invocations, StartRun(a) PROVE TypeInv'
  <2>1. {CanonicalKey(p) : p \in References} \subseteq Paths
    BY <1>k
  <2>2. fvars' = fvars
    BY <1>1 DEF StartRun
  <2> QED BY <1>1, <2>1, <2>2 DEF StartRun, FilesTypeOK, JobTyped, fvars, NoTally
<1>2. CASE FinishRun
  BY <1>2 DEF FinishRun, FilesTypeOK, JobTyped, fvars
<1>3. CASE SkipGroup
  BY <1>3 DEF SkipGroup, NextGroup, FilesTypeOK, JobTyped, fvars
<1>4. CASE OpenGroup
  <2>1. ki' \in 1..Len(Members) /\ ki' \in Nat \ {0}
    BY <1>4, <1>g, KeeperIsMember DEF OpenGroup
  <2>2. kid' \in Inodes \union {None}
    <3>1. PICK i \in KeeperChoices : ki' = i /\ kid' \in IdentityReads(Members[i])
      BY <1>4 DEF OpenGroup
    <3>2. Members[i] \in Paths
      BY <2>1, <3>1, <1>4, <1>g DEF OpenGroup
    <3> QED BY <3>1, <3>2, ResolvingTypes
  <2> QED BY <1>4, <2>1, <2>2, <1>g DEF OpenGroup, FilesTypeOK, JobTyped, fvars, Members
<1>5. CASE NoKeeper
  <2>1. tally' \in [Outcomes -> Nat]
    BY <1>5, <1>n DEF NoKeeper, Count, Outcomes
  <2> QED BY <1>5, <2>1 DEF NoKeeper, NextGroup, FilesTypeOK, JobTyped, fvars
<1>6. CASE EndOfGroup
  BY <1>6 DEF EndOfGroup, NextGroup, FilesTypeOK, JobTyped, fvars
<1>7. CASE LeaveKeeper
  BY <1>7 DEF LeaveKeeper, FilesTypeOK, JobTyped, fvars, Members
<1>8. CASE PlanMember
  <2>1. tally' \in [Outcomes -> Nat]
    BY <1>8, <1>n, ZenonT(60) DEF PlanMember, Count, Outcomes
  <2>2. /\ mi' \in Nat \ {0} /\ pc' \in {"member", "inspect"}
        /\ pc' = "inspect" => mi' <= Len(Members)
    BY <1>8, SMTT(60) DEF PlanMember
  <2> QED BY <1>8, <2>1, <2>2, SMTT(60) DEF PlanMember, FilesTypeOK, JobTyped, fvars, Members
<1>9. CASE InspectFails
  <2>1. tally' \in [Outcomes -> Nat]
    BY <1>9, <1>n DEF InspectFails, Count, Outcomes
  <2> QED BY <1>9, <2>1 DEF InspectFails, NextGroup, FilesTypeOK, JobTyped, fvars
<1>10. CASE InspectMember
  <2>1. CASE job' = job /\ mi' = mi + 1 /\ pc' = "member" /\ \E o \in Outcomes : Count(o)
    BY <2>1, <1>10, <1>n, SMTT(60) DEF InspectMember, Count, FilesTypeOK, JobTyped, disk, Members
  <2>2. CASE Begin(Cli, args.action, Member, KeeperPath) /\ pc' = "acting"
             /\ UNCHANGED <<tally, mi>>
    <3>1. Member \in Paths /\ KeeperPath \in Paths
      BY <1>10, <1>g DEF InspectMember, Member, KeeperPath
    <3>2. args.action \in Actions
      BY <1>10 DEF InspectMember
    <3>3. FilesTypeOK' /\ JobTyped'
      BY <2>2, <3>1, <3>2, <1>10 DEF Begin, FilesTypeOK, JobTyped, InspectMember, disk, Phases
    <3> QED BY <2>2, <3>3, <1>10 DEF InspectMember, Members
  <2> QED BY <1>10, <2>1, <2>2 DEF InspectMember, Outcomes
<1>11. CASE PerformAction
  <2>1. FilesTypeOK' /\ JobTyped'
    <3>1. args.allowDeduped \in BOOLEAN
      BY <1>11 DEF PerformAction
    <3> QED BY <3>1, <1>11, ActType DEF PerformAction
  <2> QED BY <1>11, <2>1 DEF PerformAction, pvars, Members
<1>12. CASE CountAction
  <2>1. tally' \in [Outcomes -> Nat]
    BY <1>12, <1>n DEF CountAction, Count, Outcomes
  <2>2. FilesTypeOK' /\ JobTyped'
    BY <1>12, <1>j DEF CountAction, disk, FilesTypeOK, JobTyped
  <2> QED BY <1>12, <2>1, <2>2 DEF CountAction, Members
<1>13. CASE Crash
  BY <1>13, <1>j DEF Crash, FilesTypeOK, JobTyped, disk, NoTally
<1>14. CASE Outside
  <2>1. PICK f \in Files : \/ \E c \in Contents : WriteInPlace(f, c)
                           \/ \E c \in Contents : SaveOver(f, c)
                           \/ DeleteFile(f)
    BY <1>14 DEF Outside
  <2>2. FilesTypeOK'
    <3>1. /\ dir' \in [Entries -> Inodes \union {None}]
          /\ data' \in [Inodes -> Contents \union {None}]
          /\ trash' = trash /\ job' = job
      <4>1. f \in Entries /\ FreshInodes \subseteq Inodes
        BY NamesAssumption DEF NamesAssumption, FreshInodes
      <4>2. CASE \E c \in Contents : WriteInPlace(f, c)
        BY <4>1, <4>2, <1>14 DEF WriteInPlace, FilesTypeOK, Exists, Outside
      <4>3. CASE \E c \in Contents : SaveOver(f, c)
        BY <4>1, <4>3, <1>14 DEF SaveOver, FilesTypeOK, Outside
      <4>4. CASE DeleteFile(f)
        BY <4>1, <4>4, <1>14 DEF DeleteFile, FilesTypeOK, Outside
      <4> QED BY <2>1, <4>2, <4>3, <4>4
    <3> QED BY <3>1 DEF FilesTypeOK
  <2> QED BY <1>14, <2>2 DEF Outside, pvars, JobTyped, Members
<1>15. CASE UNCHANGED vars
  BY <1>15 DEF vars, fvars, pvars, FilesTypeOK, JobTyped, Members
<1> QED BY <1>1, <1>2, <1>3, <1>4, <1>5, <1>6, <1>7, <1>8, <1>9, <1>10, <1>11, <1>12, <1>13,
           <1>14, <1>15 DEF Next, Run

\* The types are right in every reachable state: no counter, index, identity or
\* job field leaves the range the code gives it.
THEOREM Typed == Spec => []TypeOK
<1>1. TypeInv => TypeOK
  BY DEF TypeInv
<1> QED BY InitType, NextType, <1>1, PTL DEF Spec

-----------------------------------------------------------------------------
(* No content is lost.  Most steps of a replacement only move things around *)
(* among the three names of their target.                                   *)

NamesOf(t) == {t, AsideOf[t], CloneTmpOf[t]}

LEMMA FamilyStep ==
  ASSUME FilesTypeOK, DiskOK, NamesApart, NEW t \in Files,
         trash' = trash,
         dir' \in [Entries -> Inodes \union {None}],
         \A e \in Entries \ NamesOf(t) : dir'[e] = dir[e],
         \A e \in NamesOf(t) : dir'[e] # None => data'[dir'[e]] = FileContent[t],
         \A i \in Reachable : data'[i] = data[i],
         \E e \in NamesOf(t) : dir'[e] # None
  PROVE  DiskOK' /\ Surviving \subseteq Surviving'
<1> USE NamesAssumption DEF NamesAssumption, NamesApart
<1>1. /\ t \in Entries /\ AsideOf[t] \in Entries /\ CloneTmpOf[t] \in Entries
      /\ \A f \in Files : f \in Entries /\ AsideOf[f] \in Entries /\ CloneTmpOf[f] \in Entries
  OBVIOUS
<1>2. \A e \in Entries : dir[e] # None => dir[e] \in Reachable
  BY DEF Reachable
<1>3. \A e \in Entries \ NamesOf(t) : dir'[e] # None => data'[dir'[e]] = data[dir[e]]
  BY <1>2
<1>4. ASSUME NEW f \in Files
      PROVE  /\ f \in NamesOf(t) => f = t
             /\ AsideOf[f] \in NamesOf(t) => f = t
             /\ CloneTmpOf[f] \in NamesOf(t) => f = t
  BY DEF NamesOf
<1>5. DiskOK'
  <2> SUFFICES ASSUME NEW f \in Files
               PROVE  /\ dir'[f] # None => data'[dir'[f]] = FileContent[f]
                      /\ dir'[AsideOf[f]] # None => data'[dir'[AsideOf[f]]] = FileContent[f]
                      /\ dir'[CloneTmpOf[f]] # None
                           => data'[dir'[CloneTmpOf[f]]] = FileContent[f]
    BY DEF DiskOK, Exists
  <2>1. CASE f = t
    BY <2>1 DEF NamesOf
  <2>2. CASE f # t
    BY <2>2, <1>1, <1>3, <1>4 DEF DiskOK, Exists
  <2> QED BY <2>1, <2>2
<1>6. \A e \in NamesOf(t) : dir[e] # None => data[dir[e]] = FileContent[t]
  BY DEF DiskOK, Exists, NamesOf
<1>7. FileContent[t] \in Surviving'
  <2>1. PICK e \in NamesOf(t) : dir'[e] # None
    OBVIOUS
  <2>2. dir'[e] \in Reachable'
    BY <2>1, <1>1 DEF Reachable, NamesOf
  <2> QED BY <2>1, <2>2 DEF Surviving
<1>8. ASSUME NEW i \in Reachable
      PROVE  data[i] \in Surviving'
  <2>1. CASE i \in trash
    BY <2>1 DEF Reachable, Surviving
  <2>2. CASE \E e \in Entries : dir[e] # None /\ i = dir[e]
    <3>1. PICK e \in Entries : dir[e] # None /\ i = dir[e]
      BY <2>2
    <3>2. CASE e \in NamesOf(t)
      BY <3>1, <3>2, <1>6, <1>7
    <3>3. CASE e \notin NamesOf(t)
      <4>1. dir'[e] = i /\ data'[i] = data[i] /\ dir'[e] # None
        BY <3>1, <3>3
      <4>2. i \in Reachable'
        BY <4>1 DEF Reachable
      <4> QED BY <4>1, <4>2 DEF Surviving
    <3> QED BY <3>2, <3>3
  <2> QED BY <2>1, <2>2 DEF Reachable
<1> QED BY <1>5, <1>8 DEF Surviving

\* The guards change the job only.
LEMMA GuardKeeps ==
  ASSUME IInv, Workers = {Cli}, NEW allow \in BOOLEAN, GuardKeeper(Cli, allow)
  PROVE  JobOK'
<1> DEFINE j == job[Cli]
<1>1. j.phase = "guard" /\ dir' = dir /\ job \in [Workers -> [phase : Phases,
          action : Actions \union {None}, target : Paths \union {None},
          keeper : Paths \union {None}, kid : Inodes \union {None}]]
  BY DEF GuardKeeper, disk, IInv, TypeOK, FilesTypeOK
<1>2. /\ j.target \in Paths /\ j.keeper \in Paths /\ j.action \in Actions
      /\ FileContent[Canon[j.target]] = FileContent[Canon[j.keeper]]
      /\ dir[Canon[j.target]] # None
  BY <1>1 DEF IInv, JobOK, Target, Keeper, Exists
<1>3. CASE Goto(Cli, "failed")
  BY <1>1, <1>2, <1>3 DEF Goto, JobOK, Target, Keeper, Exists
<1>4. CASE Goto(Cli, "act") /\ j.action \in {"hardlink", "reflink"}
  BY <1>1, <1>2, <1>4 DEF Goto, JobOK, Target, Keeper, Exists
<1>5. CASE \E kk \in IdentityReads(j.keeper) :
             job' = [job EXCEPT ![Cli].phase = "guardTarget", ![Cli].kid = kk]
  <2>1. PICK kk \in {None, dir[Canon[j.keeper]]} :
          job' = [job EXCEPT ![Cli].phase = "guardTarget", ![Cli].kid = kk]
    BY <1>5 DEF IdentityReads
  <2>2. /\ job'[Cli].phase = "guardTarget" /\ job'[Cli].kid = kk
        /\ job'[Cli].target = j.target /\ job'[Cli].keeper = j.keeper
        /\ job'[Cli].action = j.action
    BY <2>1, <1>1
  <2> QED BY <2>1, <2>2, <1>1, <1>2 DEF JobOK, Target, Keeper, Exists
<1> QED BY <1>3, <1>4, <1>5 DEF GuardKeeper

\* Every step of an action keeps what is on the disk, and its own place in it.
LEMMA ActKeeps ==
  ASSUME IInv, NamesApart, Workers = {Cli}, ActStep(Cli)
  PROVE  DiskOK' /\ JobOK' /\ Surviving \subseteq Surviving'
<1> USE NamesAssumption DEF NamesAssumption
<1> DEFINE j == job[Cli]
           t == Canon[j.target]
           k == Canon[j.keeper]
           Job == [phase : Phases, action : Actions \union {None},
                   target : Paths \union {None}, keeper : Paths \union {None},
                   kid : Inodes \union {None}]
<1>1. /\ dir \in [Entries -> Inodes \union {None}]
      /\ data \in [Inodes -> Contents \union {None}]
      /\ trash \in SUBSET Inodes
      /\ job \in [Workers -> Job]
      /\ FilesTypeOK /\ DiskOK
  BY DEF IInv, TypeOK, FilesTypeOK
<1>2. FilesTypeOK'
  BY ActType DEF IInv, TypeOK, JobOK, JobTyped
<1>3. dir' \in [Entries -> Inodes \union {None}]
  BY <1>2 DEF FilesTypeOK
<1>4. j.phase # "none"
  BY DEF ActStep, GuardTarget, Refused, RemoveFile, Recycle, SafeRenameCheck,
         SafeRename, ClearStale, MoveAside, HardLink, BlockClone, SwapIn, LinkFails,
         DropAside, Restore, Ficlone, FicloneFails, RenameClone
<1>5. /\ j.target \in Paths /\ j.keeper \in Paths /\ j.action \in Actions
      /\ FileContent[t] = FileContent[k]
      /\ j.phase \in {"guardTarget", "act", "aside", "rename", "cloned", "drop"} => dir[t] # None
      /\ j.phase = "guardTarget" => j.kid \in {None, dir[k]}
      /\ j.phase = "act" /\ j.action = "remove" => dir[k] # None /\ k # t
      /\ j.action = "remove" => j.phase \in {"guard", "guardTarget", "act", "ok", "failed"}
      /\ j.phase \in {"link", "swap", "restore"} => dir[AsideOf[t]] # None
      /\ j.phase = "rename" => dir[SafeNameOf[t]] = None /\ SafeNameOf[t] \notin Files
  BY <1>4 DEF IInv, JobOK, Target, Keeper, Exists
<1>6. /\ t \in Files /\ k \in Files /\ t \in Entries /\ k \in Entries
      /\ AsideOf[t] \in Entries /\ CloneTmpOf[t] \in Entries /\ SafeNameOf[t] \in Entries
      /\ t # AsideOf[t] /\ t # CloneTmpOf[t] /\ AsideOf[t] # CloneTmpOf[t]
  BY <1>5 DEF NamesApart
<1>7. ASSUME NEW e \in NamesOf(t), dir[e] # None
      PROVE  data[dir[e]] = FileContent[t]
  BY <1>1, <1>6, <1>7 DEF DiskOK, Exists, NamesOf
<1>8. dir[k] # None => data[dir[k]] = FileContent[t]
  BY <1>1, <1>5, <1>6 DEF DiskOK, Exists
<1>9. ASSUME NEW ph \in Phases, Goto(Cli, ph),
             ph \in {"act", "aside", "rename", "cloned", "drop"} => dir'[t] # None,
             ph # "guardTarget",
             ph = "act" /\ j.action = "remove" => dir'[k] # None /\ k # t,
             j.action = "remove" => ph \in {"act", "ok", "failed"},
             ph \in {"link", "swap", "restore"} => dir'[AsideOf[t]] # None,
             ph = "rename" => dir'[SafeNameOf[t]] = None /\ SafeNameOf[t] \notin Files,
             ph # "guard"
      PROVE  JobOK'
  <2>1. /\ job'[Cli].phase = ph /\ job'[Cli].target = j.target
        /\ job'[Cli].keeper = j.keeper /\ job'[Cli].action = j.action
    BY <1>1, <1>9 DEF Goto
  <2> QED BY <2>1, <1>5, <1>9 DEF JobOK, Target, Keeper, Exists
<1>10. ASSUME disk' = disk
       PROVE  DiskOK' /\ Surviving \subseteq Surviving' /\ dir' = dir
  BY <1>1, <1>10 DEF disk, DiskOK, Exists, Surviving, Reachable
<1>11. \A e \in Entries : dir[e] # None => dir[e] \in Reachable
  BY DEF Reachable
<1>12. \A i \in Reachable : i \in Inodes
  BY <1>1 DEF Reachable
<1>13. CloneKeeper(Cli) =>
         /\ trash' = trash
         /\ \A e \in Entries \ NamesOf(t) : dir'[e] = dir[e]
         /\ dir'[t] = dir[t] /\ dir'[AsideOf[t]] = dir[AsideOf[t]]
         /\ dir'[CloneTmpOf[t]] # None
         /\ \A i \in Reachable : data'[i] = data[i]
         /\ \A e \in NamesOf(t) : dir'[e] # None => data'[dir'[e]] = FileContent[t]
  <2> SUFFICES ASSUME CloneKeeper(Cli)
               PROVE  /\ trash' = trash
                      /\ \A e \in Entries \ NamesOf(t) : dir'[e] = dir[e]
                      /\ dir'[t] = dir[t] /\ dir'[AsideOf[t]] = dir[AsideOf[t]]
                      /\ dir'[CloneTmpOf[t]] # None
                      /\ \A i \in Reachable : data'[i] = data[i]
                      /\ \A e \in NamesOf(t) : dir'[e] # None => data'[dir'[e]] = FileContent[t]
    OBVIOUS
  <2>1. PICK i \in FreshInodes : /\ dir[k] # None
                                 /\ dir' = [dir EXCEPT ![CloneTmpOf[t]] = i]
                                 /\ data' = [data EXCEPT ![i] = data[dir[k]]]
                                 /\ trash' = trash
    BY DEF CloneKeeper, Exists, Keeper, Target
  <2>2. i \in Inodes /\ i # None /\ i \notin Reachable
    BY <2>1 DEF FreshInodes
  <2>3. \A r \in Reachable : data'[r] = data[r]
    BY <2>1, <2>2, <1>1, <1>12
  <2>4. data'[i] = FileContent[t]
    BY <2>1, <2>2, <1>1, <1>8
  <2>5. \A e \in Entries : e # CloneTmpOf[t] => dir'[e] = dir[e]
    BY <2>1, <1>1, <1>6
  <2>6. dir'[CloneTmpOf[t]] = i
    BY <2>1, <1>1, <1>6
  <2>7. ASSUME NEW e \in NamesOf(t), dir'[e] # None
        PROVE  data'[dir'[e]] = FileContent[t]
    <3>1. CASE e = CloneTmpOf[t]
      BY <3>1, <2>4, <2>6
    <3>2. CASE e # CloneTmpOf[t]
      <4>1. e \in Entries /\ dir'[e] = dir[e] /\ dir[e] # None
        BY <3>2, <2>5, <2>7, <1>6 DEF NamesOf
      <4>2. data[dir[e]] = FileContent[t]
        BY <4>1, <1>7
      <4> QED BY <4>1, <4>2, <2>3, <1>11
    <3> QED BY <3>1, <3>2
  <2> QED BY <2>1, <2>2, <2>3, <2>5, <2>6, <2>7, <1>6 DEF NamesOf
<1> HIDE DEF j, t, k, Job
<1>a. CASE GuardTarget(Cli)
  <2>1. disk' = disk
    BY <1>a DEF GuardTarget
  <2>2. CASE Goto(Cli, "failed")
    BY <2>1, <2>2, <1>9, <1>10 DEF Phases
  <2>3. CASE Goto(Cli, "act")
             /\ \E mid \in IdentityReads(j.target) :
                  ~ \/ j.kid # None /\ j.kid = mid
                    \/ j.action = "remove" /\ (j.kid = None \/ mid = None)
    <3>1. j.phase = "guardTarget"
      BY <1>a DEF GuardTarget, j
    <3>2. PICK mid \in {None, dir[t]} :
                  ~ \/ j.kid # None /\ j.kid = mid
                    \/ j.action = "remove" /\ (j.kid = None \/ mid = None)
      BY <2>3 DEF IdentityReads, t
    <3>3. j.action = "remove" => dir[k] # None /\ k # t
      BY <3>1, <3>2, <1>5
    <3> QED BY <2>1, <2>3, <3>1, <3>3, <1>5, <1>9, <1>10 DEF Phases
  <2> QED BY <1>a, <2>2, <2>3 DEF GuardTarget, j
<1>b. CASE Refused(Cli) \/ LinkFails(Cli)
  <2>1. disk' = disk
    BY <1>b DEF Refused, LinkFails
  <2>2. CASE Goto(Cli, "failed")
    BY <2>1, <2>2, <1>9, <1>10 DEF Phases
  <2>3. CASE Goto(Cli, "restore") /\ j.phase \in {"link", "swap"}
    BY <2>1, <2>3, <1>5, <1>9, <1>10 DEF Phases
  <2> QED BY <1>b, <2>2, <2>3 DEF Refused, LinkFails, j
<1>c. CASE RemoveFile(Cli)
  <2>1. /\ j.phase = "act" /\ j.action = "remove" /\ Goto(Cli, "ok")
        /\ dir' = [dir EXCEPT ![t] = None] /\ data' = data /\ trash' = trash
    BY <1>c DEF RemoveFile, Target, j, t
  <2>2. dir[k] # None /\ k # t
    BY <2>1, <1>5
  <2>3. \A e \in Entries : e # t => dir'[e] = dir[e]
    BY <2>1, <1>1
  <2>4. dir'[t] = None
    BY <2>1, <1>1, <1>6
  <2>5. DiskOK'
    BY <2>1, <2>3, <2>4, <1>1 DEF DiskOK, Exists
  <2>6. FileContent[t] \in Surviving'
    <3>1. dir'[k] = dir[k] /\ dir'[k] \in Reachable'
      BY <2>2, <2>3, <1>6 DEF Reachable
    <3> QED BY <3>1, <2>1, <2>2, <1>8 DEF Surviving
  <2>7. ASSUME NEW i \in Reachable PROVE data[i] \in Surviving'
    <3>1. CASE i \in trash
      BY <3>1, <2>1 DEF Surviving, Reachable
    <3>2. CASE \E e \in Entries : dir[e] # None /\ i = dir[e]
      <4>1. PICK e \in Entries : dir[e] # None /\ i = dir[e]
        BY <3>2
      <4>2. CASE e = t
        BY <4>1, <4>2, <2>6, <1>7 DEF NamesOf
      <4>3. CASE e # t
        <5>1. dir'[e] = i /\ i \in Reachable'
          BY <4>1, <4>3, <2>3 DEF Reachable
        <5> QED BY <5>1, <2>1 DEF Surviving
      <4> QED BY <4>2, <4>3
    <3> QED BY <3>1, <3>2 DEF Reachable
  <2>8. JobOK'
    BY <2>1, <1>9 DEF Phases
  <2> QED BY <2>5, <2>7, <2>8 DEF Surviving
<1>d. CASE Recycle(Cli)
  <2>1. /\ Goto(Cli, "ok") /\ data' = data /\ trash' = trash \union {dir[t]}
        /\ dir' = [dir EXCEPT ![t] = None]
    BY <1>d DEF Recycle, Target, j, t
  <2>2. \A e \in Entries : e # t => dir'[e] = dir[e]
    BY <2>1, <1>1
  <2>3. dir'[t] = None
    BY <2>1, <1>1, <1>6
  <2>4. DiskOK'
    BY <2>1, <2>2, <2>3, <1>1 DEF DiskOK, Exists
  <2>5. \A i \in Reachable : i \in Reachable'
    BY <2>1, <2>2 DEF Reachable
  <2>6. JobOK'
    BY <2>1, <1>9 DEF Phases
  <2> QED BY <2>1, <2>4, <2>5, <2>6 DEF Surviving
<1>e. CASE SafeRenameCheck(Cli)
  <2>1. disk' = disk
    BY <1>e DEF SafeRenameCheck
  <2>2. CASE Goto(Cli, "ok") \/ Goto(Cli, "failed")
    BY <2>1, <2>2, <1>9, <1>10 DEF Phases
  <2>3. CASE Goto(Cli, "rename") /\ j.phase = "act"
             /\ j.action = "safeRename" /\ SafeNameOf[t] # t /\ dir[SafeNameOf[t]] = None
    <3>1. SafeNameOf[t] \notin Files
      BY <2>3, <1>6 DEF NamesApart
    <3> QED BY <2>1, <2>3, <3>1, <1>5, <1>9, <1>10 DEF Phases
  <2> QED BY <1>e, <2>2, <2>3 DEF SafeRenameCheck, Target, Exists, j, t
<1>f. CASE SafeRename(Cli)
  <2> DEFINE safe == SafeNameOf[t]
  <2>1. j.phase = "rename" /\ data' = data /\ trash' = trash
    BY <1>f DEF SafeRename, j
  <2>2. CASE Goto(Cli, "failed") /\ dir' = dir
    BY <2>1, <2>2, <1>9, <1>10 DEF Phases, disk
  <2>3. CASE Goto(Cli, "ok") /\ dir[t] # None /\ dir' = Renamed(dir, t, safe)
    <3>1. /\ dir[safe] = None /\ safe \notin Files /\ safe # t
          /\ \A f \in Files : safe # AsideOf[f] /\ safe # CloneTmpOf[f]
      BY <2>1, <1>5, <1>6
    <3>2. dir' = [dir EXCEPT ![safe] = dir[t], ![t] = None]
      BY <2>3, <3>1 DEF Renamed
    <3>3. /\ \A e \in Entries : e # t /\ e # safe => dir'[e] = dir[e]
          /\ dir'[safe] = dir[t] /\ dir'[t] = None
      BY <3>1, <3>2, <1>1, <1>6
    <3>4. DiskOK'
      BY <2>1, <3>1, <3>3, <1>1 DEF DiskOK, Exists
    <3>5. \A i \in Reachable : i \in Reachable'
      BY <2>1, <2>3, <3>1, <3>3, <1>6 DEF Reachable
    <3>6. JobOK'
      BY <2>3, <1>9 DEF Phases
    <3> QED BY <2>1, <3>4, <3>5, <3>6 DEF Surviving
  <2> QED BY <1>f, <2>2, <2>3 DEF SafeRename, Target, Exists, t, j
\* The rest moves the content of t among its three names, by FamilyStep.
<1>13a. ASSUME trash' = trash,
               \A e \in Entries \ NamesOf(t) : dir'[e] = dir[e],
               \A e \in NamesOf(t) : dir'[e] # None => data'[dir'[e]] = FileContent[t],
               \A i \in Reachable : data'[i] = data[i],
               \E e \in NamesOf(t) : dir'[e] # None
        PROVE  DiskOK' /\ Surviving \subseteq Surviving'
  BY <1>13a, <1>1, <1>3, <1>6, FamilyStep DEF IInv
\* Moving one of the names onto another one.
<1>14. ASSUME NEW from \in NamesOf(t), NEW to \in NamesOf(t), from # to,
              dir[from] # None, dir' = Renamed(dir, from, to),
              data' = data, trash' = trash
       PROVE  DiskOK' /\ Surviving \subseteq Surviving' /\ dir'[to] # None
  <2>1. from \in Entries /\ to \in Entries
    BY <1>6 DEF NamesOf
  <2>2. /\ \A e \in Entries \ {from, to} : dir'[e] = dir[e]
        /\ dir'[to] = dir[from] /\ dir'[from] \in {None, dir[from]}
    BY <1>14, <2>1, <1>1 DEF Renamed
  <2>3. \A e \in Entries \ NamesOf(t) : dir'[e] = dir[e]
    BY <2>2
  <2>4. ASSUME NEW e \in NamesOf(t), dir'[e] # None
        PROVE  data'[dir'[e]] = FileContent[t]
    <3>1. e \in Entries
      BY <1>6 DEF NamesOf
    <3>2. dir'[e] = dir[e] \/ dir'[e] = dir[from]
      BY <3>1, <2>2, <2>4
    <3> QED BY <3>2, <2>4, <1>7, <1>14
  <2>5. dir'[to] # None
    BY <2>2, <1>14
  <2> QED BY <2>3, <2>4, <2>5, <1>13a, <1>14
\* Clearing some of the names while another one stays.
<1>15. ASSUME NEW gone \in SUBSET NamesOf(t), NEW stays \in NamesOf(t) \ gone,
              dir[stays] # None,
              dir' = [e \in Entries |-> IF e \in gone THEN None ELSE dir[e]],
              data' = data, trash' = trash
       PROVE  DiskOK' /\ Surviving \subseteq Surviving' /\ dir'[stays] # None
  <2>1. \A e \in Entries : dir'[e] = IF e \in gone THEN None ELSE dir[e]
    BY <1>15
  <2>2. \A e \in NamesOf(t) : e \in Entries
    BY <1>6 DEF NamesOf
  <2>3. \A e \in NamesOf(t) : dir'[e] # None => dir'[e] = dir[e]
    BY <2>1, <2>2
  <2>4. \A e \in NamesOf(t) : dir'[e] # None => data'[dir'[e]] = FileContent[t]
    BY <2>3, <1>7, <1>15
  <2>5. dir'[stays] # None
    BY <2>1, <2>2, <1>15
  <2> QED BY <2>1, <2>4, <2>5, <1>13a, <1>15
<1>16. t \in NamesOf(t) /\ AsideOf[t] \in NamesOf(t) /\ CloneTmpOf[t] \in NamesOf(t)
  BY DEF NamesOf
<1>g. CASE ClearStale(Cli)
  <2>1. PICK gone \in {{AsideOf[t]}, {AsideOf[t], CloneTmpOf[t]}} :
          dir' = [e \in Entries |-> IF e \in gone THEN None ELSE dir[e]]
    BY <1>g DEF ClearStale, Target, j, t
  <2>2. /\ j.phase = "act" /\ data' = data /\ trash' = trash /\ j.action # "remove"
        /\ Goto(Cli, "failed") \/ Goto(Cli, "aside")
    BY <1>g DEF ClearStale, MovesAside, j
  <2>3. DiskOK' /\ Surviving \subseteq Surviving' /\ dir'[t] # None
    <3>1. dir[t] # None
      BY <2>2, <1>5
    <3>2. gone \in SUBSET NamesOf(t) /\ t \in NamesOf(t) \ gone
      BY <1>6, <1>16
    <3>3. DiskOK' /\ Surviving \subseteq Surviving'
      BY <3>1, <3>2, <2>1, <2>2, <1>15, SMTT(60)
    <3>4. dir'[t] # None
      BY <3>1, <3>2, <2>1, <1>6
    <3> QED BY <3>3, <3>4
  <2>4. JobOK'
    BY <2>2, <2>3, <1>9 DEF Phases
  <2> QED BY <2>3, <2>4
<1>h. CASE MoveAside(Cli)
  <2>1. data' = data /\ trash' = trash /\ j.action # "remove"
    BY <1>h, <1>5 DEF MoveAside, j
  <2>2. CASE dir' = dir /\ Goto(Cli, "failed")
    BY <2>1, <2>2, <1>9, <1>10 DEF Phases, disk
  <2>3. CASE dir[t] # None /\ dir' = Renamed(dir, t, AsideOf[t]) /\ Goto(Cli, "link")
    <3>1. DiskOK' /\ Surviving \subseteq Surviving' /\ dir'[AsideOf[t]] # None
      BY <2>1, <2>3, <1>6, <1>14, <1>16
    <3> QED BY <3>1, <2>1, <2>3, <1>9 DEF Phases
  <2> QED BY <1>h, <2>2, <2>3 DEF MoveAside, Target, Exists, j, t
<1>i. CASE HardLink(Cli)
  <2>1. /\ dir[k] # None /\ dir' = [dir EXCEPT ![t] = dir[k]]
        /\ data' = data /\ trash' = trash /\ Goto(Cli, "drop") /\ j.action = "hardlink"
    BY <1>i DEF HardLink, Keeper, Target, Exists, j, t, k
  <2>2. /\ dir'[t] = dir[k] /\ \A e \in Entries : e # t => dir'[e] = dir[e]
    BY <2>1, <1>1, <1>6
  <2>3. \A e \in NamesOf(t) : dir'[e] # None => data'[dir'[e]] = FileContent[t]
    BY <2>1, <2>2, <1>6, <1>7, <1>8 DEF NamesOf
  <2>4. DiskOK' /\ Surviving \subseteq Surviving'
    BY <2>1, <2>2, <2>3, <1>13a, <1>16
  <2>5. JobOK'
    BY <2>1, <2>2, <1>9 DEF Phases
  <2> QED BY <2>4, <2>5
<1>j. CASE BlockClone(Cli) \/ Ficlone(Cli)
  <2>1. CloneKeeper(Cli)
    BY <1>j DEF BlockClone, Ficlone
  <2>2. DiskOK' /\ Surviving \subseteq Surviving'
    BY <2>1, <1>13, <1>13a, <1>16
  <2>3. CASE BlockClone(Cli)
    <3>1. j.phase = "link" /\ Goto(Cli, "swap") /\ j.action = "reflink"
      BY <2>3 DEF BlockClone, j
    <3> QED BY <3>1, <2>1, <2>2, <1>5, <1>9, <1>13 DEF Phases
  <2>4. CASE Ficlone(Cli)
    <3>1. j.phase = "act" /\ Goto(Cli, "cloned") /\ j.action = "reflink"
      BY <2>4 DEF Ficlone, j
    <3> QED BY <3>1, <2>1, <2>2, <1>5, <1>9, <1>13 DEF Phases
  <2> QED BY <1>j, <2>3, <2>4
<1>k. CASE SwapIn(Cli)
  <2>1. /\ dir[CloneTmpOf[t]] # None /\ dir' = Renamed(dir, CloneTmpOf[t], t)
        /\ data' = data /\ trash' = trash /\ Goto(Cli, "drop") /\ j.phase = "swap"
    BY <1>k DEF SwapIn, Target, Exists, j, t
  <2>2. DiskOK' /\ Surviving \subseteq Surviving' /\ dir'[t] # None
    BY <2>1, <1>6, <1>14, <1>16
  <2> QED BY <2>1, <2>2, <1>5, <1>9 DEF Phases
<1>l. CASE DropAside(Cli)
  <2>1. /\ j.phase = "drop" /\ data' = data /\ trash' = trash /\ Goto(Cli, "ok")
        /\ dir' = dir \/ dir' = [dir EXCEPT ![AsideOf[t]] = None]
    BY <1>l DEF DropAside, Target, t, j
  <2>2. CASE dir' = dir
    BY <2>1, <2>2, <1>9, <1>10 DEF Phases, disk
  <2>3. CASE dir' = [dir EXCEPT ![AsideOf[t]] = None]
    <3>1. dir' = [e \in Entries |-> IF e \in {AsideOf[t]} THEN None ELSE dir[e]]
      BY <2>3, <1>1
    <3>2. {AsideOf[t]} \in SUBSET NamesOf(t) /\ t \in NamesOf(t) \ {AsideOf[t]}
      BY <1>6, <1>16
    <3>3. DiskOK' /\ Surviving \subseteq Surviving'
      <4>1. dir[t] # None
        BY <2>1, <1>5
      <4> QED BY <4>1, <3>1, <3>2, <2>1, <1>15, ZenonT(60)
    <3> QED BY <3>3, <2>1, <1>9 DEF Phases
  <2> QED BY <2>1, <2>2, <2>3
<1>m. CASE Restore(Cli)
  <2> DEFINE back == Renamed(dir, AsideOf[t], t)
  <2>1. /\ j.phase = "restore" /\ data' = data /\ trash' = trash /\ Goto(Cli, "failed")
        /\ dir[AsideOf[t]] # None
    BY <1>m, <1>5 DEF Restore, j
  <2>2. PICK d \in {back, dir} : dir' = IF j.action = "reflink"
                                        THEN [d EXCEPT ![CloneTmpOf[t]] = None] ELSE d
    <3>1. PICK d \in {back} \union (IF FlakyCleanup THEN {dir} ELSE {}) :
            dir' = IF j.action = "reflink" THEN [d EXCEPT ![CloneTmpOf[t]] = None] ELSE d
      BY <1>m, <2>1 DEF Restore, Target, Exists, j, t
    <3>2. d \in {back, dir}
      BY ONLY <3>1
    <3> QED BY <3>1, <3>2, Zenon
  <2>3. \E stays \in {t, AsideOf[t]} : d[stays] # None
    <3>1. CASE d = back
      <4>1. d[t] # None
        BY <3>1, <2>1, <1>1, <1>6 DEF Renamed
      <4> QED BY <4>1
    <3>2. CASE d = dir
      BY <3>2, <2>1
    <3> QED BY <2>2, <3>1, <3>2
  <2>4. d \in [Entries -> Inodes \union {None}]
    BY <1>1, <2>2, <1>6 DEF Renamed
  <2>5. /\ \A e \in Entries \ NamesOf(t) : d[e] = dir[e]
        /\ \A e \in NamesOf(t) : d[e] # None => data[d[e]] = FileContent[t]
    <3>1. CASE d = dir
      BY <3>1, <1>7
    <3>2. CASE d = back
      <4>1. /\ d[t] = dir[AsideOf[t]] /\ d[AsideOf[t]] \in {None, dir[AsideOf[t]]}
            /\ \A e \in Entries \ {t, AsideOf[t]} : d[e] = dir[e]
        BY <3>2, <1>1, <1>6 DEF Renamed
      <4> QED BY <4>1, <2>1, <1>6, <1>7, <1>16 DEF NamesOf
    <3> QED BY <2>2, <3>1, <3>2
  <2>6. /\ \A e \in Entries : e # CloneTmpOf[t] => dir'[e] = d[e]
        /\ dir'[CloneTmpOf[t]] \in {None, d[CloneTmpOf[t]]}
    BY <2>2, <2>4, <1>6
  <2>7. /\ \A e \in Entries \ NamesOf(t) : dir'[e] = dir[e]
        /\ \E e \in NamesOf(t) : dir'[e] # None
    BY <2>3, <2>5, <2>6, <1>6 DEF NamesOf
  <2>8. ASSUME NEW e \in NamesOf(t), dir'[e] # None
        PROVE  data'[dir'[e]] = FileContent[t]
    <3>1. dir'[e] = d[e]
      BY <2>6, <2>8, <1>6 DEF NamesOf
    <3> QED BY <3>1, <2>1, <2>5, <2>8
  <2>9. DiskOK' /\ Surviving \subseteq Surviving'
    BY <2>1, <2>7, <2>8, <1>13a
  <2> QED BY <2>1, <2>9, <1>9 DEF Phases
<1>n. CASE FicloneFails(Cli)
  <2>1. /\ j.phase = "act" /\ data' = data /\ trash' = trash /\ Goto(Cli, "failed")
        /\ dir' = dir \/ dir' = [dir EXCEPT ![CloneTmpOf[t]] = None]
    BY <1>n DEF FicloneFails, Target, t, j
  <2>2. CASE dir' = dir
    BY <2>1, <2>2, <1>9, <1>10 DEF Phases, disk
  <2>3. CASE dir' = [dir EXCEPT ![CloneTmpOf[t]] = None]
    <3>1. dir' = [e \in Entries |-> IF e \in {CloneTmpOf[t]} THEN None ELSE dir[e]]
      BY <2>3, <1>1
    <3>2. {CloneTmpOf[t]} \in SUBSET NamesOf(t) /\ t \in NamesOf(t) \ {CloneTmpOf[t]}
      BY <1>6, <1>16
    <3>3. DiskOK' /\ Surviving \subseteq Surviving'
      <4>1. dir[t] # None
        BY <2>1, <1>5
      <4> QED BY <4>1, <3>1, <3>2, <2>1, <1>15, ZenonT(60)
    <3> QED BY <3>3, <2>1, <1>9 DEF Phases
  <2> QED BY <2>1, <2>2, <2>3
<1>o. CASE RenameClone(Cli)
  <2>1. j.phase = "cloned" /\ data' = data /\ trash' = trash /\ dir[t] # None
    BY <1>o, <1>5 DEF RenameClone, j
  <2>2. CASE dir[CloneTmpOf[t]] # None /\ dir' = Renamed(dir, CloneTmpOf[t], t) /\ Goto(Cli, "ok")
    <3>1. DiskOK' /\ Surviving \subseteq Surviving'
      BY <2>1, <2>2, <1>6, <1>14, <1>16
    <3> QED BY <3>1, <2>2, <1>9 DEF Phases
  <2>3. CASE dir' = [dir EXCEPT ![CloneTmpOf[t]] = None] /\ Goto(Cli, "failed")
    <3>1. dir' = [e \in Entries |-> IF e \in {CloneTmpOf[t]} THEN None ELSE dir[e]]
      BY <2>3, <1>1
    <3>2. {CloneTmpOf[t]} \in SUBSET NamesOf(t) /\ t \in NamesOf(t) \ {CloneTmpOf[t]}
      BY <1>6, <1>16
    <3>3. DiskOK' /\ Surviving \subseteq Surviving'
      BY <3>1, <3>2, <2>1, <1>15, ZenonT(60)
    <3> QED BY <3>3, <2>3, <1>9 DEF Phases
  <2> QED BY <1>o, <2>2, <2>3 DEF RenameClone, Target, Exists, j, t
<1> QED BY <1>a, <1>b, <1>c, <1>d, <1>e, <1>f, <1>g, <1>h, <1>i, <1>j, <1>k, <1>l, <1>m, <1>n,
           <1>o DEF ActStep

-----------------------------------------------------------------------------
(* The inductive invariant.                                                *)

LEMMA InitInv == NamesApart /\ Init => IInv
<1> SUFFICES ASSUME NamesApart, Init PROVE IInv
  OBVIOUS
<1> USE NamesAssumption, ResultsAssumption DEF NamesAssumption, ResultsAssumption
<1>1. TypeOK /\ LoopsOK
  BY InitType DEF TypeInv
<1>2. PICK link \in [Files -> Inodes] :
        /\ \A e, f \in Files : link[e] = link[f] => FileContent[e] = FileContent[f]
        /\ dir = [e \in Entries |-> IF e \in Files THEN link[e] ELSE None]
        /\ data = [i \in Inodes |-> IF \E f \in Files : link[f] = i
                                   THEN FileContent[CHOOSE f \in Files : link[f] = i]
                                   ELSE None]
  BY DEF Init
<1>3. ASSUME NEW f \in Files
      PROVE  dir[f] = link[f] /\ dir[f] # None /\ data[dir[f]] = FileContent[f]
  <2>1. dir[f] = link[f] /\ link[f] \in Inodes
    BY <1>2
  <2>2. LET g == CHOOSE g \in Files : link[g] = link[f]
        IN  g \in Files /\ link[g] = link[f]
    OBVIOUS
  <2>3. data[link[f]] = FileContent[CHOOSE g \in Files : link[g] = link[f]]
    BY <1>2, <2>1
  <2> QED BY <1>2, <2>1, <2>2, <2>3
<1>4. ASSUME NEW e \in Entries \ Files PROVE dir[e] = None
  BY <1>2
<1>5. DiskOK
  BY <1>3, <1>4 DEF DiskOK, Exists, NamesApart
<1>6. ContentSurvives
  BY <1>3 DEF ContentSurvives, Surviving, Reachable
<1>7. JobOK /\ Validated
  BY DEF Init, JobOK, NoJob, Validated
<1> QED BY <1>1, <1>5, <1>6, <1>7 DEF IInv

\* A change by another program is counted, and never forgotten.
LEMMA OutsideCounts ==
  ASSUME TypeInv, [Next]_vars
  PROVE  /\ Outside <=> outside' # outside
         /\ Outside => outside' # 0
         /\ outside' = 0 => outside = 0
<1>1. outside \in Nat
  BY DEF TypeInv, TypeOK
<1>2. Outside => outside' = outside + 1
  BY DEF Outside
<1>3. ~ Outside => outside' = outside
  BY DEF Next, Run, StartRun, FinishRun, SkipGroup, OpenGroup, NoKeeper, EndOfGroup, LeaveKeeper,
         PlanMember, InspectFails, InspectMember, PerformAction, CountAction, Crash, vars
<1> QED BY <1>1, <1>2, <1>3

LEMMA NextInv ==
  ASSUME NamesApart, IInv, [Next]_vars, outside' = 0
  PROVE  IInv'
<1> USE ResultsAssumption DEF ResultsAssumption
<1>t. TypeInv
  BY DEF IInv, TypeInv, JobOK, JobTyped
<1>1. TypeOK' /\ LoopsOK'
  BY <1>t, NextType DEF TypeInv
<1>2. ASSUME disk' = disk PROVE DiskOK' /\ ContentSurvives'
  BY <1>2 DEF IInv, disk, DiskOK, ContentSurvives, Surviving, Reachable, Exists
<1>3. ASSUME disk' = disk, job' = job PROVE JobOK'
  BY <1>3 DEF IInv, disk, JobOK, Target, Keeper, Exists
<1>4. ASSUME job' = [job EXCEPT ![Cli] = NoJob] PROVE JobOK'
  BY <1>4 DEF IInv, TypeOK, FilesTypeOK, JobOK, NoJob
<1>5. \/ \E a \in Invocations : StartRun(a)
      \/ FinishRun \/ SkipGroup \/ OpenGroup \/ NoKeeper
      \/ EndOfGroup \/ LeaveKeeper \/ PlanMember \/ InspectFails
      \/ InspectMember \/ PerformAction \/ CountAction \/ Crash \/ UNCHANGED vars
  BY <1>t, OutsideCounts DEF Next, Run
<1>6. CASE \/ \E a \in Invocations : StartRun(a)
           \/ FinishRun \/ SkipGroup \/ OpenGroup \/ NoKeeper
           \/ EndOfGroup \/ LeaveKeeper \/ InspectFails
  <2>1. disk' = disk /\ job' = job /\ pc' # "inspect"
    BY <1>6 DEF StartRun, FinishRun, SkipGroup, OpenGroup, NoKeeper, EndOfGroup, LeaveKeeper,
                InspectFails, NextGroup, fvars, disk
  <2> QED BY <1>1, <1>2, <1>3, <2>1 DEF IInv, Validated
<1>7. CASE PlanMember
  <2>1. disk' = disk /\ job' = job
    BY <1>7 DEF PlanMember, fvars, disk
  <2>2. pc' = "inspect" => SizeUnchanged(Member) /\ mi' = mi /\ gi' = gi
    BY <1>7 DEF PlanMember
  <2>3. Validated'
    BY <2>1, <2>2 DEF Validated, SizeUnchanged, Exists, Member, Members, disk
  <2> QED BY <1>1, <1>2, <1>3, <2>1, <2>3 DEF IInv
<1>8. CASE InspectMember
  <2>1. disk' = disk /\ pc' # "inspect" /\ pc = "inspect"
    BY <1>8 DEF InspectMember
  <2>2. CASE job' = job
    BY <1>1, <1>2, <1>3, <2>1, <2>2 DEF IInv, Validated
  <2>3. CASE Begin(Cli, args.action, Member, KeeperPath)
    <3>1. /\ gi \in 1..Len(Groups) /\ mi \in 1..Len(Members) /\ ki \in 1..Len(Members)
          /\ args.action \in Actions
      BY <2>1, <1>t DEF TypeInv, TypeOK, LoopsOK
    <3>2. /\ Member \in Paths /\ KeeperPath \in Paths
          /\ FileContent[Canon[Member]] = FileContent[Canon[KeeperPath]]
      BY <3>1, GroupMembers DEF Member, KeeperPath
    <3>3. dir'[Canon[Member]] # None
      BY <2>1 DEF IInv, Validated, Exists, disk
    <3>4. /\ job'[Cli].phase = "guard" /\ job'[Cli].target = Member
          /\ job'[Cli].keeper = KeeperPath /\ job'[Cli].action = args.action
      BY <2>3, <1>t DEF Begin, TypeInv, TypeOK, FilesTypeOK
    <3>5. JobOK'
      BY <3>1, <3>2, <3>3, <3>4 DEF JobOK, Target, Keeper, Exists
    <3> QED BY <1>1, <1>2, <2>1, <3>5 DEF IInv, Validated
  <2> QED BY <1>8, <2>2, <2>3 DEF InspectMember
<1>9. CASE PerformAction
  <2>1. pc' # "inspect" /\ args.allowDeduped \in BOOLEAN
    BY <1>9, <1>t DEF PerformAction, pvars, TypeInv, TypeOK, LoopsOK
  <2>2. CASE GuardKeeper(Cli, args.allowDeduped)
    <3>1. PICK allow \in BOOLEAN : GuardKeeper(Cli, allow)
      BY <2>1, <2>2
    <3>2. disk' = disk
      BY <3>1 DEF GuardKeeper
    <3>3. JobOK'
      BY <3>1, GuardKeeps
    <3> QED BY <1>1, <1>2, <2>1, <3>2, <3>3 DEF IInv, Validated
  <2>3. CASE ActStep(Cli)
    <3>1. DiskOK' /\ JobOK' /\ Surviving \subseteq Surviving'
      BY <2>3, ActKeeps
    <3>2. ContentSurvives'
      BY <3>1 DEF IInv, ContentSurvives
    <3> QED BY <1>1, <2>1, <3>1, <3>2 DEF IInv, Validated
  <2> QED BY <1>9, <2>2, <2>3 DEF PerformAction
<1>10. CASE CountAction \/ Crash
  <2>1. disk' = disk /\ job' = [job EXCEPT ![Cli] = NoJob] /\ pc' # "inspect"
    BY <1>10 DEF CountAction, Crash
  <2> QED BY <1>1, <1>2, <1>4, <2>1 DEF IInv, Validated
<1>11. CASE UNCHANGED vars
  <2>1. disk' = disk /\ job' = job /\ pc' = pc /\ gi' = gi /\ mi' = mi
    BY <1>11 DEF vars, fvars, pvars, disk
  <2>2. Validated'
    BY <2>1 DEF IInv, Validated, Exists, disk, Member, Members
  <2> QED BY <1>1, <1>2, <1>3, <2>1, <2>2 DEF IInv
<1> QED BY <1>5, <1>6, <1>7, <1>8, <1>9, <1>10, <1>11

\* As long as other programs have changed nothing, the invariant holds.
Undisturbed == TypeInv /\ (outside = 0 => IInv)

LEMMA Undisturbance == NamesApart => (Spec => []Undisturbed)
<1> SUFFICES ASSUME NamesApart PROVE Spec => []Undisturbed
  OBVIOUS
<1>1. Init => Undisturbed
  BY InitInv, InitType DEF Undisturbed
<1>2. Undisturbed /\ [Next]_vars => Undisturbed'
  BY NextType, NextInv, OutsideCounts DEF Undisturbed
<1> QED BY <1>1, <1>2, PTL DEF Spec

\* Whatever the groups, the arguments of the runs, their number and the places
\* where they are killed, no content of the results file is ever lost, provided
\* that derived names do not clash and that nobody else changes the files.
THEOREM NothingLost ==
  ASSUME NamesApart, MaxOutside = 0
  PROVE  Spec => []ContentSurvives
<1>1. Undisturbed => ContentSurvives
  BY DEF Undisturbed, TypeInv, TypeOK, IInv
<1> QED BY <1>1, Undisturbance, PTL

\* A step takes the keeper of a removal away only if the keeper is the target.
LEMMA RemovalStep ==
  ASSUME MaxOutside = 0, IInv, [Next]_vars, NEW w \in Workers,
         job[w].action = "remove", Exists(Keeper(w))
  PROVE  dir'[Keeper(w)] # None
<1> USE ResultsAssumption DEF ResultsAssumption
<1>1. w = Cli
  OBVIOUS
<1>2. CASE disk' = disk
  BY <1>2 DEF disk, Exists
<1>3. CASE disk' # disk
  <2>1. ActStep(Cli)
    BY <1>3 DEF Next, Run, Outside, IInv, TypeOK, StartRun, FinishRun, SkipGroup, OpenGroup,
         NoKeeper, EndOfGroup, LeaveKeeper, PlanMember, InspectFails, InspectMember,
         PerformAction, GuardKeeper, CountAction, Crash, vars, fvars, disk
  <2>2. job[Cli].phase # "none"
    BY <2>1 DEF ActStep, GuardTarget, Refused, RemoveFile, Recycle, SafeRenameCheck,
         SafeRename, ClearStale, MoveAside, HardLink, BlockClone, SwapIn, LinkFails,
         DropAside, Restore, Ficlone, FicloneFails, RenameClone
  <2>3. /\ job[Cli].phase \in {"guard", "guardTarget", "act", "ok", "failed"}
        /\ job[Cli].phase = "act" => Keeper(Cli) # Target(Cli)
    BY <1>1, <2>2 DEF IInv, JobOK
  <2>4. RemoveFile(Cli)
    BY <1>1, <1>3, <2>1, <2>3 DEF ActStep, GuardTarget, Refused, Recycle, SafeRenameCheck,
         SafeRename, ClearStale, MovesAside, MoveAside, HardLink, BlockClone, SwapIn, LinkFails,
         DropAside, Restore, Ficlone, FicloneFails, RenameClone
  <2> QED BY <1>1, <2>3, <2>4, NamesAssumption
          DEF RemoveFile, IInv, TypeOK, FilesTypeOK, Exists
<1> QED BY <1>2, <1>3

\* A permanent removal never deletes the keeper of its group, under whatever
\* spelling the group lists it.
THEOREM KeeperSafe ==
  ASSUME NamesApart, MaxOutside = 0
  PROVE  Spec => KeeperNeverRemoved
<1>1. Undisturbed /\ [Next]_vars =>
        [Ours => \A w \in Workers :
           job[w].action = "remove" /\ Exists(Keeper(w)) => dir'[Keeper(w)] # None]_vars
  BY RemovalStep DEF Undisturbed, TypeInv, TypeOK
<1> QED BY <1>1, Undisturbance, PTL DEF Spec, KeeperNeverRemoved

-----------------------------------------------------------------------------
(* The summary.                                                            *)

\* One counter goes up by one, and so does their sum.
LEMMA CountAdds ==
  ASSUME tally \in [Outcomes -> Nat], NEW o \in Outcomes, Count(o)
  PROVE  Settled \in Nat /\ Settled' = Settled + 1
BY DEF Count, Settled, Outcomes

\* Of several members of a group one has the least index.
LEMMA LeastIndex ==
  ASSUME NEW S \in SUBSET Nat, S # {}
  PROVE  \E i \in S : \A j \in S : i <= j
<1>1. PICK i \in S : \A j \in S : ~ (<<j, i>> \in OpToRel(<, Nat))
  BY NatLessThanWellFounded, WFMin
<1>2. \A j \in S : ~ (j < i)
  BY <1>1 DEF OpToRel
<1> QED BY <1>2

\* A keeper is found for every group that is not skipped, unless the user is to be asked.
LEMMA KeeperFound ==
  ASSUME TypeInv, pc = "group", gi <= Len(Groups), Len(Members) >= 2, ~ WithoutReference,
         args.strategy # "interactive"
  PROVE  KeeperChoices # {}
<1>1. gi \in 1..Len(Groups) /\ args.strategy \in Strategies
  BY ResultsAssumption DEF TypeInv, TypeOK, LoopsOK, ResultsAssumption
<1>2. Members \in Seq(Paths) /\ Len(Members) \in Nat
  BY <1>1, GroupMembers
<1> DEFINE refs == {i \in 1..Len(Members) : IsReference(Members[i])}
<1>3. CASE refs # {}
  <2>1. PICK i \in refs : \A j \in refs : i <= j
    <3>1. refs \in SUBSET Nat
      BY <1>2
    <3> HIDE DEF refs
    <3> QED BY <3>1, <1>3, LeastIndex
  <2> QED BY <1>3, <2>1 DEF KeeperChoices
<1>4. CASE refs = {}
  <2>1. args.strategy # "inReference"
    BY <1>2, <1>4 DEF WithoutReference, Range
  <2> QED BY <1>1, <1>2, <1>4, <2>1 DEF KeeperChoices, Strategies
<1> QED BY <1>3, <1>4

LEMMA NextSummary ==
  ASSUME TypeInv, OutcomesAddUp, [Next]_vars
  PROVE  OutcomesAddUp'
<1>t. tally \in [Outcomes -> Nat] /\ planned \in Nat
  BY DEF TypeInv, TypeOK
<1>s. Settled \in Nat
  BY <1>t DEF Settled, Outcomes
<1> USE <1>s DEF OutcomesAddUp
<1>c. ASSUME NEW o \in Outcomes, Count(o) PROVE Settled' = Settled + 1
  BY <1>t, <1>c, CountAdds
<1>1. ASSUME NEW a \in Invocations, StartRun(a) PROVE OutcomesAddUp'
  BY <1>1 DEF StartRun, NoTally, Settled, Outcomes
<1>2. CASE FinishRun
  BY <1>2, <1>t DEF FinishRun, Settled
<1>3. CASE SkipGroup \/ OpenGroup \/ EndOfGroup \/ LeaveKeeper \/ PerformAction
  <2>1. planned' = planned /\ tally' = tally /\ args' = args
    BY <1>3 DEF SkipGroup, OpenGroup, EndOfGroup, LeaveKeeper, PerformAction, pvars
  <2>2. pc' \in {"inspect", "acting"} <=> pc \in {"inspect", "acting"}
    BY <1>3 DEF SkipGroup, OpenGroup, EndOfGroup, LeaveKeeper, PerformAction, pvars, NextGroup
  <2> QED BY <2>1, <2>2 DEF Settled
<1>4. CASE NoKeeper
  <2>1. args # None => args.strategy = "interactive"
    BY <1>4, KeeperFound DEF NoKeeper
  <2>2. Settled' = Settled + 1 /\ pc = "group" /\ pc' = "group" /\ planned' = planned /\ args' = args
    BY <1>4, <1>c DEF NoKeeper, NextGroup, Outcomes
  <2> QED BY <1>t, <2>1, <2>2
<1>5. CASE PlanMember
  <2>1. pc = "member" /\ planned' = planned + 1 /\ args' = args
    BY <1>5 DEF PlanMember
  <2>2. \/ Settled' = Settled + 1 /\ pc' = "member"
        \/ Settled' = Settled /\ pc' = "inspect"
    BY <1>5, <1>c, <2>1 DEF PlanMember, Outcomes, Settled
  <2> QED BY <1>t, <2>1, <2>2
<1>6. CASE InspectFails \/ CountAction
  <2>1. Settled' = Settled + 1 /\ planned' = planned /\ args' = args
    BY <1>6, <1>c DEF InspectFails, CountAction, Outcomes
  <2>2. pc \in {"inspect", "acting"} /\ pc' \notin {"inspect", "acting"}
    BY <1>6 DEF InspectFails, CountAction, NextGroup
  <2> QED BY <1>t, <2>1, <2>2
<1>7. CASE InspectMember
  <2>1. pc = "inspect" /\ planned' = planned /\ args' = args
    BY <1>7 DEF InspectMember
  <2>2. \/ Settled' = Settled + 1 /\ pc' = "member"
        \/ Settled' = Settled /\ pc' = "acting"
    BY <1>7, <1>c DEF InspectMember, Outcomes, Settled
  <2> QED BY <1>t, <2>1, <2>2
<1>8. CASE Crash
  BY <1>8 DEF Crash, NoTally, Settled, Outcomes
<1>9. CASE Outside \/ UNCHANGED vars
  <2>1. planned' = planned /\ tally' = tally /\ args' = args /\ pc' = pc
    BY <1>9 DEF Outside, vars, pvars
  <2> QED BY <2>1 DEF Settled
<1> QED BY <1>1, <1>2, <1>3, <1>4, <1>5, <1>6, <1>7, <1>8, <1>9 DEF Next, Run

\* The counters of the summary add up for any results file and any change by other
\* programs: no planned member is counted twice, or not at all.
THEOREM SummaryAddsUp == Spec => []OutcomesAddUp
<1>1. Init => TypeInv /\ OutcomesAddUp
  BY InitType DEF Init, OutcomesAddUp, NoTally, Settled, Outcomes
<1>2. TypeInv /\ OutcomesAddUp /\ [Next]_vars => (TypeInv /\ OutcomesAddUp)'
  BY NextType, NextSummary
<1> QED BY <1>1, <1>2, PTL DEF Spec

-----------------------------------------------------------------------------
(* What an action leaves alone.                                            *)

\* Of the scanned files an action changes its target alone, and no content that can
\* still be reached.
LEMMA ActFrame ==
  ASSUME TypeInv, NamesApart, Workers = {Cli}, ActStep(Cli)
  PROVE  /\ \A f \in Files : f # Target(Cli) => dir'[f] = dir[f]
         /\ \A i \in Reachable : data'[i] = data[i]
<1> USE NamesAssumption DEF NamesAssumption
<1> DEFINE t == Target(Cli)
<1>1. /\ dir \in [Entries -> Inodes \union {None}]
      /\ data \in [Inodes -> Contents \union {None}]
      /\ trash \in SUBSET Inodes
  BY DEF TypeInv, TypeOK, FilesTypeOK
<1>2. job[Cli].phase # "none"
  BY DEF ActStep, GuardTarget, Refused, RemoveFile, Recycle, SafeRenameCheck,
         SafeRename, ClearStale, MoveAside, HardLink, BlockClone, SwapIn, LinkFails,
         DropAside, Restore, Ficlone, FicloneFails, RenameClone
<1>3. t \in Files
  BY <1>2 DEF TypeInv, JobTyped, Target
<1>4. /\ \A f \in Files : f \in Entries
      /\ AsideOf[t] \in Entries \ Files /\ CloneTmpOf[t] \in Entries \ Files
      /\ SafeNameOf[t] \in Entries /\ (SafeNameOf[t] = t \/ SafeNameOf[t] \notin Files)
  BY <1>3 DEF NamesApart
<1>5. Reachable \subseteq Inodes
  BY <1>1 DEF Reachable
<1> HIDE DEF t
<1>6. ASSUME NEW to \in Entries, to = t \/ to \notin Files, NEW from \in Entries, from = t \/ from \notin Files
      PROVE  \A f \in Files : f # t => Renamed(dir, from, to)[f] = dir[f]
  BY <1>1, <1>4, <1>6 DEF Renamed
<1>7. CASE CloneKeeper(Cli)
  <2>1. PICK i \in FreshInodes : /\ dir' = [dir EXCEPT ![CloneTmpOf[t]] = i]
                                 /\ data' = [data EXCEPT ![i] = data[dir[Keeper(Cli)]]]
    BY <1>7 DEF CloneKeeper, t
  <2>2. i \notin Reachable
    BY DEF FreshInodes
  <2>3. \A r \in Reachable : data'[r] = data[r]
    BY <2>1, <2>2, <1>1, <1>5
  <2>4. \A f \in Files : f # t => dir'[f] = dir[f]
    BY <2>1, <1>1, <1>4
  <2> QED BY <2>3, <2>4 DEF t
<1>8. CASE GuardTarget(Cli) \/ Refused(Cli) \/ SafeRenameCheck(Cli) \/ LinkFails(Cli)
  BY <1>8 DEF GuardTarget, Refused, SafeRenameCheck, LinkFails, disk
<1>9. CASE RemoveFile(Cli) \/ Recycle(Cli) \/ HardLink(Cli)
  <2>1. data' = data /\ \E x : dir' = [dir EXCEPT ![t] = x]
    BY <1>9 DEF RemoveFile, Recycle, HardLink, t
  <2> QED BY <2>1, <1>1, <1>3, <1>4 DEF t
<1>10. CASE SafeRename(Cli)
  <2>1. data' = data /\ (dir' = dir \/ dir' = Renamed(dir, t, SafeNameOf[t]))
    BY <1>10 DEF SafeRename, t
  <2> QED BY <2>1, <1>3, <1>4, <1>6 DEF t
<1>11. CASE ClearStale(Cli)
  <2>1. data' = data /\ \E X \in SUBSET {AsideOf[t], CloneTmpOf[t]} :
                          dir' = [e \in Entries |-> IF e \in X THEN None ELSE dir[e]]
    <3>1. CASE job[Cli].action = "reflink"
      BY <1>11, <3>1 DEF ClearStale, t
    <3>2. CASE job[Cli].action # "reflink"
      BY <1>11, <3>2 DEF ClearStale, t
    <3> QED BY <3>1, <3>2
  <2> QED BY <2>1, <1>4 DEF t
<1>12. CASE MoveAside(Cli)
  <2>1. data' = data /\ (dir' = dir \/ dir' = Renamed(dir, t, AsideOf[t]))
    BY <1>12 DEF MoveAside, t
  <2> QED BY <2>1, <1>3, <1>4, <1>6 DEF t
<1>13. CASE SwapIn(Cli)
  <2>1. data' = data /\ dir' = Renamed(dir, CloneTmpOf[t], t)
    BY <1>13 DEF SwapIn, t
  <2> QED BY <2>1, <1>3, <1>4, <1>6 DEF t
<1>14. CASE DropAside(Cli)
  <2>1. data' = data /\ (dir' = dir \/ dir' = [dir EXCEPT ![AsideOf[t]] = None])
    BY <1>14 DEF DropAside, t
  <2> QED BY <2>1, <1>1, <1>4 DEF t
<1>15. CASE Restore(Cli)
  <2>1. data' = data /\ \E d \in {dir, Renamed(dir, AsideOf[t], t)} :
                          dir' = d \/ dir' = [d EXCEPT ![CloneTmpOf[t]] = None]
    BY <1>15 DEF Restore, t
  <2>2. PICK d \in {dir, Renamed(dir, AsideOf[t], t)} :
               dir' = d \/ dir' = [d EXCEPT ![CloneTmpOf[t]] = None]
    BY <2>1
  <2>3. d \in [Entries -> Inodes \union {None}] /\ \A f \in Files : f # t => d[f] = dir[f]
    BY <1>1, <1>3, <1>4, <1>6 DEF Renamed
  <2> QED BY <2>1, <2>2, <2>3, <1>4 DEF t
<1>16. CASE FicloneFails(Cli)
  <2>1. data' = data /\ (dir' = dir \/ dir' = [dir EXCEPT ![CloneTmpOf[t]] = None])
    BY <1>16 DEF FicloneFails, t
  <2> QED BY <2>1, <1>1, <1>4 DEF t
<1>17. CASE RenameClone(Cli)
  <2>1. data' = data /\ \/ dir' = Renamed(dir, CloneTmpOf[t], t)
                        \/ dir' = [dir EXCEPT ![CloneTmpOf[t]] = None]
    BY <1>17 DEF RenameClone, t
  <2> QED BY <2>1, <1>1, <1>3, <1>4, <1>6 DEF t
<1> QED BY <1>7, <1>8, <1>9, <1>10, <1>11, <1>12, <1>13, <1>14, <1>15, <1>16, <1>17
        DEF ActStep, BlockClone, Ficlone

\* The action under way is the one the planner has handed over.
Handed ==
  /\ pc = "acting" =>
       /\ job[Cli].phase # "none" /\ job[Cli].target = Member
       /\ job[Cli].action = args.action
  /\ pc # "acting" => job[Cli].phase = "none"

LEMMA InitHanded == Init => Handed
BY ResultsAssumption DEF Init, Handed, NoJob, ResultsAssumption

LEMMA NextHanded ==
  ASSUME TypeInv, Handed, [Next]_vars
  PROVE  Handed'
<1> USE ResultsAssumption DEF ResultsAssumption
<1>1. job \in [Workers -> [phase : Phases, action : Actions \union {None},
                 target : Paths \union {None}, keeper : Paths \union {None},
                 kid : Inodes \union {None}]]
  BY DEF TypeInv, TypeOK, FilesTypeOK
<1>2. CASE \/ \E a \in Invocations : StartRun(a)
           \/ FinishRun \/ SkipGroup \/ OpenGroup \/ NoKeeper
           \/ EndOfGroup \/ LeaveKeeper \/ PlanMember \/ InspectFails
  <2>1. job' = job /\ pc # "acting" /\ pc' # "acting"
    BY <1>2 DEF StartRun, FinishRun, SkipGroup, OpenGroup, NoKeeper, EndOfGroup, LeaveKeeper,
                PlanMember, InspectFails, NextGroup, fvars
  <2> QED BY <2>1 DEF Handed
<1>3. CASE InspectMember
  <2>1. CASE job' = job /\ pc' = "member"
    BY <2>1, <1>3 DEF InspectMember, Handed
  <2>2. CASE Begin(Cli, args.action, Member, KeeperPath) /\ pc' = "acting" /\ mi' = mi
    <3>1. args' = args /\ Member' = Member
      BY <2>2, <1>3 DEF InspectMember, Member, Members
    <3>2. /\ job'[Cli].phase = "guard" /\ job'[Cli].target = Member
          /\ job'[Cli].action = args.action
      BY <2>2, <1>1 DEF Begin
    <3> QED BY <2>2, <3>1, <3>2 DEF Handed
  <2> QED BY <1>3, <2>1, <2>2 DEF InspectMember
<1>4. CASE PerformAction
  <2>1. /\ pc = "acting" /\ pc' = "acting" /\ args' = args /\ Member' = Member
    BY <1>4 DEF PerformAction, pvars, Member, Members
  <2>2. \/ \E ph \in Phases \ {"none"} : Goto(Cli, ph)
        \/ \E k : job' = [job EXCEPT ![Cli].phase = "guardTarget", ![Cli].kid = k]
    BY <1>4 DEF PerformAction, GuardKeeper, ActStep, GuardTarget, Refused, RemoveFile, Recycle,
         SafeRenameCheck, SafeRename, ClearStale, MoveAside, HardLink, BlockClone, SwapIn,
         LinkFails, DropAside, Restore, Ficlone, FicloneFails, RenameClone, Phases
  <2>3. /\ job'[Cli].phase # "none" /\ job'[Cli].target = job[Cli].target
        /\ job'[Cli].action = job[Cli].action
    BY <2>2, <1>1 DEF Goto
  <2> QED BY <2>1, <2>3 DEF Handed
<1>5. CASE CountAction \/ Crash
  <2>1. pc' # "acting" /\ job' = [job EXCEPT ![Cli] = NoJob]
    BY <1>5 DEF CountAction, Crash
  <2> QED BY <2>1, <1>1 DEF Handed, NoJob
<1>6. CASE Outside \/ UNCHANGED vars
  BY <1>6 DEF Outside, vars, fvars, pvars, Handed, Member, Members
<1> QED BY <1>2, <1>3, <1>4, <1>5, <1>6 DEF Next, Run

\* The only steps of ours that change the disk are those of the action handed over.
LEMMA OurChange ==
  ASSUME TypeInv, Handed, NamesApart, [Next]_vars, Ours
  PROVE  \/ disk' = disk
         \/ /\ pc = "acting" /\ pc' = "acting" /\ ActStep(Cli)
            /\ Target(Cli) = Canon[Member]
            /\ \A f \in Files : f # Canon[Member] => dir'[f] = dir[f]
            /\ \A i \in Reachable : data'[i] = data[i]
<1>1. ~ Outside
  BY OutsideCounts DEF Ours
<1>2. CASE PerformAction /\ ActStep(Cli)
  <2>1. pc = "acting" /\ pc' = "acting"
    BY <1>2 DEF PerformAction, pvars
  <2>2. Target(Cli) = Canon[Member]
    BY <2>1 DEF Handed, Target
  <2> QED BY <1>2, <2>1, <2>2, ActFrame, ResultsAssumption DEF ResultsAssumption
<1>3. CASE ~ (PerformAction /\ ActStep(Cli))
  <2>1. disk' = disk
    BY <1>1, <1>3 DEF Next, Run, StartRun, FinishRun, SkipGroup, OpenGroup, NoKeeper, EndOfGroup,
         LeaveKeeper, PlanMember, InspectFails, InspectMember, PerformAction, GuardKeeper,
         CountAction, Crash, vars, fvars, disk
  <2> QED BY <2>1
<1> QED BY <1>2, <1>3

-----------------------------------------------------------------------------
(* References and protected files.                                         *)

RefEntries == {Canon[p] : p \in References}

\* Every reference is there, the set of canonical references knows it, and a member
\* that passed the gate is none.
Referenced ==
  /\ \A e \in RefEntries : Exists(e)
  /\ pc # "idle" => refKeys = RefEntries
  /\ pc \in {"inspect", "acting"} => Canon[Member] \notin RefEntries

LEMMA RefTypes == RefEntries \subseteq Files
BY NamesAssumption, ResultsAssumption DEF NamesAssumption, ResultsAssumption, RefEntries

LEMMA InitReferenced == Init => Referenced
<1> SUFFICES ASSUME Init PROVE Referenced
  OBVIOUS
<1>1. \A f \in Files : Exists(f)
  BY NamesAssumption DEF Init, Exists, NamesAssumption
<1> QED BY <1>1, RefTypes DEF Init, Referenced

LEMMA NextReferenced ==
  ASSUME TypeInv, Handed, Referenced, NamesApart, "delete" \notin OutsideKinds, [Next]_vars
  PROVE  Referenced'
<1>1. \A e \in RefEntries : Exists(e)'
  <2>1. CASE Outside
    <3>1. PICK f \in Files : \/ \E c \in Contents : WriteInPlace(f, c)
                             \/ \E c \in Contents : SaveOver(f, c)
      BY <2>1 DEF Outside
    <3>2. dir' = dir \/ \E i \in Inodes : dir' = [dir EXCEPT ![f] = i]
      BY <3>1 DEF WriteInPlace, SaveOver, FreshInodes
    <3> QED BY <3>2, RefTypes, NamesAssumption
            DEF Referenced, Exists, TypeInv, TypeOK, FilesTypeOK, NamesAssumption
  <2>2. CASE Ours
    <3>1. \A e \in RefEntries : dir'[e] = dir[e]
      BY <2>2, OurChange, RefTypes DEF Referenced, disk
    <3> QED BY <3>1 DEF Referenced, Exists
  <2> QED BY <2>1, <2>2, OutsideCounts DEF Ours
<1>2. ASSUME pc' # "idle" PROVE refKeys' = RefEntries
  <2>1. ASSUME NEW a \in Invocations, StartRun(a) PROVE refKeys' = RefEntries
    <3>1. \A p \in References : CanonicalKey(p) = Canon[p]
      BY DEF Referenced, CanonicalKey, RefEntries
    <3> QED BY <2>1, <3>1 DEF StartRun, RefEntries
  <2>2. CASE ~ (\E a \in Invocations : StartRun(a))
    <3>1. refKeys' = refKeys /\ pc # "idle"
      BY <2>2, <1>2 DEF Next, Run, FinishRun, SkipGroup, OpenGroup, NoKeeper, EndOfGroup,
           LeaveKeeper, PlanMember, InspectFails, InspectMember, PerformAction, CountAction,
           Crash, Outside, pvars, vars
    <3> QED BY <3>1 DEF Referenced
  <2> QED BY <2>1, <2>2
<1>3. ASSUME pc' \in {"inspect", "acting"} PROVE (Canon[Member] \notin RefEntries)'
  <2>1. CASE PlanMember
    <3>1. /\ pc = "member" /\ mi <= Len(Members) /\ ~ IsReference(Member) /\ SizeUnchanged(Member)
          /\ Member' = Member
      BY <2>1, <1>3 DEF PlanMember, Member, Members
    <3>2. CanonicalKey(Member) = Canon[Member]
      BY <3>1 DEF SizeUnchanged, CanonicalKey
    <3> QED BY <3>1, <3>2 DEF IsReference, Referenced
  <2>2. CASE ~ PlanMember
    <3>1. Member' = Member /\ pc \in {"inspect", "acting"}
      BY <2>2, <1>3 DEF Next, Run, StartRun, FinishRun, SkipGroup, OpenGroup, NoKeeper, EndOfGroup,
           LeaveKeeper, InspectFails, InspectMember, PerformAction, CountAction, NextGroup,
           Crash, Outside, pvars, vars, Member, Members
    <3> QED BY <3>1 DEF Referenced
  <2> QED BY <2>1, <2>2
<1> QED BY <1>1, <1>2, <1>3 DEF Referenced

\* References are never modified by the program, under whatever spelling they are
\* listed, however many programs write to or save over the files meanwhile; no file
\* may be deleted, because a missing reference is remembered as it is spelled.
THEOREM ReferencesSafe ==
  ASSUME NamesApart, "delete" \notin OutsideKinds
  PROVE  Spec => ReferencesNeverModified
<1> DEFINE Inv == TypeInv /\ Handed /\ Referenced
<1>1. Init => Inv
  BY InitType, InitHanded, InitReferenced
<1>2. Inv /\ [Next]_vars => Inv'
  BY NextType, NextHanded, NextReferenced
<1>3. ASSUME Inv, [Next]_vars, Ours, NEW p \in References
      PROVE  /\ dir'[Canon[p]] = dir[Canon[p]]
             /\ Exists(Canon[p]) => data'[dir[Canon[p]]] = data[dir[Canon[p]]]
  <2>1. Canon[p] \in RefEntries /\ Canon[p] \in Files /\ Canon[p] \in Entries
    BY RefTypes, NamesAssumption DEF RefEntries, NamesAssumption
  <2>2. Exists(Canon[p]) => dir[Canon[p]] \in Reachable
    BY <2>1 DEF Reachable, Exists
  <2>3. CASE disk' = disk
    BY <2>3 DEF disk
  <2>4. CASE disk' # disk
    <3>1. /\ pc = "acting" /\ \A f \in Files : f # Canon[Member] => dir'[f] = dir[f]
          /\ \A i \in Reachable : data'[i] = data[i]
      BY <1>3, <2>4, OurChange
    <3> QED BY <1>3, <2>1, <2>2, <3>1 DEF Referenced
  <2> QED BY <2>3, <2>4
<1>4. Inv /\ [Next]_vars =>
        [Ours => \A p \in References :
           /\ dir'[Canon[p]] = dir[Canon[p]]
           /\ Exists(Canon[p]) => data'[dir[Canon[p]]] = data[dir[Canon[p]]]]_vars
  BY <1>3
<1> HIDE DEF Inv
<1> QED BY <1>1, <1>2, <1>4, PTL DEF Spec, ReferencesNeverModified

\* A member that passed the size check is there (nobody deletes); a system file the
\* run may not touch is none of a group's members that are there; and what is handed
\* over is neither that nor a placeholder that has to be fetched.
Spared ==
  /\ Validated
  /\ pc \in {"member", "inspect", "acting"} /\ ~ args.allowSystem =>
       \A p \in Range(Members) : Canon[p] \in SystemEntries =>
         ~ Exists(Canon[p]) /\ (pc = "acting" => Canon[Member] # Canon[p])
  /\ pc = "acting" => ~ BlocksDestructive(Member, args.allowDeduped)

LEMMA MemberInGroup ==
  ASSUME gi \in 1..Len(Groups)
  PROVE  /\ \A i \in 1..Len(Members) : Members[i] \in Range(Members)
         /\ \A p \in Range(Members) : Canon[p] \in Files
<1>1. Members \in Seq(Paths)
  BY GroupMembers
<1>2. \A p \in Range(Members) : p \in Paths
  BY <1>1 DEF Range
<1> QED BY <1>1, <1>2, NamesAssumption DEF Range, NamesAssumption

LEMMA NextSpared ==
  ASSUME TypeInv, Handed, Spared, NamesApart, OutsideKinds \subseteq {"write"}, [Next]_vars
  PROVE  Spared'
<1>1. CASE Outside
  <2>1. dir' = dir /\ pc' = pc /\ args' = args /\ Member' = Member /\ Members' = Members
    BY <1>1 DEF Outside, WriteInPlace, pvars, Member, Members
  <2> QED BY <2>1 DEF Spared, Validated, Exists, BlocksDestructive, PlaceholderState
<1>2. CASE ~ Outside
  <2>0. Ours
    BY <1>2, OutsideCounts DEF Ours
  <2>1. CASE \/ \E a \in Invocations : StartRun(a)
             \/ FinishRun \/ SkipGroup \/ NoKeeper \/ EndOfGroup \/ InspectFails \/ Crash
    <3>1. pc' \in {"group", "idle"}
      BY <2>1 DEF StartRun, FinishRun, SkipGroup, NoKeeper, EndOfGroup, InspectFails, Crash, NextGroup
    <3> QED BY <3>1 DEF Spared, Validated
  <2>2. CASE OpenGroup
    <3>1. /\ pc' = "member" /\ args' = args /\ Members' = Members /\ dir' = dir
          /\ ~ RefusedAsSystem
      BY <2>2 DEF OpenGroup, Members, fvars
    <3>2. ASSUME ~ args.allowSystem, NEW p \in Range(Members), Canon[p] \in SystemEntries
          PROVE  ~ Exists(Canon[p])
      BY <3>1, <3>2 DEF RefusedAsSystem, ResolvesToSystemPath, CanonicalKey
    <3> QED BY <3>1, <3>2 DEF Spared, Validated, Exists
  <2>3. CASE LeaveKeeper
    <3>1. pc' = "member" /\ pc = "member" /\ args' = args /\ Members' = Members /\ dir' = dir
      BY <2>3 DEF LeaveKeeper, Members, fvars
    <3> QED BY <3>1 DEF Spared, Validated, Exists
  <2>4. CASE PlanMember
    <3>1. /\ pc = "member" /\ args' = args /\ Members' = Members /\ dir' = dir
          /\ \/ pc' = "member"
             \/ pc' = "inspect" /\ Member' = Member /\ SizeUnchanged(Member)
      BY <2>4 DEF PlanMember, Member, Members, fvars
    <3> QED BY <3>1 DEF Spared, Validated, Exists, SizeUnchanged
  <2>5. CASE InspectMember
    <3>1. /\ pc = "inspect" /\ args' = args /\ Members' = Members /\ dir' = dir
          /\ \/ pc' = "member"
             \/ /\ pc' = "acting" /\ Member' = Member
                /\ ~ BlocksDestructive(Member, args.allowDeduped)
      BY <2>5 DEF InspectMember, Member, Members, disk
    <3> QED BY <3>1 DEF Spared, Validated, Exists, BlocksDestructive, PlaceholderState
  <2>6. CASE PerformAction
    <3>1. /\ pc = "acting" /\ pc' = "acting" /\ args' = args /\ Members' = Members /\ Member' = Member
      BY <2>6 DEF PerformAction, pvars, Member, Members
    <3>2. gi \in 1..Len(Groups)
      BY <3>1 DEF TypeInv, TypeOK, LoopsOK
    <3>3. ASSUME NEW p \in Range(Members), Canon[p] # Canon[Member] PROVE dir'[Canon[p]] = dir[Canon[p]]
      BY <2>0, <3>2, <3>3, OurChange, MemberInGroup DEF disk
    <3> QED BY <3>1, <3>3 DEF Spared, Validated, Exists, BlocksDestructive, PlaceholderState
  <2>7. CASE CountAction
    <3>1. pc = "acting" /\ pc' = "member" /\ args' = args /\ Members' = Members /\ dir' = dir
      BY <2>7 DEF CountAction, Members, disk
    <3> QED BY <3>1 DEF Spared, Validated, Exists
  <2>8. CASE UNCHANGED vars
    <3>1. dir' = dir /\ pc' = pc /\ args' = args /\ Member' = Member /\ Members' = Members
      BY <2>8 DEF vars, fvars, pvars, Member, Members
    <3> QED BY <3>1 DEF Spared, Validated, Exists, BlocksDestructive, PlaceholderState
  <2> QED BY <1>2, <2>1, <2>2, <2>3, <2>4, <2>5, <2>6, <2>7, <2>8 DEF Next, Run
<1> QED BY <1>1, <1>2

\* Files below a system directory and placeholders that would have to be fetched are
\* left alone, under whatever spelling the groups list them and while other programs
\* write to the files; one that appears after its group was opened is not refused again.
THEOREM ProtectedSafe ==
  ASSUME NamesApart, OutsideKinds \subseteq {"write"}
  PROVE  Spec => ProtectedUntouched
<1> DEFINE Inv == TypeInv /\ Handed /\ Spared
<1>1. Init => Inv
  BY InitType, InitHanded DEF Init, Spared, Validated
<1>2. Inv /\ [Next]_vars => Inv'
  BY NextType, NextHanded, NextSpared
<1>3. ASSUME Inv, [Next]_vars, Ours, args # None,
             NEW p \in UNION {Range(Groups[g]) : g \in 1..Len(Groups)},
             \/ ~ args.allowSystem /\ Canon[p] \in SystemEntries
             \/ Windows /\ Placeholder[Canon[p]] = "recall"
      PROVE  dir'[Canon[p]] = dir[Canon[p]]
  <2>1. CASE disk' = disk
    BY <2>1 DEF disk
  <2>2. CASE disk' # disk
    <3>1. pc = "acting" /\ \A f \in Files : f # Canon[Member] => dir'[f] = dir[f]
      BY <1>3, <2>2, OurChange
    <3>2. gi \in 1..Len(Groups) /\ mi \in 1..Len(Members)
      BY <1>3, <3>1 DEF TypeInv, TypeOK, LoopsOK
    <3>3. Canon[p] \in Files
      <4>1. PICK g \in 1..Len(Groups) : p \in Range(Groups[g])
        OBVIOUS
      <4>2. Groups[g] \in Seq(Paths)
        BY <4>1, ResultsAssumption DEF ResultsAssumption
      <4> QED BY <4>1, <4>2, NamesAssumption DEF Range, NamesAssumption
    <3>4. Canon[Member] # Canon[p]
      <4>1. CASE ~ args.allowSystem /\ Canon[p] \in SystemEntries
        <5>1. Member \in Range(Members)
          BY <3>2, MemberInGroup DEF Member
        <5> QED BY <1>3, <3>1, <4>1, <5>1 DEF Spared
      <4>2. CASE Windows /\ Placeholder[Canon[p]] = "recall"
        BY <1>3, <3>1, <4>2 DEF Spared, BlocksDestructive, PlaceholderState
      <4> QED BY <1>3, <4>1, <4>2
    <3> QED BY <3>1, <3>3, <3>4
  <2> QED BY <2>1, <2>2
<1>4. Inv /\ [Next]_vars =>
        [Ours /\ args # None =>
           \A p \in UNION {Range(Groups[g]) : g \in 1..Len(Groups)} :
             \/ ~ args.allowSystem /\ Canon[p] \in SystemEntries
             \/ Windows /\ Placeholder[Canon[p]] = "recall"
             => dir'[Canon[p]] = dir[Canon[p]]]_vars
  BY <1>3
<1> HIDE DEF Inv
<1> QED BY <1>1, <1>2, <1>4, PTL DEF Spec, ProtectedUntouched

-----------------------------------------------------------------------------
(* Replacing a file keeps its name.                                        *)

\* A replacement that is over, well or badly, has left the name.
Named ==
  LET j == job[Cli] IN
  /\ j.action \in {"hardlink", "reflink"} /\ j.phase \in {"ok", "failed"} => Exists(Target(Cli))
  /\ j.phase = "rename" => j.action = "safeRename"

LEMMA ActNamed ==
  ASSUME IInv, Named, NamesApart, ~ FlakyCleanup, Workers = {Cli}, ActStep(Cli)
  PROVE  Named'
<1> USE NamesAssumption DEF NamesAssumption
<1> DEFINE j == job[Cli]
           t == Target(Cli)
<1>1. /\ dir \in [Entries -> Inodes \union {None}]
      /\ job \in [Workers -> [phase : Phases, action : Actions \union {None},
                    target : Paths \union {None}, keeper : Paths \union {None},
                    kid : Inodes \union {None}]]
  BY DEF IInv, TypeOK, FilesTypeOK
<1>2. j.phase # "none"
  BY DEF ActStep, GuardTarget, Refused, RemoveFile, Recycle, SafeRenameCheck,
         SafeRename, ClearStale, MoveAside, HardLink, BlockClone, SwapIn, LinkFails,
         DropAside, Restore, Ficlone, FicloneFails, RenameClone
<1>3. /\ j.phase \in {"guardTarget", "act", "aside", "rename", "cloned", "drop"} => dir[t] # None
      /\ j.phase = "restore" => dir[AsideOf[t]] # None
      /\ t \in Files
  BY <1>2 DEF IInv, JobOK, Target, Exists
<1>4. /\ t \in Entries /\ AsideOf[t] \in Entries /\ CloneTmpOf[t] \in Entries
      /\ t # AsideOf[t] /\ t # CloneTmpOf[t] /\ AsideOf[t] # CloneTmpOf[t]
  BY <1>3 DEF NamesApart
<1>5. ASSUME NEW ph, Goto(Cli, ph), ph = "rename" => j.action = "safeRename",
             ph \in {"ok", "failed"} /\ j.action \in {"hardlink", "reflink"} => dir'[t] # None
      PROVE  Named'
  <2>1. job'[Cli].phase = ph /\ job'[Cli].target = j.target /\ job'[Cli].action = j.action
    BY <1>1, <1>5 DEF Goto
  <2> QED BY <2>1, <1>5 DEF Named, Target, Exists
<1>6. \A ph \in {"act", "aside", "link", "swap", "drop", "restore", "cloned"} :
         Goto(Cli, ph) => Named'
  BY <1>5
<1>7. ASSUME NEW from \in Entries, dir[from] # None, from # t
      PROVE  Renamed(dir, from, t)[t] # None
  BY <1>1, <1>4, <1>7 DEF Renamed
<1> HIDE DEF t
<1>8. CASE GuardTarget(Cli) \/ Refused(Cli)
  BY <1>3, <1>5, <1>6, <1>8 DEF GuardTarget, Refused, disk
<1>9. CASE RemoveFile(Cli) \/ Recycle(Cli) \/ SafeRenameCheck(Cli)
  <2>1. j.action \notin {"hardlink", "reflink"}
    BY <1>9 DEF RemoveFile, Recycle, SafeRenameCheck
  <2>2. CASE SafeRenameCheck(Cli)
    BY <2>1, <2>2, <1>5 DEF SafeRenameCheck
  <2>3. CASE RemoveFile(Cli) \/ Recycle(Cli)
    BY <2>1, <2>3, <1>5 DEF RemoveFile, Recycle
  <2> QED BY <1>9, <2>2, <2>3
<1>10. CASE SafeRename(Cli)
  BY <1>5, <1>10 DEF SafeRename, Named
<1>11. CASE ClearStale(Cli)
  <2>1. dir[t] # None /\ dir'[t] = dir[t]
    BY <1>3, <1>4, <1>11 DEF ClearStale, t
  <2> QED BY <2>1, <1>5, <1>6, <1>11 DEF ClearStale
<1>12. CASE MoveAside(Cli)
  BY <1>3, <1>6, <1>12 DEF MoveAside, Exists, t
<1>13. CASE HardLink(Cli) \/ BlockClone(Cli) \/ SwapIn(Cli) \/ LinkFails(Cli) \/ Ficlone(Cli)
  BY <1>6, <1>13 DEF HardLink, BlockClone, SwapIn, LinkFails, Ficlone
<1>14. CASE DropAside(Cli)
  <2>1. dir[t] # None /\ dir'[t] = dir[t]
    BY <1>1, <1>3, <1>4, <1>14 DEF DropAside, t
  <2> QED BY <2>1, <1>5, <1>14 DEF DropAside
<1>15. CASE Restore(Cli)
  <2>1. dir[AsideOf[t]] # None
    BY <1>3, <1>15 DEF Restore
  <2> DEFINE back == Renamed(dir, AsideOf[t], t)
  <2>2. back[t] # None /\ back \in [Entries -> Inodes \union {None}]
    BY <1>1, <1>4, <1>7, <2>1 DEF Renamed
  <2>3. dir' = back \/ dir' = [back EXCEPT ![CloneTmpOf[t]] = None]
    BY <1>15, <2>1 DEF Restore, Exists, t
  <2>4. dir'[t] # None
    BY <1>4, <2>2, <2>3
  <2> QED BY <1>5, <1>15, <2>4 DEF Restore
<1>16. CASE FicloneFails(Cli)
  <2>1. dir[t] # None /\ dir'[t] = dir[t]
    BY <1>1, <1>3, <1>4, <1>16 DEF FicloneFails, t
  <2> QED BY <2>1, <1>5, <1>16 DEF FicloneFails
<1>17. CASE RenameClone(Cli)
  <2>1. dir[t] # None
    BY <1>3, <1>17 DEF RenameClone
  <2>2. CASE dir[CloneTmpOf[t]] # None /\ dir' = Renamed(dir, CloneTmpOf[t], t)
    <3>1. dir'[t] # None
      BY <2>2, <1>4, <1>7
    <3> QED BY <3>1, <1>5, <1>17 DEF RenameClone
  <2>3. CASE dir' = [dir EXCEPT ![CloneTmpOf[t]] = None]
    <3>1. dir'[t] # None
      BY <2>1, <2>3, <1>1, <1>4
    <3> QED BY <3>1, <1>5, <1>17 DEF RenameClone
  <2> QED BY <1>17, <2>2, <2>3 DEF RenameClone, Exists, t
<1> QED BY <1>8, <1>9, <1>10, <1>11, <1>12, <1>13, <1>14, <1>15, <1>16, <1>17 DEF ActStep

LEMMA NextNamed ==
  ASSUME IInv, Handed, Named, NamesApart, ~ FlakyCleanup, [Next]_vars, ~ Outside
  PROVE  Named'
<1> USE ResultsAssumption DEF ResultsAssumption
<1>1. job \in [Workers -> [phase : Phases, action : Actions \union {None},
                 target : Paths \union {None}, keeper : Paths \union {None},
                 kid : Inodes \union {None}]]
  BY DEF IInv, TypeOK, FilesTypeOK
<1>2. CASE job' = job /\ dir' = dir
  BY <1>2 DEF Named, Target, Exists
<1>3. CASE job' = [job EXCEPT ![Cli] = NoJob]
  BY <1>1, <1>3 DEF Named, NoJob
<1>4. CASE Begin(Cli, args.action, Member, KeeperPath)
  BY <1>1, <1>4 DEF Begin, Named
<1>5. CASE PerformAction /\ GuardKeeper(Cli, args.allowDeduped)
  <2>1. dir[Target(Cli)] # None /\ dir' = dir
    BY <1>5 DEF GuardKeeper, IInv, JobOK, Exists, disk
  <2>2. /\ job'[Cli].target = job[Cli].target
        /\ job'[Cli].phase \in {"failed", "act", "guardTarget"}
    BY <1>1, <1>5 DEF GuardKeeper, Goto
  <2> QED BY <2>1, <2>2 DEF Named, Target, Exists
<1>6. CASE PerformAction /\ ActStep(Cli)
  BY <1>6, ActNamed
<1>7. \/ job' = job /\ dir' = dir
      \/ job' = [job EXCEPT ![Cli] = NoJob]
      \/ Begin(Cli, args.action, Member, KeeperPath)
      \/ PerformAction
  BY DEF Next, Run, StartRun, FinishRun, SkipGroup, OpenGroup, NoKeeper, EndOfGroup,
       LeaveKeeper, PlanMember, InspectFails, InspectMember, CountAction, Crash, vars, fvars, disk
<1> QED BY <1>2, <1>3, <1>4, <1>5, <1>6, <1>7 DEF PerformAction

\* Replacing a file by a link or a clone leaves its name in place, whether it
\* succeeds or fails, as long as nobody else has touched the files; the clean-up
\* calls, whose errors the code drops, have to work.
THEOREM NamesKept ==
  ASSUME NamesApart, ~ FlakyCleanup
  PROVE  Spec => LinkingKeepsNames
<1> DEFINE Inv == Undisturbed /\ Handed /\ (outside = 0 => Named)
<1>1. ASSUME Init PROVE Inv
  <2>1. job[Cli] = NoJob
    BY <1>1, ResultsAssumption DEF Init, ResultsAssumption
  <2>2. Named
    BY <2>1 DEF Named, NoJob
  <2> QED BY <1>1, <2>2, InitInv, InitType, InitHanded DEF Undisturbed
<1>2. ASSUME Inv, [Next]_vars PROVE Inv'
  <2>1. Undisturbed'
    BY <1>2, NextType, NextInv, OutsideCounts DEF Undisturbed
  <2>2. Handed'
    BY <1>2, NextHanded DEF Undisturbed
  <2>3. ASSUME outside' = 0 PROVE Named'
    BY <1>2, <2>3, NextNamed, OutsideCounts DEF Undisturbed
  <2> QED BY <2>1, <2>2, <2>3
<1>3. ASSUME Inv, [Next]_vars, pc = "acting", pc' = "member", outside = 0,
             args.action \in {"hardlink", "reflink"}
      PROVE  Exists(Canon[Member])
  <2>1. job[Cli].phase \in {"ok", "failed"}
    BY <1>3 DEF Next, Run, StartRun, FinishRun, SkipGroup, OpenGroup, NoKeeper, EndOfGroup,
       LeaveKeeper, PlanMember, InspectFails, InspectMember, PerformAction, CountAction, Crash,
       Outside, vars, pvars
  <2> QED BY <1>3, <2>1 DEF Handed, Named, Target
<1>4. Inv /\ [Next]_vars =>
        [pc = "acting" /\ pc' = "member" /\ args.action \in {"hardlink", "reflink"} /\ outside = 0
           => Exists(Canon[Member])]_vars
  BY <1>3
<1> HIDE DEF Inv
<1> QED BY <1>1, <1>2, <1>4, PTL DEF Spec, LinkingKeepsNames
=============================================================================
