------------------------------- MODULE Dedupe -------------------------------
(***************************************************************************)
(* superdeduper dedupe: the planner of src/dedupe.rs over the groups of a  *)
(* results file.  One process walks the groups in order, picks a keeper in *)
(* each, and takes every other member through the references, size,        *)
(* decode-warning, placeholder and identity gates before it hands the      *)
(* action to the layer of FileActions.                                     *)
(*                                                                         *)
(* The same results file is used by several runs, each with arguments of   *)
(* its own; a run may be killed between any two system calls, and other    *)
(* programs may change the files at any moment.                            *)
(***************************************************************************)
EXTENDS FileActions, Sequences, FiniteSetsExt

CONSTANTS
  Cli,           \* the one worker: the command-line process
  Groups,        \* the results file: a sequence of sequences of paths
  FileContent,   \* scanned entry -> the content the scan hashed
  SizeOf,        \* content -> its size
  References,    \* reference_paths, as the results file spells them
  Warned,        \* paths with an audio decode warning
  Invocations,   \* the argument records a run may be started with
  MaxRuns,       \* bound: runs over this results file
  MaxCrashes,    \* bound: how often a run is killed
  MaxOutside,    \* bound: changes by other programs
  OutsideKinds   \* which: a subset of {"write", "save", "delete"}

Strategies == {"first", "byTime", "byRank", "inReference", "interactive"}

Outcomes == {"executed", "skippedReference", "skippedInvalidated", "skippedWarning",
             "skippedPlaceholder", "skippedIdentity", "failed"}

ASSUME ResultsAssumption ==
  /\ Workers = {Cli}
  /\ Groups \in Seq(Seq(Paths))
  /\ FileContent \in [Files -> Contents]
  /\ \A g \in 1..Len(Groups) : \A p, q \in Range(Groups[g]) :
       FileContent[Canon[p]] = FileContent[Canon[q]]
  /\ References \subseteq Paths /\ Warned \subseteq Paths
  /\ Invocations \subseteq [action : Actions, strategy : Strategies, dryRun : BOOLEAN,
                            allowSystem : BOOLEAN, allowDeduped : BOOLEAN]
  /\ MaxRuns \in Nat /\ MaxCrashes \in Nat /\ MaxOutside \in Nat
  /\ OutsideKinds \subseteq {"write", "save", "delete"}

VARIABLES
  pc,       \* "idle", "group", "member", "inspect" or "acting"
  args,     \* the arguments of the run
  refKeys,  \* the canonical reference set, built when the run starts
  gi, mi,   \* the group and the member the loops are at
  ki,       \* the keeper's index in its group
  kid,      \* the keeper's identity, read once for the group
  planned,  \* Outcome::planned
  tally,    \* the other counters of Outcome
  runs,     \* runs started so far
  crashes,  \* runs killed so far
  outside   \* changes other programs have made so far

pvars == <<pc, args, refKeys, gi, mi, ki, kid, planned, tally>>
vars  == <<fvars, pvars, runs, crashes, outside>>

Members == Groups[gi]
Member  == Members[mi]
KeeperPath == Members[ki]

\* Mutant: paths compared as the results file spells them.
IsReferenceAsSpelled(p) == p \in refKeys

IsReference(p) == CanonicalKey(p) \in refKeys

NoTally == [o \in Outcomes |-> 0]

\* The disk as the scan left it: each reported file holds the content of its
\* group, some of them hard links of one another.
Init ==
  /\ \E link \in [Files -> Inodes] :
       /\ \A e, f \in Files : link[e] = link[f] => FileContent[e] = FileContent[f]
       /\ dir = [e \in Entries |-> IF e \in Files THEN link[e] ELSE None]
       /\ data = [i \in Inodes |-> IF \E f \in Files : link[f] = i
                                  THEN FileContent[CHOOSE f \in Files : link[f] = i]
                                  ELSE None]
  /\ trash = {}
  /\ job = [w \in Workers |-> NoJob]
  /\ pc = "idle" /\ args = None /\ refKeys = {}
  /\ gi = 1 /\ mi = 1 /\ ki = 1 /\ kid = None
  /\ planned = 0 /\ tally = NoTally
  /\ runs = 0 /\ crashes = 0 /\ outside = 0

-----------------------------------------------------------------------------
(* run: read the arguments, build the reference set, walk the groups.       *)

StartRun(a) ==
  LET keys == {CanonicalKey(p) : p \in References} IN
  /\ pc = "idle" /\ runs < MaxRuns
  /\ a.strategy = "inReference" => keys # {}
  /\ pc' = "group" /\ args' = a /\ refKeys' = keys
  /\ gi' = 1 /\ mi' = 1 /\ ki' = 1 /\ kid' = None
  /\ planned' = 0 /\ tally' = NoTally
  /\ runs' = runs + 1
  /\ UNCHANGED <<fvars, crashes, outside>>

FinishRun ==
  /\ pc = "group" /\ gi > Len(Groups)
  /\ pc' = "idle" /\ args' = None /\ gi' = 1 /\ mi' = 1 /\ ki' = 1 /\ kid' = None
  /\ UNCHANGED <<fvars, refKeys, planned, tally, runs, crashes, outside>>

NextGroup == gi' = gi + 1 /\ mi' = 1 /\ ki' = 1 /\ kid' = None /\ pc' = "group"

Count(o) == tally' = [tally EXCEPT ![o] = @ + 1]

RefusedAsSystem ==
  ~args.allowSystem /\ \E p \in Range(Members) : ResolvesToSystemPath(p)

WithoutReference ==
  args.strategy = "inReference" /\ \A p \in Range(Members) : ~IsReference(p)

\* The groups process_group returns from before it picks a keeper.
SkipGroup ==
  /\ pc = "group" /\ gi <= Len(Groups)
  /\ Len(Members) < 2 \/ RefusedAsSystem \/ WithoutReference
  /\ NextGroup
  /\ UNCHANGED <<fvars, args, refKeys, planned, tally, runs, crashes, outside>>

\* pick_keeper.  A reference member wins under every strategy.  The time-based
\* strategies pass over files they cannot stat, and fall back on the first.
KeeperChoices ==
  LET refs == {i \in 1..Len(Members) : IsReference(Members[i])}
      present == {i \in 1..Len(Members) : Exists(Canon[Members[i]])}
  IN IF refs # {} THEN {i \in refs : \A j \in refs : i <= j}
     ELSE CASE args.strategy = "first"  -> {1}
            [] args.strategy = "byTime" -> IF present = {} THEN {1} ELSE present
            [] args.strategy = "byRank" -> 1..Len(Members)
            [] OTHER -> {}

OpenGroup ==
  /\ pc = "group" /\ gi <= Len(Groups)
  /\ Len(Members) >= 2 /\ ~RefusedAsSystem /\ ~WithoutReference
  /\ \E i \in KeeperChoices : \E id \in IdentityReads(Members[i]) :
       ki' = i /\ kid' = id
  /\ pc' = "member" /\ mi' = 1
  /\ UNCHANGED <<fvars, args, refKeys, gi, planned, tally, runs, crashes, outside>>

\* Interactive is not implemented: pick_keeper fails, run counts the group.
NoKeeper ==
  /\ pc = "group" /\ gi <= Len(Groups)
  /\ Len(Members) >= 2 /\ ~RefusedAsSystem /\ ~WithoutReference
  /\ KeeperChoices = {}
  /\ Count("failed")
  /\ NextGroup
  /\ UNCHANGED <<fvars, args, refKeys, planned, runs, crashes, outside>>

-----------------------------------------------------------------------------
(* One member of a group.                                                  *)

EndOfGroup ==
  /\ pc = "member" /\ mi > Len(Members)
  /\ NextGroup
  /\ UNCHANGED <<fvars, args, refKeys, planned, tally, runs, crashes, outside>>

LeaveKeeper ==
  /\ pc = "member" /\ mi <= Len(Members) /\ mi = ki
  /\ mi' = mi + 1
  /\ UNCHANGED <<fvars, pc, args, refKeys, gi, ki, kid, planned, tally, runs, crashes, outside>>

\* validate_file: the member, and only its size.
SizeUnchanged(p) ==
  Exists(Canon[p]) /\ SizeOf[data[dir[Canon[p]]]] = SizeOf[FileContent[Canon[p]]]

\* Reference, size and decode-warning gates.
PlanMember ==
  /\ pc = "member" /\ mi <= Len(Members) /\ mi # ki
  /\ planned' = planned + 1
  /\ LET skip(o) == Count(o) /\ mi' = mi + 1 /\ pc' = pc IN
     IF IsReference(Member) THEN skip("skippedReference")
     ELSE IF ~SizeUnchanged(Member) THEN skip("skippedInvalidated")
     ELSE IF Member \in Warned /\ args.action = "remove" THEN skip("skippedWarning")
     ELSE tally' = tally /\ mi' = mi /\ pc' = "inspect"
  /\ UNCHANGED <<fvars, args, refKeys, gi, ki, kid, runs, crashes, outside>>

\* Mutant: the error leaves the group, but run does not count it.
InspectFailsUncounted ==
  /\ pc = "inspect" /\ PlaceholderStatFails(Member)
  /\ NextGroup
  /\ UNCHANGED <<fvars, args, refKeys, planned, tally, runs, crashes, outside>>

\* placeholder_state_for(path)?: the error leaves process_group, and the rest
\* of the group with it.
InspectFails ==
  /\ pc = "inspect" /\ PlaceholderStatFails(Member)
  /\ Count("failed")
  /\ NextGroup
  /\ UNCHANGED <<fvars, args, refKeys, planned, runs, crashes, outside>>

DryRun == args.dryRun

\* Placeholder gate, identity gate (fail-closed for remove), dry run; what is
\* left goes to perform_action.
InspectMember ==
  LET done(o) == Count(o) /\ mi' = mi + 1 /\ pc' = "member" /\ job' = job IN
  /\ pc = "inspect" /\ ~PlaceholderStatFails(Member)
  /\ \E mid \in IdentityReads(Member) :
       IF BlocksDestructive(Member, args.allowDeduped) THEN done("skippedPlaceholder")
       ELSE IF kid # None /\ kid = mid
       THEN done(IF args.action = "hardlink" THEN "executed" ELSE "skippedIdentity")
       ELSE IF args.action = "remove" /\ (kid = None \/ mid = None)
       THEN done("skippedIdentity")
       ELSE IF DryRun THEN done("executed")
       ELSE /\ Begin(Cli, args.action, Member, KeeperPath)
            /\ pc' = "acting" /\ UNCHANGED <<tally, mi>>
  /\ UNCHANGED <<disk, args, refKeys, gi, ki, kid, planned, runs, crashes, outside>>

PerformAction ==
  /\ pc = "acting"
  /\ GuardKeeper(Cli, args.allowDeduped) \/ ActStep(Cli)
  /\ UNCHANGED <<pvars, runs, crashes, outside>>

CountAction ==
  /\ pc = "acting" /\ job[Cli].phase \in {"ok", "failed"}
  /\ Count(IF job[Cli].phase = "ok" THEN "executed" ELSE "failed")
  /\ job' = [job EXCEPT ![Cli] = NoJob]
  /\ pc' = "member" /\ mi' = mi + 1
  /\ UNCHANGED <<disk, args, refKeys, gi, ki, kid, planned, runs, crashes, outside>>

-----------------------------------------------------------------------------
(* The environment.                                                        *)

\* The process is killed, or the machine loses power: the disk stays as it is.
Crash ==
  /\ pc # "idle" /\ crashes < MaxCrashes
  /\ crashes' = crashes + 1
  /\ job' = [job EXCEPT ![Cli] = NoJob]
  /\ pc' = "idle" /\ args' = None /\ gi' = 1 /\ mi' = 1 /\ ki' = 1 /\ kid' = None
  /\ planned' = 0 /\ tally' = NoTally
  /\ UNCHANGED <<disk, refKeys, runs, outside>>

Outside ==
  /\ outside < MaxOutside
  /\ outside' = outside + 1
  /\ \E f \in Files :
       \/ "write" \in OutsideKinds /\ \E c \in Contents : WriteInPlace(f, c)
       \/ "save" \in OutsideKinds /\ \E c \in Contents : SaveOver(f, c)
       \/ "delete" \in OutsideKinds /\ DeleteFile(f)
  /\ UNCHANGED <<job, pvars, runs, crashes>>

Run ==
  \/ FinishRun \/ SkipGroup \/ OpenGroup \/ NoKeeper
  \/ EndOfGroup \/ LeaveKeeper \/ PlanMember
  \/ InspectFails \/ InspectMember \/ PerformAction \/ CountAction

Next ==
  \/ \E a \in Invocations : StartRun(a)
  \/ Run
  \/ Crash
  \/ Outside

Spec == Init /\ [][Next]_vars

-----------------------------------------------------------------------------
(* Properties.                                                             *)

TypeOK ==
  /\ FilesTypeOK
  /\ pc \in {"idle", "group", "member", "inspect", "acting"}
  /\ args \in Invocations \union {None}
  /\ refKeys \subseteq Paths
  /\ gi \in 1..(Len(Groups) + 1)
  /\ mi \in Nat \ {0} /\ ki \in Nat \ {0}
  /\ kid \in Inodes \union {None}
  /\ planned \in Nat
  /\ tally \in [Outcomes -> Nat]
  /\ runs \in 0..MaxRuns /\ crashes \in 0..MaxCrashes /\ outside \in 0..MaxOutside

Ours == outside' = outside

\* Whatever the arguments of the runs over one results file, and wherever they
\* are killed, every content the scan reported can still be opened under some
\* name or restored from the recycle bin (while nobody else touches the files).
ContentSurvives == \A f \in Files : FileContent[f] \in Surviving

\* Replacing a file by a link or a clone takes its name away only while it lasts:
\* when the action is over, well or badly, the scanned name is there (while the
\* clean-up calls work, and nobody else touches the files).
LinkingKeepsNames ==
  [][pc = "acting" /\ pc' = "member" /\ args.action \in {"hardlink", "reflink"} /\ outside = 0
       => Exists(Canon[Member])]_vars

\* Permanent removal never takes the keeper, under whatever spelling the group
\* lists it, even if another program holds it open or saves over it in the middle
\* of one of the two identity gates (planner and action layer; a second save, in
\* the middle of the other gate, would get past both).
KeeperNeverRemoved ==
  [][Ours => \A w \in Workers :
       job[w].action = "remove" /\ Exists(Keeper(w)) => dir'[Keeper(w)] # None]_vars

\* "Reference paths are never modified. Period.": no step of ours changes what
\* a reference entry holds, whichever spelling the group or the set uses.
ReferencesNeverModified ==
  [][Ours => \A p \in References :
       /\ dir'[Canon[p]] = dir[Canon[p]]
       /\ Exists(Canon[p]) => data'[dir[Canon[p]]] = data[dir[Canon[p]]]]_vars

\* A member on a system path, or with a recall placeholder, is left alone
\* whatever the group calls it, unless the run was started to allow it.
ProtectedUntouched ==
  [][Ours /\ args # None =>
       \A p \in UNION {Range(Groups[g]) : g \in 1..Len(Groups)} :
         \/ ~args.allowSystem /\ Canon[p] \in SystemEntries
         \/ Windows /\ Placeholder[Canon[p]] = "recall"
         => dir'[Canon[p]] = dir[Canon[p]]]_vars

Settled ==
  tally["executed"] + tally["failed"] + tally["skippedReference"] + tally["skippedInvalidated"]
    + tally["skippedWarning"] + tally["skippedPlaceholder"] + tally["skippedIdentity"]

\* Every planned member ends in exactly one counter of the summary, also when
\* an error abandons its group.  (Interactive counts groups as failed, too.)
OutcomesAddUp ==
  LET inFlight == IF pc \in {"inspect", "acting"} THEN 1 ELSE 0 IN
  /\ planned <= Settled + inFlight
  /\ args # None /\ args.strategy # "interactive" => planned = Settled + inFlight

-----------------------------------------------------------------------------
(* Why ContentSurvives holds: the inductive invariant.  It needs the derived *)
(* names apart and no changes by others; DedupeProofs proves it.             *)

\* The loops are at a member and a keeper of a group.
LoopsOK ==
  /\ pc \in {"member", "inspect", "acting"} => gi <= Len(Groups) /\ ki <= Len(Members)
  /\ pc \in {"inspect", "acting"} => mi <= Len(Members)
  /\ pc # "idle" => args \in Invocations

\* A member that has passed the size check is still there.
Validated == pc = "inspect" => Exists(Canon[Member])

\* What is found under a scanned name, or under a name derived from it, is what
\* the scan found there.
DiskOK ==
  \A f \in Files :
    /\ Exists(f) => data[dir[f]] = FileContent[f]
    /\ Exists(AsideOf[f]) => data[dir[AsideOf[f]]] = FileContent[f]
    /\ Exists(CloneTmpOf[f]) => data[dir[CloneTmpOf[f]]] = FileContent[f]

\* How far an action is says where the content of its target is: under its own
\* name, under its aside name, or with a keeper that is another file.
JobOK ==
  LET j == job[Cli] IN
  j.phase # "none" =>
    /\ j.target \in Paths /\ j.keeper \in Paths /\ j.action \in Actions
    /\ FileContent[Target(Cli)] = FileContent[Keeper(Cli)]
    /\ j.phase \in {"guard", "guardTarget", "act", "aside", "rename", "cloned",
                   "drop"} => Exists(Target(Cli))
    /\ j.phase = "guardTarget" => j.kid \in {None, dir[Keeper(Cli)]}
    /\ j.phase = "act" /\ j.action = "remove" =>
         Exists(Keeper(Cli)) /\ Keeper(Cli) # Target(Cli)
    /\ j.action = "remove" => j.phase \in {"guard", "guardTarget", "act", "ok", "failed"}
    /\ j.phase \in {"link", "swap", "restore"} => Exists(AsideOf[Target(Cli)])
    /\ j.phase = "rename" => /\ ~Exists(SafeNameOf[Target(Cli)])
                             /\ SafeNameOf[Target(Cli)] \notin Files

IInv == TypeOK /\ LoopsOK /\ Validated /\ DiskOK /\ JobOK /\ ContentSurvives
=============================================================================
