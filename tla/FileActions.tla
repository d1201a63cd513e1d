---------------------------- MODULE FileActions ----------------------------
(***************************************************************************)
(* The layer of the deduper that changes the disk: the guarded, multi-step *)
(* file actions of src/dedupe.rs, and the platform primitives they call    *)
(* (the hard-link and reflink replacements that move the original aside,   *)
(* the XDG trash, the safe rename).                                        *)
(*                                                                         *)
(* A worker runs one action at a time.  job[w] says which, on what, and    *)
(* how far it is: each step of a job is one system call, or several whose  *)
(* interleaving nobody can see, so that other processes, other workers and *)
(* a power cut come between any two of them.  The modules that choose the  *)
(* actions (Dedupe, GuiActions) EXTEND this one.                           *)
(*                                                                         *)
(* A path is a spelling; Canon resolves it to the directory entry it opens *)
(* (a symlinked root, a junction, the \\?\ prefix and 8.3 names give one   *)
(* entry several spellings).  An entry holds an inode or None; two entries *)
(* holding one inode are hard links.                                       *)
(***************************************************************************)
EXTENDS Naturals, FiniteSets

CONSTANTS
  Workers,       \* threads and processes that run file actions
  Entries,       \* directory entries: the scanned files and the names derived from them
  Files,         \* the entries the scan reported
  Paths,         \* spellings; every scanned entry is its own canonical spelling
  Inodes,        \* physical files, and the file-ids the kernel reports for them
  Contents,      \* what a file may hold
  None,          \* no inode, no content, no path
  Canon,         \* path -> the entry it opens
  AsideOf,       \* entry -> where a replacement moves the original: with_extension
  CloneTmpOf,    \* entry -> where a reflink builds the clone
  SafeNameOf,    \* entry -> the name with .superdeduper appended; itself if it has it
  SystemEntries, \* entries below an OS-critical directory
  Placeholder,   \* entry -> what kind of placeholder the file is, or "none"
  Unopenable,    \* entries another program may hold open exclusively
  Windows,       \* the build: Windows, or Linux
  FlakyCleanup   \* whether the clean-up calls whose errors the code drops can fail

Actions == {"remove", "recycle", "hardlink", "reflink", "safeRename"}

Phases == {"none", "guard", "guardTarget", "act", "aside", "link", "swap",
           "drop", "restore", "cloned", "rename", "ok", "failed"}

NoJob == [phase |-> "none", action |-> None, target |-> None, keeper |-> None,
          kid |-> None]

ASSUME NamesAssumption ==
  /\ Files \subseteq Entries
  /\ Files \subseteq Paths
  /\ None \notin Entries /\ None \notin Paths
  /\ None \notin Inodes /\ None \notin Contents
  /\ Canon \in [Paths -> Files]
  /\ \A f \in Files : Canon[f] = f
  /\ AsideOf \in [Files -> Entries]
  /\ CloneTmpOf \in [Files -> Entries]
  /\ SafeNameOf \in [Files -> Entries]
  /\ \A e, f \in Files : /\ AsideOf[e] # CloneTmpOf[f]
                         /\ AsideOf[e] # SafeNameOf[f]
                         /\ CloneTmpOf[e] # SafeNameOf[f]
  /\ SystemEntries \subseteq Entries
  /\ Placeholder \in [Files -> {"none", "recall", "dedup", "other"}]
  /\ Unopenable \subseteq Entries
  /\ Windows \in BOOLEAN /\ FlakyCleanup \in BOOLEAN

\* What the derived names promise only as long as the scanned ones are kind: no
\* scanned file bears one, and no two scanned files share one.  The second fails
\* for photo.jpg and photo.txt, because with_extension REPLACES the extension.
NamesApart ==
  /\ \A e \in Files : /\ AsideOf[e] \notin Files
                      /\ CloneTmpOf[e] \notin Files
                      /\ SafeNameOf[e] = e \/ SafeNameOf[e] \notin Files
  /\ \A e, f \in Files : e # f => /\ AsideOf[e] # AsideOf[f]
                                  /\ CloneTmpOf[e] # CloneTmpOf[f]

VARIABLES
  dir,    \* entry -> the inode it holds, or None
  data,   \* inode -> its content, None before it is ever allocated
  trash,  \* inodes in the recycle bin
  job     \* worker -> the action it is carrying out

disk  == <<dir, data, trash>>
fvars == <<dir, data, trash, job>>

\* What a user can still open, or restore from the recycle bin.
Reachable == {dir[e] : e \in {x \in Entries : dir[x] # None}} \union trash
Surviving == {data[i] : i \in Reachable}

FreshInodes == Inodes \ Reachable

Exists(e) == dir[e] # None

FilesTypeOK ==
  /\ dir \in [Entries -> Inodes \union {None}]
  /\ data \in [Inodes -> Contents \union {None}]
  /\ trash \in SUBSET Inodes
  /\ job \in [Workers ->
       [phase : Phases, action : Actions \union {None},
        target : Paths \union {None}, keeper : Paths \union {None},
        kid : Inodes \union {None}]]

-----------------------------------------------------------------------------
(* Path resolution and identity.                                           *)

\* fs::canonicalize, falling back to the spelling when the file is not there.
CanonicalKey(p) == IF Exists(Canon[p]) THEN Canon[p] ELSE p

\* What one call of file_identity may return: the inode behind the path, or
\* nothing when the file is missing or another program denies the open.
IdentityReads(p) ==
  {dir[Canon[p]]} \union (IF Canon[p] \in Unopenable THEN {None} ELSE {})

\* Mutant: the guard of v0.2.35, which looked at the spelling only.
ResolvesAsSpelled(p) == p \in SystemEntries

ResolvesToSystemPath(p) == p \in SystemEntries \/ CanonicalKey(p) \in SystemEntries

\* placeholder_state_for stats the path on Windows and is a constant elsewhere.
PlaceholderStatFails(p) == Windows /\ ~Exists(Canon[p])

\* classify(attributes, None): without the tag a dedup reparse point is as
\* unknown as any other one.
PlaceholderState(p) ==
  IF ~Windows THEN "none"
  ELSE IF Placeholder[Canon[p]] = "dedup" THEN "other" ELSE Placeholder[Canon[p]]

BlocksDestructive(p, allowDeduped) ==
  \/ PlaceholderState(p) \in {"recall", "other"}
  \/ PlaceholderState(p) = "dedup" /\ ~allowDeduped

\* rename(2): the target name is replaced; two links of one inode are left alone.
Renamed(d, from, to) ==
  IF d[from] = d[to] THEN d ELSE [d EXCEPT ![to] = d[from], ![from] = None]

-----------------------------------------------------------------------------
(* The guards every destructive action passes before its first system call. *)

Target(w) == Canon[job[w].target]
Keeper(w) == Canon[job[w].keeper]

Goto(w, ph) == job' = [job EXCEPT ![w].phase = ph]

\* How a caller hands an action to the layer.
Begin(w, action, target, keeper) ==
  job' = [job EXCEPT ![w] = [phase |-> "guard", action |-> action,
                             target |-> target, keeper |-> keeper, kid |-> None]]

\* guard_destructive, then the first half of guard_keeper_identity: only the
\* delete-the-loser actions compare identities.
GuardKeeper(w, allowDeduped) ==
  LET j == job[w] IN
  /\ j.phase = "guard"
  /\ IF PlaceholderStatFails(j.target) \/ BlocksDestructive(j.target, allowDeduped)
     THEN Goto(w, "failed")
     ELSE IF j.action \in {"hardlink", "reflink"}
     THEN Goto(w, "act")
     ELSE \E kid \in IdentityReads(j.keeper) :
            job' = [job EXCEPT ![w].phase = "guardTarget", ![w].kid = kid]
  /\ UNCHANGED disk

\* Mutant: only the planner's identity gate is left.
GuardTargetTrusting(w) ==
  /\ job[w].phase = "guardTarget"
  /\ Goto(w, "act")
  /\ UNCHANGED disk

\* The second half: the target's identity is read after the keeper's.
GuardTarget(w) ==
  LET j == job[w] IN
  /\ j.phase = "guardTarget"
  /\ \E mid \in IdentityReads(j.target) :
       IF \/ j.kid # None /\ j.kid = mid
          \/ j.action = "remove" /\ (j.kid = None \/ mid = None)
       THEN Goto(w, "failed")
       ELSE Goto(w, "act")
  /\ UNCHANGED disk

\* The operating system refuses the call (permissions, sharing mode, another
\* volume): nothing has been moved yet, and nothing is.
Refused(w) ==
  /\ job[w].phase \in {"act", "aside", "rename"}
  /\ Goto(w, "failed")
  /\ UNCHANGED disk

-----------------------------------------------------------------------------
(* Remove, recycle, safe rename.                                           *)

RemoveFile(w) ==
  /\ job[w].phase = "act" /\ job[w].action = "remove"
  /\ Exists(Target(w))
  /\ dir' = [dir EXCEPT ![Target(w)] = None]
  /\ Goto(w, "ok")
  /\ UNCHANGED <<data, trash>>

Recycle(w) ==
  /\ job[w].phase = "act" /\ job[w].action = "recycle"
  /\ Exists(Target(w))
  /\ trash' = trash \union {dir[Target(w)]}
  /\ dir' = [dir EXCEPT ![Target(w)] = None]
  /\ Goto(w, "ok")
  /\ UNCHANGED data

\* An already suffixed name is a no-op; an occupied destination is an error.
SafeRenameCheck(w) ==
  LET dest == SafeNameOf[Target(w)] IN
  /\ job[w].phase = "act" /\ job[w].action = "safeRename"
  /\ Goto(w, IF dest = Target(w) THEN "ok"
             ELSE IF Exists(dest) THEN "failed" ELSE "rename")
  /\ UNCHANGED disk

SafeRename(w) ==
  /\ job[w].phase = "rename"
  /\ IF Exists(Target(w))
     THEN dir' = Renamed(dir, Target(w), SafeNameOf[Target(w)]) /\ Goto(w, "ok")
     ELSE dir' = dir /\ Goto(w, "failed")
  /\ UNCHANGED <<data, trash>>

-----------------------------------------------------------------------------
(* Replacing a file by a link to the keeper, or by a clone of it.          *)

MovesAside(a) == a = "hardlink" \/ (a = "reflink" /\ Windows)

\* A leftover of an earlier, interrupted replacement is deleted first.
ClearStale(w) ==
  LET stale == {AsideOf[Target(w)]}
               \union (IF job[w].action = "reflink" THEN {CloneTmpOf[Target(w)]} ELSE {})
  IN
  /\ job[w].phase = "act" /\ MovesAside(job[w].action)
  /\ dir' = [e \in Entries |-> IF e \in stale THEN None ELSE dir[e]]
  /\ Goto(w, IF job[w].action = "reflink" /\ ~Exists(Keeper(w)) THEN "failed" ELSE "aside")
  /\ UNCHANGED <<data, trash>>

MoveAside(w) ==
  /\ job[w].phase = "aside"
  /\ IF Exists(Target(w))
     THEN dir' = Renamed(dir, Target(w), AsideOf[Target(w)]) /\ Goto(w, "link")
     ELSE dir' = dir /\ Goto(w, "failed")
  /\ UNCHANGED <<data, trash>>

\* fs::hard_link / CreateHardLinkW: needs the keeper, and a free name.
HardLink(w) ==
  /\ job[w].phase = "link" /\ job[w].action = "hardlink"
  /\ Exists(Keeper(w)) /\ ~Exists(Target(w))
  /\ dir' = [dir EXCEPT ![Target(w)] = dir[Keeper(w)]]
  /\ Goto(w, "drop")
  /\ UNCHANGED <<data, trash>>

\* A clone is a new inode with the keeper's content, built under a name of its own.
CloneKeeper(w) ==
  \E i \in FreshInodes :
    /\ Exists(Keeper(w))
    /\ dir' = [dir EXCEPT ![CloneTmpOf[Target(w)]] = i]
    /\ data' = [data EXCEPT ![i] = data[dir[Keeper(w)]]]
    /\ UNCHANGED trash

\* Windows: block_clone, with the original already aside.
BlockClone(w) ==
  /\ job[w].phase = "link" /\ job[w].action = "reflink"
  /\ ~Exists(CloneTmpOf[Target(w)])
  /\ CloneKeeper(w)
  /\ Goto(w, "swap")

SwapIn(w) ==
  LET tmp == CloneTmpOf[Target(w)] IN
  /\ job[w].phase = "swap" /\ Exists(tmp)
  /\ dir' = Renamed(dir, tmp, Target(w))
  /\ Goto(w, "drop")
  /\ UNCHANGED <<data, trash>>

\* Mutant: the error of the link call is dropped and the aside copy deleted.
LinkFailsUnnoticed(w) ==
  job[w].phase \in {"link", "swap"} /\ Goto(w, "drop") /\ UNCHANGED disk

\* Mutant: the error is returned, but nothing is moved back.
LinkFailsBare(w) ==
  job[w].phase \in {"link", "swap"} /\ Goto(w, "failed") /\ UNCHANGED disk

\* The link, the clone or its renaming failed: no keeper, the name taken again,
\* another volume, a file system without clones.
LinkFails(w) ==
  /\ job[w].phase \in {"link", "swap"}
  /\ Goto(w, "restore")
  /\ UNCHANGED disk

\* remove_file(&tmp).ok(): the original is gone only now.
DropAside(w) ==
  /\ job[w].phase = "drop"
  /\ \/ dir' = [dir EXCEPT ![AsideOf[Target(w)]] = None]
     \/ FlakyCleanup /\ dir' = dir
  /\ Goto(w, "ok")
  /\ UNCHANGED <<data, trash>>

\* rename(&tmp, target).ok(), and on Windows the half-made clone is deleted.
Restore(w) ==
  LET back == IF Exists(AsideOf[Target(w)])
              THEN Renamed(dir, AsideOf[Target(w)], Target(w)) ELSE dir IN
  /\ job[w].phase = "restore"
  /\ \E d \in {back} \union (IF FlakyCleanup THEN {dir} ELSE {}) :
       dir' = IF job[w].action = "reflink"
              THEN [d EXCEPT ![CloneTmpOf[Target(w)]] = None] ELSE d
  /\ Goto(w, "failed")
  /\ UNCHANGED <<data, trash>>

\* Linux clone_file: clone beside the target, then rename over it; when that
\* fails the clone is deleted.
Ficlone(w) ==
  /\ job[w].phase = "act" /\ job[w].action = "reflink" /\ ~Windows
  /\ CloneKeeper(w)
  /\ Goto(w, "cloned")

\* FICLONE is refused: a stale clone was removed, and so is the new one.
FicloneFails(w) ==
  /\ job[w].phase = "act" /\ job[w].action = "reflink" /\ ~Windows
  /\ dir' = IF Exists(Keeper(w)) THEN [dir EXCEPT ![CloneTmpOf[Target(w)]] = None] ELSE dir
  /\ Goto(w, "failed")
  /\ UNCHANGED <<data, trash>>

RenameClone(w) ==
  LET tmp == CloneTmpOf[Target(w)] IN
  /\ job[w].phase = "cloned"
  /\ \/ /\ Exists(tmp)
        /\ dir' = Renamed(dir, tmp, Target(w))
        /\ Goto(w, "ok")
     \/ /\ dir' = [dir EXCEPT ![tmp] = None]
        /\ Goto(w, "failed")
  /\ UNCHANGED <<data, trash>>

-----------------------------------------------------------------------------
ActStep(w) ==
  \/ GuardTarget(w) \/ Refused(w)
  \/ RemoveFile(w) \/ Recycle(w)
  \/ SafeRenameCheck(w) \/ SafeRename(w)
  \/ ClearStale(w) \/ MoveAside(w) \/ HardLink(w) \/ BlockClone(w) \/ SwapIn(w)
  \/ LinkFails(w) \/ DropAside(w) \/ Restore(w)
  \/ Ficlone(w) \/ FicloneFails(w) \/ RenameClone(w)

-----------------------------------------------------------------------------
(* Other programs.  They do to the user's files what editors and people do: *)
(* write in place, save atomically over the name, delete.                   *)

WriteInPlace(f, c) ==
  /\ Exists(f)
  /\ data' = [data EXCEPT ![dir[f]] = c]
  /\ UNCHANGED <<dir, trash>>

SaveOver(f, c) ==
  \E i \in FreshInodes :
    /\ dir' = [dir EXCEPT ![f] = i]
    /\ data' = [data EXCEPT ![i] = c]
    /\ UNCHANGED trash

DeleteFile(f) ==
  /\ Exists(f)
  /\ dir' = [dir EXCEPT ![f] = None]
  /\ UNCHANGED <<data, trash>>
=============================================================================
