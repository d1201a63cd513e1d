---------------------------- MODULE HashPipeline ----------------------------
(***************************************************************************)
(* Stages 2 to 4 of a scan (pipeline/grouping.rs, pipeline/hash.rs): the   *)
(* listed files are split by size, aliases of one inode are set apart, and *)
(* the rest of a size class goes through up to four hash tiers, each file  *)
(* of a tier hashed by some worker of the pool.  Several scans (GUI and    *)
(* CLI processes) share the hash cache, and other programs change files.   *)
(*                                                                         *)
(* A read of a file is one step: no tier sees half of a change.  The walk  *)
(* that lists the files is one step too.                                   *)
(***************************************************************************)
EXTENDS HashCache, Functions

CONSTANTS
  Files,
  Inodes,
  FirstInode,   \* file -> its inode at the start
  Unidentified, \* the files whose inode the walk cannot tell
  Contents,
  FirstContent, \* inode -> its content at the start
  SizeOf,       \* content -> its size
  BigSizes,     \* the sizes tier two applies to
  Digest,       \* tier one, two, three -> content -> digest
  Fingerprint,        \* file -> content -> tier zero fingerprint, or NoPrint
  NoPrint,
  Failed,
  Blocked,      \* the files whose placeholder state forbids reading them
  Caching,      \* the scans that use the cache
  Mirroring,    \* the scans that load it into a mirror first (the GUI's)
  FormatAware,  \* tier zero is on
  Cancellable,  \* the scans that have a cancel flag (the GUI's)
  Flaky,        \* reads and cache writes may fail
  MaxScans, MaxEdits, MaxKills, EditKinds

Sizes == {SizeOf[c] : c \in Contents}
Outcomes == Hashes \union {None, NoPrint, Failed}

ASSUME InputsAssumption ==
  /\ FirstInode \in [Files -> Inodes]
  /\ FirstContent \in [Inodes -> Contents]
  /\ SizeOf \in [Contents -> Nat]
  /\ Unidentified \subseteq Files
  /\ Fingerprint \in [Files -> [Contents -> Hashes \union {NoPrint}]]
  /\ Digest \in [Tiers \ {"zero"} -> [Contents -> Hashes]]
  /\ Caching \subseteq Scanners
  /\ Mirroring \subseteq Caching
  /\ EditKinds \subseteq {"write", "replace", "reuse"}
  /\ Inodes \union Unidentified \subseteq Keys

ASSUME FilesAssumption == IsFiniteSet(Files)

\* All empty files are alike.
ASSUME EmptyAssumption == \A c, d \in Contents : SizeOf[c] = 0 /\ SizeOf[d] = 0 => c = d

ASSUME OutcomesAssumption ==
  /\ {None, NoPrint, Failed} \intersect Hashes = {}
  /\ None # NoPrint /\ None # Failed /\ NoPrint # Failed

\* The full hash tells contents apart, and every tier reads a part of what it reads.
ASSUME DigestAssumption ==
  \A c, d \in Contents : Digest["three"][c] = Digest["three"][d] => c = d

VARIABLES
  inode, content, stamp,  \* the file system: file -> inode, inode -> content, (size, mtime, usn)
  clock,                  \* the last stamp given
  phase,                  \* scan -> "idle", "listed", "hashing" or "over"
  listing,                \* scan -> file -> [inode, stamp, size]
  stage,                  \* scan -> size -> how far run_group got
  pool, links,            \* scan -> size -> the survivors; the alias sets still to hash
  got,                    \* scan -> file -> outcome of the tier
  unsaved,                \* scan -> the files hashed and not yet stored
  found,                  \* scan -> the groups reported
  cancelled,
  held,                   \* scan -> file -> the contents it held since it was listed
  failed,                 \* scan -> some read of it failed
  scans, edits, kills     \* counters of the bounds

fsVars == <<inode, content, stamp, clock>>
scanVars == <<listing, stage, pool, links, got, unsaved, found>>
histVars == <<held, failed, scans, edits, kills>>
vars == <<cvars, fsVars, phase, scanVars, cancelled, histVars>>

Stages == Tiers \union {"queued", "links", "done"}

TypeOK ==
  /\ CacheTypeOK
  /\ inode \in [Files -> Inodes]
  /\ content \in [Inodes -> Contents]
  /\ stamp \in [Inodes -> Nat]
  /\ clock \in Nat
  /\ phase \in [Scanners -> {"idle", "listed", "hashing", "over"}]
  /\ listing \in [Scanners -> [Files -> [inode : Inodes, stamp : Nat, size : Sizes]]]
  /\ stage \in [Scanners -> [Sizes -> Stages]]
  /\ pool \in [Scanners -> [Sizes -> SUBSET Files]]
  /\ links \in [Scanners -> [Sizes -> SUBSET SUBSET Files]]
  /\ got \in [Scanners -> [Files -> Outcomes]]
  /\ unsaved \in [Scanners -> SUBSET Files]
  /\ found \in [Scanners -> SUBSET SUBSET Files]
  /\ cancelled \in [Scanners -> BOOLEAN]
  /\ held \in [Scanners -> [Files -> SUBSET Contents]]
  /\ failed \in [Scanners -> BOOLEAN]
  /\ scans \in Nat /\ edits \in Nat /\ kills \in Nat

-----------------------------------------------------------------------------
(* The file system, and the entries a listing makes of it. *)

ContentOf(f) == content[inode[f]]
Entry(f) == [inode |-> inode[f], stamp |-> stamp[inode[f]], size |-> SizeOf[ContentOf(f)]]

Init ==
  /\ CacheInit
  /\ inode = FirstInode
  /\ content = FirstContent
  /\ stamp = [i \in Inodes |-> 0]
  /\ clock = 0
  /\ phase = [p \in Scanners |-> "idle"]
  /\ listing = [p \in Scanners |-> [f \in Files |-> Entry(f)]]
  /\ stage = [p \in Scanners |-> [s \in Sizes |-> "done"]]
  /\ pool = [p \in Scanners |-> [s \in Sizes |-> {}]]
  /\ links = [p \in Scanners |-> [s \in Sizes |-> {}]]
  /\ got = [p \in Scanners |-> [f \in Files |-> None]]
  /\ unsaved = [p \in Scanners |-> {}]
  /\ found = [p \in Scanners |-> {}]
  /\ cancelled = [p \in Scanners |-> FALSE]
  /\ held = [p \in Scanners |-> [f \in Files |-> {}]]
  /\ failed = [p \in Scanners |-> FALSE]
  /\ scans = 0 /\ edits = 0 /\ kills = 0

Scanning(p) == phase[p] \in {"listed", "hashing"}

\* A change of the file system, seen by every scan under way.
Witness ==
  held' = [p \in Scanners |-> [f \in Files |->
    IF Scanning(p) THEN held[p][f] \union {content'[inode'[f]]} ELSE held[p][f]]]

\* Another program writes a file in place: every alias of its inode changes.
\* While a scan is on, the size stays.
WriteFile(f, c) ==
  /\ "write" \in EditKinds
  /\ content' = [content EXCEPT ![inode[f]] = c]
  /\ stamp' = [stamp EXCEPT ![inode[f]] = clock + 1]
  /\ UNCHANGED inode

\* No file ever had this inode, and none has it now; one that a file had is given
\* out again only by some file systems ("reuse").
Fresh(i) == stamp[i] = 0 /\ i \notin Range(FirstInode)
Free(i) == i \notin Range(inode) /\ (Fresh(i) \/ "reuse" \in EditKinds)

\* Another program saves a file by renaming a new one over it: a new inode.
ReplaceFile(f, c) ==
  /\ "replace" \in EditKinds
  /\ \E i \in Inodes :
       /\ Free(i)
       /\ inode' = [inode EXCEPT ![f] = i]
       /\ content' = [content EXCEPT ![i] = c]
       /\ stamp' = [stamp EXCEPT ![i] = clock + 1]

EditFile(f) ==
  /\ edits < MaxEdits
  /\ edits' = edits + 1
  /\ clock' = clock + 1
  /\ \E c \in Contents \ {ContentOf(f)} :
       /\ (\E p \in Scanners : Scanning(p)) => SizeOf[c] = SizeOf[ContentOf(f)]
       /\ WriteFile(f, c) \/ ReplaceFile(f, c)
  /\ Witness
  /\ UNCHANGED <<cvars, phase, scanVars, cancelled, failed, scans, kills>>

ClearCache ==
  /\ Clear
  /\ rows' # rows
  /\ UNCHANGED <<mirror, fsVars, phase, scanVars, cancelled, histVars>>

-----------------------------------------------------------------------------
(* The scan. *)

\* group_by_size: a size held by one file only is no class.
SizeClass(s) == {f \in Files : Entry(f).size = s}

ListFiles(p) ==
  /\ ~ Scanning(p)
  /\ scans < MaxScans
  /\ scans' = scans + 1
  /\ phase' = [phase EXCEPT ![p] = "listed"]
  /\ listing' = [listing EXCEPT ![p] = [f \in Files |-> Entry(f)]]
  /\ stage' = [stage EXCEPT ![p] =
                 [s \in Sizes |-> IF Cardinality(SizeClass(s)) >= 2 THEN "queued" ELSE "done"]]
  /\ pool' = [pool EXCEPT ![p] = [s \in Sizes |-> SizeClass(s)]]
  /\ links' = [links EXCEPT ![p] = [s \in Sizes |-> {}]]
  /\ got' = [got EXCEPT ![p] = [f \in Files |-> None]]
  /\ unsaved' = [unsaved EXCEPT ![p] = {}]
  /\ found' = [found EXCEPT ![p] = {}]
  /\ cancelled' = [cancelled EXCEPT ![p] = FALSE]
  /\ held' = [held EXCEPT ![p] = [f \in Files |-> {ContentOf(f)}]]
  /\ failed' = [failed EXCEPT ![p] = FALSE]
  /\ UNCHANGED <<cvars, fsVars, edits, kills>>

\* The GUI loads the mirror once the files are listed; the load may fail.
BeginHashing(p) ==
  /\ phase[p] = "listed"
  /\ phase' = [phase EXCEPT ![p] = "hashing"]
  /\ \/ p \in Mirroring /\ Warm(p)
     \/ (p \notin Mirroring \/ Flaky) /\ Cold(p)
  /\ UNCHANGED <<rows, fsVars, scanVars, cancelled, histVars>>

\* The frame of a step of run_group.
Working(p, s, at) ==
  /\ phase[p] = "hashing"
  /\ stage[p][s] = at
  /\ UNCHANGED <<fsVars, phase, listing, cancelled, held, scans, edits, kills>>

SetStage(p, s, at) == stage' = [stage EXCEPT ![p][s] = at]
SetPool(p, s, files) == pool' = [pool EXCEPT ![p][s] = files]
Report(p, groups) == found' = [found EXCEPT ![p] = @ \union groups]

\* partition_by_inode: the listed inodes with two aliases or more.
AliasSets(p, files) ==
  LET known == files \ Unidentified
      Aliases(f) == {g \in known : listing[p][g].inode = listing[p][f].inode}
  IN  {A \in {Aliases(f) : f \in known} : Cardinality(A) >= 2}

\* apply_tier_guards
Allowed(p, s) == pool[p][s] \ Blocked

\* A worker takes a class: tier guards, the empty files, the aliases.
PickUp(p, s) ==
  LET allowed == Allowed(p, s) IN
  /\ Working(p, s, "queued")
  /\ \/ /\ cancelled[p]
        /\ SetStage(p, s, "done")
        /\ UNCHANGED <<pool, links, found>>
     \/ /\ ~ cancelled[p]
        /\ s = 0
        /\ SetStage(p, s, "done")
        /\ Report(p, {G \in {allowed} : Cardinality(G) >= 2})
        /\ UNCHANGED <<pool, links>>
     \/ /\ ~ cancelled[p]
        /\ s # 0
        /\ SetStage(p, s, "links")
        /\ links' = [links EXCEPT ![p][s] = AliasSets(p, allowed)]
        /\ SetPool(p, s, allowed \ UNION AliasSets(p, allowed))
        /\ UNCHANGED found
  /\ UNCHANGED <<cvars, got, unsaved, failed>>

\* Stream A: one file of an alias set is hashed, without the cache; a set that
\* cannot be hashed is skipped.
HashAliases(p, s) ==
  /\ Working(p, s, "links")
  /\ links[p][s] # {}
  /\ \/ /\ cancelled[p]
        /\ SetStage(p, s, "done")
        /\ UNCHANGED <<links, found, failed>>
     \/ /\ ~ cancelled[p]
        /\ \E A \in links[p][s] :
             /\ links' = [links EXCEPT ![p][s] = @ \ {A}]
             /\ \/ Report(p, {A}) /\ UNCHANGED failed
                \/ Flaky /\ failed' = [failed EXCEPT ![p] = TRUE] /\ UNCHANGED found
        /\ UNCHANGED stage
  /\ UNCHANGED <<cvars, pool, got, unsaved>>

\* Stream B begins; tier zero is entered without a look at the cancel flag.
BeginTiers(p, s) ==
  /\ Working(p, s, "links")
  /\ links[p][s] = {}
  /\ SetStage(p, s, IF Cardinality(pool[p][s]) < 2 THEN "done"
                    ELSE IF FormatAware THEN "zero"
                    ELSE IF cancelled[p] THEN "done" ELSE "one")
  /\ UNCHANGED <<cvars, pool, links, got, unsaved, found, failed>>

-----------------------------------------------------------------------------
(* The tiers. *)

\* Mutant: the path is always the key.
CacheKeyByPath(p, f) == f

\* cache_key: without an inode the path stands in.
CacheKey(p, f) == IF f \in Unidentified THEN f ELSE listing[p][f].inode

TierHash(t, f) == IF t = "zero" THEN Fingerprint[f][ContentOf(f)] ELSE Digest[t][ContentOf(f)]

Hit(p, f, t) ==
  IF p \in Caching THEN Cached(p, CacheKey(p, f), listing[p][f].stamp, t) ELSE None

\* A fingerprint that tier zero declines is not stored.
ToStore(p, f, h) == IF p \in Caching /\ h # NoPrint THEN {f} ELSE {}

\* tiered and tiered_optional: a cached hash, or the file is read.
HashFile(p, s, f) ==
  LET t == stage[p][s]
      hit == Hit(p, f, t)
      Outcome(h) == got' = [got EXCEPT ![p][f] = h]
  IN
  /\ t \in Tiers
  /\ Working(p, s, t)
  /\ f \in pool[p][s]
  /\ got[p][f] = None
  /\ \/ t = "zero" /\ cancelled[p] /\ Outcome(NoPrint) /\ UNCHANGED <<unsaved, failed>>
     \/ /\ ~ (t = "zero" /\ cancelled[p])
        /\ hit # None
        /\ Outcome(hit)
        /\ UNCHANGED <<unsaved, failed>>
     \/ /\ hit = None
        /\ t = "three" /\ cancelled[p]
        /\ Outcome(Failed)
        /\ UNCHANGED <<unsaved, failed>>
     \/ /\ hit = None
        /\ ~ (t \in {"zero", "three"} /\ cancelled[p])
        /\ Outcome(TierHash(t, f))
        /\ unsaved' = [unsaved EXCEPT ![p] = @ \union ToStore(p, f, TierHash(t, f))]
        /\ UNCHANGED failed
     \/ /\ hit = None
        /\ Flaky
        /\ Outcome(IF t = "zero" THEN NoPrint ELSE Failed)
        /\ failed' = [failed EXCEPT ![p] = TRUE]
        /\ UNCHANGED unsaved
  /\ UNCHANGED <<cvars, stage, pool, links, found>>

\* The worker stores the hash under the entry as it was listed.
SaveHash(p, s, f) ==
  /\ Working(p, s, stage[p][s])
  /\ f \in unsaved[p] \intersect pool[p][s]
  /\ unsaved' = [unsaved EXCEPT ![p] = @ \ {f}]
  /\ \/ Store(CacheKey(p, f), listing[p][f].stamp, stage[p][s], got[p][f])
     \/ Flaky /\ UNCHANGED rows
  /\ UNCHANGED <<mirror, stage, pool, links, got, found, failed>>

\* The files of the class with this hash.
Bucket(p, s, h) == {f \in pool[p][s] : got[p][f] = h}

Buckets(p, s) ==
  {B \in {Bucket(p, s, h) : h \in {got[p][f] : f \in pool[p][s]} \intersect Hashes} :
     Cardinality(B) >= 2}

\* Mutant: a file tier zero cannot parse is released.
SurvivorsPrinted(p, s) == UNION Buckets(p, s)

\* split_by and split_by_optional: files without a fingerprint stay.
Survivors(p, s) ==
  (UNION Buckets(p, s)) \union (IF stage[p][s] = "zero" THEN Bucket(p, s, NoPrint) ELSE {})

\* Mutant: a tier ends once every file has a hash.
TierDoneAll(p, s) == \A f \in pool[p][s] : got[p][f] \notin {None, Failed} /\ f \notin unsaved[p]

\* The parallel iteration over the pool is over.
TierDone(p, s) == \A f \in pool[p][s] : got[p][f] # None /\ f \notin unsaved[p]

TierAfter(t, s) ==
  CASE t = "zero" -> "one"
    [] t = "one" -> IF s \in BigSizes THEN "two" ELSE "three"
    [] t = "two" -> "three"

\* All files of the class are through a tier: the survivors go on to the next.
NextTier(p, s) ==
  LET t == stage[p][s] IN
  /\ t \in Tiers \ {"three"}
  /\ Working(p, s, t)
  /\ TierDone(p, s)
  /\ SetPool(p, s, Survivors(p, s))
  /\ SetStage(p, s, IF Cardinality(Survivors(p, s)) < 2 \/ cancelled[p]
                    THEN "done" ELSE TierAfter(t, s))
  /\ got' = [got EXCEPT ![p] = [f \in Files |-> IF f \in pool[p][s] THEN None ELSE got[p][f]]]
  /\ UNCHANGED <<cvars, links, unsaved, found, failed>>

\* Tier three confirms: files with one full hash are a group.
Confirm(p, s) ==
  /\ Working(p, s, "three")
  /\ TierDone(p, s)
  /\ Report(p, Buckets(p, s))
  /\ SetStage(p, s, "done")
  /\ UNCHANGED <<cvars, pool, links, got, unsaved, failed>>

RunGroup(p, s) ==
  \/ PickUp(p, s)
  \/ HashAliases(p, s)
  \/ BeginTiers(p, s)
  \/ \E f \in Files : HashFile(p, s, f) \/ SaveHash(p, s, f)
  \/ NextTier(p, s)
  \/ Confirm(p, s)

FinishScan(p) ==
  /\ phase[p] = "hashing"
  /\ \A s \in Sizes : stage[p][s] = "done"
  /\ phase' = [phase EXCEPT ![p] = "over"]
  /\ UNCHANGED <<cvars, fsVars, scanVars, cancelled, histVars>>

Cancel(p) ==
  /\ p \in Cancellable
  /\ Scanning(p)
  /\ ~ cancelled[p]
  /\ cancelled' = [cancelled EXCEPT ![p] = TRUE]
  /\ UNCHANGED <<cvars, fsVars, phase, scanVars, histVars>>

\* The process is killed: its mirror and all it worked on are gone.
Kill(p) ==
  /\ Scanning(p)
  /\ kills < MaxKills
  /\ kills' = kills + 1
  /\ phase' = [phase EXCEPT ![p] = "idle"]
  /\ Cold(p)
  /\ UNCHANGED <<rows, fsVars, scanVars, cancelled, held, failed, scans, edits>>

ScanStep(p) == BeginHashing(p) \/ (\E s \in Sizes : RunGroup(p, s)) \/ FinishScan(p)

Next ==
  \/ \E p \in Scanners : ListFiles(p) \/ ScanStep(p) \/ Cancel(p) \/ Kill(p)
  \/ \E f \in Files : EditFile(f)
  \/ ClearCache

\* The pool's workers run on; nobody has to start, cancel or kill a scan.
Spec == Init /\ [][Next]_vars /\ \A p \in Scanners : WF_vars(ScanStep(p))

-----------------------------------------------------------------------------
(* Properties. *)

\* The groups of a scan are disjoint, and the members of each held one common
\* content since they were listed: a scan implements the DuplicateFinder, with
\* any number of scans sharing the cache (hash.rs run_group, cache.rs).
Finder(p) == INSTANCE DuplicateFinder WITH
  held <- held[p],
  answers <- found[p],
  search <- IF Scanning(p) THEN "on" ELSE phase[p]

FindsDuplicates ==
  /\ \A p \in Scanners : Finder(p)!Init
  /\ [][\A p \in Scanners : Finder(p)!Next \/ UNCHANGED Finder(p)!fvars]_vars

\* Every reported group is confirmed byte-identical: its members held one content
\* (pipeline/mod.rs, DuplicateGroup).
ConfirmedIdentical ==
  \A p \in Scanners : \A G \in found[p] : \E c \in Contents : \A f \in G : c \in held[p][f]

\* The scan p is over and neither its files nor its reads gave it trouble.
Undisturbed(p) ==
  /\ phase[p] = "over"
  /\ ~ cancelled[p] /\ ~ failed[p]
  /\ \A f \in Files : Cardinality(held[p][f]) = 1

SameContent(p, f, g) == held[p][f] = held[p][g]
Aliased(p, f) ==
  \E g \in Files \ ({f} \union Unidentified \union Blocked) :
    f \notin Unidentified /\ listing[p][f].inode = listing[p][g].inode

\* An undisturbed scan misses nothing the pipeline compares: the aliases of one
\* inode are a group, and so are the files of one content that have one alias
\* each and that tier zero treats alike.
NothingMissed ==
  \A p \in Scanners : Undisturbed(p) =>
    \A f, g \in Files \ Blocked :
      LET zero == \E c \in held[p][f] : c \in held[p][g] /\ SizeOf[c] = 0
          linked == /\ {f, g} \intersect Unidentified = {}
                    /\ listing[p][f].inode = listing[p][g].inode
          printed == \A c \in held[p][f] : FormatAware => Fingerprint[f][c] = Fingerprint[g][c]
      IN  /\ f # g
          /\ SameContent(p, f, g)
          /\ zero \/ linked \/ (~ Aliased(p, f) /\ ~ Aliased(p, g) /\ printed)
          => \E G \in found[p] : {f, g} \subseteq G

\* Every scan ends, cancelled or not, whatever fails.
ScanEnds == \A p \in Scanners : phase[p] = "hashing" ~> phase[p] # "hashing"
=============================================================================
