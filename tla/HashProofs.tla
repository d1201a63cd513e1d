----------------------------- MODULE HashProofs -----------------------------
(***************************************************************************)
(* What TLAPS proves about HashPipeline: whatever files, scans, edits and  *)
(* kills there are, a scan that trusts no stale row reports duplicates     *)
(* only, and misses none that it compares unless something disturbs it.    *)
EXTENDS HashPipeline, FiniteSetTheorems, TLAPS

-----------------------------------------------------------------------------
(* The inductive invariant. *)

\* Without a cache, or with one whose rows nobody makes stale: other programs save
\* files by renaming only, an inode number is not given out twice, and every file
\* has one.
RowsStayTrue == EditKinds \subseteq {"replace"} /\ Unidentified = {}
Trusted == Caching = {} \/ RowsStayTrue

\* Some content was that of all files listed with inode i, and of no other size.
Common(p, i, c) ==
  \A f \in Files : listing[p][f].inode = i => c \in held[p][f] /\ SizeOf[c] = listing[p][f].size

Listings ==
  \A p \in Scanners : Scanning(p) =>
    /\ \A f \in Files : ContentOf(f) \in held[p][f]
    /\ \A i \in Inodes : \E c \in Contents : Common(p, i, c)

\* Aliases of one listed inode, of the class.
AliasSet(p, s, S) ==
  /\ S \subseteq Files
  /\ Cardinality(S) >= 2
  /\ \E i \in Inodes : \A f \in S : listing[p][f].inode = i /\ listing[p][f].size = s

Unreported(p, files) == \A G \in found[p] : G \intersect files = {}

\* What a class has still to do: its files are in one place, and in no group yet.
Class(p, s) ==
  /\ \A f \in pool[p][s] : listing[p][f].size = s
  /\ Unreported(p, pool[p][s])
  /\ \A S \in links[p][s] :
       /\ AliasSet(p, s, S)
       /\ S \intersect pool[p][s] = {}
       /\ Unreported(p, S)
       /\ \A T \in links[p][s] : S = T \/ S \intersect T = {}
  /\ stage[p][s] = "queued" => \A f \in Files : listing[p][f].size = s => f \in pool[p][s]

Pools == \A p \in Scanners, s \in Sizes : Scanning(p) /\ stage[p][s] # "done" => Class(p, s)

\* What tier t makes of content c of file f.
HashOf(t, f, c) == IF t = "zero" THEN Fingerprint[f][c] ELSE Digest[t][c]

\* A hash is that of a content the file held since it was listed.
TrueHashes ==
  \A p \in Scanners, s \in Sizes : Scanning(p) =>
    \A f \in pool[p][s] :
      /\ f \in unsaved[p] => got[p][f] \in Hashes
      /\ stage[p][s] \in {"queued", "links"} => got[p][f] = None
      /\ stage[p][s] \in Tiers /\ got[p][f] \in Hashes =>
           \E c \in held[p][f] : HashOf(stage[p][s], f, c) = got[p][f]

\* An inode in use is not fresh; one that a file has and that a scan has listed, the
\* scan has listed for that file; two scans agree on who had an inode.
Owners ==
  /\ \A f \in Files : ~ Fresh(inode[f])
  /\ \A p \in Scanners, f \in Files : ~ Fresh(listing[p][f].inode)
  /\ \A p \in Scanners, f, g \in Files :
       inode[f] = listing[p][g].inode => listing[p][f].inode = inode[f]
  /\ \A p, q \in Scanners, f, g \in Files :
       listing[p][f].inode = listing[q][g].inode =>
         listing[p][g].inode = listing[p][f].inode \/ listing[q][f].inode = listing[q][g].inode

\* A file p may hash is the only one of its inode that may be read.
Tiered(p, f) ==
  /\ Scanning(p)
  /\ f \notin Blocked
  /\ \A g \in Files \ Blocked : g # f => listing[p][g].inode # listing[p][f].inode

\* So is each file that goes through the tiers.
Sole ==
  \A p \in Scanners, s \in Sizes :
    Scanning(p) /\ stage[p][s] \in Tiers \union {"links"} =>
      \A f \in pool[p][s] : Tiered(p, f)

\* A hash of tier t that is true of an inode, for whoever may use it.
TrueOf(k, t, h) ==
  /\ \A f \in Files \ Blocked : inode[f] = k => h = HashOf(t, f, content[k])
  /\ \A p \in Scanners, f \in Files : Tiered(p, f) /\ listing[p][f].inode = k =>
       \E c \in held[p][f] : HashOf(t, f, c) = h

TrueTable(table) ==
  \A k \in Inodes : table[k] # None =>
    /\ ~ Fresh(k)
    /\ \A t \in Tiers : table[k].hash[t] # None => TrueOf(k, t, table[k].hash[t])

TrueRows ==
  /\ TrueTable(rows)
  /\ \A p \in Scanners : mirror[p] # None => TrueTable(mirror[p])
  /\ \A p \in Scanners, s \in Sizes :
       Scanning(p) /\ stage[p][s] \in Tiers =>
         \A f \in pool[p][s] :
           got[p][f] \in Hashes => TrueOf(listing[p][f].inode, stage[p][s], got[p][f])

\* What holds if some scan uses the cache.
Shared == Caching # {} => RowsStayTrue /\ Owners /\ Sole /\ TrueRows

IInv == TypeOK /\ Listings /\ Pools /\ TrueHashes /\ ConfirmedIdentical /\ Shared

-----------------------------------------------------------------------------
(* Types. *)

\* What a listing, a digest and a cached hash are.
LEMMA EntryType ==
  ASSUME TypeOK, NEW f \in Files
  PROVE  /\ ContentOf(f) \in Contents
         /\ Entry(f) \in [inode : Inodes, stamp : Nat, size : Sizes]
BY DEF TypeOK, ContentOf, Entry, Sizes

\* Tier zero may decline a file, the other tiers give a hash.
LEMMA HashType ==
  ASSUME TypeOK, NEW f \in Files, NEW t \in Tiers
  PROVE  TierHash(t, f) \in Hashes \union {NoPrint} /\ (t # "zero" => TierHash(t, f) \in Hashes)
BY EntryType, InputsAssumption DEF InputsAssumption, TierHash, Tiers

\* A file has a key in the cache.
LEMMA KeyType ==
  ASSUME TypeOK, NEW p \in Scanners, NEW f \in Files
  PROVE  CacheKey(p, f) \in Keys
BY InputsAssumption DEF InputsAssumption, TypeOK, CacheKey

\* A hit is a hash.
LEMMA HitType ==
  ASSUME TypeOK, NEW p \in Scanners, NEW f \in Files, NEW t \in Tiers
  PROVE  Hit(p, f, t) \in Hashes \union {None}
<1>1. CacheKey(p, f) \in Keys
  BY KeyType
<1>2. \A table \in Table : table[CacheKey(p, f)] # None => table[CacheKey(p, f)].hash[t] \in Hashes \union {None}
  BY <1>1 DEF Table, Row
<1> QED BY <1>2 DEF Hit, Cached, TypeOK, CacheTypeOK

\* The initial values have their types.
LEMMA InitType == Init => TypeOK
<1> SUFFICES ASSUME Init PROVE TypeOK
  OBVIOUS
<1>1. CacheTypeOK
  BY DEF Init, CacheInit, CacheTypeOK, Table
<1>2. inode \in [Files -> Inodes] /\ content \in [Inodes -> Contents] /\ stamp \in [Inodes -> Nat]
  BY InputsAssumption DEF InputsAssumption, Init
<1>3. \A f \in Files : Entry(f) \in [inode : Inodes, stamp : Nat, size : Sizes]
  BY <1>2 DEF Entry, ContentOf, Sizes
<1>4. listing \in [Scanners -> [Files -> [inode : Inodes, stamp : Nat, size : Sizes]]]
  BY <1>3 DEF Init
<1>5. stage \in [Scanners -> [Sizes -> Stages]] /\ got \in [Scanners -> [Files -> Outcomes]]
  BY DEF Init, Stages, Outcomes
<1>6. pool \in [Scanners -> [Sizes -> SUBSET Files]] /\ links \in [Scanners -> [Sizes -> SUBSET SUBSET Files]]
  BY DEF Init
<1> QED BY <1>1, <1>2, <1>4, <1>5, <1>6 DEF Init, TypeOK

\* A file is edited.
LEMMA EditType == ASSUME TypeOK, NEW f \in Files, EditFile(f) PROVE TypeOK'
<1>1. PICK c \in Contents : WriteFile(f, c) \/ ReplaceFile(f, c)
  BY DEF EditFile
<1>2. inode' \in [Files -> Inodes] /\ content' \in [Inodes -> Contents] /\ stamp' \in [Inodes -> Nat] /\ clock' \in Nat
  <2>1. inode[f] \in Inodes /\ clock + 1 \in Nat
    BY DEF TypeOK
  <2>2. CASE WriteFile(f, c)
    BY <2>1, <2>2 DEF EditFile, WriteFile, TypeOK
  <2>3. CASE ReplaceFile(f, c)
    BY <2>1, <2>3 DEF EditFile, ReplaceFile, TypeOK
  <2> QED BY <1>1, <2>2, <2>3
<1>3. \A p \in Scanners, g \in Files : held[p][g] \union {content'[inode'[g]]} \in SUBSET Contents
  BY <1>2 DEF TypeOK
<1>4. \A p \in Scanners, g \in Files : held[p][g] \in SUBSET Contents
  BY DEF TypeOK
<1>5. held' \in [Scanners -> [Files -> SUBSET Contents]]
  <2> DEFINE H(p) == [g \in Files |->
                       IF Scanning(p) THEN held[p][g] \union {content'[inode'[g]]} ELSE held[p][g]]
  <2>1. \A p \in Scanners : H(p) \in [Files -> SUBSET Contents]
    BY <1>3, <1>4
  <2>2. held' = [p \in Scanners |-> H(p)]
    BY DEF EditFile, Witness
  <2> HIDE DEF H
  <2> QED BY <2>1, <2>2
<1> QED BY <1>2, <1>5 DEF EditFile, TypeOK, cvars, scanVars, CacheTypeOK

\* A scan lists the files.
LEMMA ListType == ASSUME TypeOK, NEW p \in Scanners, ListFiles(p) PROVE TypeOK'
<1>1. [f \in Files |-> Entry(f)] \in [Files -> [inode : Inodes, stamp : Nat, size : Sizes]]
      /\ [f \in Files |-> {ContentOf(f)}] \in [Files -> SUBSET Contents]
  BY EntryType
<1>2. [s \in Sizes |-> IF Cardinality(SizeClass(s)) >= 2 THEN "queued" ELSE "done"] \in [Sizes -> Stages]
  BY DEF Stages
<1>3. [s \in Sizes |-> SizeClass(s)] \in [Sizes -> SUBSET Files]
  BY DEF SizeClass
<1>4. [f \in Files |-> None] \in [Files -> Outcomes]
  BY DEF Outcomes
<1> QED BY <1>1, <1>2, <1>3, <1>4 DEF ListFiles, TypeOK, cvars, fsVars, CacheTypeOK

\* An update of a function of two arguments.
LEMMA Update ==
  ASSUME NEW S, NEW R, NEW T, NEW F \in [S -> [R -> T]], NEW a \in S, NEW b \in R, NEW x \in T
  PROVE  /\ [F EXCEPT ![a][b] = x] \in [S -> [R -> T]]
         /\ [F EXCEPT ![a][b] = x][a][b] = x
         /\ \A d \in R \ {b} : [F EXCEPT ![a][b] = x][a][d] = F[a][d]
         /\ \A c \in S \ {a} : [F EXCEPT ![a][b] = x][c] = F[c]
<1> DEFINE g == [F[a] EXCEPT ![b] = x]
<1>1. g \in [R -> T] /\ g[b] = x /\ \A d \in R \ {b} : g[d] = F[a][d]
  OBVIOUS
<1>2. [F EXCEPT ![a][b] = x] = [F EXCEPT ![a] = g]
  OBVIOUS
<1> HIDE DEF g
<1> QED BY <1>1, <1>2

\* F2 is F but for what it says of class s of scan p, or of scan p.
ButClass(F, F2, p, s) ==
  /\ \A r \in Sizes \ {s} : F2[p][r] = F[p][r]
  /\ \A q \in Scanners \ {p} : F2[q] = F[q]
ButScan(F, F2, p) == \A q \in Scanners \ {p} : F2[q] = F[q]

\* A step of run_group is about one class of one scan.
LEMMA Local ==
  ASSUME TypeOK, NEW p \in Scanners, NEW s \in Sizes, RunGroup(p, s)
  PROVE  /\ UNCHANGED <<fsVars, phase, listing, cancelled, held, scans, edits, kills, mirror>>
         /\ phase[p] = "hashing"
         /\ ButClass(stage, stage', p, s) /\ ButClass(pool, pool', p, s) /\ ButClass(links, links', p, s)
         /\ ButScan(got, got', p) /\ ButScan(unsaved, unsaved', p) /\ ButScan(found, found', p)
         /\ ButScan(failed, failed', p)
<1> USE DEF Working, SetStage, SetPool, Report, TypeOK, cvars, ButClass, ButScan
<1>1. CASE PickUp(p, s)
  BY <1>1, Update DEF PickUp
<1>2. CASE HashAliases(p, s)
  BY <1>2, Update DEF HashAliases
<1>3. CASE BeginTiers(p, s)
  BY <1>3, Update DEF BeginTiers
<1>4. ASSUME NEW f \in Files, HashFile(p, s, f) PROVE ButScan(got, got', p)
  BY <1>4 DEF HashFile
<1>5. ASSUME NEW f \in Files, HashFile(p, s, f) PROVE ButScan(unsaved, unsaved', p) /\ ButScan(failed, failed', p)
  BY <1>5 DEF HashFile
<1>6. ASSUME NEW f \in Files, HashFile(p, s, f)
      PROVE  /\ UNCHANGED <<fsVars, phase, listing, cancelled, held, scans, edits, kills, mirror, stage, pool, links, found>>
             /\ phase[p] = "hashing"
  BY <1>6 DEF HashFile
<1>7. ASSUME NEW f \in Files, SaveHash(p, s, f) PROVE UNCHANGED stage /\ ButScan(unsaved, unsaved', p)
  BY <1>7 DEF SaveHash
<1>8. ASSUME NEW f \in Files, SaveHash(p, s, f)
      PROVE  /\ UNCHANGED <<fsVars, phase, listing, cancelled, held, scans, edits, kills, mirror, stage, pool, links, got, found, failed>>
             /\ phase[p] = "hashing"
  BY <1>8 DEF SaveHash
<1>9. CASE NextTier(p, s)
  BY <1>9, Update DEF NextTier
<1>10. CASE Confirm(p, s)
  BY <1>10, Update DEF Confirm
<1> QED BY <1>1, <1>2, <1>3, <1>4, <1>5, <1>6, <1>7, <1>8, <1>9, <1>10 DEF RunGroup
\* A class is at some stage.
LEMMA StageType ==
  ASSUME TypeOK, NEW p \in Scanners, NEW s \in Sizes, NEW at \in Stages, SetStage(p, s, at)
  PROVE  stage' \in [Scanners -> [Sizes -> Stages]]
BY Update DEF SetStage, TypeOK

\* A pool is a set of files.
LEMMA PoolType ==
  ASSUME TypeOK, NEW p \in Scanners, NEW s \in Sizes, NEW files \in SUBSET Files, SetPool(p, s, files)
  PROVE  pool' \in [Scanners -> [Sizes -> SUBSET Files]]
BY Update DEF SetPool, TypeOK

\* What is set apart are sets of files.
LEMMA LinksType ==
  ASSUME TypeOK, NEW p \in Scanners, NEW s \in Sizes, NEW sets \in SUBSET SUBSET Files,
         links' = [links EXCEPT ![p][s] = sets]
  PROVE  links' \in [Scanners -> [Sizes -> SUBSET SUBSET Files]]
<1>1. links \in [Scanners -> [Sizes -> SUBSET SUBSET Files]]
  BY DEF TypeOK
<1> QED BY <1>1, Update

\* What is found are sets of files.
LEMMA ReportType ==
  ASSUME TypeOK, NEW p \in Scanners, NEW groups \in SUBSET SUBSET Files, Report(p, groups)
  PROVE  found' \in [Scanners -> SUBSET SUBSET Files]
<1>1. found \in [Scanners -> SUBSET SUBSET Files]
  BY DEF TypeOK
<1>2. found[p] \union groups \in SUBSET SUBSET Files
  BY <1>1
<1> QED BY <1>1, <1>2 DEF Report

\* A worker's step: the types of what it writes.
LEMMA PickUpType ==
  ASSUME TypeOK, NEW p \in Scanners, NEW s \in Sizes, PickUp(p, s)
  PROVE  TypeOK'
<1>1. pool[p][s] \in SUBSET Files /\ found[p] \in SUBSET SUBSET Files /\ Allowed(p, s) \in SUBSET Files
  BY DEF TypeOK, Allowed
<1>2. AliasSets(p, Allowed(p, s)) \in SUBSET SUBSET Files
  BY <1>1 DEF AliasSets
<1>3. stage' \in [Scanners -> [Sizes -> Stages]]
  BY StageType DEF PickUp, TypeOK, Stages
<1>4. pool' \in [Scanners -> [Sizes -> SUBSET Files]]
  <2>1. Allowed(p, s) \ UNION AliasSets(p, Allowed(p, s)) \in SUBSET Files
    BY <1>1
  <2> QED BY <2>1, PoolType DEF PickUp, TypeOK
<1>5. links' \in [Scanners -> [Sizes -> SUBSET SUBSET Files]]
  BY <1>2, LinksType DEF PickUp, TypeOK
<1>6. found' \in [Scanners -> SUBSET SUBSET Files]
  <2>1. {G \in {Allowed(p, s)} : Cardinality(G) >= 2} \in SUBSET SUBSET Files
    BY <1>1
  <2>2. CASE UNCHANGED found
    BY <2>2 DEF TypeOK
  <2> QED BY <2>1, <2>2, ReportType DEF PickUp
<1>7. UNCHANGED <<cvars, fsVars, phase, listing, cancelled, got, unsaved, failed, held, scans, edits, kills>>
  BY DEF PickUp, Working
<1> QED BY <1>3, <1>4, <1>5, <1>6, <1>7 DEF TypeOK, cvars, fsVars, CacheTypeOK

\* An alias set is hashed or skipped.
LEMMA HashAliasesType ==
  ASSUME TypeOK, NEW p \in Scanners, NEW s \in Sizes, HashAliases(p, s)
  PROVE  TypeOK'
<1>1. links[p][s] \in SUBSET SUBSET Files /\ found[p] \in SUBSET SUBSET Files
  BY DEF TypeOK
<1>2. stage' \in [Scanners -> [Sizes -> Stages]]
  BY StageType DEF HashAliases, TypeOK, Stages
<1>3. links' \in [Scanners -> [Sizes -> SUBSET SUBSET Files]]
  <2>1. CASE UNCHANGED links
    BY <2>1 DEF TypeOK
  <2>2. ASSUME NEW A \in links[p][s], links' = [links EXCEPT ![p][s] = @ \ {A}]
        PROVE  links' \in [Scanners -> [Sizes -> SUBSET SUBSET Files]]
    <3> DEFINE rest == links[p][s] \ {A}
    <3>1. rest \in SUBSET SUBSET Files /\ links' = [links EXCEPT ![p][s] = rest]
      BY <1>1, <2>2
    <3> HIDE DEF rest
    <3> QED BY <3>1, LinksType
  <2> QED BY <2>1, <2>2 DEF HashAliases
<1>4. found' \in [Scanners -> SUBSET SUBSET Files]
  <2>1. CASE UNCHANGED found
    BY <2>1 DEF TypeOK
  <2>2. ASSUME NEW A \in links[p][s], Report(p, {A})
        PROVE  found' \in [Scanners -> SUBSET SUBSET Files]
    <3>1. {A} \in SUBSET SUBSET Files
      BY <1>1
    <3> QED BY <2>2, <3>1, ReportType
  <2> QED BY <2>1, <2>2 DEF HashAliases
<1>6. failed' \in [Scanners -> BOOLEAN]
  BY DEF HashAliases, TypeOK
<1>5. UNCHANGED <<cvars, fsVars, phase, listing, cancelled, pool, got, unsaved, held, scans, edits, kills>>
  BY DEF HashAliases, Working
<1> QED BY <1>2, <1>3, <1>4, <1>5, <1>6 DEF TypeOK, cvars, fsVars, CacheTypeOK

\* The class enters the tiers.
LEMMA BeginTiersType ==
  ASSUME TypeOK, NEW p \in Scanners, NEW s \in Sizes, BeginTiers(p, s)
  PROVE  TypeOK'
<1>1. stage' \in [Scanners -> [Sizes -> Stages]]
  BY StageType DEF BeginTiers, Stages, Tiers
<1>2. UNCHANGED <<cvars, fsVars, phase, listing, cancelled, pool, links, got, unsaved, found, failed, held, scans, edits, kills>>
  BY DEF BeginTiers, Working
<1> QED BY <1>1, <1>2 DEF TypeOK, cvars, fsVars, CacheTypeOK

\* A file has an outcome.
LEMMA HashFileType ==
  ASSUME TypeOK, NEW p \in Scanners, NEW s \in Sizes, NEW f \in Files, HashFile(p, s, f)
  PROVE  TypeOK'
<1>1. stage[p][s] \in Tiers
  BY DEF HashFile
<1>2. TierHash(stage[p][s], f) \in Outcomes /\ Hit(p, f, stage[p][s]) \in Outcomes
  BY <1>1, HashType, HitType DEF Outcomes
<1>3. PICK o \in Outcomes : got' = [got EXCEPT ![p][f] = o]
  BY <1>2 DEF HashFile, Outcomes
<1>4. got' \in [Scanners -> [Files -> Outcomes]]
  BY <1>3, Update DEF TypeOK
<1>5. unsaved' \in [Scanners -> SUBSET Files]
  <2>1. unsaved \in [Scanners -> SUBSET Files] /\ \A h : unsaved[p] \union ToStore(p, f, h) \in SUBSET Files
    BY DEF TypeOK, ToStore
  <2>2. \/ UNCHANGED unsaved
        \/ \E h : unsaved' = [unsaved EXCEPT ![p] = unsaved[p] \union ToStore(p, f, h)]
    BY DEF HashFile
  <2> QED BY <2>1, <2>2
<1>6. failed' \in [Scanners -> BOOLEAN]
  BY DEF HashFile, TypeOK
<1>7. UNCHANGED <<cvars, fsVars, phase, listing, cancelled, stage, pool, links, found, held, scans, edits, kills>>
  BY DEF HashFile, Working
<1> QED BY <1>4, <1>5, <1>6, <1>7 DEF TypeOK, cvars, fsVars, CacheTypeOK

\* What is stored is a hash.
LEMMA SaveHashType ==
  ASSUME TypeOK, NEW p \in Scanners, NEW s \in Sizes, NEW f \in Files, SaveHash(p, s, f),
         got[p][f] \in Hashes
  PROVE  TypeOK'
<1>1. unsaved' \in [Scanners -> SUBSET Files]
  BY DEF SaveHash, TypeOK
<1>2. rows' \in Table
  <2> DEFINE k == CacheKey(p, f)
             t == stage[p][s]
             kept == IF rows[k] = None THEN NoHashes ELSE rows[k].hash
             row == [stamp |-> listing[p][f].stamp, hash |-> [kept EXCEPT ![t] = got[p][f]]]
  <2>1. k \in Keys /\ rows \in Table
    BY KeyType DEF TypeOK, CacheTypeOK
  <2>2. CASE UNCHANGED rows
    BY <2>1, <2>2
  <2>3. CASE rows' = [rows EXCEPT ![k] = row]
    <3>1. kept \in [Tiers -> Hashes \union {None}]
      BY <2>1 DEF Table, Row, NoHashes
    <3>2. [kept EXCEPT ![t] = got[p][f]] \in [Tiers -> Hashes \union {None}]
      BY <3>1
    <3>3. listing[p][f].stamp \in Nat
      BY DEF TypeOK
    <3>4. row \in Row
      BY <3>2, <3>3 DEF Row
    <3> HIDE DEF row, k
    <3> QED BY <2>1, <2>3, <3>4 DEF Table
  <2> QED BY <2>2, <2>3 DEF SaveHash, Store
<1>3. UNCHANGED <<mirror, fsVars, phase, listing, cancelled, stage, pool, links, got, found, failed, held, scans, edits, kills>>
  BY DEF SaveHash, Working
<1> QED BY <1>1, <1>2, <1>3 DEF TypeOK, fsVars, CacheTypeOK

\* The survivors go on.
LEMMA NextTierType ==
  ASSUME TypeOK, NEW p \in Scanners, NEW s \in Sizes, NextTier(p, s)
  PROVE  TypeOK'
<1>1. Survivors(p, s) \in SUBSET Files
  BY DEF TypeOK, Survivors, Buckets, Bucket
<1>2. stage' \in [Scanners -> [Sizes -> Stages]]
  <2>1. stage[p][s] \in {"zero", "one", "two"}
    BY DEF NextTier, Tiers
  <2>2. TierAfter(stage[p][s], s) \in Stages
    BY <2>1 DEF TierAfter, Stages, Tiers
  <2>3. "done" \in Stages
    BY DEF Stages
  <2> QED BY <2>2, <2>3, StageType DEF NextTier
<1>3. pool' \in [Scanners -> [Sizes -> SUBSET Files]]
  BY <1>1, PoolType DEF NextTier
<1>4. got' \in [Scanners -> [Files -> Outcomes]]
  <2>1. [f \in Files |-> IF f \in pool[p][s] THEN None ELSE got[p][f]] \in [Files -> Outcomes]
    BY DEF TypeOK, Outcomes
  <2> QED BY <2>1 DEF NextTier, TypeOK
<1>5. UNCHANGED <<cvars, fsVars, phase, listing, cancelled, links, unsaved, found, failed, held, scans, edits, kills>>
  BY DEF NextTier, Working
<1> QED BY <1>2, <1>3, <1>4, <1>5 DEF TypeOK, cvars, fsVars, CacheTypeOK

\* Tier three reports.
LEMMA ConfirmType ==
  ASSUME TypeOK, NEW p \in Scanners, NEW s \in Sizes, Confirm(p, s)
  PROVE  TypeOK'
<1>1. Buckets(p, s) \in SUBSET SUBSET Files /\ found[p] \in SUBSET SUBSET Files
  BY DEF TypeOK, Buckets, Bucket
<1>2. found' \in [Scanners -> SUBSET SUBSET Files]
  BY <1>1 DEF Confirm, Report, TypeOK
<1>3. stage' \in [Scanners -> [Sizes -> Stages]]
  BY StageType DEF Confirm, Stages
<1>4. UNCHANGED <<cvars, fsVars, phase, listing, cancelled, pool, links, got, unsaved, failed, held, scans, edits, kills>>
  BY DEF Confirm, Working
<1> QED BY <1>2, <1>3, <1>4 DEF TypeOK, cvars, fsVars, CacheTypeOK
\* A step that leaves the work of every scan as it is: no scan starts, the table is
\* kept or emptied, a mirror is kept, filled from the table or dropped.
Aside ==
  /\ UNCHANGED <<fsVars, scanVars, held, failed>>
  /\ \A p \in Scanners : Scanning(p)' => Scanning(p)
  /\ \A p \in Scanners : cancelled[p] => cancelled'[p]
  /\ \A p \in Scanners : phase'[p] = "over" =>
       phase[p] = "over" \/ (Scanning(p) /\ \A s \in Sizes : stage[p][s] = "done")
  /\ rows' = rows \/ rows' = [k \in Keys |-> None]
  /\ \A p \in Scanners : mirror'[p] = mirror[p] \/ mirror'[p] = rows \/ mirror'[p] = None

\* A scan begins to hash, ends, is cancelled or killed.
LEMMA ScanAside ==
  ASSUME TypeOK, NEW p \in Scanners, BeginHashing(p) \/ FinishScan(p) \/ Cancel(p) \/ Kill(p)
  PROVE  Aside /\ TypeOK'
<1> USE DEF TypeOK, CacheTypeOK, Scanning
<1>1. CASE BeginHashing(p)
  <2>1. Aside
    BY <1>1 DEF BeginHashing, Warm, Cold, Aside, histVars, fsVars
  <2>2. TypeOK'
    BY <1>1, ZenonT(60) DEF BeginHashing, Warm, Cold, histVars, fsVars, scanVars
  <2> QED BY <2>1, <2>2
<1>2. CASE FinishScan(p)
  BY <1>2 DEF FinishScan, Aside, cvars, histVars, fsVars, scanVars
<1>3. CASE Cancel(p)
  BY <1>3 DEF Cancel, Aside, cvars, histVars, fsVars, scanVars
<1>4. CASE Kill(p)
  <2>1. Aside
    BY <1>4 DEF Kill, Cold, Aside
  <2>2. TypeOK'
    BY <1>4 DEF Kill, Cold, fsVars, scanVars
  <2> QED BY <2>1, <2>2
<1> QED BY <1>1, <1>2, <1>3, <1>4

\* The cache is cleared, or nothing happens.
LEMMA CacheAside == ASSUME TypeOK, ClearCache \/ UNCHANGED vars PROVE Aside /\ TypeOK'
<1> USE DEF TypeOK, CacheTypeOK, Scanning
<1>1. [k \in Keys |-> None] \in Table
  BY DEF Table
<1>2. CASE ClearCache
  BY <1>1, <1>2 DEF ClearCache, Clear, Aside, histVars, fsVars, scanVars
<1>3. CASE UNCHANGED vars
  BY <1>3 DEF vars, Aside, cvars, histVars, fsVars, scanVars
<1> QED BY <1>2, <1>3

\* What a scan hashed is a hash when it stores it.
LEMMA WorkType ==
  ASSUME TypeOK, TrueHashes, NEW p \in Scanners, NEW s \in Sizes, RunGroup(p, s)
  PROVE  TypeOK'
<1>1. ASSUME NEW f \in Files, SaveHash(p, s, f) PROVE got[p][f] \in Hashes
  BY <1>1 DEF SaveHash, Working, TrueHashes, Scanning
<1> QED BY <1>1, PickUpType, HashAliasesType, BeginTiersType, HashFileType, SaveHashType, NextTierType,
           ConfirmType DEF RunGroup

\* Every step keeps the types.
LEMMA TypeStep == ASSUME TypeOK, TrueHashes, [Next]_vars PROVE TypeOK'
BY ListType, EditType, WorkType, ScanAside, CacheAside DEF Next, ScanStep

-----------------------------------------------------------------------------
(* The listings, and who owns an inode. *)

\* What an edit changes: one inode that was fresh, or the content of one, is new.
LEMMA EditFrame ==
  ASSUME TypeOK, NEW f \in Files, EditFile(f)
  PROVE  /\ UNCHANGED <<cvars, phase, scanVars, cancelled, failed>>
         /\ \A p \in Scanners, g \in Files :
              /\ held[p][g] \subseteq held'[p][g]
              /\ Scanning(p) => held'[p][g] = held[p][g] \union {ContentOf(g)'}
              /\ ~ Scanning(p) => held'[p][g] = held[p][g]
         /\ EditKinds \subseteq {"replace"} =>
              /\ \A g \in Files \ {f} : inode'[g] = inode[g]
              /\ \A g \in Files : inode[g] # inode'[f]
              /\ Fresh(inode'[f]) /\ stamp'[inode'[f]] # 0
              /\ \A i \in Inodes \ {inode'[f]} : content'[i] = content[i] /\ stamp'[i] = stamp[i]
<1>1. PICK c \in Contents : WriteFile(f, c) \/ ReplaceFile(f, c)
  BY DEF EditFile
<1>2. UNCHANGED <<cvars, phase, scanVars, cancelled, failed>>
  BY DEF EditFile
<1>3. ASSUME NEW p \in Scanners, NEW g \in Files
      PROVE  /\ held[p][g] \subseteq held'[p][g]
             /\ Scanning(p) => held'[p][g] = held[p][g] \union {ContentOf(g)'}
             /\ ~ Scanning(p) => held'[p][g] = held[p][g]
  BY DEF EditFile, Witness, ContentOf
<1>4. ASSUME EditKinds \subseteq {"replace"}
      PROVE  /\ \A g \in Files \ {f} : inode'[g] = inode[g]
             /\ \A g \in Files : inode[g] # inode'[f]
             /\ Fresh(inode'[f]) /\ stamp'[inode'[f]] # 0
             /\ \A i \in Inodes \ {inode'[f]} : content'[i] = content[i] /\ stamp'[i] = stamp[i]
  <2>1. ReplaceFile(f, c)
    BY <1>1, <1>4 DEF WriteFile
  <2>2. PICK i \in Inodes : /\ Free(i)
                            /\ inode' = [inode EXCEPT ![f] = i]
                            /\ content' = [content EXCEPT ![i] = c]
                            /\ stamp' = [stamp EXCEPT ![i] = clock + 1]
    BY <2>1 DEF ReplaceFile
  <2>3. inode'[f] = i /\ \A g \in Files \ {f} : inode'[g] = inode[g]
    BY <2>2 DEF TypeOK
  <2>4. \A g \in Files : inode[g] # i
    BY <2>2 DEF Free, Range, TypeOK
  <2>5. Fresh(i)
    BY <1>4, <2>2 DEF Free
  <2>6. stamp'[i] # 0
    BY <2>2 DEF TypeOK
  <2>7. \A k \in Inodes \ {i} : content'[k] = content[k] /\ stamp'[k] = stamp[k]
    BY <2>2 DEF TypeOK
  <2> QED BY <2>3, <2>4, <2>5, <2>6, <2>7 DEF Fresh
<1> QED BY <1>2, <1>3, <1>4

\* What a listing changes.
LEMMA ListFrame ==
  ASSUME TypeOK, NEW p \in Scanners, ListFiles(p)
  PROVE  /\ UNCHANGED <<cvars, fsVars>>
         /\ ~ Scanning(p) /\ Scanning(p)'
         /\ \A f \in Files :
              /\ listing'[p][f] = Entry(f)
              /\ listing'[p][f].inode = inode[f]
              /\ listing'[p][f].size = SizeOf[content[inode[f]]]
              /\ held'[p][f] = {ContentOf(f)}
              /\ got'[p][f] = None
         /\ unsaved'[p] = {} /\ found'[p] = {}
         /\ \A s \in Sizes :
              /\ stage'[p][s] \in {"queued", "done"}
              /\ pool'[p][s] = SizeClass(s)
              /\ links'[p][s] = {}
         /\ \A q \in Scanners \ {p} :
              /\ Scanning(q)' <=> Scanning(q)
              /\ listing'[q] = listing[q] /\ stage'[q] = stage[q] /\ pool'[q] = pool[q]
              /\ links'[q] = links[q] /\ got'[q] = got[q] /\ unsaved'[q] = unsaved[q]
              /\ found'[q] = found[q] /\ held'[q] = held[q]
              /\ phase'[q] = phase[q] /\ cancelled'[q] = cancelled[q] /\ failed'[q] = failed[q]
<1> USE DEF ListFiles, TypeOK
<1>1. UNCHANGED <<cvars, fsVars>> /\ ~ Scanning(p) /\ Scanning(p)'
  BY DEF Scanning
<1>2. ASSUME NEW f \in Files
      PROVE /\ listing'[p][f] = Entry(f) /\ held'[p][f] = {ContentOf(f)} /\ got'[p][f] = None
            /\ listing'[p][f].inode = inode[f]
            /\ listing'[p][f].size = SizeOf[content[inode[f]]]
  BY DEF Entry, ContentOf
<1>3. unsaved'[p] = {} /\ found'[p] = {}
  OBVIOUS
<1>4. ASSUME NEW s \in Sizes
      PROVE stage'[p][s] \in {"queued", "done"} /\ pool'[p][s] = SizeClass(s) /\ links'[p][s] = {}
  OBVIOUS
<1>5. ASSUME NEW q \in Scanners \ {p}
      PROVE /\ Scanning(q)' <=> Scanning(q)
            /\ listing'[q] = listing[q] /\ stage'[q] = stage[q] /\ pool'[q] = pool[q]
            /\ links'[q] = links[q] /\ got'[q] = got[q] /\ unsaved'[q] = unsaved[q]
            /\ found'[q] = found[q] /\ held'[q] = held[q]
            /\ phase'[q] = phase[q] /\ cancelled'[q] = cancelled[q] /\ failed'[q] = failed[q]
  BY DEF Scanning
<1> QED BY <1>1, <1>2, <1>3, <1>4, <1>5
\* The kinds of steps.
LEMMA Kinds ==
  ASSUME TypeOK, [Next]_vars
  PROVE  \/ Aside
         \/ \E p \in Scanners : ListFiles(p)
         \/ \E f \in Files : EditFile(f)
         \/ \E p \in Scanners, s \in Sizes : RunGroup(p, s)
BY ScanAside, CacheAside DEF Next, ScanStep

\* The work on a class leaves the files, the listings and what the files held.
LEMMA WorkFrame ==
  ASSUME TypeOK, NEW p \in Scanners, NEW s \in Sizes, RunGroup(p, s)
  PROVE  /\ UNCHANGED <<inode, content, stamp, listing, held, mirror>>
         /\ Scanning(p)
         /\ \A q \in Scanners : Scanning(q)' <=> Scanning(q)
BY Local DEF fsVars, Scanning

\* Every step keeps what holds of the listings.
LEMMA ListingsStep == ASSUME TypeOK, Listings, [Next]_vars PROVE Listings'
<1>1. CASE UNCHANGED <<inode, content, listing, held>> /\ \A p \in Scanners : Scanning(p)' => Scanning(p)
  BY <1>1 DEF Listings, Common, ContentOf
<1>2. CASE Aside
  BY <1>1, <1>2 DEF Aside, fsVars, scanVars
<1>3. ASSUME NEW p \in Scanners, NEW s \in Sizes, RunGroup(p, s) PROVE Listings'
  BY <1>1, <1>3, WorkFrame
<1>4. ASSUME NEW e \in Files, EditFile(e) PROVE Listings'
  <2>1. listing' = listing /\ \A p \in Scanners : Scanning(p)' <=> Scanning(p)
    BY <1>4, EditFrame DEF scanVars, Scanning
  <2>2. ASSUME NEW p \in Scanners, Scanning(p), NEW f \in Files PROVE ContentOf(f)' \in held'[p][f]
    BY <1>4, <2>2, EditFrame
  <2>3. ASSUME NEW p \in Scanners, Scanning(p), NEW i \in Inodes PROVE \E c \in Contents : Common(p, i, c)'
    <3>1. PICK c \in Contents : Common(p, i, c)
      BY <2>3 DEF Listings
    <3>2. \A f \in Files : held[p][f] \subseteq held'[p][f]
      BY <1>4, EditFrame
    <3> QED BY <2>1, <3>1, <3>2 DEF Common
  <2> QED BY <2>1, <2>2, <2>3 DEF Listings
<1>5. ASSUME NEW p \in Scanners, ListFiles(p) PROVE Listings'
  <2>1. ASSUME NEW q \in Scanners \ {p}, Scanning(q)'
        PROVE  /\ \A f \in Files : ContentOf(f)' \in held'[q][f]
               /\ \A i \in Inodes : \E c \in Contents : Common(q, i, c)'
    <3>1. Scanning(q) /\ listing'[q] = listing[q] /\ held'[q] = held[q] /\ UNCHANGED <<inode, content>>
      BY <1>5, <2>1, ListFrame DEF fsVars
    <3>2. \A f \in Files : ContentOf(f)' \in held'[q][f]
      BY <3>1 DEF Listings, ContentOf
    <3>3. \A i \in Inodes : \E c \in Contents : Common(q, i, c)'
      BY <3>1 DEF Listings, Common
    <3> QED BY <3>2, <3>3
  <2>2. \A f \in Files : ContentOf(f)' \in held'[p][f]
    BY <1>5, ListFrame DEF ContentOf, fsVars
  <2>3. ASSUME NEW i \in Inodes PROVE \E c \in Contents : Common(p, i, c)'
    <3>1. content[i] \in Contents
      BY DEF TypeOK
    <3>2. Common(p, i, content[i])'
      BY <1>5, ListFrame DEF Common, ContentOf, fsVars
    <3> QED BY <1>5, <3>1, <3>2, ListFrame DEF Common, ContentOf, fsVars
  <2> QED BY <2>1, <2>2, <2>3 DEF Listings
<1> QED BY <1>2, <1>3, <1>4, <1>5, Kinds

\* So does it with the owners of the inodes.
LEMMA OwnersStep ==
  ASSUME TypeOK, Owners, [Next]_vars, EditKinds \subseteq {"replace"}
  PROVE  Owners'
<1>1. CASE UNCHANGED <<inode, stamp, listing>>
  BY <1>1 DEF Owners, Fresh
<1>2. CASE Aside
  BY <1>1, <1>2 DEF Aside, fsVars, scanVars
<1>3. ASSUME NEW p \in Scanners, NEW s \in Sizes, RunGroup(p, s) PROVE Owners'
  BY <1>1, <1>3, WorkFrame
<1>4. ASSUME NEW e \in Files, EditFile(e) PROVE Owners'
  <2>1. /\ \A f \in Files \ {e} : inode'[f] = inode[f]
        /\ \A f \in Files : inode[f] # inode'[e]
        /\ Fresh(inode'[e]) /\ stamp'[inode'[e]] # 0
        /\ \A i \in Inodes \ {inode'[e]} : stamp'[i] = stamp[i]
        /\ listing' = listing
    BY <1>4, EditFrame DEF scanVars
  <2>2. \A i \in Inodes : ~ Fresh(i) => ~ Fresh(i)'
    BY <2>1 DEF Fresh
  <2>3. /\ inode'[e] \in Inodes
        /\ \A f \in Files : inode[f] \in Inodes
        /\ \A p \in Scanners, f \in Files : listing[p][f].inode \in Inodes
    BY <1>4, EditType DEF TypeOK
  <2>4. (\A f \in Files : ~ Fresh(inode[f]))'
    <3>1. ~ Fresh(inode[e])'
      BY <2>1 DEF Fresh
    <3>2. ASSUME NEW f \in Files \ {e} PROVE ~ Fresh(inode[f])'
      <4>1. ~ Fresh(inode[f])
        BY DEF Owners
      <4>2. stamp'[inode[f]] # 0 \/ inode[f] \in Range(FirstInode)
        BY <2>1, <2>3, <4>1 DEF Fresh
      <4> QED BY <2>1, <4>2 DEF Fresh
    <3> QED BY <3>1, <3>2
  <2>5. (\A p \in Scanners, f \in Files : ~ Fresh(listing[p][f].inode))'
    BY <2>1, <2>2, <2>3 DEF Owners, Fresh
  <2>6. \A p \in Scanners, g \in Files : listing[p][g].inode # inode'[e]
    BY <2>1 DEF Owners
  <2>7. (\A p \in Scanners, f, g \in Files :
           inode[f] = listing[p][g].inode => listing[p][f].inode = inode[f])'
    BY <2>1, <2>6 DEF Owners
  <2>8. (\A p, q \in Scanners, f, g \in Files :
           listing[p][f].inode = listing[q][g].inode =>
             listing[p][g].inode = listing[p][f].inode \/ listing[q][f].inode = listing[q][g].inode)'
    BY <2>1 DEF Owners
  <2> QED BY <2>4, <2>5, <2>7, <2>8 DEF Owners
<1>5. ASSUME NEW a \in Scanners, ListFiles(a) PROVE Owners'
  <2>1. /\ UNCHANGED <<inode, stamp>>
        /\ \A f \in Files : listing'[a][f].inode = inode[f]
        /\ \A q \in Scanners \ {a} : listing'[q] = listing[q]
    BY <1>5, ListFrame DEF fsVars
  <2>2. (\A f \in Files : ~ Fresh(inode[f]))' /\ (\A p \in Scanners, f \in Files : ~ Fresh(listing[p][f].inode))'
    BY <2>1 DEF Owners, Fresh
  <2>3. (\A p \in Scanners, f, g \in Files :
           inode[f] = listing[p][g].inode => listing[p][f].inode = inode[f])'
    BY <2>1 DEF Owners
  <2>4. ASSUME NEW p \in Scanners, NEW q \in Scanners, NEW f \in Files, NEW g \in Files,
               listing'[p][f].inode = listing'[q][g].inode
        PROVE  listing'[p][g].inode = listing'[p][f].inode \/ listing'[q][f].inode = listing'[q][g].inode
    <3>1. CASE p # a /\ q # a
      BY <2>1, <2>4, <3>1 DEF Owners
    <3>2. CASE p = a /\ q # a
      BY <2>1, <2>4, <3>2 DEF Owners
    <3>3. CASE p # a /\ q = a
      BY <2>1, <2>4, <3>3 DEF Owners
    <3>4. CASE p = a /\ q = a
      BY <2>1, <2>4, <3>4
    <3> QED BY <3>1, <3>2, <3>3, <3>4
  <2> QED BY <2>2, <2>3, <2>4 DEF Owners
<1> QED BY <1>2, <1>3, <1>4, <1>5, Kinds
-----------------------------------------------------------------------------
(* The groups. *)

\* The groups a step of run_group reports of class s: each is of files of the class
\* that held one content and that were in no group.
Answers(p, s) ==
  /\ found[p] \subseteq found'[p]
  /\ \A G \in found'[p] \ found[p] :
       /\ G \subseteq Files /\ Cardinality(G) >= 2
       /\ \A f \in G : listing[p][f].size = s
       /\ \E c \in Contents : \A f \in G : c \in held[p][f]
       /\ Unreported(p, G)
       /\ \A H \in found'[p] \ found[p] : G = H \/ G \intersect H = {}

\* The empty files have held the empty content.
LEMMA SameEmpty ==
  ASSUME TypeOK, Listings, NEW p \in Scanners, Scanning(p), NEW G \in SUBSET Files, G # {},
         \A f \in G : listing[p][f].size = 0
  PROVE  \E c \in Contents : \A f \in G : c \in held[p][f]
<1>1. ASSUME NEW f \in G PROVE \E c \in Contents : c \in held[p][f] /\ SizeOf[c] = 0
  <2>1. listing[p][f].inode \in Inodes
    BY DEF TypeOK
  <2> QED BY <2>1 DEF Listings, Common
<1>2. PICK e \in G : TRUE
  OBVIOUS
<1>3. PICK c \in Contents : c \in held[p][e] /\ SizeOf[c] = 0
  BY <1>1
<1>4. \A f \in G : c \in held[p][f]
  BY <1>1, <1>3, EmptyAssumption DEF EmptyAssumption
<1> QED BY <1>4

\* Aliases have held the content of their inode.
LEMMA SameInode ==
  ASSUME TypeOK, Listings, NEW p \in Scanners, Scanning(p), NEW s \in Sizes, NEW S, AliasSet(p, s, S)
  PROVE  \E c \in Contents : \A f \in S : c \in held[p][f]
<1>1. PICK i \in Inodes : \A f \in S : f \in Files /\ listing[p][f].inode = i
  BY DEF AliasSet
<1>2. PICK c \in Contents : Common(p, i, c)
  BY DEF Listings
<1> QED BY <1>1, <1>2 DEF Common

\* Files with one full hash have held one content.
LEMMA SameHash ==
  ASSUME TypeOK, TrueHashes, NEW p \in Scanners, Scanning(p), NEW s \in Sizes, stage[p][s] = "three",
         NEW h \in Hashes, Bucket(p, s, h) # {}
  PROVE  \E c \in Contents : \A f \in Bucket(p, s, h) : c \in held[p][f]
<1>1. \A f \in Bucket(p, s, h) : f \in Files /\ \E c \in held[p][f] : Digest["three"][c] = h
  <2>1. \A f \in Bucket(p, s, h) : f \in pool[p][s] /\ f \in Files /\ got[p][f] = h
    BY DEF Bucket, TypeOK
  <2> QED BY <2>1 DEF TrueHashes, HashOf, Tiers
<1>2. PICK e \in Bucket(p, s, h) : TRUE
  OBVIOUS
<1>3. PICK c \in held[p][e] : Digest["three"][c] = h
  BY <1>1
<1>4. \A f \in Files : held[p][f] \subseteq Contents
  BY DEF TypeOK
<1>5. c \in Contents
  BY <1>1, <1>4
<1>6. ASSUME NEW f \in Bucket(p, s, h) PROVE c \in held[p][f]
  <2>1. PICK d \in held[p][f] : Digest["three"][d] = h
    BY <1>1
  <2> QED BY <1>1, <1>3, <1>4, <1>5, <2>1, DigestAssumption DEF DigestAssumption
<1> QED BY <1>5, <1>6

\* The empty files of a class are a group.
LEMMA PickUpAnswers ==
  ASSUME TypeOK, Listings, Pools, NEW p \in Scanners, NEW s \in Sizes, PickUp(p, s)
  PROVE  Answers(p, s)
<1> USE DEF Scanning
<1>1. Scanning(p) /\ stage[p][s] = "queued"
  BY DEF PickUp, Working
<1>2. Class(p, s)
  BY <1>1 DEF Pools
<1>3. CASE found' = found
  BY <1>3 DEF Answers
<1>4. CASE s = 0 /\ Report(p, {G \in {Allowed(p, s)} : Cardinality(G) >= 2})
  <2> DEFINE G == Allowed(p, s)
  <2>1. G \in SUBSET Files /\ G \subseteq pool[p][s]
    BY DEF TypeOK, Allowed
  <2>2. found'[p] = found[p] \union {H \in {G} : Cardinality(H) >= 2}
    BY <1>4 DEF Report, TypeOK
  <2>3. \A f \in G : listing[p][f].size = s
    BY <1>2, <2>1 DEF Class
  <2>4. Unreported(p, G)
    BY <1>2, <2>1 DEF Class, Unreported
  <2>5. ASSUME Cardinality(G) >= 2 PROVE \E c \in Contents : \A f \in G : c \in held[p][f]
    <3>1. G # {}
      BY <2>5, FS_EmptySet
    <3> QED BY <1>1, <1>4, <2>1, <2>3, <3>1, SameEmpty
  <2> HIDE DEF G
  <2> QED BY <2>1, <2>2, <2>3, <2>4, <2>5 DEF Answers
<1> QED BY <1>3, <1>4 DEF PickUp

\* An alias set is a group.
LEMMA HashAliasesAnswers ==
  ASSUME TypeOK, Listings, Pools, NEW p \in Scanners, NEW s \in Sizes, HashAliases(p, s)
  PROVE  Answers(p, s)
<1>1. Scanning(p) /\ stage[p][s] = "links"
  BY DEF HashAliases, Working, Scanning
<1>2. Class(p, s)
  BY <1>1 DEF Pools
<1>3. CASE found' = found
  BY <1>3 DEF Answers
<1>4. ASSUME NEW A \in links[p][s], Report(p, {A}) PROVE Answers(p, s)
  <2>1. found'[p] = found[p] \union {A}
    BY <1>4 DEF Report, TypeOK
  <2>2. AliasSet(p, s, A) /\ Unreported(p, A)
    BY <1>2 DEF Class
  <2>3. \E c \in Contents : \A f \in A : c \in held[p][f]
    BY <1>1, <2>2, SameInode
  <2> QED BY <2>1, <2>2, <2>3 DEF Answers, AliasSet
<1> QED BY <1>3, <1>4 DEF HashAliases

\* The files with one full hash are a group.
LEMMA ConfirmAnswers ==
  ASSUME TypeOK, TrueHashes, Pools, NEW p \in Scanners, NEW s \in Sizes, Confirm(p, s)
  PROVE  Answers(p, s)
<1>1. Scanning(p) /\ stage[p][s] = "three"
  BY DEF Confirm, Working, Scanning
<1>2. Class(p, s)
  BY <1>1 DEF Pools
<1>3. found'[p] = found[p] \union Buckets(p, s)
  BY DEF Confirm, Report, TypeOK
<1>4. ASSUME NEW G \in Buckets(p, s)
      PROVE  /\ G \subseteq Files /\ Cardinality(G) >= 2
             /\ \A f \in G : listing[p][f].size = s
             /\ \E c \in Contents : \A f \in G : c \in held[p][f]
             /\ Unreported(p, G)
             /\ \A H \in Buckets(p, s) : G = H \/ G \intersect H = {}
  <2>1. PICK h \in Hashes : G = Bucket(p, s, h) /\ Cardinality(G) >= 2
    BY DEF Buckets
  <2>2. G # {}
    BY <2>1, FS_EmptySet
  <2>3. G \subseteq pool[p][s] /\ G \subseteq Files
    BY <2>1 DEF Bucket, TypeOK
  <2>4. \E c \in Contents : \A f \in G : c \in held[p][f]
    BY <1>1, <2>1, <2>2, SameHash
  <2>5. \A H \in Buckets(p, s) : G = H \/ G \intersect H = {}
    BY <2>1 DEF Buckets, Bucket
  <2>6. (\A f \in G : listing[p][f].size = s) /\ Unreported(p, G)
    BY <1>2, <2>3 DEF Class, Unreported
  <2> QED BY <2>1, <2>3, <2>4, <2>5, <2>6
<1> QED BY <1>3, <1>4 DEF Answers

\* Every step of run_group reports such groups, or none.
LEMMA WorkAnswers ==
  ASSUME TypeOK, Listings, Pools, TrueHashes, NEW p \in Scanners, NEW s \in Sizes, RunGroup(p, s)
  PROVE  Answers(p, s)
<1>1. CASE found' = found
  BY <1>1 DEF Answers
<1>2. BeginTiers(p, s) => found' = found
  BY DEF BeginTiers
<1>3. (\E f \in Files : HashFile(p, s, f) \/ SaveHash(p, s, f)) => found' = found
  BY DEF HashFile, SaveHash
<1>4. NextTier(p, s) => found' = found
  BY DEF NextTier
<1> QED BY <1>1, <1>2, <1>3, <1>4, PickUpAnswers, HashAliasesAnswers, ConfirmAnswers DEF RunGroup

\* A reported group stays one of files with a common content.
LEMMA ConfirmedStep ==
  ASSUME TypeOK, Listings, Pools, TrueHashes, ConfirmedIdentical, [Next]_vars
  PROVE  ConfirmedIdentical'
<1>1. CASE Aside
  BY <1>1 DEF Aside, scanVars, ConfirmedIdentical
<1>2. ASSUME NEW p \in Scanners, NEW s \in Sizes, RunGroup(p, s) PROVE ConfirmedIdentical'
  <2>1. Answers(p, s)
    BY <1>2, WorkAnswers
  <2>2. held' = held /\ \A q \in Scanners \ {p} : found'[q] = found[q]
    BY <1>2, WorkFrame, Local DEF ButScan
  <2> QED BY <2>1, <2>2 DEF Answers, ConfirmedIdentical
<1>3. ASSUME NEW e \in Files, EditFile(e) PROVE ConfirmedIdentical'
  <2>1. found' = found /\ \A p \in Scanners, g \in Files : held[p][g] \subseteq held'[p][g]
    BY <1>3, EditFrame DEF scanVars
  <2>2. \A p \in Scanners : found[p] \in SUBSET SUBSET Files
    BY DEF TypeOK
  <2> QED BY <2>1, <2>2 DEF ConfirmedIdentical
<1>4. ASSUME NEW p \in Scanners, ListFiles(p) PROVE ConfirmedIdentical'
  BY <1>4, ListFrame DEF ConfirmedIdentical
<1> QED BY <1>1, <1>2, <1>3, <1>4, Kinds
\* What partition_by_inode sets apart.
LEMMA Partition ==
  ASSUME TypeOK, NEW p \in Scanners, NEW s \in Sizes, NEW files \in SUBSET Files,
         \A f \in files : listing[p][f].size = s,
         NEW S \in AliasSets(p, files)
  PROVE  /\ AliasSet(p, s, S) /\ S \subseteq files
         /\ \A T \in AliasSets(p, files) : S = T \/ S \intersect T = {}
<1> DEFINE Alias(f) == {g \in files \ Unidentified : listing[p][g].inode = listing[p][f].inode}
<1>1. \A T \in AliasSets(p, files) : \E f \in files \ Unidentified : T = Alias(f) /\ Cardinality(T) >= 2
  BY DEF AliasSets
<1>2. PICK f \in files \ Unidentified : S = Alias(f) /\ Cardinality(S) >= 2
  BY <1>1
<1>3. listing[p][f].inode \in Inodes
  BY DEF TypeOK
<1>4. S \subseteq files /\ \A g \in S : listing[p][g].inode = listing[p][f].inode /\ listing[p][g].size = s
  BY <1>2
<1>5. AliasSet(p, s, S)
  BY <1>2, <1>3, <1>4 DEF AliasSet
<1>6. \A T \in AliasSets(p, files) : S = T \/ S \intersect T = {}
  BY <1>1, <1>2
<1> QED BY <1>4, <1>5, <1>6

\* The class a worker is at.
LEMMA OwnClass ==
  ASSUME TypeOK, Listings, Pools, NEW p \in Scanners, NEW s \in Sizes, RunGroup(p, s),
         stage'[p][s] # "done"
  PROVE  Class(p, s)'
<1>1. listing' = listing
  BY WorkFrame
<1>2. ASSUME stage[p][s] # "done" PROVE Class(p, s)
  BY <1>2, WorkFrame DEF Pools
<1>3. CASE PickUp(p, s)
  <2>1. stage[p][s] = "queued" /\ found' = found
    BY <1>3, Update DEF PickUp, Working, SetStage, TypeOK
  <2>2. Class(p, s)
    BY <1>2, <2>1
  <2> DEFINE allowed == Allowed(p, s)
  <2>3. allowed \in SUBSET Files /\ allowed \subseteq pool[p][s]
    BY DEF Allowed, TypeOK
  <2>4. \A f \in allowed : listing[p][f].size = s
    BY <2>2, <2>3 DEF Class
  <2>5. AliasSets(p, allowed) \in SUBSET SUBSET Files /\ allowed \ UNION AliasSets(p, allowed) \in SUBSET Files
    BY <2>3, <2>4, Partition
  <2>6. /\ stage' = [stage EXCEPT ![p][s] = "links"]
        /\ links' = [links EXCEPT ![p][s] = AliasSets(p, allowed)]
        /\ pool' = [pool EXCEPT ![p][s] = allowed \ UNION AliasSets(p, allowed)]
    <3>1. \A at \in Stages : SetStage(p, s, at) => stage'[p][s] = at
      BY Update DEF SetStage, TypeOK
    <3>2. ~ SetStage(p, s, "done")
      BY <3>1 DEF Stages
    <3> QED BY <1>3, <3>2 DEF PickUp, SetPool, SetStage
  <2> HIDE DEF allowed
  <2>7. stage'[p][s] = "links" /\ links'[p][s] = AliasSets(p, allowed)
        /\ pool'[p][s] = allowed \ UNION AliasSets(p, allowed)
    <3>1. stage'[p][s] = "links"
      BY <2>6, Update DEF TypeOK, Stages
    <3>2. links'[p][s] = AliasSets(p, allowed)
      BY <2>5, <2>6, Update DEF TypeOK
    <3>3. pool'[p][s] = allowed \ UNION AliasSets(p, allowed)
      BY <2>5, <2>6, Update DEF TypeOK
    <3> QED BY <3>1, <3>2, <3>3
  <2>8. ASSUME NEW S \in links'[p][s]
        PROVE  /\ AliasSet(p, s, S)'
               /\ S \intersect pool'[p][s] = {}
               /\ Unreported(p, S)'
               /\ \A T \in links'[p][s] : S = T \/ S \intersect T = {}
    <3>1. /\ AliasSet(p, s, S) /\ S \subseteq allowed
          /\ \A T \in AliasSets(p, allowed) : S = T \/ S \intersect T = {}
      BY <2>3, <2>4, <2>7, Partition
    <3>2. Unreported(p, S)'
      BY <2>1, <2>2, <2>3, <3>1 DEF Class, Unreported
    <3> QED BY <1>1, <2>7, <3>1, <3>2 DEF AliasSet
  <2>9. (\A f \in pool[p][s] : listing[p][f].size = s)' /\ Unreported(p, pool[p][s])'
    BY <1>1, <2>1, <2>2, <2>3, <2>4, <2>7 DEF Class, Unreported
  <2> QED BY <2>7, <2>8, <2>9 DEF Class
<1>4. CASE HashAliases(p, s)
  <2>1. stage[p][s] = "links" /\ pool' = pool
    BY <1>4 DEF HashAliases, Working
  <2>2. Class(p, s)
    BY <1>2, <2>1
  <2>3. ~ SetStage(p, s, "done")
    BY Update DEF SetStage, TypeOK, Stages
  <2>4. PICK A \in links[p][s] : /\ links' = [links EXCEPT ![p][s] = @ \ {A}]
                                 /\ Report(p, {A}) \/ UNCHANGED found
    BY <1>4, <2>3 DEF HashAliases
  <2>5. stage' = stage
    BY <1>4, <2>3 DEF HashAliases
  <2>6. links'[p][s] = links[p][s] \ {A}
    <3> DEFINE rest == links[p][s] \ {A}
    <3>1. rest \in SUBSET SUBSET Files /\ links' = [links EXCEPT ![p][s] = rest]
      BY <2>4 DEF TypeOK
    <3> HIDE DEF rest
    <3>2. links'[p][s] = rest
      BY <3>1, Update DEF TypeOK
    <3> QED BY <3>2 DEF rest
  <2>7. found'[p] \subseteq found[p] \union {A}
    BY <2>4 DEF Report, TypeOK
  <2>8. Unreported(p, pool[p][s])'
    BY <2>1, <2>2, <2>7 DEF Class, Unreported
  <2>9. \A S \in links'[p][s] : Unreported(p, S)'
    BY <2>2, <2>6, <2>7 DEF Class, Unreported
  <2> QED BY <1>1, <2>1, <2>2, <2>5, <2>6, <2>8, <2>9 DEF Class, AliasSet
<1>5. CASE UNCHANGED <<links, found>> /\ pool'[p][s] \subseteq pool[p][s] /\ stage[p][s] # "done" /\ stage'[p][s] # "queued"
  <2>1. Class(p, s)
    BY <1>2, <1>5
  <2>2. /\ (\A f \in pool[p][s] : listing[p][f].size = s)'
        /\ Unreported(p, pool[p][s])'
        /\ \A S \in links[p][s] : S \intersect pool'[p][s] = {}
    BY <1>1, <1>5, <2>1 DEF Class, Unreported
  <2>3. \A S \in links[p][s] : AliasSet(p, s, S)' /\ Unreported(p, S)'
    BY <1>1, <1>5, <2>1 DEF Class, AliasSet, Unreported
  <2> QED BY <1>5, <2>1, <2>2, <2>3 DEF Class
<1>6. CASE BeginTiers(p, s)
  <2>1. \A at \in Stages : SetStage(p, s, at) => stage'[p][s] = at
    BY Update DEF SetStage, TypeOK
  <2>2. stage'[p][s] # "queued"
    BY <1>6, <2>1 DEF BeginTiers, Stages, Tiers
  <2> QED BY <1>5, <1>6, <2>2 DEF BeginTiers, Working
<1>7. ASSUME NEW f \in Files, HashFile(p, s, f) \/ SaveHash(p, s, f) PROVE Class(p, s)'
  <2>1. UNCHANGED <<stage, pool, links, found>>
    BY <1>7 DEF HashFile, SaveHash
  <2> QED BY <1>1, <1>2, <2>1 DEF Class, AliasSet, Unreported
<1>8. CASE NextTier(p, s)
  <2>1. Survivors(p, s) \in SUBSET Files /\ Survivors(p, s) \subseteq pool[p][s]
    BY DEF Survivors, Buckets, Bucket, TypeOK
  <2>2. pool'[p][s] = Survivors(p, s)
    BY <1>8, <2>1, Update DEF NextTier, SetPool, TypeOK
  <2>3. stage[p][s] \in {"zero", "one", "two"}
    BY <1>8 DEF NextTier, Tiers
  <2>4. TierAfter(stage[p][s], s) \in Tiers
    BY <2>3 DEF TierAfter, Tiers
  <2>5. \A at \in Stages : SetStage(p, s, at) => stage'[p][s] = at
    BY Update DEF SetStage, TypeOK
  <2>6. stage'[p][s] # "queued"
    BY <1>8, <2>4, <2>5 DEF NextTier, Stages, Tiers
  <2> QED BY <1>5, <1>8, <2>1, <2>2, <2>3, <2>6 DEF NextTier
<1>9. ~ Confirm(p, s)
  BY Update DEF Confirm, SetStage, TypeOK, Stages
<1> QED BY <1>3, <1>4, <1>6, <1>7, <1>8, <1>9 DEF RunGroup

\* Every step keeps what holds of the classes.
LEMMA PoolsStep ==
  ASSUME TypeOK, Listings, Pools, TrueHashes, [Next]_vars
  PROVE  Pools'
<1>1. CASE Aside
  BY <1>1 DEF Aside, scanVars, Pools, Class, AliasSet, Unreported
<1>2. ASSUME NEW p \in Scanners, NEW s \in Sizes, RunGroup(p, s) PROVE Pools'
  <2>1. listing' = listing /\ Scanning(p) /\ \A q \in Scanners : Scanning(q)' <=> Scanning(q)
    BY <1>2, WorkFrame
  <2>2. /\ ButClass(stage, stage', p, s) /\ ButClass(pool, pool', p, s) /\ ButClass(links, links', p, s)
        /\ ButScan(found, found', p)
    BY <1>2, Local
  <2>3. ASSUME NEW q \in Scanners \ {p}, NEW r \in Sizes, Scanning(q)', stage'[q][r] # "done"
        PROVE  Class(q, r)'
    BY <2>1, <2>2, <2>3 DEF ButClass, ButScan, Pools, Class, AliasSet, Unreported
  <2>4. ASSUME NEW r \in Sizes \ {s}, stage'[p][r] # "done"
        PROVE  Class(p, r)'
    <3>1. stage'[p][r] = stage[p][r] /\ pool'[p][r] = pool[p][r] /\ links'[p][r] = links[p][r]
      BY <2>2 DEF ButClass
    <3>2. Class(p, r)
      BY <2>1, <2>4, <3>1 DEF Pools
    <3>3. \A G \in found'[p] \ found[p] : \A f \in G : listing[p][f].size = s
      BY <1>2, WorkAnswers DEF Answers
    <3>4. Unreported(p, pool[p][r])'
      BY <3>1, <3>2, <3>3 DEF Class, Unreported
    <3>5. \A S \in links[p][r] : Unreported(p, S)'
      BY <3>2, <3>3 DEF Class, AliasSet, Unreported
    <3>6. \A S \in links[p][r] : AliasSet(p, r, S)'
      BY <2>1, <3>2 DEF Class, AliasSet
    <3> QED BY <2>1, <3>1, <3>2, <3>4, <3>5, <3>6 DEF Class
  <2>5. ASSUME stage'[p][s] # "done" PROVE Class(p, s)'
    BY <1>2, <2>5, OwnClass
  <2> QED BY <2>3, <2>4, <2>5 DEF Pools
<1>3. ASSUME NEW e \in Files, EditFile(e) PROVE Pools'
  BY <1>3, EditFrame DEF scanVars, Scanning, Pools, Class, AliasSet, Unreported
<1>4. ASSUME NEW p \in Scanners, ListFiles(p) PROVE Pools'
  <2>1. ASSUME NEW r \in Sizes PROVE Class(p, r)'
    <3>1. pool'[p][r] = SizeClass(r) /\ links'[p][r] = {} /\ found'[p] = {} /\ \A f \in Files : listing'[p][f] = Entry(f)
      BY <1>4, ListFrame
    <3> QED BY <3>1 DEF SizeClass, Class, Unreported
  <2>2. ASSUME NEW q \in Scanners \ {p}, NEW r \in Sizes, Scanning(q)', stage'[q][r] # "done"
        PROVE  Class(q, r)'
    <3>1. /\ Scanning(q) /\ stage[q][r] # "done"
          /\ listing'[q] = listing[q] /\ stage'[q] = stage[q] /\ pool'[q] = pool[q]
          /\ links'[q] = links[q] /\ found'[q] = found[q]
      BY <1>4, <2>2, ListFrame
    <3>2. Class(q, r)
      BY <3>1 DEF Pools
    <3> QED BY <3>1, <3>2 DEF Class, AliasSet, Unreported
  <2> QED BY <2>1, <2>2 DEF Pools
<1> QED BY <1>1, <1>2, <1>3, <1>4, Kinds
-----------------------------------------------------------------------------
(* The hashes. *)

\* Classes under way have no file in common.
LEMMA Apart ==
  ASSUME Pools, NEW p \in Scanners, Scanning(p), NEW s \in Sizes, NEW r \in Sizes \ {s},
         stage[p][s] # "done", stage[p][r] # "done"
  PROVE  pool[p][s] \intersect pool[p][r] = {}
BY DEF Pools, Class

\* How the stage and the pool of a class move on.
LEMMA OwnStage ==
  ASSUME TypeOK, NEW p \in Scanners, NEW s \in Sizes, RunGroup(p, s)
  PROVE  /\ pool'[p][s] \subseteq pool[p][s]
         /\ \/ PickUp(p, s) /\ stage[p][s] = "queued" /\ stage'[p][s] \in {"links", "done"}
            \/ HashAliases(p, s) /\ stage[p][s] = "links" /\ stage'[p][s] \in {"links", "done"}
            \/ BeginTiers(p, s) /\ stage[p][s] = "links" /\ stage'[p][s] \in {"zero", "one", "done"}
            \/ /\ \E f \in Files : HashFile(p, s, f) \/ SaveHash(p, s, f)
               /\ UNCHANGED <<stage, pool>>
            \/ NextTier(p, s) /\ stage[p][s] \in Tiers
            \/ Confirm(p, s) /\ stage[p][s] = "three" /\ stage'[p][s] = "done"
<1>1. \A at \in Stages : SetStage(p, s, at) => stage'[p][s] = at
  BY Update DEF SetStage, TypeOK
<1>2. \A files \in SUBSET Files : SetPool(p, s, files) => pool'[p][s] = files
  BY Update DEF SetPool, TypeOK
<1>3. "links" \in Stages /\ "zero" \in Stages /\ "one" \in Stages /\ "done" \in Stages
  BY DEF Stages, Tiers
<1>4. CASE PickUp(p, s)
  <2>1. stage[p][s] = "queued" /\ stage'[p][s] \in {"links", "done"}
    BY <1>1, <1>3, <1>4 DEF PickUp, Working
  <2>2. Allowed(p, s) \ UNION AliasSets(p, Allowed(p, s)) \in SUBSET Files
        /\ Allowed(p, s) \subseteq pool[p][s]
    BY DEF Allowed, TypeOK
  <2> QED BY <1>2, <1>4, <2>1, <2>2 DEF PickUp
<1>5. CASE HashAliases(p, s)
  BY <1>1, <1>3, <1>5 DEF HashAliases, Working
<1>6. CASE BeginTiers(p, s)
  BY <1>1, <1>3, <1>6 DEF BeginTiers, Working
<1>7. ASSUME NEW f \in Files, HashFile(p, s, f) \/ SaveHash(p, s, f) PROVE UNCHANGED <<stage, pool>>
  BY <1>7 DEF HashFile, SaveHash
<1>8. CASE NextTier(p, s)
  <2>1. Survivors(p, s) \in SUBSET Files /\ Survivors(p, s) \subseteq pool[p][s]
    BY DEF Survivors, Buckets, Bucket, TypeOK
  <2> QED BY <1>2, <1>8, <2>1 DEF NextTier, Working
<1>9. CASE Confirm(p, s)
  BY <1>1, <1>3, <1>9 DEF Confirm, Working
<1> QED BY <1>4, <1>5, <1>6, <1>7, <1>8, <1>9 DEF RunGroup

\* What becomes of the hash of a file.
LEMMA OwnHashes ==
  ASSUME TypeOK, TrueHashes, NEW p \in Scanners, NEW s \in Sizes, RunGroup(p, s), NEW f \in Files
  PROVE  \/ got'[p][f] = got[p][f] /\ (f \in unsaved'[p] => f \in unsaved[p])
         \/ /\ f \in pool[p][s] /\ stage[p][s] \in Tiers
            /\ f \in unsaved'[p] => got'[p][f] \in Hashes
            /\ (NextTier(p, s) /\ got'[p][f] = None) \/ HashFile(p, s, f)
<1> USE DEF TypeOK
<1>0. Scanning(p)
  BY WorkFrame
<1>1. CASE UNCHANGED <<got, unsaved>>
  BY <1>1
<1>2. ASSUME NEW g \in Files, HashFile(p, s, g), g # f
      PROVE  got'[p][f] = got[p][f] /\ (f \in unsaved'[p] => f \in unsaved[p])
  <2>1. got'[p][f] = got[p][f]
    BY <1>2 DEF HashFile
  <2>2. unsaved'[p] \subseteq unsaved[p] \union {g}
    BY <1>2 DEF HashFile, ToStore
  <2> QED BY <1>2, <2>1, <2>2
<1>3. ASSUME HashFile(p, s, f)
      PROVE  f \in pool[p][s] /\ stage[p][s] \in Tiers /\ (f \in unsaved'[p] => got'[p][f] \in Hashes)
  <2>1. f \in pool[p][s] /\ stage[p][s] \in Tiers /\ got[p][f] = None
    BY <1>3 DEF HashFile
  <2>2. f \notin unsaved[p]
    BY <1>0, <2>1, OutcomesAssumption DEF TrueHashes, OutcomesAssumption
  <2>3. ASSUME f \in unsaved'[p] PROVE got'[p][f] \in Hashes
    <3>1. got'[p][f] = TierHash(stage[p][s], f) /\ got'[p][f] # NoPrint
      BY <1>3, <2>2, <2>3 DEF HashFile, ToStore
    <3> QED BY <2>1, <3>1, HashType
  <2> QED BY <2>1, <2>3
<1>4. ASSUME NEW g \in Files, SaveHash(p, s, g) PROVE got' = got /\ unsaved'[p] \subseteq unsaved[p]
  BY <1>4 DEF SaveHash
<1>5. CASE NextTier(p, s)
  <2>1. f \notin pool[p][s] => got'[p][f] = got[p][f]
    BY <1>5 DEF NextTier
  <2>2. f \in pool[p][s] => f \notin unsaved[p] /\ got'[p][f] = None
    BY <1>5 DEF NextTier, TierDone
  <2> QED BY <1>5, <2>1, <2>2 DEF NextTier
<1>6. PickUp(p, s) \/ HashAliases(p, s) \/ BeginTiers(p, s) \/ Confirm(p, s) => UNCHANGED <<got, unsaved>>
  BY DEF PickUp, HashAliases, BeginTiers, Confirm
<1> QED BY <1>1, <1>2, <1>3, <1>4, <1>5, <1>6 DEF RunGroup

\* The files that go through the tiers are the only ones of their inodes.
LEMMA SoleStep ==
  ASSUME TypeOK, Listings, Pools, Sole, Unidentified = {}, [Next]_vars
  PROVE  Sole'
<1>1. CASE Aside
  BY <1>1 DEF Aside, scanVars, Sole, Tiered
<1>2. ASSUME NEW p \in Scanners, NEW s \in Sizes, RunGroup(p, s) PROVE Sole'
  <2>1. listing' = listing /\ \A q \in Scanners : Scanning(q)' <=> Scanning(q)
    BY <1>2, WorkFrame
  <2>2. ButClass(stage, stage', p, s) /\ ButClass(pool, pool', p, s)
    BY <1>2, Local
  <2>3. ASSUME NEW q \in Scanners, NEW r \in Sizes, q # p \/ r # s, Scanning(q)',
               stage'[q][r] \in Tiers \union {"links"}, NEW f \in pool'[q][r]
        PROVE  Tiered(q, f)'
    <3>1. stage'[q][r] = stage[q][r] /\ pool'[q][r] = pool[q][r]
      BY <2>2, <2>3 DEF ButClass
    <3> QED BY <2>1, <2>3, <3>1 DEF Sole, Tiered
  <2>4. ASSUME stage[p][s] \in Tiers \union {"links"}, NEW f \in pool'[p][s] PROVE Tiered(p, f)'
    <3>1. f \in pool[p][s] /\ Scanning(p)
      BY <1>2, <2>4, OwnStage, WorkFrame
    <3> QED BY <2>1, <2>4, <3>1 DEF Sole, Tiered
  <2>5. ASSUME PickUp(p, s), stage'[p][s] = "links", NEW f \in pool'[p][s] PROVE Tiered(p, f)'
    <3> DEFINE allowed == Allowed(p, s)
               Alias == {g \in allowed : listing[p][g].inode = listing[p][f].inode}
    <3>1. Scanning(p) /\ stage[p][s] = "queued" /\ Class(p, s)
      BY <2>5, WorkFrame, <1>2 DEF PickUp, Working, Pools
    <3>2. allowed \ UNION AliasSets(p, allowed) \in SUBSET Files
      BY DEF Allowed, TypeOK
    <3>3. \A at \in Stages : SetStage(p, s, at) => stage'[p][s] = at
      BY Update DEF SetStage, TypeOK
    <3>4. SetPool(p, s, allowed \ UNION AliasSets(p, allowed))
      BY <2>5, <3>3 DEF PickUp, Stages
    <3>5. pool'[p][s] = allowed \ UNION AliasSets(p, allowed)
      BY <3>2, <3>4, Update DEF SetPool, TypeOK
    <3>6. f \in allowed /\ f \in pool[p][s] /\ f \notin Blocked /\ f \in Files
      BY <2>5, <3>5 DEF Allowed, TypeOK
    <3>7. ASSUME NEW g \in Files \ Blocked, g # f, listing[p][g].inode = listing[p][f].inode PROVE FALSE
      <4>1. listing[p][f].inode \in Inodes
        BY <3>6 DEF TypeOK
      <4>2. listing[p][g].size = listing[p][f].size
        BY <3>1, <3>6, <3>7, <4>1 DEF Listings, Common
      <4>3. g \in allowed
        BY <3>1, <3>6, <4>2 DEF Class, Allowed
      <4>4. {f, g} \subseteq Alias /\ Alias \subseteq Files
        BY <3>6, <3>7, <4>3 DEF Allowed, TypeOK
      <4>5. IsFiniteSet(Alias)
        BY <4>4, FilesAssumption, FS_Subset DEF FilesAssumption
      <4>6. Cardinality({f, g}) = 2
        <5>1. IsFiniteSet({f}) /\ Cardinality({f}) = 1
          BY FS_Singleton
        <5>2. {f, g} = {f} \union {g} /\ g \notin {f}
          BY <3>7
        <5>3. Cardinality({f} \union {g}) = Cardinality({f}) + 1
          BY <5>1, <5>2, FS_AddElement
        <5> QED BY <5>1, <5>2, <5>3
      <4>7. Cardinality({f, g}) <= Cardinality(Alias)
        BY <4>4, <4>5, FS_Subset
      <4>8. Cardinality(Alias) \in Nat
        BY <4>5, FS_CardinalityType
      <4>9. Alias \in AliasSets(p, allowed)
        BY <3>6, <4>6, <4>7, <4>8 DEF AliasSets
      <4> QED BY <2>5, <3>5, <4>4, <4>9
    <3> QED BY <2>1, <3>1, <3>6, <3>7 DEF Tiered
  <2>6. ASSUME stage'[p][s] \in Tiers \union {"links"}, NEW f \in pool'[p][s] PROVE Tiered(p, f)'
    <3>1. stage[p][s] \in Tiers \union {"links"} \/ (PickUp(p, s) /\ stage'[p][s] = "links")
      BY <1>2, <2>6, OwnStage DEF Tiers
    <3> QED BY <2>4, <2>5, <2>6, <3>1
  <2> QED BY <2>3, <2>6 DEF Sole
<1>3. ASSUME NEW e \in Files, EditFile(e) PROVE Sole'
  BY <1>3, EditFrame DEF scanVars, Scanning, Sole, Tiered
<1>4. ASSUME NEW p \in Scanners, ListFiles(p) PROVE Sole'
  <2>1. \A r \in Sizes : stage'[p][r] \notin Tiers \union {"links"}
    BY <1>4, ListFrame DEF Tiers
  <2>2. ASSUME NEW q \in Scanners \ {p}, NEW r \in Sizes, Scanning(q)',
               stage'[q][r] \in Tiers \union {"links"}, NEW f \in pool'[q][r]
        PROVE  Tiered(q, f)'
    BY <1>4, <2>2, ListFrame DEF Sole, Tiered
  <2> QED BY <2>1, <2>2 DEF Sole
<1> QED BY <1>1, <1>2, <1>3, <1>4, Kinds
\* A hit is true of the inode of the file, and so of the file.
LEMMA HitTrue ==
  ASSUME TypeOK, Sole, TrueRows, Unidentified = {}, NEW p \in Scanners, Scanning(p), NEW s \in Sizes,
         NEW t \in Tiers, stage[p][s] = t, NEW f \in pool[p][s], Hit(p, f, t) # None
  PROVE  /\ TrueOf(listing[p][f].inode, t, Hit(p, f, t))
         /\ \E c \in held[p][f] : HashOf(t, f, c) = Hit(p, f, t)
<1> DEFINE k == listing[p][f].inode
           table == IF mirror[p] = None THEN rows ELSE mirror[p]
           h == Hit(p, f, t)
<1>1. f \in Files /\ k \in Inodes /\ CacheKey(p, f) = k
  BY DEF TypeOK, CacheKey
<1>2. TrueTable(table)
  BY DEF TrueRows
<1>3. h = table[k].hash[t] /\ table[k] # None
  BY <1>1 DEF Hit, Cached
<1>4. TrueOf(k, t, h)
  BY <1>1, <1>2, <1>3 DEF TrueTable
<1>5. Tiered(p, f)
  BY DEF Sole, Tiers
<1> QED BY <1>1, <1>4, <1>5 DEF TrueOf

\* So is the hash of what a scan reads: nobody else has the inode it has listed.
LEMMA ReadTrue ==
  ASSUME TypeOK, Listings, Owners, Sole, NEW p \in Scanners, Scanning(p), NEW s \in Sizes,
         NEW t \in Tiers, stage[p][s] = t, NEW f \in pool[p][s]
  PROVE  TrueOf(listing[p][f].inode, t, TierHash(t, f))
<1> DEFINE k == listing[p][f].inode
<1>1. f \in Files /\ Tiered(p, f)
  BY DEF Sole, Tiers, TypeOK
<1>2. TierHash(t, f) = HashOf(t, f, content[inode[f]])
  BY DEF TierHash, HashOf, ContentOf
<1>3. ASSUME NEW g \in Files \ Blocked, inode[g] = k PROVE g = f
  <2>1. listing[p][g].inode = k
    BY <1>1, <1>3 DEF Owners
  <2> QED BY <1>1, <2>1 DEF Tiered
<1>4. ASSUME NEW q \in Scanners, NEW g \in Files, Tiered(q, g), listing[q][g].inode = k
      PROVE  g = f /\ ContentOf(f) \in held[q][g]
  <2>1. listing[p][g].inode = k \/ listing[q][f].inode = k
    BY <1>1, <1>4 DEF Owners
  <2>2. g = f
    BY <1>1, <1>4, <2>1 DEF Tiered
  <2> QED BY <1>1, <1>4, <2>2 DEF Listings, Tiered
<1> QED BY <1>2, <1>3, <1>4 DEF TrueOf, ContentOf

\* The outcome of a tier, when it is a hash.
LEMMA OutcomeTrue ==
  ASSUME TypeOK, Listings, Shared, NEW p \in Scanners, NEW s \in Sizes, NEW f \in Files,
         HashFile(p, s, f), got'[p][f] \in Hashes
  PROVE  /\ \E c \in held[p][f] : HashOf(stage[p][s], f, c) = got'[p][f]
         /\ Caching # {} => TrueOf(listing[p][f].inode, stage[p][s], got'[p][f])
<1> DEFINE t == stage[p][s]
<1>0. t \in Tiers
  BY DEF HashFile
<1>1. Scanning(p) /\ f \in pool[p][s]
  BY DEF HashFile, Working, Scanning
<1>2. CASE Hit(p, f, t) # None /\ got'[p][f] = Hit(p, f, t)
  <2>1. Caching # {}
    BY <1>2 DEF Hit
  <2> QED BY <1>0, <1>1, <1>2, <2>1, HitTrue DEF Shared, RowsStayTrue
<1>3. CASE got'[p][f] = TierHash(t, f)
  <2>1. ContentOf(f) \in held[p][f] /\ HashOf(t, f, ContentOf(f)) = got'[p][f]
    BY <1>1, <1>3 DEF Listings, TierHash, HashOf
  <2>2. Caching # {} => TrueOf(listing[p][f].inode, t, got'[p][f])
    BY <1>0, <1>1, <1>3, ReadTrue DEF Shared
  <2> QED BY <2>1, <2>2
<1>4. \/ Hit(p, f, t) # None /\ got'[p][f] = Hit(p, f, t)
      \/ got'[p][f] = TierHash(t, f)
      \/ got'[p][f] \in {Failed, NoPrint}
  BY DEF HashFile, TypeOK
<1> QED BY <1>2, <1>3, <1>4, OutcomesAssumption DEF OutcomesAssumption

\* Every step keeps what holds of the outcomes.
LEMMA TrueHashesStep ==
  ASSUME TypeOK, Listings, Pools, TrueHashes, Shared, [Next]_vars
  PROVE  TrueHashes'
<1>1. CASE Aside
  BY <1>1 DEF Aside, scanVars, TrueHashes
<1>2. ASSUME NEW p \in Scanners, NEW s \in Sizes, RunGroup(p, s) PROVE TrueHashes'
  <2>1. held' = held /\ Scanning(p) /\ \A q \in Scanners : Scanning(q)' <=> Scanning(q)
    BY <1>2, WorkFrame
  <2>2. /\ ButClass(stage, stage', p, s) /\ ButClass(pool, pool', p, s)
        /\ ButScan(got, got', p) /\ ButScan(unsaved, unsaved', p)
    BY <1>2, Local
  <2>3. ASSUME NEW q \in Scanners \ {p}, NEW r \in Sizes, Scanning(q)', NEW f \in pool'[q][r]
        PROVE  /\ f \in unsaved'[q] => got'[q][f] \in Hashes
               /\ stage'[q][r] \in {"queued", "links"} => got'[q][f] = None
               /\ stage'[q][r] \in Tiers /\ got'[q][f] \in Hashes =>
                    \E c \in held'[q][f] : HashOf(stage'[q][r], f, c) = got'[q][f]
    BY <2>1, <2>2, <2>3 DEF ButClass, ButScan, TrueHashes
  <2>4. ASSUME NEW r \in Sizes \ {s}, NEW f \in pool'[p][r]
        PROVE  /\ f \in unsaved'[p] => got'[p][f] \in Hashes
               /\ stage'[p][r] \in {"queued", "links"} => got'[p][f] = None
               /\ stage'[p][r] \in Tiers /\ got'[p][f] \in Hashes =>
                    \E c \in held'[p][f] : HashOf(stage'[p][r], f, c) = got'[p][f]
    <3>1. f \in pool[p][r] /\ f \in Files /\ stage'[p][r] = stage[p][r]
      BY <2>2, <2>4 DEF ButClass, TypeOK
    <3>2. CASE got'[p][f] = got[p][f] /\ (f \in unsaved'[p] => f \in unsaved[p])
      BY <2>1, <3>1, <3>2 DEF TrueHashes
    <3>3. CASE f \in pool[p][s] /\ stage[p][s] \in Tiers /\ (f \in unsaved'[p] => got'[p][f] \in Hashes)
      <4>1. stage[p][r] = "done"
        BY <2>1, <3>1, <3>3, Apart DEF Tiers
      <4> QED BY <3>1, <3>3, <4>1 DEF Tiers
    <3> QED BY <1>2, <3>1, <3>2, <3>3, OwnHashes
  <2>5. ASSUME NEW f \in pool'[p][s]
        PROVE  /\ f \in unsaved'[p] => got'[p][f] \in Hashes
               /\ stage'[p][s] \in {"queued", "links"} => got'[p][f] = None
               /\ stage'[p][s] \in Tiers /\ got'[p][f] \in Hashes =>
                    \E c \in held'[p][f] : HashOf(stage'[p][s], f, c) = got'[p][f]
    <3>1. f \in pool[p][s] /\ f \in Files
      BY <1>2, <2>5, OwnStage DEF TypeOK
    <3>2. f \in unsaved'[p] => got'[p][f] \in Hashes
      BY <1>2, <2>1, <3>1, OwnHashes DEF TrueHashes
    <3>3. CASE NextTier(p, s)
      <4>1. got'[p][f] = None
        BY <3>1, <3>3 DEF NextTier, TypeOK
      <4> QED BY <3>2, <4>1, OutcomesAssumption DEF OutcomesAssumption
    <3>4. CASE HashFile(p, s, f)
      <4>1. stage' = stage /\ stage[p][s] \in Tiers
        BY <3>4 DEF HashFile
      <4> QED BY <1>2, <2>1, <3>1, <3>2, <3>4, <4>1, OutcomeTrue DEF Tiers
    <3>5. CASE got'[p][f] = got[p][f]
      <4>1. stage'[p][s] \in {"queued", "links"} => stage[p][s] \in {"queued", "links"} \/ NextTier(p, s)
        BY <1>2, OwnStage
      <4>2. stage'[p][s] \in Tiers => NextTier(p, s) \/ BeginTiers(p, s) \/ stage'[p][s] = stage[p][s]
        BY <1>2, OwnStage DEF Tiers
      <4>3. BeginTiers(p, s) => stage[p][s] = "links"
        BY DEF BeginTiers, Working
      <4>4. BeginTiers(p, s) => got'[p][f] = None
        BY <2>1, <3>1, <3>5, <4>3 DEF TrueHashes
      <4> QED BY <2>1, <3>1, <3>2, <3>3, <3>5, <4>1, <4>2, <4>4, OutcomesAssumption
              DEF TrueHashes, OutcomesAssumption
    <3> QED BY <1>2, <3>1, <3>3, <3>4, <3>5, OwnHashes
  <2> QED BY <2>3, <2>4, <2>5 DEF TrueHashes
<1>3. ASSUME NEW e \in Files, EditFile(e) PROVE TrueHashes'
  <2>1. UNCHANGED <<scanVars, phase>> /\ \A p \in Scanners, g \in Files : held[p][g] \subseteq held'[p][g]
    BY <1>3, EditFrame
  <2>2. \A p \in Scanners, s \in Sizes : pool[p][s] \subseteq Files
    BY DEF TypeOK
  <2> QED BY <2>1, <2>2 DEF scanVars, Scanning, TrueHashes
<1>4. ASSUME NEW p \in Scanners, ListFiles(p) PROVE TrueHashes'
  <2>1. ASSUME NEW q \in Scanners \ {p}, NEW r \in Sizes, Scanning(q)', NEW f \in pool'[q][r]
        PROVE  /\ f \in unsaved'[q] => got'[q][f] \in Hashes
               /\ stage'[q][r] \in {"queued", "links"} => got'[q][f] = None
               /\ stage'[q][r] \in Tiers /\ got'[q][f] \in Hashes =>
                    \E c \in held'[q][f] : HashOf(stage'[q][r], f, c) = got'[q][f]
    BY <1>4, <2>1, ListFrame DEF TrueHashes
  <2>2. ASSUME NEW r \in Sizes, NEW f \in pool'[p][r]
        PROVE  f \notin unsaved'[p] /\ got'[p][f] = None
    BY <1>4, <2>2, ListFrame DEF SizeClass
  <2> QED BY <2>1, <2>2, OutcomesAssumption DEF OutcomesAssumption, TrueHashes
<1> QED BY <1>1, <1>2, <1>3, <1>4, Kinds
-----------------------------------------------------------------------------
(* The rows of the cache. *)

\* TrueOf, of the next state.
TrueNext(k, t, h) ==
  /\ \A f \in Files \ Blocked : inode'[f] = k => h = HashOf(t, f, content'[k])
  /\ \A p \in Scanners, f \in Files : Tiered(p, f)' /\ listing'[p][f].inode = k =>
       \E c \in held'[p][f] : HashOf(t, f, c) = h

\* What is true of an inode stays so: nobody writes a file in place, and no file gets
\* an inode that a file had.
LEMMA TrueKept ==
  ASSUME TypeOK, EditKinds \subseteq {"replace"}, [Next]_vars, NEW k \in Inodes, NEW t \in Tiers, NEW h,
         ~ Fresh(k), TrueOf(k, t, h)
  PROVE  (stamp'[k] # 0 \/ k \in Range(FirstInode)) /\ TrueNext(k, t, h)
<1>1. CASE UNCHANGED <<inode, content, stamp, listing, held>> /\ \A p \in Scanners : Scanning(p)' => Scanning(p)
  BY <1>1 DEF Fresh, TrueOf, TrueNext, Tiered
<1>2. CASE Aside
  BY <1>1, <1>2 DEF Aside, fsVars, scanVars
<1>3. ASSUME NEW p \in Scanners, NEW s \in Sizes, RunGroup(p, s)
      PROVE  (stamp'[k] # 0 \/ k \in Range(FirstInode)) /\ TrueNext(k, t, h)
  BY <1>1, <1>3, WorkFrame
<1>4. ASSUME NEW e \in Files, EditFile(e)
      PROVE  (stamp'[k] # 0 \/ k \in Range(FirstInode)) /\ TrueNext(k, t, h)
  <2>1. /\ \A f \in Files \ {e} : inode'[f] = inode[f]
        /\ Fresh(inode'[e])
        /\ \A i \in Inodes \ {inode'[e]} : content'[i] = content[i] /\ stamp'[i] = stamp[i]
        /\ listing' = listing /\ \A p \in Scanners : Scanning(p)' <=> Scanning(p)
        /\ \A p \in Scanners, f \in Files : held[p][f] \subseteq held'[p][f]
    BY <1>4, EditFrame DEF scanVars, Scanning
  <2>2. k # inode'[e]
    BY <2>1
  <2>3. content'[k] = content[k] /\ stamp'[k] = stamp[k]
    BY <2>1, <2>2
  <2>4. \A f \in Files \ Blocked : inode'[f] = k => h = HashOf(t, f, content'[k])
    BY <2>1, <2>2, <2>3 DEF TrueOf
  <2>5. \A p \in Scanners, f \in Files : Tiered(p, f)' /\ listing'[p][f].inode = k =>
          \E c \in held'[p][f] : HashOf(t, f, c) = h
    BY <2>1 DEF TrueOf, Tiered
  <2> QED BY <2>3, <2>4, <2>5 DEF Fresh, TrueNext
<1>5. ASSUME NEW a \in Scanners, ListFiles(a)
      PROVE  (stamp'[k] # 0 \/ k \in Range(FirstInode)) /\ TrueNext(k, t, h)
  <2>1. UNCHANGED <<inode, content, stamp>>
    BY <1>5, ListFrame DEF fsVars
  <2>2. ASSUME NEW f \in Files, Tiered(a, f)', listing'[a][f].inode = k
        PROVE  \E c \in held'[a][f] : HashOf(t, f, c) = h
    <3>1. f \notin Blocked /\ inode[f] = k /\ held'[a][f] = {content[k]}
      BY <1>5, <2>2, ListFrame DEF Tiered, ContentOf
    <3> QED BY <3>1 DEF TrueOf
  <2>3. ASSUME NEW q \in Scanners \ {a}, NEW f \in Files, Tiered(q, f)', listing'[q][f].inode = k
        PROVE  \E c \in held'[q][f] : HashOf(t, f, c) = h
    BY <1>5, <2>3, ListFrame DEF TrueOf, Tiered
  <2> QED BY <2>1, <2>2, <2>3 DEF Fresh, TrueOf, TrueNext
<1> QED BY <1>2, <1>3, <1>4, <1>5, Kinds

\* TrueTable, of the next state.
TableNext(table) ==
  \A k \in Inodes : table[k] # None =>
    /\ stamp'[k] # 0 \/ k \in Range(FirstInode)
    /\ \A t \in Tiers : table[k].hash[t] # None => TrueNext(k, t, table[k].hash[t])

\* What a table says stays true.
LEMMA TableKept ==
  ASSUME TypeOK, EditKinds \subseteq {"replace"}, [Next]_vars, NEW table, TrueTable(table)
  PROVE  TableNext(table)
<1> SUFFICES ASSUME NEW k \in Inodes, table[k] # None
             PROVE  /\ stamp'[k] # 0 \/ k \in Range(FirstInode)
                    /\ \A t \in Tiers : table[k].hash[t] # None => TrueNext(k, t, table[k].hash[t])
  BY DEF TableNext
<1>1. ~ Fresh(k) /\ \A t \in Tiers : table[k].hash[t] # None => TrueOf(k, t, table[k].hash[t])
  BY DEF TrueTable
<1>2. \A t \in Tiers : table[k].hash[t] # None => TrueNext(k, t, table[k].hash[t])
  BY <1>1, TrueKept
<1>3. stamp'[k] # 0 \/ k \in Range(FirstInode)
  <2>1. CASE UNCHANGED stamp
    BY <1>1, <2>1 DEF Fresh
  <2>2. ASSUME NEW e \in Files, EditFile(e) PROVE stamp'[k] # 0 \/ k \in Range(FirstInode)
    BY <1>1, <2>2, EditFrame DEF Fresh
  <2>3. ASSUME NEW p \in Scanners, ListFiles(p) PROVE UNCHANGED stamp
    BY <2>3, ListFrame DEF fsVars
  <2> QED BY <2>1, <2>2, <2>3, Kinds, WorkFrame DEF Aside, fsVars
<1> QED BY <1>2, <1>3

\* A row that a worker stores says what is true of its inode.
LEMMA SaveTrue ==
  ASSUME TypeOK, TrueHashes, Owners, TrueRows, Unidentified = {}, EditKinds \subseteq {"replace"}, [Next]_vars,
         NEW p \in Scanners, NEW s \in Sizes, NEW f \in Files, SaveHash(p, s, f)
  PROVE  TableNext(rows')
<1> DEFINE k == listing[p][f].inode
           t == stage[p][s]
           kept == IF rows[k] = None THEN NoHashes ELSE rows[k].hash
           row == [stamp |-> listing[p][f].stamp, hash |-> [kept EXCEPT ![t] = got[p][f]]]
<1>1. TableNext(rows)
  BY TableKept DEF TrueRows
<1>2. CASE UNCHANGED rows
  BY <1>1, <1>2
<1>3. CASE rows' = [rows EXCEPT ![k] = row]
  <2>1. k \in Inodes /\ k \in Keys /\ ~ Fresh(k) /\ rows \in Table
    BY InputsAssumption DEF InputsAssumption, TypeOK, CacheTypeOK, Owners
  <2>2. f \in pool[p][s] /\ Scanning(p) /\ got[p][f] \in Hashes
    BY DEF SaveHash, Working, Scanning, TrueHashes
  <2>3. kept \in [Tiers -> Hashes \union {None}]
    BY <2>1 DEF Table, Row, NoHashes
  <2>4. \A u \in Tiers : kept[u] # None => TrueOf(k, u, kept[u])
    BY <2>1 DEF NoHashes, TrueRows, TrueTable
  <2>5. t \in Tiers => TrueOf(k, t, got[p][f])
    BY <2>2 DEF TrueRows
  <2>6. \A u \in Tiers : row.hash[u] = IF u = t THEN got[p][f] ELSE kept[u]
    BY <2>3
  <2>7. \A u \in Tiers : row.hash[u] # None => TrueOf(k, u, row.hash[u])
    BY <2>4, <2>5, <2>6
  <2>8. \A u \in Tiers : row.hash[u] # None => TrueNext(k, u, row.hash[u])
    BY <2>1, <2>7, TrueKept
  <2>9. stamp'[k] # 0 \/ k \in Range(FirstInode)
    BY <2>1 DEF Fresh, SaveHash, Working, fsVars
  <2>10. rows'[k] = row /\ \A i \in Inodes \ {k} : rows'[i] = rows[i]
    <3> HIDE DEF row
    <3>1. Inodes \subseteq Keys
      BY InputsAssumption DEF InputsAssumption
    <3> QED BY <1>3, <2>1, <3>1 DEF Table
  <2> HIDE DEF row, k
  <2> QED BY <1>1, <2>8, <2>9, <2>10 DEF TableNext
<1> QED BY <1>2, <1>3 DEF SaveHash, Store, CacheKey

\* Every step keeps what holds of the rows, the mirrors and the outcomes.
LEMMA TrueRowsStep ==
  ASSUME TypeOK, Listings, Pools, TrueHashes, Caching # {}, Shared, [Next]_vars
  PROVE  TrueRows'
<1> USE DEF Shared, RowsStayTrue
<1>1. TableNext(rows) /\ \A p \in Scanners : mirror[p] # None => TableNext(mirror[p])
  BY TableKept DEF TrueRows
<1>2. ASSUME NEW p \in Scanners, NEW s \in Sizes, Scanning(p), stage[p][s] \in Tiers,
             NEW f \in pool[p][s], got[p][f] \in Hashes
      PROVE  TrueNext(listing[p][f].inode, stage[p][s], got[p][f])
  <2>1. f \in Files /\ listing[p][f].inode \in Inodes /\ ~ Fresh(listing[p][f].inode)
    BY DEF TypeOK, Owners
  <2>2. TrueOf(listing[p][f].inode, stage[p][s], got[p][f])
    BY <1>2 DEF TrueRows
  <2> QED BY <1>2, <2>1, <2>2, TrueKept
<1> DEFINE Rows == TableNext(rows') /\ \A p \in Scanners : mirror'[p] # None => TableNext(mirror'[p])
           Outs == \A p \in Scanners, s \in Sizes :
                     Scanning(p)' /\ stage'[p][s] \in Tiers =>
                       \A f \in pool'[p][s] :
                         got'[p][f] \in Hashes => TrueNext(listing'[p][f].inode, stage'[p][s], got'[p][f])
<1>3. SUFFICES Rows /\ Outs
  BY DEF TrueRows, TrueTable, TrueOf, TableNext, TrueNext, Fresh
<1>4. CASE Aside
  <2>1. Inodes \subseteq Keys
    BY InputsAssumption DEF InputsAssumption
  <2>2. Rows
    BY <1>1, <1>4, <2>1 DEF Aside, TableNext
  <2>3. Outs
    BY <1>2, <1>4 DEF Aside, scanVars
  <2> QED BY <2>2, <2>3
<1>5. ASSUME NEW p \in Scanners, NEW s \in Sizes, RunGroup(p, s) PROVE Rows /\ Outs
  <2>1. /\ UNCHANGED <<listing, mirror>> /\ Scanning(p)
        /\ \A q \in Scanners : Scanning(q)' <=> Scanning(q)
    BY <1>5, WorkFrame
  <2>2. /\ ButClass(stage, stage', p, s) /\ ButClass(pool, pool', p, s) /\ ButScan(got, got', p)
    BY <1>5, Local
  <2>3. TableNext(rows')
    <3>1. ASSUME NEW f \in Files, SaveHash(p, s, f) PROVE TableNext(rows')
      BY <3>1, SaveTrue
    <3>2. rows' = rows \/ \E f \in Files : SaveHash(p, s, f)
      BY <1>5 DEF RunGroup, PickUp, HashAliases, BeginTiers, HashFile, NextTier, Confirm, cvars
    <3> QED BY <1>1, <3>1, <3>2
  <2>4. ASSUME NEW q \in Scanners \ {p}, NEW r \in Sizes, Scanning(q)', stage'[q][r] \in Tiers,
               NEW f \in pool'[q][r], got'[q][f] \in Hashes
        PROVE  TrueNext(listing'[q][f].inode, stage'[q][r], got'[q][f])
    BY <1>2, <2>1, <2>2, <2>4 DEF ButClass, ButScan
  <2>5. ASSUME NEW r \in Sizes \ {s}, stage'[p][r] \in Tiers, NEW f \in pool'[p][r], got'[p][f] \in Hashes
        PROVE  TrueNext(listing'[p][f].inode, stage'[p][r], got'[p][f])
    <3>1. f \in pool[p][r] /\ f \in Files /\ stage[p][r] \in Tiers /\ stage'[p][r] = stage[p][r]
      BY <2>2, <2>5 DEF ButClass, TypeOK
    <3>2. ~ (f \in pool[p][s] /\ stage[p][s] \in Tiers)
      BY <2>1, <3>1, Apart DEF Tiers
    <3>3. got'[p][f] = got[p][f]
      BY <1>5, <3>1, <3>2, OwnHashes
    <3> QED BY <1>2, <2>1, <2>5, <3>1, <3>3
  <2>6. ASSUME stage'[p][s] \in Tiers, NEW f \in pool'[p][s], got'[p][f] \in Hashes
        PROVE  TrueNext(listing'[p][f].inode, stage'[p][s], got'[p][f])
    <3>1. f \in pool[p][s] /\ f \in Files
      BY <1>5, <2>6, OwnStage DEF TypeOK
    <3>2. ~ NextTier(p, s)
      <4>1. NextTier(p, s) => got'[p][f] = None
        BY <3>1 DEF NextTier, TypeOK
      <4> QED BY <2>6, <4>1, OutcomesAssumption DEF OutcomesAssumption
    <3>3. stage[p][s] \in Tiers /\ stage'[p][s] = stage[p][s]
      <4>1. BeginTiers(p, s) => stage[p][s] = "links" /\ got'[p][f] = got[p][f]
        BY DEF BeginTiers, Working
      <4>2. BeginTiers(p, s) => got'[p][f] = None
        BY <2>1, <3>1, <4>1 DEF TrueHashes
      <4> QED BY <1>5, <2>6, <3>2, <4>2, OwnStage, OutcomesAssumption DEF Tiers, OutcomesAssumption
    <3>4. CASE got'[p][f] = got[p][f]
      BY <1>2, <2>1, <2>6, <3>1, <3>3, <3>4
    <3>5. CASE HashFile(p, s, f)
      <4>1. TrueOf(listing[p][f].inode, stage[p][s], got'[p][f])
        BY <2>6, <3>1, <3>3, <3>5, OutcomeTrue
      <4>2. listing[p][f].inode \in Inodes /\ ~ Fresh(listing[p][f].inode)
        BY <3>1 DEF TypeOK, Owners
      <4> QED BY <2>1, <3>3, <4>1, <4>2, TrueKept
    <3> QED BY <1>5, <3>1, <3>2, <3>4, <3>5, OwnHashes
  <2> QED BY <1>1, <2>1, <2>3, <2>4, <2>5, <2>6
<1>6. ASSUME NEW e \in Files, EditFile(e) PROVE Rows /\ Outs
  BY <1>1, <1>2, <1>6, EditFrame DEF cvars, scanVars, Scanning
<1>7. ASSUME NEW a \in Scanners, ListFiles(a) PROVE Rows /\ Outs
  <2>1. Rows
    BY <1>1, <1>7, ListFrame DEF cvars
  <2>2. \A s \in Sizes : stage'[a][s] \notin Tiers
    BY <1>7, ListFrame DEF Tiers
  <2>3. ASSUME NEW q \in Scanners \ {a}, NEW s \in Sizes, Scanning(q)', stage'[q][s] \in Tiers,
               NEW f \in pool'[q][s], got'[q][f] \in Hashes
        PROVE  TrueNext(listing'[q][f].inode, stage'[q][s], got'[q][f])
    BY <1>2, <1>7, <2>3, ListFrame
  <2> QED BY <2>1, <2>2, <2>3
<1> QED BY <1>4, <1>5, <1>6, <1>7, Kinds
-----------------------------------------------------------------------------
(* A scan that nothing disturbs misses nothing. *)

\* Nothing has happened to the files of p, nor to its reads.
Untroubled(p) ==
  /\ ~ cancelled[p] /\ ~ failed[p]
  /\ \A f \in Files : \E c \in Contents : held[p][f] = {c}

Counted == \A p \in Scanners, f \in Files : IsFiniteSet(held[p][f])

Ended == \A p \in Scanners : phase[p] = "over" => \A s \in Sizes : stage[p][s] = "done"

\* A file has no outcome that is no hash, but for a fingerprint that tier zero declined.
Answered ==
  \A p \in Scanners, s \in Sizes : Scanning(p) /\ stage[p][s] \in Tiers =>
    /\ stage[p][s] = "zero" => FormatAware
    /\ ~ cancelled[p] /\ ~ failed[p] =>
         \A f \in pool[p][s] :
           /\ got[p][f] # Failed
           /\ got[p][f] = NoPrint => stage[p][s] = "zero" /\ \E c \in held[p][f] : HashOf("zero", f, c) = NoPrint

Linked(p, f, g) == {f, g} \intersect Unidentified = {} /\ listing[p][f].inode = listing[p][g].inode
Printed(p, f, g) == \A c \in held[p][f] : FormatAware => Fingerprint[f][c] = Fingerprint[g][c]
Empty(p, f, g) == \E c \in held[p][f] : c \in held[p][g] /\ SizeOf[c] = 0

\* Two files that the pipeline compares.
Compared(p, f, g) ==
  /\ f # g
  /\ SameContent(p, f, g)
  /\ Empty(p, f, g) \/ Linked(p, f, g) \/ (~ Aliased(p, f) /\ ~ Aliased(p, g) /\ Printed(p, f, g))

Met(p, f, g) == \E G \in found[p] : {f, g} \subseteq G

\* They are in one group, or on the way to it: in the class, in one set of aliases, or in
\* one pool.
InHand(p, f, g, s) ==
  \/ Met(p, f, g)
  \/ stage[p][s] = "queued"
  \/ stage[p][s] = "links" /\ \E S \in links[p][s] : {f, g} \subseteq S
  \/ stage[p][s] \in Tiers \union {"links"} /\ {f, g} \subseteq pool[p][s] /\ Printed(p, f, g)

Together ==
  \A p \in Scanners : (Scanning(p) \/ phase[p] = "over") /\ Untroubled(p) =>
    \A f, g \in Files \ Blocked : Compared(p, f, g) => InHand(p, f, g, listing[p][f].size)

Complete == Counted /\ Ended /\ Answered /\ Together

\* Two files are two.
LEMMA TwoOrMore ==
  ASSUME NEW S \in SUBSET Files, NEW f \in S, NEW g \in S, f # g
  PROVE  Cardinality(S) >= 2
<1>1. IsFiniteSet({f}) /\ Cardinality({f}) = 1
  BY FS_Singleton
<1>2. {f, g} = {f} \union {g} /\ g \notin {f}
  OBVIOUS
<1>3. Cardinality({f} \union {g}) = Cardinality({f}) + 1
  BY <1>1, <1>2, FS_AddElement
<1>4. IsFiniteSet(S) /\ Cardinality(S) \in Nat
  BY FilesAssumption, FS_Subset, FS_CardinalityType DEF FilesAssumption
<1>5. Cardinality({f, g}) <= Cardinality(S)
  BY <1>4, FS_Subset
<1> QED BY <1>1, <1>2, <1>3, <1>4, <1>5

\* What a scan has counted stays finite.
LEMMA CountedStep == ASSUME TypeOK, Counted, [Next]_vars PROVE Counted'
<1>1. CASE UNCHANGED held
  BY <1>1 DEF Counted
<1>2. ASSUME NEW e \in Files, EditFile(e) PROVE Counted'
  <2>1. ASSUME NEW p \in Scanners, NEW f \in Files PROVE IsFiniteSet(held'[p][f])
    <3>1. IsFiniteSet(held[p][f] \union {ContentOf(f)'})
      BY FS_AddElement DEF Counted
    <3>2. held'[p][f] = held[p][f] \union {ContentOf(f)'} \/ held'[p][f] = held[p][f]
      BY <1>2, EditFrame
    <3> QED BY <3>1, <3>2 DEF Counted
  <2> QED BY <2>1 DEF Counted
<1>3. ASSUME NEW p \in Scanners, ListFiles(p) PROVE Counted'
  <2>1. \A f \in Files : held'[p][f] = {ContentOf(f)}
    BY <1>3, ListFrame
  <2>2. \A q \in Scanners \ {p} : held'[q] = held[q]
    BY <1>3, ListFrame
  <2>3. \A f \in Files : IsFiniteSet(held'[p][f])
    BY <2>1, FS_Singleton
  <2>4. ASSUME NEW q \in Scanners, NEW f \in Files PROVE IsFiniteSet(held'[q][f])
    <3>1. CASE q = p
      BY <2>3, <3>1
    <3>2. CASE q # p
      BY <2>2, <3>2 DEF Counted
    <3> QED BY <3>1, <3>2
  <2> QED BY <2>4 DEF Counted
<1> QED BY <1>1, <1>2, <1>3, Kinds, WorkFrame DEF Aside

\* A scan that is over has no class to work on.
LEMMA EndedStep == ASSUME TypeOK, Ended, [Next]_vars PROVE Ended'
<1>1. CASE Aside
  BY <1>1 DEF Aside, scanVars, Ended
<1>2. ASSUME NEW p \in Scanners, NEW s \in Sizes, RunGroup(p, s) PROVE Ended'
  <2>1. phase' = phase /\ phase[p] = "hashing" /\ ButClass(stage, stage', p, s)
    BY <1>2, Local
  <2> QED BY <2>1 DEF Ended, ButClass
<1>3. ASSUME NEW e \in Files, EditFile(e) PROVE Ended'
  BY <1>3, EditFrame DEF scanVars, Ended
<1>4. ASSUME NEW p \in Scanners, ListFiles(p) PROVE Ended'
  BY <1>4, ListFrame DEF Ended, Scanning
<1> QED BY <1>1, <1>2, <1>3, <1>4, Kinds

\* What tier zero or a failed read leave.
LEMMA OwnOutcome ==
  ASSUME TypeOK, Listings, NEW p \in Scanners, NEW s \in Sizes, NEW f \in Files, HashFile(p, s, f),
         ~ cancelled[p], ~ failed'[p]
  PROVE  /\ got'[p][f] # Failed
         /\ got'[p][f] = NoPrint => stage[p][s] = "zero" /\ \E c \in held[p][f] : HashOf("zero", f, c) = NoPrint
<1> DEFINE t == stage[p][s]
<1>1. t \in Tiers /\ Scanning(p)
  BY DEF HashFile, Working, Scanning
<1>2. \/ got'[p][f] = Hit(p, f, t) /\ Hit(p, f, t) # None
      \/ got'[p][f] = TierHash(t, f)
  BY DEF HashFile, TypeOK
<1>3. Hit(p, f, t) # None => Hit(p, f, t) \in Hashes
  BY <1>1, HitType
<1>4. TierHash(t, f) \in Hashes \union {NoPrint} /\ (t # "zero" => TierHash(t, f) \in Hashes)
  BY <1>1, HashType
<1>5. t = "zero" => TierHash(t, f) = HashOf("zero", f, ContentOf(f)) /\ ContentOf(f) \in held[p][f]
  BY <1>1 DEF TierHash, HashOf, Listings
<1> QED BY <1>2, <1>3, <1>4, <1>5, OutcomesAssumption DEF OutcomesAssumption

\* Trouble stays.
LEMMA TroubleStays ==
  ASSUME TypeOK, NEW p \in Scanners, NEW s \in Sizes, RunGroup(p, s), ~ failed'[p]
  PROVE  ~ failed[p]
<1>1. (\E f \in Files : HashFile(p, s, f) \/ SaveHash(p, s, f)) => ~ failed[p]
  BY DEF HashFile, SaveHash, TypeOK
<1>2. HashAliases(p, s) => ~ failed[p]
  BY DEF HashAliases, TypeOK
<1>3. PickUp(p, s) \/ BeginTiers(p, s) \/ NextTier(p, s) \/ Confirm(p, s) => ~ failed[p]
  BY DEF PickUp, BeginTiers, NextTier, Confirm
<1> QED BY <1>1, <1>2, <1>3 DEF RunGroup

\* Every step keeps what holds of the outcomes that are no hashes.
LEMMA AnsweredStep ==
  ASSUME TypeOK, Listings, Pools, TrueHashes, Answered, [Next]_vars
  PROVE  Answered'
<1>1. CASE Aside
  BY <1>1 DEF Aside, scanVars, Answered
<1>2. ASSUME NEW p \in Scanners, NEW s \in Sizes, RunGroup(p, s) PROVE Answered'
  <2> DEFINE Fine(q, r) ==
        /\ stage'[q][r] = "zero" => FormatAware
        /\ ~ cancelled'[q] /\ ~ failed'[q] =>
             \A f \in pool'[q][r] :
               /\ got'[q][f] # Failed
               /\ got'[q][f] = NoPrint =>
                    stage'[q][r] = "zero" /\ \E c \in held'[q][f] : HashOf("zero", f, c) = NoPrint
  <2>1. /\ held' = held /\ cancelled' = cancelled /\ Scanning(p)
        /\ \A q \in Scanners : Scanning(q)' <=> Scanning(q)
    BY <1>2, WorkFrame, Local
  <2>2. /\ ButClass(stage, stage', p, s) /\ ButClass(pool, pool', p, s)
        /\ ButScan(got, got', p) /\ ButScan(failed, failed', p)
    BY <1>2, Local
  <2>3. ~ failed'[p] => ~ failed[p]
    BY <1>2, TroubleStays
  <2>4. ASSUME NEW q \in Scanners \ {p}, NEW r \in Sizes, Scanning(q)', stage'[q][r] \in Tiers
        PROVE  Fine(q, r)
    BY <2>1, <2>2, <2>4 DEF ButClass, ButScan, Answered
  <2>5. ASSUME NEW r \in Sizes \ {s}, stage'[p][r] \in Tiers
        PROVE  Fine(p, r)
    <3>1. stage'[p][r] = stage[p][r] /\ pool'[p][r] = pool[p][r] /\ pool[p][r] \subseteq Files
      BY <2>2 DEF ButClass, TypeOK
    <3>2. \A f \in pool[p][r] : ~ (f \in pool[p][s] /\ stage[p][s] \in Tiers)
      BY <2>1, <2>5, <3>1, Apart DEF Tiers
    <3>3. \A f \in pool[p][r] : got'[p][f] = got[p][f]
      BY <1>2, <3>1, <3>2, OwnHashes
    <3> QED BY <2>1, <2>3, <2>5, <3>1, <3>3 DEF Answered
  <2>6. ASSUME stage'[p][s] \in Tiers PROVE Fine(p, s)
    <3>1. stage'[p][s] = "zero" => FormatAware
      <4>1. \A at \in Stages : SetStage(p, s, at) => stage'[p][s] = at
        BY Update DEF SetStage, TypeOK
      <4>2. CASE NextTier(p, s)
        <5>1. stage[p][s] \in {"zero", "one", "two"}
          BY <4>2 DEF NextTier, Tiers
        <5>2. TierAfter(stage[p][s], s) \in {"one", "two", "three"}
          BY <5>1 DEF TierAfter
        <5> QED BY <4>1, <4>2, <5>2 DEF NextTier, Stages, Tiers
      <4>3. CASE BeginTiers(p, s)
        BY <4>1, <4>3 DEF BeginTiers, Stages, Tiers
      <4>4. CASE stage' = stage
        BY <2>1, <2>6, <4>4 DEF Answered
      <4> QED BY <1>2, <2>6, <4>2, <4>3, <4>4, OwnStage DEF Tiers, HashAliases
    <3>2. ASSUME ~ cancelled'[p], ~ failed'[p], NEW f \in pool'[p][s]
          PROVE  /\ got'[p][f] # Failed
                 /\ got'[p][f] = NoPrint =>
                      stage'[p][s] = "zero" /\ \E c \in held'[p][f] : HashOf("zero", f, c) = NoPrint
      <4>1. f \in pool[p][s] /\ f \in Files
        BY <1>2, <3>2, OwnStage DEF TypeOK
      <4>2. CASE NextTier(p, s)
        <5>1. got'[p][f] = None
          BY <4>1, <4>2 DEF NextTier, TypeOK
        <5> QED BY <5>1, OutcomesAssumption DEF OutcomesAssumption
      <4>3. CASE HashFile(p, s, f)
        <5>1. stage' = stage
          BY <4>3 DEF HashFile
        <5> QED BY <2>1, <3>2, <4>1, <4>3, <5>1, OwnOutcome
      <4>4. CASE got'[p][f] = got[p][f] /\ stage[p][s] \in Tiers /\ ~ NextTier(p, s)
        <5>1. stage'[p][s] = stage[p][s]
          BY <1>2, <2>6, <4>4, OwnStage DEF Tiers
        <5> QED BY <2>1, <2>3, <3>2, <4>1, <4>4, <5>1 DEF Answered
      <4>5. CASE got'[p][f] = got[p][f] /\ stage[p][s] \in {"queued", "links"}
        <5>1. got[p][f] = None
          BY <2>1, <4>1, <4>5 DEF TrueHashes
        <5> QED BY <4>5, <5>1, OutcomesAssumption DEF OutcomesAssumption
      <4> QED BY <1>2, <4>1, <4>2, <4>3, <4>4, <4>5, OwnHashes, OwnStage, <2>6 DEF Tiers
    <3> QED BY <3>1, <3>2
  <2> QED BY <2>4, <2>5, <2>6 DEF Answered
<1>3. ASSUME NEW e \in Files, EditFile(e) PROVE Answered'
  <2>1. UNCHANGED <<scanVars, phase, cancelled, failed>> /\ \A p \in Scanners, g \in Files : held[p][g] \subseteq held'[p][g]
    BY <1>3, EditFrame
  <2>2. \A p \in Scanners, s \in Sizes : pool[p][s] \subseteq Files
    BY DEF TypeOK
  <2> QED BY <2>1, <2>2 DEF scanVars, Scanning, Answered
<1>4. ASSUME NEW p \in Scanners, ListFiles(p) PROVE Answered'
  <2>1. \A r \in Sizes : stage'[p][r] \notin Tiers
    BY <1>4, ListFrame DEF Tiers
  <2>2. \A q \in Scanners \ {p} :
          /\ Scanning(q)' <=> Scanning(q)
          /\ stage'[q] = stage[q] /\ pool'[q] = pool[q] /\ got'[q] = got[q] /\ held'[q] = held[q]
          /\ cancelled'[q] = cancelled[q] /\ failed'[q] = failed[q]
    BY <1>4, ListFrame
  <2> QED BY <2>1, <2>2 DEF Answered
<1> QED BY <1>1, <1>2, <1>3, <1>4, Kinds

\* Files that held one content are of one size.
LEMMA OneSize ==
  ASSUME TypeOK, Listings, NEW p \in Scanners, Scanning(p), Untroubled(p),
         NEW f \in Files, NEW g \in Files, SameContent(p, f, g)
  PROVE  /\ listing[p][f].size = listing[p][g].size
         /\ \A c \in held[p][f] : SizeOf[c] = listing[p][f].size
<1>1. ASSUME NEW e \in Files PROVE \A c \in held[p][e] : SizeOf[c] = listing[p][e].size
  <2>1. listing[p][e].inode \in Inodes
    BY DEF TypeOK
  <2>2. PICK c \in Contents : Common(p, listing[p][e].inode, c)
    BY <2>1 DEF Listings
  <2>3. c \in held[p][e] /\ SizeOf[c] = listing[p][e].size
    BY <2>2 DEF Common
  <2> QED BY <2>3 DEF Untroubled
<1>2. PICK c \in held[p][f] : c \in held[p][g]
  BY DEF Untroubled, SameContent
<1> QED BY <1>1, <1>2 DEF SameContent

\* A file whose aliases may not be read, or are not known, is in no alias set.
LEMMA AloneStays ==
  ASSUME TypeOK, NEW p \in Scanners, NEW files \in SUBSET (Files \ Blocked), NEW f \in files, ~ Aliased(p, f)
  PROVE  f \notin UNION AliasSets(p, files)
<1> SUFFICES ASSUME NEW S \in AliasSets(p, files), f \in S PROVE FALSE
  OBVIOUS
<1>1. PICK e \in files \ Unidentified :
        /\ S = {g \in files \ Unidentified : listing[p][g].inode = listing[p][e].inode}
        /\ Cardinality(S) >= 2
  BY DEF AliasSets
<1>2. S # {f}
  <2>1. Cardinality({f}) = 1
    BY FS_Singleton
  <2>2. Cardinality(S) >= 2
    BY <1>1
  <2> QED BY <2>1, <2>2
<1>3. PICK g \in S : g # f
  BY <1>2
<1>4. f \notin Unidentified /\ g \in Files \ ({f} \union Unidentified \union Blocked)
      /\ listing[p][f].inode = listing[p][g].inode
  BY <1>1, <1>3
<1> QED BY <1>4 DEF Aliased

\* Two such files of a class that is picked up.
LEMMA PickUpTogether ==
  ASSUME TypeOK, Listings, Pools, NEW p \in Scanners, NEW s \in Sizes, PickUp(p, s), Untroubled(p),
         NEW f \in Files \ Blocked, NEW g \in Files \ Blocked, Compared(p, f, g), listing[p][f].size = s
  PROVE  InHand(p, f, g, s)'
<1> DEFINE allowed == Allowed(p, s)
<1>1. Scanning(p) /\ stage[p][s] = "queued" /\ Class(p, s)
  BY DEF PickUp, Working, Scanning, Pools
<1>2. listing[p][g].size = s /\ \A c \in held[p][f] : SizeOf[c] = s
  BY <1>1, OneSize DEF Compared
<1>3. {f, g} \subseteq allowed /\ allowed \in SUBSET (Files \ Blocked)
  BY <1>1, <1>2 DEF Class, Allowed, TypeOK
<1>4. f # g /\ Cardinality(allowed) >= 2
  BY <1>3, TwoOrMore DEF Compared
<1>5. CASE s = 0
  <2>1. Report(p, {G \in {allowed} : Cardinality(G) >= 2})
    BY <1>5 DEF PickUp, Untroubled
  <2>2. allowed \in found'[p]
    BY <1>4, <2>1 DEF Report, TypeOK
  <2> QED BY <1>3, <2>2 DEF InHand, Met
<1>6. CASE s # 0
  <2>1. /\ SetStage(p, s, "links")
        /\ links' = [links EXCEPT ![p][s] = AliasSets(p, allowed)]
        /\ SetPool(p, s, allowed \ UNION AliasSets(p, allowed))
    BY <1>6 DEF PickUp, Untroubled
  <2>2. AliasSets(p, allowed) \in SUBSET SUBSET Files /\ allowed \ UNION AliasSets(p, allowed) \in SUBSET Files
    BY <1>3 DEF AliasSets
  <2>3. stage'[p][s] = "links"
    BY <2>1, Update DEF SetStage, TypeOK, Stages
  <2> HIDE DEF allowed
  <2>4. links'[p][s] = AliasSets(p, allowed)
    BY <2>1, <2>2, Update DEF TypeOK
  <2>5. pool'[p][s] = allowed \ UNION AliasSets(p, allowed)
    BY <2>1, <2>2, Update DEF SetPool, TypeOK
  <2>6. CASE Linked(p, f, g)
    <3> DEFINE S == {e \in allowed \ Unidentified : listing[p][e].inode = listing[p][f].inode}
    <3>1. {f, g} \subseteq S /\ S \in SUBSET Files
      BY <1>3, <2>6 DEF Linked
    <3>2. Cardinality(S) >= 2
      BY <1>4, <3>1, TwoOrMore
    <3>3. S \in AliasSets(p, allowed)
      BY <1>3, <2>6, <3>2 DEF AliasSets, Linked
    <3> QED BY <2>3, <2>4, <3>1, <3>3 DEF InHand
  <2>7. CASE ~ Aliased(p, f) /\ ~ Aliased(p, g) /\ Printed(p, f, g)
    <3>1. {f, g} \subseteq pool'[p][s]
      BY <1>3, <2>5, <2>7, AloneStays
    <3>2. held' = held
      BY DEF PickUp, Working
    <3> QED BY <2>3, <2>7, <3>1, <3>2 DEF InHand, Printed
  <2>8. ~ Empty(p, f, g)
    BY <1>2, <1>6 DEF Empty
  <2> QED BY <2>6, <2>7, <2>8 DEF Compared
<1> QED BY <1>5, <1>6

\* What two such files are to a tier that all are through.
LEMMA OneOutcome ==
  ASSUME TypeOK, TrueHashes, Answered, NEW p \in Scanners, Scanning(p), NEW s \in Sizes, stage[p][s] \in Tiers,
         TierDone(p, s), Untroubled(p), NEW f \in pool[p][s], NEW g \in pool[p][s],
         SameContent(p, f, g), Printed(p, f, g)
  PROVE  /\ got[p][f] = got[p][g]
         /\ got[p][f] \in Hashes \/ (got[p][f] = NoPrint /\ stage[p][s] = "zero")
<1> DEFINE t == stage[p][s]
<1>1. f \in Files /\ g \in Files
  BY DEF TypeOK
<1>2. PICK c \in Contents : held[p][f] = {c} /\ held[p][g] = {c}
  BY <1>1 DEF Untroubled, SameContent
<1>3. HashOf(t, f, c) = HashOf(t, g, c)
  BY <1>2 DEF HashOf, Printed, Answered
<1>4. ASSUME NEW e \in {f, g}
      PROVE  /\ got[p][e] = HashOf(t, e, c)
             /\ got[p][e] \in Hashes \/ (got[p][e] = NoPrint /\ t = "zero")
  <2>1. got[p][e] \in Outcomes /\ got[p][e] # None /\ got[p][e] # Failed
    BY <1>1 DEF TypeOK, TierDone, Answered, Untroubled
  <2>2. CASE got[p][e] \in Hashes
    BY <1>2, <2>2 DEF TrueHashes
  <2>3. CASE got[p][e] = NoPrint
    BY <1>2, <2>3 DEF Answered, Untroubled
  <2> QED BY <2>1, <2>2, <2>3 DEF Outcomes
<1> QED BY <1>3, <1>4

\* Two such files of a class at a tier.
LEMMA TierTogether ==
  ASSUME TypeOK, TrueHashes, Answered, NEW p \in Scanners, NEW s \in Sizes, Untroubled(p),
         NextTier(p, s) \/ Confirm(p, s),
         NEW f \in pool[p][s], NEW g \in pool[p][s], f # g, SameContent(p, f, g), Printed(p, f, g)
  PROVE  InHand(p, f, g, s)'
<1> DEFINE h == got[p][f]
<1>1. Scanning(p) /\ stage[p][s] \in Tiers /\ TierDone(p, s)
  BY DEF NextTier, Confirm, Working, Scanning, Tiers
<1>2. h = got[p][g] /\ (h \in Hashes \/ (h = NoPrint /\ stage[p][s] = "zero"))
  BY <1>1, OneOutcome
<1>3. {f, g} \subseteq Bucket(p, s, h) /\ Bucket(p, s, h) \in SUBSET Files /\ Bucket(p, s, h) \subseteq pool[p][s]
  BY <1>2 DEF Bucket, TypeOK
<1>4. h \in Hashes => Bucket(p, s, h) \in Buckets(p, s)
  BY <1>3, TwoOrMore DEF Buckets
<1>5. \A at \in Stages : SetStage(p, s, at) => stage'[p][s] = at
  BY Update DEF SetStage, TypeOK
<1>6. CASE NextTier(p, s)
  <2>1. {f, g} \subseteq Survivors(p, s) /\ Survivors(p, s) \in SUBSET Files
    <3>1. Survivors(p, s) \in SUBSET Files
      BY DEF Survivors, Buckets, Bucket, TypeOK
    <3>2. Bucket(p, s, h) \subseteq Survivors(p, s)
      BY <1>2, <1>4 DEF Survivors
    <3> QED BY <1>3, <3>1, <3>2
  <2>2. ~ Cardinality(Survivors(p, s)) < 2
    <3>1. Cardinality(Survivors(p, s)) \in Nat
      BY <2>1, FilesAssumption, FS_Subset, FS_CardinalityType DEF FilesAssumption
    <3>2. Cardinality(Survivors(p, s)) >= 2
      BY <2>1, TwoOrMore
    <3> QED BY <3>1, <3>2
  <2>3. TierAfter(stage[p][s], s) \in Tiers
    <3>1. stage[p][s] \in {"zero", "one", "two"}
      BY <1>6 DEF NextTier, Tiers
    <3> QED BY <3>1 DEF TierAfter, Tiers
  <2>4. stage'[p][s] = TierAfter(stage[p][s], s)
    BY <1>5, <1>6, <2>2, <2>3 DEF NextTier, Stages, Untroubled
  <2>5. pool'[p][s] = Survivors(p, s)
    BY <1>6, <2>1, Update DEF NextTier, SetPool, TypeOK
  <2>6. held' = held
    BY <1>6 DEF NextTier, Working
  <2> QED BY <2>1, <2>3, <2>4, <2>5, <2>6 DEF InHand, Printed
<1>7. CASE Confirm(p, s)
  <2>1. h \in Hashes
    BY <1>2, <1>7 DEF Confirm, Working
  <2>2. found'[p] = found[p] \union Buckets(p, s)
    BY <1>7 DEF Confirm, Report, TypeOK
  <2> QED BY <1>3, <1>4, <2>1, <2>2 DEF InHand, Met
<1> QED BY <1>6, <1>7

\* A reported group stays reported while the scan is on.
LEMMA FoundStays ==
  ASSUME TypeOK, NEW p \in Scanners, NEW s \in Sizes, RunGroup(p, s)
  PROVE  found[p] \subseteq found'[p]
<1>1. \A groups : Report(p, groups) => found[p] \subseteq found'[p]
  BY DEF Report, TypeOK
<1>2. (\E f \in Files : HashFile(p, s, f) \/ SaveHash(p, s, f)) => found' = found
  BY DEF HashFile, SaveHash
<1>3. BeginTiers(p, s) \/ NextTier(p, s) => found' = found
  BY DEF BeginTiers, NextTier
<1> QED BY <1>1, <1>2, <1>3 DEF RunGroup, PickUp, HashAliases, Confirm

\* Two such files of the class a worker is at.
LEMMA OwnTogether ==
  ASSUME TypeOK, Listings, Pools, TrueHashes, Answered, NEW p \in Scanners, NEW s \in Sizes, RunGroup(p, s),
         Untroubled(p), ~ failed'[p],
         NEW f \in Files \ Blocked, NEW g \in Files \ Blocked, Compared(p, f, g), listing[p][f].size = s,
         InHand(p, f, g, s)
  PROVE  InHand(p, f, g, s)'
<1>1. held' = held
  BY WorkFrame
<1>2. CASE Met(p, f, g)
  BY <1>2, FoundStays DEF InHand, Met
<1>3. CASE PickUp(p, s)
  BY <1>3, PickUpTogether
<1>4. CASE NextTier(p, s) \/ Confirm(p, s)
  <2>1. stage[p][s] \in Tiers
    BY <1>4 DEF NextTier, Confirm, Working, Tiers
  <2>2. CASE {f, g} \subseteq pool[p][s] /\ Printed(p, f, g)
    BY <1>4, <2>2, TierTogether DEF Compared
  <2> QED BY <1>2, <2>1, <2>2 DEF InHand, Tiers
<1>5. ASSUME NEW e \in Files, HashFile(p, s, e) \/ SaveHash(p, s, e) PROVE InHand(p, f, g, s)'
  BY <1>1, <1>5 DEF HashFile, SaveHash, InHand, Met, Printed
<1>6. CASE HashAliases(p, s)
  <2>1. stage[p][s] = "links" /\ pool' = pool /\ UNCHANGED stage
    BY <1>6 DEF HashAliases, Working, Untroubled
  <2>2. PICK S \in links[p][s] : /\ links' = [links EXCEPT ![p][s] = @ \ {S}]
                                 /\ Report(p, {S})
    BY <1>6 DEF HashAliases, Untroubled, TypeOK
  <2>3. links'[p][s] = links[p][s] \ {S}
    <3> DEFINE rest == links[p][s] \ {S}
    <3>1. rest \in SUBSET SUBSET Files /\ links' = [links EXCEPT ![p][s] = rest]
      BY <2>2 DEF TypeOK
    <3> HIDE DEF rest
    <3>2. links'[p][s] = rest
      BY <3>1, Update DEF TypeOK
    <3> QED BY <3>2 DEF rest
  <2>4. S \in found'[p]
    BY <2>2 DEF Report, TypeOK
  <2>5. CASE \E A \in links[p][s] : {f, g} \subseteq A
    BY <2>1, <2>3, <2>4, <2>5 DEF InHand, Met
  <2>6. CASE {f, g} \subseteq pool[p][s] /\ Printed(p, f, g)
    BY <1>1, <2>1, <2>6 DEF InHand, Printed
  <2> QED BY <1>2, <2>1, <2>5, <2>6 DEF InHand
<1>7. CASE BeginTiers(p, s)
  <2>1. stage[p][s] = "links" /\ links[p][s] = {} /\ pool' = pool
    BY <1>7 DEF BeginTiers, Working
  <2>2. CASE {f, g} \subseteq pool[p][s] /\ Printed(p, f, g)
    <3>1. pool[p][s] \in SUBSET Files /\ Cardinality(pool[p][s]) >= 2
      <4>1. pool[p][s] \in SUBSET Files /\ f \in pool[p][s] /\ g \in pool[p][s] /\ f # g
        BY <2>2 DEF TypeOK, Compared
      <4> QED BY <4>1, TwoOrMore
    <3>2. Cardinality(pool[p][s]) \in Nat
      BY <3>1, FilesAssumption, FS_Subset, FS_CardinalityType DEF FilesAssumption
    <3>3. \A at \in Stages : SetStage(p, s, at) => stage'[p][s] = at
      BY Update DEF SetStage, TypeOK
    <3>4. stage'[p][s] \in Tiers
      BY <1>7, <3>1, <3>2, <3>3 DEF BeginTiers, Untroubled, Stages, Tiers
    <3> QED BY <1>1, <2>1, <2>2, <3>4 DEF InHand, Printed
  <2> QED BY <1>2, <2>1, <2>2 DEF InHand
<1> QED BY <1>3, <1>4, <1>5, <1>6, <1>7 DEF RunGroup

\* What the pipeline compares of a scan depends on its listing and on what the files held.
LEMMA SamePair ==
  ASSUME NEW p \in Scanners, NEW f, NEW g, listing'[p] = listing[p], held'[p] = held[p]
  PROVE  (Compared(p, f, g)' <=> Compared(p, f, g)) /\ (Printed(p, f, g)' <=> Printed(p, f, g))
BY DEF Compared, Printed, Empty, Linked, Aliased, SameContent

\* Every step keeps such files together.
LEMMA TogetherStep ==
  ASSUME TypeOK, Listings, Pools, TrueHashes, Ended, Answered, Together, [Next]_vars
  PROVE  Together'
<1> SUFFICES ASSUME NEW q \in Scanners, (Scanning(q) \/ phase[q] = "over")', Untroubled(q)',
                    NEW f \in Files \ Blocked, NEW g \in Files \ Blocked, Compared(q, f, g)'
             PROVE  InHand(q, f, g, listing[q][f].size)'
  BY DEF Together
<1> DEFINE r == listing[q][f].size
<1>1. r \in Sizes
  BY DEF TypeOK
<1>2. ASSUME UNCHANGED <<listing[q], held[q], found[q], stage[q], pool[q], links[q]>>,
             Scanning(q) \/ phase[q] = "over", cancelled[q] => cancelled'[q], failed[q] => failed'[q]
      PROVE  InHand(q, f, g, listing[q][f].size)'
  <2>1. Untroubled(q) /\ Compared(q, f, g)
    BY <1>2, SamePair DEF Untroubled
  <2>2. InHand(q, f, g, r)
    BY <1>2, <2>1 DEF Together
  <2> QED BY <1>2, <2>2, SamePair DEF InHand, Met
<1>3. CASE Aside
  BY <1>2, <1>3 DEF Aside, scanVars
<1>4. ASSUME NEW p \in Scanners, NEW s \in Sizes, RunGroup(p, s)
      PROVE  InHand(q, f, g, listing[q][f].size)'
  <2>1. UNCHANGED <<listing, held, phase, cancelled>> /\ Scanning(p) /\ \A o \in Scanners : Scanning(o)' <=> Scanning(o)
    BY <1>4, Local, WorkFrame
  <2>2. /\ ButClass(stage, stage', p, s) /\ ButClass(pool, pool', p, s) /\ ButClass(links, links', p, s)
        /\ ButScan(found, found', p) /\ ButScan(failed, failed', p)
    BY <1>4, Local
  <2>3. CASE q # p
    BY <1>2, <2>1, <2>2, <2>3 DEF ButClass, ButScan
  <2>4. CASE q = p
    <3>1. ~ failed'[p] /\ ~ failed[p]
      BY <1>4, <2>4, TroubleStays DEF Untroubled
    <3>2. Untroubled(p) /\ Compared(p, f, g)
      BY <2>1, <2>4, <3>1, SamePair DEF Untroubled
    <3>3. InHand(p, f, g, r)
      BY <2>1, <2>4, <3>2 DEF Together
    <3>4. CASE r = s
      BY <1>4, <2>1, <2>4, <3>1, <3>2, <3>3, <3>4, OwnTogether
    <3>5. CASE r # s
      <4>1. stage'[p][r] = stage[p][r] /\ pool'[p][r] = pool[p][r] /\ links'[p][r] = links[p][r]
        BY <1>1, <2>2, <3>5 DEF ButClass
      <4>2. found[p] \subseteq found'[p]
        BY <1>4, FoundStays
      <4> QED BY <2>1, <2>4, <3>3, <4>1, <4>2, SamePair DEF InHand, Met
    <3> QED BY <3>4, <3>5
  <2> QED BY <2>3, <2>4
<1>5. ASSUME NEW e \in Files, EditFile(e) PROVE InHand(q, f, g, listing[q][f].size)'
  <2>1. UNCHANGED <<phase, scanVars, cancelled, failed>> /\ (Scanning(q)' <=> Scanning(q))
    BY <1>5, EditFrame DEF Scanning
  <2>2. ASSUME NEW a \in Files PROVE held'[q][a] = held[q][a]
    <3>1. CASE Scanning(q)
      <4>1. held'[q][a] = held[q][a] \union {ContentOf(a)'} /\ ContentOf(a) \in held[q][a]
        BY <1>5, <3>1, EditFrame DEF Listings
      <4>2. \E c \in Contents : held'[q][a] = {c}
        BY DEF Untroubled
      <4> QED BY <4>1, <4>2
    <3>2. CASE ~ Scanning(q)
      BY <1>5, <3>2, EditFrame
    <3> QED BY <3>1, <3>2
  <2>3. held'[q] = held[q]
    <3>1. held[q] \in [Files -> SUBSET Contents] /\ held'[q] \in [Files -> SUBSET Contents]
      BY <1>5, EditType DEF TypeOK
    <3> QED BY <2>2, <3>1
  <2> QED BY <1>2, <2>1, <2>3 DEF scanVars
<1>6. ASSUME NEW p \in Scanners, ListFiles(p) PROVE InHand(q, f, g, listing[q][f].size)'
  <2>1. CASE q # p
    BY <1>2, <1>6, <2>1, ListFrame
  <2>2. CASE q = p
    <3> DEFINE s == SizeOf[ContentOf(f)]
    <3>1. held'[p][f] = {ContentOf(f)} /\ held'[p][g] = {ContentOf(g)} /\ f # g
      BY <1>6, <2>2, ListFrame DEF Compared
    <3>2. ContentOf(f) = ContentOf(g) /\ s \in Sizes
      BY <2>2, <3>1, EntryType DEF Compared, SameContent, Sizes
    <3>3. f \in SizeClass(s) /\ g \in SizeClass(s) /\ SizeClass(s) \in SUBSET Files
      BY <3>2 DEF SizeClass, Entry
    <3>4. Cardinality(SizeClass(s)) >= 2
      BY <3>1, <3>3, TwoOrMore
    <3>5. stage'[p][s] = "queued"
      BY <1>6, <3>2, <3>4 DEF ListFiles, TypeOK
    <3>6. listing'[p][f].size = s
      BY <1>6, ListFrame DEF ContentOf
    <3> QED BY <2>2, <3>5, <3>6 DEF InHand
  <2> QED BY <2>1, <2>2
<1> QED BY <1>3, <1>4, <1>5, <1>6, Kinds

\* Initially no scan is on or over.
LEMMA InitComplete == ASSUME Init PROVE Complete
<1>1. \A p \in Scanners : ~ Scanning(p) /\ phase[p] # "over"
  BY DEF Init, Scanning
<1>2. Counted
  BY FS_EmptySet DEF Init, Counted
<1> QED BY <1>1, <1>2 DEF Complete, Ended, Answered, Together

\* Every step keeps what a scan needs in order to miss nothing.
LEMMA CompleteStep == ASSUME IInv, Complete, [Next]_vars PROVE Complete'
BY CountedStep, EndedStep, AnsweredStep, TogetherStep DEF IInv, Complete

\* A scan that is over and was not disturbed has met all that it compares.
LEMMA CompleteMisses == ASSUME TypeOK, Complete PROVE NothingMissed
<1> SUFFICES ASSUME NEW p \in Scanners, Undisturbed(p), NEW f \in Files \ Blocked, NEW g \in Files \ Blocked,
                    f # g, SameContent(p, f, g),
                    \/ \E c \in held[p][f] : c \in held[p][g] /\ SizeOf[c] = 0
                    \/ Linked(p, f, g)
                    \/ ~ Aliased(p, f) /\ ~ Aliased(p, g) /\ Printed(p, f, g)
             PROVE  \E G \in found[p] : {f, g} \subseteq G
  BY DEF NothingMissed, Linked, Printed
<1>1. Untroubled(p)
  <2>1. ASSUME NEW e \in Files PROVE \E c \in Contents : held[p][e] = {c}
    <3>1. IsFiniteSet(held[p][e]) /\ Cardinality(held[p][e]) = 1
      BY DEF Complete, Counted, Undisturbed
    <3>2. PICK c : held[p][e] = {c}
      BY <3>1, FS_Singleton
    <3>3. c \in Contents
      BY <3>2 DEF TypeOK
    <3> QED BY <3>2, <3>3
  <2> QED BY <2>1 DEF Untroubled, Undisturbed
<1>2. Compared(p, f, g)
  BY DEF Compared, Empty
<1>3. InHand(p, f, g, listing[p][f].size)
  BY <1>1, <1>2 DEF Complete, Together, Undisturbed
<1>4. stage[p][listing[p][f].size] = "done"
  BY DEF Complete, Ended, Undisturbed, TypeOK
<1> QED BY <1>3, <1>4 DEF InHand, Met, Tiers

-----------------------------------------------------------------------------
(* The theorems. *)

\* The inductive invariant holds initially.
LEMMA InitInv == ASSUME Trusted, Init PROVE IInv
<1>1. TypeOK
  BY InitType
<1>2. \A p \in Scanners : ~ Scanning(p) /\ found[p] = {} /\ mirror[p] = None
  BY DEF Init, CacheInit, Scanning
<1>3. Listings /\ Pools /\ TrueHashes /\ ConfirmedIdentical
  BY <1>2 DEF Listings, Pools, TrueHashes, ConfirmedIdentical
<1>4. Owners
  <2>1. \A f \in Files : ~ Fresh(inode[f])
    BY InputsAssumption DEF InputsAssumption, Init, Fresh, Range
  <2>2. \A p \in Scanners, f \in Files : listing[p][f].inode = inode[f]
    BY DEF Init, Entry
  <2> QED BY <2>1, <2>2 DEF Owners
<1>5. Sole
  BY <1>2 DEF Sole
<1>6. TrueRows
  <2>1. \A k \in Inodes : rows[k] = None
    BY InputsAssumption DEF InputsAssumption, Init, CacheInit
  <2> QED BY <1>2, <2>1 DEF TrueRows, TrueTable
<1> QED BY <1>1, <1>3, <1>4, <1>5, <1>6 DEF IInv, Shared, Trusted

\* Every step keeps it.
LEMMA InvStep == ASSUME IInv, [Next]_vars PROVE IInv'
<1> USE DEF IInv
<1>1. TypeOK' /\ Listings' /\ Pools' /\ TrueHashes' /\ ConfirmedIdentical'
  BY TypeStep, ListingsStep, PoolsStep, TrueHashesStep, ConfirmedStep
<1>2. Caching # {} => Owners' /\ Sole' /\ TrueRows'
  BY OwnersStep, SoleStep, TrueRowsStep DEF Shared, RowsStayTrue
<1>3. Shared'
  BY <1>2 DEF Shared, RowsStayTrue
<1> QED BY <1>1, <1>3

\* A scan that trusts no stale row keeps the inductive invariant.
THEOREM Invariance == ASSUME Trusted PROVE Spec => []IInv
BY InitInv, InvStep, PTL DEF Spec

\* With any number of files, scans, edits and kills, every reported group is of files
\* that held one content, if no cached row can be stale (hash.rs run_group, cache.rs).
THEOREM Identical == ASSUME Trusted PROVE Spec => []ConfirmedIdentical
<1>1. IInv => ConfirmedIdentical
  BY DEF IInv
<1> QED BY <1>1, Invariance, PTL

\* A scan that no stale row, no change, no failed read and no cancel disturbs misses
\* nothing that the pipeline compares: aliases, empty files, and files of one content
\* that tier zero treats alike (grouping.rs, hash.rs run_group).
THEOREM MissesNothing == ASSUME Trusted PROVE Spec => []NothingMissed
<1>1. ASSUME Init PROVE Complete
  BY <1>1, InitComplete
<1>2. IInv /\ Complete /\ [Next]_vars => Complete'
  BY CompleteStep
<1>3. IInv /\ Complete => NothingMissed
  BY CompleteMisses DEF IInv
<1> QED BY <1>1, <1>2, <1>3, Invariance, PTL DEF Spec

\* Initially no scan is on, and nothing is found.
LEMMA FinderInit == ASSUME Init, NEW p \in Scanners PROVE Finder(p)!Init
<1>1. TypeOK /\ ~ Scanning(p)
  BY InitType DEF Init, Scanning
<1>2. held[p] \in [Files -> SUBSET Contents] /\ found[p] = {} /\ phase[p] = "idle"
  BY <1>1 DEF Init, TypeOK
<1> QED BY <1>1, <1>2 DEF Finder!Init

\* The finder counts as the scan does.
LEMMA FinderCounts == ASSUME NEW p, NEW S PROVE Finder(p)!Cardinality(S) = Cardinality(S)
BY Zenon DEF Finder!Cardinality, Cardinality

\* What each step of the scans is to the finder.
LEMMA FinderStep ==
  ASSUME IInv, [Next]_vars, NEW p \in Scanners
  PROVE  Finder(p)!Next \/ UNCHANGED Finder(p)!fvars
<1> DEFINE search == IF Scanning(p) THEN "on" ELSE phase[p]
<1>0. TypeOK /\ TypeOK'
  BY InvStep DEF IInv
<1>1. held[p] \in [Files -> SUBSET Contents] /\ held'[p] \in [Files -> SUBSET Contents]
  BY <1>0 DEF TypeOK
<1>2. phase[p] \in {"idle", "listed", "hashing", "over"} /\ phase'[p] \in {"idle", "listed", "hashing", "over"}
  BY <1>0 DEF TypeOK
<1>3. CASE UNCHANGED <<held[p], found[p]>> /\ (Scanning(p)' <=> Scanning(p)) /\ (~ Scanning(p) => UNCHANGED phase[p])
  BY <1>3 DEF Finder!fvars
<1>4. CASE UNCHANGED <<held[p], found[p]>> /\ Scanning(p) /\ ~ Scanning(p)'
  <2>1. search = "on" /\ search' \in {"over", "idle"}
    BY <1>2, <1>4 DEF Scanning
  <2> QED BY <1>4, <2>1 DEF Finder!Next, Finder!Conclude
<1>5. ASSUME NEW q \in Scanners, BeginHashing(q) \/ FinishScan(q) \/ Cancel(q) \/ Kill(q)
      PROVE  Finder(p)!Next \/ UNCHANGED Finder(p)!fvars
  <2>1. UNCHANGED <<held[p], found[p]>>
    BY <1>5 DEF BeginHashing, FinishScan, Cancel, Kill, scanVars, histVars
  <2>2. q # p => UNCHANGED phase[p]
    BY <1>0, <1>5 DEF BeginHashing, FinishScan, Cancel, Kill, TypeOK
  <2>3. q = p => Scanning(p)
    BY <1>5 DEF BeginHashing, FinishScan, Cancel, Kill, Scanning
  <2> QED BY <1>3, <1>4, <2>1, <2>2, <2>3 DEF Scanning
<1>6. CASE ClearCache \/ UNCHANGED vars
  BY <1>3, <1>6 DEF ClearCache, vars, scanVars, histVars, Scanning
<1>7. ASSUME NEW e \in Files, EditFile(e) PROVE Finder(p)!Next \/ UNCHANGED Finder(p)!fvars
  <2>1. UNCHANGED <<phase, found>> /\ \A f \in Files : held[p][f] \subseteq held'[p][f]
    BY <1>0, <1>7, EditFrame DEF scanVars
  <2> QED BY <1>1, <2>1 DEF Finder!Next, Finder!Change, Scanning
<1>8. ASSUME NEW q \in Scanners, ListFiles(q) PROVE Finder(p)!Next \/ UNCHANGED Finder(p)!fvars
  <2>1. CASE q = p
    <3>1. search # "on" /\ search' = "on" /\ found'[p] = {} /\ \A f \in Files : held'[p][f] = {ContentOf(f)}
      BY <1>0, <1>2, <1>8, <2>1, ListFrame DEF Scanning
    <3>2. ASSUME NEW f \in Files PROVE Cardinality(held'[p][f]) <= 1
      <4>1. Cardinality({ContentOf(f)}) = 1
        BY FS_Singleton
      <4>2. held'[p][f] = {ContentOf(f)}
        BY <3>1
      <4>3. Cardinality(held'[p][f]) = 1
        BY <4>1, <4>2, Zenon
      <4> QED BY <4>3
    <3> QED BY <1>1, <3>1, <3>2, FinderCounts DEF Finder!Next, Finder!Begin
  <2>2. CASE q # p
    <3>1. UNCHANGED <<held[p], found[p], phase[p]>>
      BY <1>0, <1>8, <2>2, ListFrame, SMTT(60) DEF ListFiles, TypeOK
    <3> QED BY <1>3, <3>1 DEF Scanning
  <2> QED BY <2>1, <2>2
<1>9. ASSUME NEW q \in Scanners, NEW s \in Sizes, RunGroup(q, s) PROVE Finder(p)!Next \/ UNCHANGED Finder(p)!fvars
  <2>1. UNCHANGED <<held, phase>> /\ Scanning(q) /\ ButScan(found, found', q)
    BY <1>0, <1>9, Local, WorkFrame
  <2>2. CASE q = p
    <3>1. Answers(p, s)
      BY <1>9, <2>2, WorkAnswers DEF IInv
    <3>2. found'[p] \subseteq SUBSET Files
      BY <1>0 DEF TypeOK
    <3>3. \A G \in found'[p] \ found[p] : Finder(p)!IsGroup(G)
      BY <3>1, FinderCounts DEF Answers, Unreported, Finder!IsGroup
    <3> QED BY <2>1, <2>2, <3>1, <3>2, <3>3 DEF Finder!Next, Finder!Answer, Answers, Scanning
  <2>3. CASE q # p
    BY <1>3, <2>1, <2>3 DEF ButScan, Scanning
  <2> QED BY <2>2, <2>3
<1> QED BY <1>5, <1>6, <1>7, <1>8, <1>9 DEF Next, ScanStep

\* Every scan that trusts no stale row implements the DuplicateFinder: the groups it
\* reports are disjoint, and the members of each held one content since they were
\* listed, however many scans share the cache (hash.rs run_group, cache.rs).
THEOREM Found == ASSUME Trusted PROVE Spec => FindsDuplicates
<1>1. Init => \A p \in Scanners : Finder(p)!Init
  BY FinderInit
<1>2. IInv /\ [Next]_vars => [\A p \in Scanners : Finder(p)!Next \/ UNCHANGED Finder(p)!fvars]_vars
  BY FinderStep
<1> QED BY <1>1, <1>2, Invariance, PTL DEF Spec, FindsDuplicates
=============================================================================
