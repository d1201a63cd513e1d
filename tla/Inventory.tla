------------------------------ MODULE Inventory ------------------------------
(***************************************************************************)
(* The inventory: the files of the roots, from the file table when that was *)
(* asked for and can be read, and by walking the directories otherwise      *)
(* (src/src/inventory/mod.rs, src/src/inventory/walk.rs).  The walk goes    *)
(* layer by layer; the directories of a layer are read in parallel.         *)
(***************************************************************************)
EXTENDS WarmInventory

CONSTANTS Failed   \* the outcome of a walk with a root that is not there

VARIABLES lanes,     \* scanner -> the walk of each root
          cancelled  \* scanner -> the cancel flag

vars == <<warmVars, lanes, cancelled>>

Roots == DOMAIN setup.roots

NewLane == [state |-> "waiting", layer |-> {}, announced |-> {}, next |-> {},
            visited |-> {}, entries |-> {}, cut |-> FALSE]

NewLanes == [i \in Roots |-> NewLane]

Init ==
  /\ WarmInit
  /\ lanes = [s \in Scanners |-> [i \in DOMAIN setup.roots |-> NewLane]]
  /\ cancelled = [s \in Scanners |-> FALSE]

SetLane(s, i, lane) == lanes' = [lanes EXCEPT ![s][i] = lane]

OtherThanLanes == <<setup, volume, quiet, snapshot, at, job, list, runs, kills, cancelled>>

(***************************************************************************)
(* What enumerate_one_folder takes from a directory.  A link is left out    *)
(* unless links are followed, and then is what it leads to; superdeduper's  *)
(* own files and directories are left out, and so are the files the user     *)
(* excludes: a file is judged by the path it is met under, a directory is    *)
(* always gone into.                                                        *)
(***************************************************************************)
Taken(d) ==
  {x \in ChildrenOf(d) :
     /\ tree[x].kind = "link" => setup.follow /\ Target(x) \in DOMAIN tree \cup {Top}
     /\ tree[x].name \notin setup.ownNames}

SubDirs(path, d) == {Append(path, tree[x].name) : x \in {y \in Taken(d) : IsDir(Target(y))}}

Policy ==
  LET by == setup.exclusions
  IN  IF by.from = "flags" THEN PolicyOfFlags(by.on, by.disable, by.enable)
      ELSE PolicyOfSettings(by.config)

dropped_by_exclusions(path) == Excluded(Policy, setup.extension, path)

Passes(path, x) ==
  SizeFits(tree[x].size) /\ ~dropped_by_exclusions(path) /\ path_passes_globs(path)

FileEntry(path, x) == [path |-> path, ref |-> x, size |-> tree[x].size]

FileEntries(path, d) ==
  {FileEntry(Append(path, tree[x].name), Target(x)) :
     x \in {y \in Taken(d) : IsFile(Target(y)) /\ Passes(Append(path, tree[y].name), Target(y))}}

\* walk_one_root_buffered, up to the first layer: a root that is not there fails the walk,
\* a file goes through the filters at once.
Opened(root, lane) ==
  LET x == Resolve(root)
  IN  IF x = Missing THEN [lane EXCEPT !.state = "failed"]
      ELSE IF IsFile(x)
           THEN [lane EXCEPT !.state = "done",
                   !.entries = IF Passes(root, x) THEN {FileEntry(root, x)} ELSE {}]
           ELSE [lane EXCEPT !.state = "walking", !.layer = {root}]

\* With parallel_roots every root is walked on its own; otherwise one after the other,
\* each with the directories the ones before have visited, and not after a failure.
SideBySide == setup.parallel /\ Cardinality(Roots) > 1

MayOpen(s, i) ==
  /\ at[s] = "walk" /\ lanes[s][i].state = "waiting"
  /\ SideBySide \/ \A j \in Roots : j < i => lanes[s][j].state = "done"

\* Mutant: every root with a visited set of its own.
VisitedBeforeNone(s, i) == {}

VisitedBefore(s, i) == UNION {lanes[s][j].visited : j \in {k \in Roots : k < i}}

OpenRoot(s, i) ==
  /\ MayOpen(s, i)
  /\ SetLane(s, i,
       LET lane == [NewLane EXCEPT !.visited = IF SideBySide THEN {} ELSE VisitedBefore(s, i)]
       IN  IF cancelled[s] THEN [lane EXCEPT !.state = "done"]
           ELSE Opened(setup.roots[i], lane))
  /\ UNCHANGED OtherThanLanes

(***************************************************************************)
(* walk_bfs.  A and B: the layer is gone through by the driver alone.  When *)
(* links are followed, of the paths to one directory one is kept, and none  *)
(* when it was visited; a path that leads nowhere any more has no identity  *)
(* and is kept.                                                             *)
(***************************************************************************)
Pruned(lane, kept) ==
  LET known(p) == Resolve(p) # Missing
      fresh == {p \in lane.layer : known(p) /\ Resolve(p) \notin lane.visited}
  IN  IF ~setup.follow THEN kept = lane.layer
      ELSE /\ {p \in lane.layer : ~known(p)} \subseteq kept
           /\ {p \in kept : known(p)} \subseteq fresh
           /\ \A p \in fresh : \E q \in kept : Resolve(q) = Resolve(p)
           /\ \A p, q \in kept : known(p) /\ Resolve(p) = Resolve(q) => p = q

Announce(s, i) ==
  LET lane == lanes[s][i]
  IN  /\ at[s] = "walk" /\ lane.state = "walking" /\ lane.layer # {}
      /\ IF cancelled[s] THEN SetLane(s, i, [lane EXCEPT !.state = "done"])
         ELSE \E kept \in SUBSET lane.layer :
                /\ Pruned(lane, kept)
                /\ SetLane(s, i,
                     [lane EXCEPT !.layer = {}, !.announced = kept,
                        !.visited = IF setup.follow THEN @ \cup ({Resolve(p) : p \in kept} \ {Missing})
                                    ELSE @,
                        !.state = IF kept = {} THEN "done" ELSE @])
      /\ UNCHANGED OtherThanLanes

\* C: a directory of the layer is read.  One that is gone, or that may not be read, gives
\* nothing; a cancel cuts the reading short.
Harvest(s, i) ==
  LET lane == lanes[s][i]
  IN  /\ at[s] = "walk" /\ lane.state = "walking"
      /\ \E p \in lane.announced :
           LET d == Resolve(p)
               open == IsDir(d) /\ d \notin setup.denied
               found == IF open THEN FileEntries(p, d) ELSE {}
               below == IF open THEN SubDirs(p, d) ELSE {}
           IN  \/ SetLane(s, i, [lane EXCEPT !.announced = @ \ {p}, !.entries = @ \cup found,
                                             !.next = @ \cup below])
               \/ /\ cancelled[s]
                  /\ \E some \in SUBSET found :
                       SetLane(s, i, [lane EXCEPT !.announced = @ \ {p}, !.cut = TRUE,
                                                  !.entries = @ \cup some])
      /\ UNCHANGED OtherThanLanes

\* D: the layer's directories are the next layer, unless the reading was cut short.
NextLayer(s, i) ==
  LET lane == lanes[s][i]
  IN  /\ at[s] = "walk" /\ lane.state = "walking"
      /\ lane.layer = {} /\ lane.announced = {}
      /\ SetLane(s, i, [lane EXCEPT !.layer = lane.next, !.next = {},
                          !.state = IF lane.cut \/ lane.next = {} THEN "done" ELSE @])
      /\ UNCHANGED OtherThanLanes

\* The roots' entries in the order of the roots, each path once.
dedup_by_path(s) ==
  UNION {{e \in lanes[s][i].entries :
            \A j \in Roots : j < i => \A g \in lanes[s][j].entries : g.path # e.path} :
         i \in Roots}

\* Mutant: the roots after one that failed are waited for.
SettledAll(s) == \A i \in Roots : lanes[s][i].state \in {"done", "failed"}

Settled(s) ==
  IF SideBySide THEN \A i \in Roots : lanes[s][i].state \in {"done", "failed"}
  ELSE \/ \A i \in Roots : lanes[s][i].state = "done"
       \/ \E i \in Roots : lanes[s][i].state = "failed"

FinishWalk(s) ==
  /\ at[s] = "walk" /\ Settled(s)
  /\ End(s, IF \E i \in Roots : lanes[s][i].state = "failed" THEN Failed
            ELSE Listed(dedup_by_path(s), "walk", ~cancelled[s]))
  /\ lanes' = [lanes EXCEPT ![s] = NewLanes]
  /\ cancelled' = [cancelled EXCEPT ![s] = FALSE]
  /\ UNCHANGED <<setup, volume, quiet, snapshot, runs, kills>>

Cancel(s) ==
  /\ setup.cancellable /\ at[s] = "walk" /\ ~cancelled[s]
  /\ cancelled' = [cancelled EXCEPT ![s] = TRUE]
  /\ UNCHANGED <<warmVars, lanes>>

WalkStep(s) ==
  \/ \E i \in Roots : OpenRoot(s, i) \/ Announce(s, i) \/ Harvest(s, i) \/ NextLayer(s, i)
  \/ FinishWalk(s)

TheWalk == <<lanes, cancelled>>

Next ==
  \/ Change /\ UNCHANGED <<setup, snapshot, at, job, list, runs, kills, TheWalk>>
  \/ \E s \in Scanners :
       \/ Begin(s) /\ UNCHANGED TheWalk
       \/ TableStep(s) /\ UNCHANGED TheWalk
       \/ WalkStep(s)
       \/ Cancel(s)
       \/ Kill(s) /\ lanes' = [lanes EXCEPT ![s] = NewLanes]
                  /\ cancelled' = [cancelled EXCEPT ![s] = FALSE]

\* A walk that has begun is run on by its threads.  Nobody has to begin an inventory,
\* cancel it, or change the volume.
Spec == Init /\ [][Next]_vars /\ \A s \in Scanners : WF_vars(WalkStep(s))

(***************************************************************************)
(* Properties.                                                             *)
(***************************************************************************)

\* What the variables hold; the snapshot is of this journal or an earlier one.
TypeOK ==
  /\ setup \in Setups
  /\ \A x \in DOMAIN tree : x \in Refs /\ tree[x] \in Entry
  /\ \A n \in DOMAIN journal.records : journal.records[n] \in Record
  /\ done \subseteq setup.changes
  /\ at \in [Scanners -> Steps]
  /\ meta # None => meta.id \in 1..journal.id /\ meta.cursor \in Nat \ {0}
  /\ \A x \in DOMAIN rows : x \in Refs /\ rows[x] \in SnapshotRow
  /\ cancelled \in [Scanners -> BOOLEAN]

\* The ways from the roots down, through links when they are followed, that come to no
\* directory twice; and the places, a path and the file there, that a walk may meet.
Way(path, x, met) == [path |-> path, dir |-> x, met |-> met \cup {x}]

Onward(w) ==
  {Way(Append(w.path, tree[x].name), Target(x), w.met) :
     x \in {y \in Taken(w.dir) : IsDir(Target(y)) /\ Target(y) \notin w.met}}

Ways ==
  LET ways[k \in 0..Cardinality(Refs)] ==
        IF k = 0 THEN {w \in {Way(setup.roots[i], Resolve(setup.roots[i]), {}) : i \in Roots} :
                         IsDir(w.dir)}
        ELSE ways[k - 1] \cup UNION {Onward(w) : w \in {v \in ways[k - 1] : v.dir \notin setup.denied}}
  IN  ways[Cardinality(Refs)]

Places ==
  {p \in {[path |-> setup.roots[i], ref |-> Resolve(setup.roots[i])] : i \in Roots}
        \cup UNION {{[path |-> Append(w.path, tree[y].name), ref |-> Target(y)] :
                       y \in Taken(w.dir)} : w \in {v \in Ways : v.dir \notin setup.denied}} :
     IsFile(p.ref)}

\* What an inventory may list, and what it must: the file table's knows of no exclusions
\* and of one path to a file; a walk that follows links comes to a folder by one of its
\* paths, so a file is certain only when all the paths to it are allowed.
Allowed(how, p) ==
  /\ SizeFits(tree[p.ref].size) /\ path_passes_globs(p.path)
  /\ how = "walk" => ~dropped_by_exclusions(p.path)

MayList(how) == {p.ref : p \in {q \in Places : Allowed(how, q)}}

MustList(how) == {p.ref : p \in Places} \ {p.ref : p \in {q \in Places : ~Allowed(how, q)}}

Ended(s) == list[s] \notin {None, Failed}

LinkName(name) == \E x \in DOMAIN tree : tree[x].kind = "link" /\ tree[x].name = name

\* A path that may be the second one of a file listed already: one through a link; or,
\* when links are followed and the roots walked one after the other, one that ends in a
\* link, or a root that is the file itself (no directory is come to twice).
MayRepeat(path) ==
  IF setup.follow /\ ~SideBySide THEN LinkName(path[Len(path)]) \/ path \in Range(setup.roots)
  ELSE \E n \in DOMAIN path : LinkName(path[n])

\* The list has every file of the roots that the user's rules leave in: each with its size
\* and under a path that leads to it and that no rule shuts out, no path twice, and no
\* file twice but by a path that may repeat.  A walk that was cancelled has no other file.
Exact(l) ==
  LET listed == {e.ref : e \in l.entries}
  IN  /\ \A e \in l.entries : /\ Resolve(e.path) = e.ref /\ e.size = tree[e.ref].size
                              /\ Allowed(l.how, e)
      /\ listed \subseteq MayList(l.how)
      /\ l.whole => MustList(l.how) \subseteq listed
      /\ \A e, g \in l.entries : e # g => e.path # g.path
      /\ \A e, g \in l.entries : e # g /\ e.ref = g.ref => MayRepeat(e.path) \/ MayRepeat(g.path)

\* An inventory of a volume nothing has changed on since it began is exact, whichever way
\* it was taken.  (A warm inventory whose changes did not fit the buffer of one reading
\* lags behind.)
QuietListExact ==
  \A s \in Scanners :
    Ended(s) /\ quiet[s] /\ (list[s].how = "warm" => list[s].whole) => Exact(list[s])

\* Every walk ends, whatever the links lead to and whatever changes meanwhile.
WalkEnds == \A s \in Scanners : at[s] = "walk" ~> at[s] # "walk"
=============================================================================
