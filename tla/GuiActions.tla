----------------------------- MODULE GuiActions -----------------------------
(***************************************************************************)
(* What the window does to the groups of a scan: the action workers of     *)
(* src/gui/app.rs over the file actions of FileActions, the archive and    *)
(* its way back, and the table, the progress modal and the event channel   *)
(* between them (src/gui/state.rs).                                        *)
(*                                                                         *)
(* A click captures an action, the confirmation dialog releases it, and a  *)
(* thread of its own carries it out item by item.  The modal that shows    *)
(* its progress dims the window and takes no input away from it: only the  *)
(* user's patience keeps two actions apart (user.patient).             *)
(***************************************************************************)
EXTENDS FileActions, SequencesExt

CONSTANTS
  NewPathOf,     \* safe_renamed_path: the name the table is told
  ArchivedAs,    \* compose_archive_path: where the archive puts a path
  Users          \* what may happen: one of these records, chosen at the start

ForGroup == {"recycle", "hardlink", "safeRename"}
ForAll   == {"removeAll", "recycleAll", "safeRenameAll", "archiveAll", "archiveCopy"}
ForRoots == {"unsuperdeduper", "archiveRestore"}

\* What performs the items of an action: a file action, or a move of its own.
Deeds == [recycle |-> "recycle", hardlink |-> "hardlink", safeRename |-> "safeRename",
          removeAll |-> "remove", recycleAll |-> "recycle", safeRenameAll |-> "safeRename",
          archiveAll |-> "archive", archiveCopy |-> "copy",
          unsuperdeduper |-> "unsuffix", archiveRestore |-> "restore"]

ScannedIn(t) == {Canon[p] : p \in UNION {Range(t[g]) : g \in DOMAIN t}}

ASSUME GuiAssumption ==
  /\ IsFiniteSet(Paths)
  /\ NewPathOf \in [Paths -> Paths]
  /\ ArchivedAs \in [Paths -> Entries \ Files]
  /\ \A f \in Files : SafeNameOf[f] \in Files => SafeNameOf[SafeNameOf[f]] = SafeNameOf[f]
  /\ \A u \in Users :
       /\ u.table \in Seq(Seq(Paths))
       /\ \A g \in DOMAIN u.table : Len(u.table[g]) >= 2
       /\ ScannedIn(u.table) \subseteq Files
       /\ \E link \in [ScannedIn(u.table) -> Inodes] : IsInjective(link)
       /\ u.content \in [ScannedIn(u.table) -> Contents]
       /\ \A g \in DOMAIN u.table : \A p, q \in Range(u.table[g]) :
            u.content[Canon[p]] = u.content[Canon[q]]
       /\ u.references \subseteq Paths
       /\ u.otherVolume \in BOOLEAN /\ u.copiesFail \in BOOLEAN
       /\ u.offered \subseteq ForGroup \union ForAll \union ForRoots
       /\ u.roots \in Seq(SUBSET Files)
       /\ u.patient \in BOOLEAN /\ u.crash \in BOOLEAN /\ u.sameSecond \in BOOLEAN
       /\ u.actions \in Nat /\ u.promotes \in Nat /\ u.stops \in Nat

VARIABLES
  user,      \* of Users: table (the groups the scan reported: sequences of paths, the
             \* keeper first), content (reported entry -> the content the scan hashed),
             \* references (paths whose spelling starts with a reference root),
             \* roots (the scan roots: the files that may be below each),
             \* otherVolume (the archive folder is on another volume), copiesFail (a
             \* copy may fail half-way: the disk is full), sameSecond (archive runs may
             \* end within one second of the clock), offered (the actions chosen
             \* from), patient (waits for one action to end before touching the table),
             \* the bounds actions, promotes (keepers exchanged) and stops, and crash
             \* (whether the process may be killed, once)
  table,     \* UiState.duplicates
  acted,     \* the rows whose buttons are hidden
  pending,   \* the action the confirmation dialog is about, or None
  cancel,    \* the one flag all workers look at
  modal,     \* action_in_progress: the progress modal is up
  channel,   \* events on their way to the window
  task,      \* worker -> what it is doing
  store,     \* renamed_paths in results-state.json
  manifests, \* the manifest files of the archive: sets of <<original, archived>>
  stopped,   \* history: workers that were running when Stop was clicked
  count,     \* actions, promotions and stops so far
  down       \* the process was killed

window == <<table, acted, pending, modal>>
files  == <<store, manifests>>
bounds == <<user, count>>
vars   == <<fvars, window, cancel, channel, task, files, stopped, bounds, down>>

\* renamed and moved are what the worker remembers for the store and the manifest,
\* roots those it has not been to.
NoTask == [pc |-> "idle", deed |-> "none", todo |-> <<>>, roots |-> <<>>, renamed |-> {},
           moved |-> {}, loaded |-> {}]

Scanned == ScannedIn(user.table)

Running == {w \in Workers : task[w].pc # "idle"}
Quiet   == Running = {} /\ channel = <<>>

Init ==
  /\ user \in Users
  /\ LET link == CHOOSE l \in [Scanned -> Inodes] : IsInjective(l) IN  \* which is which is no matter
       /\ dir = [e \in Entries |-> IF e \in Scanned THEN link[e] ELSE None]
       /\ data = [i \in Inodes |-> IF i \in Range(link)
                                   THEN user.content[CHOOSE f \in Scanned : link[f] = i]
                                   ELSE None]
  /\ trash = {} /\ job = [w \in Workers |-> NoJob]
  /\ table = user.table /\ acted = {} /\ pending = None /\ modal = FALSE
  /\ cancel = FALSE /\ channel = <<>> /\ task = [w \in Workers |-> NoTask]
  /\ store = {} /\ manifests = <<>> /\ stopped = {} /\ down = FALSE
  /\ count = [actions |-> 0, promotes |-> 0, stops |-> 0]

-----------------------------------------------------------------------------
(* The user.                                                               *)

MayTouch == ~down /\ (user.patient => Quiet)

\* A button of a group's row: the keeper and the dupes are captured now, and the
\* row's buttons go.
ClickRow(a, g) ==
  /\ MayTouch /\ a \in user.offered \intersect ForGroup
  /\ g \notin acted
  /\ pending' = [action |-> a, keeper |-> Head(table[g]), dupes |-> Tail(table[g])]
  /\ acted' = acted \union {g}
  /\ UNCHANGED <<fvars, table, modal, cancel, channel, task, files, stopped, bounds, down>>

\* Go, or a menu entry: what it is about is decided once it is confirmed.  Copying
\* and unsuperdeduper ask for nothing: their Confirm is the click itself.
ClickAll(a) ==
  /\ MayTouch /\ a \in user.offered \intersect (ForAll \union {"unsuperdeduper"})
  /\ pending' = [action |-> a, keeper |-> None, dupes |-> <<>>]
  /\ UNCHANGED <<fvars, table, acted, modal, cancel, channel, task, files, stopped, bounds, down>>

\* "Open archive manifest": one is picked and read, and restored once confirmed.
ClickRestore(k) ==
  /\ MayTouch /\ "archiveRestore" \in user.offered
  /\ pending' = [action |-> "archiveRestore", keeper |-> None,
                 dupes |-> SetToSeq({m[1] : m \in manifests[k]})]
  /\ UNCHANGED <<fvars, table, acted, modal, cancel, channel, task, files, stopped, bounds, down>>

Decline ==
  /\ ~down /\ pending # None
  /\ pending' = None
  /\ UNCHANGED <<fvars, table, acted, modal, cancel, channel, task, files, stopped, bounds, down>>

Item(keeper, target) == [keeper |-> keeper, target |-> target]

\* The dupes of every visible group, without the members below a reference root, as
\* spelled; which group comes first is no matter.
VisibleDupes ==
  SetToSeq(UNION {{Item(Head(table[g]), p) : p \in Range(Tail(table[g])) \ user.references} :
                    g \in DOMAIN table})

\* In the order of a directory listing: any.
InSomeOrder(S) ==
  LET paths == SetToSeq(S) IN [i \in DOMAIN paths |-> Item(None, paths[i])]

\* Mutant: every member is taken for a dupe of its neighbour.
TodoNeighbours(p) ==
  LET members == <<p.keeper>> \o p.dupes
      n == Len(members) IN
  CASE p.action \in ForGroup -> [i \in 1..n |-> Item(members[(i % n) + 1], members[i])]
    [] p.action = "archiveRestore" -> [i \in DOMAIN p.dupes |-> Item(p.keeper, p.dupes[i])]
    [] p.action \in ForAll -> VisibleDupes
    [] OTHER -> <<>>

Todo(p) ==
  CASE p.action \in ForGroup \union {"archiveRestore"} ->
         [i \in DOMAIN p.dupes |-> Item(p.keeper, p.dupes[i])]
    [] p.action \in ForAll -> VisibleDupes
    [] OTHER -> <<>>     \* unsuperdeduper finds them root by root

Roots(p) == IF p.action = "unsuperdeduper" THEN user.roots ELSE <<>>

\* The dialog's Confirm: a thread is spawned, and the shared flag taken back.
Confirm(w) ==
  /\ MayTouch /\ pending # None /\ count.actions < user.actions
  /\ task[w].pc = "idle" /\ w = CHOOSE x \in Workers : task[x].pc = "idle"
  /\ task' = [task EXCEPT ![w] = [NoTask EXCEPT !.pc = "start", !.deed = Deeds[pending.action],
                                                !.todo = Todo(pending),
                                                !.roots = Roots(pending)]]
  /\ cancel' = FALSE
  /\ pending' = None
  /\ count' = [count EXCEPT !.actions = @ + 1]
  /\ UNCHANGED <<user, fvars, table, acted, modal, channel, files, stopped, down>>

\* PromoteKeeper: in memory only.
Promote(g, i) ==
  /\ MayTouch /\ count.promotes < user.promotes
  /\ g \notin acted
  /\ table' = [table EXCEPT ![g][1] = table[g][i], ![g][i] = table[g][1]]
  /\ count' = [count EXCEPT !.promotes = @ + 1]
  /\ UNCHANGED <<user, fvars, acted, pending, modal, cancel, channel, task, files, stopped, down>>

Stop ==
  /\ ~down /\ modal /\ count.stops < user.stops
  /\ cancel' = TRUE
  /\ stopped' = stopped \union Running
  /\ count' = [count EXCEPT !.stops = @ + 1]
  /\ UNCHANGED <<user, fvars, window, channel, task, files, down>>

-----------------------------------------------------------------------------
(* The workers.                                                            *)

Send(e) == channel' = Append(channel, e)
Started == [type |-> "started", src |-> None, to |-> None]
Finished == [type |-> "finished", src |-> None, to |-> None]
Gone(p) == [type |-> "removed", src |-> p, to |-> None]
MovedTo(p, q) == [type |-> "renamed", src |-> p, to |-> q]

At(w, pc) == ~down /\ task[w].pc = pc
First(w) == Head(task[w].todo)
To(w, pc) == task' = [task EXCEPT ![w].pc = pc]
NextOf(w) == task' = [task EXCEPT ![w].pc = "next", ![w].todo = Tail(@)]

StartTask(w) ==
  /\ At(w, "start")
  /\ Send(Started)
  /\ To(w, "next")
  /\ UNCHANGED <<fvars, window, cancel, files, stopped, bounds, down>>

\* Mutant: the guard compares spellings.
RefusedAsSpelled(p) == ResolvesToSystemPath(p) \/ p \in user.references

\* guard_system_path and guard_reference: both sides are resolved.
RefusedByPath(p) ==
  \/ ResolvesToSystemPath(p)
  \/ Canon[p] \in {Canon[r] : r \in user.references}

\* unsuperdeduper_root is under way: it renames all it finds and does not look up.
InRoot(w) == task[w].deed = "unsuffix" /\ task[w].todo # <<>>

\* Mutant: the loop of the file actions does not look at the flag.
StopSeenByMoves(w) == cancel /\ task[w].deed \notin Actions /\ ~InRoot(w)

\* Looked at between files, by unsuperdeduper between roots only.
StopSeen(w) == cancel /\ ~InRoot(w)

\* The head of the loop: stop when asked to, or hand the item on.
NextItem(w) ==
  LET t == task[w] IN
  /\ At(w, "next") /\ t.todo # <<>> /\ ~StopSeen(w)
  /\ CASE t.deed \in Actions /\ RefusedByPath(First(w).target) -> NextOf(w) /\ job' = job
       [] t.deed \in Actions /\ ~RefusedByPath(First(w).target) ->
            Begin(w, t.deed, First(w).target, First(w).keeper) /\ To(w, "acting")
       [] t.deed \notin Actions -> To(w, "look") /\ job' = job
  /\ UNCHANGED <<disk, window, cancel, channel, files, stopped, bounds, down>>

\* The next root of unsuperdeduper: the suffixed files that may be in it.
EnterRoot(w) ==
  LET t == task[w] IN
  /\ At(w, "next") /\ t.todo = <<>> /\ t.roots # <<>> /\ ~StopSeen(w)
  /\ task' = [task EXCEPT ![w].roots = Tail(@),
                ![w].todo = InSomeOrder({f \in Head(t.roots) : SafeNameOf[f] # f})]
  /\ UNCHANGED <<fvars, window, cancel, channel, files, stopped, bounds, down>>

EndLoop(w) ==
  /\ At(w, "next")
  /\ StopSeen(w) \/ (task[w].todo = <<>> /\ task[w].roots = <<>>)
  /\ To(w, "record")
  /\ UNCHANGED <<fvars, window, cancel, channel, files, stopped, bounds, down>>

PerformAction(w) ==
  /\ At(w, "acting")
  /\ GuardKeeper(w, FALSE) \/ ActStep(w)
  /\ UNCHANGED <<window, cancel, channel, task, files, stopped, bounds, down>>

\* One file is done: FileActionCompleted tells the table.
Settle(w) ==
  LET t == task[w]
      p == First(w).target
      ok == job[w].phase = "ok" IN
  /\ At(w, "acting") /\ job[w].phase \in {"ok", "failed"}
  /\ job' = [job EXCEPT ![w] = NoJob]
  /\ task' = [task EXCEPT ![w].pc = "next", ![w].todo = Tail(@),
                ![w].renamed = IF ok /\ t.deed = "safeRename" THEN @ \union {p} ELSE @]
  /\ IF ~ok THEN channel' = channel
     ELSE IF t.deed = "safeRename" THEN Send(MovedTo(p, NewPathOf[p])) ELSE Send(Gone(p))
  /\ UNCHANGED <<disk, window, cancel, files, stopped, bounds, down>>

-----------------------------------------------------------------------------
(* Archive, its way back, and the undoing of safe renames: moves that pass   *)
(* none of the guards of the file actions.                                   *)

From(w) == LET p == First(w).target IN
  CASE task[w].deed = "restore"  -> ArchivedAs[p]
    [] task[w].deed = "unsuffix" -> SafeNameOf[p]
    [] OTHER -> Canon[p]

Dest(w) == LET p == First(w).target IN
  IF task[w].deed \in {"archive", "copy"} THEN ArchivedAs[p] ELSE Canon[p]

\* Mutant: the two checks are exchanged.
LookSwapped(w) ==
  LET free == Exists(Dest(w)) /\ ~Exists(From(w)) IN
  /\ At(w, "look")
  /\ CASE task[w].deed = "archive" -> To(w, "move")
       [] task[w].deed = "copy" -> To(w, "copy")
       [] OTHER -> IF free THEN To(w, "move") ELSE NextOf(w)
  /\ UNCHANGED <<fvars, window, cancel, channel, files, stopped, bounds, down>>

\* restore_one and unsuperdeduper_root look before they move; archiving does not.
Look(w) ==
  LET free == Exists(From(w)) /\ ~Exists(Dest(w)) IN
  /\ At(w, "look")
  /\ CASE task[w].deed = "archive" -> To(w, "move")
       [] task[w].deed = "copy" -> To(w, "copy")
       [] OTHER -> IF free THEN To(w, "move") ELSE NextOf(w)
  /\ UNCHANGED <<fvars, window, cancel, channel, files, stopped, bounds, down>>

\* The item went well: the archive remembers it for the manifest.
Moved(w) ==
  LET p == First(w).target IN
  /\ task' = [task EXCEPT ![w].pc = "next", ![w].todo = Tail(@),
                ![w].moved = IF task[w].deed \in {"archive", "copy"}
                             THEN @ \union {<<p, Dest(w)>>} ELSE @]
  /\ IF task[w].deed = "archive" THEN Send(Gone(p)) ELSE channel' = channel

Move(w) ==
  LET across == user.otherVolume /\ task[w].deed # "unsuffix" IN
  /\ At(w, "move")
  /\ IF Exists(From(w)) /\ ~across
     THEN dir' = Renamed(dir, From(w), Dest(w)) /\ Moved(w)
     ELSE /\ IF task[w].deed = "unsuffix" THEN NextOf(w) ELSE To(w, "copy")
          /\ UNCHANGED <<dir, channel>>
  /\ UNCHANGED <<data, trash, job, window, cancel, files, stopped, bounds, down>>

\* fs::copy writes into the file that has the name, or into a new one; which inode
\* that gets is no matter.
CopyInto(e, c) ==
  /\ Exists(e) \/ FreshInodes # {}
  /\ LET i == IF Exists(e) THEN dir[e] ELSE CHOOSE x \in FreshInodes : TRUE IN
     dir' = [dir EXCEPT ![e] = i] /\ data' = [data EXCEPT ![i] = c]

Copy(w) ==
  /\ At(w, "copy") /\ Exists(From(w))
  /\ CopyInto(Dest(w), data[dir[From(w)]])
  /\ IF task[w].deed = "copy" THEN Moved(w) ELSE To(w, "unlink") /\ UNCHANGED channel
  /\ UNCHANGED <<trash, job, window, cancel, files, stopped, bounds, down>>

\* What was written stays when the copy breaks off; a missing source writes nothing.
CopyFails(w) ==
  /\ At(w, "copy")
  /\ \/ ~Exists(From(w)) /\ UNCHANGED <<dir, data>>
     \/ Exists(From(w)) /\ user.copiesFail /\ CopyInto(Dest(w), None)
  /\ NextOf(w)
  /\ UNCHANGED <<trash, job, window, cancel, channel, files, stopped, bounds, down>>

Unlink(w) ==
  /\ At(w, "unlink") /\ Exists(From(w))
  /\ dir' = [dir EXCEPT ![From(w)] = None]
  /\ Moved(w)
  /\ UNCHANGED <<data, trash, job, window, cancel, files, stopped, bounds, down>>

\* Mutant: the archived copy is left where it is.
UnlinkFailsBare(w) ==
  /\ At(w, "unlink")
  /\ NextOf(w)
  /\ UNCHANGED <<fvars, window, cancel, channel, files, stopped, bounds, down>>

\* The source cannot be removed: the archive takes its copy away again, a restore
\* leaves both.
UnlinkFails(w) ==
  /\ At(w, "unlink")
  /\ IF task[w].deed = "archive" THEN To(w, "cleanup") ELSE NextOf(w)
  /\ UNCHANGED <<fvars, window, cancel, channel, files, stopped, bounds, down>>

Cleanup(w) ==
  /\ At(w, "cleanup")
  /\ \/ dir' = [dir EXCEPT ![Dest(w)] = None]
     \/ FlakyCleanup /\ dir' = dir
  /\ NextOf(w)
  /\ UNCHANGED <<data, trash, job, window, cancel, channel, files, stopped, bounds, down>>

-----------------------------------------------------------------------------
(* After the loop: the results store, the manifest, the end.                *)

\* Mutant: a run that was stopped writes no manifest.
WriteManifestUnlessStopped(w) ==
  /\ At(w, "record") /\ task[w].deed \in {"archive", "copy"}
  /\ manifests' = IF cancel THEN manifests ELSE Append(manifests, task[w].moved)
  /\ To(w, "finish")
  /\ UNCHANGED <<fvars, window, cancel, channel, store, stopped, bounds, down>>

\* The file is named for the second: it replaces one written in the same.  One that
\* cannot be written, or not to its end, is a line in the log.
WriteManifest(w) ==
  /\ At(w, "record") /\ task[w].deed \in {"archive", "copy"}
  /\ \/ manifests' = Append(manifests, task[w].moved)
     \/ /\ user.sameSecond /\ manifests # <<>>
        /\ manifests' = [manifests EXCEPT ![Len(manifests)] = task[w].moved]
     \/ user.copiesFail /\ manifests' = manifests
  /\ To(w, "finish")
  /\ UNCHANGED <<fvars, window, cancel, channel, store, stopped, bounds, down>>

\* results_store::load, extend, save: nobody else is kept out in between.
LoadStore(w) ==
  /\ At(w, "record") /\ task[w].renamed # {}
  /\ task' = [task EXCEPT ![w].loaded = store, ![w].pc = "saving"]
  /\ UNCHANGED <<fvars, window, cancel, channel, files, stopped, bounds, down>>

SaveStore(w) ==
  /\ At(w, "saving")
  /\ store' = task[w].loaded \union task[w].renamed
  /\ To(w, "finish")
  /\ UNCHANGED <<fvars, window, cancel, channel, manifests, stopped, bounds, down>>

\* Unsuperdeduper clears the list, whatever it could restore.
ForgetRenamed(w) ==
  /\ At(w, "record") /\ task[w].deed = "unsuffix"
  /\ store' = {}
  /\ To(w, "finish")
  /\ UNCHANGED <<fvars, window, cancel, channel, manifests, stopped, bounds, down>>

NothingToRecord(w) ==
  /\ At(w, "record")
  /\ task[w].deed \notin {"archive", "copy", "unsuffix"} /\ task[w].renamed = {}
  /\ To(w, "finish")
  /\ UNCHANGED <<fvars, window, cancel, channel, files, stopped, bounds, down>>

\* Mutant: a worker that was stopped goes without a word.
FinishUnlessStopped(w) ==
  /\ At(w, "finish")
  /\ IF cancel THEN channel' = channel ELSE Send(Finished)
  /\ task' = [task EXCEPT ![w] = NoTask]
  /\ stopped' = stopped \ {w}
  /\ UNCHANGED <<fvars, window, cancel, files, bounds, down>>

Finish(w) ==
  /\ At(w, "finish")
  /\ Send(Finished)
  /\ task' = [task EXCEPT ![w] = NoTask]
  /\ stopped' = stopped \ {w}
  /\ UNCHANGED <<fvars, window, cancel, files, bounds, down>>

-----------------------------------------------------------------------------
(* The window.                                                             *)

\* Mutant: a group is dropped when its last dupe goes, its members stay.
AppliedLazily(e) ==
  IF e.type = "removed"
  THEN SelectSeq(table, LAMBDA g : ~(e.src \in Range(g) /\ Len(g) = 2))
  ELSE table

\* apply_file_action_to_duplicates: the first group that lists the path.
Applied(e) ==
  LET hit == {g \in DOMAIN table : e.src \in Range(table[g])}
      g == CHOOSE h \in hit : \A k \in hit : h <= k
      i == CHOOSE k \in DOMAIN table[g] : table[g][k] = e.src
      rest == RemoveAt(table[g], i) IN
  IF hit = {} THEN table
  ELSE IF e.type = "renamed" THEN [table EXCEPT ![g][i] = e.to]
  ELSE IF Len(rest) < 2 THEN RemoveAt(table, g) ELSE [table EXCEPT ![g] = rest]

Drain ==
  LET e == Head(channel) IN
  /\ ~down /\ channel # <<>>
  /\ channel' = Tail(channel)
  /\ CASE e.type = "started" -> modal' = TRUE /\ UNCHANGED <<table, acted>>
       [] e.type = "finished" -> modal' = FALSE /\ acted' = {} /\ UNCHANGED table
       [] OTHER -> table' = Applied(e) /\ UNCHANGED <<modal, acted>>
  /\ UNCHANGED <<fvars, pending, cancel, task, files, stopped, bounds, down>>

\* The process is killed; what is on the disk stays.
Crash ==
  /\ user.crash /\ ~down
  /\ down' = TRUE
  /\ job' = [w \in Workers |-> NoJob] /\ task' = [w \in Workers |-> NoTask]
  /\ channel' = <<>> /\ pending' = None /\ modal' = FALSE /\ cancel' = FALSE /\ stopped' = {}
  /\ UNCHANGED <<disk, table, acted, files, bounds>>

Worker(w) ==
  \/ StartTask(w) \/ NextItem(w) \/ EnterRoot(w) \/ EndLoop(w) \/ PerformAction(w) \/ Settle(w)
  \/ Look(w) \/ Move(w) \/ Copy(w) \/ CopyFails(w) \/ Unlink(w) \/ UnlinkFails(w) \/ Cleanup(w)
  \/ WriteManifest(w) \/ LoadStore(w) \/ SaveStore(w) \/ ForgetRenamed(w)
  \/ NothingToRecord(w) \/ Finish(w)

User ==
  \/ \E a \in ForGroup : \E g \in DOMAIN table : ClickRow(a, g)
  \/ \E a \in ForAll \union {"unsuperdeduper"} : ClickAll(a)
  \/ \E k \in DOMAIN manifests : ClickRestore(k)
  \/ Decline
  \/ \E w \in Workers : Confirm(w)
  \/ \E g \in DOMAIN table : \E i \in 2..Len(table[g]) : Promote(g, i)
  \/ Stop

Next == User \/ (\E w \in Workers : Worker(w)) \/ Drain \/ Crash

\* Threads run, and the window repaints while events arrive.
Fairness == WF_vars(Drain) /\ \A w \in Workers : WF_vars(Worker(w))

Spec == Init /\ [][Next]_vars /\ Fairness

-----------------------------------------------------------------------------
(* Properties.                                                             *)

TypeOK ==
  /\ FilesTypeOK
  /\ table \in Seq(Seq(Paths)) /\ acted \subseteq 1..Len(user.table)
  /\ pending # None => pending.action \in user.offered
  /\ cancel \in BOOLEAN /\ modal \in BOOLEAN /\ down \in BOOLEAN
  /\ \A w \in Workers : /\ Range(task[w].todo) \subseteq
                             [keeper : Paths \union {None}, target : Paths]
                        /\ task[w].renamed \subseteq Paths /\ task[w].loaded \subseteq Paths
                        /\ Range(task[w].roots) \subseteq SUBSET Files
  /\ store \subseteq Paths /\ manifests \in Seq(SUBSET (Paths \X Entries))
  /\ stopped \subseteq Running

InPlace == {data[dir[e]] : e \in {x \in Entries : dir[x] # None}}

\* "Move {} file(s) to the {}, keeping: {}": whatever the actions one after the
\* other, a copy of everything the scan reported is still on the disk under some
\* name, not only in the bin.
CopyStays == \A f \in Scanned : user.content[f] \in InPlace

\* "No further files are touched": a worker that was running when Stop was clicked
\* takes up no other file and no other root, if the user waits for it before the next
\* action; but unsuperdeduper goes through the root it is in.
StopIsHonoured ==
  [][user.patient => \A w \in stopped : task[w].pc = "next" /\ ~InRoot(w) =>
       /\ task'[w].pc \notin {"acting", "look"}
       /\ task'[w].pc = "next" => task'[w].roots = task[w].roots]_vars

\* Between actions, what the table lists are files, and copies of each other; of what
\* is archived, copied, renamed in bulk and brought back the table is not told.
TableTruthful ==
  Quiet /\ ~down /\ user.offered \subseteq ForGroup \union {"removeAll", "recycleAll"} =>
    \A g \in DOMAIN table : \A p, q \in Range(table[g]) :
      Exists(Canon[p]) /\ data[dir[Canon[p]]] = data[dir[Canon[q]]]

\* "Reference paths are never touched": no action changes what a reference entry
\* holds, whatever spelling the table lists it under.
ReferencesKept == [][\A r \in user.references : dir'[Canon[r]] = dir[Canon[r]]]_vars

Archiving == \E w \in Running : task[w].deed \in {"archive", "copy"}

\* "A manifest JSON is written so the move can be restored later": once no archive
\* run is going, every file in the archive is in some manifest, unless copies break off
\* or a manifest replaces another of the same second.
ArchivedIsListed ==
  ~Archiving /\ ~user.copiesFail /\ ~user.sameSecond => \A p \in Paths : Exists(ArchivedAs[p]) =>
    \E k \in DOMAIN manifests : \E m \in manifests[k] : m[2] = ArchivedAs[p]

\* "Either both halves happen or neither does": when the archive is done with a file,
\* it is not at both places, the archived one whole or not.
MovedOrNot ==
  [][\A w \in Workers :
       task[w].deed = "archive" /\ task'[w].deed = "archive" /\ Len(task'[w].todo) < Len(task[w].todo)
         => LET p == First(w).target IN dir'[Canon[p]] = None \/ dir'[ArchivedAs[p]] = None]_vars

\* "Reversible via Unsuperdeduper": when it has been through all roots, and
\* nothing else is running, no file below a root is left under its suffixed name alone.
RenamesUndone ==
  \A w \in Running :
    (/\ Running = {w} /\ task[w].deed = "unsuffix" /\ task[w].pc = "record"
     /\ task[w].todo = <<>> /\ task[w].roots = <<>>)
      => \A f \in UNION Range(user.roots) : Exists(SafeNameOf[f]) => Exists(f)

\* "A crash mid-batch loses at most one file's worth of state": after it the store
\* knows all the renamed files but one.
LosesAtMostOne ==
  down => Cardinality({f \in Scanned : Exists(SafeNameOf[f]) /\ f \notin store}) <= 1

\* The progress modal does not stay for ever.
ModalCloses == modal ~> ~modal
=============================================================================
