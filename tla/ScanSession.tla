----------------------------- MODULE ScanSession -----------------------------
(***************************************************************************)
(* A scan of the GUI from launch to its end: the engine thread (live.rs    *)
(* run), the thread that saves checkpoints (checkpoint.rs SaveWorker), and *)
(* the window: it starts, pauses and resumes scans, asks what to do with a  *)
(* checkpoint of other settings, lists the groups it is sent, and keeps    *)
(* them in the results store and in a project.  The process may be killed  *)
(* at any point, and is then started again.                                *)
(*                                                                         *)
(* Hashing a corpus is one step that yields the groups of the files it was *)
(* given, all of them or, once cancelled, a part (see HashPipeline).       *)
(* Files do not change here, so the fingerprints of saved results match.    *)
(* There is one project folder.  The counters for the leaderboard that a   *)
(* checkpoint also carries are left out.  A killed process leaves what it  *)
(* wrote: no power failure.                                                *)
(***************************************************************************)
EXTENDS Naturals, FiniteSets

CONSTANTS
  Files,
  ContentOf,     \* file -> content; its hash stands for it
  SizeOf,        \* file -> size
  InodeOf,       \* file -> inode
  Setups,        \* what the user may scan: roots and settings
  Plans,         \* what may happen: one of these records, chosen at the start
  None, Torn

Labels == {"idle", "marker", "marked", "walk", "walked", "listed", "group", "grouped", "loop", "hash",
           "fold", "stopping", "stopped", "paused", "draining", "delete"}

ASSUME SetupAssumption ==
  /\ DOMAIN ContentOf = Files
  /\ DOMAIN InodeOf = Files
  /\ \A f, g \in Files : ContentOf[f] = ContentOf[g] => SizeOf[f] = SizeOf[g]
  /\ \A f, g \in Files : InodeOf[f] = InodeOf[g] => ContentOf[f] = ContentOf[g]
  /\ \A p \in Plans : DOMAIN p.rootsOf = Setups /\ p.admitted \in [Setups -> SUBSET Files]
                       /\ p.reference \subseteq Files
                       /\ p.pauseAt \subseteq Labels /\ p.slips \subseteq {"click", "edit", "open"}
                       /\ p.pauses \in Nat /\ p.kills \in Nat /\ p.works \in Nat

Hash == {ContentOf[f] : f \in Files}
Group == {g \in [hash : Hash, files : SUBSET Files] :
            Cardinality(g.files) >= 2 /\ \A f \in g.files : ContentOf[f] = g.hash}
Checkpoint == [setup : Setups, groups : SUBSET Group, list : (SUBSET Files) \union {None}]
Save == [cp : Checkpoint, at : {"truncate", "write", "rename"}]
Rows == [Group -> Nat]                                   \* how often each group is listed
Results == [setup : Setups \union {None}, rows : Rows]   \* in the store or in a project
\* The worker of a resume, and what it has read.
Loading == [at : {"no", "asked", "read"}, cp : Checkpoint \union {None}, saved : Rows]

ASSUME NamesAssumption ==
  /\ None # Torn /\ None \notin Checkpoint \union Save /\ Torn \notin Checkpoint
  /\ None \notin Setups /\ None \notin Results
  /\ \A files \in SUBSET Files : files # None

VARIABLES
  plan,               \* of Plans: rootsOf (setup -> roots), admitted (setup -> the files
                      \* its walk lists), reference (the files under reference roots), pauseAt (where the engine may be when the
                      \* user pauses), flaky (the walk and saves may fail), slips
                      \* (what the user does at a bad moment, see Settled), and the
                      \* bounds pauses, kills and works
  disk, tmp,          \* scan-checkpoint.json and its .json.tmp
  writing,            \* thread -> the save it is in
  pc, setup, state,   \* the engine; checkpoint_state
  list, restored,     \* its file list; restored_dup_paths
  reported, todo,     \* already_reported; the groups still to record
  saver,              \* the SaveWorker
  cancel,
  scanning,           \* the user interface believes a scan is on
  events, ended,      \* the groups sent to it; how the scan ended
  shown,              \* its list of groups
  chosen,             \* the roots and settings in its panels; None without roots
  dialogs,            \* "resume" at launch, "drift" and "preflight"
  canResume, effect,  \* can_resume; resume_effect_active
  loading,            \* the worker of a resume
  results, keeping,   \* results-state.json; what threads are about to put there
  bundle, saving,     \* the project; its project.json is new, duplicates.json not yet
  pauses, kills, works  \* counters of the bounds

fileVars == <<disk, tmp, writing>>
inputs == <<list, restored, reported>>
engineVars == <<setup, state, inputs, todo>>
deskVars == <<chosen, dialogs, canResume, effect, loading>>
storeVars == <<results, keeping, bundle, saving, works>>
uiVars == <<scanning, events, ended, shown, deskVars, storeVars>>
bounds == <<plan, pauses, kills>>
vars == <<fileVars, pc, engineVars, saver, cancel, uiVars, bounds>>

Threads == {"engine", "saver"}
SaverLabels == {"off", "check", "park", "waiting", "take", "checkStop", "drainPending",
                "drainLive", "gone"}
Saver == [at : SaverLabels, pending : Checkpoint \union {None}, stop : BOOLEAN,
          notified : BOOLEAN, timedOut : BOOLEAN]

TypeOK ==
  /\ disk \in Checkpoint \union {None, Torn}
  /\ tmp \in Checkpoint \union {None, Torn}
  /\ writing \in [Threads -> Save \union {None}]
  /\ pc \in Labels
  /\ setup \in Setups
  /\ state \in Checkpoint
  /\ list \in (SUBSET Files) \union {None}
  /\ restored \subseteq Files
  /\ reported \subseteq Hash
  /\ todo \subseteq Group
  /\ saver \in Saver
  /\ cancel \in BOOLEAN /\ scanning \in BOOLEAN
  /\ events \subseteq Group /\ shown \in Rows
  /\ ended \in {"no", "paused", "finished", "failed"}
  /\ chosen \in Setups \union {None}
  /\ dialogs \subseteq {"resume", "drift", "preflight"}
  /\ canResume \in BOOLEAN /\ effect \in BOOLEAN /\ saving \in BOOLEAN
  /\ loading \in Loading
  /\ results \in Results \union {None} /\ keeping \subseteq Results
  /\ bundle \in Results \union {None}
  /\ plan \in Plans /\ pauses \in 0..plan.pauses /\ kills \in 0..plan.kills
  /\ works \in 0..plan.works

NewCheckpoint(s) == [setup |-> s, groups |-> {}, list |-> None]
NoRows == [g \in Group |-> 0]
NoLoading == [at |-> "no", cp |-> None, saved |-> NoRows]
NoSaver == [at |-> "off", pending |-> None, stop |-> FALSE, notified |-> FALSE, timedOut |-> FALSE]

Init ==
  /\ plan \in Plans
  /\ disk = None /\ tmp = None
  /\ writing = [t \in Threads |-> None]
  /\ pc = "idle"
  /\ setup \in Setups
  /\ state = NewCheckpoint(setup)
  /\ list = None /\ restored = {} /\ reported = {} /\ todo = {}
  /\ saver = NoSaver
  /\ cancel = FALSE /\ scanning = FALSE
  /\ events = {} /\ ended = "no" /\ shown = NoRows
  /\ chosen = None /\ dialogs = {} /\ canResume = FALSE /\ effect = FALSE /\ loading = NoLoading
  /\ results = None /\ keeping = {} /\ bundle = None /\ saving = FALSE
  /\ pauses = 0 /\ kills = 0 /\ works = 0

-----------------------------------------------------------------------------
(* checkpoint::save: write the .json.tmp, rename it. *)

Saving(t) == writing[t] # None

BeginSave(t, cp) == writing' = [writing EXCEPT ![t] = [cp |-> cp, at |-> "truncate"]]

\* Mutant: the checkpoint is written in place.
SaveStepInPlace(t) ==
  /\ Saving(t)
  /\ \/ /\ writing[t].at = "truncate"
        /\ disk' = Torn
        /\ writing' = [writing EXCEPT ![t].at = "write"]
     \/ /\ writing[t].at = "write"
        /\ disk' = writing[t].cp
        /\ writing' = [writing EXCEPT ![t] = None]
  /\ UNCHANGED <<tmp, pc, engineVars, saver, cancel, uiVars, bounds>>

SaveStep(t) ==
  /\ Saving(t)
  /\ \/ /\ writing[t].at = "truncate"
        /\ tmp' = Torn
        /\ writing' = [writing EXCEPT ![t].at = "write"]
        /\ UNCHANGED disk
     \/ /\ writing[t].at = "write"
        /\ tmp' = writing[t].cp
        /\ writing' = [writing EXCEPT ![t].at = "rename"]
        /\ UNCHANGED disk
     \/ /\ writing[t].at = "rename"
        /\ disk' = tmp
        /\ tmp' = None
        /\ writing' = [writing EXCEPT ![t] = None]
  /\ UNCHANGED <<pc, engineVars, saver, cancel, uiVars, bounds>>

\* Every caller goes on as if it had been saved.
SaveFails(t) ==
  /\ plan.flaky
  /\ Saving(t)
  /\ writing' = [writing EXCEPT ![t] = None]
  /\ UNCHANGED <<disk, tmp, pc, engineVars, saver, cancel, uiVars, bounds>>

-----------------------------------------------------------------------------
(* What a resumed scan starts from. *)

\* classify_from_parts; "Full" stands for Warm too, which only tells the user
\* that the hash cache is cold.
ResumeTier(cp, s) ==
  CASE plan.rootsOf[cp.setup] # plan.rootsOf[s] -> "Fresh"
    [] plan.rootsOf[cp.setup] = plan.rootsOf[s] /\ cp.groups = {} /\ cp.list = None -> "Marker"
    [] OTHER -> IF cp.setup = s THEN "Full"
                ELSE IF cp.list # None THEN "InventoryOnly" ELSE "Fresh"

\* checkpoint_state once the prior checkpoint is applied.
CarriedOver(s) ==
  IF disk \in {None, Torn} THEN NewCheckpoint(s)
  ELSE CASE ResumeTier(disk, s) = "Full" -> [disk EXCEPT !.setup = s]
         [] ResumeTier(disk, s) = "InventoryOnly" -> [NewCheckpoint(s) EXCEPT !.list = disk.list]
         [] OTHER -> NewCheckpoint(s)

FilesOf(groups) == UNION {g.files : g \in groups}

\* Mutant: of the prior checkpoint, whatever was restored of it.
RestoredOfPrior(s) == IF disk \in {None, Torn} THEN {} ELSE FilesOf(disk.groups)

Restored(s) == FilesOf(CarriedOver(s).groups)

\* The engine loads the checkpoint and sends the restored groups.
LaunchEngine(s) ==
  /\ pc' = "marker"
  /\ setup' = s
  /\ state' = CarriedOver(s)
  /\ list' = CarriedOver(s).list
  /\ restored' = Restored(s)
  /\ events' = CarriedOver(s).groups
  /\ reported' = {} /\ todo' = {}
  /\ cancel' = FALSE
  /\ scanning' = TRUE
  /\ ended' = "no"

-----------------------------------------------------------------------------
(* The window.  A project is saved within a frame: nothing else happens in it then. *)

Loadable == disk \notin {None, Torn}

Once(groups) == [g \in Group |-> IF g \in groups THEN 1 ELSE 0]
OnList(rows) == {g \in Group : rows[g] > 0}
Plus(rows, more) == [g \in Group |-> rows[g] + more[g]]

\* The dialog of the launch covers everything.
Frame ==
  /\ ~ saving /\ "resume" \notin dialogs
  /\ UNCHANGED <<tmp, writing, saver, bounds>>

\* A user who waits does nothing else while a scan is on, a dialog is open or a resume
\* is being loaded.
Settled(slip) == slip \in plan.slips \/ (~ scanning /\ dialogs = {} /\ loading.at = "no")

engineSide == <<pc, engineVars, cancel, scanning, events, ended>>

\* Mutant: settings that have changed are not looked at.
DriftedNever(s) == FALSE

\* detect_settings_drift
Drifted(s) == Loadable /\ disk.setup # s

\* start_live: a scan that is no resume begins with an empty list, after the questions
\* there are.  The drift is asked about once.
StartLive(s, resumable, keep, table, open) ==
  /\ shown' = IF keep THEN table ELSE NoRows
  /\ canResume' = FALSE
  /\ IF resumable
     THEN LaunchEngine(s) /\ dialogs' = open
     ELSE /\ dialogs' = open \union {IF Drifted(s) /\ "drift" \notin open THEN "drift" ELSE "preflight"}
          /\ UNCHANGED engineSide

Start ==
  /\ Frame /\ Settled("click")
  /\ ~ scanning /\ chosen # None /\ "preflight" \notin dialogs
  /\ StartLive(chosen, canResume, effect, shown, dialogs)
  /\ UNCHANGED <<disk, chosen, effect, loading, storeVars>>

\* tick_preflight, launch_scan.  A launch without roots is left out.
Launch ==
  /\ Frame
  /\ "preflight" \in dialogs /\ chosen # None
  /\ dialogs' = dialogs \ {"preflight"}
  /\ canResume' = FALSE
  /\ LaunchEngine(chosen)
  /\ UNCHANGED <<disk, shown, chosen, effect, loading, storeVars>>

CancelDialog(d) ==
  /\ Frame
  /\ d \in dialogs
  /\ dialogs' = dialogs \ {d}
  /\ UNCHANGED <<disk, engineSide, shown, chosen, canResume, effect, loading, storeVars>>

\* accept_drift_continue: the checkpoint is renamed, then start_live.
ContinueWithNew ==
  /\ Frame
  /\ "drift" \in dialogs
  /\ disk' = None
  /\ canResume' = FALSE
  /\ IF scanning \/ chosen = None \/ "preflight" \in dialogs
     THEN dialogs' = dialogs \ {"drift"} /\ UNCHANGED shown
     ELSE /\ dialogs' = (dialogs \ {"drift"}) \union {"preflight"}
          /\ shown' = IF effect THEN shown ELSE NoRows
  /\ UNCHANGED <<engineSide, chosen, effect, loading, storeVars>>

\* accept_resume, after Resume at launch or Revert in the question about the drift
AcceptResume(d) ==
  /\ d \in dialogs /\ d \in {"resume", "drift"} /\ ~ saving
  /\ dialogs' = dialogs \ {d}
  /\ loading' = IF loading.at = "no" THEN [loading EXCEPT !.at = "asked"] ELSE loading
  /\ UNCHANGED <<fileVars, saver, bounds, engineSide, shown, chosen, canResume, effect, storeVars>>

\* Mutant: the settings of the stored results are not compared.
MatchingAny(s) == IF results = None THEN NoRows ELSE results.rows

\* load_matching: the list stored for the same roots and settings
Matching(s) == IF results # None /\ results.setup = s THEN results.rows ELSE NoRows

\* The worker of accept_resume; when it finds no checkpoint nothing happens.
LoadResume ==
  /\ loading.at = "asked"
  /\ loading' = IF Loadable THEN [at |-> "read", cp |-> disk, saved |-> Matching(disk.setup)] ELSE NoLoading
  /\ UNCHANGED <<fileVars, saver, bounds, engineSide, shown, chosen, dialogs, canResume, effect, storeVars>>

\* apply_resume_hydrated: the groups of the checkpoint and those of the store are added
\* to the list, and start_live follows, which does nothing during a scan or a preflight.
Hydrate ==
  /\ loading.at = "read"
  /\ Frame
  /\ loading' = NoLoading
  /\ effect' = TRUE
  /\ chosen' = loading.cp.setup
  /\ LET table == Plus(Plus(shown, Once(loading.cp.groups)), loading.saved)
         resumable == Loadable /\ disk.setup = loading.cp.setup
     IN  IF scanning \/ "preflight" \in dialogs
         THEN shown' = table /\ canResume' = resumable /\ UNCHANGED <<dialogs, engineSide>>
         ELSE StartLive(loading.cp.setup, resumable, TRUE, table, dialogs)
  /\ UNCHANGED <<disk, storeVars>>

\* accept_start_fresh, at launch
StartFresh ==
  /\ "resume" \in dialogs
  /\ dialogs' = dialogs \ {"resume"}
  /\ disk' = None
  /\ shown' = NoRows /\ chosen' = None /\ canResume' = FALSE
  /\ UNCHANGED <<tmp, writing, saver, bounds, engineSide, effect, loading, storeVars>>

\* The panels of roots and settings, disabled during a scan; menu_new empties the list.
Edit(s) ==
  /\ Frame /\ Settled("edit")
  /\ ~ scanning
  /\ chosen' = s
  /\ IF s = None THEN shown' = NoRows /\ canResume' = FALSE ELSE UNCHANGED <<shown, canResume>>
  /\ UNCHANGED <<disk, engineSide, dialogs, effect, loading, storeVars>>

\* load_project_from: the menu offers it at any time.
OpenProject ==
  /\ Frame /\ Settled("open")
  /\ bundle # None
  /\ shown' = bundle.rows /\ chosen' = bundle.setup /\ canResume' = FALSE
  /\ UNCHANGED <<disk, engineSide, dialogs, effect, loading, storeVars>>

\* project::save replaces project.json, then duplicates.json.
SaveProject ==
  /\ Frame
  /\ works < plan.works
  /\ works' = works + 1
  /\ saving' = TRUE
  /\ bundle' = [setup |-> chosen, rows |-> IF bundle = None THEN NoRows ELSE bundle.rows]
  /\ UNCHANGED <<disk, engineSide, shown, deskVars, results, keeping>>

SaveProjectRows ==
  /\ saving
  /\ saving' = FALSE
  /\ bundle' = [bundle EXCEPT !.rows = shown]
  /\ UNCHANGED <<fileVars, saver, bounds, engineSide, shown, deskVars, results, keeping, works>>

\* request_pause
Pause ==
  /\ scanning /\ ~ cancel /\ ~ saving
  /\ pc \in plan.pauseAt
  /\ pauses < plan.pauses
  /\ pauses' = pauses + 1
  /\ cancel' = TRUE
  /\ UNCHANGED <<fileVars, pc, engineVars, saver, uiVars, plan, kills>>

\* UiState::apply, DuplicateFound and DuplicatesFoundBatch
ShowGroup(g) ==
  /\ Frame
  /\ g \in events
  /\ events' = events \ {g}
  /\ shown' = IF \E h \in OnList(shown) : h.hash = g.hash THEN shown ELSE [shown EXCEPT ![g] = @ + 1]
  /\ UNCHANGED <<disk, pc, engineVars, cancel, scanning, ended, deskVars, storeVars>>

\* ScanPaused and ScanFinished end the scan for the window; of a failed one it only
\* shows the status.  A thread is to store the list of a finished scan, which may fail.
LearnEnd ==
  /\ Frame
  /\ events = {}
  /\ ended \in {"paused", "finished"}
  /\ scanning
  /\ scanning' = FALSE
  /\ effect' = FALSE
  /\ \/ UNCHANGED <<keeping, works>>
     \/ /\ ended = "finished" /\ works < plan.works
        /\ works' = works + 1
        /\ keeping' = keeping \union {[setup |-> chosen, rows |-> shown]}
  /\ UNCHANGED <<disk, pc, engineVars, cancel, events, ended, shown, chosen, dialogs, canResume, loading,
                 results, bundle, saving>>

\* persist_results_after_scan
StoreResults(r) ==
  /\ r \in keeping
  /\ keeping' = keeping \ {r}
  /\ results' = r
  /\ UNCHANGED <<fileVars, saver, bounds, engineSide, shown, deskVars, bundle, saving, works>>

\* A checkpoint that does not load is renamed at the next launch.  The panels start with
\* what they had when the window last stored it.
Kill ==
  /\ kills < plan.kills
  /\ kills' = kills + 1
  /\ pc' = "idle"
  /\ writing' = [t \in Threads |-> None]
  /\ saver' = NoSaver
  /\ state' = NewCheckpoint(setup)
  /\ list' = None /\ restored' = {} /\ reported' = {} /\ todo' = {}
  /\ scanning' = FALSE /\ cancel' = FALSE
  /\ events' = {} /\ ended' = "no" /\ shown' = NoRows
  /\ disk' = IF Loadable THEN disk ELSE None
  /\ chosen' \in Setups \union {None}
  /\ dialogs' = IF Loadable THEN {"resume"} ELSE {}
  /\ canResume' = FALSE /\ effect' = FALSE /\ loading' = NoLoading
  /\ keeping' = {} /\ saving' = FALSE
  /\ UNCHANGED <<tmp, setup, plan, pauses, results, bundle, works>>

-----------------------------------------------------------------------------
(* The engine: live.rs run. *)

\* The frame of an engine step; a save of its own is over first.
EngineAt(at) ==
  /\ pc = at
  /\ ~ Saving("engine")
  /\ UNCHANGED <<disk, tmp, setup, cancel, scanning, shown, deskVars, storeVars, bounds>>

GoTo(at) == pc' = at

\* Mutant: the engine returns without a word.
ReturnSilently == GoTo("idle") /\ UNCHANGED ended

\* emit_paused, and the engine returns.
ReturnPaused == GoTo("idle") /\ ended' = "paused"

\* The checkpoint of a scan under way, before there is anything to save.
SaveMarker ==
  /\ EngineAt("marker")
  /\ BeginSave("engine", state)
  /\ GoTo("marked")
  /\ UNCHANGED <<state, inputs, todo, saver, events, ended>>

AfterMarker ==
  /\ EngineAt("marked")
  /\ \/ cancel /\ ReturnPaused
     \/ ~ cancel /\ GoTo(IF list = None THEN "walk" ELSE "walked") /\ UNCHANGED ended
  /\ UNCHANGED <<writing, state, inputs, todo, saver, events>>

\* enumerate_cancellable: once cancelled, whatever it has collected so far.
Walk ==
  /\ EngineAt("walk")
  /\ \/ /\ \E files \in (IF cancel THEN SUBSET plan.admitted[setup] ELSE {plan.admitted[setup]}) :
             list' = files
        /\ GoTo("walked")
        /\ UNCHANGED ended
     \/ plan.flaky /\ GoTo("idle") /\ ended' = "failed" /\ UNCHANGED list
  /\ UNCHANGED <<writing, state, restored, reported, todo, saver, events>>

\* Mutant: the list is written with the first chunk.
SaveListLater ==
  /\ EngineAt("walked")
  /\ state' = [state EXCEPT !.list = list]
  /\ GoTo("listed")
  /\ UNCHANGED <<writing, inputs, todo, saver, events, ended>>

SaveList ==
  /\ EngineAt("walked")
  /\ state' = [state EXCEPT !.list = list]
  /\ BeginSave("engine", state')
  /\ GoTo("listed")
  /\ UNCHANGED <<inputs, todo, saver, events, ended>>

AfterList ==
  /\ EngineAt("listed")
  /\ \/ cancel /\ ReturnPaused
     \/ ~ cancel /\ GoTo("group") /\ UNCHANGED ended
  /\ UNCHANGED <<writing, state, inputs, todo, saver, events>>

\* group_by_size, then without the restored files: classes of two or more.
Candidates == {f \in list \ restored : \E g \in list \ (restored \union {f}) : SizeOf[f] = SizeOf[g]}

GroupBySize ==
  /\ EngineAt("group")
  /\ list' = Candidates
  /\ GoTo("grouped")
  /\ UNCHANGED <<writing, state, restored, reported, todo, saver, events, ended>>

\* The save worker starts and is given checkpoint_state.
AfterGroup ==
  /\ EngineAt("grouped")
  /\ \/ cancel /\ ReturnPaused /\ UNCHANGED <<reported, saver>>
     \/ /\ ~ cancel
        /\ reported' = {g.hash : g \in state.groups}
        /\ saver' = [NoSaver EXCEPT !.at = "check"]
        /\ GoTo("loop")
        /\ UNCHANGED ended
  /\ UNCHANGED <<writing, state, list, restored, todo, events>>

\* The aliases of one inode are a group, and the other files of one content.
GroupsOf(files) ==
  LET aliases(f) == {g \in files : InodeOf[g] = InodeOf[f]}
      linked == {aliases(f) : f \in files} \ {{f} : f \in files}
      single == files \ UNION linked
      twins(f) == {g \in single : ContentOf[g] = ContentOf[f]}
      sets == linked \union {twins(f) : f \in single}
  IN  {[hash |-> ContentOf[CHOOSE f \in s : TRUE], files |-> s] :
         s \in {t \in sets : Cardinality(t) >= 2}}

\* notify_one wakes a thread that is waiting, and is lost otherwise.
Notified == saver.at = "waiting" \/ saver.notified

TopOfLoop ==
  /\ EngineAt("loop")
  /\ \/ cancel /\ list # {} /\ GoTo("stopping")
     \/ ~ cancel /\ list # {} /\ GoTo("hash")
     \/ list = {} /\ GoTo("draining")
  /\ UNCHANGED <<writing, state, inputs, todo, saver, events, ended>>

\* A group of reference files only is not shown (filter_reference_only).
Visible(g) == g.hash \notin reported /\ ~ (g.files \subseteq plan.reference) /\ Cardinality(g.files) >= 2

\* run_cancellable, also Ok when it was cancelled.
HashChunk ==
  /\ EngineAt("hash")
  /\ LET all == GroupsOf(list) IN
     \E part \in (IF cancel THEN [all -> SUBSET list] ELSE {[g \in all |-> g.files]}) :
       LET found == {[g EXCEPT !.files = g.files \intersect part[g]] : g \in all} IN
       todo' = {g \in found : Visible(g)}
  /\ GoTo("fold")
  /\ UNCHANGED <<writing, state, inputs, saver, events, ended>>

RecordGroup(g) ==
  /\ EngineAt("fold")
  /\ g \in todo
  /\ todo' = todo \ {g}
  /\ state' = [state EXCEPT !.groups = @ \union {g}]
  /\ events' = events \union {g}
  /\ UNCHANGED <<writing, pc, inputs, saver, ended>>

\* Mutant: the snapshot is the one of the start of the chunk.
SnapshotOld == [state EXCEPT !.groups = {g \in @ : g.hash \in reported}]

Snapshot == state

\* SaveWorker::enqueue takes the lock that the worker holds while it looks.
Enqueue ==
  /\ EngineAt("fold")
  /\ todo = {}
  /\ saver.at # "park"
  /\ saver' = [saver EXCEPT !.pending = Snapshot, !.notified = Notified]
  /\ GoTo("draining")
  /\ UNCHANGED <<writing, state, inputs, todo, events, ended>>

\* SaveWorker::shutdown; the flag is set without the lock.
Shutdown ==
  /\ pc \in {"stopping", "draining"} /\ EngineAt(pc)
  /\ ~ saver.stop
  /\ saver' = [saver EXCEPT !.stop = TRUE, !.notified = Notified]
  /\ UNCHANGED <<writing, pc, state, inputs, todo, events, ended>>

SaverDone == saver.at = "gone" /\ ~ Saving("saver")

\* Paused at the top of the loop: the worker is joined, then the engine saves.
PauseSave ==
  /\ EngineAt("stopping")
  /\ saver.stop /\ SaverDone
  /\ saver' = NoSaver
  /\ BeginSave("engine", state)
  /\ GoTo("paused")
  /\ UNCHANGED <<state, inputs, todo, events, ended>>

AfterPause ==
  /\ EngineAt("paused")
  /\ ReturnPaused
  /\ UNCHANGED <<writing, state, inputs, todo, saver, events>>

JoinSaver ==
  /\ EngineAt("draining")
  /\ saver.stop /\ SaverDone
  /\ saver' = NoSaver
  /\ GoTo("delete")
  /\ UNCHANGED <<writing, state, inputs, todo, events, ended>>

\* The scan finished cleanly: the checkpoint is deleted.
FinishScan ==
  /\ pc = "delete"
  /\ disk' = None
  /\ GoTo("idle")
  /\ ended' = "finished"
  /\ UNCHANGED <<tmp, writing, engineVars, saver, cancel, scanning, events, shown, deskVars, storeVars, bounds>>

EngineStep ==
  \/ SaveMarker \/ AfterMarker \/ Walk \/ SaveList \/ AfterList
  \/ GroupBySize \/ AfterGroup \/ TopOfLoop \/ HashChunk
  \/ (\E g \in todo : RecordGroup(g)) \/ Enqueue
  \/ Shutdown \/ PauseSave \/ AfterPause \/ JoinSaver \/ FinishScan
  \/ SaveStep("engine") \/ SaveFails("engine")

-----------------------------------------------------------------------------
(* The worker: run_save_loop. *)

SaverAt(at) ==
  /\ saver.at = at
  /\ ~ Saving("saver")
  /\ UNCHANGED <<disk, tmp, pc, engineVars, cancel, uiVars, bounds>>

\* Under the lock: nothing to do yet.
CheckPending ==
  /\ SaverAt("check")
  /\ saver' = IF saver.pending # None \/ saver.stop
              THEN [saver EXCEPT !.at = "take", !.timedOut = FALSE]
              ELSE [saver EXCEPT !.at = "park"]
  /\ UNCHANGED writing

Park ==
  /\ SaverAt("park")
  /\ saver' = [saver EXCEPT !.at = "waiting", !.notified = FALSE]
  /\ UNCHANGED writing

Wake ==
  /\ SaverAt("waiting")
  /\ saver.notified
  /\ saver' = [saver EXCEPT !.at = "take", !.notified = FALSE, !.timedOut = FALSE]
  /\ UNCHANGED writing

\* Mutant: wait in place of wait_for.
TimeOutNever == FALSE /\ UNCHANGED vars

\* SAVE_WORKER_AUTO_FLUSH_INTERVAL has passed.
TimeOut ==
  /\ SaverAt("waiting")
  /\ saver' = [saver EXCEPT !.at = "take", !.timedOut = TRUE]
  /\ UNCHANGED writing

\* A pending snapshot is saved, or after a timeout checkpoint_state as it is.
TakePending ==
  /\ SaverAt("take")
  /\ saver' = [saver EXCEPT !.at = "checkStop", !.pending = None]
  /\ \/ saver.pending # None /\ BeginSave("saver", saver.pending)
     \/ saver.pending = None /\ saver.timedOut /\ BeginSave("saver", state)
     \/ saver.pending = None /\ ~ saver.timedOut /\ UNCHANGED writing

\* Mutant: a stopped worker just leaves.
CheckStopLeave ==
  /\ SaverAt("checkStop")
  /\ saver' = [saver EXCEPT !.at = IF saver.stop THEN "gone" ELSE "check"]
  /\ UNCHANGED writing

CheckStop ==
  /\ SaverAt("checkStop")
  /\ saver' = [saver EXCEPT !.at = IF saver.stop THEN "drainPending" ELSE "check"]
  /\ UNCHANGED writing

DrainPending ==
  /\ SaverAt("drainPending")
  /\ saver' = [saver EXCEPT !.at = "drainLive", !.pending = None]
  /\ IF saver.pending = None THEN UNCHANGED writing ELSE BeginSave("saver", saver.pending)

DrainLive ==
  /\ SaverAt("drainLive")
  /\ saver' = [saver EXCEPT !.at = "gone"]
  /\ BeginSave("saver", state)

SaverStep ==
  \/ CheckPending \/ Park \/ Wake \/ TimeOut \/ TakePending
  \/ CheckStop \/ DrainPending \/ DrainLive
  \/ SaveStep("saver") \/ SaveFails("saver")

UiStep == LearnEnd \/ SaveProjectRows \/ \E g \in events : ShowGroup(g)

UserStep ==
  \/ Start \/ Launch \/ ContinueWithNew \/ StartFresh
  \/ (\E d \in {"drift", "preflight"} : CancelDialog(d))
  \/ (\E d \in {"resume", "drift"} : AcceptResume(d))
  \/ (\E s \in Setups \union {None} : Edit(s))
  \/ OpenProject \/ SaveProject \/ Pause

WorkerStep == LoadResume \/ Hydrate \/ \E r \in keeping : StoreResults(r)

Next == EngineStep \/ SaverStep \/ UiStep \/ UserStep \/ WorkerStep \/ Kill

\* Threads run on, parking_lot hands the lock to who waits for it, the window is
\* repainted; users owe nothing.
Spec ==
  /\ Init /\ [][Next]_vars
  /\ WF_vars(EngineStep) /\ SF_vars(Enqueue) /\ WF_vars(SaverStep) /\ WF_vars(UiStep)

-----------------------------------------------------------------------------
(* Properties. *)

OnDisk == Loadable

\* Saves succeed, and a question about the drift is not left open when a scan starts:
\* its answer would take the checkpoint of that scan away.
Steady == ~ plan.flaky /\ "click" \notin plan.slips

\* "Everything after Stage 1 completes survives a process kill" (live.rs, before the
\* post-walk save), also of a scan that was resumed.
ListSurvives ==
  Steady /\ pc \in {"group", "grouped", "loop", "hash", "fold", "stopping", "paused", "draining", "delete"} =>
    OnDisk /\ disk.setup = setup /\ disk.list = state.list /\ disk.list # None

\* A worker that was shut down has left the latest state on disk (SaveWorker::shutdown).
DrainedOnShutdown == Steady /\ SaverDone => OnDisk /\ disk.groups = state.groups

\* Found groups reach the disk and stay there, through kills, pauses and resumes: the
\* session implements ScanProgress.
Progress == INSTANCE ScanProgress WITH
  Groups <- Group,
  known <- IF pc = "idle" THEN {} ELSE state.groups,
  durable <- IF OnDisk THEN disk.groups ELSE {},
  running <- pc # "idle"

KeepsProgress == Progress!Spec

\* When a scan has finished, however often it was killed and resumed, all groups of
\* its files are shown; a pause in the walk or in the hashing may cut either short, and
\* an opened project replaces the list.
FinishedComplete ==
  plan.pauseAt \intersect {"walk", "hash"} = {} /\ "open" \notin plan.slips /\ ended = "finished" /\ scanning /\ events = {} =>
    \A g \in GroupsOf(plan.admitted[setup]) : g.files \subseteq plan.reference \/ g \in OnList(shown)

\* A launched scan ends, whatever saves fail and however the worker is woken, and the
\* window learns of it, unless the walk has failed.
UiLearnsTheEnd ==
  (pc # "idle" \/ scanning) ~> (pc = "idle" /\ (~ scanning \/ ended = "failed"))

\* Groups found for a paused scan are given up for other settings only after the user
\* was asked ("guard against silent settings-drift restarts", app.rs start_live), even
\* if saves fail; of a user who waits.
AskedFirst ==
  [][plan.slips = {} /\ OnDisk =>
       \/ OnDisk' /\ disk.groups \subseteq disk'.groups
       \/ pc = "delete"
       \/ \E d \in {"resume", "drift"} : d \in dialogs /\ d \notin dialogs']_vars

Fits(rows, s) == \A g \in OnList(rows) : g.files \subseteq plan.admitted[s]

\* The list of a scan has no groups of other files than its own, whatever was resumed,
\* restored from the store or open before, and what the store keeps is the list of a
\* scan of its roots and settings; of a user who waits.
TableFits ==
  plan.slips = {} =>
    /\ scanning => chosen = setup /\ Fits(shown, setup)
    /\ \A r \in keeping \union ({results} \ {None}) : r.setup # None /\ Fits(r.rows, r.setup)

\* No group "would be counted twice ... + appear twice in the Groups table" after a
\* resume (state.rs, DuplicateFound).
ShownOnce == \A g \in Group : shown[g] <= 1

\* "start_live() refuses to launch while this is Some" (app.rs, render_settings_drift_modal).
DriftBlocks == [][~ scanning /\ scanning' => "drift" \notin dialogs]_vars

\* "a crash mid-save leaves the previous version intact" (project.rs, save).
ProjectIsOneSave == [][saving /\ ~ saving' => bundle'.rows = shown]_vars

\* A scan paused while it hashes ends paused (live.rs, the Interrupted arm; the test
\* cancel_mid_hash_writes_checkpoint).
PauseIsHonoured == cancel => ended # "finished"

\* A saved list is the whole list: None means that the walk had not finished
\* (checkpoint.rs, saved_inventory).
SavedListIsWhole == OnDisk /\ disk.list # None => disk.list = plan.admitted[disk.setup]

\* The reused walker output is the same file list (resume_tier.rs, InventoryOnly).
ListFitsSettings == pc = "group" => list = plan.admitted[setup]

\* Every group a finished scan recorded is shown ("Content_hash is the right identity",
\* state.rs).
RecordedIsShown == ended = "finished" /\ events = {} => state.groups \subseteq OnList(shown)
=============================================================================
