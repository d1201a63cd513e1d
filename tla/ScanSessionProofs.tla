-------------------------- MODULE ScanSessionProofs --------------------------
(***************************************************************************)
(* What TLAPS proves about ScanSession: for all files, setups and plans,   *)
(* and through any number of kills, pauses and resumes, what the           *)
(* checkpoint on disk holds of a scan.                                     *)
(***************************************************************************)
EXTENDS ScanSession, FiniteSetTheorems, TLAPS

-----------------------------------------------------------------------------
(* The inductive invariant. *)

\* Where the engine may be while there is a save worker, ...
WithSaver == {"loop", "hash", "fold", "stopping", "draining"}

\* ... and once the list is saved.
Listed == WithSaver \union {"group", "grouped", "paused", "delete"}

\* Who is where: the engine and the worker do not save at one time, and a worker that
\* leaves was told to.
Control ==
  /\ saver.at = "off" <=> pc \notin WithSaver
  /\ saver.at \in {"off", "drainLive", "gone"} => saver.pending = None
  /\ Saving("engine") => pc \in {"marked", "listed", "paused"}
  /\ Saving("saver") => saver.at # "off"
  /\ saver.at \in {"drainPending", "drainLive", "gone"} => saver.stop
  /\ saver.stop => pc \in {"stopping", "draining"}
  /\ pc \in {"walked", "listed", "group", "grouped"} \union WithSaver => list # None
  /\ pc \in Listed \union {"listed"} => state.list # None
  /\ state.setup = setup

\* A snapshot of the scan under way.
Snapped(cp) == cp.setup = setup /\ cp.list = state.list /\ cp.groups \subseteq state.groups

\* What is being saved, or waits for it: a save ends with its own checkpoint.
Pipeline ==
  /\ disk # Torn
  /\ \A t \in Threads : Saving(t) /\ writing[t].at = "rename" => tmp = writing[t].cp
  /\ Saving("engine") => writing["engine"].cp = state
  /\ Saving("saver") => Snapped(writing["saver"].cp)
  /\ saver.pending # None => Snapped(saver.pending)
  /\ saver.at = "gone" /\ Saving("saver") => writing["saver"].cp = state

\* The checkpoint is another scan's until the first save.
Foreign == state.groups = {} /\ (pc = "marker" \/ (pc = "marked" /\ Saving("engine")))

\* What is on disk, if saves do not fail: of this scan, and nothing that what is
\* saved next leaves out.
Disk ==
  /\ pc \in Listed \/ (pc = "listed" /\ ~ Saving("engine")) =>
       disk # None /\ disk.setup = setup /\ disk.list = state.list
  /\ saver.at = "gone" /\ ~ Saving("saver") => disk # None /\ disk.groups = state.groups
  /\ pc # "idle" /\ disk # None => disk.groups \subseteq state.groups \/ Foreign
  /\ Saving("saver") => disk.groups \subseteq writing["saver"].cp.groups
  /\ saver.pending # None => disk.groups \subseteq saver.pending.groups
  /\ Saving("saver") /\ saver.pending # None =>
       writing["saver"].cp.groups \subseteq saver.pending.groups

\* The window believes in a scan that runs, the dialog of the launch is alone, and a
\* question about the drift is answered before anything else if the user waits for it.
Window ==
  /\ ~ scanning \/ ended # "no" => pc = "idle"
  /\ "preflight" \in dialogs => ~ scanning
  /\ "resume" \in dialogs => dialogs = {"resume"} /\ ~ scanning /\ loading.at = "no"
  /\ loading.at = "read" => loading.cp # None
  /\ saving => bundle # None
  /\ "click" \notin plan.slips =>
       /\ "drift" \in dialogs => ~ scanning /\ loading.at = "no" /\ "preflight" \notin dialogs
       /\ loading.at # "no" => ~ scanning /\ dialogs = {}

IInv == TypeOK /\ Control /\ Window /\ Pipeline /\ (Steady => Disk)

-----------------------------------------------------------------------------
(* Types. *)

\* What a scan starts from is a checkpoint of its own setup.
LEMMA CarriedType ==
  ASSUME disk \in Checkpoint \union {None, Torn}, NEW s \in Setups
  PROVE  /\ CarriedOver(s) \in Checkpoint /\ CarriedOver(s).setup = s
         /\ Restored(s) \subseteq Files
<1>1. NewCheckpoint(s) \in Checkpoint /\ NewCheckpoint(s).setup = s
  BY DEF NewCheckpoint, Checkpoint
<1>2. ASSUME disk \in Checkpoint
      PROVE  /\ [disk EXCEPT !.setup = s] \in Checkpoint /\ [disk EXCEPT !.setup = s].setup = s
             /\ [NewCheckpoint(s) EXCEPT !.list = disk.list] \in Checkpoint
             /\ [NewCheckpoint(s) EXCEPT !.list = disk.list].setup = s
  BY <1>2 DEF NewCheckpoint, Checkpoint
<1>3. CarriedOver(s) \in Checkpoint /\ CarriedOver(s).setup = s
  BY <1>1, <1>2 DEF CarriedOver
<1>4. \A g \in Group : g.files \subseteq Files
  BY DEF Group
<1>5. Restored(s) \subseteq Files
  BY <1>3, <1>4 DEF Restored, FilesOf, Checkpoint
<1> QED BY <1>3, <1>5

\* The files of one content, and the names of one inode, are of one content.
LEMMA OneContent ==
  ASSUME NEW files \in SUBSET Files, NEW g \in GroupsOf(files)
  PROVE  /\ g.files \subseteq files /\ g.files # {} /\ g.hash \in Hash
         /\ \A f \in g.files : ContentOf[f] = g.hash
<1>1. PICK s : /\ Cardinality(s) >= 2 /\ g = [hash |-> ContentOf[CHOOSE f \in s : TRUE], files |-> s]
               /\ \/ \E f \in files : s = {h \in files : InodeOf[h] = InodeOf[f]}
                  \/ \E f \in files, single \in SUBSET files : s = {h \in single : ContentOf[h] = ContentOf[f]}
  BY DEF GroupsOf
<1>2. s # {} /\ s \subseteq files
  BY <1>1, FS_EmptySet
<1>3. \A f, h \in s : ContentOf[f] = ContentOf[h]
  BY <1>1, SetupAssumption DEF SetupAssumption
<1>4. (CHOOSE f \in s : TRUE) \in s
  BY <1>2
<1> QED BY <1>1, <1>2, <1>3, <1>4 DEF Hash

\* What hashing files finds and shows are groups.
LEMMA FoundType ==
  ASSUME list \subseteq Files,
         NEW part, \A g \in GroupsOf(list) : part[g] \subseteq Files
  PROVE  \A g \in GroupsOf(list) :
           LET h == [g EXCEPT !.files = g.files \intersect part[g]] IN Visible(h) => h \in Group
<1> TAKE g \in GroupsOf(list)
<1>1. g.files \subseteq list /\ g.hash \in Hash /\ \A f \in g.files : ContentOf[f] = g.hash
  BY OneContent
<1>2. g = [hash |-> g.hash, files |-> g.files]
  BY DEF GroupsOf
<1> QED BY <1>1, <1>2 DEF Visible, Group

\* Lists of groups.
LEMMA RowsType ==
  /\ NoRows \in Rows
  /\ \A groups \in SUBSET Group : Once(groups) \in Rows
  /\ \A rows, more \in Rows : Plus(rows, more) \in Rows
BY DEF NoRows, Once, Plus, Rows

\* The variables have their types at first.
LEMMA InitType == Init => TypeOK
<1> SUFFICES ASSUME Init PROVE TypeOK
  OBVIOUS
<1>1. state \in Checkpoint
  BY DEF Init, NewCheckpoint, Checkpoint
<1>2. saver \in Saver
  BY DEF Init, NoSaver, Saver, SaverLabels
<1>3. pauses \in 0..plan.pauses /\ kills \in 0..plan.kills /\ works \in 0..plan.works
  BY SetupAssumption DEF SetupAssumption, Init
<1>4. shown \in Rows /\ loading \in Loading
  BY RowsType DEF Init, NoLoading, Loading
<1> QED BY <1>1, <1>2, <1>3, <1>4 DEF Init, TypeOK, Threads, Labels

\* The type of what a step of the engine or of the worker saves.
LEMMA SaveType ==
  ASSUME TypeOK, NEW t \in Threads
  PROVE  /\ \A cp \in Checkpoint : BeginSave(t, cp) =>
              writing' \in [Threads -> Save \union {None}]
         /\ SaveStep(t) => TypeOK'
         /\ SaveFails(t) => TypeOK'
<1>1. ASSUME NEW cp \in Checkpoint, BeginSave(t, cp) PROVE writing' \in [Threads -> Save \union {None}]
  BY <1>1 DEF BeginSave, TypeOK, Save
<1>2. ASSUME SaveStep(t) PROVE TypeOK'
  <2>1. writing[t] \in Save /\ writing[t].cp \in Checkpoint
    BY <1>2 DEF SaveStep, Saving, TypeOK, Save
  <2>2. writing' \in [Threads -> Save \union {None}] /\ disk' \in {disk, tmp}
        /\ tmp' \in {Torn, None, writing[t].cp}
    BY <1>2, <2>1 DEF SaveStep, TypeOK, Save
  <2> QED BY <1>2, <2>1, <2>2 DEF SaveStep, TypeOK, engineVars, inputs, uiVars, deskVars, storeVars, bounds
<1>3. ASSUME SaveFails(t) PROVE TypeOK'
  BY <1>3 DEF SaveFails, TypeOK, engineVars, inputs, uiVars, deskVars, storeVars, bounds
<1> QED BY <1>1, <1>2, <1>3

\* A step of the engine keeps the types (list is a set of files where it is used),
LEMMA EngineType == TypeOK /\ Control /\ EngineStep => TypeOK'
<1> SUFFICES ASSUME TypeOK, Control, EngineStep PROVE TypeOK'
  OBVIOUS
<1>0. pc \in {"group"} \union WithSaver => list \subseteq Files
  BY DEF TypeOK, Control
<1> USE DEF engineVars, inputs, uiVars, deskVars, storeVars, bounds, EngineAt, GoTo
<1>1. CASE SaveMarker
  BY <1>1, SaveType DEF SaveMarker, TypeOK, Labels, Threads
<1>2. CASE AfterMarker
  BY <1>2 DEF AfterMarker, ReturnPaused, TypeOK, Labels
<1>3. CASE Walk
  <2>1. plan.admitted[setup] \subseteq Files
    BY SetupAssumption DEF SetupAssumption, TypeOK
  <2> QED BY <1>3, <2>1 DEF Walk, TypeOK, Labels
<1>4. CASE SaveList
  <2>1. state' \in Checkpoint
    BY <1>4 DEF SaveList, TypeOK, Checkpoint
  <2>2. BeginSave("engine", state') /\ pc' \in Labels /\ UNCHANGED <<disk, tmp, setup, cancel, uiVars, deskVars, storeVars, bounds, inputs, todo, saver>>
    BY <1>4 DEF SaveList, Labels
  <2>3. writing' \in [Threads -> Save \union {None}]
    BY <2>1, <2>2, SaveType DEF Threads
  <2> QED BY <2>1, <2>2, <2>3 DEF TypeOK
<1>5. CASE AfterList
  BY <1>5 DEF AfterList, ReturnPaused, TypeOK, Labels
<1>6. CASE GroupBySize
  BY <1>0, <1>6 DEF GroupBySize, Candidates, TypeOK, Labels
<1>7. CASE AfterGroup
  <2>1. \A g \in state.groups : g.hash \in Hash
    BY DEF TypeOK, Checkpoint, Group
  <2>2. [NoSaver EXCEPT !.at = "check"] \in Saver
    BY DEF NoSaver, Saver, SaverLabels
  <2> QED BY <1>7, <2>1, <2>2 DEF AfterGroup, ReturnPaused, TypeOK, Labels
<1>8. CASE TopOfLoop
  BY <1>8 DEF TopOfLoop, TypeOK, Labels
<1>9. CASE HashChunk
  <2>1. todo' \subseteq Group
    <3>1. PICK part : /\ \A g \in GroupsOf(list) : part[g] \subseteq Files
                      /\ todo' = {g \in {[h EXCEPT !.files = h.files \intersect part[h]] : h \in GroupsOf(list)}
                                    : Visible(g)}
      <4>1. \A g \in GroupsOf(list) : g.files \subseteq Files
        BY <1>0, <1>9 DEF HashChunk, WithSaver, GroupsOf
      <4> QED BY <1>0, <1>9, <4>1 DEF HashChunk, WithSaver
    <3> QED BY <1>0, <1>9, <3>1, FoundType DEF HashChunk, WithSaver
  <2> QED BY <1>9, <2>1 DEF HashChunk, TypeOK, Labels
<1>10. ASSUME NEW g \in todo, RecordGroup(g) PROVE TypeOK'
  <2>1. g \in Group /\ state' \in Checkpoint
    BY <1>10 DEF RecordGroup, TypeOK, Checkpoint
  <2> QED BY <1>10, <2>1 DEF RecordGroup, TypeOK
<1>11. CASE Enqueue
  <2>1. saver' \in Saver
    BY <1>11 DEF Enqueue, Snapshot, Notified, TypeOK, Saver
  <2> QED BY <1>11, <2>1 DEF Enqueue, TypeOK, Labels
<1>12. CASE Shutdown
  <2>1. saver' \in Saver
    BY <1>12 DEF Shutdown, Notified, TypeOK, Saver
  <2> QED BY <1>12, <2>1 DEF Shutdown, TypeOK
<1>13. CASE PauseSave
  <2>1. NoSaver \in Saver
    BY DEF NoSaver, Saver, SaverLabels
  <2>2. writing' \in [Threads -> Save \union {None}]
    BY <1>13, SaveType DEF PauseSave, TypeOK, Threads
  <2> QED BY <1>13, <2>1, <2>2 DEF PauseSave, TypeOK, Labels
<1>14. CASE AfterPause
  BY <1>14 DEF AfterPause, ReturnPaused, TypeOK, Labels
<1>15. CASE JoinSaver
  <2>1. NoSaver \in Saver
    BY DEF NoSaver, Saver, SaverLabels
  <2> QED BY <1>15, <2>1 DEF JoinSaver, TypeOK, Labels
<1>16. CASE FinishScan
  BY <1>16 DEF FinishScan, TypeOK, Labels
<1> QED BY <1>1, <1>2, <1>3, <1>4, <1>5, <1>6, <1>7, <1>8, <1>9, <1>10, <1>11, <1>12,
           <1>13, <1>14, <1>15, <1>16, SaveType DEF EngineStep, Threads

\* ... and so does a step of the worker.
LEMMA SaverType == TypeOK /\ SaverStep => TypeOK'
<1> SUFFICES ASSUME TypeOK, SaverStep PROVE TypeOK'
  OBVIOUS
<1> USE DEF engineVars, inputs, uiVars, deskVars, storeVars, bounds, SaverAt
<1>1. saver' \in Saver \/ SaveStep("saver") \/ SaveFails("saver")
  <2>1. saver \in Saver
    BY DEF TypeOK
  <2>2. CheckPending \/ Park \/ Wake => saver' \in Saver
    BY <2>1, ZenonT(60) DEF CheckPending, Park, Wake, Saver, SaverLabels
  <2>3. TimeOut \/ TakePending => saver' \in Saver
    BY <2>1 DEF TimeOut, TakePending, Saver, SaverLabels
  <2>4. CheckStop \/ DrainPending \/ DrainLive => saver' \in Saver
    BY <2>1 DEF CheckStop, DrainPending, DrainLive, Saver, SaverLabels
  <2> QED BY <2>2, <2>3, <2>4 DEF SaverStep
<1>2. writing' \in [Threads -> Save \union {None}]
      \/ SaveStep("saver") \/ SaveFails("saver")
  <2>1. saver.pending \in Checkpoint \union {None} /\ state \in Checkpoint
    BY DEF TypeOK, Saver
  <2>2. ASSUME UNCHANGED writing PROVE writing' \in [Threads -> Save \union {None}]
    BY <2>2 DEF TypeOK
  <2> QED BY <2>1, <2>2, SaveType DEF SaverStep, CheckPending, Park, Wake, TimeOut, TakePending, CheckStop,
             DrainPending, DrainLive, Threads
<1>3. CASE SaveStep("saver") \/ SaveFails("saver")
  BY <1>3, SaveType DEF Threads
<1> QED BY <1>1, <1>2, <1>3 DEF SaverStep, CheckPending, Park, Wake, TimeOut, TakePending, CheckStop,
           DrainPending, DrainLive, TypeOK

\* What the window does to a scan: it launches one, ...
Launches ==
  /\ \E s \in Setups : LaunchEngine(s)
  /\ ~ scanning
  /\ UNCHANGED <<fileVars, saver, bounds>>

\* ... renames the checkpoint, ...
Archives ==
  /\ disk' = None
  /\ "drift" \in dialogs \/ ~ scanning
  /\ UNCHANGED <<tmp, writing, pc, engineVars, saver, cancel, scanning, events, ended, bounds>>

\* ... or goes on beside it.
GoesOn ==
  /\ cancel' \in BOOLEAN /\ events' \subseteq events
  /\ pauses' \in {pauses, pauses + 1} /\ (pauses' = pauses + 1 => pauses < plan.pauses)
  /\ (scanning' = scanning \/ scanning' = FALSE)
  /\ UNCHANGED <<fileVars, pc, engineVars, saver, ended, plan, kills>>

WindowStep == UiStep \/ UserStep \/ WorkerStep

\* Every step of the window does one of these.
LEMMA WindowSteps ==
  ASSUME TypeOK, Window, WindowStep
  PROVE  Launches \/ Archives \/ GoesOn
<1> USE DEF fileVars, engineVars, inputs, uiVars, deskVars, storeVars, engineSide, bounds, Frame
<1>1. CASE UiStep
  BY <1>1 DEF UiStep, LearnEnd, SaveProjectRows, ShowGroup, GoesOn, TypeOK
<1>2. ASSUME NEW s \in Setups, NEW resumable, NEW keep, NEW table, NEW open,
             StartLive(s, resumable, keep, table, open), ~ scanning, UNCHANGED <<fileVars, saver, bounds>>
      PROVE  Launches \/ GoesOn
  BY <1>2 DEF StartLive, Launches, GoesOn, TypeOK
<1>3. CASE Start
  <2>1. chosen \in Setups
    BY <1>3 DEF Start, TypeOK
  <2> QED BY <1>2, <1>3, <2>1 DEF Start
<1>4. CASE Launch
  <2>1. chosen \in Setups /\ ~ scanning
    BY <1>4 DEF Launch, TypeOK, Window
  <2> QED BY <1>4, <2>1 DEF Launch, Launches
<1>5. CASE ContinueWithNew
  BY <1>5 DEF ContinueWithNew, Archives
<1>6. CASE StartFresh
  BY <1>6 DEF StartFresh, Archives, Window
<1>7. CASE Hydrate
  <2>1. loading.cp.setup \in Setups
    BY <1>7 DEF Hydrate, Window, TypeOK, Loading, Checkpoint
  <2>2. CASE scanning \/ "preflight" \in dialogs
    <3>1. UNCHANGED engineSide /\ UNCHANGED <<fileVars, saver, bounds>>
      BY <1>7, <2>2 DEF Hydrate
    <3> QED BY <3>1 DEF GoesOn, TypeOK
  <2>3. CASE ~ (scanning \/ "preflight" \in dialogs)
    <3> DEFINE resumable == Loadable /\ disk.setup = loading.cp.setup
               table == Plus(Plus(shown, Once(loading.cp.groups)), loading.saved)
    <3>1. StartLive(loading.cp.setup, resumable, TRUE, table, dialogs)
      BY <1>7, <2>3 DEF Hydrate
    <3> HIDE DEF resumable, table
    <3> QED BY <1>2, <1>7, <2>1, <2>3, <3>1 DEF Hydrate
  <2> QED BY <2>2, <2>3
<1>8. CASE Pause
  BY <1>8 DEF Pause, GoesOn, TypeOK
<1>9. CASE \/ \E d \in {"drift", "preflight"} : CancelDialog(d)
           \/ \E d \in {"resume", "drift"} : AcceptResume(d)
  BY <1>9 DEF CancelDialog, AcceptResume, GoesOn, TypeOK
<1>10. CASE (\E s \in Setups \union {None} : Edit(s)) \/ OpenProject \/ SaveProject
  BY <1>10 DEF Edit, OpenProject, SaveProject, GoesOn, TypeOK
<1>11. CASE LoadResume \/ \E r \in keeping : StoreResults(r)
  BY <1>11 DEF LoadResume, StoreResults, GoesOn, TypeOK
<1> QED BY <1>1, <1>3, <1>4, <1>5, <1>6, <1>7, <1>8, <1>9, <1>10, <1>11 DEF WindowStep, UserStep, WorkerStep

\* The types of what the window alone changes.
OwnTypes ==
  /\ shown \in Rows
  /\ chosen \in Setups \union {None}
  /\ dialogs \subseteq {"resume", "drift", "preflight"}
  /\ canResume \in BOOLEAN /\ effect \in BOOLEAN /\ saving \in BOOLEAN
  /\ loading \in Loading
  /\ results \in Results \union {None} /\ keeping \subseteq Results
  /\ bundle \in Results \union {None}
  /\ works \in 0..plan.works

LEMMA OwnType ==
  ASSUME TypeOK, Window, WindowStep
  PROVE  OwnTypes'
<1> USE DEF fileVars, engineVars, inputs, uiVars, deskVars, storeVars, engineSide, bounds, Frame
<1>0. OwnTypes
  BY DEF TypeOK, OwnTypes
<1>1. plan' = plan
  BY WindowSteps DEF Launches, Archives, GoesOn
<1>2. ASSUME works < plan.works PROVE works + 1 \in 0..plan.works
  BY <1>0, <1>2, SetupAssumption DEF SetupAssumption, OwnTypes, TypeOK
<1>3. CASE LearnEnd
  <2>1. CASE UNCHANGED <<keeping, works>>
    BY <1>0, <1>1, <1>3, <2>1 DEF LearnEnd, OwnTypes
  <2>2. CASE ended = "finished" /\ works < plan.works /\ works' = works + 1
             /\ keeping' = keeping \union {[setup |-> chosen, rows |-> shown]}
    <3>1. [setup |-> chosen, rows |-> shown] \in Results
      BY <1>0 DEF OwnTypes, Results
    <3> QED BY <1>0, <1>1, <1>2, <1>3, <2>2, <3>1 DEF LearnEnd, OwnTypes
  <2> QED BY <1>3, <2>1, <2>2 DEF LearnEnd
<1>4. CASE SaveProjectRows
  <2>1. bundle' \in Results
    BY <1>0, <1>4 DEF SaveProjectRows, Window, OwnTypes, Results
  <2> QED BY <1>0, <1>1, <1>4, <2>1 DEF SaveProjectRows, OwnTypes
<1>5. ASSUME NEW g \in events, ShowGroup(g) PROVE OwnTypes'
  <2>1. shown' \in Rows
    <3>1. shown' \in {shown, [shown EXCEPT ![g] = shown[g] + 1]}
      BY <1>5 DEF ShowGroup
    <3>2. shown \in [Group -> Nat] /\ g \in Group
      BY <1>0 DEF OwnTypes, Rows, TypeOK
    <3>3. shown[g] + 1 \in Nat
      BY <3>2
    <3> QED BY <3>1, <3>2, <3>3 DEF Rows
  <2> QED BY <1>0, <1>1, <1>5, <2>1 DEF ShowGroup, OwnTypes
<1>6. ASSUME NEW s, NEW resumable, NEW keep, NEW table \in Rows,
             StartLive(s, resumable, keep, table, dialogs)
      PROVE  shown' \in Rows /\ dialogs' \subseteq {"resume", "drift", "preflight"} /\ canResume' \in BOOLEAN
  BY <1>0, <1>6, RowsType DEF StartLive, OwnTypes
<1>7. CASE Start
  BY <1>0, <1>1, <1>6, <1>7 DEF Start, OwnTypes
<1>8. CASE Launch
  BY <1>0, <1>1, <1>8 DEF Launch, OwnTypes
<1>9. CASE ContinueWithNew \/ StartFresh
  BY <1>0, <1>1, <1>9, RowsType DEF ContinueWithNew, StartFresh, OwnTypes
<1>10. ASSUME NEW d, CancelDialog(d) \/ AcceptResume(d) PROVE OwnTypes'
  <2>1. [loading EXCEPT !.at = "asked"] \in Loading
    BY <1>0 DEF OwnTypes, Loading
  <2> QED BY <1>0, <1>1, <1>10, <2>1 DEF CancelDialog, AcceptResume, OwnTypes
<1>11. NoLoading \in Loading
  BY RowsType DEF NoLoading, Loading
<1>12. CASE LoadResume
  <2>1. Loadable => disk \in Checkpoint
    BY DEF Loadable, TypeOK
  <2>2. \A s : Matching(s) \in Rows
    BY <1>0, RowsType DEF Matching, OwnTypes, Results
  <2>3. loading' \in Loading
    BY <1>11, <1>12, <2>1, <2>2 DEF LoadResume, Loading
  <2> QED BY <1>0, <1>1, <1>12, <2>3 DEF LoadResume, OwnTypes
<1>13. CASE Hydrate
  <2> DEFINE resumable == Loadable /\ disk.setup = loading.cp.setup
             table == Plus(Plus(shown, Once(loading.cp.groups)), loading.saved)
  <2>1. loading.cp \in Checkpoint /\ loading.saved \in Rows
    BY <1>0, <1>13 DEF Hydrate, Window, OwnTypes, Loading
  <2>2. table \in Rows
    <3>1. loading.cp.groups \in SUBSET Group /\ shown \in Rows
      BY <1>0, <2>1 DEF Checkpoint, OwnTypes
    <3>2. Once(loading.cp.groups) \in Rows
      BY <3>1, RowsType
    <3>3. Plus(shown, Once(loading.cp.groups)) \in Rows
      BY <3>1, <3>2, RowsType
    <3> QED BY <2>1, <3>3, RowsType
  <2>3. resumable \in BOOLEAN
    BY DEF Loadable
  <2>4. \/ shown' = table /\ canResume' = resumable /\ UNCHANGED dialogs
        \/ StartLive(loading.cp.setup, resumable, TRUE, table, dialogs)
    BY <1>13 DEF Hydrate
  <2>5. loading.cp.setup \in Setups
    BY <2>1 DEF Checkpoint
  <2>6. loading' = NoLoading /\ effect' = TRUE /\ chosen' = loading.cp.setup /\ UNCHANGED storeVars
    BY <1>13 DEF Hydrate
  <2> HIDE DEF resumable, table
  <2>7. shown' \in Rows /\ dialogs' \subseteq {"resume", "drift", "preflight"} /\ canResume' \in BOOLEAN
    BY <1>0, <1>6, <2>2, <2>3, <2>4 DEF OwnTypes
  <2> QED BY <1>0, <1>1, <1>11, <2>5, <2>6, <2>7 DEF OwnTypes
<1>14. ASSUME NEW s \in Setups \union {None}, Edit(s) PROVE OwnTypes'
  BY <1>0, <1>1, <1>14, RowsType DEF Edit, OwnTypes
<1>15. CASE OpenProject
  <2>1. bundle.rows \in Rows /\ bundle.setup \in Setups \union {None}
    BY <1>0, <1>15 DEF OpenProject, OwnTypes, Results
  <2> QED BY <1>0, <1>1, <1>15, <2>1 DEF OpenProject, OwnTypes
<1>16. CASE SaveProject
  <2>1. bundle' \in Results
    <3>1. (IF bundle = None THEN NoRows ELSE bundle.rows) \in Rows
      BY <1>0, RowsType DEF OwnTypes, Results
    <3> QED BY <1>0, <1>16, <3>1 DEF SaveProject, OwnTypes, Results
  <2> QED BY <1>0, <1>1, <1>2, <1>16, <2>1 DEF SaveProject, OwnTypes
<1>17. CASE Pause
  BY <1>0, <1>1, <1>17 DEF Pause, OwnTypes
<1>18. ASSUME NEW r \in keeping, StoreResults(r) PROVE OwnTypes'
  BY <1>0, <1>1, <1>18 DEF StoreResults, OwnTypes
<1> QED BY <1>3, <1>4, <1>5, <1>7, <1>8, <1>9, <1>10, <1>12, <1>13, <1>14, <1>15, <1>16, <1>17, <1>18
           DEF WindowStep, UiStep, UserStep, WorkerStep

\* The window's steps and the kills keep the types.
LEMMA OtherType ==
  ASSUME TypeOK, Window, WindowStep \/ Kill \/ UNCHANGED vars
  PROVE  TypeOK'
<1> USE DEF fileVars, engineVars, inputs, uiVars, deskVars, storeVars, bounds
<1>1. CASE WindowStep
  <2>1. ASSUME Launches PROVE TypeOK'
    <3>1. PICK s \in Setups : LaunchEngine(s)
      BY <2>1 DEF Launches
    <3>2. CarriedOver(s) \in Checkpoint /\ Restored(s) \subseteq Files
      BY CarriedType DEF TypeOK
    <3> QED BY <1>1, <2>1, <3>1, <3>2, OwnType DEF OwnTypes, Launches, LaunchEngine, TypeOK, Checkpoint, Labels
  <2>2. ASSUME Archives PROVE TypeOK'
    BY <1>1, <2>2, OwnType DEF OwnTypes, Archives, TypeOK
  <2>3. ASSUME GoesOn PROVE TypeOK'
    <3>1. pauses' \in 0..plan.pauses
      BY <2>3, SetupAssumption DEF SetupAssumption, GoesOn, TypeOK
    <3> QED BY <1>1, <2>3, <3>1, OwnType, ZenonT(60) DEF OwnTypes, GoesOn, TypeOK
  <2> QED BY <1>1, <2>1, <2>2, <2>3, WindowSteps
<1>2. CASE Kill
  <2>1. NoSaver \in Saver /\ NewCheckpoint(setup) \in Checkpoint /\ NoLoading \in Loading
    BY RowsType DEF NoSaver, Saver, SaverLabels, NewCheckpoint, Checkpoint, TypeOK, NoLoading, Loading
  <2>2. kills' \in 0..plan.kills
    BY <1>2, SetupAssumption DEF SetupAssumption, Kill, TypeOK
  <2> QED BY <1>2, <2>1, <2>2, RowsType DEF Kill, TypeOK, Labels
<1>3. CASE UNCHANGED vars
  BY <1>3 DEF vars, TypeOK
<1> QED BY <1>1, <1>2, <1>3

\* Every step keeps the types.
LEMMA NextType == TypeOK /\ Control /\ Window /\ [Next]_vars => TypeOK'
BY EngineType, SaverType, OtherType DEF Next, WindowStep

-----------------------------------------------------------------------------
(* Who is where. *)

\* A step of the engine keeps Control: it starts the worker and joins it,
LEMMA EngineControl == TypeOK /\ Control /\ EngineStep => Control'
<1> SUFFICES ASSUME TypeOK, Control, EngineStep PROVE Control'
  OBVIOUS
<1> USE DEF engineVars, inputs, uiVars, deskVars, storeVars, bounds, EngineAt, GoTo, WithSaver, Listed, Saving
<1>0. writing \in [Threads -> Save \union {None}]
      /\ "engine" \in Threads /\ "saver" \in Threads /\ saver \in Saver /\ state \in Checkpoint
  BY DEF TypeOK, Threads
<1>1. CASE SaveMarker
  BY <1>0, <1>1 DEF SaveMarker, BeginSave, Control
<1>2. CASE AfterMarker
  BY <1>2 DEF AfterMarker, ReturnPaused, Control
<1>3. CASE Walk
  BY <1>3, SetupAssumption, NamesAssumption DEF Walk, SetupAssumption, NamesAssumption, Control, TypeOK
<1>4. CASE SaveList
  BY <1>0, <1>4 DEF SaveList, BeginSave, Control, Checkpoint
<1>5. CASE AfterList
  BY <1>5 DEF AfterList, ReturnPaused, Control
<1>6. CASE GroupBySize
  <2>1. list \subseteq Files
    BY <1>6 DEF GroupBySize, Control, TypeOK
  <2>2. Candidates # None
    BY <2>1, NamesAssumption DEF NamesAssumption, Candidates
  <2> QED BY <1>6, <2>2 DEF GroupBySize, Control
<1>7. CASE AfterGroup
  BY <1>7 DEF AfterGroup, ReturnPaused, NoSaver, Control
<1>8. CASE TopOfLoop
  BY <1>8 DEF TopOfLoop, Control
<1>9. CASE HashChunk
  BY <1>9 DEF HashChunk, Control
<1>10. ASSUME NEW g \in todo, RecordGroup(g) PROVE Control'
  BY <1>0, <1>10 DEF RecordGroup, Control, Checkpoint
<1>11. CASE Enqueue
  BY <1>0, <1>11 DEF Enqueue, Control, Saver
<1>12. CASE Shutdown
  BY <1>0, <1>12 DEF Shutdown, Control, Saver
<1>13. CASE PauseSave
  BY <1>0, <1>13 DEF PauseSave, BeginSave, SaverDone, NoSaver, Control
<1>14. CASE AfterPause
  BY <1>14 DEF AfterPause, ReturnPaused, Control
<1>15. CASE JoinSaver
  BY <1>15 DEF JoinSaver, SaverDone, NoSaver, Control
<1>16. CASE FinishScan
  BY <1>16 DEF FinishScan, Control
<1>17. CASE SaveStep("engine") \/ SaveFails("engine")
  BY <1>0, <1>17 DEF SaveStep, SaveFails, Control
<1> QED BY <1>1, <1>2, <1>3, <1>4, <1>5, <1>6, <1>7, <1>8, <1>9, <1>10, <1>11, <1>12,
           <1>13, <1>14, <1>15, <1>16, <1>17 DEF EngineStep

\* ... the worker leaves only when told to stop,
LEMMA SaverControl == TypeOK /\ Control /\ SaverStep => Control'
<1> SUFFICES ASSUME TypeOK, Control, SaverStep PROVE Control'
  OBVIOUS
<1> USE DEF engineVars, inputs, uiVars, deskVars, storeVars, bounds, SaverAt, WithSaver, Listed, Saving
<1>0. writing \in [Threads -> Save \union {None}]
      /\ "engine" \in Threads /\ "saver" \in Threads /\ saver \in Saver
  BY DEF TypeOK, Threads
<1>1. CASE CheckPending
  BY <1>0, <1>1 DEF CheckPending, Control, Saver
<1>2. CASE Park \/ Wake \/ TimeOut
  BY <1>0, <1>2 DEF Park, Wake, TimeOut, Control, Saver
<1>3. CASE TakePending
  BY <1>0, <1>3 DEF TakePending, BeginSave, Control, Saver
<1>4. CASE CheckStop
  BY <1>0, <1>4 DEF CheckStop, Control, Saver
<1>5. CASE DrainPending
  BY <1>0, <1>5 DEF DrainPending, BeginSave, Control, Saver
<1>6. CASE DrainLive
  BY <1>0, <1>6 DEF DrainLive, BeginSave, Control, Saver
<1>7. CASE SaveStep("saver") \/ SaveFails("saver")
  BY <1>0, <1>7 DEF SaveStep, SaveFails, Control
<1> QED BY <1>1, <1>2, <1>3, <1>4, <1>5, <1>6, <1>7 DEF SaverStep

\* ... a launch meets no worker, and a kill leaves none.
LEMMA OtherControl ==
  ASSUME TypeOK, Control, Window, WindowStep \/ Kill \/ UNCHANGED vars
  PROVE  Control'
<1> USE DEF fileVars, engineVars, inputs, WithSaver, Listed, Saving
<1>1. CASE Launches
  <2>1. PICK s \in Setups : LaunchEngine(s)
    BY <1>1 DEF Launches
  <2>2. CarriedOver(s).setup = s /\ pc = "idle"
    BY <1>1, CarriedType DEF Launches, Window, TypeOK
  <2> QED BY <1>1, <2>1, <2>2 DEF Launches, LaunchEngine, Control
<1>2. CASE Archives \/ GoesOn
  BY <1>2 DEF Archives, GoesOn, Control
<1>3. CASE Kill
  BY <1>3 DEF Kill, NoSaver, NewCheckpoint, Threads, Control
<1>4. CASE UNCHANGED vars
  BY <1>4 DEF vars, Control
<1> QED BY <1>1, <1>2, <1>3, <1>4, WindowSteps

\* Every step keeps Control.
LEMMA NextControl == TypeOK /\ Control /\ Window /\ [Next]_vars => Control'
BY EngineControl, SaverControl, OtherControl DEF Next, WindowStep

-----------------------------------------------------------------------------
(* The window. *)

\* What the engine and the worker do leaves it to the window to see that a scan ended.
LEMMA ThreadsWindow ==
  ASSUME TypeOK, Control, Window, EngineStep \/ SaverStep
  PROVE  Window'
<1> USE DEF engineVars, inputs, uiVars, deskVars, storeVars, bounds
<1>1. UNCHANGED <<scanning, dialogs, loading, saving, bundle, plan>>
  BY DEF EngineStep, SaverStep, EngineAt, SaverAt, SaveMarker, AfterMarker, Walk, SaveList, AfterList,
         GroupBySize, AfterGroup, TopOfLoop, HashChunk, RecordGroup, Enqueue, Shutdown, PauseSave,
         AfterPause, JoinSaver, FinishScan, SaveStep, SaveFails, CheckPending, Park, Wake, TimeOut,
         TakePending, CheckStop, DrainPending, DrainLive
<1>2. SaverStep => UNCHANGED <<pc, ended>>
  BY DEF SaverStep, SaverAt, SaveStep, SaveFails, CheckPending, Park, Wake, TimeOut, TakePending,
         CheckStop, DrainPending, DrainLive
<1>3. EngineStep => UNCHANGED <<pc, ended>> \/ (pc # "idle" /\ (pc' = "idle" \/ UNCHANGED ended))
  <2> USE DEF EngineAt, GoTo, ReturnPaused
  <2>1. CASE SaveMarker \/ AfterMarker \/ Walk \/ SaveList \/ AfterList \/ GroupBySize \/ AfterGroup
    BY <2>1 DEF SaveMarker, AfterMarker, Walk, SaveList, AfterList, GroupBySize, AfterGroup
  <2>2. CASE TopOfLoop \/ HashChunk \/ (\E g \in todo : RecordGroup(g)) \/ Enqueue
    BY <2>2 DEF TopOfLoop, HashChunk, RecordGroup, Enqueue
  <2>3. CASE Shutdown \/ PauseSave \/ AfterPause \/ JoinSaver \/ FinishScan
    BY <2>3 DEF Shutdown, PauseSave, AfterPause, JoinSaver, FinishScan
  <2>4. CASE SaveStep("engine") \/ SaveFails("engine")
    BY <2>4 DEF SaveStep, SaveFails
  <2> QED BY <2>1, <2>2, <2>3, <2>4 DEF EngineStep
<1> QED BY <1>1, <1>2, <1>3 DEF Window

\* Dialogs open one after the other.
LEMMA OtherWindow ==
  ASSUME TypeOK, Control, Window, WindowStep \/ Kill \/ UNCHANGED vars
  PROVE  Window'
<1> USE DEF fileVars, engineVars, inputs, uiVars, deskVars, storeVars, engineSide, bounds, Frame
<1>1. CASE LearnEnd \/ SaveProjectRows \/ (\E g \in events : ShowGroup(g))
  <2>1. bundle \in Results \union {None} /\ (saving' => UNCHANGED <<saving, bundle>>)
    BY <1>1 DEF LearnEnd, SaveProjectRows, ShowGroup, TypeOK
  <2> QED BY <1>1, <2>1 DEF LearnEnd, SaveProjectRows, ShowGroup, Window
<1>2. CASE Start
  BY <1>2 DEF Start, StartLive, LaunchEngine, Settled, Window
<1>3. CASE Launch
  BY <1>3 DEF Launch, LaunchEngine, Window
<1>4. CASE ContinueWithNew \/ StartFresh
  BY <1>4 DEF ContinueWithNew, StartFresh, Window
<1>5. ASSUME NEW d \in {"drift", "preflight"}, CancelDialog(d) PROVE Window'
  BY <1>5 DEF CancelDialog, Window
<1>6. ASSUME NEW d \in {"resume", "drift"}, AcceptResume(d) PROVE Window'
  <2>1. loading'.at \in {"asked", loading.at} /\ loading'.cp = loading.cp
    BY <1>6 DEF AcceptResume, TypeOK, Loading
  <2>2. loading'.at = "read" => loading.at = "read"
    BY <2>1
  <2>3. dialogs \subseteq {"resume", "drift", "preflight"}
    BY DEF TypeOK
  <2>4. "resume" \notin dialogs'
    BY <1>6 DEF AcceptResume, Window
  <2> QED BY <1>6, <2>1, <2>2, <2>3, <2>4 DEF AcceptResume, Window
<1>7. CASE LoadResume
  <2>1. loading'.at = "read" => loading'.cp # None
    BY <1>7 DEF LoadResume, Loadable, NoLoading
  <2> QED BY <1>7, <2>1 DEF LoadResume, NoLoading, Window
<1>8. CASE Hydrate
  <2>1. loading' = NoLoading /\ loading.at = "read" /\ "resume" \notin dialogs
    BY <1>8 DEF Hydrate
  <2>2. CASE scanning \/ "preflight" \in dialogs
    <3>1. UNCHANGED <<engineSide, dialogs, saving, bundle, plan>>
      BY <1>8, <2>2 DEF Hydrate
    <3> QED BY <2>1, <3>1 DEF NoLoading, Window
  <2>3. CASE ~ (scanning \/ "preflight" \in dialogs)
    <3> DEFINE resumable == Loadable /\ disk.setup = loading.cp.setup
               table == Plus(Plus(shown, Once(loading.cp.groups)), loading.saved)
    <3>1. StartLive(loading.cp.setup, resumable, TRUE, table, dialogs)
      BY <1>8, <2>3 DEF Hydrate
    <3> HIDE DEF resumable, table
    <3> QED BY <1>8, <2>1, <2>3, <3>1 DEF Hydrate, StartLive, LaunchEngine, NoLoading, Window
  <2> QED BY <2>2, <2>3
<1>9. CASE (\E s \in Setups \union {None} : Edit(s)) \/ OpenProject \/ Pause
           \/ \E r \in keeping : StoreResults(r)
  BY <1>9 DEF Edit, OpenProject, Pause, StoreResults, Window
<1>10. CASE SaveProject
  <2>1. bundle' \in Results
    <3>1. (IF bundle = None THEN NoRows ELSE bundle.rows) \in Rows
      BY RowsType DEF TypeOK, Results
    <3> QED BY <1>10, <3>1 DEF SaveProject, TypeOK, Results
  <2> QED BY <1>10, <2>1, NamesAssumption DEF NamesAssumption, SaveProject, Window
<1>11. CASE Kill
  BY <1>11 DEF Kill, NoLoading, Window
<1>12. CASE UNCHANGED vars
  BY <1>12 DEF vars, Window
<1> QED BY <1>1, <1>2, <1>3, <1>4, <1>5, <1>6, <1>7, <1>8, <1>9, <1>10, <1>11, <1>12
           DEF WindowStep, UiStep, UserStep, WorkerStep

\* Every step keeps Window.
LEMMA NextWindow == TypeOK /\ Control /\ Window /\ [Next]_vars => Window'
BY ThreadsWindow, OtherWindow DEF Next, WindowStep

-----------------------------------------------------------------------------
(* What is being saved. *)

\* The types the steps below rely on.
LEMMA Parts ==
  ASSUME TypeOK
  PROVE  /\ writing \in [Threads -> Save \union {None}]
         /\ "engine" \in Threads /\ "saver" \in Threads
         /\ saver \in Saver /\ state \in Checkpoint
         /\ \A cp \in Checkpoint : cp # None /\ cp # Torn
         /\ \A save \in Save : save # None
BY NamesAssumption DEF NamesAssumption, TypeOK, Threads

\* A thread begins to save.
LEMMA Begun ==
  ASSUME TypeOK, NEW t \in Threads, NEW cp \in Checkpoint, BeginSave(t, cp)
  PROVE  /\ writing'[t] # None /\ writing'[t].cp = cp /\ writing'[t].at = "truncate"
         /\ \A u \in Threads \ {t} : writing'[u] = writing[u]
<1>1. writing'[t] = [cp |-> cp, at |-> "truncate"] /\ \A u \in Threads \ {t} : writing'[u] = writing[u]
  BY DEF BeginSave, TypeOK
<1>2. [cp |-> cp, at |-> "truncate"] \in Save
  BY DEF Save
<1> QED BY <1>1, <1>2, Parts

\* A step of the engine keeps Pipeline: while it saves, no state changes and the
\* worker is not there,
LEMMA EnginePipeline == TypeOK /\ Control /\ Pipeline /\ EngineStep => Pipeline'
<1> SUFFICES ASSUME TypeOK, Control, Pipeline, EngineStep PROVE Pipeline'
  OBVIOUS
<1> USE Parts DEF engineVars, inputs, uiVars, deskVars, storeVars, bounds, EngineAt, GoTo, WithSaver, Saving, Snapped
<1>1. CASE SaveMarker
  BY <1>1, Begun DEF SaveMarker, Control, Pipeline, Threads
<1>2. CASE AfterMarker \/ Walk \/ AfterList \/ GroupBySize
  BY <1>2 DEF AfterMarker, Walk, AfterList, GroupBySize, ReturnPaused, Control, Pipeline
<1>4. CASE SaveList
  <2>1. state' \in Checkpoint
    BY <1>4 DEF SaveList, TypeOK, Checkpoint
  <2>2. ~ Saving("saver") /\ saver.pending = None
    BY <1>4 DEF SaveList, Control, Pipeline
  <2> QED BY <1>4, <2>1, <2>2, Begun DEF SaveList, Control, Pipeline, Threads
<1>7. CASE AfterGroup
  BY <1>7 DEF AfterGroup, ReturnPaused, NoSaver, Control, Pipeline
<1>8. CASE TopOfLoop \/ HashChunk
  BY <1>8 DEF TopOfLoop, HashChunk, Control, Pipeline
<1>10. ASSUME NEW g \in todo, RecordGroup(g) PROVE Pipeline'
  BY <1>10 DEF RecordGroup, Control, Pipeline, Checkpoint
<1>11. CASE Enqueue
  BY <1>11 DEF Enqueue, Snapshot, Control, Pipeline, Saver, Checkpoint
<1>12. CASE Shutdown
  BY <1>12 DEF Shutdown, Control, Pipeline, Saver
<1>13. CASE PauseSave
  BY <1>13, Begun DEF PauseSave, SaverDone, NoSaver, Control, Pipeline, Threads
<1>14. CASE AfterPause
  BY <1>14 DEF AfterPause, ReturnPaused, Control, Pipeline
<1>15. CASE JoinSaver
  BY <1>15 DEF JoinSaver, SaverDone, NoSaver, Control, Pipeline
<1>16. CASE FinishScan
  BY <1>16, NamesAssumption DEF NamesAssumption, FinishScan, Control, Pipeline
<1>17. CASE SaveStep("engine") \/ SaveFails("engine")
  BY <1>17, NamesAssumption DEF NamesAssumption, SaveStep, SaveFails, Control, Pipeline, Threads, Save
<1> QED BY <1>1, <1>2, <1>4, <1>7, <1>8, <1>10, <1>11, <1>12,
           <1>13, <1>14, <1>15, <1>16, <1>17 DEF EngineStep

\* ... the worker saves what it was given, or the state as it is,
LEMMA SaverPipeline == TypeOK /\ Control /\ Pipeline /\ SaverStep => Pipeline'
<1> SUFFICES ASSUME TypeOK, Control, Pipeline, SaverStep PROVE Pipeline'
  OBVIOUS
<1> USE Parts DEF engineVars, inputs, uiVars, deskVars, storeVars, bounds, SaverAt, WithSaver, Saving, Snapped
<1>1. CASE CheckPending \/ Park \/ Wake \/ TimeOut \/ CheckStop
  <2>1. saver'.pending = saver.pending /\ saver'.at # "gone" /\ UNCHANGED <<disk, tmp, writing, setup, state>>
    BY <1>1 DEF CheckPending, Park, Wake, TimeOut, CheckStop, Saver
  <2> QED BY <2>1 DEF Pipeline
<1>2. ASSUME NEW cp \in Checkpoint, Snapped(cp), BeginSave("saver", cp), SaverAt(saver.at),
             saver.at # "off", saver'.pending = None, saver'.at = "gone" => cp = state
      PROVE  Pipeline'
  <2>1. ~ Saving("engine") /\ writing'["engine"] = writing["engine"]
    BY <1>2, Begun DEF Control, Threads
  <2> QED BY <1>2, <2>1, Begun DEF Pipeline, Threads
<1>3. Snapped(state) /\ (saver.pending # None => saver.pending \in Checkpoint /\ Snapped(saver.pending))
  BY DEF Control, Pipeline, Saver
<1>4. ASSUME UNCHANGED writing, TakePending \/ DrainPending PROVE Pipeline'
  BY <1>4 DEF TakePending, DrainPending, Control, Pipeline, Saver
<1>5. CASE TakePending
  BY <1>2, <1>3, <1>4, <1>5 DEF TakePending, Saver
<1>6. CASE DrainPending
  BY <1>2, <1>3, <1>4, <1>6 DEF DrainPending, Saver
<1>7. CASE DrainLive
  <2>1. saver.pending = None /\ saver'.pending = None
    BY <1>7 DEF DrainLive, Control, Saver
  <2> QED BY <1>2, <1>3, <1>7, <2>1 DEF DrainLive, Saver
<1>8. CASE SaveStep("saver") \/ SaveFails("saver")
  BY <1>8, NamesAssumption DEF NamesAssumption, SaveStep, SaveFails, Control, Pipeline, Threads, Save
<1> QED BY <1>1, <1>5, <1>6, <1>7, <1>8 DEF SaverStep

\* ... and nobody else saves.
LEMMA OtherPipeline ==
  ASSUME TypeOK, Control, Window, Pipeline, WindowStep \/ Kill \/ UNCHANGED vars
  PROVE  Pipeline'
<1> USE DEF fileVars, engineVars, inputs, WithSaver, Saving, Snapped
<1>1. CASE Launches
  BY <1>1 DEF Launches, LaunchEngine, Window, Control, Pipeline
<1>2. CASE Archives \/ GoesOn
  BY <1>2, NamesAssumption DEF NamesAssumption, Archives, GoesOn, Pipeline
<1>3. CASE Kill
  BY <1>3, NamesAssumption DEF NamesAssumption, Kill, NoSaver, Threads, Pipeline
<1>4. CASE UNCHANGED vars
  BY <1>4 DEF vars, Pipeline
<1> QED BY <1>1, <1>2, <1>3, <1>4, WindowSteps

\* Every step keeps Pipeline.
LEMMA NextPipeline == TypeOK /\ Control /\ Window /\ Pipeline /\ [Next]_vars => Pipeline'
BY EnginePipeline, SaverPipeline, OtherPipeline DEF Next, WindowStep

-----------------------------------------------------------------------------
(* What is on disk, if saves do not fail. *)

\* A step of the engine keeps Disk: from the save after the walk on the list is there,
LEMMA EngineDisk ==
  TypeOK /\ Control /\ Pipeline /\ Disk /\ Steady /\ EngineStep => Disk'
<1> SUFFICES ASSUME TypeOK, Control, Pipeline, Disk, Steady, EngineStep PROVE Disk'
  OBVIOUS
<1> USE Parts DEF engineVars, inputs, uiVars, deskVars, storeVars, bounds, EngineAt, GoTo, WithSaver, Listed, Saving, Snapped, Foreign
<1>1. CASE SaveMarker
  BY <1>1, Begun DEF SaveMarker, Control, Disk, Threads
<1>2. CASE AfterMarker \/ Walk \/ AfterList \/ GroupBySize
  BY <1>2 DEF AfterMarker, Walk, AfterList, GroupBySize, ReturnPaused, Control, Disk
<1>4. CASE SaveList
  <2>1. state' \in Checkpoint
    BY <1>4 DEF SaveList, TypeOK, Checkpoint
  <2>2. ~ Saving("saver") /\ saver.pending = None
    BY <1>4 DEF SaveList, Control
  <2> QED BY <1>4, <2>1, <2>2, Begun DEF SaveList, Control, Disk, Threads, Checkpoint
<1>7. CASE AfterGroup
  BY <1>7 DEF AfterGroup, ReturnPaused, NoSaver, Control, Disk
<1>8. CASE TopOfLoop \/ HashChunk
  BY <1>8 DEF TopOfLoop, HashChunk, Control, Disk
<1>10. ASSUME NEW g \in todo, RecordGroup(g) PROVE Disk'
  BY <1>10 DEF RecordGroup, Control, Disk, Checkpoint
<1>11. CASE Enqueue
  BY <1>11 DEF Enqueue, Snapshot, Control, Disk, Pipeline, Saver, Checkpoint
<1>12. CASE Shutdown
  BY <1>12 DEF Shutdown, Control, Disk, Saver
<1>13. CASE PauseSave
  BY <1>13, Begun DEF PauseSave, SaverDone, NoSaver, Control, Disk, Threads
<1>14. CASE AfterPause
  BY <1>14 DEF AfterPause, ReturnPaused, Control, Disk
<1>15. CASE JoinSaver
  BY <1>15 DEF JoinSaver, SaverDone, NoSaver, Control, Disk
<1>16. CASE FinishScan
  BY <1>16 DEF FinishScan, Control, Disk
<1>17. CASE SaveStep("engine")
  <2>1. ~ Saving("saver") /\ saver.pending = None
    BY <1>17 DEF SaveStep, Control
  <2>2. ASSUME writing["engine"].at = "rename" PROVE Disk'
    <3>1. disk' = state /\ ~ Saving("engine")' /\ UNCHANGED <<state, saver, pc, setup>>
      BY <1>17, <2>2 DEF SaveStep, Pipeline
    <3> QED BY <1>17, <2>1, <3>1 DEF SaveStep, Control, Disk, Threads
  <2>3. ASSUME writing["engine"].at # "rename" PROVE Disk'
    BY <1>17, <2>1, <2>3 DEF SaveStep, Control, Disk, Threads, Save
  <2> QED BY <2>2, <2>3
<1>18. CASE SaveFails("engine")
  BY <1>18 DEF SaveFails, Steady
<1> QED BY <1>1, <1>2, <1>4, <1>7, <1>8, <1>10, <1>11, <1>12,
           <1>13, <1>14, <1>15, <1>16, <1>17, <1>18 DEF EngineStep

\* ... the worker replaces a checkpoint by one that has no less,
LEMMA SaverDisk ==
  TypeOK /\ Control /\ Pipeline /\ Disk /\ Steady /\ SaverStep => Disk'
<1> SUFFICES ASSUME TypeOK, Control, Pipeline, Disk, Steady, SaverStep PROVE Disk'
  OBVIOUS
<1> USE Parts DEF engineVars, inputs, uiVars, deskVars, storeVars, bounds, SaverAt, WithSaver, Listed, Saving, Snapped, Foreign
<1>1. CASE CheckPending \/ Park \/ Wake \/ TimeOut \/ CheckStop
  <2>1. saver'.pending = saver.pending /\ saver'.at # "gone" /\ UNCHANGED <<disk, writing, setup, state, pc>>
    BY <1>1 DEF CheckPending, Park, Wake, TimeOut, CheckStop, Saver
  <2> QED BY <2>1 DEF Disk
<1>2. ASSUME NEW cp \in Checkpoint, BeginSave("saver", cp), disk # None => disk.groups \subseteq cp.groups,
             SaverAt(saver.at), saver.at # "off", saver'.pending = None
      PROVE  Disk'
  <2>1. pc \in WithSaver /\ pc' = pc /\ UNCHANGED <<disk, setup, state>>
    BY <1>2 DEF Control
  <2>2. writing'["saver"] # None /\ writing'["saver"].cp = cp
    BY <1>2, Begun
  <2> QED BY <1>2, <2>1, <2>2 DEF Disk
<1>3. saver.at # "off" => pc \in WithSaver /\ disk # None /\ disk.groups \subseteq state.groups
  BY DEF Control, Disk
<1>4. saver.pending # None => saver.pending \in Checkpoint /\ disk.groups \subseteq saver.pending.groups
  BY DEF Disk, Saver
<1>5. ASSUME UNCHANGED writing, TakePending \/ DrainPending PROVE Disk'
  BY <1>5 DEF TakePending, DrainPending, Control, Disk, Saver
<1>6. CASE TakePending
  BY <1>2, <1>3, <1>4, <1>5, <1>6 DEF TakePending, Saver
<1>7. CASE DrainPending
  BY <1>2, <1>3, <1>4, <1>5, <1>7 DEF DrainPending, Saver
<1>8. CASE DrainLive
  <2>1. saver'.pending = None
    BY <1>8 DEF DrainLive, Control, Saver
  <2> QED BY <1>2, <1>3, <1>8, <2>1 DEF DrainLive, Saver
<1>9. CASE SaveStep("saver")
  <2>1. pc \in WithSaver /\ ~ Saving("engine") /\ ~ Saving("engine")'
    BY <1>9 DEF SaveStep, Control, Threads
  <2>2. ASSUME writing["saver"].at = "rename" PROVE Disk'
    <3>1. disk' = writing["saver"].cp /\ disk' \in Checkpoint /\ ~ Saving("saver")'
          /\ UNCHANGED <<state, saver, pc, setup>>
      BY <1>9, <2>2 DEF SaveStep, Pipeline, Save
    <3>2. Snapped(disk') /\ (saver.at = "gone" => disk' = state)
      BY <1>9, <3>1 DEF SaveStep, Pipeline
    <3>3. saver.pending # None => disk'.groups \subseteq saver.pending.groups
      BY <1>9, <3>1 DEF SaveStep, Disk
    <3> QED BY <2>1, <3>1, <3>2, <3>3 DEF Disk
  <2>3. ASSUME writing["saver"].at # "rename" PROVE Disk'
    <3>1. writing'["saver"] # None /\ writing'["saver"].cp = writing["saver"].cp
          /\ UNCHANGED <<disk, state, saver, pc, setup>>
      <4>1. writing["saver"] \in Save /\ writing'["saver"] = [writing["saver"] EXCEPT !.at = writing'["saver"].at]
            /\ writing'["saver"].at \in {"write", "rename"}
        BY <1>9, <2>3 DEF SaveStep, Save
      <4>2. writing'["saver"] \in Save
        BY <4>1 DEF Save
      <4> QED BY <1>9, <2>3, <4>1, <4>2 DEF SaveStep, Save
    <3> QED BY <1>9, <2>1, <3>1 DEF SaveStep, Disk
  <2> QED BY <2>2, <2>3
<1>10. CASE SaveFails("saver")
  BY <1>10 DEF SaveFails, Steady
<1> QED BY <1>1, <1>6, <1>7, <1>8, <1>9, <1>10 DEF SaverStep

\* A scan starts with the groups on disk, or with none.
LEMMA CarriedGroups ==
  ASSUME NEW s \in Setups, disk \in Checkpoint
  PROVE  CarriedOver(s).groups \in {disk.groups, {}}
BY NamesAssumption DEF NamesAssumption, CarriedOver, NewCheckpoint, Checkpoint

\* ... and a new scan carries the groups over or is foreign to them.
LEMMA OtherDisk ==
  ASSUME TypeOK, Control, Window, Pipeline, Disk, Steady, WindowStep \/ Kill \/ UNCHANGED vars
  PROVE  Disk'
<1> USE Parts DEF fileVars, engineVars, inputs, WithSaver, Listed, Saving, Foreign
<1>1. CASE Launches
  <2>1. PICK s \in Setups : LaunchEngine(s)
    BY <1>1 DEF Launches
  <2>2. disk # None => CarriedOver(s).groups \in {disk.groups, {}}
    BY CarriedGroups DEF TypeOK, Pipeline
  <2>3. pc = "idle" /\ UNCHANGED <<fileVars, saver>>
    BY <1>1 DEF Launches, Window
  <2>4. ~ Saving("saver") /\ saver.pending = None /\ saver.at = "off"
    BY <2>3 DEF Control
  <2> QED BY <2>1, <2>2, <2>3, <2>4 DEF LaunchEngine, Disk
<1>2. CASE Archives
  <2>1. pc = "idle"
    BY <1>2 DEF Archives, Window, Steady
  <2> QED BY <1>2, <2>1 DEF Archives, Control, Disk
<1>3. CASE GoesOn
  BY <1>3 DEF GoesOn, Disk
<1>4. CASE Kill
  BY <1>4 DEF Kill, NoSaver, Threads, Disk
<1>5. CASE UNCHANGED vars
  BY <1>5 DEF vars, Disk
<1> QED BY <1>1, <1>2, <1>3, <1>4, <1>5, WindowSteps

\* No step changes the plan.
LEMMA PlanStays == TypeOK /\ Window /\ [Next]_vars => plan' = plan
<1> SUFFICES ASSUME TypeOK, Window, [Next]_vars PROVE plan' = plan
  OBVIOUS
<1>1. CASE EngineStep \/ SaverStep
  BY <1>1 DEF EngineStep, SaverStep, EngineAt, SaverAt, SaveMarker, AfterMarker, Walk, SaveList, AfterList,
     GroupBySize, AfterGroup, TopOfLoop, HashChunk, RecordGroup, Enqueue, Shutdown, PauseSave, AfterPause,
     JoinSaver, FinishScan, SaveStep, SaveFails, CheckPending, Park, Wake, TimeOut, TakePending, CheckStop,
     DrainPending, DrainLive, bounds
<1>2. CASE WindowStep
  BY <1>2, WindowSteps DEF Launches, Archives, GoesOn, bounds
<1>3. CASE Kill \/ UNCHANGED vars
  BY <1>3 DEF Kill, vars, bounds
<1> QED BY <1>1, <1>2, <1>3 DEF Next, WindowStep

\* The invariant holds at first.
LEMMA InitInv == Init => IInv
<1> SUFFICES ASSUME Init PROVE IInv
  OBVIOUS
<1> QED BY InitType, NamesAssumption DEF NamesAssumption, Init, IInv, Control, Window, Pipeline, Disk, NoSaver,
        NewCheckpoint, NoLoading, Saving, Threads, WithSaver, Listed

\* Every step keeps the invariant.
LEMMA StepInv == IInv /\ [Next]_vars => IInv'
<1> SUFFICES ASSUME IInv, [Next]_vars PROVE IInv'
  OBVIOUS
<1>1. TypeOK' /\ Control' /\ Window' /\ Pipeline'
  BY NextType, NextControl, NextWindow, NextPipeline DEF IInv
<1>2. Steady => Disk'
  BY EngineDisk, SaverDisk, OtherDisk DEF IInv, Next, WindowStep
<1> QED BY <1>1, <1>2, PlanStays DEF IInv, Steady

\* The engine and the worker never save at one time, every save ends with its own
\* checkpoint, and the disk holds what the scan under way last saved.
THEOREM Invariance == Spec => []IInv
BY InitInv, StepInv, PTL DEF Spec

\* Once the list is saved it stays on disk to the end of the scan, whatever the engine
\* and the worker save one after the other (live.rs, the save after the walk).
THEOREM ListKept == Spec => []ListSurvives
<1>1. IInv => ListSurvives
  BY NamesAssumption DEF NamesAssumption, IInv, Control, Pipeline, Disk, ListSurvives, OnDisk, Loadable, Listed, WithSaver
<1> QED BY <1>1, Invariance, PTL

\* A save worker that was shut down has left the latest state on disk, whatever it was
\* doing when it was told to stop (checkpoint.rs, SaveWorker::shutdown).
THEOREM Drained == Spec => []DrainedOnShutdown
<1>1. IInv => DrainedOnShutdown
  BY DEF IInv, Pipeline, Disk, DrainedOnShutdown, SaverDone, OnDisk, Loadable
<1> QED BY <1>1, Invariance, PTL

-----------------------------------------------------------------------------
(* What is given up. *)

\* If the user waits, a scan starts with all that is on disk for its setup, and what is
\* saved next never has less than the disk, whatever saves fail.
Growing ==
  /\ ~ canResume
  /\ "preflight" \in dialogs /\ disk # None => disk.setup = chosen
  /\ pc # "idle" /\ disk # None => disk.groups \subseteq state.groups
  /\ Saving("saver") /\ disk # None => disk.groups \subseteq writing["saver"].cp.groups
  /\ saver.pending # None /\ disk # None => disk.groups \subseteq saver.pending.groups
  /\ Saving("saver") /\ saver.pending # None =>
       writing["saver"].cp.groups \subseteq saver.pending.groups

\* What a step does to the checkpoint of a paused scan.
Asked ==
  OnDisk =>
    \/ OnDisk' /\ disk.groups \subseteq disk'.groups
    \/ pc = "delete"
    \/ \E d \in {"resume", "drift"} : d \in dialogs /\ d \notin dialogs'

\* A step of the engine saves what it knows, ...
LEMMA EngineGrowing ==
  ASSUME IInv, Growing, EngineStep
  PROVE  Growing' /\ Asked
<1>0. TypeOK /\ Control /\ Window /\ Pipeline
  BY DEF IInv
<1> USE Parts, <1>0 DEF engineVars, inputs, deskVars, EngineAt, GoTo, WithSaver, Saving, Snapped, OnDisk, Loadable,
                        Asked, Growing
<1>1. pc # "idle" /\ "preflight" \notin dialogs
  BY DEF EngineStep, SaveMarker, AfterMarker, Walk, SaveList, AfterList, GroupBySize, AfterGroup, TopOfLoop,
         HashChunk, RecordGroup, Enqueue, Shutdown, PauseSave, AfterPause, JoinSaver, FinishScan, SaveStep,
         SaveFails, Control, Window
<1>2. CASE SaveMarker
  BY <1>1, <1>2, Begun DEF SaveMarker, Control, Threads
<1>3. CASE AfterMarker \/ Walk \/ AfterList \/ GroupBySize
  BY <1>1, <1>3 DEF AfterMarker, Walk, AfterList, GroupBySize, ReturnPaused
<1>4. CASE SaveList
  <2>1. state' \in Checkpoint /\ state'.groups = state.groups
    BY <1>4 DEF SaveList, TypeOK, Checkpoint
  <2>2. ~ Saving("saver") /\ saver.pending = None
    BY <1>4 DEF SaveList, Control
  <2> QED BY <1>1, <1>4, <2>1, <2>2, Begun DEF SaveList, Threads
<1>5. CASE AfterGroup
  BY <1>1, <1>5 DEF AfterGroup, ReturnPaused, NoSaver, Control
<1>6. CASE TopOfLoop \/ HashChunk \/ AfterPause
  BY <1>1, <1>6 DEF TopOfLoop, HashChunk, AfterPause, ReturnPaused
<1>7. ASSUME NEW g \in todo, RecordGroup(g) PROVE Growing' /\ Asked
  BY <1>1, <1>7 DEF RecordGroup, Checkpoint
<1>8. CASE Enqueue
  BY <1>1, <1>8 DEF Enqueue, Snapshot, Pipeline, Saver, Checkpoint
<1>9. CASE Shutdown
  BY <1>1, <1>9 DEF Shutdown, Saver
<1>10. CASE PauseSave
  BY <1>1, <1>10, Begun DEF PauseSave, SaverDone, NoSaver, Threads
<1>11. CASE JoinSaver
  BY <1>1, <1>11 DEF JoinSaver, SaverDone, NoSaver
<1>12. CASE FinishScan
  BY <1>1, <1>12 DEF FinishScan, Control
<1>13. CASE SaveStep("engine")
  <2>1. ~ Saving("saver") /\ saver.pending = None /\ UNCHANGED <<state, saver, pc, canResume, dialogs>>
    BY <1>13 DEF SaveStep, Control, uiVars
  <2>2. ~ Saving("saver")'
    BY <1>13, <2>1 DEF SaveStep, Threads
  <2>3. disk' = disk \/ (disk' = state /\ disk' # None /\ disk' # Torn)
    BY <1>13 DEF SaveStep, Pipeline
  <2> QED BY <1>1, <2>1, <2>2, <2>3
<1>14. CASE SaveFails("engine")
  <2>1. UNCHANGED <<disk, state, saver, pc, canResume, dialogs>>
        /\ writing'["saver"] = writing["saver"]
    BY <1>14 DEF SaveFails, uiVars, Threads
  <2> QED BY <1>1, <2>1
<1> QED BY <1>2, <1>3, <1>4, <1>5, <1>6, <1>7, <1>8, <1>9, <1>10, <1>11, <1>12, <1>13, <1>14 DEF EngineStep

\* ... one of the worker what it was given, or the state as it is, ...
LEMMA SaverGrowing ==
  ASSUME IInv, Growing, SaverStep
  PROVE  Growing' /\ Asked
<1>0. TypeOK /\ Control /\ Window /\ Pipeline
  BY DEF IInv
<1> USE Parts, <1>0 DEF engineVars, inputs, uiVars, deskVars, SaverAt, WithSaver, Saving, Snapped, OnDisk, Loadable,
                        Asked, Growing
<1>1. pc # "idle" /\ "preflight" \notin dialogs
  BY DEF SaverStep, CheckPending, Park, Wake, TimeOut, TakePending, CheckStop, DrainPending, DrainLive, SaveStep,
         SaveFails, Control, Window
<1>2. UNCHANGED <<state, pc, canResume, dialogs>>
  BY DEF SaverStep, CheckPending, Park, Wake, TimeOut, TakePending, CheckStop, DrainPending, DrainLive, SaveStep,
         SaveFails
<1>3. CASE CheckPending \/ Park \/ Wake \/ TimeOut \/ CheckStop
  <2>1. saver'.pending = saver.pending /\ UNCHANGED <<disk, writing>>
    BY <1>3 DEF CheckPending, Park, Wake, TimeOut, CheckStop, Saver
  <2> QED BY <1>1, <1>2, <2>1
<1>4. ASSUME NEW cp \in Checkpoint, BeginSave("saver", cp), disk # None => disk.groups \subseteq cp.groups,
             UNCHANGED disk, saver'.pending = None
      PROVE  Growing' /\ Asked
  <2>1. writing'["saver"] # None /\ writing'["saver"].cp = cp
    BY <1>4, Begun
  <2> QED BY <1>1, <1>2, <1>4, <2>1
<1>5. ASSUME UNCHANGED <<writing, disk>>, saver'.pending = None PROVE Growing' /\ Asked
  BY <1>1, <1>2, <1>5
<1>6. CASE TakePending
  BY <1>1, <1>4, <1>5, <1>6 DEF TakePending, Saver
<1>7. CASE DrainPending
  BY <1>4, <1>5, <1>7 DEF DrainPending, Saver
<1>8. CASE DrainLive
  <2>1. saver'.pending = None
    BY <1>8 DEF DrainLive, Control, Saver
  <2> QED BY <1>1, <1>4, <1>8, <2>1 DEF DrainLive
<1>9. CASE SaveStep("saver")
  <2>1. saver' = saver
    BY <1>9 DEF SaveStep
  <2>2. ASSUME writing["saver"].at = "rename" PROVE Growing' /\ Asked
    <3>1. disk' = writing["saver"].cp /\ disk' # None /\ disk' # Torn /\ ~ Saving("saver")'
      BY <1>9, <2>2 DEF SaveStep, Pipeline, Save
    <3>2. disk'.groups \subseteq state.groups
      BY <1>9, <3>1 DEF SaveStep, Pipeline
    <3> QED BY <1>1, <1>2, <1>9, <2>1, <3>1, <3>2 DEF SaveStep
  <2>3. ASSUME writing["saver"].at # "rename" PROVE Growing' /\ Asked
    <3>1. writing["saver"] \in Save /\ disk' = disk
          /\ writing'["saver"] = [writing["saver"] EXCEPT !.at = writing'["saver"].at]
      BY <1>9, <2>3 DEF SaveStep, Save
    <3>2. writing'["saver"].cp = writing["saver"].cp
      BY <3>1 DEF Save
    <3> QED BY <1>1, <1>2, <1>9, <2>1, <3>1, <3>2 DEF SaveStep
  <2> QED BY <2>2, <2>3
<1>10. CASE SaveFails("saver")
  <2>1. UNCHANGED <<disk, saver>> /\ writing'["saver"] = None
    BY <1>10 DEF SaveFails
  <2> QED BY <1>1, <1>2, <2>1
<1> QED BY <1>3, <1>6, <1>7, <1>8, <1>9, <1>10 DEF SaverStep

\* A scan of the setup of the checkpoint takes over all its groups.
LEMMA CarriedWhole ==
  ASSUME disk \in Checkpoint
  PROVE  CarriedOver(disk.setup).groups = disk.groups
<1>1. disk # None /\ disk # Torn
  BY NamesAssumption DEF NamesAssumption
<1>2. CASE disk.groups = {} /\ disk.list = None
  BY <1>1, <1>2 DEF CarriedOver, ResumeTier, NewCheckpoint
<1>3. CASE ~ (disk.groups = {} /\ disk.list = None)
  BY <1>1, <1>3 DEF CarriedOver, ResumeTier, Checkpoint
<1> QED BY <1>2, <1>3

\* ... and a launch takes over the groups on disk, if the question about the drift has
\* been answered.
LEMMA OtherGrowing ==
  ASSUME IInv, Growing, plan.slips = {}, WindowStep \/ Kill \/ UNCHANGED vars
  PROVE  Growing' /\ Asked
<1>0. TypeOK /\ Control /\ Window /\ Pipeline
  BY DEF IInv
<1>1. /\ ~ scanning => pc = "idle" /\ ~ Saving("saver") /\ saver.pending = None /\ ~ Saving("engine")
      /\ "drift" \in dialogs => ~ scanning /\ loading.at = "no" /\ "preflight" \notin dialogs
      /\ loading.at # "no" => ~ scanning /\ dialogs = {}
      /\ disk # None => disk \in Checkpoint /\ Loadable
  BY <1>0 DEF Control, Window, WithSaver, TypeOK, Pipeline, Loadable
<1> USE <1>0, <1>1 DEF fileVars, engineVars, inputs, uiVars, deskVars, storeVars, engineSide, bounds, Frame, Saving,
                       OnDisk, Asked, Growing
<1>2. ASSUME UNCHANGED <<fileVars, state, pc, saver, canResume>>,
             "preflight" \in dialogs' => "preflight" \in dialogs /\ chosen' = chosen
      PROVE  Growing' /\ Asked
  BY <1>2 DEF Loadable
<1>3. ASSUME NEW s \in Setups, disk # None => disk.setup = s, LaunchEngine(s), ~ scanning,
             UNCHANGED <<fileVars, saver>>, ~ canResume', "preflight" \notin dialogs'
      PROVE  Growing' /\ Asked
  <2>1. disk # None => state'.groups = disk.groups
    BY <1>3, CarriedWhole DEF LaunchEngine
  <2> QED BY <1>3, <2>1 DEF Loadable
<1>4. ASSUME NEW s \in Setups, NEW resumable, NEW keep, NEW table, StartLive(s, resumable, keep, table, {}),
             resumable => disk # None /\ disk.setup = s, ~ scanning, chosen' = s, UNCHANGED <<fileVars, saver>>
      PROVE  Growing' /\ Asked
  <2>1. CASE resumable
    BY <1>3, <1>4, <2>1 DEF StartLive
  <2>2. CASE ~ resumable
    <3>1. UNCHANGED engineSide /\ ~ canResume' /\ dialogs' = {IF Drifted(s) THEN "drift" ELSE "preflight"}
      BY <1>4, <2>2 DEF StartLive
    <3>2. "preflight" \in dialogs' /\ disk # None => disk.setup = s
      BY <3>1 DEF Drifted
    <3> QED BY <1>4, <3>1, <3>2 DEF Loadable
  <2> QED BY <2>1, <2>2
<1>5. CASE LearnEnd \/ SaveProjectRows \/ (\E g \in events : ShowGroup(g))
  BY <1>2, <1>5 DEF LearnEnd, SaveProjectRows, ShowGroup
<1>6. CASE Start
  <2>1. chosen \in Setups /\ dialogs = {} /\ ~ scanning /\ ~ canResume
    BY <1>6 DEF Start, Settled, TypeOK
  <2>2. StartLive(chosen, canResume, effect, shown, {}) /\ chosen' = chosen /\ UNCHANGED <<fileVars, saver>>
    BY <1>6, <2>1 DEF Start
  <2> QED BY <1>4, <2>1, <2>2
<1>7. CASE Launch
  <2>1. chosen \in Setups /\ ~ scanning /\ (disk # None => disk.setup = chosen)
    BY <1>7 DEF Launch, Window, TypeOK
  <2> QED BY <1>3, <1>7, <2>1 DEF Launch
<1>8. CASE ContinueWithNew \/ StartFresh
  BY <1>8, NamesAssumption DEF ContinueWithNew, StartFresh, Window
<1>9. CASE \/ \E d \in {"drift", "preflight"} : CancelDialog(d)
           \/ \E d \in {"resume", "drift"} : AcceptResume(d)
  BY <1>2, <1>9 DEF CancelDialog, AcceptResume
<1>10. CASE LoadResume \/ SaveProject \/ Pause \/ \E r \in keeping : StoreResults(r)
  BY <1>2, <1>10 DEF LoadResume, SaveProject, Pause, StoreResults
<1>11. CASE Hydrate
  <2> DEFINE resumable == Loadable /\ disk.setup = loading.cp.setup
             table == Plus(Plus(shown, Once(loading.cp.groups)), loading.saved)
  <2>1. loading.at = "read" /\ loading.cp.setup \in Setups
    BY <1>11 DEF Hydrate, TypeOK, Loading, Checkpoint, Window
  <2>2. ~ scanning /\ dialogs = {}
    BY <2>1
  <2>3. StartLive(loading.cp.setup, resumable, TRUE, table, {}) /\ chosen' = loading.cp.setup
        /\ UNCHANGED <<fileVars, saver>>
    BY <1>11, <2>2 DEF Hydrate
  <2>4. resumable => disk # None /\ disk.setup = loading.cp.setup
    BY DEF Loadable
  <2> HIDE DEF resumable, table
  <2> QED BY <1>4, <2>1, <2>2, <2>3, <2>4
<1>12. CASE (\E s \in Setups \union {None} : Edit(s)) \/ OpenProject
  <2>1. dialogs = {} /\ UNCHANGED <<fileVars, state, pc, saver, dialogs>> /\ ~ canResume'
    BY <1>12 DEF Edit, OpenProject, Settled
  <2> QED BY <2>1 DEF Loadable
<1>13. CASE Kill
  <2>1. disk' = disk /\ pc' = "idle" /\ "preflight" \notin dialogs' /\ ~ canResume'
        /\ writing' = [t \in Threads |-> None] /\ saver' = NoSaver
    BY <1>13, NamesAssumption DEF NamesAssumption, Kill, Loadable
  <2>2. writing'["saver"] = None /\ saver'.pending = None
    BY <2>1 DEF NoSaver, Threads
  <2> QED BY <2>1, <2>2 DEF Loadable
<1>14. CASE UNCHANGED vars
  BY <1>2, <1>14 DEF vars
<1> QED BY <1>5, <1>6, <1>7, <1>8, <1>9, <1>10, <1>11, <1>12, <1>13, <1>14
           DEF WindowStep, UiStep, UserStep, WorkerStep

-----------------------------------------------------------------------------
(* Whose groups are listed. *)

FitOn(groups, s) == \A g \in groups : g.files \subseteq plan.admitted[s]

\* The groups and the list of a checkpoint are of files that its own setup admits.
Own(cp) == FitOn(cp.groups, cp.setup) /\ (cp.list # None => cp.list \subseteq plan.admitted[cp.setup])

\* So is everything a scan holds, sends, lists and leaves, if the user waits; and the
\* list is empty when a question is open.
Fitting ==
  /\ disk # None => Own(disk)
  /\ pc # "idle" => /\ Own(state) /\ FitOn(todo, setup)
                    /\ list # None => list \subseteq plan.admitted[setup]
  /\ scanning => FitOn(events, setup) /\ chosen = setup /\ Fits(shown, setup)
  /\ ~ scanning => events = {} /\ ~ effect
  /\ \A r \in keeping \union ({results} \ {None}) : r.setup # None /\ Fits(r.rows, r.setup)
  /\ loading.at = "read" => disk = loading.cp /\ Fits(loading.saved, loading.cp.setup)
  /\ dialogs # {} \/ loading.at # "no" => shown = NoRows

\* A step of the engine records groups of files it was given.
LEMMA EngineFitting ==
  ASSUME IInv, Fitting, plan.slips = {}, EngineStep
  PROVE  Fitting'
<1>0. TypeOK /\ Control /\ Window /\ Pipeline
  BY DEF IInv
<1> USE Parts, <1>0 DEF engineVars, inputs, EngineAt, GoTo, Saving
<1>1. pc # "idle" /\ scanning /\ dialogs = {} /\ loading.at = "no"
  <2>1. pc # "idle"
    BY DEF EngineStep, SaveMarker, AfterMarker, Walk, SaveList, AfterList, GroupBySize, AfterGroup, TopOfLoop,
           HashChunk, RecordGroup, Enqueue, Shutdown, PauseSave, AfterPause, JoinSaver, FinishScan, SaveStep,
           SaveFails, Control
  <2>2. dialogs \subseteq {"resume", "drift", "preflight"}
    BY DEF TypeOK
  <2>3. scanning /\ "resume" \notin dialogs /\ "preflight" \notin dialogs /\ "drift" \notin dialogs /\ loading.at = "no"
    BY <2>1 DEF Window
  <2> QED BY <2>1, <2>2, <2>3
<1>2. UNCHANGED <<scanning, setup, shown, chosen, dialogs, effect, loading, results, keeping, plan>>
  BY DEF EngineStep, SaveMarker, AfterMarker, Walk, SaveList, AfterList, GroupBySize, AfterGroup, TopOfLoop,
         HashChunk, RecordGroup, Enqueue, Shutdown, PauseSave, AfterPause, JoinSaver, FinishScan, SaveStep,
         SaveFails, uiVars, deskVars, storeVars, bounds
<1>3. ASSUME disk' # None => Own(disk)',
             pc' # "idle" => /\ Own(state)' /\ FitOn(todo, setup)'
                             /\ list' # None => list' \subseteq plan.admitted[setup],
             FitOn(events, setup)'
      PROVE  Fitting'
  BY <1>1, <1>2, <1>3 DEF Fitting, Fits
<1> USE <1>1, <1>2 DEF Fitting, Own, FitOn
<1>4. CASE SaveMarker \/ AfterMarker \/ AfterList \/ AfterGroup \/ TopOfLoop \/ Enqueue \/ Shutdown
           \/ PauseSave \/ AfterPause \/ JoinSaver
  BY <1>3, <1>4 DEF SaveMarker, AfterMarker, AfterList, AfterGroup, TopOfLoop, Enqueue, Shutdown,
           PauseSave, AfterPause, JoinSaver, ReturnPaused
<1>5. CASE Walk
  <2>1. list' \subseteq plan.admitted[setup] \/ list' = list
    BY <1>5 DEF Walk
  <2> QED BY <1>3, <1>5, <2>1 DEF Walk
<1>6. CASE SaveList
  <2>1. state'.list = list /\ state'.groups = state.groups /\ state'.setup = state.setup /\ state.setup = setup
    BY <1>6 DEF SaveList, Control, Checkpoint
  <2> QED BY <1>3, <1>6, <2>1 DEF SaveList
<1>7. CASE GroupBySize
  <2>1. list' \subseteq list /\ list # None
    BY <1>7 DEF GroupBySize, Candidates, Control
  <2> QED BY <1>3, <1>7, <2>1 DEF GroupBySize
<1>8. CASE HashChunk
  <2>1. list \subseteq Files /\ list \subseteq plan.admitted[setup]
    BY <1>8 DEF HashChunk, Control, WithSaver, TypeOK
  <2>2. \A g \in GroupsOf(list) : g.files \subseteq list
    BY <2>1, OneContent
  <2>3. \A g \in todo' : \E h \in GroupsOf(list) : \E part : g = [h EXCEPT !.files = h.files \intersect part]
    BY <1>8, SMTT(60) DEF HashChunk
  <2>4. \A h \in GroupsOf(list) : \A part : [h EXCEPT !.files = h.files \intersect part].files \subseteq h.files
    BY DEF GroupsOf
  <2>5. FitOn(todo, setup)'
    BY <2>1, <2>2, <2>3, <2>4
  <2> QED BY <1>3, <1>8, <2>5 DEF HashChunk
<1>9. ASSUME NEW g \in todo, RecordGroup(g) PROVE Fitting'
  <2>1. state'.list = state.list /\ state'.groups = state.groups \union {g} /\ state'.setup = state.setup
        /\ state.setup = setup
    BY <1>9 DEF RecordGroup, Control, Checkpoint
  <2> QED BY <1>3, <1>9, <2>1 DEF RecordGroup
<1>10. CASE FinishScan
  BY <1>3, <1>10 DEF FinishScan
<1>11. CASE SaveStep("engine")
  <2>1. disk' = disk \/ disk' = state
    BY <1>11 DEF SaveStep, Pipeline
  <2> QED BY <1>3, <1>11, <2>1 DEF SaveStep, uiVars
<1>12. CASE SaveFails("engine")
  BY <1>3, <1>12 DEF SaveFails, uiVars
<1> QED BY <1>4, <1>5, <1>6, <1>7, <1>8, <1>9, <1>10, <1>11, <1>12 DEF EngineStep

\* The worker saves what the engine knew.
LEMMA SaverFitting ==
  ASSUME IInv, Fitting, plan.slips = {}, SaverStep
  PROVE  Fitting'
<1>0. TypeOK /\ Control /\ Window /\ Pipeline
  BY DEF IInv
<1> USE Parts, <1>0 DEF engineVars, inputs, uiVars, deskVars, storeVars, bounds, SaverAt, Saving
<1>1. UNCHANGED <<pc, state, setup, list, todo, events, scanning, shown, chosen, dialogs, effect, loading,
                  results, keeping, plan>>
  BY DEF SaverStep, CheckPending, Park, Wake, TimeOut, TakePending, CheckStop, DrainPending, DrainLive, SaveStep,
         SaveFails
<1>2. pc # "idle" /\ scanning /\ loading.at = "no"
  BY DEF SaverStep, CheckPending, Park, Wake, TimeOut, TakePending, CheckStop, DrainPending, DrainLive, SaveStep,
         SaveFails, Control, Window, WithSaver
<1>3. disk' = disk \/ Snapped(disk')
  BY DEF SaverStep, CheckPending, Park, Wake, TimeOut, TakePending, CheckStop, DrainPending, DrainLive, SaveStep,
         SaveFails, Pipeline
<1>4. disk' # None => Own(disk')
  BY <1>2, <1>3 DEF Fitting, Own, FitOn, Snapped, Control
<1> QED BY <1>1, <1>2, <1>4 DEF Fitting, Own, FitOn, Fits

\* A group is listed by Plus(rows, more) if one of the two lists it.
LEMMA ListedBy ==
  /\ OnList(NoRows) = {}
  /\ \A groups \in SUBSET Group : OnList(Once(groups)) = groups
  /\ \A rows, more \in Rows : OnList(Plus(rows, more)) = OnList(rows) \union OnList(more)
<1>1. OnList(NoRows) = {}
  BY DEF OnList, NoRows
<1>2. ASSUME NEW groups \in SUBSET Group PROVE OnList(Once(groups)) = groups
  BY DEF OnList, Once
<1>3. ASSUME NEW rows \in Rows, NEW more \in Rows, NEW g \in Group
      PROVE  Plus(rows, more)[g] > 0 <=> rows[g] > 0 \/ more[g] > 0
  <2>1. rows[g] \in Nat /\ more[g] \in Nat /\ Plus(rows, more)[g] = rows[g] + more[g]
    BY DEF Rows, Plus
  <2> QED BY <2>1
<1>4. ASSUME NEW rows \in Rows, NEW more \in Rows
      PROVE  OnList(Plus(rows, more)) = OnList(rows) \union OnList(more)
  BY <1>3 DEF OnList
<1> QED BY <1>1, <1>2, <1>4

\* A checkpoint is carried over to its own setup.
LEMMA CarriedFits ==
  ASSUME TypeOK, Pipeline, NEW s \in Setups, disk # None => disk.setup = s /\ Own(disk)
  PROVE  Own(CarriedOver(s)) /\ CarriedOver(s).setup = s
<1>1. CarriedOver(s) \in {disk, NewCheckpoint(s)} \/ (disk \in Checkpoint /\ CarriedOver(s) = [disk EXCEPT !.setup = s])
  BY DEF CarriedOver, ResumeTier, TypeOK, Pipeline
<1>2. disk \in Checkpoint => [disk EXCEPT !.setup = disk.setup] = disk
  BY DEF Checkpoint
<1>3. Own(NewCheckpoint(s)) /\ NewCheckpoint(s).setup = s
  BY DEF Own, FitOn, NewCheckpoint
<1>4. CarriedOver(s) \in {disk, NewCheckpoint(s)} /\ (CarriedOver(s) = disk => disk # None \/ CarriedOver(s) = NewCheckpoint(s))
  BY <1>1, <1>2, NamesAssumption DEF NamesAssumption, CarriedOver
<1> QED BY <1>3, <1>4

\* The window adds what it resumes to an empty list.
LEMMA OtherFitting ==
  ASSUME IInv, Growing, Fitting, plan.slips = {}, WindowStep \/ Kill \/ UNCHANGED vars
  PROVE  Fitting'
<1>0. TypeOK /\ Control /\ Window /\ Pipeline
  BY DEF IInv
<1>1. /\ ~ scanning => pc = "idle"
      /\ loading.at # "no" => ~ scanning /\ dialogs = {}
      /\ dialogs # {} => ~ scanning
      /\ disk # None => disk \in Checkpoint /\ Loadable
  <2>1. dialogs \subseteq {"resume", "drift", "preflight"}
    BY <1>0 DEF TypeOK
  <2> QED BY <1>0, <2>1 DEF Window, TypeOK, Pipeline, Loadable
<1>2. /\ scanning => FitOn(events, setup) /\ chosen = setup /\ Fits(shown, setup)
      /\ \A r \in keeping \union ({results} \ {None}) : r.setup # None /\ Fits(r.rows, r.setup)
      /\ ~ scanning => events = {} /\ ~ effect
      /\ disk # None => Own(disk)
      /\ loading.at = "read" => disk = loading.cp /\ Fits(loading.saved, loading.cp.setup)
      /\ dialogs # {} \/ loading.at # "no" => shown = NoRows
  BY DEF Fitting
<1>3. plan' = plan
  <2>1. [Next]_vars
    BY DEF Next, WindowStep
  <2> QED BY <1>0, <2>1, PlanStays
<1> USE <1>0, <1>1 DEF fileVars, engineVars, inputs, uiVars, deskVars, storeVars, engineSide, Frame
<1>4. ASSUME UNCHANGED <<disk, engineSide, keeping, results>>,
             scanning => UNCHANGED <<chosen, shown>>, effect' => effect,
             loading'.at = "read" => loading' = loading,
             dialogs' # {} \/ loading'.at # "no" => shown' = NoRows
      PROVE  Fitting'
  BY <1>3, <1>4 DEF Fitting, Fits, Own, FitOn
<1>5. ASSUME NEW s \in Setups, disk # None => disk.setup = s, LaunchEngine(s), ~ scanning,
             UNCHANGED <<disk, keeping, results>>, chosen' = s, Fits(shown', s),
             dialogs' = {}, loading'.at = "no"
      PROVE  Fitting'
  <2>1. Own(CarriedOver(s)) /\ CarriedOver(s).setup = s
    BY <1>2, <1>5, CarriedFits
  <2> QED BY <1>2, <1>3, <1>5, <2>1 DEF LaunchEngine, Fitting, Fits, Own, FitOn
<1>6. \A s : Fits(NoRows, s)
  BY ListedBy DEF Fits
<1>7. CASE SaveProjectRows \/ SaveProject \/ Pause \/ (\E d \in {"drift", "preflight"} : CancelDialog(d))
           \/ \E d \in {"resume", "drift"} : AcceptResume(d)
  <2>1. CASE SaveProjectRows \/ SaveProject
    BY <1>2, <1>4, <2>1 DEF SaveProjectRows, SaveProject
  <2>2. CASE Pause
    BY <1>2, <1>3, <2>2 DEF Pause, Fitting, Fits, Own, FitOn
  <2>3. CASE \E d \in {"drift", "preflight"} : CancelDialog(d)
    <3>1. dialogs # {}
      BY <2>3 DEF CancelDialog
    <3> QED BY <1>2, <1>4, <2>3, <3>1 DEF CancelDialog
  <2>4. CASE \E d \in {"resume", "drift"} : AcceptResume(d)
    <3>1. dialogs # {} /\ loading.at = "no"
      BY <2>4 DEF AcceptResume
    <3>2. loading' = [loading EXCEPT !.at = "asked"] /\ loading \in Loading
      BY <2>4, <3>1 DEF AcceptResume, TypeOK
    <3>3. loading'.at = "asked"
      BY <3>2 DEF Loading
    <3> QED BY <1>2, <1>4, <2>4, <3>1, <3>3 DEF AcceptResume
  <2> QED BY <1>7, <2>1, <2>2, <2>3, <2>4
<1>8. ASSUME NEW g \in events, ShowGroup(g) PROVE Fitting'
  <2>1. scanning
    BY <1>2
  <2>2. dialogs = {} /\ loading.at = "no"
    BY <2>1
  <2>3. shown \in [Group -> Nat] /\ g \in Group
    BY DEF TypeOK, Rows
  <2>4. OnList(shown') \subseteq OnList(shown) \union {g}
    BY <1>8, <2>3 DEF ShowGroup, OnList
  <2>5. Fits(shown', setup)
    BY <1>2, <2>1, <2>4 DEF Fits, FitOn
  <2> QED BY <1>2, <1>3, <1>8, <2>1, <2>2, <2>5 DEF ShowGroup, Fitting, Fits, Own, FitOn
<1>9. CASE LearnEnd
  <2>1. chosen = setup /\ setup # None /\ Fits(shown, setup)
    BY <1>2, <1>9, NamesAssumption DEF NamesAssumption, LearnEnd, TypeOK
  <2>2. \A r \in keeping' \union ({results'} \ {None}) : r.setup # None /\ Fits(r.rows, r.setup)
    BY <1>2, <1>9, <2>1 DEF LearnEnd
  <2>3. scanning /\ dialogs = {} /\ loading.at = "no" /\ pc = "idle"
    BY <1>9 DEF LearnEnd, Window
  <2> QED BY <1>2, <1>3, <1>9, <2>2, <2>3 DEF LearnEnd, Fitting, Fits, Own, FitOn
<1>10. CASE Start
  <2>1. chosen \in Setups /\ dialogs = {} /\ ~ scanning /\ ~ canResume /\ ~ effect /\ loading.at = "no"
    BY <1>2, <1>10 DEF Start, Settled, TypeOK, Growing
  <2>2. StartLive(chosen, canResume, effect, shown, dialogs) /\ UNCHANGED <<disk, chosen, effect, loading, storeVars>>
    BY <1>10 DEF Start
  <2> QED BY <1>4, <2>1, <2>2 DEF StartLive
<1>11. CASE Launch
  <2>1. chosen \in Setups /\ "preflight" \in dialogs /\ ~ scanning /\ shown = NoRows /\ loading.at = "no"
        /\ (disk # None => disk.setup = chosen)
    BY <1>2, <1>11 DEF Launch, TypeOK, Growing
  <2>2. dialogs' = {}
    <3>1. "drift" \notin dialogs /\ "resume" \notin dialogs /\ dialogs \subseteq {"resume", "drift", "preflight"}
      BY <1>11, <2>1 DEF Launch, Window, TypeOK
    <3> QED BY <1>11, <3>1 DEF Launch
  <2> QED BY <1>5, <1>6, <1>11, <2>1, <2>2 DEF Launch
<1>12. CASE ContinueWithNew \/ StartFresh
  <2>1. ~ scanning /\ loading.at = "no" /\ pc = "idle" /\ shown = NoRows
    BY <1>2, <1>12 DEF ContinueWithNew, StartFresh, Window
  <2>2. shown' = NoRows /\ disk' = None
    BY <1>12, <2>1 DEF ContinueWithNew, StartFresh
  <2>3. UNCHANGED <<engineSide, effect, loading, results, keeping>>
    BY <1>12 DEF ContinueWithNew, StartFresh
  <2> QED BY <1>2, <1>3, <2>1, <2>2, <2>3 DEF Fitting, Fits, Own, FitOn
<1>13. CASE LoadResume
  <2>1. loading.at # "no" /\ ~ scanning /\ shown = NoRows
    BY <1>2, <1>13 DEF LoadResume
  <2>2. loading'.at = "read" => disk = loading'.cp /\ Fits(loading'.saved, disk.setup)
    BY <1>2, <1>6, <1>13 DEF LoadResume, Matching, NoLoading
  <2> QED BY <1>2, <1>3, <1>13, <2>1, <2>2 DEF LoadResume, Fitting, Fits, Own, FitOn
<1>14. CASE Hydrate
  <2> DEFINE resumable == Loadable /\ disk.setup = loading.cp.setup
             table == Plus(Plus(shown, Once(loading.cp.groups)), loading.saved)
  <2>1. loading.at = "read" /\ disk = loading.cp /\ disk # None /\ dialogs = {} /\ ~ scanning /\ shown = NoRows
    BY <1>2, <1>14 DEF Hydrate, Window
  <2>2. disk \in Checkpoint /\ Loadable /\ Own(disk) /\ disk.setup \in Setups /\ disk.groups \in SUBSET Group
    BY <1>2, <2>1 DEF Checkpoint
  <2>3. Fits(table, disk.setup)
    <3>1. shown \in Rows /\ loading.saved \in Rows /\ Once(disk.groups) \in Rows
      BY <2>2, RowsType DEF TypeOK, Loading
    <3>2. Plus(shown, Once(disk.groups)) \in Rows
      BY <3>1, RowsType
    <3>3. OnList(table) = (OnList(shown) \union disk.groups) \union OnList(loading.saved)
      BY <2>1, <2>2, <3>1, <3>2, ListedBy
    <3>4. OnList(shown) = {}
      BY <2>1, ListedBy
    <3> QED BY <1>2, <2>1, <2>2, <3>3, <3>4 DEF Fits, Own, FitOn
  <2>4. StartLive(disk.setup, resumable, TRUE, table, {}) /\ chosen' = disk.setup /\ loading' = NoLoading
        /\ UNCHANGED <<disk, storeVars>>
    BY <1>14, <2>1 DEF Hydrate
  <2>5. resumable
    BY <2>1, <2>2
  <2> HIDE DEF resumable, table
  <2>6. LaunchEngine(disk.setup) /\ shown' = table /\ dialogs' = {}
    BY <2>4, <2>5 DEF StartLive
  <2> QED BY <1>5, <2>1, <2>2, <2>3, <2>4, <2>6 DEF NoLoading
<1>15. CASE (\E s \in Setups \union {None} : Edit(s)) \/ OpenProject
  <2>1. dialogs = {} /\ ~ scanning /\ loading.at = "no"
        /\ UNCHANGED <<disk, engineSide, keeping, results, loading, dialogs, effect>>
    BY <1>15 DEF Edit, OpenProject, Settled
  <2> QED BY <1>4, <2>1
<1>16. ASSUME NEW r \in keeping, StoreResults(r) PROVE Fitting'
  BY <1>2, <1>3, <1>16 DEF StoreResults, Fitting, Fits, Own, FitOn
<1>17. CASE Kill
  <2>1. disk' = disk
    BY <1>17, NamesAssumption DEF Kill, Loadable
  <2> QED BY <1>2, <1>3, <1>17, <2>1 DEF Kill, NoLoading, Fitting, Fits, Own, FitOn
<1>18. CASE UNCHANGED vars
  BY <1>3, <1>18 DEF vars, Fitting, Fits, Own, FitOn
<1> QED BY <1>7, <1>8, <1>9, <1>10, <1>11, <1>12, <1>13, <1>14, <1>15, <1>16, <1>17, <1>18
           DEF WindowStep, UiStep, UserStep, WorkerStep

\* What holds if the user waits.
GInv == IInv /\ (plan.slips = {} => Growing /\ Fitting)

LEMMA InitWaits == Init => GInv
<1> SUFFICES ASSUME Init PROVE GInv
  OBVIOUS
<1> QED BY InitInv DEF GInv, Init, Growing, Fitting, Saving, Threads, NoSaver, NoLoading

LEMMA StepWaits == GInv /\ [Next]_vars => GInv'
<1> SUFFICES ASSUME GInv, [Next]_vars PROVE GInv'
  OBVIOUS
<1>1. IInv' /\ plan' = plan
  BY StepInv, PlanStays DEF GInv, IInv
<1> QED BY <1>1, EngineGrowing, SaverGrowing, OtherGrowing, EngineFitting, SaverFitting, OtherFitting
           DEF GInv, Next, WindowStep

\* For a user who waits: groups found for a paused scan are given up for other settings
\* only after the user was asked (app.rs, start_live and detect_settings_drift).
THEOREM Questioned == Spec => AskedFirst
<1>1. GInv /\ [Next]_vars =>
        [plan.slips = {} /\ OnDisk =>
           \/ OnDisk' /\ disk.groups \subseteq disk'.groups
           \/ pc = "delete"
           \/ \E d \in {"resume", "drift"} : d \in dialogs /\ d \notin dialogs']_vars
  BY EngineGrowing, SaverGrowing, OtherGrowing DEF GInv, Next, WindowStep, Asked
<1> QED BY <1>1, InitWaits, StepWaits, PTL DEF Spec, AskedFirst

\* For a user who waits: whatever was resumed, restored or opened before, a scan lists
\* groups of its own files, and its list is stored with its own setup (app.rs,
\* apply_resume_hydrated, start_live and persist_results_after_scan).
THEOREM Truthful == Spec => []TableFits
<1>1. GInv => TableFits
  BY DEF GInv, Fitting, TableFits
<1> QED BY <1>1, InitWaits, StepWaits, PTL DEF Spec

-----------------------------------------------------------------------------
(* The groups of a set of files, and of what is left of it. *)

\* The files of one inode; those that are alone in theirs; who shares a group with f.
Aliases(files, f) == {g \in files : InodeOf[g] = InodeOf[f]}
Single(files) == {f \in files : Aliases(files, f) = {f}}
Class(files, f) == IF f \in Single(files) THEN {g \in Single(files) : ContentOf[g] = ContentOf[f]}
                   ELSE Aliases(files, f)

\* The classes are disjoint, each of one content.
LEMMA ClassOf ==
  ASSUME NEW files \in SUBSET Files, NEW f \in files
  PROVE  /\ f \in Class(files, f)
         /\ \A g \in Class(files, f) :
              g \in files /\ ContentOf[g] = ContentOf[f] /\ Class(files, g) = Class(files, f)
<1> USE DEF Class, Aliases, Single
<1>1. \A g \in Aliases(files, f) : ContentOf[g] = ContentOf[f]
  BY SetupAssumption DEF SetupAssumption
<1>2. \A g \in Aliases(files, f) : Aliases(files, g) = Aliases(files, f)
  OBVIOUS
<1>3. f \notin Single(files) => \A g \in Aliases(files, f) : g \notin Single(files)
  BY <1>2
<1>4. CASE f \in Single(files)
  BY <1>4
<1>5. CASE f \notin Single(files)
  BY <1>1, <1>2, <1>3, <1>5
<1> QED BY <1>4, <1>5

\* A class of two or more is a group, and nothing else is.
LEMMA GroupIsClass ==
  ASSUME NEW files \in SUBSET Files
  PROVE  /\ \A f \in files : Cardinality(Class(files, f)) >= 2 =>
              [hash |-> ContentOf[f], files |-> Class(files, f)] \in GroupsOf(files)
         /\ \A g \in GroupsOf(files) :
              /\ Cardinality(g.files) >= 2 /\ g.files # {} /\ g.files \subseteq files
              /\ \A f \in g.files : g = [hash |-> ContentOf[f], files |-> Class(files, f)]
<1> DEFINE linked == {Aliases(files, f) : f \in files} \ {{f} : f \in files}
           single == files \ UNION linked
           twins(f) == {g \in single : ContentOf[g] = ContentOf[f]}
           sets == linked \union {twins(f) : f \in single}
<1>1. single = Single(files)
  <2>1. ASSUME NEW f \in files PROVE f \in UNION linked <=> Aliases(files, f) # {f}
    <3>1. f \in Aliases(files, f) /\ \A h \in files : f \in Aliases(files, h) => Aliases(files, h) = Aliases(files, f)
      BY DEF Aliases
    <3> QED BY <3>1
  <2> QED BY <2>1 DEF Single
<1>2. sets = {Class(files, f) : f \in files}
  <2> HIDE DEF single
  <2>1. ASSUME NEW f \in files PROVE Class(files, f) \in sets
    <3>1. f \in Single(files) => Class(files, f) = twins(f)
      BY <1>1 DEF Class
    <3>2. f \notin Single(files) => Class(files, f) = Aliases(files, f) /\ \A h : Aliases(files, f) # {h}
      BY DEF Class, Aliases, Single
    <3> QED BY <1>1, <3>1, <3>2
  <2>2. ASSUME NEW s \in linked PROVE \E f \in files : s = Class(files, f)
    <3>1. PICK f \in files : s = Aliases(files, f) /\ s # {f}
      OBVIOUS
    <3> QED BY <3>1 DEF Class, Single
  <2>3. ASSUME NEW f \in single PROVE f \in files /\ twins(f) = Class(files, f)
    BY <1>1 DEF Class, Single
  <2> HIDE DEF linked, twins
  <2> QED BY <2>1, <2>2, <2>3
<1>3. GroupsOf(files) =
        {[hash |-> ContentOf[CHOOSE f \in s : TRUE], files |-> s] : s \in {t \in sets : Cardinality(t) >= 2}}
  BY DEF GroupsOf, Aliases
<1> HIDE DEF sets
<1>4. \A f \in files : \A g \in Class(files, f) : ContentOf[g] = ContentOf[f]
  BY ClassOf
<1>5. ASSUME NEW f \in files, Cardinality(Class(files, f)) >= 2
      PROVE  [hash |-> ContentOf[f], files |-> Class(files, f)] \in GroupsOf(files)
  <2>1. (CHOOSE g \in Class(files, f) : TRUE) \in Class(files, f)
    BY ClassOf
  <2> QED BY <1>2, <1>3, <1>4, <1>5, <2>1
<1>6. ASSUME NEW g \in GroupsOf(files)
      PROVE  /\ Cardinality(g.files) >= 2 /\ g.files # {} /\ g.files \subseteq files
             /\ \A f \in g.files : g = [hash |-> ContentOf[f], files |-> Class(files, f)]
  <2>1. PICK f \in files : /\ g = [hash |-> ContentOf[CHOOSE h \in Class(files, f) : TRUE], files |-> Class(files, f)]
                           /\ Cardinality(Class(files, f)) >= 2
    BY <1>2, <1>3
  <2>2. (CHOOSE h \in Class(files, f) : TRUE) \in Class(files, f)
    BY ClassOf
  <2>3. g = [hash |-> ContentOf[f], files |-> Class(files, f)]
    BY <1>4, <2>1, <2>2
  <2>4. \A h \in Class(files, f) : h \in files /\ ContentOf[h] = ContentOf[f] /\ Class(files, h) = Class(files, f)
    BY ClassOf
  <2> QED BY <2>1, <2>2, <2>3, <2>4
<1> QED BY <1>5, <1>6

\* Without the files of some groups, and without those that are then the only ones of
\* their size, the other groups are left, whole.
LEMMA GroupsLeft ==
  ASSUME NEW files \in SUBSET Files, NEW groups \in SUBSET GroupsOf(files), NEW left,
         left = {f \in files \ FilesOf(groups) : \E g \in files \ (FilesOf(groups) \union {f}) : SizeOf[f] = SizeOf[g]}
  PROVE  GroupsOf(left) = GroupsOf(files) \ groups
<1> DEFINE gone == FilesOf(groups)
<1>1. \A f \in gone : f \in files /\ [hash |-> ContentOf[f], files |-> Class(files, f)] \in groups
                     /\ Class(files, f) \subseteq gone
  <2>1. ASSUME NEW f \in gone
        PROVE  f \in files /\ [hash |-> ContentOf[f], files |-> Class(files, f)] \in groups /\ Class(files, f) \subseteq gone
    <3>1. PICK g \in groups : f \in g.files
      BY DEF FilesOf
    <3>2. g = [hash |-> ContentOf[f], files |-> Class(files, f)] /\ f \in files
      BY <3>1, GroupIsClass
    <3> QED BY <3>1, <3>2 DEF FilesOf
  <2> QED BY <2>1
<1>2. left \subseteq files /\ left \intersect gone = {}
  OBVIOUS
<1>3. ASSUME NEW f \in files \ gone, NEW g \in Class(files, f), g # f
      PROVE  f \in left
  <2>1. g \in files /\ ContentOf[g] = ContentOf[f] /\ f \in Class(files, g)
    BY ClassOf
  <2>2. g \notin gone
    BY <1>1, <2>1
  <2>3. SizeOf[f] = SizeOf[g]
    BY <2>1, SetupAssumption DEF SetupAssumption
  <2>4. g \in files \ (FilesOf(groups) \union {f}) /\ f \in files \ FilesOf(groups)
    BY <1>3, <2>1, <2>2
  <2> QED BY <2>3, <2>4
<1>4. ASSUME NEW f \in left PROVE Class(files, f) \subseteq left
  <2> SUFFICES ASSUME NEW g \in Class(files, f), g # f PROVE g \in left
    OBVIOUS
  <2>1. f \in files /\ f \notin gone
    BY <1>2
  <2>2. g \in files /\ f \in Class(files, g)
    BY <2>1, ClassOf
  <2>3. g \notin gone
    BY <1>1, <2>1, <2>2
  <2> QED BY <1>3, <2>2, <2>3
<1>5. ASSUME NEW f \in left PROVE f \in Single(left) <=> f \in Single(files)
  <2>1. f \in Single(files) => Aliases(left, f) = {f}
    BY <1>2 DEF Single, Aliases
  <2>2. f \notin Single(files) => Aliases(left, f) = Aliases(files, f)
    BY <1>2, <1>4 DEF Class, Aliases
  <2> QED BY <1>2, <2>1, <2>2 DEF Single
<1>6. ASSUME NEW f \in left PROVE Class(left, f) = Class(files, f)
  <2>1. CASE f \in Single(files)
    <3>1. \A g \in left : g \in Single(left) <=> g \in Single(files)
      BY <1>5
    <3>2. \A g \in Class(files, f) : g \in left
      BY <1>4
    <3>3. Class(files, f) = {g \in Single(files) : ContentOf[g] = ContentOf[f]}
      BY <2>1 DEF Class
    <3>4. Class(left, f) = {g \in Single(left) : ContentOf[g] = ContentOf[f]}
      BY <2>1, <3>1 DEF Class
    <3>5. \A g \in Single(left) : g \in left
      BY DEF Single
    <3> HIDE DEF gone
    <3> QED BY <3>1, <3>2, <3>3, <3>4, <3>5
  <2>2. CASE f \notin Single(files)
    <3>1. Class(files, f) = Aliases(files, f) /\ Class(left, f) = Aliases(left, f)
      BY <1>5, <2>2 DEF Class
    <3> QED BY <1>2, <1>4, <3>1 DEF Aliases
  <2> QED BY <2>1, <2>2
<1>7. ASSUME NEW g \in GroupsOf(left) PROVE g \in GroupsOf(files) \ groups
  <2>1. left \in SUBSET Files
    BY <1>2
  <2>2. /\ Cardinality(g.files) >= 2 /\ g.files # {} /\ g.files \subseteq left
        /\ \A f \in g.files : g = [hash |-> ContentOf[f], files |-> Class(left, f)]
    BY <2>1, GroupIsClass, Zenon
  <2>3. PICK f \in g.files : f \in left /\ g = [hash |-> ContentOf[f], files |-> Class(left, f)] /\ Cardinality(g.files) >= 2
    BY <2>2
  <2>4. g \in GroupsOf(files)
    <3>1. g = [hash |-> ContentOf[f], files |-> Class(files, f)] /\ f \in files
      BY <1>2, <1>6, <2>3
    <3>2. g.files = Class(files, f)
      BY <3>1
    <3> QED BY <2>3, <3>1, <3>2, GroupIsClass
  <2>5. g \notin groups
    BY <1>2, <2>3 DEF FilesOf
  <2> QED BY <2>4, <2>5
<1>8. ASSUME NEW g \in GroupsOf(files) \ groups PROVE g \in GroupsOf(left)
  <2>1. PICK f \in g.files : f \in files /\ g = [hash |-> ContentOf[f], files |-> Class(files, f)] /\ Cardinality(g.files) >= 2
    BY GroupIsClass
  <2>2. f \notin gone
    BY <1>1, <2>1
  <2>3. Cardinality({f}) = 1 /\ f \in Class(files, f)
    BY <2>1, FS_Singleton, ClassOf
  <2>4. PICK h \in Class(files, f) : h # f
    BY <2>1, <2>3
  <2>5. f \in left
    BY <1>3, <2>1, <2>2, <2>4
  <2> QED BY <1>2, <1>6, <2>1, <2>5, GroupIsClass
<1> QED BY <1>7, <1>8

-----------------------------------------------------------------------------
(* What a finished scan has shown. *)

\* No content has two groups in a scan: its files have no other names, or it has one inode.
OneGroupAHash ==
  \A p \in Plans, s \in Setups : \A g, h \in GroupsOf(p.admitted[s]) : g.hash = h.hash => g = h

All(s) == GroupsOf(plan.admitted[s])
Seen(groups) == \A g \in All(setup) : g.files \subseteq plan.reference \/ g \in groups

\* A checkpoint has whole groups of what its setup admits, and the whole list.
Exact(cp) == cp.groups \subseteq All(cp.setup) /\ cp.list \in {plan.admitted[cp.setup], None}

\* So have the one on disk and the scan under way, ...
Recorded ==
  /\ disk # None => Exact(disk)
  /\ pc # "idle" => Exact(state) /\ todo \subseteq All(setup)

\* ... which looks for the groups it has not restored, and has found them at the end, ...
Sought ==
  /\ cancel => pc \notin {"walk", "hash"}
  /\ pc \in {"marker", "marked", "walk"} => list \in {plan.admitted[setup], None}
  /\ pc \in {"walked", "listed", "group"} => list = plan.admitted[setup]
  /\ pc \in {"marker", "marked", "walk", "walked", "listed", "group"} => restored = FilesOf(state.groups)
  /\ pc \in {"grouped", "loop", "hash"} => GroupsOf(list) = All(setup) \ state.groups
  /\ pc \in {"loop", "hash"} => reported = {g.hash : g \in state.groups}
  /\ pc = "fold" => Seen(state.groups \union todo)
  /\ pc \in {"draining", "delete"} \/ ended = "finished" => Seen(state.groups)

\* ... and the window shows those or is yet to be told; so is what was stored.
Sent ==
  /\ scanning => /\ state.groups \subseteq events \union OnList(shown)
                 /\ events \subseteq All(setup) /\ OnList(shown) \subseteq All(setup)
  /\ \A r \in keeping \union ({results} \ {None}) : OnList(r.rows) \subseteq All(r.setup)
  /\ loading.at = "read" => OnList(loading.saved) \subseteq All(loading.cp.setup)

Whole == Recorded /\ Sought /\ Sent

\* Nobody slips, and a scan is paused neither in the walk nor in the hashing.
Undisturbed == plan.slips = {} /\ plan.pauseAt \intersect {"walk", "hash"} = {}

\* A step of the engine loses no group, ...
LEMMA EngineWhole ==
  ASSUME OneGroupAHash, IInv, Whole, EngineStep
  PROVE  Whole'
<1>0. TypeOK /\ Control /\ Pipeline
  BY DEF IInv
<1>1. /\ setup \in Setups /\ plan.admitted[setup] \in SUBSET Files
      /\ \A g, h \in All(setup) : g.hash = h.hash => g = h
  BY <1>0, SetupAssumption DEF OneGroupAHash, All, TypeOK, SetupAssumption
<1>2. UNCHANGED <<setup, plan, cancel, scanning, shown, keeping, results, loading>>
  BY DEF EngineStep, SaveMarker, AfterMarker, Walk, SaveList, AfterList, GroupBySize, AfterGroup, TopOfLoop,
         HashChunk, RecordGroup, Enqueue, Shutdown, PauseSave, AfterPause, JoinSaver, FinishScan, SaveStep,
         SaveFails, EngineAt, uiVars, deskVars, storeVars, bounds, engineVars
<1>3. \A groups : Seen(groups)' <=> Seen(groups)
  BY <1>2 DEF Seen, All
<1>4. ASSUME UNCHANGED <<state, events>>, pc' # "idle" => pc # "idle" /\ todo' \subseteq All(setup),
             disk' \in {disk, None, state}, disk' = state => pc # "idle", Sought'
      PROVE  Whole'
  BY <1>2, <1>4 DEF Whole, Recorded, Sent, Exact, All
<1> USE <1>0 DEF engineVars, inputs, EngineAt, GoTo, Saving
<1>5. ASSUME UNCHANGED <<state, events, list, restored, reported, todo, pc, ended>>,
             disk' \in {disk, state}, disk' = state => pc # "idle"
      PROVE  Whole'
  BY <1>5, <1>2, <1>3, <1>4 DEF Whole, Recorded, Sought, All
<1>6. CASE SaveMarker
  BY <1>6, <1>2, <1>3, <1>4 DEF SaveMarker, Whole, Recorded, Sought, All
<1>7. CASE AfterMarker \/ AfterList
  BY <1>7, <1>2, <1>3, <1>4 DEF AfterMarker, AfterList, ReturnPaused, Whole, Recorded, Sought, All
<1>8. CASE Walk
  BY <1>8, <1>2, <1>3, <1>4 DEF Walk, Whole, Recorded, Sought, All
<1>9. CASE SaveList
  <2>1. /\ state'.list = list /\ state'.groups = state.groups /\ state'.setup = setup
        /\ UNCHANGED <<disk, events, list, restored, reported, todo, ended>> /\ pc = "walked" /\ pc' = "listed"
    BY <1>9 DEF SaveList, Control, TypeOK, Checkpoint
  <2>2. Recorded'
    BY <2>1, <1>2 DEF Whole, Recorded, Sought, Exact, All, Control
  <2>3. Sought'
    BY <2>1, <1>2, <1>3 DEF Whole, Sought, All
  <2>4. Sent'
    BY <2>1, <1>2 DEF Whole, Sent, All
  <2> QED BY <2>2, <2>3, <2>4 DEF Whole
<1>10. CASE GroupBySize
  <2>1. /\ list \in SUBSET Files /\ list = plan.admitted[setup] /\ restored = FilesOf(state.groups)
        /\ state.groups \subseteq GroupsOf(list) /\ pc = "group" /\ pc' = "grouped"
        /\ list' = Candidates /\ UNCHANGED <<disk, state, events, restored, reported, todo, ended>>
    BY <1>10, <1>1 DEF GroupBySize, Whole, Recorded, Sought, Exact, All, Control
  <2>2. GroupsOf(list') = All(setup) \ state.groups
    BY <2>1, GroupsLeft DEF Candidates, All
  <2>3. Sought'
    BY <2>1, <2>2, <1>2, <1>3 DEF Whole, Sought, All
  <2> QED BY <2>1, <2>3, <1>4 DEF Whole, Recorded
<1>11. CASE AfterGroup
  BY <1>11, <1>2, <1>3, <1>4 DEF AfterGroup, ReturnPaused, Whole, Recorded, Sought, All
<1>12. CASE TopOfLoop
  <2>1. GroupsOf({}) = {}
    <3>1. \A g \in GroupsOf({}) : g.files # {} /\ g.files \subseteq {}
      BY GroupIsClass
    <3> QED BY <3>1
  <2>2. list = {} => Seen(state.groups)
    BY <1>12, <2>1 DEF TopOfLoop, Whole, Sought, Seen
  <2> QED BY <1>12, <2>2, <1>2, <1>3, <1>4 DEF TopOfLoop, Whole, Recorded, Sought, All
<1>13. CASE HashChunk
  <2>1. /\ pc = "hash" /\ ~ cancel /\ pc' = "fold" /\ list \in SUBSET Files
        /\ GroupsOf(list) = All(setup) \ state.groups /\ reported = {g.hash : g \in state.groups}
        /\ UNCHANGED <<disk, state, events, list, restored, reported, ended>>
    BY <1>13 DEF HashChunk, Whole, Sought, Control, WithSaver, TypeOK
  <2>2. todo' = {g \in GroupsOf(list) : Visible(g)}
    <3>1. \A g \in GroupsOf(list) : [g EXCEPT !.files = g.files \intersect g.files] = g
      BY DEF GroupsOf
    <3>2. todo' = {g \in {[h EXCEPT !.files = h.files \intersect h.files] : h \in GroupsOf(list)} : Visible(g)}
      BY <1>13, <2>1 DEF HashChunk
    <3> QED BY <3>1, <3>2
  <2>3. ASSUME NEW g \in All(setup), g \notin state.groups, ~ (g.files \subseteq plan.reference)
        PROVE  g \in todo'
    <3>1. g \in GroupsOf(list) /\ Cardinality(g.files) >= 2
      BY <2>1, <2>3, GroupIsClass
    <3>2. state.groups \subseteq All(setup)
      BY <2>1 DEF Whole, Recorded, Exact, Control
    <3>3. g.hash \notin reported
      BY <2>1, <2>3, <3>2, <1>1
    <3> QED BY <2>2, <2>3, <3>1, <3>3 DEF Visible
  <2>4. Seen(state.groups \union todo')
    BY <2>3 DEF Seen
  <2>5. Sought'
    BY <2>1, <2>4, <1>2, <1>3 DEF Whole, Sought, All
  <2>6. todo' \subseteq All(setup)
    BY <2>1, <2>2
  <2> QED BY <2>1, <2>5, <2>6, <1>4
<1>14. ASSUME NEW g \in todo, RecordGroup(g) PROVE Whole'
  <2>1. /\ state'.list = state.list /\ state'.groups = state.groups \union {g} /\ state'.setup = setup
        /\ todo' = todo \ {g} /\ events' = events \union {g} /\ g \in All(setup)
        /\ pc = "fold" /\ UNCHANGED <<disk, pc, list, restored, reported, ended>>
    BY <1>14 DEF RecordGroup, Control, TypeOK, Checkpoint, Whole, Recorded
  <2>2. Recorded'
    BY <2>1, <1>2 DEF Whole, Recorded, Exact, All, Control
  <2>3. state'.groups \union todo' = state.groups \union todo
    BY <2>1
  <2>4. Sought'
    BY <2>1, <2>3, <1>2, <1>3 DEF Whole, Sought, Seen, All
  <2>5. Sent'
    BY <2>1, <1>2 DEF Whole, Sent, All
  <2> QED BY <2>2, <2>4, <2>5 DEF Whole
<1>15. CASE Enqueue
  <2>1. Seen(state.groups)
    BY <1>15 DEF Enqueue, Whole, Sought
  <2> QED BY <1>15, <2>1, <1>2, <1>3, <1>4 DEF Enqueue, Whole, Recorded, Sought, All
<1>16. CASE Shutdown \/ SaveFails("engine")
  BY <1>5, <1>16 DEF Shutdown, SaveFails, uiVars, Control
<1>17. CASE PauseSave \/ AfterPause \/ JoinSaver
  <2>1. UNCHANGED <<disk, state, events, list, restored, reported, todo>> /\ pc # "idle"
    BY <1>17 DEF PauseSave, AfterPause, JoinSaver, ReturnPaused
  <2>2. \/ pc' \in {"paused", "delete"} /\ UNCHANGED ended /\ (pc' = "delete" => pc = "draining")
        \/ pc' = "idle" /\ ended' = "paused"
    BY <1>17 DEF PauseSave, AfterPause, JoinSaver, ReturnPaused
  <2>3. Sought'
    BY <2>1, <2>2, <1>2, <1>3 DEF Whole, Sought, All
  <2> QED BY <2>1, <2>3, <1>4 DEF Whole, Recorded
<1>18. CASE FinishScan
  BY <1>18, <1>2, <1>3, <1>4 DEF FinishScan, Whole, Recorded, Sought, All
<1>19. CASE SaveStep("engine")
  <2>1. disk' \in {disk, state} /\ pc # "idle"
    BY <1>19, Parts DEF SaveStep, Pipeline, Control
  <2> QED BY <1>5, <1>19, <2>1 DEF SaveStep, uiVars
<1> QED BY <1>6, <1>7, <1>8, <1>9, <1>10, <1>11, <1>12, <1>13, <1>14, <1>15, <1>16, <1>17, <1>18, <1>19 DEF EngineStep

\* ... nor does the worker, ...
LEMMA SaverWhole ==
  ASSUME IInv, Whole, SaverStep
  PROVE  Whole'
<1>0. TypeOK /\ Control /\ Pipeline
  BY DEF IInv
<1> USE Parts, <1>0 DEF engineVars, inputs, uiVars, deskVars, storeVars, bounds, SaverAt, Saving
<1>1. UNCHANGED <<pc, state, setup, list, restored, reported, todo, cancel, events, ended, scanning, shown,
                  loading, results, keeping, plan>>
  BY DEF SaverStep, CheckPending, Park, Wake, TimeOut, TakePending, CheckStop, DrainPending, DrainLive, SaveStep,
         SaveFails
<1>2. pc # "idle"
  BY DEF SaverStep, CheckPending, Park, Wake, TimeOut, TakePending, CheckStop, DrainPending, DrainLive, SaveStep,
         SaveFails, Control, WithSaver
<1>3. disk' = disk \/ Snapped(disk')
  BY DEF SaverStep, CheckPending, Park, Wake, TimeOut, TakePending, CheckStop, DrainPending, DrainLive, SaveStep,
         SaveFails, Pipeline
<1>4. Recorded'
  BY <1>1, <1>2, <1>3 DEF Whole, Recorded, Exact, All, Snapped, Control
<1>5. Sought' /\ Sent'
  BY <1>1 DEF Whole, Sought, Sent, Seen, All
<1> QED BY <1>4, <1>5 DEF Whole

\* A checkpoint is carried over whole to its own setup.
LEMMA CarriedExact ==
  ASSUME TypeOK, Pipeline, NEW s \in Setups, disk # None => disk.setup = s /\ Exact(disk)
  PROVE  Exact(CarriedOver(s)) /\ CarriedOver(s).setup = s
<1>1. disk \in Checkpoint => [disk EXCEPT !.setup = disk.setup] = disk
  BY DEF Checkpoint
<1>2. Exact(NewCheckpoint(s)) /\ NewCheckpoint(s).setup = s
  BY DEF Exact, NewCheckpoint
<1>3. disk \notin {None, Torn} => disk \in Checkpoint
  BY DEF TypeOK
<1>4. CarriedOver(s) \in {disk, NewCheckpoint(s)} /\ (CarriedOver(s) = disk => disk # None \/ CarriedOver(s) = NewCheckpoint(s))
  BY <1>1, <1>3, NamesAssumption DEF NamesAssumption, CarriedOver, ResumeTier
<1> QED BY <1>2, <1>4

\* ... nor does the window.
LEMMA OtherWhole ==
  ASSUME OneGroupAHash, IInv, Growing, Fitting, Whole, Undisturbed, WindowStep \/ Kill \/ UNCHANGED vars
  PROVE  Whole'
<1>0. TypeOK /\ Control /\ Window /\ Pipeline /\ plan.slips = {}
  BY DEF IInv, Undisturbed
<1>1. /\ ~ scanning => pc = "idle"
      /\ loading.at # "no" => ~ scanning /\ dialogs = {}
      /\ dialogs # {} => ~ scanning
      /\ disk # None => disk \in Checkpoint /\ Loadable
  <2>1. dialogs \subseteq {"resume", "drift", "preflight"}
    BY <1>0 DEF TypeOK
  <2> QED BY <1>0, <2>1 DEF Window, TypeOK, Pipeline, Loadable
<1>2. /\ scanning => chosen = setup
      /\ ~ effect \/ scanning
      /\ loading.at = "read" => disk = loading.cp
      /\ dialogs # {} \/ loading.at # "no" => shown = NoRows
  BY DEF Fitting
<1>3. plan' = plan
  <2>1. [Next]_vars
    BY DEF Next, WindowStep
  <2> QED BY <1>0, <2>1, PlanStays
<1> USE <1>0, <1>1 DEF fileVars, engineVars, inputs, uiVars, deskVars, storeVars, engineSide, Frame
<1>4. OnList(NoRows) = {}
  BY ListedBy
\* What goes on beside the scan, and what it shows stays.
<1>5. ASSUME UNCHANGED <<disk, pc, setup, state, list, restored, reported, todo, cancel, events, ended>>,
             scanning' => scanning /\ shown' = shown,
             \A r \in keeping' \union ({results'} \ {None}) : OnList(r.rows) \subseteq All(r.setup),
             loading'.at = "read" => OnList(loading'.saved) \subseteq All(loading'.cp.setup)
      PROVE  Whole'
  BY <1>3, <1>5 DEF Whole, Recorded, Sought, Sent, Exact, Seen, All
<1>6. ASSUME NEW s \in Setups, disk # None => disk.setup = s, LaunchEngine(s),
             UNCHANGED <<disk, keeping, results>>, OnList(shown') \subseteq All(s), loading'.at = "no"
      PROVE  Whole'
  <2>1. Exact(CarriedOver(s)) /\ CarriedOver(s).setup = s
    BY <1>6, CarriedExact DEF Whole, Recorded
  <2>2. /\ disk' = disk /\ setup' = s /\ state' = CarriedOver(s) /\ list' = state'.list /\ todo' = {} /\ ~ cancel'
        /\ restored' = FilesOf(state'.groups) /\ events' = state'.groups /\ pc' = "marker" /\ ended' = "no"
    BY <1>6 DEF LaunchEngine, Restored
  <2>3. Recorded'
    BY <1>3, <2>1, <2>2 DEF Whole, Recorded, Exact, All
  <2>4. Sought'
    BY <1>3, <2>1, <2>2 DEF Sought, Exact
  <2>5. Sent'
    BY <1>3, <1>6, <2>1, <2>2 DEF Whole, Sent, Exact, All
  <2> QED BY <2>3, <2>4, <2>5 DEF Whole
<1>7. CASE SaveProjectRows \/ SaveProject \/ \E d \in {"drift", "preflight"} : CancelDialog(d)
  BY <1>5, <1>7 DEF SaveProjectRows, SaveProject, CancelDialog, Whole, Sent
<1>8. CASE Pause
  <2>1. pc \notin {"walk", "hash"}
    BY <1>8 DEF Pause, Undisturbed
  <2> QED BY <1>3, <1>8, <2>1 DEF Pause, Whole, Recorded, Sought, Sent, Exact, Seen, All
<1>9. CASE \E d \in {"resume", "drift"} : AcceptResume(d)
  <2>1. loading.at = "no" /\ loading' = [loading EXCEPT !.at = "asked"] /\ loading \in Loading
    BY <1>9 DEF AcceptResume, TypeOK
  <2>2. loading'.at = "asked"
    BY <2>1 DEF Loading
  <2> QED BY <1>5, <1>9, <2>2 DEF AcceptResume, Whole, Sent
<1>10. ASSUME NEW g \in events, ShowGroup(g) PROVE Whole'
  <2>1. scanning
    BY DEF Fitting
  <2>2. shown \in [Group -> Nat] /\ g \in Group /\ setup \in Setups /\ plan \in Plans
    BY DEF TypeOK, Rows
  <2>3. /\ state.groups \subseteq events \union OnList(shown) /\ events \subseteq All(setup)
        /\ OnList(shown) \subseteq All(setup)
    BY <2>1 DEF Whole, Sent
  <2>4. OnList(shown') = OnList(shown) \union {g}
    <3>1. CASE \E h \in OnList(shown) : h.hash = g.hash
      <4>1. PICK h \in OnList(shown) : h.hash = g.hash
        BY <3>1
      <4>2. h = g
        BY <2>2, <2>3, <4>1 DEF OneGroupAHash, All
      <4> QED BY <1>10, <3>1, <4>1, <4>2 DEF ShowGroup
    <3>2. CASE ~ \E h \in OnList(shown) : h.hash = g.hash
      <4>1. shown' = [shown EXCEPT ![g] = @ + 1]
        BY <1>10, <3>2 DEF ShowGroup
      <4>2. \A h \in Group : shown'[h] > 0 <=> shown[h] > 0 \/ h = g
        BY <2>2, <4>1
      <4> QED BY <2>2, <4>2 DEF OnList
    <3> QED BY <3>1, <3>2
  <2>5. Sent'
    BY <1>3, <1>10, <2>3, <2>4 DEF ShowGroup, Whole, Sent, All
  <2> QED BY <1>3, <1>10, <2>5 DEF ShowGroup, Whole, Recorded, Sought, Exact, Seen, All
<1>11. CASE LearnEnd
  <2>1. /\ scanning /\ ~ scanning' /\ UNCHANGED <<disk, pc, engineVars, cancel, events, ended, loading, results>>
        /\ keeping' \subseteq keeping \union {[setup |-> chosen, rows |-> shown]}
    BY <1>11 DEF LearnEnd
  <2>2. \A r \in keeping' \union ({results'} \ {None}) : OnList(r.rows) \subseteq All(r.setup)
    BY <1>2, <2>1 DEF Whole, Sent
  <2> QED BY <1>5, <2>1, <2>2 DEF Whole, Sent
<1>12. CASE Start
  <2>1. ~ scanning /\ ~ canResume
    BY <1>12 DEF Start, Settled, Growing
  <2>2. UNCHANGED engineSide
    BY <1>12, <2>1 DEF Start, StartLive
  <2> QED BY <1>5, <1>12, <2>1, <2>2 DEF Start, Whole, Sent
<1>13. CASE Launch
  <2>1. /\ chosen \in Setups /\ shown = NoRows /\ loading.at = "no" /\ (disk # None => disk.setup = chosen)
        /\ LaunchEngine(chosen) /\ UNCHANGED <<disk, shown, loading, keeping, results>>
    BY <1>2, <1>13 DEF Launch, TypeOK, Growing
  <2> QED BY <1>4, <1>6, <2>1
<1>14. CASE ContinueWithNew \/ StartFresh
  <2>1. pc = "idle" /\ ~ scanning /\ disk' = None /\ UNCHANGED <<engineSide, loading, results, keeping>>
    BY <1>14 DEF ContinueWithNew, StartFresh, Window
  <2>2. Recorded' /\ Sought'
    BY <1>3, <2>1 DEF Whole, Recorded, Sought, Seen, All
  <2>3. Sent'
    BY <1>3, <2>1 DEF Whole, Sent, All
  <2> QED BY <2>2, <2>3 DEF Whole
<1>15. CASE LoadResume
  <2>1. /\ UNCHANGED <<disk, engineSide, shown, keeping, results>>
        /\ loading' = IF Loadable THEN [at |-> "read", cp |-> disk, saved |-> Matching(disk.setup)] ELSE NoLoading
    BY <1>15 DEF LoadResume
  <2>2. loading'.at = "read" => OnList(loading'.saved) \subseteq All(loading'.cp.setup)
    <3>1. OnList(Matching(disk.setup)) \subseteq All(disk.setup)
      BY <1>4 DEF Matching, Whole, Sent
    <3> QED BY <2>1, <3>1 DEF NoLoading
  <2> QED BY <1>5, <2>1, <2>2 DEF Whole, Sent
<1>16. CASE Hydrate
  <2> DEFINE resumable == Loadable /\ disk.setup = loading.cp.setup
             table == Plus(Plus(shown, Once(loading.cp.groups)), loading.saved)
  <2>1. loading.at = "read" /\ disk = loading.cp /\ disk # None /\ dialogs = {} /\ ~ scanning /\ shown = NoRows
    BY <1>2, <1>16 DEF Hydrate, Window
  <2>2. disk \in Checkpoint /\ Exact(disk) /\ disk.setup \in Setups /\ disk.groups \in SUBSET Group /\ resumable
    BY <2>1 DEF Checkpoint, Whole, Recorded
  <2>3. OnList(table) \subseteq All(disk.setup)
    <3>1. shown \in Rows /\ loading.saved \in Rows /\ Once(disk.groups) \in Rows
      BY <2>2, RowsType DEF TypeOK, Loading
    <3>2. Plus(shown, Once(disk.groups)) \in Rows
      BY <3>1, RowsType
    <3>3. OnList(table) = (OnList(shown) \union disk.groups) \union OnList(loading.saved)
      BY <2>1, <2>2, <3>1, <3>2, ListedBy
    <3> QED BY <1>4, <2>1, <2>2, <3>3 DEF Whole, Sent, Exact
  <2>4. StartLive(disk.setup, resumable, TRUE, table, {}) /\ loading' = NoLoading /\ UNCHANGED <<disk, storeVars>>
    BY <1>16, <2>1 DEF Hydrate
  <2> HIDE DEF resumable, table
  <2>5. LaunchEngine(disk.setup) /\ shown' = table
    BY <2>2, <2>4 DEF StartLive
  <2> QED BY <1>6, <2>2, <2>3, <2>4, <2>5 DEF NoLoading
<1>17. CASE (\E s \in Setups \union {None} : Edit(s)) \/ OpenProject
  <2>1. ~ scanning /\ UNCHANGED <<disk, engineSide, keeping, results, loading>>
    BY <1>17 DEF Edit, OpenProject, Settled
  <2> QED BY <1>5, <2>1 DEF Whole, Sent
<1>18. ASSUME NEW r \in keeping, StoreResults(r) PROVE Whole'
  BY <1>5, <1>18 DEF StoreResults, Whole, Sent
<1>19. CASE Kill
  <2>1. disk' = disk /\ pc' = "idle" /\ ~ scanning' /\ ~ cancel' /\ ended' = "no" /\ loading'.at = "no"
        /\ keeping' = {} /\ results' = results
    BY <1>19, NamesAssumption DEF NamesAssumption, Kill, Loadable, NoLoading
  <2> QED BY <1>3, <2>1 DEF Whole, Recorded, Sought, Sent, Exact, All
<1>20. CASE UNCHANGED vars
  BY <1>5, <1>20 DEF vars, Whole, Sent
<1> QED BY <1>7, <1>8, <1>9, <1>10, <1>11, <1>12, <1>13, <1>14, <1>15, <1>16, <1>17, <1>18, <1>19, <1>20
           DEF WindowStep, UiStep, UserStep, WorkerStep

\* When a scan of a user who waits has finished, however often it was killed, paused and
\* resumed, the window lists every group of the files it was to scan, if no content has
\* two of them (live.rs, run; app.rs, apply_resume_hydrated).
THEOREM Finishing ==
  ASSUME OneGroupAHash
  PROVE  Spec => [](plan.slips = {} => FinishedComplete)
<1> DEFINE Inv == GInv /\ (Undisturbed => Whole)
<1>1. Init => Inv
  <2> SUFFICES ASSUME Init PROVE Whole
    BY InitWaits
  <2> QED BY DEF Init, Whole, Recorded, Sought, Sent, NoLoading
<1>2. Inv /\ [Next]_vars => Inv'
  <2> SUFFICES ASSUME Inv, [Next]_vars PROVE Inv'
    OBVIOUS
  <2>1. GInv' /\ plan' = plan
    BY StepWaits, PlanStays DEF GInv, IInv
  <2>2. ASSUME Undisturbed PROVE Whole'
    BY <2>2, EngineWhole, SaverWhole, OtherWhole DEF GInv, Next, WindowStep, Undisturbed
  <2> QED BY <2>1, <2>2 DEF Undisturbed
<1>3. Inv => (plan.slips = {} => FinishedComplete)
  <2> SUFFICES ASSUME Whole, ended = "finished", scanning, events = {}, NEW g \in GroupsOf(plan.admitted[setup])
               PROVE  g.files \subseteq plan.reference \/ g \in OnList(shown)
    BY DEF FinishedComplete, Undisturbed
  <2> QED BY DEF Whole, Sought, Sent, Seen, All
<1> QED BY <1>1, <1>2, <1>3, PTL DEF Spec

-----------------------------------------------------------------------------
(* Implementation of ScanProgress. *)

Known   == IF pc = "idle" THEN {} ELSE state.groups
Durable == IF OnDisk THEN disk.groups ELSE {}
Running == pc # "idle"

\* Nothing is found and nothing is durable at first.
LEMMA InitProgress == Init => Progress!Init
BY DEF Init, Progress!Init, OnDisk, Loadable

\* A step of the engine starts no scan, ...
LEMMA EngineProgress ==
  ASSUME IInv, Steady, EngineStep
  PROVE  [Progress!Next]_<<Known, Durable, Running>>
<1> USE DEF engineVars, inputs, EngineAt, GoTo, Known, Durable, Running, OnDisk, Loadable
<1>0. state \in Checkpoint /\ (disk # None => disk.groups \subseteq state.groups \/ state.groups = {} \/ pc = "idle")
  BY DEF IInv, TypeOK, Disk, Foreign
<1>1. ASSUME pc # "idle", pc' # "idle", UNCHANGED <<disk, state>> \/ (UNCHANGED disk /\ state'.groups = state.groups)
      PROVE  UNCHANGED <<Known, Durable, Running>>
  BY <1>1
<1>2. ASSUME pc # "idle", pc' = "idle", UNCHANGED disk PROVE Progress!Next
  BY <1>2 DEF Progress!Next, Progress!Stop
<1>3. CASE SaveMarker \/ GroupBySize \/ TopOfLoop \/ HashChunk \/ Enqueue \/ Shutdown \/ PauseSave \/ JoinSaver
  BY <1>1, <1>3 DEF SaveMarker, GroupBySize, TopOfLoop, HashChunk, Enqueue, Shutdown, PauseSave, JoinSaver
<1>4. CASE AfterMarker \/ Walk \/ AfterList \/ AfterGroup \/ AfterPause
  BY <1>1, <1>2, <1>4 DEF AfterMarker, Walk, AfterList, AfterGroup, AfterPause, ReturnPaused
<1>5. CASE SaveList
  BY <1>0, <1>1, <1>5 DEF SaveList, Checkpoint
<1>6. ASSUME NEW g \in todo, RecordGroup(g) PROVE Progress!Next
  <2>1. g \in Group /\ state'.groups = state.groups \union {g} /\ state.groups \subseteq Group
    BY <1>0, <1>6 DEF RecordGroup, IInv, TypeOK, Checkpoint
  <2> QED BY <1>6, <2>1 DEF RecordGroup, Progress!Next, Progress!Find
<1>7. CASE FinishScan
  BY <1>7 DEF FinishScan, Progress!Next, Progress!Complete
<1>8. CASE SaveStep("engine")
  <2>1. pc # "idle" /\ UNCHANGED <<pc, state>>
    BY <1>8 DEF SaveStep, IInv, Control
  <2>2. writing["engine"].at = "rename" => disk' = state /\ disk' \notin {None, Torn}
    BY <1>0, <1>8, NamesAssumption DEF NamesAssumption, SaveStep, IInv, Pipeline, Threads
  <2>3. writing["engine"].at # "rename" => UNCHANGED disk
    BY <1>8 DEF SaveStep
  <2> QED BY <1>0, <1>1, <2>1, <2>2, <2>3 DEF Progress!Next, Progress!Keep
<1>9. CASE SaveFails("engine")
  BY <1>9 DEF SaveFails, Steady
<1> QED BY <1>3, <1>4, <1>5, <1>6, <1>7, <1>8, <1>9 DEF EngineStep

\* ... one of the worker keeps what is on disk or adds to it, ...
LEMMA SaverProgress ==
  ASSUME IInv, Steady, SaverStep
  PROVE  [Progress!Next]_<<Known, Durable, Running>>
<1> USE DEF engineVars, Known, Durable, Running, OnDisk, Loadable
<1>1. CASE SaveStep("saver")
  <2>1. pc # "idle" /\ UNCHANGED <<pc, state>>
    BY <1>1 DEF SaveStep, IInv, Control, WithSaver
  <2>2. writing["saver"].cp \in Checkpoint
    BY <1>1, Parts DEF SaveStep, Saving, IInv, Save
  <2>3. writing["saver"].at = "rename" =>
          /\ disk' \notin {None, Torn} /\ disk'.groups \subseteq state.groups
          /\ disk # None => disk.groups \subseteq disk'.groups
    BY <1>1, <2>2, NamesAssumption DEF NamesAssumption, SaveStep, IInv, Pipeline, Disk, Snapped, Threads
  <2>4. writing["saver"].at # "rename" => UNCHANGED disk
    BY <1>1 DEF SaveStep
  <2> QED BY <2>1, <2>3, <2>4 DEF Progress!Next, Progress!Keep
<1>2. ASSUME UNCHANGED <<disk, state, pc>> PROVE UNCHANGED <<Known, Durable, Running>>
  BY <1>2
<1> QED BY <1>1, <1>2 DEF SaverStep, SaverAt, CheckPending, Park, Wake, TimeOut, TakePending, CheckStop, DrainPending,
           DrainLive, SaveFails

\* ... and a new scan starts with what is on disk, or with nothing.
LEMMA OtherProgress ==
  ASSUME IInv, Steady, WindowStep \/ Kill \/ UNCHANGED vars
  PROVE  [Progress!Next]_<<Known, Durable, Running>>
<1> USE DEF fileVars, engineVars, Known, Durable, Running, OnDisk, Loadable
<1>0. TypeOK /\ Window
  BY DEF IInv
<1>1. CASE Launches
  <2>1. PICK s \in Setups : LaunchEngine(s)
    BY <1>1 DEF Launches
  <2>2. CarriedOver(s).groups \in {Durable, {}}
    BY CarriedGroups, NamesAssumption DEF NamesAssumption, IInv, TypeOK, CarriedOver, NewCheckpoint
  <2>3. pc = "idle" /\ UNCHANGED fileVars
    BY <1>0, <1>1 DEF Launches, Window
  <2> QED BY <2>1, <2>2, <2>3 DEF LaunchEngine, Progress!Next, Progress!Start
<1>2. CASE Archives
  <2>1. pc = "idle"
    BY <1>0, <1>2 DEF Archives, Window, Steady
  <2> QED BY <1>2, <2>1 DEF Archives, Progress!Next, Progress!StartFresh
<1>3. CASE GoesOn
  BY <1>3 DEF GoesOn
<1>4. CASE Kill
  <2>1. disk # Torn
    BY DEF IInv, Pipeline
  <2> QED BY <1>4, <2>1 DEF Kill, Progress!Next, Progress!Stop
<1>5. CASE UNCHANGED vars
  BY <1>5 DEF vars
<1> QED BY <1>0, <1>1, <1>2, <1>3, <1>4, <1>5, WindowSteps

\* When saves do not fail and no question about the drift is left open, the session
\* implements ScanProgress: what is found and saved is never lost again, through any number of kills, pauses and resumes.
THEOREM Progressing == Spec /\ Steady => KeepsProgress
<1>1. IInv /\ Steady /\ [Next]_vars => [Progress!Next]_<<Known, Durable, Running>>
  BY EngineProgress, SaverProgress, OtherProgress DEF Next, WindowStep
<1>2. IInv /\ Steady /\ [Next]_vars => Steady'
  BY PlanStays DEF IInv, Steady
<1> QED BY <1>1, <1>2, InitProgress, Invariance, PTL DEF Spec, KeepsProgress, Progress!Spec, Progress!pvars, Known, Durable, Running
=============================================================================
