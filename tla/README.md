# superdeduper verification

TLA+ models of superdeduper, a duplicate file finder that also removes, links,
renames and archives what it finds. Paths are relative to the repository root
(the crate is under `src/`). "Model-checked" means TLC over the instance of a
`.cfg`; "proved" means TLAPS, for every value of the constants.

To check: `tlc -config MCX.cfg MCModule` and `tlapm XProofs.tla`.

## 1. Inventory

| Component (code) | State | Operations | Hard behaviours | What makes it correct |
|---|---|---|---|---|
| File actions (`dedupe.rs` perform_action and below, `windows_impl.rs`, `linux/reflink.rs`) | files, names, the bin | guards, remove, recycle, safe rename, hard-link and reflink replacement | several system calls per action; kills, dropped errors, other programs in between | no content lost; keeper, references and system files untouched |
| CLI planner (`dedupe.rs` run, process_group) | results file, counters | walk the groups, choose a keeper, gates, dry run | stale results file, reruns after a kill, second spellings of a file | guards hold, counters add up |
| Hash cache (`cache.rs`) | rows per inode, in-memory mirror, inventory snapshots | lookup, store, warm, clear, snapshot upsert | several processes, rows that outlive their file | a hit is the hash of today's content |
| Grouping and hashing (`pipeline/`) | groups, tier digests | four tiers, alias stream, cancel | parallel reads, failures, files that change | reported groups are copies, none is missed |
| Scan session (`gui/live.rs`, `checkpoint.rs`, `resume_tier.rs`, the launch in `gui/app.rs`) | checkpoint file, lists, found groups, dialogs | launch, walk, hash, fold, pause, resume, save, ask what to do with a checkpoint of other settings | engine, save worker, resume worker and window run concurrently; kills | progress survives or is given up with the user's word, the window tells the truth |
| Actions of the window (`gui/app.rs`, `archive.rs`, `state.rs`) | table, pending action, workers, manifest | confirm, act item by item, Stop, promote, archive, restore, unsuperdeduper | workers over snapshots, one shared flag, copy-then-delete | a copy stays in place, table = disk, moves can be undone |
| XDG trash (`linux/trash.rs`) | `files/` and `info/` | choose a name, write info, move | several processes, kills between two calls | trashing is one reversible move |
| Inventory walk (`inventory/walk.rs`) | queue of folders, visited identities, list | walk roots in parallel, follow links once, dedup paths | link cycles, roots inside each other, folders that move, cancel | each file once, none forgotten, it ends |
| Warm inventory (`inventory/warm.rs`, `mft.rs`, `cache.rs`) | snapshot, journal cursor | read the journal from the cursor, apply the delta, save, give up | journal wrap, changes between cursor and table, two processes | snapshot = volume |
| Leaderboard submission (`leaderboard/action_submission.rs`, `pending_actions.rs`, `resubmit.rs`, `gui/scan_history.rs`) | history rows, action queue file, one-slot workers | submit, credit actions, resubmit, batch, delete | late answers, lost answers, load-modify-save of shared files, kills | Submitted means on the server, actions credited once and to their scan |
| Sign-in (`leaderboard/oauth.rs`, `registration.rs`, `install.rs`) | install file, its backups, token file, preference | register, reset, link, cancel, poll | loopback listener, time limit, late redirect, channel switched meanwhile | what is on disk is known to the server, no identity lost |
| Account settings (`gui/widgets/settings_modal.rs`, `account_privacy.rs`, `account_display_name.rs`) | flags and nickname shown, process-wide | fetch, flip a flag, rename, confirm | all flags sent with each click, lost and odd answers, a frame that reads twice | what is shown is the account's, nothing changes that nobody clicked |
| Exclusions (`exclusions/`) | settings, or flags | compile a policy when a scan starts, judge each path | packs and rules of the user's own, rules that do not compile, several paths to one file | what is listed is what the rules leave in |
| Keep strategies (`keep.rs`) | none | total orders | - | same answer for same input |
| Results store, projects (`gui/results_store.rs`, `gui/project.rs`) | JSON files | save, restore | a save in the background while the next scan begins; kills between two files | what is stored is a scan of its roots and settings |
| Window, diagnostics, formats, benchmarks | - | rendering, logging, parsing | - | - |

The engine thread walks, groups and hashes, sends groups to the window as events
and snapshots to the save worker. The window starts and cancels engines, and
starts a worker thread for each action on groups; the workers call the same file
actions as the command line and send events back. What a worker did is credited
to the scan's submission on the leaderboard, through a queue file when that
submission is not known yet. The command line writes a results file that a later
`dedupe` run reads. Cache, checkpoint, history, queue, install file and trash are
files that several threads or processes share, nearly all of them by
load-modify-save.

The hazards of this code are in `PROJECT.json`, each at its line.

## 2. Modules

| Module | Models | Instances |
|---|---|---|
| `FileActions` | the disk (names, inodes, bin) and each action, one step per system call | used by `Dedupe`, `GuiActions` |
| `Dedupe` | the CLI planner, repeated runs, kills, other programs | `MCDedupe` |
| `HashCache` | rows and mirror | used by `HashPipeline` |
| `DuplicateFinder` | abstract: what a scan promises | refined by `HashPipeline` |
| `HashPipeline` | grouping, tiers, several scans on one cache | `MCHashPipeline` |
| `ScanProgress` | abstract: found groups are kept | refined by `ScanSession` |
| `ScanSession` | engine, save worker, window with its dialogs, checkpoint, results store, a project | `MCScanSession` |
| `GuiActions` | the window's workers, dialog, modal and table over `FileActions` | `MCGuiActions` |
| `TrashBin` | abstract: a bin with atomic moves | refined by `XdgTrash` |
| `XdgTrash` | trash_file, one step per system call | `MCXdgTrash` |
| `Exclusions` | the policy made of settings or flags, and what it says of a path | used by `WarmInventory`, `Inventory` |
| `Volume` | an NTFS volume: records, changes by other programs, the change journal | used by `WarmInventory` |
| `WarmInventory` | cold inventories by the file table, warm ones by the journal, the snapshot in the cache | used by `Inventory` |
| `Inventory` | the walk, composed with the above: the dispatch between them | `MCInventory` |
| `ScanHistory` | the history rows and every operation on them | used by `Submissions` |
| `Submissions` | engine, window, worker threads, queue file and server of the leaderboard | `MCSubmissions` |
| `SignIn` | registration, loopback sign-in, install and token files per channel | used by `AccountProfile` |
| `AccountProfile` | the flags and the nickname of the account, composed with the above | `MCSignIn` |
| `DedupeProofs`, `ScanSessionProofs`, `XdgTrashProofs`, `SubmissionsProofs`, `InventoryProofs` | theorems about the module of that name | |
| `HashProofs`, `GuiProofs` | theorems about `HashPipeline`, `GuiActions` | |
| `SignInProofs` | theorems about `SignIn` and `AccountProfile` | |

How they stand to the code:

- **FileActions.** `dir` maps a name to an inode, `data` an inode to its content,
  so hard links are two names of one inode. A path is a spelling, `Canon` gives
  the entry it resolves to. `job[w].phase` is the place in perform_action where
  thread w is; derived names (aside, clone, safe) are constants, so that the
  collisions `with_extension` causes are an instance. The XDG trash, and the
  Windows bin, are one move here; `XdgTrash` says when that is right.
- **Dedupe.** `pc`, `gi`, `mi`, `ki`, `kid` are the loops of run and
  process_group with the keeper's identity; every gate is a conjunct or branch of
  PlanMember and InspectMember in the order of the code. `Crash` kills the process
  at any step, `Outside` writes in place, saves over, or deletes.
- **HashPipeline.** A file has an inode, an inode a content and a stamp; a digest
  is a function of tier and content, given so that two contents may agree in
  tiers one and two. `EditKinds` says what other programs do: write in place,
  save a new file over the old one, or the same under an inode number that has
  been given out before. `held` is history: the contents a file has had since the
  scan listed it, which is what its promise is about.
- **ScanSession.** `pc` is the place of the engine thread in run; `saver` that of
  SaveWorker; `writing` the step of checkpoint::save a thread is in (temporary
  file, then rename). What is sent to the window stays in `events` until it is
  drained. Hashing is one step that yields the groups, or part of them when
  cancelled: `HashPipeline` models the inside. Of the window, `chosen` is what its
  panels hold, `dialogs` the questions that are open (a checkpoint found at
  launch, settings that have drifted from it, the preflight), `loading` the worker that
  reads a checkpoint to resume, `shown` how often each group is listed. A
  preflight that finds nothing to ask is one that is answered at once. `results`
  is results-state.json, `keeping` what threads are about to store there, `bundle`
  the one project, whose two files are written one after the other. The dialogs
  are not modal: `plan.slips` names what a user does who does not wait for one,
  or for a scan, to end: click Start again, edit the settings, open a project.
- **GuiActions.** `task[w]` is a worker with its snapshot; `table`, `acted`,
  `pending`, `modal` are UiState and the dialog, `channel` the events on their way.
  `user.patient` says whether the user waits for one action to end before
  touching the table: the modal dims the window but takes no input from it.
  `user.roots` has the files that may be below each scan root: unsuperdeduper goes
  from root to root (EnterRoot), and inside one it looks at no flag (InRoot,
  StopSeen), as the code does. `manifests` are files named for the second: one may
  replace the last (`user.sameSecond`), and one that breaks off counts as not
  written, because nothing can be restored from it. Abstractions: the filter for
  unreclaimable groups is off, a suffixed name takes no second suffix
  (`GuiAssumption`, `dedupe.rs:1134`), and an action that asks for nothing is confirmed by
  the click itself.
- **XdgTrash.** A name in the trash is a slot of `data` (files/) and one of
  `info` (info/). `Candidate` gives the names tried for a file, which may collide
  with those of another file. The desktop's "restore" is external.
- **Volume, WarmInventory, Inventory.** A record of the volume has a name, a
  parent and a content; a change appends a journal record, and the journal may
  be cut or deleted. `at[s]` is the step an inventory has come to: the snapshot's
  meta and rows, the journal's delta and its records one by one, or the table's
  records and the sizes of its files, with what it works on in `job[s]`; giving the
  snapshot up is two steps, because it is two statements of their own (the cursor
  goes, then the rows: DropRows), between which a process may be killed; or the
  walk, with a lane for each root in `lanes[s]`. A lane has the layer of folders to
  be read, those announced and being read, the next layer, the visited identities
  and its entries; one step reads one folder, so that changes by others fall
  between any two. `list[s]` is the outcome, and `quiet[s]` says that nothing has
  changed since the inventory began. `setup` selects the volume at the start, the
  roots, the user's rules, the changes others make and how often. What is assumed
  of a setup is what any NTFS volume has: it is a tree, links that are there are
  known to lead somewhere and not to another link, as the file system resolves
  them (`SetupsAssumption`), its references are positive (`RefsAssumption`; 0 is
  the table's own), and the snapshot is of the journal there is
  (`SnapshotsAssumption`).
- **Exclusions**, and the filters by size and glob. A path is a sequence of
  names, a pattern one of the two forms the presets and the examples have.
  `Passes` is asked of each file of a walk under the path it is met by; folders
  are always gone into. The file table's entries pass the filters and know no
  exclusions. `QuietListExact` allows for what follows from this: a walk that
  follows links comes to a folder by one of its paths, so `MayList` has the files
  with some allowed path, `MustList` those with no other, and `MayRepeat` says by
  which paths a file may be met again: through a link, or, when links are followed and the
  roots walked one after the other, by a link to the file itself or a root that is
  the file. Every other file is listed once.
- **ScanHistory, Submissions.** A history row is a record of status, attempts and
  submission id. `job[t]` is what a thread does, the window's included, with the answer it
  got and the rows or the queue it has loaded: one step per load, request and save, so that
  other threads fall between load and save. `pending`, `subId` and `outcome` are the
  three slots threads report through (PENDING, PENDING_SUBMISSION_ID, LAST_OUTCOME),
  `inFlight` that of the resubmit worker. `queue` is pending_actions.json, which is
  truncated before it is written: killed in between, it is empty or does not parse
  (`Torn`). The server is external: `received` are the scans it has, `credit` the
  actions it counts for each, which a PATCH replaces as a whole; it takes a request
  and its answer may be lost. `user` selects what is clicked, how often, which requests
  fail, whether the process is killed, and whether the user waits for the answer of one
  click before the next.
- **SignIn.** `install[c]`, `kept[c]` (the timestamped backups) and `token[c]`
  are the files of channel c. `link[t]` and `reg[r]` are the threads of
  OauthSession and RegisterSession, which outlive the session on screen:
  cancellation only drops the receiving end. A poll of the window takes an
  answer and starts what the code starts next, a refused link's registration
  included.
- **AccountProfile.** `privacy` and `nick` are the process-wide cells of the
  settings, `profile` what the server has, `call` one thread for each kind of
  request. An answer has the flags of `user.shapes` or all of them: one without a known
  flag is a failure, and a flag left out is off (Parsed). A frame that draws the flags
  has two steps, because it reads the flags before it looks whether an answer is
  awaited: `frame` holds what it has read.
  FullSpec interleaves these actions with those of SignIn, which change the
  identity and the link that the requests carry.

Where one instance should answer for users who differ, what differs is a record
chosen in Init that no step changes: `plan` in ScanSession, `user` in GuiActions,
Submissions and SignIn, `setup` in Inventory. One run then covers all of them,
and the fields are documented at the variable.

Definitions marked *Mutant* are plausible wrong versions of the definition after
them; each property was seen to fail under one of them (`PROJECT.json`, mutants).

## 3. Runs

| Run (cfg) | Question and result | Bounds |
|---|---|---|
| dedupe_quiet (MCDedupeQuiet) | Does any sequence of runs and kills lose a content? No. | 2 groups of 2, 3 runs, 2 kills, clean-up may fail, Linux |
| dedupe_guards (MCDedupeGuards) | Do the guards hold against second spellings, references, system files, placeholders, and a change by another program; do counters add up; does link replacement leave names alone? Yes. | 3 groups, 1 run, 1 change, Windows |
| hash_shared (MCHashShared) | Does each scan implement DuplicateFinder when GUI and CLI share a cache, files are saved by rename and processes killed? Yes. | 2 files, 2 scans each, 1 edit, 1 kill, cache clears |
| hash_one_scan (MCHashOneScan) | One scan through all tiers with aliases, unidentified and blocked files, failing reads, in-place writes and cancel: is no pair of copies missed that should be found, and does it end? Yes. | 5 files, 3 contents, 1 write |
| hash_stale_row (MCHashStaleRow) | Are confirmed groups identical after an in-place write between two scans? **No**, see section 6. | 2 files, 2 scans, 1 change |
| session (MCSession) | Do the list and the found groups survive kills, pauses and resumes; are they given up only with the user's word; does a shut-down worker leave nothing unsaved; do finished scans show everything, and nothing of another scan; does each scan end and the window learn of it? Yes, but for a failed walk. | 4 files in 2 groups, 2 setups; `Killed`: 2 kills, 1 pause not in walk or hashing; `Editing`: the same with 1 kill, settings edited at any time; `Failing`: failing saves and walk, references, 2 roots, 1 pause anywhere; `Keeping`: setups of different files, stored results, a project, 1 kill, 1 pause |
| gui_actions (MCGuiActions) | Does a copy stay, table = disk, does Stop end a worker where the code looks at the flag, are references kept, moves whole and undoable, does the modal close? Yes, for patient users where said; Stop is seen between files, and by unsuperdeduper between roots, which is less than its tooltip says (section 6). | `Sorting`: groups of 3 and 2, a reference, 3 actions, 1 promotion, 1 Stop, a kill; `Archiver`: 1 group of 3, two scan roots, archive on another volume, restore, bulk rename, undo; `Hurried`: 2 workers at once, failing copies, two manifests in one second |
| gui_overlap (MCGuiOverlap) | Does a copy stay when two actions overlap? **No**, see section 6. | 1 group of 2, 2 workers |
| trash_one (MCTrashOne) | Is trash_file an atomic move for one caller that fails or is killed anywhere? Yes. | 3 files with colliding names, 3 tries |
| leaderboard (MCLeaderboard) | Is a row Submitted only of a scan the server has, the queue below its cap, an action credited once, and its credit lost only at five places of the code; does each request resolve? Yes; some only for a user who waits. At those five a credit does get lost, and no window says so (section 6). | 2 scans, 3 actions (one archives), 3 worker threads, cap of 2 attempts, 3 PATCHes, sticky after 1; seven users |
| inventory (MCInventory) | Does a snapshot catch up with the volume through warm and cold scans, does an undisturbed inventory list exactly what the user's rules leave in, each file once, does every walk end? Yes, for the setups listed. | 7 records, 2 scanners; 15 setups: alone, journaled with a kill, two processes, refused table, five walks with links, cycles, nested roots, moves and a cancel, six with the user's rules |
| signin (MCSignIn) | Is what is on disk known to the server, is an identity never lost, does each session end; does a click on a flag change no other, and do the settings show what the account has? Yes, of flags that no answer leaves out and of a rename that succeeded, for one account and frames that no answer interrupts. | 2 threads of each kind, 2 accounts, 2 channels, 2 or 3 clicks, 1 switch; network and disk failures; 2 flags, 2 nicknames, 2 or 3 changes |

The bounds leave room for the cases that matter: a rerun after a kill after a
rerun, a second tier over a cached first one, a kill after a resume after a kill,
an action on what an earlier action has left, every name of a file taken, a
second scan submitted while the first one's answer is on its way, a journal cut
between two warm scans, a link cycle entered from both sides, a click on the
other account while a cancelled listener still runs. Each mutant of
`PROJECT.json` is found within them. Inodes are symmetric in the safety runs of
Dedupe; the other runs use no symmetry.

`CHECK_DEADLOCK FALSE` is given where the system stops: when all runs, actions,
clicks or scans of the bound are used up, when the window waits for an end that
never comes (session), and when no file is left to trash (XdgTrash).

### Fairness

- `HashPipeline`: WF of each scan's step. The pool's threads run until their
  queue is empty.
- `ScanSession`: WF of the engine, the save worker and the window, which are
  threads that are not blocked for good; SF of taking the worker's lock, which
  parking_lot hands over fairly. The worker's wait has a time limit: TimeOut is
  always a possible step, and its wake-up may be lost.
- `GuiActions`: WF of each worker and of draining the channel at each frame.
- `Submissions`: WF of the engine's end, of the window's frame and of each worker
  thread: a request has a time limit, so it is answered or fails.
- `Inventory`: WF of the walk's steps alone. Nothing is assumed of the other
  programs, of the journal, or of warm scans, for which only safety is claimed.
- `SignIn`: WF of the two polls, because a surface that polls is on screen as
  long as a session runs, and of each thread; SF of the listener's time limit,
  because time passes while connections come and go.
- `Dedupe` and `XdgTrash` have safety properties only and no fairness.

## 4. What is proved

Every theorem holds for all values of the constants that meet the assumptions
named in the modules, which TLC evaluates in each run.

**Dedupe** (`DedupeProofs`), for all results files, invocations, numbers of runs
and kills:

- `Typed`: type correctness (no run checks it: the theorem is for all of them), from `TypeInv`, which adds that the loops are at a
  member of a group and that a job names paths.
- `NothingLost`: every content of the results file can be opened or restored,
  assuming NamesApart (derived names do not collide) and MaxOutside = 0. The
  property is not inductive: between MoveAside and HardLink the content may be
  under the aside name alone. `IInv` says, per phase of the job, where the
  target's content is (JobOK), that every scanned or derived name holds what the
  scan found there (DiskOK), and that a validated member is still there.
- `KeeperSafe`: under the same assumptions a permanent removal never takes the
  keeper, because both names exist when the action's own gate compares inodes.
- `SummaryAddsUp`: each planned member is counted once (OutcomesAddUp). No premise:
  other programs, and errors that abandon a group, change nothing in it.
- `ReferencesSafe`: no step touches a reference or what it holds, under whatever
  spelling. Handed says that the action under way is the planner's, ActFrame that of
  the scanned files it changes its target alone and no content that can be reached,
  and Referenced that a member handed over is none of the canonical references.
  Premises: NamesApart, and that no program deletes files, because a reference that is gone
  when the set is built is remembered as it is spelled.
- `ProtectedSafe`: the same of system files and of placeholders that would have to be
  fetched (Spared), if other programs only write in place: a system file that
  comes back after its group was opened is not refused again.
- `NamesKept`: a replacement by a link or a clone leaves its name (LinkingKeepsNames),
  because whenever the name is gone the aside name still has the file (JobOK, Named).
  Premises: NamesApart, and that clean-up calls work, whose errors the code drops.
  The property is about steps before any other program has changed a file; the theorem
  carries IInv that far (Undisturbed) whatever MaxOutside is.

**HashPipeline** (`HashProofs`), for all files, contents, digests, scans, edits,
failures and kills, under `Trusted`: there is no cache, or files are only ever
replaced, under inode numbers never given out twice, and each file has one:

- `Found`: a scan refines DuplicateFinder: the groups it reports are disjoint,
  and the files of each held one content since the scan listed them.
- `Identical`: hence ConfirmedIdentical, the property the run hash_stale_row
  breaks where the premise is missing.
- `Invariance`: `IInv`. The files listed with one inode all held one content, of
  the size listed (Listings); the classes of a pool share no file, an alias set
  is of one inode and is apart from them, and what is reported is no longer in
  the pool (Pools); a hash, of any tier, is that of a content the file held
  (TrueHashes). For the cache, Shared says that every stored hash is true
  of the inode that owns the row (TrueRows), that a file in the tiers is the only
  readable one of its inode (Sole), and that a replaced file gets an inode no row
  and no list knows (Owners). Under in-place
  writes TrueRows is false, and that is the finding. With inode numbers that come
  again, TLC finds Found violated for the command line's scan as well (MCHashShared
  with `EditKinds = {"replace", "reuse"}`, `MaxEdits = 3` and no mirror): an
  old tier-three column survives under the new stamp. So neither part of the
  premise can go.
- `MissesNothing`: an undisturbed scan misses nothing that the pipeline compares.
  `Complete` adds to IInv that two files which must be reported together are
  together at every stage (Together): in the class, in one alias set, in one pool,
  or in a reported group. A pool keeps both since they have one outcome at every
  tier, the hash of the one content they held (TrueHashes, which for a cached
  tier-one hash needs TrueRows of that tier too) or no fingerprint at tier zero
  (Answered). The run hash_one_scan checks the property where the premise does
  not hold: one scan, in-place writes, files without an inode.

**ScanSession** (`ScanSessionProofs`), for all files, setups, plans, kills and
pauses:

- `ListKept`, `Drained`: from the save after the walk to the end of a scan the
  list is on disk, and a worker that was shut down has left the latest state
  there.
- `Progressing`: a session refines ScanProgress: groups found and saved are not
  lost through kills, pauses and resumes.
- `Questioned`: whatever saves fail, only a finished scan and an answer of the
  user leave less on disk than there was, if the user waits.
- `Truthful`: under the same condition a scan lists groups of its own files only,
  and what is stored is the list of a scan of the setup it is stored with.
- `Finishing`: FinishedComplete, under the same condition and if no content has two
  groups in one scan (OneGroupAHash: two sets of aliases of one content, or
  aliases beside other copies, are two groups of one digest, and the window then
  shows one of them, RecordedIsShown in section 6). With slips of the user it is
  false: settings edited while a preflight is on leave the list of other settings
  (ListFitsSettings in section 6). The invariant, Whole, says that a checkpoint has
  whole groups of its setup's files and the whole list or none (Recorded), that
  what the engine is still to look for is what it has not restored (Sought), and
  that the window shows a recorded group or is yet to be told of it (Sent). Its step
  over GroupBySize is GroupsLeft: leaving out the files of restored groups, and then
  the files that are the only ones of their size, leaves every other group whole.
- `Invariance`: `IInv` is type correctness, Control (the engine and the worker
  never write the checkpoint at one time, which is a matter of who holds the lock
  and when the worker is joined), Pipeline (what the engine has found, folded and
  handed over agree), Window (which dialogs can be open together, what a resume
  worker has read, and that without a click at a bad moment no dialog is open
  during a scan) and Disk (what is saved next never has less than what is on disk).
  Disk, and with it ListKept, Drained and Progressing, has the premise `Steady`:
  when a save fails the code goes on, and the state on disk is an older one; and
  a drift question that is left open while a scan runs is answered over its
  checkpoint. For Questioned, Truthful and Finishing, Growing says that what is saved next
  keeps the groups on disk even when earlier saves failed, and Fitting that every
  group in a list, an event, a checkpoint or a store has only files that the setup
  beside it admits.

**GuiActions** (`GuiProofs`), for all tables, users, workers and numbers of actions:

- `Types`: type correctness, with what a worker's place says of its file action (Fits):
  an idle one has nothing in hand, one that acts has the first of its items, in a phase
  of that kind of action (no run checks it: the theorem is for all of them).
- `CopiesStay`, `TableIsTruthful`: CopyStays and TableTruthful. Neither is inductive: what
  a worker does next rests on rows it captured before others went. `TidyInv` says that
  a batch is of listed copies, each once, whose keepers are no item's target and of
  which the table has yet to hear nothing (Batch); that what is listed is there, or
  the table will hear that it is gone, or it is the file in hand, half-way (Present);
  that during a replacement the original is aside and whole (PutAside); that a row
  whose button was clicked is as it was (Captured); and that no entry is listed twice,
  through every event and exchange of keepers (TableInv). Then the keeper of an item has its
  content when the target goes, and Stored follows: each scanned content is held by a
  scanned entry, also after a kill. Premise `Tidy`: the user waits, and is offered
  recycle, remove and hard links; no file is listed under two spellings; no file
  bears the name another is moved aside to; and clean-up calls work. Each matters: section 6 has
  a user who does not wait, names that collide, and names the table is not told. When the file
  moved aside cannot be moved back, the table still lists it: it may be made a keeper,
  and recycling compares no inode of a keeper that is gone.
- `StopHolds`: StopIsHonoured, from Alone: a patient user has one worker at a time, and as
  long as a worker that Stop was meant for runs, the flag is up. What it says is what the
  code does: no other file is taken up, nor another root; of the root that
  unsuperdeduper is in it says nothing (StopAsSaid in section 6).
- `ReferencesHold`: ReferencesKept, for users of any patience. Premise `Careful`: no
  archiving, restoring or undoing, which pass no guard, and no reference bears a name
  that an action clears away or builds. What is acted on is no reference (Referenced), by
  the entry it resolves to.
- `ArchiveIsListed`: ArchivedIsListed for workers that overlap and are stopped. Logged says
  that each archived name is in a manifest or accounted for by a worker: moved, or in
  its hand between copy and unlink. Premise `Archived`: no copy, manifest or clean-up
  fails, no kill, no two runs end in one second, and archived names are not built by
  other actions.
- `MovesAreWhole`: MovedOrNot. A rename of one link of a file over another does nothing, so the
  theorem needs that two entries never share an inode (OneName) or that moves cross
  volumes; its premise `Whole` says so, and that copies and clean-ups work.
- `RenamesAreUndone`: RenamesUndone for a patient user, whatever was done before: what is left
  under its suffixed name alone is among the files the worker that undoes has still to do,
  or below a root it has still to go to (StillToDo, Awaits).

**XdgTrash** (`XdgTrashProofs`), for all files, names and candidates, with one
caller:

- `Invariance`: `IInv`, that the chosen name has no data until the caller moves
  its own there (Owned), and no file is in two places (OnePlace).
- `InfoForData`, `NeverReplaced`: from it, data always has its info file, and
  nothing in the trash is replaced; what the run checks of both is the refinement.
- `Implementation`: every step is a step of TrashBin or changes nothing in it
  (refinement mapping: a file is in the bin when its data is there with its own
  info).

**Submissions** (`SubmissionsProofs`), for all users, threads, faults and kills:

- `SubmittedOnServer`: a history row says Submitted only of a scan the server has. The
  property is not inductive, because threads carry what they were told: `Carries`
  says, for each kind of job, that the answer a thread holds and the rows it has
  loaded, but not yet saved, are true of the server, which forgets nothing.
- `AttemptsBelowCap`: PendingBelowCap. The state after an attempt is chosen by the row
  as it is before another load and the save (Cap), so no other thread may save it
  between them. Premise: the user is patient, that is, begins a thing when all is
  quiet, or never sends again from the history.
- `CreditCountedOnce`: CreditedOnce for a patient user. `Credits` says that a credit is
  only of an action that was taken (OnlyFired), that what is under a submission is held
  only by the thread that still sends it there (Once), and what a thread in the middle of a
  change of the queue file knows of it (QueueOK).
- `CreditLostNowhereElse`: CreditLostOnlyThere, from the same invariant. `Loses` takes each
  step that lets go of a credit: all but five hand it on, because between a load of
  the queue file and its save nobody else changes it (QueueOK). The five are named in the
  property by their guards (CutOff, NotSent, Replaced, LoggedOnly, Unreadable).
- `CreditIsLocalFirst`: LocalCreditFirst for a patient user. LocalParts follows an
  action from the window's first steps, where it belongs to the newest scan, to the
  row, before it is due anywhere else (Due), and says that a row about to be saved is
  the one on disk (Loaded).

The last four rest on Alone: a patient user has one leading thread, and beside it
at most one that sends the queue while the leading one marks its row, or a batch that
waits for it (Serial). So even then threads, the command line and kills overlap,
but no two of them change one row or the queue. Section 6 shows that
without patience each of the four properties is false.

**SignIn** (`SignInProofs`), for all threads, accounts, channels and users:

- `FilesTrue`: a registered identity on disk is known to a server, its own
  channel's while the user stays on one, and a link on disk is one the server
  keeps. The invariant says the same of what every thread and every poll holds.
- `NoneForgotten`: an identity that was once on disk stays there, in the install
  file or a backup. Its premise is `Careful`: the user waits for what was begun,
  and saves and backups work; section 6 shows that it is needed. The invariant
  `Tidy` says that a click then starts one chain of threads, with at most one
  sign-in and one registering thread at a time and one backup in a second, and
  that a sign-in begun beside a registration, or in the second of a backup, is
  never answered with an unknown identity, which would begin another.

**AccountProfile** (`SignInProofs`), for all of these and all flags and nicknames:

- `SettingsApart`: FullSpec implies the specification of SignIn, so that its
  theorems hold of the composition.
- `ShownTrue`, `OnlyClicked`: the two properties of the settings, of the flags no answer
  leaves out (AlwaysTold). `PInv` says what
  each thread asks and which mark keeps a second one from starting (Gates), what
  may be edited when (Editor), that a frame has read the cache as it is (Frames,
  for frames no answer interrupts), that nothing is known before there is an
  account (Found: a link is made while the settings run, and the account it adds
  must not be one they claim something of), and what then agrees with it (True).

**Inventory** (`InventoryProofs`), for all volumes and setups that meet the
assumptions of section 2, any number of scanners and whatever other programs do:

- `VolumeIsATree`: no change makes the volume anything but a tree. A directory is
  moved to no place it is above, so its entries, and theirs, stay below a root.
- `UnforcedListsExact`: unless the file table is asked for (`force_mft`, which the
  window never sets, `gui/live.rs:3275`), QuietListExact holds. `ListsExact` adds
  the cold reading of the table, on a volume as the table shows it (`OfTheTable`: the
  root of the volume is the root of the inventory, no links, nothing denied, none of
  the program's own files). MCInventory checks both, and warm lists besides.
- `InvHolds`, the invariant of the walk. The list is complete only at the end, so it
  says what is there before. `Covers`: a lane has a set of directories it has read,
  of each of which the files are listed, and whatever directory it has met is in this
  set or pending. `AnnouncedOK`, `AheadOK`: what is pending has been come to by
  a way, a path from a root through directories of which none is met twice. That
  is why a cycle of links ends the walk and loses nothing, and why an entry's path
  leads to its file. `OnceEach`: with links followed and the roots one after the
  other, the paths of entries lead to directories visited by this root alone.
  `Orderly`: layers do not overlap, and roots wait for each other unless they are
  walked side by side. All of it is lost by a change or a cancel, and said only of
  scanners without.
- `TableInvHolds`: the records read are those of the first references, and the sizes
  asked for the files'; reconstruct_path has rounds enough for the deepest path
  (`PathsOfRecords`), and the path it gives leads back to the file.
- `SnapshotFollowsJournal`: SnapshotCatchesUp holds of every setup that satisfies
  `FoldersStay`: one scanner; no snapshot at first, or one of the volume as it then
  is; no links; directories that come and stay where they are, while files come, go,
  grow and move; and no place that two entries stand in, not even one after the
  other. `Alone` and `Journaled` of MCInventory are such setups, and they leave kills,
  scans that fail or give up, a journal trimmed or replaced and every order of changes
  and reads. The scanner, the directories and the places are needed: each one
  dropped, a row of section 6's table is a counterexample. The other two keep what is
  not to be shown out of the way: a snapshot taken over from elsewhere, and where a
  link leads, which the file table does not tell.
  The invariant `Follows` has the same of everything on the way to the
  snapshot: the delta as read (`ApplySound`), the records of the table (`EnumSound`),
  the sizes (`StatSound`). The size of a file is asked for under a path made of
  records of different ages. `LogSound` is why it leads to the file: a directory of
  which the journal will say no more stands in one of which it will say no more
  (`SettledIsClosed`), and the places being apart, what is found there is the file
  the record is of, though the record may not be its last (`RecordLeads`). TLC agreed on
  `Follows` before it was proved, on larger setups than MCInventory's (1.0 and
  1.3 million states).
- `TypeCorrect`: the variables' types (no run checks it: the theorem is for all of
  them). The warm path's jobs need one of their own: a cursor always comes from
  a journal there was (`JobOK`).

What a path leads to, the ways and the records' paths are functions defined by
recursion over numbers. The proofs take any function that satisfies the equations
(`Trail`, `Levels`, `Rounds`) and show that there is one (`RecursionExists`).
Induction over a number is the least element of a set, and over the tree that
a set of entries which has the parent of each of its members is empty, which is
how `WellFormed` says that a tree has no cycle.

Only model-checked: KeeperNeverRemoved of Dedupe under changes by other programs, and
its other guards where those delete; CopyStays of users who archive, rename and restore;
FinishedComplete where a content may have two groups or where the user slips; the
snapshot where the premise `FoldersStay` fails (`Pair`: two warm scanners, of which one
may be killed, and a folder of which the files are left alone); the lists of warm
inventories, and of cold ones of volumes with links, denied directories or files of the
program; all liveness, which is not in the provers' reach.

## 5. Not modelled

- Rendering, sound, logging, argument parsing, report formats, benchmark and
  signing crates: no state that others rely on. The widgets of the settings are
  modelled where they start a submission or a sign-in.
- Digests and format parsing: bytes, taken as constants. Similar images and
  audio: numeric. I/O ordering (`layout/`, IOCP) changes no result.
- The orders of the keep strategies, predicates and tables of the hardware
  module: pure functions of one input, with no state; the models take the order
  of a group as given. Of the exclusions: the counters by pack, the editing of the
  lists, and other forms of patterns; ScanSession takes the admitted files as given.
- The leaderboard's captcha, ranks, vanity name and badge summary: single
  requests. The
  command line's and the bench crate's own sign-in, which runs without a slot on
  screen. `action_receipt.rs` and `submission_store.rs`: append-only records the
  modelled code does not read back.
- Of the results store: the fingerprints that decide whether saved results are
  shown again (files do not change in ScanSession, so they match), the list of
  recent projects, and the counters a checkpoint carries for the leaderboard.
- Of the cache: schema migration, pruning and counters.
- Faults: power failure (writes that return are taken to last), torn reads (half
  of a write) in HashPipeline, two instances of the window on one checkpoint
  file.

## 6. Where code and documentation disagree

Two runs show a violation (findings in `PROJECT.json`):

- **ConfirmedIdentical** (`cache.rs:591`): a row keeps deeper digests of the old
  content when a shallower one is stored under the new stamp.
- **CopyStays** (`gui/app.rs:3048`): two overlapping bulk recycles with exchanged
  keepers put both copies into the bin.

The following are not among the runs. Each was found with TLC by changing
constants of a run as said, and checking the property named. A record of a
scenario is written as in the MC module, `Killed`, `Again` and so on.

### Files, sessions and actions

| Property | Change | What the code does |
|---|---|---|
| ContentSurvives | MCDedupeQuiet with `AsideOf <- SharedAsideOf`, `Entries <- SharedEntries`, `FlakyCleanup = FALSE` | photo.jpg and photo.txt share photo.superdeduper.tmp; after a kill one's only copy is cleared away as stale (`dedupe.rs:1252`) |
| PauseIsHonoured | MCSession with only `Killed`, `pauseAt = {"hash"}` | a pause while hashing ends as a finished scan whose checkpoint is deleted (`gui/live.rs:1687`) |
| SavedListIsWhole | MCSession with only `Killed`, `pauseAt = {"walk"}` | the part walked before a pause is saved as the list (`gui/live.rs:755`) |
| ListFitsSettings | MCSession with only `Editing`, `admitted = FewerFiles` | an inventory-only resume takes over a list made with another minimum size (`gui/live.rs:267`) |
| RecordedIsShown | MCSession with only `Killed`, `ContentOf <- AllTwins`, `InodeOf <- PairedInodes` | two groups of one digest are shown as one (`gui/state.rs:480`) |
| KeepsProgress; AskedFirst without its condition; DriftBlocks | MCSession with only `Killed`, `slips = {"click"}` | the question about the drift is asked once: Start goes past the open dialog to the preflight, though `app.rs:3386` says "start_live() refuses to launch while this is Some", and "continue with new" then takes the new scan's checkpoint away (`gui/app.rs:863`) |
| TableFits without its condition | MCSession with only `Keeping`, `slips = {"edit"}` or `{"open"}` | settings edited during a preflight are what the scan is started with, and a project opened during a scan replaces its list (`gui/app.rs:1779`) |
| ShownOnce | MCSession with only `Keeping` | a group that the checkpoint and the stored results both hold is listed twice by a resume, which `gui/state.rs:468` says cannot be ("counted twice") |
| ProjectIsOneSave | MCSession with only `Keeping` | killed between the two files of a project, it has new settings and old groups, though `gui/project.rs:87` says that "a crash mid-save leaves the previous version intact" |
| OursKeep: `[][Ours => Surviving \subseteq Surviving']_vars` | MCDedupeGuards | a file edited in place since the scan has the size the results file gives, which is all that validate_file compares (`dedupe.rs:824`): its new content is destroyed, though no other file has it |
| StopAsSaid: StopIsHonoured of every file of a root | MCGuiActions, a patient user, three copies, safeRenameAll and unsuperdeduper, one Stop | the tooltip of Stop says "no further files are touched" (`gui/widgets/action_progress.rs:97`), but unsuperdeduper looks at the flag before each root only (`gui/app.rs:2986`), and unsuperdeduper_root (`dedupe.rs:1158`) not at all: the root it is in is renamed to its end |
| StopIsHonoured without its condition | MCGuiActions, a user who does not wait, three copies, recycle and recycleAll | confirming a second action clears the Stop meant for the first (`gui/app.rs:3186`) |
| every listed name exists | MCGuiActions, a patient user, one group, safeRename and safeRenameAll | after renaming twice the table has a name no file has (`gui/app.rs:3260`); TableTruthful is claimed of users who are offered neither bulk renames nor archives |
| ReferencesKept | MCGuiActions, archiveAll over two groups with a reference under two spellings | the archive moves a reference listed under another spelling (`gui/app.rs:2412`) |
| ArchivedIsListed | MCGuiActions, archiveAll with a kill | the manifest is written after the last move (`gui/app.rs:2558`) |
| ArchivedIsListed without its condition | MCGuiActions, archiveAll twice, `sameSecond = TRUE` | the name of a manifest has seconds (`gui/app.rs:2558`): one run stopped and another begun within a second write one file, though the comment above says "distinct manifests instead of overwriting"; with `copiesFail = TRUE`, one that breaks off (`fs::write`, `gui/app.rs:2568`) is a line in the log |
| LosesAtMostOne | MCGuiActions, safeRenameAll with a kill | renamed paths are stored at the end of the batch (`gui/app.rs:2896`) |
| MovedOrNot | MCGuiActions, archiveAll to another volume, copies may fail | a copy that breaks off is left in the archive (`gui/app.rs:4960`) |
| ImplementsBin; DataHasInfo, NothingReplaced | MCTrashOne with `Callers = {c1, c2}`, `Tries = 2` | two callers choose one name: one removes the other's info file, or replaces its data (`linux/trash.rs:109`, `:106`) |

### Inventories

All with SnapshotCatchesUp, in MCInventory with one setup:

| Setup | What the code does |
|---|---|
| `Renamed`: a file is written, then its folder renamed | its size is asked for under the path the records read so far give, which is the old one (`inventory/warm.rs:251`): a warm scan takes the file for deleted, a cold one stores size 0 |
| `Resaved`: a file is written, deleted and made again within one delta | the old record, found by its path, is among the upserts as well as the deletes, and the upserts are stored last (`cache.rs:796`): it comes back |
| `PairCold`: two processes, both cold | one stores its older list over the other's newer one, after the other has read the newer rows for a warm scan: the delta then applied does not know what the older list still has |
| `PairGone`: two processes, both warm | one gives up and removes the snapshot; the other's delta is stored all the same, and what is left is a cursor with hardly a row |
| `PairDrop`: two processes, both warm, of two scans each; a file is written, the journal trimmed | giving up is two statements, each committed by itself (`cache.rs:832`): what the other process stores between them keeps its cursor and loses its rows |
| `Unrooted`: a folder and its file are removed while the table is read | the snapshot has the file and not the folder; the file's older record then gets a path that stops at the missing folder (`inventory/warm.rs:359`: "missing parent ⇒ stop walking, use what we have"), is taken for there because the volume's root has a file of that name, and comes back as in `Resaved` |

Further, by reading: a warm reading fills one buffer of 256 KiB and takes what
fits (`inventory/windows_impl.rs:689`), while `inventory/warm.rs:19` and `:393`
describe a loop; the file table's inventory skips neither the excluded paths,
as documented, nor the program's own; a new file in the root folder of the
volume makes a warm scan give up; a cold snapshot has size 0 for a file whose
stat failed; a root that is a file is
listed without a look at what has been visited (`inventory/walk.rs:323`), and with links
not followed nothing is kept of a root that is reached through a link, so that
two roots may list a file under two paths. Roots walked side by side do so for every
folder both come to through links: "cross-root duplicate aliases caught by the post-walk
dedup_by_path pass" (`inventory/walk.rs:228`) holds of equal paths alone, which is all that
pass compares (`inventory/walk.rs:301`). `MayRepeat` allows these, and no others.

### Leaderboard

Five places lose a credit, also of a user who waits. CreditLostOnlyThere says that there
is no sixth; with any one of them left out of its GivenUp, TLC finds it violated:

| Place | User | What the code does, and what it says |
|---|---|---|
| CutOff | Cut | a kill takes what a thread holds: what was drained from the queue file, which is removed before the PATCH (`leaderboard/action_submission.rs:363`: cleared "on PATCH success"), and, in the middle of an append, what the file had before (`fs::write`, `leaderboard/pending_actions.rs:76`) |
| NotSent | Shown | a PATCH that is refused or unanswered to the last attempt is stored as "Queued", and no queue takes it: `action_submission.rs:30` says "queue the rollup for retry-on-next-run", `:284` that a disk fallback covers it |
| Replaced | Acting | the second PATCH of a submission carries its own action alone and the server keeps the latest, though `action_submission.rs:5` asks for "the COMPLETE map ... (never a delta)" |
| LoggedOnly | Acting | the credit of an archive without a submission id, and any credit without a registered install, is a line in the log (`gui/app.rs:1176`) |
| Unreadable | Cut | an append to a queue file that does not parse is a line in the log |

No window reads the status a credit leaves (`peek_status`), so of none of this is the user
told, and "user's reclaim is never silently dropped" (`leaderboard/pending_actions.rs:19`) is
not kept. Each row was found with the one user named and the place taken out of GivenUp.

The following are in MCLeaderboard with one user who does not wait (`patient = FALSE`):

| Property | User | What the code does |
|---|---|---|
| PendingBelowCap, OneInFlight, SubmittedStays | Again | two clicks claim the slot of a resubmission before either is stored, and both load the rows (`leaderboard/resubmit.rs:62`, `:104`); a row already Submitted returns to Pending |
| LocalCreditFirst, CreditsOwnScan | Acting | the answer of the first scan arrives after the second has begun: the second's actions are credited to the first's submission (`gui/app.rs:1001`) |
| CreditedOnce | Acting with `acts = {a1, a2}`, answers lost, no kill, one attempt (`tlc -simulate`) | while one thread adds to the queue file another sends and removes what is in it: the file is written as it was read, and what is in it again goes to the next submission too (`leaderboard/pending_actions.rs:66`) |
| CreditLostOnlyThere without its condition | Cut without a kill, `Archives = {}`, one attempt | one thread reads the queue file, another writes or removes it, and the first writes what it read: a credit is in no file, though `pending_actions.rs:69` speaks of a single writer |
| OutcomeOfOwnScan | Shown | the dialog shows the first scan's answer for the second |
| DeletedStaysDeleted | Again, with delete | a deleted row comes back with the rows a thread had loaded |

Further, by reading: nothing reads the submission queue that the settings promise to
retry on next launch (`gui/widgets/settings_modal.rs:3012`); a submission from the settings
stores neither id nor mark; a scan submitted automatically is never marked Submitted in
the history (`action_submission.rs:286`).

### Sign-in

| Property | Change of MCSignIn | What the code does |
|---|---|---|
| IdentitiesKept without its condition | `Patient` with network and disk failures | a backup that fails is logged and registration goes on ("continuing anyway"): the identity is overwritten |
| the same | `Switching` | a registration that ends after the channel was changed writes over the other channel's install file (`registration.rs:456`; `install.rs:9` says the channels are independent), and a stored preference may bring an older identity back |
| UntouchedKept and ShownIsStored, of all flags | `Profiled` | an answer with only some of the known keys is taken with the others off (`#[serde(default)]`; the guard of `leaderboard/account_privacy.rs:219` asks for one known key): they are shown as off, and the next click sends them as off |
| UntouchedKept | `Profiled` with `midFrame = TRUE` | the flags are read, then the mark of an awaited answer: an answer between the two lets a click send the old flags, or none (`gui/widgets/settings_modal.rs:2586`) |
| ShownIsStored without OneAccount | `Relinked` with 1 switch, 4 clicks, not patient | the flags shown outlive the account: after a change of channel those of the other account are shown, and would be sent (`gui/widgets/settings_modal.rs:2470`) |
| NameIsStored | `Named` | a rename that was applied but not answered leaves the old nickname on screen; Edit clears the warning and, unlike its comment says ("re-spawns explicitly"), fetches nothing (`gui/widgets/settings_modal.rs:190`, `:483`) |

Further, by reading: flags that cannot be fetched are asked for again in each
frame, without a pause, a loop the nickname's fetch was cured of; a thread that
cannot be started leaves the flags locked; two backups within one second have one name; a cancelled
session whose redirect had arrived still saves its token
(`leaderboard/oauth.rs:1526`); a late frame after a fresh click opens a second
browser window; the Register button promises to push the current identity while
RegisterSession always mints a new one; after a reset the old token still shows
as linked; a failed registration leaves no install file, only the backup.

### By reading, elsewhere

the paths that were renamed are stored so that the next session does not offer
them again (`gui/results_store.rs:57`), but nothing reads them back;
`--allow-destructive-on-deduped` has no effect, because placeholder_state_for
never sees the reparse tag (`dedupe.rs:948`, as PlaceholderState says); copies
under different extensions may never be compared when tier zero knows one of the
extensions (`pipeline/hash.rs:926`, the premise `printed` of NothingMissed); of
files equally new, or with paths equally long, the window keeps the last
(`gui/live.rs:2848`) and the command line the first (`dedupe.rs:765`).

## 7. Plan

Done: every module of section 2. What a next step would add, in this order:

1. Keep orders as operators, for the planner and the window, which break ties
   differently (section 6).
2. Fingerprints, with files that change between two sessions.
3. Proofs: KeeperSafe with one change by another program; the snapshot with two warm
   scanners, and the lists they make of it.
4. Sessions composed with the inventories: the list a session saves is what a
   walk that was cancelled has left of it.
