---------------------------- MODULE Submissions ----------------------------
(***************************************************************************)
(* What the program sends to the leaderboard: finished scans, from the     *)
(* dialog after a scan, from the settings, and again from the history; and *)
(* the bytes that actions on groups have freed, credited to a submitted    *)
(* scan or kept in a queue file until one is.  The window (thread Ui), the *)
(* engine and every worker thread interleave over three slots in memory,   *)
(* the rows of the history and the queue file.  A submission is known to   *)
(* the server by its scan.  Archives of attempts, ranks and achievements,  *)
(* the age of queued credits, and the queue of failed submissions, which   *)
(* nothing reads, are left out.                                            *)
(***************************************************************************)
EXTENDS ScanHistory

CONSTANTS
  Ui, Workers,      \* threads
  Archives,         \* the actions that archive; the others are dedupe actions
  Users,            \* what may happen: one of these records, chosen at the start
  StickyThreshold,  \* STICKY_PROMPT_THRESHOLD
  PatchAttempts,    \* the attempts of the PATCH worker, five in the code
  Torn

Faulty == {"down", "lost", "refuses", "noId"}   \* of the server; "lost": an answer

ASSUME SubmissionsAssumption ==
  /\ Ui \notin Workers
  /\ \A S \in SUBSET Actions : S # Torn
  /\ Archives \subseteq Actions
  /\ \A u \in Users : /\ u.faults \subseteq Faulty /\ u.registered \in BOOLEAN
                      /\ u.kills \in Nat /\ u.resubmits \in Nat
  /\ PatchAttempts \in Nat \ {0} /\ StickyThreshold \in Nat

VARIABLES
  user,        \* of Users: does, acts, share, registered, faults, resubmits, kills, and
               \* patient: waits until everything is quiet
  received,    \* server: the scans it has
  credit,      \* server: scan -> actions_taken_summary
  registered,  \* this install is
  prefs,       \* share_default, share_prompt_count, share_last_choice
  queue,       \* pending_actions.json
  pending,     \* PENDING: the scan whose inputs are at hand
  subId,       \* PENDING_SUBMISSION_ID
  outcome,     \* LAST_OUTCOME: of a scan
  status,      \* of the last credit sent
  engine,      \* scan number and place of the engine thread
  news,        \* ScanFinished, on its way to the window
  scanning,    \* is_scanning
  modal,       \* scan_complete_modal
  inFlight,    \* the slot of the resubmit worker
  prompt,      \* pending_resubmit_prompt: the rows the launch asks about
  job,         \* thread -> what it does
  firedOn,     \* history: action -> the scan it acted on
  landed,      \* history: credits the server once took
  resubmits, kills

server == <<received, credit>>
slots == <<pending, subId, outcome>>
resending == <<inFlight, prompt>>
window == <<news, scanning, modal, prefs>>
history == <<firedOn, landed>>
bounds == <<user, resubmits, kills>>
vars == <<user, rows, server, registered, window, queue, slots, status, engine, resending,
          job, history, bounds>>

Threads == Workers \union {Ui}
Idle == [at |-> "idle", scan |-> None, acts |-> {}, row |-> None, found |-> {},
         reply |-> "none", state |-> "none", tries |-> 0, todo |-> {}, cli |-> FALSE]

SendLabels == {"register", "peek", "post", "answered", "mark", "markSave", "report",
               "take", "settingsPost", "review", "autoPost"}
CreditLabels == {"creditLoad", "creditSave", "route", "routePending", "appendLoad",
                 "appendTruncate", "appendWrite", "drainLoad", "drainRemove", "patch"}
ResubmitLabels == {"claim", "repost", "reanswered", "update", "updateSave",
                   "batch", "batchClaim", "batchWait", "cli"}
Replies == {"none", "accepted", "duplicate", "noId", "transient", "rejected"}

TypeOK ==
  /\ RowsOK
  /\ received \subseteq Scans
  /\ credit \in [Scans -> SUBSET Actions]
  /\ user \in Users /\ registered \in BOOLEAN /\ scanning \in BOOLEAN
  /\ prefs \in [share : {"never", "ask", "askThenSticky", "auto"},
                count : 0..StickyThreshold, last : {"none", "submitted", "skipped"}]
  /\ queue \in (SUBSET Actions) \union {Torn}
  /\ {pending, subId, news, inFlight} \subseteq Scans \union {None}
  /\ outcome \in [scan : Scans \union {None}, reply : Replies \union {"flagged"}] \union {None}
  /\ prompt \subseteq Scans
  /\ status \in {"none", "submitting", "retrying", "credited", "queued"}
  /\ engine \in [n : 0..MaxScans, at : {"idle", "running", "stashed", "finished"}]
  /\ modal \in {"hidden", "ready", "preview", "submitting", "done"}
  /\ \A t \in Threads :
       /\ job[t].at \in {"idle"} \union SendLabels \union CreditLabels \union ResubmitLabels
       /\ job[t].scan \in Scans \union {None}
       /\ job[t].row \in Row \union {None}
       /\ job[t].reply \in Replies
       /\ job[t].state \in States \union {"none"} /\ job[t].todo \subseteq Scans
       /\ job[t].tries < PatchAttempts

Init ==
  /\ rows = [s \in Scans |-> None]
  /\ received = {} /\ credit = [s \in Scans |-> {}]
  /\ user \in Users
  /\ registered = user.registered
  /\ prefs = [share |-> user.share, count |-> 0, last |-> "none"]
  /\ queue = {}
  /\ pending = None /\ subId = None /\ outcome = None /\ status = "none"
  /\ engine = [n |-> 0, at |-> "idle"]
  /\ news = None /\ scanning = FALSE /\ modal = "hidden" /\ inFlight = None /\ prompt = {}
  /\ job = [t \in Threads |-> Idle]
  /\ firedOn = [a \in Actions |-> None] /\ landed = {}
  /\ resubmits = 0 /\ kills = 0

At(t, at) == job[t].at = at
Quiet == /\ \A t \in Threads : At(t, "idle")
         /\ engine.at = "idle" /\ news = None

\* The user has the window.
MayAct == At(Ui, "idle") /\ (user.patient => Quiet)

Become(t, j) == job' = [job EXCEPT ![t] = j]
To(t, at) == job' = [job EXCEPT ![t].at = at]
Done(t) == Become(t, Idle)

\* A thread is started: threads are alike, so it is always the same idle one.  Their
\* number is a bound.
Fresh(t) == At(t, "idle") /\ t = CHOOSE w \in Workers : At(w, "idle")
NewJob(at, s, acts) == [Idle EXCEPT !.at = at, !.scan = s, !.acts = acts]

-----------------------------------------------------------------------------
(* The server.                                                             *)

\* submit_inner, parse_ok, parse_error: the answer, and what the server has then.
Answers(s) ==
  {<<IF s \in received THEN "duplicate" ELSE "accepted", received \union {s}>>}
  \union {<<"noId", received>> : x \in user.faults \intersect (IF s \in received THEN {"noId"} ELSE {})}
  \union {<<"transient", received>> : x \in user.faults \intersect {"down"}}
  \union {<<"transient", received \union {s}>> : x \in user.faults \intersect {"lost"}}
  \union {<<"rejected", received>> : x \in user.faults \intersect {"refuses"}}

Post(t, s, next) ==
  \E a \in Answers(s) :
    /\ received' = a[2]
    /\ job' = [job EXCEPT ![t].at = next, ![t].reply = a[1], ![t].scan = s]

-----------------------------------------------------------------------------
(* A scan, and the window when it has finished.                            *)

\* launch_scan
StartScan ==
  /\ "scan" \in user.does /\ MayAct
  /\ ~ scanning /\ engine.at = "idle" /\ engine.n < MaxScans
  /\ engine' = [n |-> engine.n + 1, at |-> "running"]
  /\ scanning' = TRUE
  /\ subId' = None
  /\ UNCHANGED <<rows, server, registered, news, modal, prefs, queue, pending, outcome, status,
                 resending, job, history, bounds>>

\* The end of live.rs run: the inputs are stashed,
StashInputs ==
  /\ engine.at = "running"
  /\ engine' = [engine EXCEPT !.at = "stashed"]
  /\ pending' = engine.n
  /\ outcome' = None
  /\ UNCHANGED <<rows, server, registered, window, queue, subId, status, resending, job, history, bounds>>

\* the window is settled,
SendScanFinished ==
  /\ engine.at = "stashed"
  /\ engine' = [engine EXCEPT !.at = "finished"]
  /\ news' = engine.n
  /\ UNCHANGED <<rows, server, registered, scanning, modal, prefs, queue, slots, status, resending,
                 job, history, bounds>>

\* and only then is the row written.
RecordCompleted ==
  /\ engine.at = "finished"
  /\ engine' = [engine EXCEPT !.at = "idle"]
  /\ Save(engine.n, NewFinished(registered))
  /\ UNCHANGED <<server, registered, window, queue, slots, status, resending, job, history, bounds>>

\* The dialog a finished scan opens, by the share preference.
ModalFor(p) ==
  LET stuck == p.count >= StickyThreshold IN
  CASE p.share = "never" -> "hidden"
    [] p.share = "ask" -> "ready"
    [] p.share = "auto" -> "submitting"
    [] p.share = "askThenSticky" /\ stuck /\ p.last = "submitted" -> "submitting"
    [] p.share = "askThenSticky" /\ stuck /\ p.last = "skipped" -> "hidden"
    [] OTHER -> "ready"

\* on_scan_finished_for_leaderboard, of the event in drain_events
OnScanFinished ==
  /\ news # None /\ At(Ui, "idle")
  /\ news' = None
  /\ scanning' = FALSE
  /\ LET next == IF pending = None THEN "hidden" ELSE ModalFor(prefs) IN
     /\ modal' = next
     /\ IF next = "submitting" THEN \E t \in Workers : Fresh(t) /\ Become(t, NewJob("register", None, {}))
        ELSE UNCHANGED job
  /\ UNCHANGED <<rows, server, registered, prefs, queue, slots, status, engine, resending, history, bounds>>

\* record_share_prompt_if_sticky
AfterPrompt(choice) ==
  IF prefs.share = "askThenSticky"
  THEN [prefs EXCEPT !.count = IF @ < StickyThreshold THEN @ + 1 ELSE @, !.last = choice]
  ELSE prefs

\* Submit, or AutoSubmit, which makes it the preference (flip_share_to_auto_opt_in).
ClickSubmit ==
  /\ "submit" \in user.does /\ MayAct /\ modal = "ready"
  /\ modal' = "submitting"
  /\ \/ prefs' = AfterPrompt("submitted")
     \/ prefs' = [prefs EXCEPT !.share = "auto"]
  /\ \E t \in Workers : Fresh(t) /\ Become(t, NewJob("register", None, {}))
  /\ UNCHANGED <<rows, server, registered, news, scanning, queue, slots, status, engine, resending,
                 history, bounds>>

ClickSkip ==
  /\ MayAct /\ modal = "ready"
  /\ modal' = "hidden"
  /\ prefs' = AfterPrompt("skipped")
  /\ UNCHANGED <<rows, server, registered, news, scanning, queue, slots, status, engine, resending,
                 job, history, bounds>>

\* "What gets shared?" and back, or Close.
TurnModal ==
  /\ MayAct
  /\ \/ modal = "ready" /\ modal' = "preview"
     \/ modal = "preview" /\ modal' = IF outcome # None THEN "done" ELSE "ready"
     \/ modal = "done" /\ modal' = "hidden"
  /\ UNCHANGED <<rows, server, registered, news, scanning, prefs, queue, slots, status, engine,
                 resending, job, history, bounds>>

\* Mutant: the dialog waits for an acceptance.
ShowOutcomeAccepted ==
  /\ At(Ui, "idle")
  /\ modal = "submitting" /\ outcome # None /\ outcome.reply = "accepted"
  /\ modal' = "done"
  /\ UNCHANGED <<rows, server, registered, news, scanning, prefs, queue, slots, status, engine,
                 resending, job, history, bounds>>

\* tick_scan_complete_modal
ShowOutcome ==
  /\ At(Ui, "idle")
  /\ modal = "submitting" /\ outcome # None
  /\ modal' = "done"
  /\ UNCHANGED <<rows, server, registered, news, scanning, prefs, queue, slots, status, engine,
                 resending, job, history, bounds>>

\* flag_pending_for_review: what it finds in the slots, and the outcome then.
FlagForReview ==
  /\ "review" \in user.does /\ MayAct
  /\ modal = "done" /\ outcome # None /\ outcome.reply = "rejected" /\ pending # None
  /\ outcome' = [scan |-> pending, reply |-> "flagged"]
  /\ UNCHANGED <<rows, server, registered, window, queue, pending, subId, status, engine, resending,
                 job, history, bounds>>

-----------------------------------------------------------------------------
(* The submit worker: spawn_leaderboard_submit_worker.                     *)

\* The frame of a worker's step.
WorkerAt(t, at) ==
  /\ t \in Workers /\ At(t, at)
  /\ UNCHANGED <<window, engine, firedOn, bounds>>

\* An install that is not registered registers first, or that fails.
AutoRegister(t) ==
  /\ WorkerAt(t, "register")
  /\ \/ registered' = TRUE /\ To(t, "peek") /\ UNCHANGED outcome
     \/ /\ ~ registered /\ user.faults # {}
        /\ outcome' = [scan |-> None, reply |-> "rejected"]
        /\ Done(t) /\ UNCHANGED registered
  /\ UNCHANGED <<rows, server, queue, pending, subId, status, resending, landed>>

\* The inputs are left in the slot, for a review or another try.
PeekPending(t) ==
  /\ WorkerAt(t, "peek")
  /\ IF pending = None
     THEN outcome' = [scan |-> None, reply |-> "rejected"] /\ Done(t)
     ELSE Become(t, NewJob("post", pending, {})) /\ UNCHANGED outcome
  /\ UNCHANGED <<rows, server, registered, queue, pending, subId, status, resending, landed>>

PostScan(t) ==
  /\ WorkerAt(t, "post")
  /\ Post(t, job[t].scan, "answered")
  /\ UNCHANGED <<rows, credit, registered, queue, slots, status, resending, landed>>

\* drain_pending_after_submit: a thread if the queue is not empty.
DrainInto(t, next, s) ==
  IF queue \in {{}, Torn} THEN Become(t, next)
  ELSE \E d \in Workers \ {t} :
         Fresh(d) /\ job' = [job EXCEPT ![t] = next, ![d] = NewJob("drainLoad", s, {})]

\* Accepted: the id is kept and the row marked before the slot is emptied; already
\* there: the slot is emptied first.
HandleAnswer(t) ==
  /\ WorkerAt(t, "answered")
  /\ LET s == job[t].scan
         r == job[t].reply
         next == [job[t] EXCEPT !.at = IF r \in {"accepted", "duplicate", "noId"}
                                       THEN "mark" ELSE "report"] IN
     /\ pending' = IF r \in {"duplicate", "noId"} THEN None ELSE pending
     /\ subId' = IF r \in {"accepted", "duplicate"} THEN s ELSE subId
     /\ IF r \in {"accepted", "duplicate"} THEN DrainInto(t, next, s) ELSE Become(t, next)
  /\ UNCHANGED <<rows, server, registered, queue, outcome, status, resending, landed>>

MarkLoad(t) ==
  /\ WorkerAt(t, "mark")
  /\ LET r == rows[job[t].scan] IN
     job' = [job EXCEPT ![t].row = r, ![t].at = IF r = None THEN "report" ELSE "markSave"]
  /\ UNCHANGED <<rows, server, registered, queue, slots, status, resending, landed>>

MarkSave(t) ==
  /\ WorkerAt(t, "markSave")
  /\ Save(job[t].scan, MarkedSubmitted(job[t].row))
  /\ To(t, "report")
  /\ UNCHANGED <<server, registered, queue, slots, status, resending, landed>>

\* Accepted empties the slot only now.
Report(t) ==
  /\ WorkerAt(t, "report")
  /\ pending' = IF job[t].reply = "accepted" THEN None ELSE pending
  /\ outcome' = [scan |-> job[t].scan, reply |-> job[t].reply]
  /\ Done(t)
  /\ UNCHANGED <<rows, server, registered, queue, subId, status, resending, landed>>

SubmitStep(t) ==
  \/ AutoRegister(t) \/ PeekPending(t) \/ PostScan(t) \/ HandleAnswer(t)
  \/ MarkLoad(t) \/ MarkSave(t) \/ Report(t)

\* "Submit run" of the settings: the inputs are taken, the answer is only shown.
ClickSettingsSubmit ==
  /\ "settings" \in user.does /\ MayAct
  /\ pending # None /\ registered
  /\ \E t \in Workers : Fresh(t) /\ Become(t, NewJob("take", None, {}))
  /\ UNCHANGED <<rows, server, registered, window, queue, slots, status, engine, resending, history, bounds>>

SettingsTake(t) ==
  /\ WorkerAt(t, "take")
  /\ pending' = None
  /\ IF pending = None
     THEN outcome' = [scan |-> None, reply |-> "rejected"] /\ Done(t)
     ELSE Become(t, NewJob("settingsPost", pending, {})) /\ UNCHANGED outcome
  /\ UNCHANGED <<rows, server, registered, queue, subId, status, resending, landed>>

SettingsPost(t) ==
  /\ WorkerAt(t, "settingsPost")
  /\ \E a \in Answers(job[t].scan) :
       /\ received' = a[2]
       /\ outcome' = [scan |-> job[t].scan, reply |-> a[1]]
  /\ Done(t)
  /\ UNCHANGED <<rows, credit, registered, queue, pending, subId, status, resending, landed>>

-----------------------------------------------------------------------------
(* Credit for an action on groups.                                         *)

\* An action has ended with bytes freed, and the window drains its summary.
UserActs(a) ==
  /\ a \in user.acts /\ MayAct
  /\ engine.n > 0 /\ firedOn[a] = None
  /\ firedOn' = [firedOn EXCEPT ![a] = engine.n]
  /\ Become(Ui, NewJob("creditLoad", None, {a}))
  /\ UNCHANGED <<rows, server, registered, window, queue, slots, status, engine, resending,
                 landed, bounds>>

UiAt(at) ==
  /\ At(Ui, at)
  /\ UNCHANGED <<server, registered, window, slots, engine, firedOn, landed, bounds>>

\* Mutant: the server is told first, the history last.
RouteFirst == UiAt("creditLoad") /\ To(Ui, "route") /\ UNCHANGED <<rows, queue, status, resending>>

\* record_local_action_for_latest_scan
CreditLoad ==
  /\ UiAt("creditLoad")
  /\ job' = IF Recorded = {} THEN [job EXCEPT ![Ui].at = "route"]
            ELSE [job EXCEPT ![Ui].at = "creditSave", ![Ui].scan = Newest(Recorded),
                             ![Ui].row = rows[Newest(Recorded)]]
  /\ UNCHANGED <<rows, queue, status, resending>>

CreditSave ==
  /\ UiAt("creditSave")
  /\ Save(job[Ui].scan, Accumulated(job[Ui].row, job[Ui].acts))
  /\ To(Ui, "route")
  /\ UNCHANGED <<queue, status, resending>>

\* store_status, and the thread that sends the credit
SendCredit(at, s, acts) ==
  /\ status' = "submitting"
  /\ \E t \in Workers :
       Fresh(t) /\ job' = [job EXCEPT ![Ui] = Idle, ![t] = NewJob(at, s, acts)]

\* spawn_action_patch_for_dedupe and _for_archive: to the submission at hand; what is
\* not sent is a line in the log;
RouteToSubmission ==
  /\ UiAt("route")
  /\ LET acts == job[Ui].acts IN
     IF ~ registered \/ (subId = None /\ acts \subseteq Archives)
     THEN Done(Ui) /\ UNCHANGED status
     ELSE IF subId # None THEN SendCredit("patch", subId, acts)
     ELSE To(Ui, "routePending") /\ UNCHANGED status
  /\ UNCHANGED <<rows, queue, resending>>

\* else the scan is submitted first; else the queue.
RouteToPending ==
  /\ UiAt("routePending")
  /\ IF pending # None THEN SendCredit("autoPost", pending, job[Ui].acts)
     ELSE To(Ui, "appendLoad") /\ UNCHANGED status
  /\ UNCHANGED <<rows, queue, resending>>

\* Mutant: only actions without a submission at hand are kept.
AutoPostDrop(t) ==
  /\ WorkerAt(t, "autoPost")
  /\ \E x \in Answers(job[t].scan) :
       /\ received' = x[2]
       /\ IF x[1] = "accepted"
          THEN subId' = job[t].scan /\ pending' = None /\ To(t, "patch")
          ELSE UNCHANGED <<subId, pending>> /\ Done(t)
  /\ UNCHANGED <<rows, credit, registered, queue, outcome, status, resending, landed>>

\* spawn_auto_submit_then_patch: only an acceptance goes on to the PATCH.
AutoPost(t) ==
  /\ WorkerAt(t, "autoPost")
  /\ \E a \in Answers(job[t].scan) :
       /\ received' = a[2]
       /\ IF a[1] = "accepted"
          THEN subId' = job[t].scan /\ pending' = None /\ To(t, "patch")
          ELSE UNCHANGED <<subId, pending>> /\ To(t, "appendLoad")
  /\ UNCHANGED <<rows, credit, registered, queue, outcome, status, resending, landed>>

\* pending_actions::append, of the window or of the thread above; its status is
\* stored last.
AppendLoad(t) ==
  /\ At(t, "appendLoad")
  /\ IF queue = Torn
     THEN /\ Done(t)
          /\ status' = IF t = Ui THEN status ELSE "queued"
     ELSE /\ job' = [job EXCEPT ![t].at = "appendTruncate", ![t].found = queue]
          /\ UNCHANGED status
  /\ UNCHANGED <<rows, server, registered, window, queue, slots, engine, resending, firedOn, landed, bounds>>

AppendTruncate(t) ==
  /\ At(t, "appendTruncate")
  /\ queue' \in {{}, Torn}
  /\ To(t, "appendWrite")
  /\ UNCHANGED <<rows, server, registered, window, slots, status, engine, resending, history, bounds>>

AppendWrite(t) ==
  /\ At(t, "appendWrite")
  /\ queue' = job[t].found \union job[t].acts
  /\ status' = IF t = Ui THEN status ELSE "queued"
  /\ Done(t)
  /\ UNCHANGED <<rows, server, registered, window, slots, engine, resending, history, bounds>>

AppendStep(t) == AppendLoad(t) \/ AppendTruncate(t) \/ AppendWrite(t)

\* drain_aggregated: a file that does not parse is left.
DrainLoad(t) ==
  /\ WorkerAt(t, "drainLoad")
  /\ IF queue = Torn THEN Done(t)
     ELSE job' = [job EXCEPT ![t].at = "drainRemove", ![t].acts = queue]
  /\ UNCHANGED <<rows, server, registered, queue, slots, status, resending, landed>>

\* Mutant: the file goes when the credit is sent.
DrainKeep(t) ==
  /\ WorkerAt(t, "drainRemove")
  /\ To(t, "patch")
  /\ UNCHANGED <<rows, server, registered, queue, slots, status, resending, landed>>

DrainRemove(t) ==
  /\ WorkerAt(t, "drainRemove")
  /\ queue' = {}
  /\ IF job[t].acts = {} THEN Done(t) /\ UNCHANGED status
     ELSE To(t, "patch") /\ status' = "submitting"
  /\ UNCHANGED <<rows, server, registered, slots, resending, landed>>

\* spawn_submit_worker: the summary replaces what the server has for the submission.
\* A credit that is given up is called queued, and no queue takes it.
Patch(t) ==
  /\ WorkerAt(t, "patch")
  /\ \/ /\ credit' = [credit EXCEPT ![job[t].scan] = job[t].acts]
        /\ landed' = landed \union job[t].acts
        /\ status' = "credited"
        /\ Done(t)
     \/ /\ user.faults \intersect {"down", "lost"} # {}
        /\ \/ "down" \in user.faults /\ UNCHANGED <<credit, landed>>
           \/ /\ "lost" \in user.faults
              /\ credit' = [credit EXCEPT ![job[t].scan] = job[t].acts]
              /\ landed' = landed \union job[t].acts
        /\ IF job[t].tries + 1 < PatchAttempts
           THEN job' = [job EXCEPT ![t].tries = @ + 1] /\ status' = "retrying"
           ELSE Done(t) /\ status' = "queued"
     \/ /\ "refuses" \in user.faults
        /\ status' = "queued"
        /\ Done(t)
        /\ UNCHANGED <<credit, landed>>
  /\ UNCHANGED <<rows, received, registered, queue, slots, resending>>

CreditStep(t) == AutoPost(t) \/ DrainLoad(t) \/ DrainRemove(t) \/ Patch(t)

-----------------------------------------------------------------------------
(* Submitting again from the history: gui/resubmit.rs, and the command     *)
(* line, which is another process and has no slot.                         *)

CanResubmit(s) == s \in Recorded /\ rows[s].payload

\* A row's button, and request_resubmit up to its look at the slot.
ClickResubmit(s) ==
  /\ "resubmit" \in user.does /\ MayAct
  /\ s \in Recorded /\ Resubmittable(rows[s]) /\ inFlight = None
  /\ resubmits < user.resubmits
  /\ resubmits' = resubmits + 1
  /\ Become(Ui, NewJob("claim", s, {}))
  /\ UNCHANGED <<rows, server, registered, window, queue, slots, status, engine, resending, history, user, kills>>

\* The slot is claimed, whoever has it by now, and the worker starts.
Claim(t) ==
  /\ At(t, "claim") \/ At(t, "batchClaim")
  /\ inFlight' = job[t].scan
  /\ \E w \in Workers \ {t} :
       /\ Fresh(w)
       /\ job' = [job EXCEPT ![w] = NewJob("repost", job[t].scan, {}),
                            ![t] = IF t = Ui THEN Idle ELSE [@ EXCEPT !.at = "batchWait"]]
  /\ UNCHANGED <<rows, server, registered, window, queue, slots, status, engine, prompt, history, bounds>>

\* The resubmit prompt of the launch; the coordinator takes row by row.
AnswerPrompt ==
  /\ MayAct /\ prompt # {}
  /\ prompt' = {}
  /\ \/ /\ "resubmit" \in user.does
        /\ \E t \in Workers : Fresh(t) /\ Become(t, [NewJob("batch", None, {}) EXCEPT !.todo = prompt])
     \/ UNCHANGED job
  /\ UNCHANGED <<rows, server, registered, window, queue, slots, status, engine, inFlight, history, bounds>>

\* request_resubmit for the next row; a row is skipped that cannot be sent, or for
\* which the slot was taken 600 times.
BatchNext(t) ==
  /\ WorkerAt(t, "batch")
  /\ IF job[t].todo = {} THEN Done(t)
     ELSE LET s == Newest(job[t].todo)
              rest == [job[t] EXCEPT !.todo = @ \ {s}] IN
          \/ (inFlight # None \/ ~ CanResubmit(s)) /\ Become(t, rest)
          \/ inFlight = None /\ CanResubmit(s) /\ Become(t, [rest EXCEPT !.at = "batchClaim", !.scan = s])
  /\ UNCHANGED <<rows, server, registered, queue, slots, status, resending, landed>>

\* A POST is given up after 15 seconds, long before the coordinator's five minutes.
BatchWait(t) ==
  /\ WorkerAt(t, "batchWait")
  /\ inFlight # job[t].scan
  /\ To(t, "batch")
  /\ UNCHANGED <<rows, server, registered, queue, slots, status, resending, landed>>

\* submit-pending: the rows that are pending now, one after the other.
StartCli ==
  /\ "cli" \in user.does /\ (user.patient => Quiet)
  /\ resubmits < user.resubmits
  /\ resubmits' = resubmits + 1
  /\ \E t \in Workers :
       /\ Fresh(t)
       /\ Become(t, [NewJob("cli", None, {}) EXCEPT
                      !.todo = {s \in PendingRows : rows[s].payload}, !.cli = TRUE])
  /\ UNCHANGED <<rows, server, registered, window, queue, slots, status, engine, resending, history, user, kills>>

CliNext(t) ==
  /\ WorkerAt(t, "cli")
  /\ IF job[t].todo = {} THEN Done(t)
     ELSE LET s == Newest(job[t].todo) IN
          Become(t, [job[t] EXCEPT !.at = "repost", !.scan = s, !.todo = @ \ {s}])
  /\ UNCHANGED <<rows, server, registered, queue, slots, status, resending, landed>>

\* submit_recorded_payload
Repost(t) ==
  /\ WorkerAt(t, "repost")
  /\ Post(t, job[t].scan, "reanswered")
  /\ UNCHANGED <<rows, credit, registered, queue, slots, status, resending, landed>>

\* Mutant: any answer that is no refusal counts as having arrived.
StateAfterLax(reply, r) == IF reply = "rejected" THEN "failed" ELSE "submitted"

\* The state of the row after an attempt, of the attempts it has now.
StateAfter(reply, r) ==
  CASE reply \in {"accepted", "duplicate", "noId"} -> "submitted"
    [] reply = "rejected" -> "failed"
    [] OTHER -> TransientOutcomeState(IF r = None THEN 0 ELSE r.attempts)

Reanswered(t) ==
  /\ WorkerAt(t, "reanswered")
  /\ job' = [job EXCEPT ![t].at = "update", ![t].state = StateAfter(job[t].reply, rows[job[t].scan])]
  /\ UNCHANGED <<rows, server, registered, queue, slots, status, resending, landed>>

\* Mutant: the slot stays taken.
AfterRowKept(t) == (IF job[t].cli THEN To(t, "cli") ELSE Done(t)) /\ UNCHANGED inFlight

\* The worker frees the slot; the command line goes on to the next row.
AfterRow(t) ==
  IF job[t].cli THEN To(t, "cli") /\ UNCHANGED inFlight
  ELSE Done(t) /\ inFlight' = None

UpdateLoad(t) ==
  /\ WorkerAt(t, "update")
  /\ LET r == rows[job[t].scan] IN
     IF r = None THEN AfterRow(t)
     ELSE /\ job' = [job EXCEPT ![t].row = r, ![t].at = "updateSave"]
          /\ UNCHANGED inFlight
  /\ UNCHANGED <<rows, server, registered, queue, slots, status, prompt, landed>>

\* The command line marks what was accepted, without counting an attempt.
UpdateSave(t) ==
  /\ WorkerAt(t, "updateSave")
  /\ Save(job[t].scan,
          IF job[t].cli /\ job[t].reply = "accepted" THEN MarkedSubmitted(job[t].row)
          ELSE Attempted(job[t].row, job[t].state))
  /\ AfterRow(t)
  /\ UNCHANGED <<server, registered, queue, slots, status, prompt, landed>>

ResubmitStep(t) ==
  \/ BatchNext(t) \/ BatchWait(t) \/ CliNext(t)
  \/ Repost(t) \/ Reanswered(t) \/ UpdateLoad(t) \/ UpdateSave(t)

\* The panel's Delete, and pruning by age at a launch.
DeleteRow(s) ==
  /\ "delete" \in user.does /\ MayAct
  /\ s \in Recorded
  /\ Save(s, None)
  /\ UNCHANGED <<server, registered, window, queue, slots, status, engine, resending, job, history, bounds>>

\* The process is killed and launched again; it asks about the rows that are pending,
\* if they are older than five minutes.
Kill ==
  /\ kills < user.kills
  /\ kills' = kills + 1
  /\ job' = [t \in Threads |-> IF job[t].cli THEN job[t] ELSE Idle]
  /\ engine' = [engine EXCEPT !.at = "idle"]
  /\ news' = None /\ scanning' = FALSE /\ modal' = "hidden"
  /\ pending' = None /\ subId' = None /\ outcome' = None /\ status' = "none"
  /\ inFlight' = None
  /\ prompt' \in {{}, PendingRows}
  /\ UNCHANGED <<rows, server, registered, prefs, queue, firedOn, landed, user, resubmits>>

-----------------------------------------------------------------------------

EngineStep == StashInputs \/ SendScanFinished \/ RecordCompleted
WindowStep == OnScanFinished \/ ShowOutcome \/ CreditLoad \/ CreditSave
              \/ RouteToSubmission \/ RouteToPending \/ AppendStep(Ui) \/ Claim(Ui)
WorkerStep(t) == SubmitStep(t) \/ SettingsTake(t) \/ SettingsPost(t) \/ CreditStep(t)
                 \/ AppendStep(t) \/ ResubmitStep(t) \/ Claim(t)
UserStep == StartScan \/ ClickSubmit \/ ClickSkip \/ TurnModal \/ FlagForReview
            \/ ClickSettingsSubmit \/ (\E a \in Actions : UserActs(a))
            \/ (\E s \in Scans : ClickResubmit(s) \/ DeleteRow(s))
            \/ AnswerPrompt \/ StartCli

Next == EngineStep \/ WindowStep \/ (\E t \in Workers : WorkerStep(t)) \/ UserStep \/ Kill

\* Threads run on and every request is answered or times out; users owe nothing.
Spec ==
  /\ Init /\ [][Next]_vars
  /\ WF_vars(EngineStep) /\ WF_vars(WindowStep)
  /\ \A t \in Workers : WF_vars(WorkerStep(t))

-----------------------------------------------------------------------------
(* Properties.                                                             *)

\* A row says Submitted only of a scan the server has, whichever thread wrote it last
\* (scan_history.rs, SubmissionState; app.rs, resubmit.rs and main.rs).
SubmittedIsOnServer == \A s \in Recorded : rows[s].state = "submitted" => s \in received

\* A row stays in the resubmit prompt for MAX_RESUBMIT_ATTEMPTS attempts at most
\* (scan_history.rs transient_outcome_state).
PendingBelowCap == \A s \in PendingRows : rows[s].attempts < MaxAttempts

\* The bytes of an action are counted under one submission at most, with lost answers,
\* retries, the queue and kills (pending_actions.rs, action_submission.rs).
CreditedOnce == \A a \in Actions : Cardinality({s \in Scans : a \in credit[s]}) <= 1

\* What the server was told an action freed, the row of its scan shows too: the local
\* credit comes first (app.rs drain_events).
LocalCreditFirst ==
  \A a \in landed : rows[firedOn[a]] # None => a \in rows[firedOn[a]].reclaimed

\* Where the credit of an action can be: with the server, in the queue, with a thread.
Queued == IF queue = Torn THEN {} ELSE queue
InHand == UNION {job[t].acts \union job[t].found : t \in Threads}
Kept   == (UNION {credit[s] : s \in Scans}) \union Queued \union InHand

\* And where it is given up, no window telling: a kill takes it from a thread,
CutOff(a) == kills' = kills + 1 /\ a \notin Queued

\* the server refuses it, or answers none of the attempts,
NotSent(a) ==
  \E t \in Workers :
    /\ At(t, "patch") /\ a \in job[t].acts
    /\ "refuses" \in user.faults \/ (user.faults # {} /\ job[t].tries + 1 = PatchAttempts)

\* the next summary of the same submission takes its place,
Replaced(a) ==
  \E t \in Workers :
    At(t, "patch") /\ a \in credit[job[t].scan] /\ credit' = [credit EXCEPT ![job[t].scan] = job[t].acts]

\* there is no install, or no submission to credit an archive to,
LoggedOnly(a) ==
  /\ At(Ui, "route") /\ a \in job[Ui].acts
  /\ ~ registered \/ (subId = None /\ a \in Archives)

\* the queue file does not parse.
Unreadable(a) == queue = Torn /\ \E t \in Threads : At(t, "appendLoad") /\ a \in job[t].acts

GivenUp(a) == CutOff(a) \/ NotSent(a) \/ Replaced(a) \/ LoggedOnly(a) \/ Unreadable(a)

\* On its way through the window, the threads, the queue file and the server, a credit
\* is lost at one of these five places and nowhere else: not when the scan it waits for
\* is not accepted, not by a drain, a lost answer or a retry (action_submission.rs,
\* pending_actions.rs; for a user who waits).
CreditLostOnlyThere == [][user.patient => \A a \in Kept \ Kept' : GivenUp(a)]_vars

\* The dialog does not wait forever for the answer to a submission
\* (app.rs tick_scan_complete_modal).
SubmitResolves == modal = "submitting" ~> modal # "submitting"

\* A batch of resubmits ends, each of its rows sent or skipped, and frees the slot
\* (resubmit.rs request_resubmit_batch).
ResubmitEnds == inFlight # None ~> inFlight = None

\* An action after a new scan does not credit the old submission (app.rs launch_scan).
CreditsOwnScan ==
  [][\A t \in Workers : At(t, "idle") /\ job'[t].at = "patch" => job'[t].scan = engine.n]_vars

\* One resubmit is in flight at a time (resubmit.rs).
OneInFlight == Cardinality({t \in Workers : ~ job[t].cli /\ job[t].at \in
                              {"repost", "reanswered", "update", "updateSave"}}) <= 1

\* A submitted row is not taken for pending again.
SubmittedStays ==
  [][\A s \in Recorded : rows[s].state = "submitted" /\ rows'[s] # None => rows'[s].state = "submitted"]_vars

\* A deleted row does not come back.
DeletedStaysDeleted ==
  [][\A s \in Scans \ Recorded : s < engine.n => rows'[s] = None]_vars

\* The dialog shows the outcome of its own scan.
OutcomeOfOwnScan == modal = "done" /\ outcome # None => outcome.scan \in {None, engine.n}
=============================================================================
