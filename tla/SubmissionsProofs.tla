------------------------- MODULE SubmissionsProofs -------------------------
(***************************************************************************)
(* What TLAPS proves about Submissions.  Whatever the users do, however    *)
(* the server answers, and however the threads, the command line and kills *)
(* interleave, a row says Submitted only of a scan the server has.  For a  *)
(* user who waits for one thing to end before the next, attempts are       *)
(* capped, each credit is counted once and none is lost, and the history   *)
(* shows it first.                                                         *)
(***************************************************************************)
EXTENDS Submissions, FiniteSetTheorems, WellFoundedInduction, TLAPS

-----------------------------------------------------------------------------
(* The newest row.                                                         *)

\* A set of scans that is not empty has a newest one (scan_history.rs list).
LEMMA NewestIn ==
  ASSUME NEW S \in SUBSET Scans, S # {}
  PROVE  Newest(S) \in S /\ \A u \in S : u <= Newest(S)
<1> DEFINE T == {MaxScans - s : s \in S}
<1>0. MaxScans \in Nat
  BY HistoryAssumption DEF HistoryAssumption
<1>1. T \subseteq Nat /\ T # {}
  <2>1. \A s \in S : MaxScans - s \in Nat
    BY <1>0 DEF Scans
  <2>2. T # {}
    OBVIOUS
  <2> QED BY <2>1, <2>2
<1>2. \E x \in T : \A y \in T : ~ (<<y, x>> \in OpToRel(<, Nat))
  <2> HIDE DEF T
  <2> QED BY <1>1, NatLessThanWellFounded, WFMin
<1>3. PICK x \in T : \A y \in T : ~ (y < x)
  <2>1. PICK x \in T : \A y \in T : ~ (<<y, x>> \in OpToRel(<, Nat))
    BY <1>2
  <2>2. \A y \in T : ~ (y < x)
    <3> HIDE DEF T
    <3> QED BY <1>1, <2>1 DEF OpToRel
  <2> QED BY <2>2
<1>4. PICK s \in S : x = MaxScans - s
  OBVIOUS
<1>5. ASSUME NEW u \in S PROVE u <= s
  <2>1. ~ (MaxScans - u < MaxScans - s)
    BY <1>3, <1>4
  <2>2. u \in Int /\ s \in Int /\ MaxScans \in Int
    BY <1>0 DEF Scans
  <2> QED BY <2>1, <2>2
<1> QED BY <1>5 DEF Newest

-----------------------------------------------------------------------------
(* The inductive invariant.  SubmittedIsOnServer alone is not inductive: a  *)
(* thread carries an answer, or a row it has loaded, over steps of others.  *)

Labels == {"idle"} \union SendLabels \union CreditLabels \union ResubmitLabels

Job == [at : Labels, scan : Scans \union {None}, acts : SUBSET Actions,
        row : Row \union {None}, found : SUBSET Actions, reply : Replies,
        state : States \union {"none"}, tries : 0..(PatchAttempts - 1),
        todo : SUBSET Scans, cli : BOOLEAN]

\* The answers that say the server has the scan.
Arrived == {"accepted", "duplicate", "noId"}

\* What a job j carries is true of a server that has the scans R.
Carries(j, R) ==
  /\ j.at \in {"post", "repost", "settingsPost", "autoPost", "claim", "batchClaim",
                "drainLoad", "drainRemove", "patch"} => j.scan \in Scans
  /\ j.at \in {"answered", "reanswered", "update", "updateSave"} =>
       j.scan \in Scans /\ (j.reply \in Arrived => j.scan \in R)
  /\ j.at \in {"mark", "markSave"} => j.scan \in R \intersect Scans
  /\ j.at \in {"update", "updateSave"} =>
       j.state \in States /\ (j.state = "submitted" => j.scan \in R)
  /\ j.at \in {"markSave", "updateSave", "creditSave"} =>
       /\ j.scan \in Scans /\ j.row \in Row
       /\ j.row.state = "submitted" => j.scan \in R

SlotsOK ==
  /\ received \subseteq Scans
  /\ registered \in BOOLEAN
  /\ queue \in (SUBSET Actions) \union {Torn}
  /\ pending \in Scans \union {None} /\ subId \in Scans \union {None}
  /\ prompt \subseteq Scans
  /\ engine \in [n : 0..MaxScans, at : {"idle", "running", "stashed", "finished"}]
  /\ engine.at = "idle" \/ engine.n \in Scans

JobsOK ==
  /\ job \in [Threads -> Job]
  /\ \A t \in Threads : Carries(job[t], received)

IInv == RowsOK /\ SubmittedIsOnServer /\ SlotsOK /\ JobsOK

\* The server forgets nothing.
LEMMA CarriesMore ==
  ASSUME NEW j, NEW R, NEW Q, R \subseteq Q, Carries(j, R)
  PROVE  Carries(j, Q)
BY DEF Carries

\* An idle thread carries nothing, and is a job.
LEMMA IdleOK == Idle \in Job /\ \A R : Carries(Idle, R)
BY SubmissionsAssumption DEF SubmissionsAssumption, Idle, Job, Carries, Labels, Replies

\* A thread that starts has what its label needs.
LEMMA NewJobOK ==
  ASSUME NEW at \in Labels, NEW s \in Scans \union {None}, NEW acts \in SUBSET Actions
  PROVE  NewJob(at, s, acts) \in Job
BY IdleOK DEF NewJob, Idle, Job

\* When one thread gets a job that is right, all jobs are right.
LEMMA OneJob ==
  ASSUME JobsOK, NEW R, received \subseteq R, NEW t \in Threads, NEW j \in Job, Carries(j, R)
  PROVE  /\ [job EXCEPT ![t] = j] \in [Threads -> Job]
         /\ \A u \in Threads : Carries([job EXCEPT ![t] = j][u], R)
BY CarriesMore DEF JobsOK

\* The same for two threads.
LEMMA TwoJobs ==
  ASSUME JobsOK, NEW R, received \subseteq R, NEW t \in Threads, NEW j \in Job, Carries(j, R),
         NEW w \in Threads, NEW k \in Job, Carries(k, R)
  PROVE  /\ [job EXCEPT ![t] = j, ![w] = k] \in [Threads -> Job]
         /\ \A u \in Threads : Carries([job EXCEPT ![t] = j, ![w] = k][u], R)
BY CarriesMore DEF JobsOK

\* An answer that the scan has arrived is true when it is sent, and the server has a
\* scan for good (submission.rs submit_inner).
LEMMA AnswersTrue ==
  ASSUME NEW s \in Scans, received \subseteq Scans, NEW a \in Answers(s)
  PROVE  /\ a[1] \in Replies
         /\ received \subseteq a[2] /\ a[2] \subseteq Scans
         /\ a[1] \in Arrived => s \in a[2]
BY DEF Answers, Replies, Arrived

\* A changed row is a row, and changing what a submitted row has freed does not submit it.
LEMMA RowChanges ==
  ASSUME NEW r \in Row, NEW st \in States, NEW acts \in SUBSET Actions
  PROVE  /\ Attempted(r, st) \in Row /\ Attempted(r, st).state = st
         /\ MarkedSubmitted(r) \in Row
         /\ Accumulated(r, acts) \in Row /\ Accumulated(r, acts).state = r.state
<1> USE DEF Row
<1>1. Attempted(r, st) \in Row /\ Attempted(r, st).state = st
  <2>1. r.attempts + 1 \in Nat
    OBVIOUS
  <2> QED BY <2>1 DEF Attempted
<1>2. MarkedSubmitted(r) \in Row
  BY DEF MarkedSubmitted, States
<1>3. r.reclaimed \union acts \in SUBSET Actions
  OBVIOUS
<1>4. Accumulated(r, acts) \in Row /\ Accumulated(r, acts).state = r.state
  BY <1>3 DEF Accumulated
<1> QED BY <1>1, <1>2, <1>4

\* Saving a row that is true keeps the rows true.
LEMMA SaveKeeps ==
  ASSUME RowsOK, SubmittedIsOnServer, NEW s, NEW r \in Row \union {None}, Save(s, r),
         r # None /\ r.state = "submitted" /\ s \in Scans => s \in received,
         received \subseteq received'
  PROVE  RowsOK' /\ SubmittedIsOnServer'
BY DEF RowsOK, SubmittedIsOnServer, Save, Recorded

\* Rows nobody saves stay true.
LEMMA RowsStay ==
  ASSUME RowsOK, SubmittedIsOnServer, UNCHANGED rows, received \subseteq received'
  PROVE  RowsOK' /\ SubmittedIsOnServer'
BY DEF RowsOK, SubmittedIsOnServer, Recorded

\* Jobs nobody changes stay right.
LEMMA JobsStay ==
  ASSUME JobsOK, UNCHANGED job, received \subseteq received'
  PROVE  JobsOK'
BY CarriesMore DEF JobsOK

LEMMA JobBecomes ==
  ASSUME JobsOK, received \subseteq received', NEW t \in Threads, NEW j \in Job,
         Carries(j, received'), job' = [job EXCEPT ![t] = j]
  PROVE  JobsOK'
BY OneJob DEF JobsOK

\* A thread is started with a label that carries nothing.
LEMMA JobStarts ==
  ASSUME JobsOK, UNCHANGED received, NEW t \in Threads,
         NEW at \in {"register", "take", "batch", "cli"},
         NEW j \in Job, j.at = at, Become(t, j)
  PROVE  JobsOK'
<1>1. Carries(j, received')
  BY DEF Carries
<1> QED BY <1>1, JobBecomes DEF Become

LEMMA JobEnds ==
  ASSUME JobsOK, received \subseteq received', NEW t \in Threads, Done(t)
  PROVE  JobsOK'
BY IdleOK, JobBecomes DEF Done, Become

LEMMA InitInv == Init => IInv
<1> SUFFICES ASSUME Init PROVE IInv
  OBVIOUS
<1>1. RowsOK /\ SubmittedIsOnServer
  BY DEF Init, RowsOK, SubmittedIsOnServer, Recorded
<1>2. SlotsOK
  BY HistoryAssumption, SubmissionsAssumption
  DEF HistoryAssumption, SubmissionsAssumption, Init, SlotsOK
<1>3. JobsOK
  BY IdleOK DEF Init, JobsOK
<1> QED BY <1>1, <1>2, <1>3 DEF IInv

\* A scan starts, ends, and is recorded (app.rs launch_scan, live.rs run).
LEMMA EngineKeeps ==
  ASSUME IInv, StartScan \/ EngineStep
  PROVE  IInv'
<1> USE DEF IInv
<1>1. CASE StartScan
  <2>1. SlotsOK'
    BY <1>1, HistoryAssumption DEF HistoryAssumption, StartScan, SlotsOK, server, resending, Scans
  <2>2. JobsOK'
    BY <1>1, JobsStay DEF StartScan, server
  <2>3. RowsOK' /\ SubmittedIsOnServer'
    BY <1>1, RowsStay DEF StartScan, server
  <2> QED BY <2>1, <2>2, <2>3
<1>2. CASE StashInputs \/ SendScanFinished
  <2>1. SlotsOK'
    BY <1>2 DEF StashInputs, SendScanFinished, SlotsOK, server, window, slots, resending
  <2>2. JobsOK'
    BY <1>2, JobsStay DEF StashInputs, SendScanFinished, server
  <2>3. RowsOK' /\ SubmittedIsOnServer'
    BY <1>2, RowsStay DEF StashInputs, SendScanFinished, server
  <2> QED BY <2>1, <2>2, <2>3
<1>3. CASE RecordCompleted
  <2>1. SlotsOK'
    BY <1>3 DEF RecordCompleted, SlotsOK, server, window, slots, resending
  <2>2. JobsOK'
    BY <1>3, JobsStay DEF RecordCompleted, server
  <2>3. NewFinished(registered) \in Row /\ NewFinished(registered).state = "pending"
    BY DEF SlotsOK, NewFinished, Row, States
  <2>4. RowsOK' /\ SubmittedIsOnServer'
    BY <1>3, <2>3, SaveKeeps DEF RecordCompleted, server
  <2> QED BY <2>1, <2>2, <2>4
<1> QED BY <1>1, <1>2, <1>3 DEF EngineStep

\* The dialogs of the window, and the threads they start.
LEMMA DialogsKeep ==
  ASSUME IInv,
         OnScanFinished \/ ShowOutcome \/ ClickSubmit \/ ClickSkip \/ TurnModal
         \/ FlagForReview \/ ClickSettingsSubmit \/ AnswerPrompt \/ StartCli
  PROVE  IInv'
<1> USE DEF IInv
<1>0. \A at \in {"register", "take"} : NewJob(at, None, {}) \in Job /\ NewJob(at, None, {}).at = at
  BY NewJobOK DEF NewJob, Idle, Labels, SendLabels
<1>1. CASE OnScanFinished \/ ClickSubmit \/ ClickSettingsSubmit
  <2>1. SlotsOK'
    BY <1>1 DEF OnScanFinished, ClickSubmit, ClickSettingsSubmit, SlotsOK, server, slots, window, resending
  <2>2. UNCHANGED rows /\ UNCHANGED received
    BY <1>1 DEF OnScanFinished, ClickSubmit, ClickSettingsSubmit, server
  <2>3. \/ UNCHANGED job
        \/ \E t \in Workers, at \in {"register", "take"} : Become(t, NewJob(at, None, {}))
    BY <1>1 DEF OnScanFinished, ClickSubmit, ClickSettingsSubmit
  <2>4. JobsOK'
    BY <2>2, <2>3, <1>0, JobsStay, JobStarts DEF Threads
  <2>5. RowsOK' /\ SubmittedIsOnServer'
    BY <2>2, RowsStay
  <2> QED BY <2>1, <2>4, <2>5
<1>2. CASE ShowOutcome \/ ClickSkip \/ TurnModal \/ FlagForReview
  <2>1. SlotsOK' /\ UNCHANGED rows /\ UNCHANGED received /\ UNCHANGED job
    BY <1>2 DEF ShowOutcome, ClickSkip, TurnModal, FlagForReview, SlotsOK, server, slots, window, resending
  <2> QED BY <2>1, JobsStay, RowsStay
<1>3. CASE AnswerPrompt \/ StartCli
  <2>1. SlotsOK'
    BY <1>3 DEF AnswerPrompt, StartCli, SlotsOK, server, slots, window, resending
  <2>2. UNCHANGED rows /\ UNCHANGED received
    BY <1>3 DEF AnswerPrompt, StartCli, server
  <2>3. \/ UNCHANGED job
        \/ \E t \in Workers, S \in SUBSET Scans :
             \/ Become(t, [NewJob("batch", None, {}) EXCEPT !.todo = S])
             \/ Become(t, [NewJob("cli", None, {}) EXCEPT !.todo = S, !.cli = TRUE])
    <3>1. CASE AnswerPrompt
      BY <3>1 DEF AnswerPrompt, SlotsOK
    <3>2. CASE StartCli
      <4>1. {s \in PendingRows : rows[s].payload} \in SUBSET Scans
        BY DEF PendingRows, Recorded
      <4> QED BY <3>2, <4>1 DEF StartCli
    <3> QED BY <1>3, <3>1, <3>2
  <2>4. ASSUME NEW S \in SUBSET Scans
        PROVE  /\ [NewJob("batch", None, {}) EXCEPT !.todo = S] \in Job
               /\ [NewJob("batch", None, {}) EXCEPT !.todo = S].at = "batch"
               /\ [NewJob("cli", None, {}) EXCEPT !.todo = S, !.cli = TRUE] \in Job
               /\ [NewJob("cli", None, {}) EXCEPT !.todo = S, !.cli = TRUE].at = "cli"
    <3>1. \A at \in {"batch", "cli"} : NewJob(at, None, {}) \in Job /\ NewJob(at, None, {}).at = at
      BY NewJobOK DEF NewJob, Idle, Labels, ResubmitLabels
    <3> QED BY <3>1 DEF Job
  <2>5. JobsOK'
    BY <2>2, <2>3, <2>4, JobsStay, JobStarts DEF Threads
  <2> QED BY <2>1, <2>2, <2>5, RowsStay
<1> QED BY <1>1, <1>2, <1>3

\* A worker's job at another label.
LEMMA AtLabel ==
  ASSUME NEW j \in Job, NEW at \in Labels
  PROVE  /\ [j EXCEPT !.at = at] \in Job
         /\ [j EXCEPT !.at = at].at = at
         /\ [j EXCEPT !.at = at].scan = j.scan /\ [j EXCEPT !.at = at].row = j.row
         /\ [j EXCEPT !.at = at].reply = j.reply /\ [j EXCEPT !.at = at].state = j.state
BY DEF Job

\* Going on to a label that carries nothing.
LEMMA JobMoves ==
  ASSUME JobsOK, UNCHANGED received, NEW t \in Threads, NEW at, To(t, at),
         at \in {"peek", "report", "take", "route", "routePending", "appendLoad", "appendTruncate",
                 "appendWrite", "drainRemove", "batch", "batchWait", "cli", "patch"},
         at \in {"drainRemove", "patch"} => job[t].scan \in Scans
  PROVE  JobsOK'
<1> DEFINE j == [job[t] EXCEPT !.at = at]
<1>1. at \in Labels
  BY DEF Labels, SendLabels, CreditLabels, ResubmitLabels
<1>2. j \in Job /\ j.at = at /\ j.scan = job[t].scan
  BY <1>1, AtLabel DEF JobsOK
<1>3. Carries(j, received')
  BY <1>2 DEF Carries
<1>4. job' = [job EXCEPT ![t] = j]
  BY DEF To
<1> QED BY <1>2, <1>3, <1>4, JobBecomes

\* The frame of a worker's step leaves the slots it does not name alone.
LEMMA FrameKeeps ==
  ASSUME SlotsOK, NEW t, NEW at, WorkerAt(t, at), UNCHANGED received,
         registered' \in BOOLEAN, queue' \in (SUBSET Actions) \union {Torn},
         pending' \in Scans \union {None}, subId' \in Scans \union {None}, UNCHANGED resending
  PROVE  SlotsOK'
BY DEF SlotsOK, WorkerAt, resending

\* A scan is sent, and the answer is true.
LEMMA PostKeeps ==
  ASSUME IInv, NEW t \in Threads, NEW s \in Scans, NEW next \in {"answered", "reanswered"},
         Post(t, s, next)
  PROVE  JobsOK' /\ received \subseteq received' /\ received' \subseteq Scans
<1> USE DEF IInv
<1>1. PICK a \in Answers(s) :
        /\ received' = a[2]
        /\ job' = [job EXCEPT ![t].at = next, ![t].reply = a[1], ![t].scan = s]
  BY DEF Post
<1> DEFINE j == [job[t] EXCEPT !.at = next, !.reply = a[1], !.scan = s]
<1>2. a[1] \in Replies /\ received \subseteq a[2] /\ a[2] \subseteq Scans /\ (a[1] \in Arrived => s \in a[2])
  BY AnswersTrue DEF SlotsOK
<1>3. j \in Job /\ j.at = next /\ j.reply = a[1] /\ j.scan = s
  <2>1. next \in Labels
    BY DEF Labels, SendLabels, ResubmitLabels
  <2>2. job[t] \in Job
    BY DEF JobsOK
  <2> QED BY <1>2, <2>1, <2>2 DEF Job
<1>4. Carries(j, received')
  BY <1>1, <1>2, <1>3 DEF Carries
<1>5. job' = [job EXCEPT ![t] = j]
  BY <1>1 DEF JobsOK
<1> QED BY <1>1, <1>2, <1>3, <1>4, <1>5, JobBecomes

\* The submit worker: spawn_leaderboard_submit_worker, and the one of the settings.
LEMMA SubmitKeeps ==
  ASSUME IInv, NEW t \in Workers, SubmitStep(t) \/ SettingsTake(t) \/ SettingsPost(t)
  PROVE  IInv'
<1> USE DEF IInv
<1>0. t \in Threads /\ job[t] \in Job /\ Carries(job[t], received)
  BY DEF Threads, JobsOK
<1>1. CASE AutoRegister(t)
  <2>1. SlotsOK'
    BY <1>1, FrameKeeps DEF AutoRegister, SlotsOK, server
  <2>2. JobsOK'
    BY <1>0, <1>1, JobMoves, JobEnds DEF AutoRegister, server
  <2> QED BY <1>1, <2>1, <2>2, RowsStay DEF AutoRegister, server
<1>2. CASE PeekPending(t)
  <2>1. SlotsOK'
    BY <1>2, FrameKeeps DEF PeekPending, SlotsOK, server
  <2>2. CASE pending = None
    <3>1. JobsOK'
      BY <1>0, <1>2, <2>2, JobEnds DEF PeekPending, server
    <3> QED BY <1>2, <2>1, <3>1, RowsStay DEF PeekPending, server
  <2>3. CASE pending # None
    <3>1. pending \in Scans
      BY <2>3 DEF SlotsOK
    <3>2. NewJob("post", pending, {}) \in Job
      BY <3>1, NewJobOK DEF Labels, SendLabels
    <3>3. Carries(NewJob("post", pending, {}), received')
      BY <3>1 DEF Carries, NewJob, Idle
    <3>4. JobsOK'
      BY <1>0, <1>2, <2>3, <3>2, <3>3, JobBecomes DEF PeekPending, server, Become
    <3> QED BY <1>2, <2>1, <3>4, RowsStay DEF PeekPending, server
  <2> QED BY <2>2, <2>3
<1>3. CASE PostScan(t)
  <2>1. job[t].scan \in Scans
    BY <1>0, <1>3 DEF PostScan, WorkerAt, At, Carries
  <2>2. JobsOK' /\ received \subseteq received' /\ received' \subseteq Scans
    BY <1>0, <1>3, <2>1, PostKeeps DEF PostScan
  <2>3. SlotsOK'
    BY <1>3, <2>2 DEF PostScan, WorkerAt, SlotsOK, slots, resending
  <2> QED BY <1>3, <2>2, <2>3, RowsStay DEF PostScan
<1>4. CASE HandleAnswer(t)
  <2> DEFINE s == job[t].scan
             next == [job[t] EXCEPT !.at = IF job[t].reply \in {"accepted", "duplicate", "noId"}
                                           THEN "mark" ELSE "report"]
  <2>1. s \in Scans /\ (job[t].reply \in Arrived => s \in received)
    BY <1>0, <1>4 DEF HandleAnswer, WorkerAt, At, Carries
  <2>2. SlotsOK'
    BY <1>4, <2>1, FrameKeeps DEF HandleAnswer, SlotsOK, server
  <2>3. next \in Job /\ Carries(next, received')
    <3>1. CASE job[t].reply \in Arrived
      <4>1. next = [job[t] EXCEPT !.at = "mark"]
        BY <3>1 DEF Arrived
      <4> QED BY <1>0, <1>4, <2>1, <3>1, <4>1, AtLabel DEF HandleAnswer, server, Carries, Labels, SendLabels
    <3>2. CASE job[t].reply \notin Arrived
      <4>1. next = [job[t] EXCEPT !.at = "report"]
        BY <3>2 DEF Arrived
      <4>2. "report" \in Labels
        BY DEF Labels, SendLabels
      <4>3. next \in Job /\ next.at = "report"
        BY <1>0, <4>1, <4>2, AtLabel, ZenonT(60)
      <4> HIDE DEF next
      <4> QED BY <4>3 DEF Carries
    <3> QED BY <3>1, <3>2
  <2>4. \/ Become(t, next)
        \/ \E d \in Workers : job' = [job EXCEPT ![t] = next, ![d] = NewJob("drainLoad", s, {})]
    BY <1>4 DEF HandleAnswer, DrainInto
  <2>5. NewJob("drainLoad", s, {}) \in Job /\ Carries(NewJob("drainLoad", s, {}), received')
    BY <2>1, NewJobOK DEF Labels, CreditLabels, Carries, NewJob, Idle
  <2>6. UNCHANGED received
    BY <1>4 DEF HandleAnswer, server
  <2>7. JobsOK'
    <3> HIDE DEF next, s
    <3>1. CASE Become(t, next)
      BY <1>0, <2>3, <2>6, <3>1, JobBecomes DEF Become
    <3>2. ASSUME NEW d \in Workers, job' = [job EXCEPT ![t] = next, ![d] = NewJob("drainLoad", s, {})]
          PROVE  JobsOK'
      <4>1. d \in Threads
        BY DEF Threads
      <4> QED BY <1>0, <2>3, <2>5, <2>6, <3>2, <4>1, TwoJobs DEF JobsOK
    <3> QED BY <2>4, <3>1, <3>2
  <2> QED BY <1>4, <2>2, <2>7, RowsStay DEF HandleAnswer, server
<1>5. CASE MarkLoad(t)
  <2>1. SlotsOK'
    BY <1>5, FrameKeeps DEF MarkLoad, SlotsOK, server, slots
  <2> DEFINE s == job[t].scan
             j == [job[t] EXCEPT !.row = rows[s], !.at = IF rows[s] = None THEN "report" ELSE "markSave"]
  <2>2. s \in Scans /\ s \in received
    BY <1>0, <1>5 DEF MarkLoad, WorkerAt, At, Carries
  <2>3. rows[s] \in Row \union {None}
    BY <2>2 DEF RowsOK
  <2>4. j \in Job /\ j.row = rows[s] /\ j.scan = s
        /\ j.at = IF rows[s] = None THEN "report" ELSE "markSave"
    BY <1>0, <2>3, ZenonT(60) DEF Job, Labels, SendLabels
  <2>5. Carries(j, received')
    BY <1>5, <2>2, <2>3, <2>4 DEF MarkLoad, server, Carries
  <2>6. JobsOK'
    BY <1>0, <1>5, <2>4, <2>5, JobBecomes DEF MarkLoad, server
  <2> QED BY <1>5, <2>1, <2>6, RowsStay DEF MarkLoad, server
<1>6. CASE MarkSave(t)
  <2>1. SlotsOK'
    BY <1>6, FrameKeeps DEF MarkSave, SlotsOK, server, slots
  <2>2. job[t].scan \in received /\ job[t].row \in Row
    BY <1>0, <1>6 DEF MarkSave, WorkerAt, At, Carries
  <2>3. MarkedSubmitted(job[t].row) \in Row
    BY <2>2, RowChanges DEF States
  <2>4. RowsOK' /\ SubmittedIsOnServer'
    BY <1>6, <2>2, <2>3, SaveKeeps DEF MarkSave, server
  <2>5. JobsOK'
    BY <1>0, <1>6, JobMoves DEF MarkSave, server
  <2> QED BY <2>1, <2>4, <2>5
<1>7. CASE Report(t)
  <2>1. SlotsOK'
    BY <1>7, FrameKeeps DEF Report, SlotsOK, server
  <2>2. JobsOK'
    BY <1>0, <1>7, JobEnds DEF Report, server
  <2> QED BY <1>7, <2>1, <2>2, RowsStay DEF Report, server
<1>8. CASE SettingsTake(t)
  <2>1. SlotsOK'
    BY <1>8, FrameKeeps DEF SettingsTake, SlotsOK, server
  <2>2. CASE pending = None
    <3>1. JobsOK'
      BY <1>0, <1>8, <2>2, JobEnds DEF SettingsTake, server
    <3> QED BY <1>8, <2>1, <3>1, RowsStay DEF SettingsTake, server
  <2>3. CASE pending # None
    <3>1. pending \in Scans
      BY <2>3 DEF SlotsOK
    <3>2. NewJob("settingsPost", pending, {}) \in Job
      BY <3>1, NewJobOK DEF Labels, SendLabels
    <3>3. Carries(NewJob("settingsPost", pending, {}), received')
      BY <3>1 DEF Carries, NewJob, Idle
    <3>4. JobsOK'
      BY <1>0, <1>8, <2>3, <3>2, <3>3, JobBecomes DEF SettingsTake, server, Become
    <3> QED BY <1>8, <2>1, <3>4, RowsStay DEF SettingsTake, server
  <2> QED BY <2>2, <2>3
<1>9. CASE SettingsPost(t)
  <2>1. job[t].scan \in Scans
    BY <1>0, <1>9 DEF SettingsPost, WorkerAt, At, Carries
  <2>2. received \subseteq received' /\ received' \subseteq Scans
    BY <1>9, <2>1, AnswersTrue DEF SettingsPost, SlotsOK
  <2>3. SlotsOK'
    BY <1>9, <2>2 DEF SettingsPost, WorkerAt, SlotsOK, resending
  <2>4. JobsOK'
    BY <1>0, <1>9, <2>2, JobEnds DEF SettingsPost
  <2> QED BY <1>9, <2>2, <2>3, <2>4, RowsStay DEF SettingsPost
<1> QED BY <1>1, <1>2, <1>3, <1>4, <1>5, <1>6, <1>7, <1>8, <1>9 DEF SubmitStep

\* The window credits an action: the row first, then where the credit goes.
LEMMA CreditKeeps ==
  ASSUME IInv,
         \/ \E a \in Actions : UserActs(a)
         \/ CreditLoad \/ CreditSave \/ RouteToSubmission \/ RouteToPending
  PROVE  IInv'
<1> USE DEF IInv
<1>0. Ui \in Threads /\ job[Ui] \in Job /\ Carries(job[Ui], received)
  BY DEF Threads, JobsOK
<1>1. ASSUME NEW a \in Actions, UserActs(a) PROVE IInv'
  <2>1. SlotsOK' /\ UNCHANGED rows /\ UNCHANGED received
    BY <1>1 DEF UserActs, SlotsOK, server, window, slots, resending
  <2>2. NewJob("creditLoad", None, {a}) \in Job /\ Carries(NewJob("creditLoad", None, {a}), received')
    BY NewJobOK DEF Labels, CreditLabels, Carries, NewJob, Idle
  <2>3. JobsOK'
    BY <1>0, <1>1, <2>1, <2>2, JobBecomes DEF UserActs, Become
  <2> QED BY <2>1, <2>3, RowsStay
<1>2. CASE CreditLoad
  <2>1. SlotsOK' /\ UNCHANGED rows /\ UNCHANGED received
    BY <1>2 DEF CreditLoad, UiAt, SlotsOK, server, window, slots, resending
  <2>2. CASE Recorded = {}
    <3>1. To(Ui, "route")
      BY <1>2, <2>2 DEF CreditLoad, To
    <3>2. JobsOK'
      BY <1>0, <2>1, <3>1, JobMoves
    <3> QED BY <2>1, <3>2, RowsStay
  <2>3. CASE Recorded # {}
    <3> DEFINE s == Newest(Recorded)
               j == [job[Ui] EXCEPT !.at = "creditSave", !.scan = s, !.row = rows[s]]
    <3>1. s \in Scans /\ s \in Recorded
      BY <2>3, NewestIn DEF Recorded
    <3>2. rows[s] \in Row /\ (rows[s].state = "submitted" => s \in received)
      BY <3>1 DEF RowsOK, Recorded, SubmittedIsOnServer
    <3>3. "creditSave" \in Labels
      BY DEF Labels, CreditLabels
    <3>4. j \in Job /\ j.at = "creditSave" /\ j.scan = s /\ j.row = rows[s]
      <4> HIDE DEF s
      <4> QED BY <1>0, <3>1, <3>2, <3>3 DEF Job
    <3>5. job' = [job EXCEPT ![Ui] = j]
      BY <1>2, <2>3 DEF CreditLoad
    <3>6. JobsOK'
      <4> HIDE DEF j, s
      <4>1. Carries(j, received')
        BY <2>1, <3>1, <3>2, <3>4 DEF Carries
      <4> QED BY <1>0, <2>1, <3>4, <3>5, <4>1, JobBecomes
    <3> QED BY <2>1, <3>6, RowsStay
  <2> QED BY <2>2, <2>3
<1>3. CASE CreditSave
  <2>1. SlotsOK' /\ UNCHANGED received
    BY <1>3 DEF CreditSave, UiAt, SlotsOK, server, window, slots, resending
  <2> DEFINE j == job[Ui]
  <2>2. j.row \in Row /\ (j.row.state = "submitted" => j.scan \in received) /\ j.acts \in SUBSET Actions
    BY <1>0, <1>3 DEF CreditSave, UiAt, At, Carries, Job
  <2>3. Accumulated(j.row, j.acts) \in Row /\ Accumulated(j.row, j.acts).state = j.row.state
    BY <2>2, RowChanges DEF States
  <2>4. RowsOK' /\ SubmittedIsOnServer'
    BY <1>3, <2>1, <2>2, <2>3, SaveKeeps DEF CreditSave
  <2>5. JobsOK'
    BY <1>0, <1>3, <2>1, JobMoves DEF CreditSave
  <2> QED BY <2>1, <2>4, <2>5
<1>4. CASE RouteToSubmission \/ RouteToPending
  <2>1. SlotsOK' /\ UNCHANGED rows /\ UNCHANGED received
    BY <1>4 DEF RouteToSubmission, RouteToPending, UiAt, SlotsOK, server, window, slots, resending
  <2>2. \/ Done(Ui)
        \/ To(Ui, "routePending") \/ To(Ui, "appendLoad")
        \/ subId \in Scans /\ SendCredit("patch", subId, job[Ui].acts)
        \/ pending \in Scans /\ SendCredit("autoPost", pending, job[Ui].acts)
    BY <1>4 DEF RouteToSubmission, RouteToPending, SlotsOK
  <2>3. ASSUME NEW at \in {"patch", "autoPost"}, NEW s \in Scans, SendCredit(at, s, job[Ui].acts)
        PROVE  JobsOK'
    <3>1. PICK t \in Workers : job' = [job EXCEPT ![Ui] = Idle, ![t] = NewJob(at, s, job[Ui].acts)]
      BY <2>3 DEF SendCredit
    <3>2. job[Ui].acts \in SUBSET Actions
      BY <1>0 DEF Job
    <3>3. NewJob(at, s, job[Ui].acts) \in Job
      BY <3>2, NewJobOK DEF Labels, CreditLabels, SendLabels
    <3>4. Carries(NewJob(at, s, job[Ui].acts), received')
      BY DEF Carries, NewJob, Idle
    <3>5. t \in Threads
      BY DEF Threads
    <3> QED BY <1>0, <2>1, <3>1, <3>3, <3>4, <3>5, IdleOK, TwoJobs, ZenonT(60) DEF JobsOK
  <2>4. JobsOK'
    BY <1>0, <2>1, <2>2, <2>3, JobEnds, JobMoves
  <2> QED BY <2>1, <2>4, RowsStay
<1> QED BY <1>1, <1>2, <1>3, <1>4

\* The threads that send a credit, and the queue (action_submission.rs, pending_actions.rs).
LEMMA QueueKeeps ==
  ASSUME IInv, NEW t \in Threads, AppendStep(t) \/ (t \in Workers /\ CreditStep(t))
  PROVE  IInv'
<1> USE DEF IInv
<1>0. job[t] \in Job /\ Carries(job[t], received)
  BY DEF JobsOK
<1>1. CASE AppendLoad(t)
  <2>1. SlotsOK' /\ UNCHANGED rows /\ UNCHANGED received
    BY <1>1 DEF AppendLoad, SlotsOK, server, window, slots, resending
  <2>2. CASE queue = Torn
    <3>1. JobsOK'
      BY <1>0, <1>1, <2>1, <2>2, JobEnds DEF AppendLoad
    <3> QED BY <2>1, <3>1, RowsStay
  <2>3. CASE queue # Torn
    <3> DEFINE j == [job[t] EXCEPT !.at = "appendTruncate", !.found = queue]
    <3>1. "appendTruncate" \in Labels /\ queue \in SUBSET Actions
      BY <2>3 DEF Labels, CreditLabels, SlotsOK
    <3>2. j \in Job /\ j.at = "appendTruncate"
      BY <1>0, <3>1 DEF Job
    <3>3. job' = [job EXCEPT ![t] = j]
      BY <1>1, <2>3 DEF AppendLoad
    <3>4. JobsOK'
      <4> HIDE DEF j
      <4>1. Carries(j, received')
        BY <3>2 DEF Carries
      <4> QED BY <2>1, <3>2, <3>3, <4>1, JobBecomes
    <3> QED BY <2>1, <3>4, RowsStay
  <2> QED BY <2>2, <2>3
<1>2. CASE AppendTruncate(t)
  <2>1. SlotsOK' /\ UNCHANGED rows /\ UNCHANGED received
    BY <1>2 DEF AppendTruncate, SlotsOK, server, window, slots, resending
  <2>2. JobsOK'
    BY <1>2, <2>1, JobMoves DEF AppendTruncate
  <2> QED BY <2>1, <2>2, RowsStay
<1>3. CASE AppendWrite(t)
  <2>1. job[t].found \union job[t].acts \in SUBSET Actions
    BY <1>0 DEF Job
  <2>2. SlotsOK' /\ UNCHANGED rows /\ UNCHANGED received
    BY <1>3, <2>1 DEF AppendWrite, SlotsOK, server, window, slots, resending
  <2>3. JobsOK'
    BY <1>3, <2>2, JobEnds DEF AppendWrite
  <2> QED BY <2>2, <2>3, RowsStay
<1>4. CASE t \in Workers /\ AutoPost(t)
  <2>1. job[t].scan \in Scans
    BY <1>0, <1>4 DEF AutoPost, WorkerAt, At, Carries
  <2>2. received \subseteq received' /\ received' \subseteq Scans
    BY <1>4, <2>1, AnswersTrue DEF AutoPost, SlotsOK
  <2>3. SlotsOK'
    BY <1>4, <2>1, <2>2 DEF AutoPost, WorkerAt, SlotsOK, resending
  <2>4. To(t, "patch") \/ To(t, "appendLoad")
    BY <1>4 DEF AutoPost
  <2>5. PICK at \in {"patch", "appendLoad"} : job' = [job EXCEPT ![t] = [@ EXCEPT !.at = at]]
    BY <2>4 DEF To
  <2>6. /\ [job[t] EXCEPT !.at = at] \in Job /\ [job[t] EXCEPT !.at = at].at = at
        /\ [job[t] EXCEPT !.at = at].scan = job[t].scan
    BY <1>0, AtLabel DEF Labels, CreditLabels
  <2>7. Carries([job[t] EXCEPT !.at = at], received')
    BY <2>1, <2>6 DEF Carries
  <2>8. JobsOK'
    BY <2>2, <2>5, <2>6, <2>7, JobBecomes
  <2> QED BY <1>4, <2>2, <2>3, <2>8, RowsStay DEF AutoPost
<1>5. CASE t \in Workers /\ (DrainLoad(t) \/ DrainRemove(t))
  <2>1. SlotsOK' /\ UNCHANGED rows /\ UNCHANGED received
    BY <1>5, FrameKeeps DEF DrainLoad, DrainRemove, SlotsOK, server, slots
  <2>4. job[t].scan \in Scans
    BY <1>0, <1>5 DEF DrainLoad, DrainRemove, WorkerAt, At, Carries
  <2>2. CASE DrainLoad(t) /\ queue # Torn
    <3> DEFINE j == [job[t] EXCEPT !.at = "drainRemove", !.acts = queue]
    <3>1. "drainRemove" \in Labels /\ queue \in SUBSET Actions
      BY <2>2 DEF Labels, CreditLabels, SlotsOK
    <3>2. j \in Job /\ j.at = "drainRemove" /\ j.scan = job[t].scan
      BY <1>0, <3>1 DEF Job
    <3>3. job' = [job EXCEPT ![t] = j]
      BY <2>2 DEF DrainLoad
    <3>4. JobsOK'
      <4> HIDE DEF j
      <4>1. Carries(j, received')
        BY <2>4, <3>2 DEF Carries
      <4> QED BY <2>1, <3>2, <3>3, <4>1, JobBecomes
    <3> QED BY <2>1, <3>4, RowsStay
  <2>3. CASE (DrainLoad(t) /\ queue = Torn) \/ DrainRemove(t)
    <3>1. JobsOK'
      BY <2>1, <2>3, <2>4, JobEnds, JobMoves DEF DrainLoad, DrainRemove
    <3> QED BY <2>1, <3>1, RowsStay
  <2> QED BY <1>5, <2>2, <2>3
<1>6. CASE t \in Workers /\ Patch(t)
  <2>1. SlotsOK' /\ UNCHANGED rows /\ UNCHANGED received
    BY <1>6, FrameKeeps DEF Patch, SlotsOK, slots
  <2>2. CASE Done(t)
    BY <2>1, <2>2, JobEnds, RowsStay
  <2>3. CASE job[t].tries + 1 < PatchAttempts /\ job' = [job EXCEPT ![t].tries = @ + 1]
    <3> DEFINE j == [job[t] EXCEPT !.tries = @ + 1]
    <3>1. job[t].tries + 1 \in 0..(PatchAttempts - 1)
      BY <1>0, <2>3, SubmissionsAssumption DEF SubmissionsAssumption, Job
    <3>2. j \in Job /\ j.at = job[t].at /\ j.scan = job[t].scan
      BY <1>0, <3>1 DEF Job
    <3>3. j.at = "patch" /\ j.scan \in Scans
      BY <1>0, <1>6, <3>2 DEF Patch, WorkerAt, At, Carries
    <3>4. JobsOK'
      <4>1. Carries(j, received')
        BY <3>3 DEF Carries
      <4> QED BY <2>1, <2>3, <3>2, <4>1, JobBecomes
    <3> QED BY <2>1, <3>4, RowsStay
  <2> QED BY <1>6, <2>2, <2>3 DEF Patch
<1> QED BY <1>1, <1>2, <1>3, <1>4, <1>5, <1>6 DEF AppendStep, CreditStep

\* Submitting again, from the window and from the command line (gui/resubmit.rs).
LEMMA ResubmitKeeps ==
  ASSUME IInv,
         \/ \E s \in Scans : ClickResubmit(s)
         \/ \E t \in Threads : Claim(t)
         \/ \E t \in Workers : ResubmitStep(t)
  PROVE  IInv'
<1> USE DEF IInv
<1>0. /\ \A t \in Threads : job[t] \in Job /\ Carries(job[t], received)
      /\ Workers \subseteq Threads /\ Ui \in Threads
  BY DEF Threads, JobsOK
<1>1. ASSUME NEW s \in Scans, ClickResubmit(s) PROVE IInv'
  <2>1. SlotsOK' /\ UNCHANGED rows /\ UNCHANGED received
    BY <1>1 DEF ClickResubmit, SlotsOK, server, window, slots, resending
  <2>2. NewJob("claim", s, {}) \in Job /\ Carries(NewJob("claim", s, {}), received')
    BY NewJobOK DEF Labels, ResubmitLabels, Carries, NewJob, Idle
  <2>3. JobsOK'
    BY <1>0, <1>1, <2>1, <2>2, JobBecomes DEF ClickResubmit, Become
  <2> QED BY <2>1, <2>3, RowsStay
<1>2. ASSUME NEW t \in Threads, Claim(t) PROVE IInv'
  <2>1. SlotsOK' /\ UNCHANGED rows /\ UNCHANGED received
    BY <1>2 DEF Claim, SlotsOK, server, window, slots
  <2> DEFINE j == IF t = Ui THEN Idle ELSE [job[t] EXCEPT !.at = "batchWait"]
             k == NewJob("repost", job[t].scan, {})
  <2>2. job[t].scan \in Scans
    BY <1>0, <1>2 DEF Claim, At, Carries
  <2>3. k \in Job /\ Carries(k, received')
    BY <2>2, NewJobOK DEF Labels, ResubmitLabels, Carries, NewJob, Idle
  <2>4. j \in Job /\ Carries(j, received')
    <3>1. "batchWait" \in Labels
      BY DEF Labels, ResubmitLabels
    <3>2. [job[t] EXCEPT !.at = "batchWait"] \in Job /\ [job[t] EXCEPT !.at = "batchWait"].at = "batchWait"
      BY <1>0, <3>1, AtLabel
    <3>3. Carries([job[t] EXCEPT !.at = "batchWait"], received')
      BY <3>2 DEF Carries
    <3> QED BY <3>2, <3>3, IdleOK
  <2>5. PICK w \in Workers \ {t} : job' = [job EXCEPT ![w] = k, ![t] = j]
    BY <1>2 DEF Claim
  <2>6. JobsOK'
    <3> HIDE DEF j, k
    <3> QED BY <1>0, <2>1, <2>3, <2>4, <2>5, TwoJobs DEF JobsOK
  <2> QED BY <2>1, <2>6, RowsStay
<1>3. ASSUME NEW t \in Workers, BatchNext(t) \/ CliNext(t) PROVE IInv'
  <2>1. SlotsOK' /\ UNCHANGED rows /\ UNCHANGED received
    BY <1>3, FrameKeeps DEF BatchNext, CliNext, SlotsOK, server, slots
  <2>2. CASE job[t].todo = {}
    <3>1. JobsOK'
      BY <1>0, <1>3, <2>1, <2>2, JobEnds DEF BatchNext, CliNext
    <3> QED BY <2>1, <3>1, RowsStay
  <2>3. CASE job[t].todo # {}
    <3> DEFINE s == Newest(job[t].todo)
               rest == job[t].todo \ {s}
               skip == [job[t] EXCEPT !.todo = rest]
               take == [job[t] EXCEPT !.at = "batchClaim", !.scan = s, !.todo = rest]
               send == [job[t] EXCEPT !.at = "repost", !.scan = s, !.todo = rest]
    <3>1. job[t].todo \in SUBSET Scans
      BY <1>0 DEF Job
    <3>2. s \in Scans /\ rest \in SUBSET Scans
      BY <2>3, <3>1, NewestIn
    <3>3. \/ job[t].at = "batch" /\ Become(t, skip)
          \/ Become(t, take)
          \/ Become(t, send)
      BY <1>0, <1>3, <2>3 DEF BatchNext, CliNext, WorkerAt, At, Job
    <3>4. {"batchClaim", "repost"} \subseteq Labels
      BY DEF Labels, ResubmitLabels
    <3>5. /\ skip \in Job /\ skip.at = job[t].at
          /\ take \in Job /\ take.at = "batchClaim" /\ take.scan = s
          /\ send \in Job /\ send.at = "repost" /\ send.scan = s
      <4> HIDE DEF s, rest
      <4> QED BY <1>0, <3>2, <3>4 DEF Job
    <3>6. JobsOK'
      <4> HIDE DEF s, skip, take, send
      <4>1. /\ job[t].at = "batch" => Carries(skip, received')
            /\ Carries(take, received') /\ Carries(send, received')
        BY <3>2, <3>5 DEF Carries
      <4> QED BY <1>0, <2>1, <3>3, <3>5, <4>1, JobBecomes DEF Become
    <3> QED BY <2>1, <3>6, RowsStay
  <2> QED BY <2>2, <2>3
<1>4. ASSUME NEW t \in Workers, BatchWait(t) PROVE IInv'
  <2>1. SlotsOK' /\ UNCHANGED rows /\ UNCHANGED received
    BY <1>4, FrameKeeps DEF BatchWait, SlotsOK, server, slots
  <2>2. JobsOK'
    BY <1>0, <1>4, <2>1, JobMoves DEF BatchWait
  <2> QED BY <2>1, <2>2, RowsStay
<1>5. ASSUME NEW t \in Workers, Repost(t) PROVE IInv'
  <2>1. job[t].scan \in Scans
    BY <1>0, <1>5 DEF Repost, WorkerAt, At, Carries
  <2>2. JobsOK' /\ received \subseteq received' /\ received' \subseteq Scans
    BY <1>0, <1>5, <2>1, PostKeeps DEF Repost
  <2>3. SlotsOK'
    BY <1>5, <2>2 DEF Repost, WorkerAt, SlotsOK, slots, resending
  <2> QED BY <1>5, <2>2, <2>3, RowsStay DEF Repost
<1>6. ASSUME NEW t \in Workers, Reanswered(t) PROVE IInv'
  <2>1. SlotsOK' /\ UNCHANGED rows /\ UNCHANGED received
    BY <1>6, FrameKeeps DEF Reanswered, SlotsOK, server, slots
  <2> DEFINE r == rows[job[t].scan]
             st == StateAfter(job[t].reply, r)
             j == [job[t] EXCEPT !.at = "update", !.state = st]
  <2>2. job[t].scan \in Scans /\ (job[t].reply \in Arrived => job[t].scan \in received)
    BY <1>0, <1>6 DEF Reanswered, WorkerAt, At, Carries
  <2>3. st \in States /\ (st = "submitted" => job[t].reply \in Arrived)
    <3> HIDE DEF r
    <3> QED BY DEF StateAfter, TransientOutcomeState, States, Arrived
  <2>4. "update" \in Labels
    BY DEF Labels, ResubmitLabels
  <2>5. /\ j \in Job /\ j.at = "update" /\ j.state = st
        /\ j.scan = job[t].scan /\ j.reply = job[t].reply
    <3> HIDE DEF st
    <3> QED BY <1>0, <2>3, <2>4 DEF Job
  <2>6. job' = [job EXCEPT ![t] = j]
    BY <1>6 DEF Reanswered
  <2>7. JobsOK'
    <3> HIDE DEF j, st
    <3>1. Carries(j, received')
      BY <2>1, <2>2, <2>3, <2>5 DEF Carries
    <3> QED BY <1>0, <2>1, <2>5, <2>6, <3>1, JobBecomes
  <2> QED BY <2>1, <2>7, RowsStay
<1>7. ASSUME NEW t \in Workers, UpdateLoad(t) PROVE IInv'
  <2>1. SlotsOK' /\ UNCHANGED rows /\ UNCHANGED received
    BY <1>7 DEF UpdateLoad, WorkerAt, SlotsOK, server, slots
  <2> DEFINE s == job[t].scan
             j == [job[t] EXCEPT !.row = rows[s], !.at = "updateSave"]
  <2>2. /\ s \in Scans /\ (job[t].reply \in Arrived => s \in received)
        /\ job[t].state \in States /\ (job[t].state = "submitted" => s \in received)
    BY <1>0, <1>7 DEF UpdateLoad, WorkerAt, At, Carries
  <2>3. CASE rows[s] = None
    <3>1. To(t, "cli") \/ Done(t)
      BY <1>7, <2>3 DEF UpdateLoad, AfterRow
    <3>2. JobsOK'
      BY <1>0, <2>1, <3>1, JobEnds, JobMoves
    <3> QED BY <2>1, <3>2, RowsStay
  <2>4. CASE rows[s] # None
    <3>1. rows[s] \in Row /\ (rows[s].state = "submitted" => s \in received)
      BY <2>2, <2>4 DEF RowsOK, SubmittedIsOnServer, Recorded
    <3>2. "updateSave" \in Labels
      BY DEF Labels, ResubmitLabels
    <3>3. /\ j \in Job /\ j.at = "updateSave" /\ j.scan = s /\ j.row = rows[s]
          /\ j.reply = job[t].reply /\ j.state = job[t].state
      BY <1>0, <3>1, <3>2 DEF Job
    <3>4. job' = [job EXCEPT ![t] = j]
      BY <1>7, <2>4 DEF UpdateLoad
    <3>5. JobsOK'
      <4> HIDE DEF j
      <4>1. Carries(j, received')
        BY <2>1, <2>2, <3>1, <3>3 DEF Carries
      <4> QED BY <1>0, <2>1, <3>3, <3>4, <4>1, JobBecomes
    <3> QED BY <2>1, <3>5, RowsStay
  <2> QED BY <2>3, <2>4
<1>8. ASSUME NEW t \in Workers, UpdateSave(t) PROVE IInv'
  <2>1. SlotsOK' /\ UNCHANGED received
    BY <1>8 DEF UpdateSave, WorkerAt, SlotsOK, server, slots
  <2>2. /\ job[t].row \in Row /\ job[t].state \in States
        /\ job[t].state = "submitted" => job[t].scan \in received
        /\ job[t].reply \in Arrived => job[t].scan \in received
    BY <1>0, <1>8 DEF UpdateSave, WorkerAt, At, Carries
  <2>3. /\ MarkedSubmitted(job[t].row) \in Row
        /\ Attempted(job[t].row, job[t].state) \in Row
        /\ Attempted(job[t].row, job[t].state).state = job[t].state
    BY <2>2, RowChanges
  <2>4. RowsOK' /\ SubmittedIsOnServer'
    <3>1. CASE job[t].cli /\ job[t].reply = "accepted"
      BY <1>8, <2>1, <2>2, <2>3, <3>1, SaveKeeps DEF UpdateSave, Arrived
    <3>2. CASE ~ (job[t].cli /\ job[t].reply = "accepted")
      BY <1>8, <2>1, <2>2, <2>3, <3>2, SaveKeeps DEF UpdateSave
    <3> QED BY <3>1, <3>2
  <2>5. To(t, "cli") \/ Done(t)
    BY <1>8 DEF UpdateSave, AfterRow
  <2>6. JobsOK'
    BY <1>0, <2>1, <2>5, JobEnds, JobMoves
  <2> QED BY <2>1, <2>4, <2>6
<1> QED BY <1>1, <1>2, <1>3, <1>4, <1>5, <1>6, <1>7, <1>8 DEF ResubmitStep

\* A row is deleted, or the process is killed and launched again.
LEMMA DeleteAndKillKeep ==
  ASSUME IInv, Kill \/ \E s \in Scans : DeleteRow(s)
  PROVE  IInv'
<1> USE DEF IInv
<1>1. ASSUME NEW s \in Scans, DeleteRow(s) PROVE IInv'
  <2>1. SlotsOK' /\ UNCHANGED received /\ UNCHANGED job
    BY <1>1 DEF DeleteRow, SlotsOK, server, window, slots, resending
  <2>2. RowsOK' /\ SubmittedIsOnServer'
    BY <1>1, <2>1, SaveKeeps DEF DeleteRow
  <2> QED BY <2>1, <2>2, JobsStay
<1>2. CASE Kill
  <2>1. SlotsOK'
    BY <1>2 DEF Kill, SlotsOK, server, PendingRows, Recorded
  <2>2. UNCHANGED rows /\ UNCHANGED received
    BY <1>2 DEF Kill, server
  <2>3. \A t \in Threads : job'[t] \in Job /\ Carries(job'[t], received')
    BY <1>2, <2>2, IdleOK DEF Kill, JobsOK
  <2>4. JobsOK'
    BY <1>2, <2>3 DEF Kill, JobsOK
  <2> QED BY <2>1, <2>2, <2>4, RowsStay
<1> QED BY <1>1, <1>2

LEMMA NextInv == IInv /\ [Next]_vars => IInv'
<1> SUFFICES ASSUME IInv, [Next]_vars PROVE IInv'
  OBVIOUS
<1>1. CASE EngineStep
  BY <1>1, EngineKeeps
<1>2. CASE WindowStep
  BY <1>2, DialogsKeep, CreditKeeps, QueueKeeps, ResubmitKeeps DEF WindowStep, Threads
<1>3. ASSUME NEW t \in Workers, WorkerStep(t) PROVE IInv'
  BY <1>3, SubmitKeeps, QueueKeeps, ResubmitKeeps DEF WorkerStep, Threads
<1>4. CASE UserStep
  BY <1>4, EngineKeeps, DialogsKeep, CreditKeeps, ResubmitKeeps, DeleteAndKillKeep DEF UserStep
<1>5. CASE Kill
  BY <1>5, DeleteAndKillKeep
<1>6. CASE UNCHANGED vars
  <2>1. SlotsOK' /\ UNCHANGED rows /\ UNCHANGED received /\ UNCHANGED job
    BY <1>6 DEF IInv, vars, SlotsOK, server, window, slots, resending
  <2> QED BY <2>1, JobsStay, RowsStay DEF IInv
<1> QED BY <1>1, <1>2, <1>3, <1>4, <1>5, <1>6 DEF Next

\* Whatever threads, the command line, users and kills do, and whatever answers are
\* lost, a row says Submitted only of a scan the server has.
THEOREM SubmittedOnServer == Spec => []SubmittedIsOnServer
<1>1. IInv => SubmittedIsOnServer
  BY DEF IInv
<1> QED BY <1>1, InitInv, NextInv, PTL DEF Spec

-----------------------------------------------------------------------------
(* A user who waits for everything to be quiet has one thing going at a     *)
(* time: a thread that leads, and one it has left behind.                   *)

PostLabels  == {"register", "peek", "post", "answered"}
MarkLabels  == {"mark", "markSave", "report"}
DrainLabels == {"drainLoad", "drainRemove", "patch"}
RetryLabels == {"repost", "reanswered", "update", "updateSave"}
BatchLabels == {"claim", "batch", "batchClaim", "batchWait", "cli"}

Leads(t)   == job[t].at \notin {"idle", "batchWait"} \union DrainLabels
Drains(t)  == job[t].at \in DrainLabels
Retries(t) == job[t].at \in RetryLabels /\ ~ job[t].cli

Serial ==
  /\ \A t, u \in Threads : Leads(t) /\ Leads(u) => t = u
  /\ \A t, u \in Threads : Drains(t) /\ Drains(u) => t = u
  /\ \A t, u \in Threads : Drains(t) /\ Leads(u) => job[u].at \in MarkLabels
  /\ \A t, u \in Threads : At(t, "batchWait") =>
       /\ ~ Drains(u)
       /\ At(u, "batchWait") => t = u
       /\ Leads(u) => Retries(u) /\ job[u].scan = job[t].scan
  /\ \A t \in Threads : Retries(t) => inFlight = job[t].scan
  /\ \A t \in Threads : job[t].cli => job[t].at \in RetryLabels \union {"cli"}
  /\ \A t \in Threads : At(t, "cli") => job[t].cli
  /\ engine.at \in {"running", "stashed"} \/ news # None => \A t \in Threads : At(t, "idle")
  /\ news # None => engine.at \in {"finished", "idle"}
  /\ engine.at = "finished" =>
       \A t \in Threads : job[t].at \in {"idle"} \union PostLabels \union MarkLabels \union DrainLabels

\* One who never sends again has no thread that does.
Unsent == \A t \in Threads : job[t].at \notin RetryLabels \union BatchLabels

Sends == user.does \intersect {"resubmit", "cli"} # {}

Alone == (user.patient => Serial) /\ (~ Sends => Unsent)

\* What the user does is settled at the start.
LEMMA SameUser == [Next]_vars => UNCHANGED user
<1>1. EngineStep => UNCHANGED user
  BY DEF EngineStep, StashInputs, SendScanFinished, RecordCompleted, bounds
<1>2. WindowStep => UNCHANGED user
  BY DEF UiAt, WorkerAt, WindowStep, OnScanFinished, ShowOutcome, CreditLoad, CreditSave, RouteToSubmission,
         RouteToPending, AppendStep, AppendLoad, AppendTruncate, AppendWrite, AutoPost, Claim,
         Patch, bounds
<1>3. ASSUME NEW t \in Workers, WorkerStep(t) PROVE UNCHANGED user
  <2>1. CASE SubmitStep(t) \/ SettingsTake(t) \/ SettingsPost(t) \/ CreditStep(t)
    BY <2>1 DEF WorkerAt, SubmitStep, SettingsTake, SettingsPost, CreditStep, AutoRegister, PeekPending,
                PostScan, HandleAnswer, MarkLoad, MarkSave, Report, DrainLoad, DrainRemove,
                AutoPost, Patch, bounds
  <2>2. CASE AppendStep(t) \/ Claim(t)
    BY <2>2 DEF WorkerAt, AppendStep, AppendLoad, AppendTruncate, AppendWrite, AutoPost, Claim, Patch, bounds
  <2>3. CASE ResubmitStep(t)
    BY <2>3 DEF WorkerAt, ResubmitStep, BatchNext, BatchWait, CliNext, Repost, Reanswered, UpdateLoad,
                UpdateSave, bounds
  <2> QED BY <1>3, <2>1, <2>2, <2>3 DEF WorkerStep
<1>4. UserStep => UNCHANGED user
  BY DEF UserStep, StartScan, ClickSubmit, ClickSkip, TurnModal, FlagForReview,
         ClickSettingsSubmit, UserActs, ClickResubmit, DeleteRow, AnswerPrompt, StartCli, bounds
<1>5. Kill => UNCHANGED user
  BY DEF Kill, bounds
<1> QED BY <1>1, <1>2, <1>3, <1>4, <1>5 DEF Next, vars, bounds

\* The leading thread goes on.
LEMMA LeadMoves ==
  ASSUME Serial, JobsOK, NEW t \in Threads, NEW j \in Job, job' = [job EXCEPT ![t] = j],
         UNCHANGED <<engine, news, inFlight>>,
         Leads(t), j.at \notin {"idle", "batchWait"} \union DrainLabels,
         job[t].at \in MarkLabels => j.at \in MarkLabels,
         job[t].at \in PostLabels => j.at \in PostLabels \union MarkLabels,
         Retries(t) => j.scan = job[t].scan /\ j.at \in RetryLabels /\ ~ j.cli,
         j.at \in RetryLabels /\ ~ j.cli => Retries(t),
         j.cli => job[t].cli /\ j.at \in RetryLabels \union {"cli"},
         j.at = "cli" => j.cli
  PROVE  Serial'
<1>1. \A u \in Threads : job'[u] = IF u = t THEN j ELSE job[u]
  BY DEF JobsOK
<1> QED BY <1>1 DEF Serial, Leads, Drains, Retries, At, PostLabels, MarkLabels, DrainLabels, RetryLabels

\* A thread ends.
LEMMA LastMove ==
  ASSUME Serial, JobsOK, NEW t \in Threads, Done(t), UNCHANGED <<engine, news>>,
         UNCHANGED inFlight \/ Retries(t)
  PROVE  Serial'
<1>1. \A u \in Threads : job'[u] = IF u = t THEN Idle ELSE job[u]
  BY DEF JobsOK, Done, Become
<1>2. Idle.at = "idle" /\ Idle.cli = FALSE
  BY DEF Idle
<1>3. Retries(t) => \A u \in Threads : Leads(u) => u = t
  BY DEF Serial, Leads, Retries, RetryLabels, DrainLabels
<1>4. \A u \in Threads : u # t /\ Retries(t) => ~ Retries(u)
  BY <1>3 DEF Leads, Retries, RetryLabels, DrainLabels
<1> QED BY <1>1, <1>2, <1>4 DEF Serial, Leads, Drains, Retries, At, MarkLabels, DrainLabels, RetryLabels

\* A thread that drains the queue goes on, or the leading one sends a credit.
LEMMA DrainMoves ==
  ASSUME Serial, JobsOK, NEW t \in Threads, NEW j \in Job, job' = [job EXCEPT ![t] = j],
         UNCHANGED <<engine, news, inFlight>>, j.at \in DrainLabels, ~ j.cli,
         Drains(t) \/ job[t].at \in CreditLabels \union {"autoPost"}
  PROVE  Serial'
<1>1. \A u \in Threads : job'[u] = IF u = t THEN j ELSE job[u]
  BY DEF JobsOK
<1>2. CASE Drains(t)
  BY <1>1, <1>2 DEF Serial, Leads, Drains, Retries, At, PostLabels, MarkLabels, DrainLabels, RetryLabels
<1>3. CASE ~ Drains(t)
  <2>1. Leads(t) /\ job[t].at \notin MarkLabels \union PostLabels \union RetryLabels
    BY <1>3 DEF Leads, Drains, CreditLabels, DrainLabels, MarkLabels, PostLabels, RetryLabels
  <2> QED BY <1>1, <2>1 DEF Serial, Leads, Drains, Retries, At, PostLabels, MarkLabels, DrainLabels, RetryLabels
<1> QED BY <1>2, <1>3

\* From a state in which nothing is under way a thread starts.
LEMMA FirstMove ==
  ASSUME Serial, JobsOK, Quiet, NEW t \in Threads, NEW j \in Job, job' = [job EXCEPT ![t] = j],
         UNCHANGED <<engine, news>>,
         j.at \notin {"batchWait"} \union DrainLabels \union RetryLabels,
         j.cli => j.at = "cli", j.at = "cli" => j.cli
  PROVE  Serial'
<1>1. \A u \in Threads : job'[u] = IF u = t THEN j ELSE job[u]
  BY DEF JobsOK
<1> QED BY <1>1 DEF Serial, Quiet, Leads, Drains, Retries, At, DrainLabels, RetryLabels

\* While a thread leads that is neither marking a row nor sent by another one, the
\* others are idle, and so is the engine, unless the thread posts a scan.
LEMMA OthersIdle ==
  ASSUME Serial, NEW t \in Threads, Leads(t), job[t].at \notin MarkLabels, ~ Retries(t)
  PROVE  /\ \A u \in Threads : u # t => At(u, "idle")
         /\ engine.at \notin {"running", "stashed"} /\ news = None
         /\ job[t].at \notin PostLabels => engine.at # "finished"
<1>1. \A u \in Threads : ~ Drains(u) /\ ~ At(u, "batchWait")
  BY DEF Serial
<1>2. \A u \in Threads : u # t => At(u, "idle")
  BY <1>1 DEF Serial, Leads, Drains, At
<1> QED BY <1>2 DEF Serial, Leads, At, DrainLabels

\* The threads stay as they are.
LEMMA NoMove ==
  ASSUME Serial, UNCHANGED <<job, engine, news, inFlight>>
  PROVE  Serial'
BY DEF Serial, Leads, Drains, Retries, At

\* Scans, and the dialogs of the window.
LEMMA SerialWindow ==
  ASSUME IInv, user.patient, Serial,
         \/ StartScan \/ EngineStep \/ OnScanFinished \/ ShowOutcome \/ ClickSubmit \/ ClickSkip
         \/ TurnModal \/ FlagForReview \/ ClickSettingsSubmit \/ AnswerPrompt \/ StartCli
         \/ \E s \in Scans : DeleteRow(s)
  PROVE  Serial'
<1> USE DEF IInv
<1>0. \A t \in Threads : At(t, "idle") \/ ~ Quiet
  BY DEF Quiet
<1>1. CASE StartScan
  BY <1>0, <1>1 DEF StartScan, MayAct, Quiet, Serial, Leads, Drains, Retries, At, resending, DrainLabels, RetryLabels
<1>2. CASE StashInputs \/ SendScanFinished
  BY <1>2 DEF StashInputs, SendScanFinished, SlotsOK, Serial, Leads, Drains, Retries, At, resending, window, DrainLabels, RetryLabels
<1>3. CASE RecordCompleted
  BY <1>3 DEF RecordCompleted, SlotsOK, Serial, Leads, Drains, Retries, At, resending, window, DrainLabels, RetryLabels
<1>4. CASE OnScanFinished
  <2>1. \A t \in Threads : At(t, "idle")
    BY <1>4 DEF OnScanFinished, Serial
  <2>2. engine' = engine /\ inFlight' = inFlight /\ news' = None /\ engine.at \in {"finished", "idle"}
    BY <1>4 DEF OnScanFinished, resending, Serial
  <2>3. UNCHANGED job \/ \E t \in Workers : Become(t, NewJob("register", None, {}))
    BY <1>4 DEF OnScanFinished
  <2>4. CASE UNCHANGED job
    BY <2>1, <2>2, <2>4 DEF Serial, Leads, Drains, Retries, At
  <2>5. ASSUME NEW t \in Workers, Become(t, NewJob("register", None, {})) PROVE Serial'
    <3>1. \A u \in Threads : job'[u].at = IF u = t THEN "register" ELSE "idle"
      BY <2>1, <2>5 DEF JobsOK, Become, NewJob, Idle, Threads, At
    <3>2. \A u \in Threads : ~ job'[u].cli
      BY <2>1, <2>5 DEF JobsOK, Become, NewJob, Idle, Threads, At, Serial, RetryLabels
    <3> QED BY <2>2, <3>1, <3>2 DEF Serial, Leads, Drains, Retries, At, PostLabels, DrainLabels, RetryLabels
  <2> QED BY <2>3, <2>4, <2>5
<1>5. CASE ShowOutcome \/ ClickSkip \/ TurnModal \/ FlagForReview \/ \E s \in Scans : DeleteRow(s)
  BY <1>5, NoMove DEF ShowOutcome, ClickSkip, TurnModal, FlagForReview, DeleteRow, resending, window
<1>6. CASE ClickSubmit \/ ClickSettingsSubmit \/ AnswerPrompt \/ StartCli
  <2>1. Quiet /\ UNCHANGED <<engine, news, inFlight>>
    BY <1>6 DEF ClickSubmit, ClickSettingsSubmit, AnswerPrompt, StartCli, MayAct, window, resending
  <2>2. \A at \in {"register", "take", "batch", "cli"} : NewJob(at, None, {}) \in Job /\ NewJob(at, None, {}).at = at /\ ~ NewJob(at, None, {}).cli
    BY NewJobOK DEF NewJob, Idle, Labels, SendLabels, ResubmitLabels
  <2>3. UNCHANGED job \/ \E t \in Threads, j \in Job :
          Become(t, j) /\ j.at \in {"register", "take", "batch", "cli"} /\ (j.cli => j.at = "cli") /\ (j.at = "cli" => j.cli)
    <3>1. CASE ClickSubmit \/ ClickSettingsSubmit
      BY <2>2, <3>1 DEF ClickSubmit, ClickSettingsSubmit, Threads
    <3>2. CASE AnswerPrompt
      <4>1. CASE UNCHANGED job
        BY <4>1
      <4>2. CASE \E t \in Workers : Fresh(t) /\ Become(t, [NewJob("batch", None, {}) EXCEPT !.todo = prompt])
        <5> DEFINE j == [NewJob("batch", None, {}) EXCEPT !.todo = prompt]
        <5>1. j \in Job /\ j.at = "batch" /\ ~ j.cli
          BY <2>2 DEF Job, SlotsOK
        <5> HIDE DEF j
        <5> QED BY <4>2, <5>1 DEF Threads, j
      <4> QED BY <3>2, <4>1, <4>2 DEF AnswerPrompt
    <3>3. CASE StartCli
      <4> DEFINE S == {s \in PendingRows : rows[s].payload}
                 j == [NewJob("cli", None, {}) EXCEPT !.todo = S, !.cli = TRUE]
      <4>1. S \in SUBSET Scans
        BY DEF PendingRows, Recorded
      <4> HIDE DEF S
      <4>2. j \in Job /\ j.at = "cli" /\ j.cli
        BY <2>2, <4>1 DEF Job
      <4>3. \E t \in Workers : Become(t, j)
        BY <3>3 DEF StartCli, S
      <4> HIDE DEF j
      <4> QED BY <4>2, <4>3 DEF Threads
    <3> QED BY <1>6, <3>1, <3>2, <3>3
  <2>4. ASSUME NEW t \in Threads, NEW j \in Job, Become(t, j),
               j.at \in {"register", "take", "batch", "cli"}, j.cli => j.at = "cli", j.at = "cli" => j.cli
        PROVE  Serial'
    BY <2>1, <2>4, FirstMove DEF Become, DrainLabels, RetryLabels
  <2> QED BY <2>1, <2>3, <2>4, NoMove
<1> QED BY <1>1, <1>2, <1>3, <1>4, <1>5, <1>6 DEF EngineStep

\* A worker of the leading thread's kind goes on to another label.
LEMMA SerialTo ==
  ASSUME IInv, Serial, NEW t \in Threads, NEW at \in Labels, To(t, at), UNCHANGED <<engine, news, inFlight>>,
         Leads(t), at \notin {"idle", "batchWait"} \union DrainLabels,
         job[t].at \in MarkLabels => at \in MarkLabels,
         job[t].at \in PostLabels => at \in PostLabels \union MarkLabels,
         Retries(t) => at \in RetryLabels,
         at \in RetryLabels /\ ~ job[t].cli => Retries(t),
         job[t].cli => at \in RetryLabels \union {"cli"}, at = "cli" => job[t].cli
  PROVE  Serial'
<1> DEFINE j == [job[t] EXCEPT !.at = at]
<1>1. job[t] \in Job
  BY DEF IInv, JobsOK
<1>2. j \in Job /\ j.at = at /\ j.scan = job[t].scan /\ j.cli = job[t].cli
  BY <1>1 DEF Job
<1>3. job' = [job EXCEPT ![t] = j]
  BY DEF To
<1> HIDE DEF j
<1> QED BY <1>2, <1>3, LeadMoves DEF IInv, Retries

\* The submit worker (spawn_leaderboard_submit_worker), and the one of the settings.
LEMMA SerialSubmit ==
  ASSUME IInv, user.patient, Serial, NEW t \in Workers, SubmitStep(t) \/ SettingsTake(t) \/ SettingsPost(t)
  PROVE  Serial'
<1> USE DEF IInv
<1>0. t \in Threads /\ job[t] \in Job /\ (job[t].cli => job[t].at \in RetryLabels \union {"cli"})
  BY DEF Threads, JobsOK, Serial
<1>1. UNCHANGED <<engine, news, inFlight>>
  BY DEF SubmitStep, AutoRegister, PeekPending, PostScan, HandleAnswer, MarkLoad, MarkSave, Report,
         SettingsTake, SettingsPost, WorkerAt, window, resending
<1>2. CASE Done(t)
  BY <1>0, <1>1, <1>2, LastMove
<1>3. ASSUME NEW j \in Job, job' = [job EXCEPT ![t] = j], ~ j.cli,
             \/ At(t, "take") /\ j.at = "settingsPost"
             \/ job[t].at \in PostLabels /\ j.at \in PostLabels \union MarkLabels
             \/ job[t].at \in MarkLabels /\ j.at \in MarkLabels
      PROVE  Serial'
  BY <1>0, <1>1, <1>3, LeadMoves DEF At, Leads, Retries, PostLabels, MarkLabels, DrainLabels, RetryLabels
<1>4. \A at \in {"peek", "post", "answered", "mark", "markSave", "report", "settingsPost"} : at \in Labels
  BY DEF Labels, SendLabels
<1>5. CASE AutoRegister(t) /\ ~ Done(t)
  BY <1>0, <1>1, <1>4, <1>5, SerialTo
     DEF AutoRegister, WorkerAt, At, Leads, Retries, PostLabels, MarkLabels, DrainLabels, RetryLabels
<1>6. CASE PeekPending(t) /\ pending # None
  <2>1. NewJob("post", pending, {}) \in Job /\ NewJob("post", pending, {}).at = "post"
        /\ ~ NewJob("post", pending, {}).cli
    BY <1>4, <1>6, NewJobOK DEF SlotsOK, NewJob, Idle
  <2> QED BY <1>3, <1>6, <2>1 DEF PeekPending, WorkerAt, At, PostLabels, Become
<1>7. CASE PostScan(t)
  <2>1. job[t].scan \in Scans
    BY <1>0, <1>7 DEF PostScan, WorkerAt, At, JobsOK, Carries
  <2>2. PICK a \in Answers(job[t].scan) :
          job' = [job EXCEPT ![t].at = "answered", ![t].reply = a[1], ![t].scan = job[t].scan]
    BY <1>7 DEF PostScan, Post
  <2> DEFINE j == [job[t] EXCEPT !.at = "answered", !.reply = a[1]]
  <2>3. a[1] \in Replies
    BY <2>1, AnswersTrue DEF SlotsOK
  <2>4. j \in Job /\ j.at = "answered" /\ j.cli = job[t].cli
    BY <1>0, <1>4, <2>3 DEF Job
  <2>5. job' = [job EXCEPT ![t] = j]
    <3>1. job[t] = [job[t] EXCEPT !.scan = job[t].scan]
      BY <1>0 DEF Job
    <3>2. [job[t] EXCEPT !.at = "answered", !.reply = a[1], !.scan = job[t].scan] = j
      BY <1>0 DEF Job
    <3> QED BY <2>2, <3>2, <1>0 DEF JobsOK
  <2> HIDE DEF j
  <2> QED BY <1>0, <1>3, <1>7, <2>4, <2>5 DEF PostScan, WorkerAt, At, PostLabels, RetryLabels
<1>8. CASE HandleAnswer(t)
  <2> DEFINE next == [job[t] EXCEPT !.at = IF job[t].reply \in {"accepted", "duplicate", "noId"}
                                           THEN "mark" ELSE "report"]
  <2>1. next \in Job /\ next.at \in MarkLabels /\ next.cli = job[t].cli
    BY <1>0, <1>4 DEF Job, MarkLabels
  <2>2. At(t, "answered")
    BY <1>8 DEF HandleAnswer, WorkerAt
  <2>3. \/ Become(t, next)
        \/ \E d \in Workers \ {t} : At(d, "idle") /\ job' = [job EXCEPT ![t] = next, ![d] = NewJob("drainLoad", job[t].scan, {})]
    BY <1>8 DEF HandleAnswer, DrainInto, Fresh
  <2> HIDE DEF next
  <2>4. CASE Become(t, next)
    BY <1>0, <1>3, <2>1, <2>2, <2>4 DEF Become, At, PostLabels, RetryLabels
  <2>5. ASSUME NEW d \in Workers \ {t}, At(d, "idle"),
               job' = [job EXCEPT ![t] = next, ![d] = NewJob("drainLoad", job[t].scan, {})]
        PROVE  Serial'
    <3>1. \A u \in Threads : job'[u] = IF u = d THEN NewJob("drainLoad", job[t].scan, {})
                                       ELSE IF u = t THEN next ELSE job[u]
      BY <1>0, <2>5 DEF JobsOK, Threads
    <3>2. NewJob("drainLoad", job[t].scan, {}).at = "drainLoad" /\ ~ NewJob("drainLoad", job[t].scan, {}).cli
      BY DEF NewJob, Idle
    <3>3. ~ next.cli
      BY <1>0, <2>1, <2>2 DEF At, RetryLabels
    <3>4. Leads(t) /\ job[t].at \notin MarkLabels \union RetryLabels
      BY <2>2 DEF At, Leads, MarkLabels, DrainLabels, RetryLabels
    <3> QED BY <1>0, <1>1, <2>1, <2>2, <3>1, <3>2, <3>3, <3>4
            DEF Serial, Leads, Drains, Retries, At, PostLabels, MarkLabels, DrainLabels, RetryLabels
  <2> QED BY <2>3, <2>4, <2>5
<1>9. CASE MarkLoad(t)
  <2> DEFINE r == rows[job[t].scan]
             j == [job[t] EXCEPT !.row = r, !.at = IF r = None THEN "report" ELSE "markSave"]
  <2>1. r \in Row \union {None}
    BY <1>0, <1>9 DEF MarkLoad, WorkerAt, At, JobsOK, Carries, RowsOK
  <2>2. job' = [job EXCEPT ![t] = j]
    BY <1>9 DEF MarkLoad
  <2> HIDE DEF r
  <2>3. j \in Job /\ j.at \in MarkLabels /\ j.cli = job[t].cli
    BY <1>0, <1>4, <2>1 DEF Job, MarkLabels
  <2> HIDE DEF j
  <2> QED BY <1>0, <1>3, <1>9, <2>2, <2>3 DEF MarkLoad, WorkerAt, At, MarkLabels, RetryLabels
<1>10. CASE MarkSave(t)
  BY <1>0, <1>1, <1>4, <1>10, SerialTo
     DEF MarkSave, WorkerAt, At, Leads, Retries, PostLabels, MarkLabels, DrainLabels, RetryLabels
<1>11. CASE SettingsTake(t) /\ pending # None
  <2>1. NewJob("settingsPost", pending, {}) \in Job /\ NewJob("settingsPost", pending, {}).at = "settingsPost"
        /\ ~ NewJob("settingsPost", pending, {}).cli
    BY <1>4, <1>11, NewJobOK DEF SlotsOK, NewJob, Idle
  <2> QED BY <1>3, <1>11, <2>1 DEF SettingsTake, WorkerAt, At, Become
<1> QED BY <1>2, <1>5, <1>6, <1>7, <1>8, <1>9, <1>10, <1>11
        DEF SubmitStep, AutoRegister, PeekPending, SettingsTake, SettingsPost, Report

\* Crediting an action, and the queue (app.rs drain_events, action_submission.rs,
\* pending_actions.rs).
LEMMA SerialCredit ==
  ASSUME IInv, user.patient, Serial,
         \/ \E a \in Actions : UserActs(a)
         \/ CreditLoad \/ CreditSave \/ RouteToSubmission \/ RouteToPending
         \/ \E t \in Threads : AppendStep(t)
         \/ \E t \in Workers : CreditStep(t)
  PROVE  Serial'
<1> USE DEF IInv
<1>0. /\ \A t \in Threads : job[t] \in Job /\ (job[t].cli => job[t].at \in RetryLabels \union {"cli"})
      /\ Workers \subseteq Threads /\ Ui \in Threads
  BY DEF Threads, JobsOK, Serial
<1>1. UNCHANGED <<engine, news, inFlight>>
  BY DEF UserActs, CreditLoad, CreditSave, RouteToSubmission, RouteToPending, UiAt, AppendStep, AppendLoad,
         AppendTruncate, AppendWrite, CreditStep, AutoPost, DrainLoad, DrainRemove, Patch, WorkerAt,
         window, resending
<1>2. ASSUME NEW t \in Threads, Done(t) PROVE Serial'
  BY <1>1, <1>2, LastMove DEF IInv
<1> DEFINE Row1 == {"creditLoad", "creditSave", "route", "routePending", "appendLoad",
                    "appendTruncate", "appendWrite", "autoPost"}
<1>3. ASSUME NEW t \in Threads, NEW j \in Job, job' = [job EXCEPT ![t] = j], j.cli = job[t].cli,
             job[t].at \in Row1, j.at \in Row1
      PROVE  Serial'
  BY <1>0, <1>1, <1>3, LeadMoves DEF Leads, Retries, PostLabels, MarkLabels, DrainLabels, RetryLabels
<1>4. ASSUME NEW t \in Threads, NEW j \in Job, job' = [job EXCEPT ![t] = j], j.cli = job[t].cli,
             job[t].at \in {"drainLoad", "drainRemove", "patch", "autoPost"}, j.at \in DrainLabels
      PROVE  Serial'
  BY <1>0, <1>1, <1>4, DrainMoves DEF Drains, CreditLabels, DrainLabels, RetryLabels
<1>5. Row1 \subseteq Labels /\ DrainLabels \subseteq Labels
  BY DEF Labels, CreditLabels, SendLabels, DrainLabels
<1>6. ASSUME NEW t \in Threads, NEW at \in Row1 \union DrainLabels, To(t, at),
             \/ job[t].at \in Row1 /\ at \in Row1
             \/ job[t].at \in {"drainLoad", "drainRemove", "patch", "autoPost"} /\ at \in DrainLabels
      PROVE  Serial'
  <2> DEFINE j == [job[t] EXCEPT !.at = at]
  <2>1. j \in Job /\ j.at = at /\ j.cli = job[t].cli
    BY <1>0, <1>5 DEF Job
  <2>2. job' = [job EXCEPT ![t] = j]
    BY <1>6 DEF To
  <2> HIDE DEF j, Row1
  <2> QED BY <1>3, <1>4, <1>6, <2>1, <2>2
<1>7. ASSUME NEW a \in Actions, UserActs(a) PROVE Serial'
  <2>1. NewJob("creditLoad", None, {a}) \in Job /\ NewJob("creditLoad", None, {a}).at = "creditLoad"
        /\ ~ NewJob("creditLoad", None, {a}).cli
    BY <1>5, NewJobOK DEF NewJob, Idle
  <2>2. Quiet /\ job' = [job EXCEPT ![Ui] = NewJob("creditLoad", None, {a})]
    BY <1>7 DEF UserActs, MayAct, Become
  <2> QED BY <1>0, <1>1, <2>1, <2>2, FirstMove DEF DrainLabels, RetryLabels
<1>8. CASE CreditLoad
  <2>1. CASE Recorded = {}
    BY <1>0, <1>6, <1>8, <2>1 DEF CreditLoad, UiAt, At, To
  <2>2. CASE Recorded # {}
    <3> DEFINE s == Newest(Recorded)
               j == [job[Ui] EXCEPT !.at = "creditSave", !.scan = s, !.row = rows[s]]
    <3>1. s \in Scans /\ rows[s] \in Row
      BY <2>2, NewestIn DEF Recorded, RowsOK
    <3>2. job' = [job EXCEPT ![Ui] = j]
      BY <1>8, <2>2 DEF CreditLoad
    <3> HIDE DEF s
    <3>3. j \in Job /\ j.at = "creditSave" /\ j.cli = job[Ui].cli
      BY <1>0, <1>5, <3>1 DEF Job
    <3> HIDE DEF j
    <3> QED BY <1>0, <1>3, <1>8, <3>2, <3>3 DEF CreditLoad, UiAt, At
  <2> QED BY <2>1, <2>2
<1>9. CASE CreditSave \/ RouteToSubmission \/ RouteToPending
  <2>1. ASSUME NEW at \in {"patch", "autoPost"}, NEW s \in Scans, SendCredit(at, s, job[Ui].acts),
               job[Ui].at \in {"route", "routePending"}
        PROVE  Serial'
    <3> DEFINE k == NewJob(at, s, job[Ui].acts)
    <3>1. PICK t \in Workers : At(t, "idle") /\ job' = [job EXCEPT ![Ui] = Idle, ![t] = k]
      BY <2>1 DEF SendCredit, Fresh
    <3>2. k.at = at /\ ~ k.cli
      BY DEF NewJob, Idle
    <3>3. Idle.at = "idle" /\ ~ Idle.cli /\ t # Ui
      BY SubmissionsAssumption DEF Idle, SubmissionsAssumption
    <3> HIDE DEF k
    <3>4. \A u \in Threads : job'[u] = IF u = t THEN k ELSE IF u = Ui THEN Idle ELSE job[u]
      BY <1>0, <3>1 DEF JobsOK
    <3>5. /\ \A u \in Threads : u # Ui => At(u, "idle")
          /\ engine.at \notin {"running", "stashed", "finished"} /\ news = None
      <4>1. Leads(Ui) /\ job[Ui].at \notin MarkLabels \union PostLabels /\ ~ Retries(Ui)
        BY <2>1 DEF Leads, Retries, MarkLabels, DrainLabels, PostLabels, RetryLabels
      <4> QED BY <1>0, <4>1, OthersIdle
    <3>6. \A u \in Threads : u # Ui => ~ job[u].cli
      BY <1>0, <3>5 DEF At, RetryLabels
    <3>7. /\ \A u \in Threads : job'[u].at = IF u = t THEN at ELSE "idle"
          /\ \A u \in Threads : ~ job'[u].cli
      BY <3>2, <3>3, <3>4, <3>5, <3>6 DEF At
    <3>8. at \in {"patch", "autoPost"} /\ at \notin RetryLabels
      BY DEF RetryLabels
    <3> QED BY <1>1, <3>5, <3>7, <3>8
            DEF Serial, Leads, Drains, Retries, At, PostLabels, MarkLabels, DrainLabels, RetryLabels
  <2>2. \/ Done(Ui)
        \/ job[Ui].at \in Row1 /\ \E at \in Row1 : To(Ui, at)
        \/ /\ job[Ui].at \in {"route", "routePending"}
           /\ \/ subId \in Scans /\ SendCredit("patch", subId, job[Ui].acts)
              \/ pending \in Scans /\ SendCredit("autoPost", pending, job[Ui].acts)
    BY <1>9 DEF CreditSave, RouteToSubmission, RouteToPending, SlotsOK, UiAt, At
  <2> HIDE DEF Row1
  <2> QED BY <1>0, <1>2, <1>6, <2>1, <2>2
<1>10. ASSUME NEW t \in Threads, AppendStep(t) PROVE Serial'
  <2>1. CASE AppendLoad(t) /\ queue # Torn
    <3> DEFINE j == [job[t] EXCEPT !.at = "appendTruncate", !.found = queue]
    <3>1. job' = [job EXCEPT ![t] = j]
      BY <2>1 DEF AppendLoad
    <3>2. j \in Job /\ j.at = "appendTruncate" /\ j.cli = job[t].cli
      BY <1>0, <1>5, <2>1, ZenonT(60) DEF Job, SlotsOK
    <3> HIDE DEF j
    <3> QED BY <1>3, <2>1, <3>1, <3>2 DEF AppendLoad, At
  <2> QED BY <1>2, <1>6, <1>10, <2>1 DEF AppendStep, AppendLoad, AppendTruncate, AppendWrite, At
<1>11. ASSUME NEW t \in Workers, CreditStep(t) PROVE Serial'
  <2>1. CASE DrainLoad(t) /\ queue # Torn
    <3> DEFINE j == [job[t] EXCEPT !.at = "drainRemove", !.acts = queue]
    <3>1. job' = [job EXCEPT ![t] = j]
      BY <2>1 DEF DrainLoad
    <3>2. j \in Job /\ j.at = "drainRemove" /\ j.cli = job[t].cli
      BY <1>0, <1>5, <2>1, ZenonT(60) DEF Job, SlotsOK, DrainLabels
    <3> HIDE DEF j
    <3> QED BY <1>0, <1>4, <2>1, <3>1, <3>2 DEF DrainLoad, WorkerAt, At, DrainLabels
  <2>2. CASE Patch(t) /\ job' = [job EXCEPT ![t].tries = @ + 1] /\ job[t].tries + 1 < PatchAttempts
    <3> DEFINE j == [job[t] EXCEPT !.tries = @ + 1]
    <3>1. job[t].tries + 1 \in 0..(PatchAttempts - 1)
      BY <1>0, <2>2, SubmissionsAssumption DEF SubmissionsAssumption, Job
    <3>2. j \in Job /\ j.at = job[t].at /\ j.cli = job[t].cli
      BY <1>0, <3>1 DEF Job
    <3>3. job' = [job EXCEPT ![t] = j]
      BY <2>2
    <3>4. job[t].at = "patch"
      BY <2>2 DEF Patch, WorkerAt, At
    <3> HIDE DEF j
    <3> QED BY <1>0, <1>4, <3>2, <3>3, <3>4 DEF DrainLabels
  <2>3. CASE AutoPost(t)
    <3>1. To(t, "patch") \/ To(t, "appendLoad")
      BY <2>3 DEF AutoPost
    <3> QED BY <1>0, <1>6, <2>3, <3>1 DEF AutoPost, WorkerAt, At, DrainLabels
  <2>4. CASE DrainRemove(t) \/ (DrainLoad(t) /\ queue = Torn) \/ (Patch(t) /\ Done(t))
    BY <1>0, <1>2, <1>6, <2>4 DEF DrainRemove, DrainLoad, WorkerAt, At, DrainLabels
  <2> QED BY <1>11, <2>1, <2>2, <2>3, <2>4 DEF CreditStep, Patch
<1> QED BY <1>7, <1>8, <1>9, <1>10, <1>11

\* Submitting again (resubmit.rs), from one thread to another and back.
LEMMA SerialResubmit ==
  ASSUME IInv, user.patient, Serial,
         \/ \E s \in Scans : ClickResubmit(s)
         \/ \E t \in Threads : Claim(t)
         \/ \E t \in Workers : ResubmitStep(t)
  PROVE  Serial'
<1> USE DEF IInv
<1>0. /\ \A t \in Threads : job[t] \in Job /\ (job[t].cli => job[t].at \in RetryLabels \union {"cli"})
      /\ Workers \subseteq Threads /\ Ui \in Threads
  BY DEF Threads, JobsOK, Serial
<1>1. UNCHANGED <<engine, news>>
  BY DEF ClickResubmit, Claim, ResubmitStep, BatchNext, BatchWait, CliNext, Repost, Reanswered, UpdateLoad,
         UpdateSave, WorkerAt, window
<1>2. ASSUME NEW s \in Scans, ClickResubmit(s) PROVE Serial'
  <2>1. NewJob("claim", s, {}) \in Job /\ NewJob("claim", s, {}).at = "claim" /\ ~ NewJob("claim", s, {}).cli
    BY NewJobOK DEF Labels, ResubmitLabels, NewJob, Idle
  <2>2. Quiet /\ job' = [job EXCEPT ![Ui] = NewJob("claim", s, {})]
    BY <1>2 DEF ClickResubmit, MayAct, Become
  <2> DEFINE j == NewJob("claim", s, {})
  <2> HIDE DEF j
  <2> QED BY <1>0, <1>1, <2>1, <2>2, FirstMove DEF DrainLabels, RetryLabels, j
<1>3. ASSUME NEW t \in Threads, Claim(t) PROVE Serial'
  <2> DEFINE j == IF t = Ui THEN Idle ELSE [job[t] EXCEPT !.at = "batchWait"]
             k == NewJob("repost", job[t].scan, {})
  <2>1. PICK w \in Workers \ {t} : At(w, "idle") /\ job' = [job EXCEPT ![w] = k, ![t] = j]
    BY <1>3 DEF Claim, Fresh
  <2>2. k.at = "repost" /\ ~ k.cli /\ k.scan = job[t].scan
    BY DEF NewJob, Idle
  <2>3. /\ j.at \in {"idle", "batchWait"} /\ ~ j.cli
        /\ j.at = "batchWait" => j.scan = job[t].scan
    BY <1>0, <1>3 DEF Claim, At, Idle, Job, RetryLabels
  <2>4. inFlight' = job[t].scan /\ job[t].at \in {"claim", "batchClaim"}
    BY <1>3 DEF Claim, At
  <2> HIDE DEF j, k
  <2>5. \A u \in Threads : job'[u] = IF u = t THEN j ELSE IF u = w THEN k ELSE job[u]
    BY <1>0, <2>1 DEF JobsOK
  <2>6. w \in Threads /\ w # t
    BY <1>0
  <2>7. Leads(t) /\ job[t].at \notin MarkLabels \union PostLabels /\ ~ Retries(t)
    BY <2>4 DEF Leads, Retries, MarkLabels, DrainLabels, PostLabels, RetryLabels
  <2>8. /\ \A u \in Threads : u # t => At(u, "idle")
        /\ engine.at \notin {"running", "stashed", "finished"} /\ news = None
    BY <2>7, OthersIdle
  <2>9. \A u \in Threads : u # t => ~ job[u].cli
    BY <1>0, <2>8 DEF At, RetryLabels
  <2> QED BY <1>1, <2>2, <2>3, <2>4, <2>5, <2>6, <2>8, <2>9
          DEF Serial, Leads, Drains, Retries, At, PostLabels, MarkLabels, DrainLabels, RetryLabels
<1>4. ASSUME NEW t \in Workers, BatchNext(t) \/ CliNext(t) PROVE Serial'
  <2>0. UNCHANGED inFlight
    BY <1>4 DEF BatchNext, CliNext, resending
  <2>1. CASE job[t].todo = {}
    BY <1>0, <1>1, <1>4, <2>0, <2>1, LastMove DEF BatchNext, CliNext
  <2>2. CASE job[t].todo # {}
    <3> DEFINE s == Newest(job[t].todo)
               rest == job[t].todo \ {s}
               skip == [job[t] EXCEPT !.todo = rest]
               take == [job[t] EXCEPT !.at = "batchClaim", !.scan = s, !.todo = rest]
               send == [job[t] EXCEPT !.at = "repost", !.scan = s, !.todo = rest]
    <3>1. s \in Scans /\ rest \in SUBSET Scans
      BY <1>0, <2>2, NewestIn DEF Job
    <3>2. \/ At(t, "batch") /\ (Become(t, skip) \/ Become(t, take))
          \/ At(t, "cli") /\ Become(t, send)
      BY <1>0, <1>4, <2>2 DEF BatchNext, CliNext, WorkerAt, Job
    <3>3. {"batchClaim", "repost"} \subseteq Labels
      BY DEF Labels, ResubmitLabels
    <3> HIDE DEF s, rest
    <3>4. /\ skip \in Job /\ skip.at = job[t].at /\ skip.cli = job[t].cli
          /\ take \in Job /\ take.at = "batchClaim" /\ take.cli = job[t].cli
          /\ send \in Job /\ send.at = "repost" /\ send.cli = job[t].cli
      BY <1>0, <3>1, <3>3, ZenonT(60) DEF Job
    <3>5. ASSUME NEW j \in Job, Become(t, j), j.cli = job[t].cli,
                 \/ At(t, "batch") /\ j.at \in {"batch", "batchClaim"}
                 \/ At(t, "cli") /\ j.at = "repost" /\ job[t].cli
          PROVE  Serial'
      BY <1>0, <1>1, <2>0, <3>5, LeadMoves
         DEF Become, At, Leads, Retries, PostLabels, MarkLabels, DrainLabels, RetryLabels
    <3>6. At(t, "cli") => job[t].cli
      BY <1>0 DEF Serial
    <3> HIDE DEF skip, take, send
    <3> QED BY <1>0, <3>2, <3>4, <3>5, <3>6 DEF At
  <2> QED BY <2>1, <2>2
<1>5. ASSUME NEW t \in Workers, BatchWait(t) PROVE Serial'
  <2> DEFINE j == [job[t] EXCEPT !.at = "batch"]
  <2>1. At(t, "batchWait") /\ inFlight # job[t].scan /\ UNCHANGED inFlight /\ job' = [job EXCEPT ![t] = j]
    BY <1>5 DEF BatchWait, WorkerAt, To, resending
  <2>2. j.at = "batch" /\ j.cli = job[t].cli
    BY <1>0 DEF Job
  <2>3. \A u \in Threads : ~ Leads(u) /\ ~ Drains(u) /\ (u # t => At(u, "idle"))
    BY <1>0, <2>1 DEF Serial, Leads, Drains, At
  <2>4. engine.at \notin {"running", "stashed", "finished"} /\ news = None
    BY <1>0, <2>1 DEF Serial, At, PostLabels, MarkLabels, DrainLabels
  <2>5. ~ job[t].cli
    BY <1>0, <2>1 DEF At, RetryLabels
  <2> HIDE DEF j
  <2>6. \A u \in Threads : job'[u] = IF u = t THEN j ELSE job[u]
    BY <2>1 DEF JobsOK
  <2> QED BY <1>0, <1>1, <2>2, <2>3, <2>4, <2>5, <2>6
          DEF Serial, Leads, Drains, Retries, At, MarkLabels, PostLabels, DrainLabels, RetryLabels
<1>6. ASSUME NEW t \in Workers, NEW j \in Job, job' = [job EXCEPT ![t] = j], UNCHANGED inFlight,
             job[t].at \in RetryLabels, j.cli = job[t].cli,
             (j.at \in RetryLabels /\ j.scan = job[t].scan) \/ (j.at = "cli" /\ j.cli)
      PROVE  Serial'
  BY <1>0, <1>1, <1>6, LeadMoves DEF Leads, Retries, PostLabels, MarkLabels, DrainLabels, RetryLabels
<1>7. {"reanswered", "update", "updateSave", "cli"} \subseteq Labels
  BY DEF Labels, ResubmitLabels
<1>8. ASSUME NEW t \in Workers, Repost(t) PROVE Serial'
  <2>1. job[t].scan \in Scans /\ At(t, "repost") /\ UNCHANGED inFlight
    BY <1>0, <1>8 DEF Repost, WorkerAt, At, JobsOK, Carries, resending
  <2>2. PICK a \in Answers(job[t].scan) :
          job' = [job EXCEPT ![t].at = "reanswered", ![t].reply = a[1], ![t].scan = job[t].scan]
    BY <1>8 DEF Repost, Post
  <2> DEFINE j == [job[t] EXCEPT !.at = "reanswered", !.reply = a[1]]
  <2>3. a[1] \in Replies
    BY <2>1, AnswersTrue DEF SlotsOK
  <2>4. j \in Job /\ j.at = "reanswered" /\ j.cli = job[t].cli /\ j.scan = job[t].scan
    BY <1>0, <1>7, <2>3, ZenonT(60) DEF Job
  <2>5. job' = [job EXCEPT ![t] = j]
    <3>1. [job[t] EXCEPT !.at = "reanswered", !.reply = a[1], !.scan = job[t].scan] = j
      BY <1>0 DEF Job
    <3> QED BY <2>2, <3>1, <1>0 DEF JobsOK
  <2> HIDE DEF j
  <2> QED BY <1>6, <2>1, <2>4, <2>5 DEF At, RetryLabels
<1>9. ASSUME NEW t \in Workers, Reanswered(t) PROVE Serial'
  <2> DEFINE st == StateAfter(job[t].reply, rows[job[t].scan])
             j == [job[t] EXCEPT !.at = "update", !.state = st]
  <2>1. At(t, "reanswered") /\ UNCHANGED inFlight /\ job' = [job EXCEPT ![t] = j]
    BY <1>9 DEF Reanswered, WorkerAt, resending
  <2>2. st \in States
    BY DEF StateAfter, TransientOutcomeState, States
  <2> HIDE DEF st
  <2>3. j \in Job /\ j.at = "update" /\ j.cli = job[t].cli /\ j.scan = job[t].scan
    BY <1>0, <1>7, <2>2, ZenonT(60) DEF Job
  <2> HIDE DEF j
  <2> QED BY <1>6, <2>1, <2>3 DEF At, RetryLabels
<1>10. ASSUME NEW t \in Workers, job[t].at \in RetryLabels, AfterRow(t) PROVE Serial'
  <2>1. CASE job[t].cli
    <3> DEFINE j == [job[t] EXCEPT !.at = "cli"]
    <3>1. j \in Job /\ j.at = "cli" /\ j.cli
      BY <1>0, <1>7, <2>1 DEF Job
    <3>2. job' = [job EXCEPT ![t] = j] /\ UNCHANGED inFlight
      BY <1>10, <2>1 DEF AfterRow, To
    <3> HIDE DEF j
    <3> QED BY <1>6, <1>10, <2>1, <3>1, <3>2
  <2>2. CASE ~ job[t].cli
    BY <1>0, <1>1, <1>10, <2>2, LastMove DEF AfterRow, Retries
  <2> QED BY <2>1, <2>2
<1>11. ASSUME NEW t \in Workers, UpdateLoad(t) PROVE Serial'
  <2>1. CASE rows[job[t].scan] = None
    BY <1>10, <1>11, <2>1 DEF UpdateLoad, WorkerAt, At, RetryLabels
  <2>2. CASE rows[job[t].scan] # None
    <3> DEFINE r == rows[job[t].scan]
               j == [job[t] EXCEPT !.row = r, !.at = "updateSave"]
    <3>1. r \in Row
      BY <1>0, <1>11, <2>2 DEF UpdateLoad, WorkerAt, At, JobsOK, Carries, RowsOK
    <3>2. job' = [job EXCEPT ![t] = j] /\ UNCHANGED inFlight /\ job[t].at \in RetryLabels
      BY <1>11, <2>2 DEF UpdateLoad, WorkerAt, At, RetryLabels
    <3> HIDE DEF r
    <3>3. j \in Job /\ j.at = "updateSave" /\ j.cli = job[t].cli /\ j.scan = job[t].scan
      BY <1>0, <1>7, <3>1, ZenonT(60) DEF Job
    <3> HIDE DEF j
    <3> QED BY <1>6, <3>2, <3>3 DEF RetryLabels
  <2> QED BY <2>1, <2>2
<1>12. ASSUME NEW t \in Workers, UpdateSave(t) PROVE Serial'
  BY <1>10, <1>12 DEF UpdateSave, WorkerAt, At, RetryLabels
<1> QED BY <1>2, <1>3, <1>4, <1>5, <1>8, <1>9, <1>11, <1>12 DEF ResubmitStep

\* The process is killed: of its threads none is left, the command line's goes on.
LEMMA SerialKill ==
  ASSUME IInv, Serial, Kill
  PROVE  Serial'
<1>1. \A t \in Threads : job'[t] = IF job[t].cli THEN job[t] ELSE Idle
  BY DEF Kill
<1>2. engine'.at = "idle" /\ news' = None
  BY DEF Kill, IInv, SlotsOK
<1>3. Idle.at = "idle" /\ ~ Idle.cli
  BY DEF Idle
<1>4. \A t \in Threads : job'[t].cli => job'[t] = job[t] /\ job[t].at \in RetryLabels \union {"cli"}
  BY <1>1, <1>3 DEF Serial
<1>5. \A t \in Threads : ~ job'[t].cli => job'[t].at = "idle"
  BY <1>1, <1>3
<1> QED BY <1>2, <1>4, <1>5 DEF Serial, Leads, Drains, Retries, At, DrainLabels, RetryLabels

LEMMA NextSerial ==
  ASSUME IInv, user.patient, Serial, [Next]_vars
  PROVE  Serial'
<1>1. CASE EngineStep \/ UserStep
  BY <1>1, SerialWindow, SerialCredit, SerialResubmit DEF UserStep
<1>2. CASE WindowStep
  BY <1>2, SerialWindow, SerialCredit, SerialResubmit DEF WindowStep, Threads
<1>3. ASSUME NEW t \in Workers, WorkerStep(t) PROVE Serial'
  BY <1>3, SerialSubmit, SerialCredit, SerialResubmit DEF WorkerStep, Threads
<1>4. CASE Kill
  BY <1>4, SerialKill
<1>5. CASE UNCHANGED vars
  BY <1>5, NoMove DEF vars, window, resending
<1> QED BY <1>1, <1>2, <1>3, <1>4, <1>5 DEF Next

\* One who never sends again starts no thread that does.
LEMMA NextUnsent ==
  ASSUME IInv, ~ Sends, Unsent, [Next]_vars
  PROVE  Unsent'
<1> USE DEF IInv
<1> DEFINE Quit == RetryLabels \union BatchLabels
<1>0. /\ \A t \in Threads : job[t] \in Job /\ job[t].at \notin Quit
      /\ job \in [Threads -> Job]
      /\ Workers \subseteq Threads /\ Ui \in Threads
  BY DEF Threads, JobsOK, Unsent
<1>1. ASSUME NEW t \in Threads, Done(t) PROVE Unsent'
  BY <1>0, <1>1 DEF Done, Become, Idle, Unsent, RetryLabels, BatchLabels
<1>2. ASSUME NEW t \in Threads, NEW j, j.at \notin Quit, Become(t, j) PROVE Unsent'
  BY <1>0, <1>2 DEF Become, Unsent
<1>3. ASSUME NEW t \in Threads, NEW at, at \notin Quit, To(t, at) PROVE Unsent'
  BY <1>0, <1>3 DEF To, Unsent, Job
<1>4. ASSUME NEW t \in Threads, NEW j, j.at \notin Quit, NEW u \in Threads, NEW k, k.at \notin Quit,
             job' = [job EXCEPT ![t] = j, ![u] = k]
      PROVE  Unsent'
  BY <1>0, <1>4 DEF Unsent
<1>5. \A at \in Labels \ Quit : \A s, acts : NewJob(at, s, acts).at \notin Quit
  BY DEF NewJob, Idle
<1>6. {"register", "peek", "post", "answered", "mark", "markSave", "report", "take", "settingsPost",
       "creditLoad", "creditSave", "route", "routePending", "appendLoad", "appendTruncate",
       "appendWrite", "autoPost", "drainLoad", "drainRemove", "patch", "idle"} \subseteq Labels \ Quit
  BY DEF Labels, SendLabels, CreditLabels, RetryLabels, BatchLabels
<1>7. CASE UNCHANGED job
  BY <1>7 DEF Unsent
<1>8. "resubmit" \notin user.does /\ "cli" \notin user.does
  BY DEF Sends
<1>9. ASSUME (\E s \in Scans : ClickResubmit(s)) \/ StartCli \/ (\E t \in Threads : Claim(t))
             \/ (\E t \in Workers : ResubmitStep(t))
      PROVE  FALSE
  BY <1>0, <1>8, <1>9 DEF ClickResubmit, StartCli, Claim, ResubmitStep, BatchNext, BatchWait, CliNext,
     Repost, Reanswered, UpdateLoad, UpdateSave, WorkerAt, At, RetryLabels, BatchLabels
<1> HIDE DEF Quit
<1>10. CASE \/ StartScan \/ EngineStep \/ ShowOutcome \/ ClickSkip \/ TurnModal \/ FlagForReview
            \/ AnswerPrompt \/ (\E s \in Scans : DeleteRow(s)) \/ UNCHANGED vars
  BY <1>7, <1>8, <1>10 DEF StartScan, EngineStep, StashInputs, SendScanFinished, RecordCompleted, ShowOutcome,
     ClickSkip, TurnModal, FlagForReview, AnswerPrompt, DeleteRow, vars
<1>11. CASE OnScanFinished \/ ClickSubmit \/ ClickSettingsSubmit \/ (\E a \in Actions : UserActs(a))
  BY <1>0, <1>2, <1>5, <1>6, <1>7, <1>11 DEF OnScanFinished, ClickSubmit, ClickSettingsSubmit, UserActs
<1>12. CASE CreditSave \/ RouteToSubmission \/ RouteToPending \/ CreditLoad
  <2>1. CASE CreditLoad
    <3>1. job'[Ui].at \in {"route", "creditSave"} /\ \A u \in Threads : u # Ui => job'[u] = job[u]
      BY <1>0, <2>1 DEF CreditLoad, Job
    <3> QED BY <1>0, <1>6, <3>1 DEF Unsent, Quit
  <2>2. CASE \E at \in {"patch", "autoPost"} : \E s, acts : SendCredit(at, s, acts)
    <3>0. PICK at \in {"patch", "autoPost"} : \E s, acts : SendCredit(at, s, acts)
      BY <2>2
    <3>1. PICK s, acts : SendCredit(at, s, acts)
      BY <3>0
    <3>2. PICK t \in Workers : job' = [job EXCEPT ![Ui] = Idle, ![t] = NewJob(at, s, acts)]
      BY <3>1 DEF SendCredit
    <3>3. Idle.at = "idle"
      BY DEF Idle
    <3> QED BY <1>0, <1>4, <1>5, <1>6, <3>2, <3>3
  <2>3. \/ CreditLoad \/ Done(Ui) \/ \E at \in {"route", "routePending", "appendLoad"} : To(Ui, at)
        \/ \E at \in {"patch", "autoPost"} : \E s, acts : SendCredit(at, s, acts)
    BY <1>12 DEF CreditSave, RouteToSubmission, RouteToPending
  <2> QED BY <1>0, <1>1, <1>3, <1>6, <2>1, <2>2, <2>3
<1>13. ASSUME NEW t \in Threads, AppendStep(t) PROVE Unsent'
  <2>1. job'[t].at \in {"idle", "appendTruncate", "appendWrite"} /\ \A u \in Threads : u # t => job'[u] = job[u]
    BY <1>0, <1>13 DEF AppendStep, AppendLoad, AppendTruncate, AppendWrite, Done, Become, To, Idle, Job
  <2> QED BY <1>0, <1>6, <2>1 DEF Unsent, Quit
<1>14. ASSUME NEW t \in Workers, CreditStep(t) PROVE Unsent'
  <2>1. CASE AutoPost(t)
    <3>1. To(t, "patch") \/ To(t, "appendLoad")
      BY <2>1 DEF AutoPost
    <3> QED BY <1>0, <1>3, <1>6, <3>1
  <2>2. CASE Patch(t)
    <3>1. Done(t) \/ job' = [job EXCEPT ![t].tries = @ + 1]
      BY <2>2 DEF Patch
    <3>2. CASE job' = [job EXCEPT ![t].tries = @ + 1]
      <4>1. job'[t].at = job[t].at /\ \A u \in Threads : u # t => job'[u] = job[u]
        BY <1>0, <3>2 DEF Job
      <4> QED BY <1>0, <4>1 DEF Unsent, Quit
    <3> QED BY <1>0, <1>1, <3>1, <3>2
  <2>3. CASE DrainLoad(t) \/ DrainRemove(t)
    <3>1. job'[t].at \in {"idle", "drainRemove", "patch"} /\ \A u \in Threads : u # t => job'[u] = job[u]
      BY <1>0, <2>3 DEF DrainLoad, DrainRemove, Done, Become, To, Idle, Job
    <3> QED BY <1>0, <1>6, <3>1 DEF Unsent, Quit
  <2> QED BY <1>14, <2>1, <2>2, <2>3 DEF CreditStep
<1>15. ASSUME NEW t \in Workers, SubmitStep(t) \/ SettingsTake(t) \/ SettingsPost(t) PROVE Unsent'
  <2>1. CASE PostScan(t)
    <3>1. job'[t].at = "answered" /\ \A u \in Threads : u # t => job'[u] = job[u]
      BY <1>0, <2>1 DEF PostScan, Post, Job
    <3> QED BY <1>0, <1>6, <3>1 DEF Unsent, Quit
  <2>2. CASE HandleAnswer(t)
    <3> DEFINE next == [job[t] EXCEPT !.at = IF job[t].reply \in {"accepted", "duplicate", "noId"}
                                             THEN "mark" ELSE "report"]
    <3>1. next.at \in {"mark", "report"}
      BY <1>0 DEF Job
    <3>2. \/ Become(t, next)
          \/ \E d \in Workers : job' = [job EXCEPT ![t] = next, ![d] = NewJob("drainLoad", job[t].scan, {})]
      BY <2>2 DEF HandleAnswer, DrainInto
    <3> HIDE DEF next
    <3> QED BY <1>0, <1>2, <1>4, <1>5, <1>6, <3>1, <3>2
  <2>3. CASE MarkLoad(t)
    <3>1. job'[t].at \in {"report", "markSave"} /\ \A u \in Threads : u # t => job'[u] = job[u]
      BY <1>0, <2>3 DEF MarkLoad, Job
    <3> QED BY <1>0, <1>6, <3>1 DEF Unsent, Quit
  <2>4. CASE \/ AutoRegister(t) \/ PeekPending(t) \/ MarkSave(t) \/ Report(t)
             \/ SettingsTake(t) \/ SettingsPost(t)
    BY <1>0, <1>1, <1>2, <1>3, <1>5, <1>6, <2>4
       DEF AutoRegister, PeekPending, MarkSave, Report, SettingsTake, SettingsPost
  <2> QED BY <1>15, <2>1, <2>2, <2>3, <2>4 DEF SubmitStep
<1>16. CASE Kill
  <2>1. \A t \in Threads : job'[t] = job[t] \/ job'[t] = Idle
    BY <1>16 DEF Kill
  <2>2. Idle.at = "idle"
    BY DEF Idle
  <2> QED BY <1>0, <1>6, <2>1, <2>2 DEF Unsent, Quit
<1> QED BY <1>0, <1>9, <1>10, <1>11, <1>12, <1>13, <1>14, <1>15, <1>16
        DEF Next, WindowStep, WorkerStep, UserStep

LEMMA InitAlone == Init => Alone
BY DEF Init, Alone, Serial, Unsent, Sends, Idle, Leads, Drains, Retries, At, PostLabels, MarkLabels, DrainLabels,
       RetryLabels, BatchLabels

LEMMA NextAlone == IInv /\ Alone /\ [Next]_vars => Alone'
BY NextSerial, NextUnsent, SameUser DEF Alone, Sends

-----------------------------------------------------------------------------
(* The steps that carry no credit leave the credits alone.                  *)

HoldLabels == CreditLabels \union {"autoPost"}
LoadLabels == {"markSave", "update", "updateSave"}

\* A thread that holds no credit goes on, or starts to drain the queue.
Plain(j, k) ==
  /\ j.at \notin HoldLabels /\ k.at \notin HoldLabels \ {"drainLoad"}
  /\ k.acts \subseteq j.acts /\ k.found \subseteq j.found

PlainStep ==
  \/ StartScan \/ EngineStep \/ OnScanFinished \/ ShowOutcome \/ ClickSubmit \/ ClickSkip \/ TurnModal
  \/ FlagForReview \/ ClickSettingsSubmit \/ AnswerPrompt \/ StartCli
  \/ (\E s \in Scans : DeleteRow(s) \/ ClickResubmit(s))
  \/ (\E t \in Threads : Claim(t))
  \/ (\E t \in Workers : SubmitStep(t) \/ SettingsTake(t) \/ SettingsPost(t) \/ ResubmitStep(t))
  \/ UNCHANGED vars

HoldStep ==
  \/ CreditLoad \/ CreditSave \/ RouteToSubmission \/ RouteToPending
  \/ (\E a \in Actions : UserActs(a))
  \/ (\E t \in Workers : CreditStep(t)) \/ (\E t \in Threads : AppendStep(t))

LEMMA StepKinds == [Next]_vars => PlainStep \/ HoldStep \/ Kill
BY DEF Next, WindowStep, WorkerStep, UserStep, PlainStep, HoldStep, Threads

LEMMA PlainMoves ==
  ASSUME IInv, PlainStep
  PROVE  /\ UNCHANGED <<queue, credit, landed, firedOn>>
         /\ \A t \in Threads :
              \/ job'[t] = job[t]
              \/ /\ Plain(job[t], job'[t])
                 /\ job'[t].at \in LoadLabels => MarkLoad(t) \/ ResubmitStep(t)
<1> USE DEF IInv
<1> DEFINE Moved(t) == \/ job'[t] = job[t]
                       \/ /\ Plain(job[t], job'[t])
                          /\ job'[t].at \in LoadLabels => MarkLoad(t) \/ ResubmitStep(t)
<1>0. /\ \A t \in Threads : job[t] \in Job
      /\ job \in [Threads -> Job]
      /\ Workers \subseteq Threads /\ Ui \in Threads
  BY DEF Threads, JobsOK
<1>1. UNCHANGED <<queue, credit, landed, firedOn>>
  <2>1. CASE \/ StartScan \/ EngineStep \/ OnScanFinished \/ ShowOutcome \/ ClickSubmit \/ ClickSkip \/ TurnModal
             \/ FlagForReview \/ ClickSettingsSubmit \/ AnswerPrompt \/ StartCli
             \/ (\E s \in Scans : DeleteRow(s) \/ ClickResubmit(s)) \/ (\E t \in Threads : Claim(t))
             \/ UNCHANGED vars
    BY <2>1 DEF StartScan, EngineStep, StashInputs, SendScanFinished, RecordCompleted, OnScanFinished,
       ShowOutcome, ClickSubmit, ClickSkip, TurnModal, FlagForReview, ClickSettingsSubmit, AnswerPrompt,
       StartCli, DeleteRow, ClickResubmit, Claim, server, history, vars
  <2>2. ASSUME NEW t \in Workers, SubmitStep(t) \/ SettingsTake(t) \/ SettingsPost(t)
        PROVE  UNCHANGED <<queue, credit, landed, firedOn>>
    BY <2>2 DEF SubmitStep, AutoRegister, PeekPending, PostScan, HandleAnswer, MarkLoad, MarkSave, Report,
       SettingsTake, SettingsPost, WorkerAt, server
  <2>3. ASSUME NEW t \in Workers, ResubmitStep(t)
        PROVE  UNCHANGED <<queue, credit, landed, firedOn>>
    BY <2>3 DEF ResubmitStep, BatchNext, BatchWait, CliNext, Repost, Reanswered, UpdateLoad, UpdateSave,
       WorkerAt, server
  <2> QED BY <2>1, <2>2, <2>3 DEF PlainStep
<1> SUFFICES \A u \in Threads : Moved(u)
  BY <1>1
<1>2. /\ Idle.at = "idle" /\ Idle.acts = {} /\ Idle.found = {}
      /\ \A at \in Labels : \A s : /\ NewJob(at, s, {}).at = at
                                   /\ NewJob(at, s, {}).acts = {} /\ NewJob(at, s, {}).found = {}
  BY DEF NewJob, Idle
<1>3. \A at \in {"idle", "register", "peek", "post", "answered", "mark", "report", "take", "settingsPost",
                 "claim", "repost", "reanswered", "batch", "batchClaim", "batchWait", "cli", "drainLoad"} :
        at \in Labels /\ at \notin HoldLabels \ {"drainLoad"} /\ at \notin LoadLabels
  BY DEF Labels, SendLabels, ResubmitLabels, HoldLabels, CreditLabels, LoadLabels
<1>4. ASSUME NEW t \in Threads, NEW j, job[t].at \notin HoldLabels, job' = [job EXCEPT ![t] = j],
             j.at \notin HoldLabels \ {"drainLoad"}, j.acts \subseteq job[t].acts, j.found \subseteq job[t].found,
             j.at \in LoadLabels => MarkLoad(t) \/ ResubmitStep(t)
      PROVE  \A u \in Threads : Moved(u)
  BY <1>0, <1>4 DEF Plain
<1> HIDE DEF Moved
<1>5. ASSUME NEW t \in Threads, job[t].at \notin HoldLabels, Done(t) PROVE \A u \in Threads : Moved(u)
  BY <1>2, <1>3, <1>4, <1>5, ZenonT(60) DEF Done, Become
<1>6. ASSUME NEW t \in Threads, job[t].at \notin HoldLabels, NEW j, j.acts = {}, j.found = {},
             j.at \in {"register", "post", "take", "settingsPost", "claim", "batch", "cli"},
             Become(t, j)
      PROVE  \A u \in Threads : Moved(u)
  BY <1>3, <1>4, <1>6 DEF Become
<1>7. ASSUME NEW t \in Threads, job[t].at \notin HoldLabels, NEW at, To(t, at),
             at \in {"peek", "report", "batch", "cli"}
      PROVE  \A u \in Threads : Moved(u)
  <2> DEFINE j == [job[t] EXCEPT !.at = at]
  <2>1. j.at = at /\ j.acts = job[t].acts /\ j.found = job[t].found
    BY <1>0 DEF Job
  <2>2. job' = [job EXCEPT ![t] = j]
    BY <1>7 DEF To
  <2> HIDE DEF j
  <2> QED BY <1>3, <1>4, <1>7, <2>1, <2>2
<1>8. \A t \in Threads : At(t, "idle") => job[t].at \notin HoldLabels
  BY <1>3 DEF At
<1>9. CASE UNCHANGED job
  BY <1>9 DEF Moved
<1>10. CASE \/ StartScan \/ EngineStep \/ ShowOutcome \/ ClickSkip \/ TurnModal
            \/ FlagForReview \/ (\E s \in Scans : DeleteRow(s)) \/ UNCHANGED vars
  BY <1>9, <1>10 DEF StartScan, EngineStep, StashInputs, SendScanFinished, RecordCompleted,
     ShowOutcome, ClickSkip, TurnModal, FlagForReview, DeleteRow, vars
<1>11. CASE OnScanFinished \/ ClickSubmit \/ ClickSettingsSubmit \/ (\E s \in Scans : ClickResubmit(s))
  <2>1. \/ UNCHANGED job
        \/ \E t \in Threads : \E at \in {"register", "take", "claim"} : \E s :
             At(t, "idle") /\ Become(t, NewJob(at, s, {}))
    BY <1>0, <1>11 DEF OnScanFinished, ClickSubmit, ClickSettingsSubmit, ClickResubmit, Fresh, MayAct
  <2> QED BY <1>2, <1>3, <1>6, <1>8, <1>9, <2>1
<1>12. CASE AnswerPrompt
  <2>1. CASE \E t \in Workers : Fresh(t) /\ Become(t, [NewJob("batch", None, {}) EXCEPT !.todo = prompt])
    <3> DEFINE j == [NewJob("batch", None, {}) EXCEPT !.todo = prompt]
    <3>1. j.at = "batch" /\ j.acts = {} /\ j.found = {}
      BY DEF NewJob, Idle
    <3> HIDE DEF j
    <3> QED BY <1>0, <1>6, <1>8, <2>1, <3>1 DEF Fresh, j
  <2> QED BY <1>9, <1>12, <2>1 DEF AnswerPrompt
<1>13. CASE StartCli
  <2> DEFINE S == {s \in PendingRows : rows[s].payload}
             j == [NewJob("cli", None, {}) EXCEPT !.todo = S, !.cli = TRUE]
  <2>1. j.at = "cli" /\ j.acts = {} /\ j.found = {}
    BY DEF NewJob, Idle
  <2>2. \E t \in Workers : Fresh(t) /\ Become(t, j)
    BY <1>13 DEF StartCli
  <2> HIDE DEF j
  <2> QED BY <1>0, <1>6, <1>8, <2>1, <2>2 DEF Fresh
<1>14. ASSUME NEW t \in Threads, Claim(t) PROVE \A u \in Threads : Moved(u)
  <2>1. PICK w \in Workers \ {t} :
          /\ Fresh(w)
          /\ job' = [job EXCEPT ![w] = NewJob("repost", job[t].scan, {}),
                               ![t] = IF t = Ui THEN Idle ELSE [@ EXCEPT !.at = "batchWait"]]
    BY <1>14 DEF Claim
  <2>2. job[t].at \in {"claim", "batchClaim"}
    BY <1>14 DEF Claim, At
  <2> DEFINE j == IF t = Ui THEN Idle ELSE [job[t] EXCEPT !.at = "batchWait"]
             k == NewJob("repost", job[t].scan, {})
  <2>3. j.at \in {"idle", "batchWait"} /\ j.acts \subseteq job[t].acts /\ j.found \subseteq job[t].found
    BY <1>0, <1>2 DEF Job
  <2>4. k.at = "repost" /\ k.acts = {} /\ k.found = {}
    BY <1>2, <1>3
  <2>5. \A u \in Threads : job'[u] = IF u = t THEN j ELSE IF u = w THEN k ELSE job[u]
    BY <1>0, <2>1
  <2> HIDE DEF j, k
  <2>6. At(w, "idle") /\ w \in Threads
    BY <1>0, <2>1 DEF Fresh
  <2> QED BY <1>3, <1>8, <2>2, <2>3, <2>4, <2>5, <2>6 DEF Plain, Moved
<1>15. ASSUME NEW t \in Workers, SubmitStep(t) \/ SettingsTake(t) \/ SettingsPost(t)
       PROVE  \A u \in Threads : Moved(u)
  <2>0. job[t].at \notin HoldLabels
    BY <1>3, <1>15 DEF SubmitStep, AutoRegister, PeekPending, PostScan, HandleAnswer, MarkLoad, MarkSave, Report,
       SettingsTake, SettingsPost, WorkerAt, At, HoldLabels, CreditLabels
  <2>1. CASE PostScan(t)
    <3>1. /\ job'[t].at = "answered" /\ job'[t].acts = job[t].acts /\ job'[t].found = job[t].found
          /\ \A u \in Threads : u # t => job'[u] = job[u]
      BY <1>0, <2>1 DEF PostScan, Post, Job
    <3> QED BY <1>0, <1>3, <2>0, <3>1 DEF Plain, Moved
  <2>2. CASE HandleAnswer(t)
    <3> DEFINE next == [job[t] EXCEPT !.at = IF job[t].reply \in {"accepted", "duplicate", "noId"}
                                             THEN "mark" ELSE "report"]
    <3>1. next.at \in {"mark", "report"} /\ next.acts = job[t].acts /\ next.found = job[t].found
      BY <1>0 DEF Job
    <3>2. \/ Become(t, next)
          \/ \E d \in Workers \ {t} :
               Fresh(d) /\ job' = [job EXCEPT ![t] = next, ![d] = NewJob("drainLoad", job[t].scan, {})]
      BY <2>2 DEF HandleAnswer, DrainInto
    <3> HIDE DEF next
    <3>3. CASE Become(t, next)
      BY <1>0, <1>3, <1>4, <2>0, <3>1, <3>3 DEF Become
    <3>4. ASSUME NEW d \in Workers \ {t}, Fresh(d),
                 job' = [job EXCEPT ![t] = next, ![d] = NewJob("drainLoad", job[t].scan, {})]
          PROVE  \A u \in Threads : Moved(u)
      <4> DEFINE k == NewJob("drainLoad", job[t].scan, {})
      <4>1. k.at = "drainLoad" /\ k.acts = {} /\ k.found = {}
        BY <1>2, <1>3
      <4>2. \A u \in Threads : job'[u] = IF u = t THEN next ELSE IF u = d THEN k ELSE job[u]
        BY <1>0, <3>4
      <4> HIDE DEF k
      <4>3. At(d, "idle")
        BY <3>4 DEF Fresh
      <4> QED BY <1>0, <1>3, <1>8, <2>0, <3>1, <4>1, <4>2, <4>3 DEF Plain, Moved
    <3> QED BY <3>2, <3>3, <3>4
  <2>3. CASE MarkLoad(t)
    <3>1. /\ job'[t].at \in {"report", "markSave"} /\ job'[t].acts = job[t].acts /\ job'[t].found = job[t].found
          /\ \A u \in Threads : u # t => job'[u] = job[u]
      BY <1>0, <2>3 DEF MarkLoad, Job
    <3> QED BY <1>0, <1>3, <2>0, <2>3, <3>1 DEF Plain, Moved, HoldLabels, CreditLabels
  <2>4. CASE AutoRegister(t) \/ MarkSave(t) \/ Report(t) \/ SettingsPost(t)
    BY <1>0, <1>5, <1>7, <2>0, <2>4 DEF AutoRegister, MarkSave, Report, SettingsPost
  <2>5. CASE PeekPending(t) \/ SettingsTake(t)
    BY <1>0, <1>2, <1>3, <1>5, <1>6, <2>0, <2>5 DEF PeekPending, SettingsTake
  <2> QED BY <1>15, <2>1, <2>2, <2>3, <2>4, <2>5 DEF SubmitStep
<1>16. ASSUME NEW t \in Workers, ResubmitStep(t) PROVE \A u \in Threads : Moved(u)
  <2>1. job[t].at \in ResubmitLabels /\ \A at \in ResubmitLabels : at \notin HoldLabels
    BY <1>16 DEF ResubmitStep, BatchNext, BatchWait, CliNext, Repost, Reanswered, UpdateLoad, UpdateSave,
       WorkerAt, At, ResubmitLabels, HoldLabels, CreditLabels
  <2>2. /\ \A u \in Threads : u # t => job'[u] = job[u]
        /\ job'[t] = Idle \/ /\ job'[t].at \in ResubmitLabels
                             /\ job'[t].acts = job[t].acts /\ job'[t].found = job[t].found
    <3>1. CASE BatchNext(t) \/ CliNext(t)
      <4> DEFINE s == Newest(job[t].todo)
                 rest == job[t].todo \ {s}
                 Next1(at) == [job[t] EXCEPT !.at = at, !.scan = s, !.todo = rest]
      <4>1. CASE Become(t, [job[t] EXCEPT !.todo = rest])
        <5> HIDE DEF rest
        <5> QED BY <1>0, <2>1, <4>1 DEF Become, Job
      <4>2. ASSUME NEW at \in {"batchClaim", "repost"}, Become(t, Next1(at))
            PROVE  /\ \A u \in Threads : u # t => job'[u] = job[u]
                   /\ /\ job'[t].at \in ResubmitLabels
                      /\ job'[t].acts = job[t].acts /\ job'[t].found = job[t].found
        <5> HIDE DEF rest, s
        <5> QED BY <1>0, <4>2 DEF Become, Job, ResubmitLabels
      <4>3. CASE job[t].todo = {}
        BY <1>0, <3>1, <4>3 DEF BatchNext, CliNext, Done, Become
      <4>4. CASE job[t].todo # {}
        <5>1. \/ Become(t, [job[t] EXCEPT !.todo = rest])
              \/ Become(t, Next1("batchClaim")) \/ Become(t, Next1("repost"))
          BY <1>0, <3>1, <4>4 DEF BatchNext, CliNext, Job
        <5> HIDE DEF Next1
        <5> QED BY <4>1, <4>2, <5>1
      <4> QED BY <4>3, <4>4
    <3>2. CASE BatchWait(t) \/ Reanswered(t)
      BY <1>0, <3>2 DEF BatchWait, Reanswered, To, Job, ResubmitLabels
    <3>3. CASE Repost(t)
      BY <1>0, <3>3 DEF Repost, Post, Job, ResubmitLabels
    <3>4. CASE UpdateLoad(t) \/ UpdateSave(t)
      BY <1>0, <3>4 DEF UpdateLoad, UpdateSave, AfterRow, Done, Become, To, Job, ResubmitLabels
    <3> QED BY <1>16, <3>1, <3>2, <3>3, <3>4 DEF ResubmitStep
  <2> QED BY <1>0, <1>2, <1>3, <1>16, <2>1, <2>2 DEF Plain, Moved
<1> QED BY <1>10, <1>11, <1>12, <1>13, <1>14, <1>15, <1>16 DEF PlainStep

\* The steps that carry credits load no row but the one a credit is added to.
LEMMA HoldMoves ==
  ASSUME IInv, HoldStep
  PROVE  \A t \in Threads :
           \/ job'[t] = job[t]
           \/ job'[t].at \notin LoadLabels \union {"creditSave"}
           \/ t = Ui /\ CreditLoad
<1> USE DEF IInv
<1> DEFINE Quit == LoadLabels \union {"creditSave"}
           Moved(t) == job'[t] = job[t] \/ job'[t].at \notin Quit \/ (t = Ui /\ CreditLoad)
<1>0. /\ \A t \in Threads : job[t] \in Job
      /\ job \in [Threads -> Job]
      /\ Workers \subseteq Threads /\ Ui \in Threads
  BY DEF Threads, JobsOK
<1>1. /\ Idle.at = "idle"
      /\ \A at \in Labels : \A s, acts : NewJob(at, s, acts).at = at
  BY DEF NewJob, Idle
<1>2. \A at \in {"idle", "creditLoad", "route", "routePending", "appendLoad", "appendTruncate", "appendWrite",
                 "autoPost", "drainLoad", "drainRemove", "patch"} : at \in Labels /\ at \notin Quit
  BY DEF Labels, SendLabels, CreditLabels, LoadLabels
<1> HIDE DEF Quit
<1>3. ASSUME NEW t \in Threads, \A u \in Threads : u # t => job'[u] = job[u], job'[t].at \notin Quit
      PROVE  \A u \in Threads : Moved(u)
  BY <1>3
<1>4. CASE CreditLoad
  <2>1. \A u \in Threads : u # Ui => job'[u] = job[u]
    BY <1>0, <1>4 DEF CreditLoad
  <2> QED BY <1>4, <2>1 DEF Quit
<1>5. CASE CreditSave \/ \E a \in Actions : UserActs(a)
  <2>1. job'[Ui].at \in {"route", "creditLoad"} /\ \A u \in Threads : u # Ui => job'[u] = job[u]
    <3>1. CASE CreditSave
      BY <1>0, <3>1 DEF CreditSave, To, Job
    <3>2. ASSUME NEW a \in Actions, UserActs(a)
          PROVE  job'[Ui].at = "creditLoad" /\ \A u \in Threads : u # Ui => job'[u] = job[u]
      <4>1. job' = [job EXCEPT ![Ui] = NewJob("creditLoad", None, {a})]
        BY <3>2 DEF UserActs, Become
      <4>2. NewJob("creditLoad", None, {a}).at = "creditLoad"
        BY DEF NewJob, Idle
      <4> QED BY <1>0, <4>1, <4>2
    <3> QED BY <1>5, <3>1, <3>2
  <2> QED BY <1>0, <1>2, <1>3, <2>1 DEF Quit
<1>6. CASE RouteToSubmission \/ RouteToPending
  <2>1. ASSUME NEW at \in {"patch", "autoPost"}, NEW s, NEW acts, SendCredit(at, s, acts)
        PROVE  \A u \in Threads : Moved(u)
    <3>1. PICK t \in Workers : job' = [job EXCEPT ![Ui] = Idle, ![t] = NewJob(at, s, acts)]
      BY <2>1 DEF SendCredit
    <3> DEFINE k == NewJob(at, s, acts)
    <3>2. k.at = at
      BY <1>1, <1>2
    <3>3. \A u \in Threads : job'[u] = IF u = t THEN k ELSE IF u = Ui THEN Idle ELSE job[u]
      BY <1>0, <3>1
    <3> HIDE DEF k
    <3> QED BY <1>1, <1>2, <3>2, <3>3 DEF Quit
  <2>2. CASE Done(Ui) \/ To(Ui, "routePending") \/ To(Ui, "appendLoad")
    <3>1. job'[Ui].at \in {"idle", "routePending", "appendLoad"} /\ \A u \in Threads : u # Ui => job'[u] = job[u]
      BY <1>0, <1>1, <2>2 DEF To, Done, Become, Job
    <3> QED BY <1>0, <1>2, <1>3, <3>1 DEF Quit
  <2> QED BY <1>6, <2>1, <2>2 DEF RouteToSubmission, RouteToPending, Quit
<1>7. ASSUME NEW t \in Threads, AppendStep(t) PROVE \A u \in Threads : Moved(u)
  <2>1. job'[t].at \in {"idle", "appendTruncate", "appendWrite"} /\ \A u \in Threads : u # t => job'[u] = job[u]
    BY <1>0, <1>1, <1>7 DEF AppendStep, AppendLoad, AppendTruncate, AppendWrite, Done, Become, To, Job
  <2> QED BY <1>2, <1>3, <2>1
<1>8. ASSUME NEW t \in Workers, CreditStep(t) PROVE \A u \in Threads : Moved(u)
  <2>1. CASE AutoPost(t) \/ DrainLoad(t) \/ DrainRemove(t)
    <3>1. /\ job'[t].at \in {"idle", "patch", "appendLoad", "drainRemove"}
          /\ \A u \in Threads : u # t => job'[u] = job[u]
      <4>1. AutoPost(t) => To(t, "patch") \/ To(t, "appendLoad")
        BY DEF AutoPost
      <4>2. DrainRemove(t) => To(t, "patch") \/ Done(t)
        BY DEF DrainRemove
      <4> QED BY <1>0, <1>1, <2>1, <4>1, <4>2 DEF DrainLoad, Done, Become, To, Job
    <3> QED BY <1>0, <1>2, <1>3, <3>1
  <2>2. CASE Patch(t)
    <3>1. Done(t) \/ job' = [job EXCEPT ![t].tries = @ + 1]
      BY <2>2 DEF Patch
    <3>2. job'[t].at \in {"idle", "patch"} /\ \A u \in Threads : u # t => job'[u] = job[u]
      BY <1>0, <1>1, <2>2, <3>1 DEF Patch, WorkerAt, At, Done, Become, Job
    <3> QED BY <1>0, <1>2, <1>3, <3>2
  <2> QED BY <1>8, <2>1, <2>2 DEF CreditStep
<1> QED BY <1>4, <1>5, <1>6, <1>7, <1>8 DEF HoldStep, Quit

\* Five steps save a row.
SavesRow ==
  \/ RecordCompleted \/ (\E s \in Scans : DeleteRow(s)) \/ CreditSave
  \/ (\E t \in Workers : MarkSave(t) \/ UpdateSave(t))

LEMMA RowsMove == [Next]_vars => UNCHANGED rows \/ SavesRow
BY ZenonT(60) DEF Next, vars, EngineStep, WindowStep, WorkerStep, UserStep,
   StashInputs, SendScanFinished, OnScanFinished, ShowOutcome, CreditLoad,
   RouteToSubmission, RouteToPending, AppendStep, Claim, SubmitStep, SettingsTake,
   SettingsPost, CreditStep, ResubmitStep, StartScan, ClickSubmit, ClickSkip, TurnModal,
   FlagForReview, ClickSettingsSubmit, UserActs, ClickResubmit, AnswerPrompt, StartCli,
   Kill, AutoRegister, PeekPending, PostScan, HandleAnswer, MarkLoad,
   Report, AppendLoad, AppendTruncate, AppendWrite, AutoPost, DrainLoad, DrainRemove, Patch,
   BatchNext, BatchWait, CliNext, Repost, Reanswered, UpdateLoad, SavesRow

\* What a step of a resubmit does to its own job.
LEMMA ResubmitLoads ==
  ASSUME IInv, NEW t \in Workers, ResubmitStep(t)
  PROVE  /\ job'[t].at # "markSave"
         /\ job'[t].at = "update" => Reanswered(t)
         /\ job'[t].at = "updateSave" => UpdateLoad(t)
<1> USE DEF IInv
<1>0. t \in Threads /\ job \in [Threads -> Job] /\ job[t] \in Job /\ Idle.at = "idle"
  BY DEF Threads, JobsOK, Idle
<1>1. CASE BatchNext(t) \/ CliNext(t)
  <2>1. CASE job[t].todo = {}
    BY <1>0, <1>1, <2>1 DEF BatchNext, CliNext, Done, Become
  <2>2. CASE job[t].todo # {}
    <3> DEFINE s == Newest(job[t].todo)
               rest == job[t].todo \ {s}
               take(at) == [job[t] EXCEPT !.at = at, !.scan = s, !.todo = rest]
    <3>1. /\ job[t].at \in {"batch", "cli"}
          /\ \/ Become(t, [job[t] EXCEPT !.todo = rest])
             \/ Become(t, take("batchClaim")) \/ Become(t, take("repost"))
      BY <1>0, <1>1, <2>2 DEF BatchNext, CliNext, WorkerAt, At, Job
    <3> HIDE DEF s, rest
    <3>2. job'[t].at \in {"batch", "cli", "batchClaim", "repost"}
      <4>1. CASE Become(t, [job[t] EXCEPT !.todo = rest])
        BY <1>0, <3>1, <4>1 DEF Become, Job
      <4>2. CASE Become(t, take("batchClaim")) \/ Become(t, take("repost"))
        BY <1>0, <4>2, ZenonT(60) DEF Become, Job
      <4> QED BY <3>1, <4>1, <4>2
    <3> QED BY <3>2
  <2> QED BY <2>1, <2>2
<1>2. CASE BatchWait(t) \/ Reanswered(t)
  BY <1>0, <1>2 DEF BatchWait, Reanswered, To, Job
<1>3. CASE Repost(t)
  BY <1>0, <1>3 DEF Repost, Post, Job
<1>4. CASE UpdateLoad(t) \/ UpdateSave(t)
  BY <1>0, <1>4 DEF UpdateLoad, UpdateSave, AfterRow, Done, Become, To, Job
<1> QED BY <1>1, <1>2, <1>3, <1>4 DEF ResubmitStep

-----------------------------------------------------------------------------
(* The attempts of a row stay below the cap.  Two resubmits of one row that  *)
(* interleave may pass it: the state of one is chosen by the attempts before *)
(* the other has saved.  So the user is patient, or never sends again.       *)

Capped(r) == r.state = "pending" => r.attempts < MaxAttempts

Cap ==
  \A t \in Threads :
    /\ At(t, "creditSave") => Capped(job[t].row)
    /\ At(t, "update") /\ job[t].state = "pending" /\ rows[job[t].scan] # None =>
         rows[job[t].scan].attempts + 1 < MaxAttempts
    /\ At(t, "updateSave") /\ job[t].state = "pending" => job[t].row.attempts + 1 < MaxAttempts

CapInv == user.patient \/ ~ Sends => Cap /\ PendingBelowCap

\* A row of which the state and the attempts fit is saved.
LEMMA CappedSave ==
  ASSUME RowsOK, PendingBelowCap, NEW s, NEW r, Save(s, r), r # None => Capped(r)
  PROVE  PendingBelowCap'
BY DEF RowsOK, PendingBelowCap, PendingRows, Recorded, Save, Capped

\* While a row is saved no other thread is about to choose by its attempts.
LEMMA NoneUpdates ==
  ASSUME IInv, Alone, user.patient \/ ~ Sends, SavesRow, NEW u \in Threads
  PROVE  ~ At(u, "update")
<1> USE DEF IInv
<1>0. Ui \in Threads /\ Workers \subseteq Threads
  BY DEF Threads
<1>1. CASE Unsent
  BY <1>1 DEF Unsent, At, RetryLabels
<1>2. CASE Serial /\ user.patient
  <2> SUFFICES ASSUME At(u, "update") PROVE FALSE
    OBVIOUS
  <2>1. Leads(u)
    BY DEF At, Leads, DrainLabels
  <2>2. ~ RecordCompleted
    BY <1>2 DEF RecordCompleted, Serial, At, PostLabels, MarkLabels, DrainLabels
  <2>3. ASSUME NEW s \in Scans, DeleteRow(s) PROVE FALSE
    BY <1>2, <2>3 DEF DeleteRow, MayAct, Quiet, At
  <2>4. CreditSave => Leads(Ui) /\ job[Ui].at = "creditSave"
    BY DEF CreditSave, UiAt, At, Leads, DrainLabels
  <2>5. \A t \in Workers : MarkSave(t) \/ UpdateSave(t) => Leads(t) /\ job[t].at \in {"markSave", "updateSave"}
    BY DEF MarkSave, UpdateSave, WorkerAt, At, Leads, DrainLabels
  <2>6. \A t \in Threads : Leads(t) => t = u
    BY <1>2, <2>1 DEF Serial
  <2> QED BY <1>0, <2>2, <2>3, <2>4, <2>5, <2>6 DEF SavesRow, At
<1> QED BY <1>1, <1>2 DEF Alone

LEMMA InitCap == Init => CapInv
BY DEF Init, CapInv, Cap, PendingBelowCap, PendingRows, Recorded, At, Idle

LEMMA NextCap ==
  ASSUME IInv, Alone, CapInv, [Next]_vars
  PROVE  CapInv'
<1> USE DEF IInv
<1> SUFFICES ASSUME user.patient \/ ~ Sends PROVE Cap' /\ PendingBelowCap'
  BY SameUser DEF CapInv, Sends
<1>1. Cap /\ PendingBelowCap
  BY DEF CapInv
<1>2. Ui \in Threads /\ Workers \subseteq Threads /\ job \in [Threads -> Job] /\ \A t \in Threads : Carries(job[t], received)
  BY DEF Threads, JobsOK
<1>3. PendingBelowCap'
  <2>1. CASE UNCHANGED rows
    BY <1>1, <2>1 DEF PendingBelowCap, PendingRows, Recorded
  <2>2. CASE RecordCompleted
    <3>1. Capped(NewFinished(registered))
      BY HistoryAssumption DEF HistoryAssumption, Capped, NewFinished
    <3> QED BY <1>1, <2>2, <3>1, CappedSave DEF RecordCompleted
  <2>3. ASSUME NEW s \in Scans, DeleteRow(s) PROVE PendingBelowCap'
    BY <1>1, <2>3, CappedSave DEF DeleteRow
  <2>4. CASE CreditSave
    <3>1. job[Ui].row \in Row /\ Capped(job[Ui].row)
      BY <1>1, <1>2, <2>4 DEF CreditSave, UiAt, At, Cap, Carries
    <3>2. Capped(Accumulated(job[Ui].row, job[Ui].acts))
      BY <3>1 DEF Capped, Accumulated, Row
    <3> QED BY <1>1, <2>4, <3>2, CappedSave DEF CreditSave
  <2>5. ASSUME NEW t \in Workers, MarkSave(t) PROVE PendingBelowCap'
    <3>1. job[t].row \in Row
      BY <1>2, <2>5 DEF MarkSave, WorkerAt, At, Carries
    <3>2. Capped(MarkedSubmitted(job[t].row))
      BY <3>1 DEF Capped, MarkedSubmitted, Row
    <3> QED BY <1>1, <2>5, <3>2, CappedSave DEF MarkSave
  <2>6. ASSUME NEW t \in Workers, UpdateSave(t) PROVE PendingBelowCap'
    <3>1. job[t].row \in Row /\ (job[t].state = "pending" => job[t].row.attempts + 1 < MaxAttempts)
      BY <1>1, <1>2, <2>6 DEF UpdateSave, WorkerAt, At, Carries, Cap
    <3>2. Capped(MarkedSubmitted(job[t].row)) /\ Capped(Attempted(job[t].row, job[t].state))
      BY <3>1 DEF Capped, MarkedSubmitted, Attempted, Row
    <3> QED BY <1>1, <2>6, <3>2, CappedSave DEF UpdateSave
  <2> QED BY <2>1, <2>2, <2>3, <2>4, <2>5, <2>6, RowsMove DEF SavesRow
<1>4. ASSUME NEW t \in Threads, job'[t] = job[t]
      PROVE  /\ At(t, "creditSave")' => Capped(job[t].row)'
             /\ At(t, "update")' /\ job'[t].state = "pending" /\ rows'[job'[t].scan] # None =>
                  rows'[job'[t].scan].attempts + 1 < MaxAttempts
             /\ At(t, "updateSave")' /\ job'[t].state = "pending" => job'[t].row.attempts + 1 < MaxAttempts
  <2>1. At(t, "update") => UNCHANGED rows
    BY RowsMove, NoneUpdates
  <2> QED BY <1>1, <1>4, <2>1 DEF Cap, At, Capped
<1>5. ASSUME NEW t \in Workers, Reanswered(t), job'[t].state = "pending", rows'[job'[t].scan] # None
      PROVE  rows'[job'[t].scan].attempts + 1 < MaxAttempts
  <2> DEFINE s == job[t].scan
  <2>1. /\ job'[t].state = StateAfter(job[t].reply, rows[s]) /\ job'[t].scan = s
        /\ UNCHANGED rows
    BY <1>2, <1>5 DEF Reanswered, Job
  <2>2. TransientOutcomeState(rows[s].attempts) = "pending"
    BY <1>5, <2>1 DEF StateAfter
  <2>3. rows[s].attempts \in Nat
    BY <1>2, <1>5, <2>1 DEF Reanswered, WorkerAt, At, Carries, RowsOK, Row
  <2> QED BY <2>1, <2>2, <2>3, HistoryAssumption DEF TransientOutcomeState, HistoryAssumption
<1>6. ASSUME NEW t \in Workers, UpdateLoad(t), job'[t].at = "updateSave", job'[t].state = "pending"
      PROVE  job'[t].row.attempts + 1 < MaxAttempts
  <2>1. rows[job[t].scan] # None
    BY <1>2, <1>6 DEF UpdateLoad, AfterRow, To, Done, Become, Idle, Job
  <2>2. job'[t].row = rows[job[t].scan] /\ job'[t].state = job[t].state /\ At(t, "update")
    BY <1>2, <1>6, <2>1 DEF UpdateLoad, WorkerAt, Job
  <2> QED BY <1>1, <1>2, <1>6, <2>1, <2>2 DEF Cap
<1>7. CASE PlainStep
  <2>1. ASSUME NEW t \in Threads, job'[t].at \in LoadLabels, MarkLoad(t) \/ ResubmitStep(t)
        PROVE  t \in Workers /\ (job'[t].at # "markSave" => ResubmitStep(t))
    <3>1. t \in Workers
      BY <2>1 DEF MarkLoad, ResubmitStep, BatchNext, BatchWait, CliNext, Repost, Reanswered, UpdateLoad, UpdateSave, WorkerAt
    <3>2. MarkLoad(t) => job'[t].at \in {"markSave", "report"}
      BY <1>2 DEF MarkLoad, Job
    <3> QED BY <2>1, <3>1, <3>2 DEF LoadLabels
  <2>2. ASSUME NEW t \in Threads, job'[t] # job[t]
        PROVE  /\ job'[t].at # "creditSave"
               /\ job'[t].at = "update" => t \in Workers /\ Reanswered(t)
               /\ job'[t].at = "updateSave" => t \in Workers /\ UpdateLoad(t)
    BY <1>7, <2>1, <2>2, PlainMoves, ResubmitLoads DEF LoadLabels, Plain, HoldLabels, CreditLabels
  <2> QED BY <1>3, <1>4, <1>5, <1>6, <2>2 DEF Cap, At
<1>8. CASE HoldStep
  <2>1. ASSUME CreditLoad, job'[Ui].at = "creditSave" PROVE Capped(job'[Ui].row)
    <3>1. Recorded # {} /\ Recorded \subseteq Scans
      BY <1>2, <2>1 DEF CreditLoad, Job, Recorded
    <3>2. job'[Ui].row = rows[Newest(Recorded)]
      BY <1>2, <2>1, <3>1 DEF CreditLoad, Job
    <3>3. Newest(Recorded) \in Recorded
      BY <3>1, NewestIn
    <3> QED BY <1>1, <3>2, <3>3 DEF PendingBelowCap, PendingRows, Capped
  <2>2. ASSUME CreditLoad PROVE job'[Ui].at \in {"route", "creditSave"}
    BY <1>2, <2>2 DEF CreditLoad, Job
  <2>3. ASSUME NEW t \in Threads, job'[t] # job[t]
        PROVE  /\ job'[t].at = "creditSave" => Capped(job'[t].row)
               /\ job'[t].at # "update" /\ job'[t].at # "updateSave"
    BY <1>8, <2>1, <2>2, <2>3, HoldMoves DEF LoadLabels
  <2> QED BY <1>3, <1>4, <2>3 DEF Cap, At, Capped
<1>9. CASE Kill
  <2>1. \A t \in Threads : job'[t] = job[t] \/ job'[t].at = "idle"
    BY <1>9 DEF Kill, Idle
  <2> QED BY <1>3, <1>4, <2>1 DEF Cap, At, Capped
<1> QED BY <1>7, <1>8, <1>9, StepKinds

\* A row that waits for another attempt has had fewer than MAX_RESUBMIT_ATTEMPTS, if the
\* user waits for one thing to end before the next, or never sends again from the
\* history (scan_history.rs transient_outcome_state).
THEOREM AttemptsBelowCap == Spec => [](user.patient \/ ~ Sends => PendingBelowCap)
<1>1. Init => IInv /\ Alone /\ CapInv
  BY InitInv, InitAlone, InitCap
<1>2. IInv /\ Alone /\ CapInv /\ [Next]_vars => (IInv /\ Alone /\ CapInv)'
  BY NextInv, NextAlone, NextCap
<1>3. CapInv => (user.patient \/ ~ Sends => PendingBelowCap)
  BY DEF CapInv
<1> QED BY <1>1, <1>2, <1>3, PTL DEF Spec

-----------------------------------------------------------------------------
(* No credit is counted under two submissions, and none is lost but where    *)
(* GivenUp says.  What a thread has read of the queue is all that is in it;  *)
(* what the server has under a submission is held by no thread but the one   *)
(* that still sends it there.  Two threads that change the queue at once may *)
(* lose a credit or send it twice: so the user is patient.                   *)

Held(t) == job[t].acts \union job[t].found
Fired   == {a \in Actions : firedOn[a] # None}

OnlyFired ==
  /\ firedOn \in [Actions -> Scans \union {None}]
  /\ credit \in [Scans -> SUBSET Actions]
  /\ Queued \union landed \subseteq Fired
  /\ \A s \in Scans : credit[s] \subseteq landed
  /\ \A t \in Threads : Held(t) \subseteq Fired

QueueOK ==
  \A t \in Threads :
    /\ At(t, "appendTruncate") => queue = job[t].found
    /\ At(t, "appendWrite") => queue \in {{}, Torn}
    /\ At(t, "drainRemove") => queue = job[t].acts
    /\ job[t].at \notin HoldLabels \/ At(t, "drainLoad") => job[t].acts = {}
    /\ job[t].at \notin {"appendTruncate", "appendWrite"} => job[t].found = {}
    /\ ~ At(t, "drainRemove") => job[t].acts \intersect Queued = {}

Once ==
  \A s \in Scans : \A a \in credit[s] :
    /\ a \notin Queued
    /\ \A t \in Threads : a \in Held(t) => At(t, "patch") /\ job[t].scan = s
    /\ \A u \in Scans : a \in credit[u] => u = s

Credits == OnlyFired /\ QueueOK /\ Once

\* What a step may do to the credits.
Loses == \A a \in Kept \ Kept' : GivenUp(a)

LEMMA WhereKept ==
  ASSUME NEW a
  PROVE  /\ a \in Kept <=> \/ a \in Queued \/ \E s \in Scans : a \in credit[s]
                           \/ \E t \in Threads : a \in Held(t)
         /\ a \in Kept' <=> \/ a \in Queued' \/ \E s \in Scans : a \in credit'[s]
                            \/ \E t \in Threads : a \in Held(t)'
<1>1. \A t \in Threads : Held(t) = job[t].acts \union job[t].found
  BY DEF Held
<1>2. \A t \in Threads : Held(t)' = job'[t].acts \union job'[t].found
  BY DEF Held
<1>3. a \in InHand <=> \E t \in Threads : a \in Held(t)
  BY <1>1 DEF InHand
<1>4. a \in InHand' <=> \E t \in Threads : a \in Held(t)'
  BY <1>2 DEF InHand
<1>5. a \in UNION {credit[s] : s \in Scans} <=> \E s \in Scans : a \in credit[s]
  OBVIOUS
<1>6. a \in UNION {credit'[s] : s \in Scans} <=> \E s \in Scans : a \in credit'[s]
  OBVIOUS
<1> QED BY <1>3, <1>4, <1>5, <1>6 DEF Kept

LEMMA IdleHolds == Idle.at = "idle" /\ Idle.acts = {} /\ Idle.found = {}
BY DEF Idle

\* Threads that hold nothing go on.
LEMMA CreditFrame ==
  ASSUME JobsOK, Credits, UNCHANGED <<queue, credit, landed, firedOn>>,
         \A t \in Threads : job'[t] = job[t] \/ Plain(job[t], job'[t])
  PROVE  Credits' /\ Loses
<1>1. \A t \in Threads : job'[t] # job[t] =>
        /\ job[t].acts = {} /\ job[t].found = {} /\ job'[t].acts = {} /\ job'[t].found = {}
        /\ job'[t].at \notin HoldLabels \ {"drainLoad"}
  BY DEF Credits, QueueOK, Plain, HoldLabels, CreditLabels
<1>2. Queued' = Queued /\ Fired' = Fired /\ \A t \in Threads : Held(t)' = Held(t)
  BY <1>1 DEF Queued, Fired, Held
<1>3. OnlyFired'
  BY <1>2 DEF Credits, OnlyFired
<1>4. QueueOK'
  BY <1>1, <1>2 DEF Credits, QueueOK, At, HoldLabels, CreditLabels
<1>5. Once'
  BY <1>1, <1>2 DEF Credits, Once, At, Held
<1>6. Loses
  BY <1>2, WhereKept DEF Loses
<1> QED BY <1>3, <1>4, <1>5, <1>6 DEF Credits

\* The labels of a thread with a credit that has touched neither queue nor server.
FirstLabels == {"creditLoad", "creditSave", "route", "routePending", "appendLoad", "autoPost"}

\* A thread passes the credit it holds on: to its next label, or to another thread.
LEMMA CreditPasses ==
  ASSUME JobsOK, Credits, UNCHANGED <<queue, credit, landed, firedOn>>,
         NEW t \in Threads, job[t].at \in FirstLabels,
         NEW w \in Threads, w # t => At(w, "idle"),
         job'[w].acts = job[t].acts, job'[w].found = {}, job'[w].at \in FirstLabels \union {"patch"},
         w # t => job'[t] = Idle,
         \A u \in Threads : u \notin {t, w} => job'[u] = job[u]
  PROVE  Credits' /\ Loses
<1>1. job[t].found = {} /\ (w # t => job[w].acts = {} /\ job[w].found = {})
  BY DEF Credits, QueueOK, FirstLabels, At, HoldLabels, CreditLabels
<1>2. Queued' = Queued /\ Fired' = Fired
  BY DEF Queued, Fired
<1>3. Held(w)' = Held(t) /\ (w # t => Held(t)' = {} /\ Held(w) = {})
      /\ \A u \in Threads : u \notin {t, w} => Held(u)' = Held(u)
  BY <1>1, IdleHolds DEF Held
<1>4. OnlyFired'
  BY <1>2, <1>3 DEF Credits, OnlyFired
<1>5. Loses
  BY <1>2, <1>3, WhereKept DEF Loses
<1>6. QueueOK'
  <2> SUFFICES ASSUME NEW u \in Threads
      PROVE  /\ At(u, "appendTruncate")' => queue' = job'[u].found
             /\ At(u, "appendWrite")' => queue' \in {{}, Torn}
             /\ At(u, "drainRemove")' => queue' = job'[u].acts
             /\ job'[u].at \notin HoldLabels \/ At(u, "drainLoad")' => job'[u].acts = {}
             /\ job'[u].at \notin {"appendTruncate", "appendWrite"} => job'[u].found = {}
             /\ ~ At(u, "drainRemove")' => job'[u].acts \intersect Queued' = {}
    BY DEF QueueOK
  <2>1. CASE u \notin {t, w}
    BY <1>2, <2>1 DEF Credits, QueueOK, At
  <2>2. CASE u = w
    <3>1. job[t].acts \intersect Queued = {}
      BY DEF Credits, QueueOK, FirstLabels, At
    <3> QED BY <1>2, <2>2, <3>1 DEF At, FirstLabels, HoldLabels, CreditLabels
  <2>3. CASE u = t /\ u # w
    BY <2>3, IdleHolds DEF At
  <2> QED BY <2>1, <2>2, <2>3
<1>7. Once'
  <2>1. \A s \in Scans : \A a \in credit[s] : a \notin Held(t)
    BY DEF Credits, Once, At, FirstLabels
  <2>2. \A u \in Threads : \A a \in Held(u)' : a \in Held(t) \/ (u \notin {t, w} /\ a \in Held(u))
    BY <1>3
  <2>3. \A u \in Threads : u \notin {t, w} => (At(u, "patch")' <=> At(u, "patch")) /\ job'[u].scan = job[u].scan
    BY DEF At
  <2> QED BY <1>2, <2>1, <2>2, <2>3 DEF Credits, Once
<1> QED BY <1>4, <1>5, <1>6, <1>7 DEF Credits

\* A thread gives up on what it holds.
LEMMA CreditDropped ==
  ASSUME JobsOK, Credits, UNCHANGED <<queue, credit, landed, firedOn>>,
         NEW t \in Threads, job[t].at \in FirstLabels \union {"patch"},
         \A a \in job[t].acts : GivenUp(a), Done(t)
  PROVE  Credits' /\ Loses
<1>1. job[t].found = {}
  BY DEF Credits, QueueOK, FirstLabels
<1>2. \A u \in Threads : job'[u] = IF u = t THEN Idle ELSE job[u]
  BY DEF JobsOK, Done, Become
<1>3. Queued' = Queued /\ Fired' = Fired /\ Held(t) = job[t].acts
      /\ \A u \in Threads : Held(u)' = IF u = t THEN {} ELSE Held(u)
  BY <1>1, <1>2, IdleHolds DEF Queued, Fired, Held
<1>4. OnlyFired'
  BY <1>3 DEF Credits, OnlyFired
<1>5. Loses
  BY <1>3, WhereKept DEF Loses
<1>6. QueueOK'
  BY <1>2, <1>3, IdleHolds DEF Credits, QueueOK, At, HoldLabels, CreditLabels
<1>7. Once'
  BY <1>2, <1>3 DEF Credits, Once, At
<1> QED BY <1>4, <1>5, <1>6, <1>7 DEF Credits

\* Beside a thread that works on the queue no other one holds a credit.
LEMMA OthersHoldNothing ==
  ASSUME JobsOK, Serial, Credits, NEW t \in Threads, Drains(t) \/ job[t].at \in HoldLabels,
         NEW u \in Threads, u # t
  PROVE  Held(u) = {} /\ (job[u].at \notin HoldLabels)
<1>1. job[u].at \notin HoldLabels
  BY DEF Serial, Leads, Drains, MarkLabels, DrainLabels, HoldLabels, CreditLabels
<1>2. job[u].acts = {} /\ job[u].found = {}
  BY <1>1 DEF Credits, QueueOK, HoldLabels, CreditLabels
<1> QED BY <1>1, <1>2 DEF Held

\* pending_actions::append: load, truncate, write.
LEMMA AppendCredits ==
  ASSUME IInv, Serial, Credits, NEW t \in Threads, AppendStep(t)
  PROVE  Credits' /\ Loses
<1> USE DEF IInv
<1>0. job[t].at \in HoldLabels /\ job[t] \in Job /\ UNCHANGED <<credit, firedOn, landed>>
  BY DEF AppendStep, AppendLoad, AppendTruncate, AppendWrite, At, HoldLabels, CreditLabels, JobsOK, server, history
<1>1. \A u \in Threads : u # t => Held(u) = {} /\ job[u].at \notin HoldLabels
  BY <1>0, OthersHoldNothing
<1>2. CASE AppendLoad(t) /\ queue = Torn
  <2>1. \A a \in job[t].acts : GivenUp(a)
    BY <1>2 DEF AppendLoad, GivenUp, Unreadable
  <2> QED BY <1>0, <1>2, <2>1, CreditDropped DEF AppendLoad, At, FirstLabels
<1>3. ASSUME \A u \in Threads : u # t => job'[u] = job[u],
             Queued' \subseteq Held(t) \union Queued, Held(t)' \subseteq Held(t) \union Queued,
             Held(t) \union Queued \subseteq Held(t)' \union Queued',
             ~ At(t, "patch"),
             /\ At(t, "appendTruncate")' => queue' = job'[t].found
             /\ At(t, "appendWrite")' => queue' \in {{}, Torn}
             /\ job'[t].at \in {"appendTruncate", "appendWrite"} \/ job'[t] = Idle
             /\ job'[t].acts \intersect Queued' = {}
      PROVE  Credits' /\ Loses
  <2>1. Fired' = Fired /\ \A u \in Threads : u # t => Held(u)' = {}
    BY <1>0, <1>1, <1>3 DEF Fired, Held
  <2>2. OnlyFired'
    BY <1>0, <1>3, <2>1 DEF Credits, OnlyFired
  <2>3. Loses
    BY <1>0, <1>1, <1>3, WhereKept DEF Loses
  <2>4. QueueOK'
    <3>1. \A u \in Threads : u # t =>
            /\ job'[u] = job[u] /\ job[u].at \notin HoldLabels
            /\ job[u].acts = {} /\ job[u].found = {}
      BY <1>1, <1>3 DEF Held
    <3> QED BY <1>3, <3>1, IdleHolds DEF QueueOK, At, HoldLabels, CreditLabels
  <2>5. Once'
    <3>1. \A s \in Scans : \A a \in credit[s] : a \notin Held(t) \union Queued
      BY <1>3 DEF Credits, Once
    <3> QED BY <1>0, <1>3, <2>1, <3>1 DEF Credits, Once
  <2> QED BY <2>2, <2>3, <2>4, <2>5 DEF Credits
<1>4. CASE AppendLoad(t) /\ queue # Torn
  <2>1. /\ job' = [job EXCEPT ![t].at = "appendTruncate", ![t].found = queue]
        /\ At(t, "appendLoad") /\ UNCHANGED queue
    BY <1>4 DEF AppendLoad
  <2>2. /\ job'[t].at = "appendTruncate" /\ job'[t].found = queue /\ job'[t].acts = job[t].acts
        /\ \A u \in Threads : u # t => job'[u] = job[u]
    BY <2>1, <1>0 DEF JobsOK, Job
  <2>3. job[t].found = {} /\ Queued' = queue /\ Queued = queue /\ job[t].acts \intersect Queued = {}
    BY <1>4, <2>1 DEF Credits, QueueOK, At, Queued
  <2>4. Held(t) = job[t].acts /\ Held(t)' = job[t].acts \union queue
    BY <2>2, <2>3 DEF Held
  <2> QED BY <1>3, <2>1, <2>2, <2>3, <2>4 DEF At
<1>5. CASE AppendTruncate(t)
  <2>1. /\ To(t, "appendWrite") /\ queue' \in {{}, Torn}
        /\ At(t, "appendTruncate")
    BY <1>5 DEF AppendTruncate
  <2>2. /\ job'[t].at = "appendWrite" /\ job'[t].found = job[t].found /\ job'[t].acts = job[t].acts
        /\ \A u \in Threads : u # t => job'[u] = job[u]
    BY <2>1, <1>0 DEF JobsOK, Job, To
  <2>3. queue = job[t].found /\ Queued' = {} /\ Queued \subseteq job[t].found
    BY <2>1 DEF Credits, QueueOK, Queued
  <2>4. Held(t)' = Held(t) /\ Queued \subseteq Held(t)
    BY <2>2, <2>3 DEF Held
  <2> QED BY <1>3, <2>1, <2>2, <2>3, <2>4 DEF At
<1>6. CASE AppendWrite(t)
  <2>1. Done(t) /\ queue' = job[t].found \union job[t].acts /\ At(t, "appendWrite")
    BY <1>6 DEF AppendWrite
  <2>2. job'[t] = Idle /\ \A u \in Threads : u # t => job'[u] = job[u]
    BY <2>1 DEF JobsOK, Done, Become
  <2>3. Queued = {} /\ Queued' = Held(t) /\ Held(t)' = {}
    <3>1. job[t].found \union job[t].acts \in SUBSET Actions
      BY <1>0 DEF Job
    <3> QED BY <2>1, <2>2, <3>1, IdleHolds, SubmissionsAssumption
            DEF SubmissionsAssumption, Credits, QueueOK, Queued, Held
  <2>4. job'[t].acts = {}
    BY <2>2, IdleHolds
  <2>5. ~ At(t, "appendTruncate")' /\ ~ At(t, "appendWrite")'
    BY <2>2, IdleHolds DEF At
  <2> QED BY <1>3, <2>1, <2>2, <2>3, <2>4, <2>5 DEF At
<1> QED BY <1>2, <1>4, <1>5, <1>6 DEF AppendStep

\* drain_aggregated: what is read from the queue is removed from it.
LEMMA DrainCredits ==
  ASSUME IInv, Serial, Credits, NEW t \in Workers, DrainLoad(t) \/ DrainRemove(t)
  PROVE  Credits' /\ Loses
<1> USE DEF IInv
<1>0. /\ t \in Threads /\ job[t] \in Job /\ Drains(t) /\ job[t].at \in HoldLabels
      /\ UNCHANGED <<credit, firedOn, landed>>
  BY DEF Threads, DrainLoad, DrainRemove, WorkerAt, At, Drains, DrainLabels, HoldLabels, CreditLabels, JobsOK, server
<1>1. \A u \in Threads : u # t => Held(u) = {} /\ job[u].at \notin HoldLabels
  BY <1>0, OthersHoldNothing
<1>2. ASSUME \A u \in Threads : u # t => job'[u] = job[u],
             job'[t].at \in {"drainRemove", "patch"} \/ job'[t] = Idle,
             job'[t].found = {},
             Queued' \subseteq Queued, Held(t)' \subseteq Held(t) \union Queued,
             Held(t) \union Queued \subseteq Held(t)' \union Queued',
             At(t, "drainRemove")' => queue' = job'[t].acts,
             At(t, "patch")' => Queued' = {}
      PROVE  Credits' /\ Loses
  <2>1. Fired' = Fired /\ \A u \in Threads : u # t => Held(u)' = {}
    BY <1>0, <1>1, <1>2 DEF Fired, Held
  <2>2. OnlyFired'
    BY <1>0, <1>2, <2>1 DEF Credits, OnlyFired
  <2>3. Loses
    BY <1>0, <1>1, <1>2, WhereKept DEF Loses
  <2>4. QueueOK'
    <3>1. \A u \in Threads : u # t =>
            /\ job'[u] = job[u] /\ job[u].at \notin HoldLabels
            /\ job[u].acts = {} /\ job[u].found = {}
      BY <1>1, <1>2 DEF Held
    <3> QED BY <1>2, <3>1, IdleHolds DEF QueueOK, At, HoldLabels, CreditLabels
  <2>5. Once'
    <3>1. \A s \in Scans : \A a \in credit[s] : a \notin Held(t) \union Queued
      BY <1>0 DEF Credits, Once, At, DrainLoad, DrainRemove, WorkerAt
    <3> QED BY <1>0, <1>2, <2>1, <3>1 DEF Credits, Once
  <2> QED BY <2>2, <2>3, <2>4, <2>5 DEF Credits
<1>3. job[t].found = {}
  BY <1>0 DEF Credits, QueueOK, Drains, DrainLabels
<1>4. CASE DrainLoad(t)
  <2>1. At(t, "drainLoad") /\ job[t].acts = {} /\ UNCHANGED queue
    BY <1>0, <1>4 DEF DrainLoad, WorkerAt, Credits, QueueOK
  <2>2. Held(t) = {} /\ Queued' = Queued
    BY <1>3, <2>1 DEF Held, Queued
  <2>3. CASE queue = Torn
    <3>1. job'[t] = Idle /\ \A u \in Threads : u # t => job'[u] = job[u]
      BY <1>0, <1>4, <2>3 DEF DrainLoad, JobsOK, Done, Become
    <3>2. Held(t)' = {} /\ Queued = {} /\ job'[t].found = {} /\ job'[t].at = "idle"
      BY <2>3, <3>1, IdleHolds DEF Held, Queued
    <3> QED BY <1>2, <2>1, <2>2, <3>1, <3>2 DEF At
  <2>4. CASE queue # Torn
    <3>1. job' = [job EXCEPT ![t].at = "drainRemove", ![t].acts = queue]
      BY <1>4, <2>4 DEF DrainLoad
    <3>2. /\ job'[t].at = "drainRemove" /\ job'[t].acts = queue /\ job'[t].found = {}
          /\ \A u \in Threads : u # t => job'[u] = job[u]
      BY <1>0, <1>3, <3>1 DEF JobsOK, Job
    <3>3. Held(t)' = Queued
      BY <2>4, <3>2 DEF Held, Queued
    <3> QED BY <1>2, <2>1, <2>2, <3>2, <3>3 DEF At
  <2> QED BY <2>3, <2>4
<1>5. CASE DrainRemove(t)
  <2>1. queue' = {} /\ queue = job[t].acts
    BY <1>0, <1>5 DEF DrainRemove, WorkerAt, Credits, QueueOK
  <2>2. Queued' = {} /\ Queued \subseteq job[t].acts /\ Held(t) = job[t].acts
    BY <1>3, <2>1 DEF Queued, Held
  <2>3. \/ job[t].acts = {} /\ Done(t)
        \/ To(t, "patch")
    BY <1>5 DEF DrainRemove
  <2>4. CASE job[t].acts = {} /\ Done(t)
    <3>1. job'[t] = Idle /\ \A u \in Threads : u # t => job'[u] = job[u]
      BY <1>0, <2>4 DEF JobsOK, Done, Become
    <3>2. Held(t)' = {} /\ job'[t].found = {} /\ job'[t].at = "idle"
      BY <3>1, IdleHolds DEF Held
    <3> QED BY <1>2, <2>2, <2>4, <3>1, <3>2 DEF At
  <2>5. CASE To(t, "patch")
    <3>1. /\ job'[t].at = "patch" /\ job'[t].acts = job[t].acts /\ job'[t].found = {}
          /\ \A u \in Threads : u # t => job'[u] = job[u]
      BY <1>0, <1>3, <2>5 DEF JobsOK, Job, To
    <3>2. Held(t)' = Held(t)
      BY <2>2, <3>1 DEF Held
    <3> QED BY <1>2, <2>2, <3>1, <3>2 DEF At
  <2> QED BY <2>3, <2>4, <2>5
<1> QED BY <1>4, <1>5

\* The PATCH worker: what the server has then, and what the thread still holds.
LEMMA PatchCredits ==
  ASSUME IInv, Serial, Credits, NEW t \in Workers, Patch(t)
  PROVE  Credits' /\ Loses
<1> USE DEF IInv
<1>0. /\ t \in Threads /\ job[t] \in Job /\ At(t, "patch")
      /\ UNCHANGED <<queue, firedOn>>
  BY DEF Threads, Patch, WorkerAt, JobsOK
<1>1. job[t].at \in HoldLabels /\ job[t].found = {} /\ job[t].acts \intersect Queued = {}
      /\ Held(t) = job[t].acts /\ job[t].acts \in SUBSET Actions
  BY <1>0 DEF At, HoldLabels, CreditLabels, Credits, QueueOK, Held, Job
<1>2. \A u \in Threads : u # t => Held(u) = {} /\ job[u].at \notin HoldLabels
  BY <1>0, <1>1, OthersHoldNothing
<1>3. /\ \A u \in Threads : u # t => job'[u] = job[u]
      /\ \/ job'[t] = Idle
         \/ /\ job'[t].at = "patch" /\ job'[t].acts = job[t].acts /\ job'[t].found = {}
            /\ job'[t].scan = job[t].scan
  <2>1. Done(t) \/ job' = [job EXCEPT ![t].tries = @ + 1]
    BY DEF Patch
  <2>2. CASE Done(t)
    BY <1>0, <2>2 DEF JobsOK, Done, Become
  <2>3. CASE job' = [job EXCEPT ![t].tries = @ + 1]
    BY <1>0, <1>1, <2>3 DEF JobsOK, Job, At
  <2> QED BY <2>1, <2>2, <2>3
<1>4. \/ UNCHANGED <<credit, landed>>
      \/ credit' = [credit EXCEPT ![job[t].scan] = job[t].acts] /\ landed' = landed \union job[t].acts
  BY DEF Patch
<1>5. \/ credit' = [credit EXCEPT ![job[t].scan] = job[t].acts]
      \/ /\ UNCHANGED credit
         /\ job'[t] = Idle => \A a \in job[t].acts : NotSent(a)
  <2>1. CASE credit' # [credit EXCEPT ![job[t].scan] = job[t].acts] /\ job'[t] = Idle
    <3>1. job' # [job EXCEPT ![t].tries = @ + 1]
      BY <1>0, <2>1, IdleHolds DEF JobsOK, At, Job
    <3>2. \/ "refuses" \in user.faults
          \/ user.faults # {} /\ ~ (job[t].tries + 1 < PatchAttempts)
      BY <2>1, <3>1 DEF Patch
    <3>3. job[t].tries \in 0..(PatchAttempts - 1) /\ PatchAttempts \in Nat
      BY <1>0, SubmissionsAssumption DEF Job, SubmissionsAssumption
    <3>4. "refuses" \in user.faults \/ (user.faults # {} /\ job[t].tries + 1 = PatchAttempts)
      BY <3>2, <3>3
    <3> QED BY <1>0, <1>4, <2>1, <3>4 DEF NotSent
  <2> QED BY <1>4, <2>1
<1>6. Queued' = Queued /\ Fired' = Fired /\ (\A u \in Threads : u # t => Held(u)' = {})
      /\ Held(t)' = IF job'[t] = Idle THEN {} ELSE job[t].acts
  BY <1>0, <1>2, <1>3, IdleHolds DEF Queued, Fired, Held
<1>7. OnlyFired'
  <2>1. credit' \in [Scans -> SUBSET Actions] /\ \A s \in Scans : credit'[s] \subseteq landed'
    BY <1>1, <1>4 DEF Credits, OnlyFired
  <2>2. landed' \subseteq Fired
    BY <1>0, <1>1, <1>4 DEF Credits, OnlyFired
  <2> QED BY <1>0, <1>1, <1>6, <2>1, <2>2 DEF Credits, OnlyFired
<1>8. Loses
  <2> SUFFICES ASSUME NEW a \in Kept, a \notin Kept' PROVE Replaced(a) \/ NotSent(a)
    BY DEF Loses, GivenUp
  <2>1. (\E s \in Scans : a \in credit[s] /\ a \notin credit'[s]) \/ a \in job[t].acts
    BY <1>1, <1>2, <1>6, WhereKept
  <2>2. ASSUME NEW s \in Scans, a \in credit[s], a \notin credit'[s] PROVE Replaced(a)
    <3>1. /\ credit' = [credit EXCEPT ![job[t].scan] = job[t].acts]
          /\ a \in credit[job[t].scan]
      BY <1>4, <2>2 DEF Credits, OnlyFired
    <3> QED BY <1>0, <3>1 DEF Replaced
  <2>3. CASE a \in job[t].acts
    <3>1. job'[t] = Idle
      BY <1>0, <1>6, <2>3, WhereKept
    <3>2. job[t].scan \in Scans /\ credit \in [Scans -> SUBSET Actions]
      BY <1>0 DEF Credits, OnlyFired, JobsOK, Carries, At
    <3>3. credit' # [credit EXCEPT ![job[t].scan] = job[t].acts]
      BY <2>3, <3>2, WhereKept
    <3> QED BY <1>5, <2>3, <3>1, <3>3
  <2> QED BY <2>1, <2>2, <2>3
<1>9. QueueOK'
  <2>1. \A u \in Threads : u # t => job'[u] = job[u] /\ job[u].at \notin HoldLabels /\ job[u].acts = {} /\ job[u].found = {}
    BY <1>2, <1>3 DEF Held
  <2> QED BY <1>0, <1>1, <1>3, <1>6, <2>1, IdleHolds DEF QueueOK, At, HoldLabels, CreditLabels
<1>10. Once'
  <2> SUFFICES ASSUME NEW s \in Scans, NEW a \in credit'[s]
      PROVE  /\ a \notin Queued'
             /\ \A u \in Threads : a \in Held(u)' => At(u, "patch")' /\ job'[u].scan = s
             /\ \A u \in Scans : a \in credit'[u] => u = s
    BY DEF Once
  <2>1. \A u \in Scans : credit'[u] = credit[u] \/ (u = job[t].scan /\ credit'[u] = job[t].acts)
    BY <1>4 DEF Credits, OnlyFired
  <2>2. \A u \in Scans : a \in credit[u] => a \notin Queued /\ (a \in job[t].acts => job[t].scan = u)
                                            /\ \A v \in Scans : a \in credit[v] => v = u
    BY <1>0, <1>1 DEF Credits, Once
  <2>3. a \notin Queued' /\ (a \in job[t].acts => job[t].scan = s)
    BY <1>1, <1>6, <2>1, <2>2
  <2>4. \A u \in Scans : a \in credit'[u] => u = s
    BY <2>1, <2>2, <2>3
  <2>5. \A u \in Threads : a \in Held(u)' => At(u, "patch")' /\ job'[u].scan = s
    BY <1>3, <1>6, <2>3 DEF At
  <2> QED BY <2>3, <2>4, <2>5
<1> QED BY <1>7, <1>8, <1>9, <1>10 DEF Credits

\* An action has freed bytes.
LEMMA ActCredits ==
  ASSUME IInv, Quiet, Credits, NEW b \in Actions, UserActs(b)
  PROVE  Credits' /\ Loses
<1> USE DEF IInv
<1>1. /\ firedOn[b] = None /\ firedOn' = [firedOn EXCEPT ![b] = engine.n]
      /\ engine.n \in Scans /\ UNCHANGED <<queue, credit, landed>>
  BY HistoryAssumption DEF UserActs, SlotsOK, Scans, server, HistoryAssumption
<1>2. Fired' = Fired \union {b} /\ b \notin Fired
  BY <1>1, HistoryAssumption DEF HistoryAssumption, Fired, Scans, Credits, OnlyFired
<1> DEFINE k == NewJob("creditLoad", None, {b})
<1>3. k.at = "creditLoad" /\ k.acts = {b} /\ k.found = {}
  BY DEF NewJob, Idle
<1>4. Ui \in Threads /\ \A u \in Threads : job'[u] = IF u = Ui THEN k ELSE job[u]
  BY DEF UserActs, Become, JobsOK, Threads
<1> HIDE DEF k
<1>5. \A u \in Threads : job[u].at = "idle" /\ job[u].acts = {} /\ job[u].found = {}
  BY DEF Quiet, At, Credits, QueueOK, HoldLabels, CreditLabels
<1>6. Queued' = Queued /\ (\A u \in Threads : Held(u) = {} /\ Held(u)' = IF u = Ui THEN {b} ELSE {})
  BY <1>1, <1>3, <1>4, <1>5 DEF Queued, Held
<1>7. b \notin Queued /\ \A s \in Scans : b \notin credit[s]
  BY <1>2 DEF Credits, OnlyFired
<1>8. OnlyFired'
  BY <1>1, <1>2, <1>6 DEF Credits, OnlyFired
<1>9. Loses
  BY <1>1, <1>6, WhereKept DEF Loses
<1>10. QueueOK'
  BY <1>1, <1>3, <1>4, <1>5, <1>6, <1>7 DEF QueueOK, At, HoldLabels, CreditLabels
<1>11. Once'
  BY <1>1, <1>6, <1>7 DEF Credits, Once
<1> QED BY <1>8, <1>9, <1>10, <1>11 DEF Credits

\* The window's credit: recorded, routed, sent with a scan, or given up.
LEMMA RouteCredits ==
  ASSUME IInv, Serial, Credits, CreditLoad \/ CreditSave \/ RouteToSubmission \/ RouteToPending
  PROVE  Credits' /\ Loses
<1> USE DEF IInv
<1>0. /\ Ui \in Threads /\ Workers \subseteq Threads /\ Ui \notin Workers /\ job[Ui] \in Job
      /\ job[Ui].at \in FirstLabels /\ job[Ui].found = {}
      /\ UNCHANGED <<queue, credit, landed, firedOn>>
  BY SubmissionsAssumption DEF SubmissionsAssumption, Threads, JobsOK, CreditLoad, CreditSave,
     RouteToSubmission, RouteToPending, UiAt, At, FirstLabels, Credits, QueueOK, server
<1>1. CASE Done(Ui) /\ RouteToSubmission
  <2>1. ~ registered \/ (subId = None /\ job[Ui].acts \subseteq Archives)
    <3>1. job'[Ui] = Idle /\ \A u \in Workers : job'[u] = job[u]
      BY <1>0, <1>1 DEF Done, Become, JobsOK
    <3>2. ~ SendCredit("patch", subId, job[Ui].acts)
      <4> SUFFICES ASSUME SendCredit("patch", subId, job[Ui].acts) PROVE FALSE
        OBVIOUS
      <4>1. PICK w \in Workers : Fresh(w) /\ job' = [job EXCEPT ![Ui] = Idle, ![w] = NewJob("patch", subId, job[Ui].acts)]
        BY DEF SendCredit
      <4>2. job'[w].at = "patch" /\ job[w].at = "idle"
        BY <1>0, <4>1 DEF JobsOK, NewJob, Idle, Fresh, At
      <4> QED BY <3>1, <4>2
    <3>3. ~ To(Ui, "routePending")
      BY <1>0, <3>1, IdleHolds DEF To, JobsOK, Job
    <3> QED BY <1>1, <3>2, <3>3 DEF RouteToSubmission
  <2>2. \A a \in job[Ui].acts : GivenUp(a)
    BY <1>1, <2>1 DEF GivenUp, LoggedOnly, RouteToSubmission, UiAt
  <2> QED BY <1>0, <1>1, <2>2, CreditDropped
<1>2. ASSUME NEW at \in {"patch", "autoPost"}, NEW s, SendCredit(at, s, job[Ui].acts)
      PROVE  Credits' /\ Loses
  <2>1. PICK w \in Workers : Fresh(w) /\ job' = [job EXCEPT ![Ui] = Idle, ![w] = NewJob(at, s, job[Ui].acts)]
    BY <1>2 DEF SendCredit
  <2> DEFINE k == NewJob(at, s, job[Ui].acts)
  <2>2. k.at = at /\ k.acts = job[Ui].acts /\ k.found = {}
    BY DEF NewJob, Idle
  <2>3. \A u \in Threads : job'[u] = IF u = w THEN k ELSE IF u = Ui THEN Idle ELSE job[u]
    BY <1>0, <2>1 DEF JobsOK
  <2>4. w \in Threads /\ w # Ui /\ At(w, "idle")
    BY <1>0, <2>1 DEF Fresh
  <2>5. at \in FirstLabels \union {"patch"}
    BY DEF FirstLabels
  <2> HIDE DEF k
  <2> QED BY <1>0, <1>2, <2>2, <2>3, <2>4, <2>5, CreditPasses
<1>3. ASSUME \A u \in Threads : u # Ui => job'[u] = job[u], job'[Ui].acts = job[Ui].acts,
             job'[Ui].found = job[Ui].found, job'[Ui].at \in FirstLabels
      PROVE  Credits' /\ Loses
  BY <1>0, <1>3, CreditPasses
<1>4. ASSUME NEW at \in {"route", "routePending", "appendLoad"}, To(Ui, at) PROVE Credits' /\ Loses
  <2>1. /\ \A u \in Threads : u # Ui => job'[u] = job[u]
        /\ job'[Ui].acts = job[Ui].acts /\ job'[Ui].found = job[Ui].found /\ job'[Ui].at = at
    BY <1>0, <1>4 DEF To, JobsOK, Job
  <2> QED BY <1>3, <1>4, <2>1 DEF FirstLabels
<1>5. CASE CreditLoad
  <2>1. /\ \A u \in Threads : u # Ui => job'[u] = job[u]
        /\ job'[Ui].acts = job[Ui].acts /\ job'[Ui].found = job[Ui].found
        /\ job'[Ui].at \in {"route", "creditSave"}
    BY <1>0, <1>5 DEF CreditLoad, JobsOK, Job
  <2> QED BY <1>3, <2>1 DEF FirstLabels
<1>6. CASE CreditSave
  BY <1>4, <1>6 DEF CreditSave
<1>7. CASE RouteToSubmission
  BY <1>1, <1>2, <1>4, <1>7 DEF RouteToSubmission
<1>8. CASE RouteToPending
  BY <1>2, <1>4, <1>8 DEF RouteToPending
<1> QED BY <1>5, <1>6, <1>7, <1>8

\* spawn_auto_submit_then_patch
LEMMA AutoPostCredits ==
  ASSUME IInv, Credits, NEW t \in Workers, AutoPost(t)
  PROVE  Credits' /\ Loses
<1>1. /\ t \in Threads /\ job[t] \in Job /\ job[t].at \in FirstLabels /\ job[t].found = {}
      /\ UNCHANGED <<queue, credit, landed, firedOn>>
  BY DEF IInv, JobsOK, Threads, AutoPost, WorkerAt, At, FirstLabels, Credits, QueueOK
<1>2. To(t, "patch") \/ To(t, "appendLoad")
  BY DEF AutoPost
<1>3. /\ \A u \in Threads : u # t => job'[u] = job[u]
      /\ job'[t].acts = job[t].acts /\ job'[t].found = job[t].found /\ job'[t].at \in {"patch", "appendLoad"}
  BY <1>1, <1>2 DEF To, IInv, JobsOK, Job
<1> QED BY <1>1, <1>3, CreditPasses DEF IInv, FirstLabels

\* A kill takes what the threads hold.
LEMMA KillCredits ==
  ASSUME IInv, Serial, Credits, Kill
  PROVE  Credits' /\ Loses
<1>1. \A t \in Threads : job'[t] = IF job[t].cli THEN job[t] ELSE Idle
  BY DEF Kill
<1>2. UNCHANGED <<queue, credit, landed, firedOn>> /\ kills' = kills + 1
  BY DEF Kill, server
<1>3. \A t \in Threads : job[t].cli => job[t].at \notin HoldLabels /\ Held(t) = {} /\ job[t].acts = {} /\ job[t].found = {}
  BY DEF Serial, RetryLabels, HoldLabels, CreditLabels, Credits, QueueOK, Held
<1>4. Queued' = Queued /\ Fired' = Fired /\ \A t \in Threads : Held(t)' = {}
  BY <1>1, <1>2, <1>3, IdleHolds DEF Queued, Fired, Held
<1>5. OnlyFired'
  BY <1>2, <1>4 DEF Credits, OnlyFired
<1>6. Loses
  BY <1>2, <1>4, WhereKept DEF Loses, GivenUp, CutOff
<1>7. QueueOK'
  BY <1>1, <1>3, <1>4, IdleHolds DEF QueueOK, At, HoldLabels, CreditLabels
<1>8. Once'
  BY <1>2, <1>4 DEF Credits, Once
<1> QED BY <1>5, <1>6, <1>7, <1>8 DEF Credits

LEMMA InitCredits == Init => Credits
BY SubmissionsAssumption, IdleHolds DEF SubmissionsAssumption, Init, Credits, OnlyFired, QueueOK, Once, Queued, Held, Fired, At, HoldLabels, CreditLabels

LEMMA NextCredits ==
  ASSUME IInv, Alone, user.patient => Credits, [Next]_vars
  PROVE  (user.patient => Credits)' /\ (user.patient => Loses)
<1> SUFFICES ASSUME user.patient PROVE Credits' /\ Loses
  BY SameUser
<1>1. Serial /\ Credits /\ JobsOK
  BY DEF Alone, IInv
<1>2. CASE PlainStep
  BY <1>1, <1>2, PlainMoves, CreditFrame
<1>3. CASE HoldStep
  <2>1. ASSUME NEW b \in Actions, UserActs(b) PROVE Credits' /\ Loses
    BY <1>1, <2>1, ActCredits DEF UserActs, MayAct
  <2> QED BY <1>1, <1>3, <2>1, RouteCredits, AutoPostCredits, DrainCredits, PatchCredits, AppendCredits
          DEF HoldStep, CreditStep
<1>4. CASE Kill
  BY <1>1, <1>4, KillCredits
<1> QED BY <1>2, <1>3, <1>4, StepKinds

\* Whatever is lost on the way or killed, the bytes of an action are counted under one
\* submission at most, if the user waits for one thing to end before the next
\* (pending_actions.rs, action_submission.rs).
THEOREM CreditCountedOnce == Spec => [](user.patient => CreditedOnce)
<1>1. Init => IInv /\ Alone /\ (user.patient => Credits)
  BY InitInv, InitAlone, InitCredits
<1>2. IInv /\ Alone /\ (user.patient => Credits) /\ [Next]_vars => (IInv /\ Alone /\ (user.patient => Credits))'
  BY NextInv, NextAlone, NextCredits
<1>3. Credits => CreditedOnce
  <2> SUFFICES ASSUME Credits, NEW a \in Actions PROVE Cardinality({s \in Scans : a \in credit[s]}) <= 1
    BY DEF CreditedOnce
  <2>1. CASE \A s \in Scans : a \notin credit[s]
    <3>1. {s \in Scans : a \in credit[s]} = {}
      BY <2>1
    <3> QED BY <3>1, FS_EmptySet
  <2>2. CASE \E s \in Scans : a \in credit[s]
    <3>1. PICK s \in Scans : a \in credit[s]
      BY <2>2
    <3> DEFINE T == {u \in Scans : a \in credit[u]}
    <3>2. T = {s}
      BY <3>1 DEF Credits, Once
    <3> HIDE DEF T
    <3>3. Cardinality(T) = 1
      BY <3>2, FS_Singleton
    <3> QED BY <3>3 DEF T
  <2> QED BY <2>1, <2>2
<1>4. (user.patient => Credits) => (user.patient => CreditedOnce)
  BY <1>3
<1> QED BY <1>1, <1>2, <1>4, PTL DEF Spec

\* Nor is a credit lost, but at the five places where the code gives one up: not by what
\* threads do to the queue file or to a submission, not by a lost answer, a retry, or a
\* scan that is not accepted (action_submission.rs, pending_actions.rs).
THEOREM CreditLostNowhereElse == Spec => CreditLostOnlyThere
<1>1. Init => IInv /\ Alone /\ (user.patient => Credits)
  BY InitInv, InitAlone, InitCredits
<1>2. IInv /\ Alone /\ (user.patient => Credits) /\ [Next]_vars => (IInv /\ Alone /\ (user.patient => Credits))'
  BY NextInv, NextAlone, NextCredits
<1>3. IInv /\ Alone /\ (user.patient => Credits) /\ [Next]_vars =>
        [user.patient => \A a \in Kept \ Kept' : GivenUp(a)]_vars
  BY NextCredits DEF Loses
<1> QED BY <1>1, <1>2, <1>3, PTL DEF Spec, CreditLostOnlyThere

-----------------------------------------------------------------------------
(* The row of a scan shows what was freed on it before the server is told:   *)
(* an action that has passed the window's first steps is in the row, if the  *)
(* row is still there.  Of two threads that save one row at once one undoes  *)
(* the other, so the user is patient.                                        *)

FirstSteps == {"creditLoad", "creditSave"}
SaveLabels == {"markSave", "updateSave", "creditSave"}

Local(a) == rows[firedOn[a]] # None => a \in rows[firedOn[a]].reclaimed

\* The action has passed the first steps.
Due(a) == \/ a \in landed \union Queued
          \/ \E t \in Threads : job[t].at \notin FirstSteps /\ a \in Held(t)

Loaded(j) == j.at \in SaveLabels => j.row # None /\ rows[j.scan] = j.row

Newly(j) ==
  j.at \in FirstSteps =>
    /\ \A a \in j.acts : firedOn[a] = engine.n
    /\ j.at = "creditSave" /\ engine.n \in Recorded => j.scan = engine.n

LocalParts ==
  /\ \A s \in Recorded : s <= engine.n
  /\ \A a \in Fired : firedOn[a] <= engine.n
  /\ engine.at # "idle" => engine.n \notin Recorded /\ \A a \in Fired : firedOn[a] < engine.n
  /\ \A t \in Threads : Loaded(job[t]) /\ Newly(job[t])
  /\ \A a \in Actions : Due(a) => Local(a)

\* Nothing is saved, and nothing becomes due.
LEMMA LocalFrame ==
  ASSUME LocalParts, UNCHANGED <<rows, firedOn>>, engine'.n = engine.n,
         engine'.at # "idle" => engine.at # "idle",
         \A t \in Threads :
           \/ job'[t] = job[t]
           \/ Loaded(job'[t]) /\ job'[t].at \notin FirstSteps,
         \A a \in Actions : Due(a)' => Due(a)
  PROVE  LocalParts'
<1>1. Recorded' = Recorded /\ Fired' = Fired /\ \A a \in Actions : Local(a)' <=> Local(a)
  BY DEF Recorded, Fired, Local
<1>2. \A t \in Threads : Loaded(job[t])' /\ Newly(job[t])'
  BY <1>1 DEF LocalParts, Loaded, Newly
<1> QED BY <1>1, <1>2 DEF LocalParts

\* What a thread holds that has passed the first steps may move on.
LEMMA DueStays ==
  ASSUME NEW t \in Threads, job[t].at \notin FirstSteps,
         landed' \subseteq landed \union Held(t), Queued' \subseteq Held(t) \union Queued,
         \A u \in Threads : job'[u] = job[u] \/ Held(u)' \subseteq Held(t) \union Queued,
         NEW a \in Actions, Due(a)'
  PROVE  Due(a)
<1>1. CASE a \in landed' \union Queued'
  BY <1>1 DEF Due
<1>2. ASSUME NEW u \in Threads, job'[u].at \notin FirstSteps, a \in Held(u)' PROVE Due(a)
  <2>1. job'[u] = job[u] => Held(u)' = Held(u)
    BY DEF Held
  <2> QED BY <1>2, <2>1 DEF Due
<1> QED BY <1>1, <1>2 DEF Due

\* A thread saves a row it has changed: what the row shows as freed stays shown.
LEMMA LocalSave ==
  ASSUME IInv, Credits, LocalParts, NEW t \in Threads, job[t].at \in SaveLabels,
         NEW r, Save(job[t].scan, r), r # None, job[t].row.reclaimed \subseteq r.reclaimed,
         UNCHANGED <<engine, firedOn, queue, landed>>,
         \A u \in Threads : u # t => job'[u] = job[u] /\ job[u].at \notin SaveLabels \union FirstSteps,
         job'[t].at \notin SaveLabels \union FirstSteps,
         job'[t].found = job[t].found,
         job'[t].acts = job[t].acts \/ job'[t].acts = {},
         job[t].at = "creditSave" => job[t].acts \subseteq r.reclaimed
  PROVE  LocalParts'
<1> DEFINE s == job[t].scan
<1>1. s \in Scans /\ rows[s] = job[t].row /\ rows[s] # None
  BY DEF IInv, JobsOK, Carries, LocalParts, Loaded, SaveLabels
<1>2. \A u \in Scans : rows'[u] = IF u = s THEN r ELSE rows[u]
  BY DEF IInv, RowsOK, Save
<1>3. Recorded' = Recorded
  BY <1>1, <1>2 DEF Recorded
<1>4. Fired' = Fired /\ Queued' = Queued
  BY DEF Fired, Queued
<1>5. \A u \in Threads : Loaded(job[u])' /\ Newly(job[u])'
  BY DEF Loaded, Newly
<1>6. ASSUME NEW a \in Actions, Due(a)' PROVE Local(a)'
  <2>1. a \in Fired /\ firedOn[a] \in Scans
    <3>1. \A u \in Threads : Held(u)' \subseteq Held(u)
      BY DEF Held
    <3>2. a \in landed \union Queued \/ \E u \in Threads : a \in Held(u)
      BY <1>4, <1>6, <3>1 DEF Due
    <3> QED BY <3>2 DEF Credits, OnlyFired, Fired
  <2>2. Local(a) => Local(a)'
    BY <1>1, <1>2, <2>1 DEF Local
  <2>3. CASE Due(a)
    BY <2>2, <2>3 DEF LocalParts
  <2>4. CASE ~ Due(a)
    <3>1. a \in Held(t)' /\ a \in Held(t) /\ job[t].at \in FirstSteps
      <4>1. \A u \in Threads : Held(u)' \subseteq Held(u)
        BY DEF Held
      <4>2. \A u \in Threads : u # t => (job'[u].at \notin FirstSteps => job[u].at \notin FirstSteps)
        OBVIOUS
      <4> QED BY <1>4, <1>6, <2>4, <4>1, <4>2 DEF Due
    <3>2. job[t].at = "creditSave" /\ a \in job[t].acts
      BY <3>1 DEF FirstSteps, SaveLabels, Held, Credits, QueueOK
    <3>3. firedOn[a] = engine.n /\ (engine.n \in Recorded => s = engine.n)
      BY <3>1, <3>2 DEF LocalParts, Newly
    <3>4. CASE engine.n \in Recorded
      BY <1>2, <2>1, <3>2, <3>3, <3>4 DEF Local
    <3>5. CASE engine.n \notin Recorded
      BY <1>3, <2>1, <3>3, <3>5 DEF Local, Recorded
    <3> QED BY <3>4, <3>5
  <2> QED BY <2>3, <2>4
<1> QED BY <1>3, <1>4, <1>5, <1>6 DEF LocalParts

\* The steps without a credit.
LEMMA LocalPlain ==
  ASSUME IInv, Serial, user.patient, Credits, LocalParts, PlainStep, ~ SavesRow
  PROVE  LocalParts'
<1> USE DEF IInv
<1>1. UNCHANGED rows /\ UNCHANGED <<queue, credit, landed, firedOn>>
  BY RowsMove, PlainMoves, StepKinds DEF PlainStep, Next, EngineStep, WindowStep, WorkerStep, UserStep, Threads
<1>2. \A t \in Threads : job'[t] # job[t] =>
        /\ Plain(job[t], job'[t])
        /\ Held(t) = {} /\ Held(t)' = {} /\ job'[t].at \notin FirstSteps
  <2> SUFFICES ASSUME NEW t \in Threads, job'[t] # job[t]
      PROVE  /\ Plain(job[t], job'[t])
             /\ Held(t) = {} /\ Held(t)' = {} /\ job'[t].at \notin FirstSteps
    OBVIOUS
  <2>1. Plain(job[t], job'[t])
    BY PlainMoves
  <2>2. job[t].acts = {} /\ job[t].found = {}
    BY <2>1 DEF Credits, QueueOK, Plain, HoldLabels, CreditLabels
  <2> QED BY <2>1, <2>2 DEF Plain, Held, FirstSteps, HoldLabels, CreditLabels
<1>3. \A a \in Actions : Due(a)' => Due(a)
  <2>1. Queued' = Queued /\ \A t \in Threads : job'[t] = job[t] => Held(t)' = Held(t)
    BY <1>1 DEF Queued, Held
  <2> QED BY <1>1, <1>2, <2>1 DEF Due
<1>4. CASE StartScan
  <2>1. /\ UNCHANGED job /\ Quiet /\ engine' = [n |-> engine.n + 1, at |-> "running"]
    BY <1>4 DEF StartScan, MayAct
  <2>2. Recorded' = Recorded /\ Fired' = Fired /\ engine.n \in Nat
    BY <1>1 DEF Recorded, Fired, SlotsOK
  <2>3. \A s \in Recorded : s \in Nat /\ s < engine'.n
    BY <2>1, <2>2 DEF LocalParts, Recorded, Scans
  <2>4. \A a \in Fired : firedOn[a] \in Nat /\ firedOn[a] < engine'.n
    BY <2>1, <2>2 DEF LocalParts, Fired, Scans, Credits, OnlyFired
  <2>5. \A t \in Threads : Loaded(job[t])' /\ Newly(job[t])'
    BY <2>1 DEF Quiet, At, Loaded, Newly, SaveLabels, FirstSteps
  <2>6. \A a \in Actions : Local(a)' <=> Local(a)
    BY <1>1 DEF Local
  <2>7. engine'.n \in Nat
    BY <2>1, <2>2
  <2> QED BY <1>1, <1>3, <2>2, <2>3, <2>4, <2>5, <2>6, <2>7 DEF LocalParts
<1>5. CASE ~ StartScan
  <2>1. engine'.n = engine.n /\ (engine'.at # "idle" => engine.at # "idle")
    <3>1. CASE EngineStep
      BY <3>1 DEF EngineStep, StashInputs, SendScanFinished, RecordCompleted, SlotsOK
    <3>2. CASE \E t \in Workers : SubmitStep(t) \/ SettingsTake(t) \/ SettingsPost(t) \/ ResubmitStep(t)
      BY <3>2 DEF SubmitStep, AutoRegister, PeekPending, PostScan, HandleAnswer, MarkLoad, MarkSave, Report,
         SettingsTake, SettingsPost, ResubmitStep, BatchNext, BatchWait, CliNext, Repost, Reanswered, UpdateLoad,
         UpdateSave, WorkerAt
    <3>3. CASE \/ OnScanFinished \/ ShowOutcome \/ ClickSubmit \/ ClickSkip \/ TurnModal
               \/ FlagForReview \/ ClickSettingsSubmit \/ AnswerPrompt \/ StartCli
               \/ (\E s \in Scans : DeleteRow(s) \/ ClickResubmit(s)) \/ (\E t \in Threads : Claim(t))
               \/ UNCHANGED vars
      BY <3>3 DEF OnScanFinished, ShowOutcome, ClickSubmit, ClickSkip, TurnModal, FlagForReview,
         ClickSettingsSubmit, AnswerPrompt, StartCli, DeleteRow, ClickResubmit, Claim, vars
    <3> QED BY <1>5, <3>1, <3>2, <3>3 DEF PlainStep
  <2>2. ASSUME NEW t \in Threads, job'[t] # job[t] PROVE Loaded(job'[t])
    <3>0. job \in [Threads -> Job] /\ job[t] \in Job
      BY DEF JobsOK
    <3>1. job'[t].at \in SaveLabels => job'[t].at \in LoadLabels /\ (MarkLoad(t) \/ ResubmitStep(t))
      BY <1>2, <2>2, PlainMoves DEF SaveLabels, LoadLabels, FirstSteps
    <3>2. CASE MarkLoad(t)
      BY <3>0, <3>2 DEF MarkLoad, Job, Loaded, SaveLabels
    <3>3. CASE ResubmitStep(t) /\ job'[t].at \in SaveLabels
      <4>1. t \in Workers /\ UpdateLoad(t) /\ job'[t].at = "updateSave"
        <5>1. t \in Workers
          BY <3>3 DEF ResubmitStep, BatchNext, BatchWait, CliNext, Repost, Reanswered, UpdateLoad, UpdateSave, WorkerAt
        <5> QED BY <3>1, <3>3, <5>1, ResubmitLoads DEF SaveLabels, LoadLabels
      <4>2. rows[job[t].scan] # None
        BY <3>0, <4>1 DEF UpdateLoad, AfterRow, To, Done, Become, Idle, Job
      <4>3. job' = [job EXCEPT ![t].row = rows[job[t].scan], ![t].at = "updateSave"]
        BY <4>1, <4>2 DEF UpdateLoad
      <4>4. job'[t].row = rows[job[t].scan] /\ job'[t].scan = job[t].scan
        BY <3>0, <4>3 DEF Job
      <4> QED BY <4>2, <4>4 DEF Loaded
    <3> QED BY <3>1, <3>2, <3>3 DEF Loaded
  <2> QED BY <1>1, <1>2, <1>3, <2>1, <2>2, LocalFrame
<1> QED BY <1>4, <1>5

\* The steps with a credit that save no row.
LEMMA LocalHold ==
  ASSUME IInv, Serial, user.patient, Credits, LocalParts, HoldStep, ~ SavesRow
  PROVE  LocalParts'
<1> USE DEF IInv
<1>0. /\ job \in [Threads -> Job] /\ \A t \in Threads : job[t] \in Job
      /\ Ui \in Threads /\ Workers \subseteq Threads
  BY DEF JobsOK, Threads
<1>1. UNCHANGED rows /\ UNCHANGED engine
  BY RowsMove DEF HoldStep, Next, WindowStep, WorkerStep, UserStep, Threads, CreditStep, AppendStep, CreditLoad,
     CreditSave, RouteToSubmission, RouteToPending, UserActs, AutoPost, DrainLoad, DrainRemove, Patch, AppendLoad,
     AppendTruncate, AppendWrite, UiAt, WorkerAt
<1>2. \A t \in Threads : job'[t] = job[t] \/ job'[t].at \notin SaveLabels \/ (t = Ui /\ CreditLoad)
  BY HoldMoves DEF SaveLabels, LoadLabels
<1>3. ASSUME NEW a \in Actions, UserActs(a) PROVE LocalParts'
  <2>1. /\ Quiet /\ firedOn[a] = None /\ firedOn' = [firedOn EXCEPT ![a] = engine.n]
        /\ UNCHANGED <<queue, landed>>
    BY <1>3 DEF UserActs, MayAct
  <2> DEFINE k == NewJob("creditLoad", None, {a})
  <2>2. k.at = "creditLoad" /\ k.acts = {a} /\ k.found = {}
    BY DEF NewJob, Idle
  <2>3. \A u \in Threads : job'[u] = IF u = Ui THEN k ELSE job[u]
    BY <1>0, <1>3 DEF UserActs, Become
  <2> HIDE DEF k
  <2>4. firedOn'[a] = engine.n /\ \A b \in Actions : b # a => firedOn'[b] = firedOn[b]
    BY <2>1 DEF Credits, OnlyFired
  <2>5. Recorded' = Recorded /\ Queued' = Queued /\ Fired' \subseteq Fired \union {a} /\ a \notin Fired
    BY <1>1, <2>1, <2>4 DEF Recorded, Queued, Fired
  <2>6. \A u \in Threads : job[u].at = "idle"
    BY <2>1 DEF Quiet, At
  <2>7. \A u \in Threads : Loaded(job[u])' /\ Newly(job[u])'
    BY <1>1, <2>2, <2>3, <2>4, <2>6 DEF Loaded, Newly, SaveLabels, FirstSteps
  <2>8. \A b \in Actions : Due(b)' => Due(b) /\ b # a
    <3>1. \A b \in Actions : Due(b) => b \in Fired
      BY DEF Due, Credits, OnlyFired
    <3>2. \A u \in Threads : job'[u].at \notin FirstSteps => job'[u] = job[u] /\ Held(u)' = Held(u)
      BY <2>2, <2>3 DEF FirstSteps, Held
    <3>3. \A b \in Actions : Due(b)' => Due(b)
      BY <2>1, <2>5, <3>2 DEF Due
    <3> QED BY <2>5, <3>1, <3>3
  <2>9. \A b \in Actions : Due(b)' => Local(b)'
    BY <1>1, <2>4, <2>8 DEF LocalParts, Local
  <2>10. engine.at = "idle" /\ engine.n <= engine.n
    BY <2>1 DEF Quiet, SlotsOK
  <2> QED BY <1>1, <2>4, <2>5, <2>7, <2>9, <2>10 DEF LocalParts, Fired
<1>4. CASE CreditLoad
  <2>1. At(Ui, "creditLoad") /\ UNCHANGED <<queue, landed, firedOn>>
        /\ \A u \in Threads : u # Ui => job'[u] = job[u]
    BY <1>0, <1>4 DEF CreditLoad, UiAt
  <2>2. Recorded' = Recorded /\ Queued' = Queued /\ Fired' = Fired /\ \A b \in Actions : Local(b)' <=> Local(b)
    BY <1>1, <2>1 DEF Recorded, Queued, Fired, Local
  <2>3. job'[Ui].acts = job[Ui].acts /\ job'[Ui].found = {} /\ job[Ui].found = {}
    BY <1>0, <1>4, <2>1 DEF CreditLoad, Job, Credits, QueueOK, At
  <2>4. \A a \in job[Ui].acts : firedOn[a] = engine.n
    BY <1>0, <2>1 DEF LocalParts, Newly, FirstSteps, At
  <2>5. CASE Recorded = {}
    <3>1. job'[Ui].at = "route"
      BY <1>0, <1>4, <2>5 DEF CreditLoad, Job
    <3>2. Loaded(job[Ui])' /\ Newly(job[Ui])'
      BY <3>1 DEF Loaded, Newly, SaveLabels, FirstSteps
    <3>3. \A u \in Threads : Loaded(job[u])' /\ Newly(job[u])'
      BY <1>1, <2>1, <2>2, <3>2 DEF LocalParts, Loaded, Newly
    <3>4. \A a \in Fired : Local(a)
      BY <2>5 DEF Local, Recorded, Fired, Credits, OnlyFired
    <3>5. \A a \in Actions : Due(a)' => a \in Fired
      <4>1. \A u \in Threads : Held(u)' = Held(u)
        BY <1>0, <2>1, <2>3 DEF Held
      <4> QED BY <2>1, <2>2, <4>1 DEF Due, Credits, OnlyFired
    <3> QED BY <1>1, <2>1, <2>2, <3>3, <3>4, <3>5 DEF LocalParts
  <2>6. CASE Recorded # {}
    <3> DEFINE s == Newest(Recorded)
    <3>1. s \in Recorded /\ \A u \in Recorded : u <= s
      BY <2>6, NewestIn DEF Recorded
    <3>2. engine.n \in Recorded => s = engine.n
      BY <3>1 DEF LocalParts, Recorded, Scans
    <3>3. job' = [job EXCEPT ![Ui].at = "creditSave", ![Ui].scan = s, ![Ui].row = rows[s]]
      BY <1>4, <2>6 DEF CreditLoad
    <3> HIDE DEF s
    <3>4. job'[Ui].at = "creditSave" /\ job'[Ui].scan = s /\ job'[Ui].row = rows[s]
      BY <1>0, <3>3 DEF Job
    <3>5. Loaded(job[Ui])' /\ Newly(job[Ui])'
      BY <1>1, <2>1, <2>2, <2>3, <2>4, <3>1, <3>2, <3>4 DEF Loaded, Newly, Recorded
    <3>6. \A u \in Threads : Loaded(job[u])' /\ Newly(job[u])'
      BY <1>1, <2>1, <2>2, <3>5 DEF LocalParts, Loaded, Newly
    <3>7. \A a \in Actions : Due(a)' => Due(a)
      <4>1. \A u \in Threads : job'[u].at \notin FirstSteps => job'[u] = job[u] /\ Held(u)' = Held(u)
        BY <2>1, <3>4 DEF FirstSteps, Held
      <4> QED BY <2>1, <2>2, <4>1 DEF Due
    <3> QED BY <1>1, <2>1, <2>2, <3>6, <3>7 DEF LocalParts
  <2> QED BY <2>5, <2>6
<1>5. ASSUME UNCHANGED firedOn, ~ CreditLoad,
             \A t \in Threads : job'[t] = job[t] \/ job'[t].at \notin FirstSteps,
             \A a \in Actions : Due(a)' => Due(a)
      PROVE  LocalParts'
  BY <1>1, <1>2, <1>5, LocalFrame DEF Loaded
<1>6. ASSUME NEW t \in Threads, job[t].at \notin FirstSteps, UNCHANGED firedOn, ~ CreditLoad,
             landed' \subseteq landed \union Held(t), Queued' \subseteq Held(t) \union Queued,
             \A u \in Threads : \/ job'[u] = job[u]
                                \/ Held(u)' \subseteq Held(t) \union Queued /\ job'[u].at \notin FirstSteps
      PROVE  LocalParts'
  BY <1>5, <1>6, DueStays
<1>7. CASE RouteToSubmission \/ RouteToPending
  <2>1. job[Ui].at \in {"route", "routePending"} /\ job[Ui].found = {} /\ UNCHANGED <<queue, landed, firedOn>>
    BY <1>0, <1>7 DEF RouteToSubmission, RouteToPending, UiAt, At, Credits, QueueOK
  <2>2. \A u \in Threads : \/ job'[u] = job[u]
                           \/ /\ job'[u].acts \subseteq job[Ui].acts /\ job'[u].found = {}
                              /\ job'[u].at \notin FirstSteps
    <3>1. ASSUME NEW at \in {"patch", "autoPost"}, NEW s, SendCredit(at, s, job[Ui].acts)
          PROVE  \A u \in Threads : \/ job'[u] = job[u]
                                    \/ /\ job'[u].acts \subseteq job[Ui].acts /\ job'[u].found = {}
                                       /\ job'[u].at \notin FirstSteps
      <4>1. PICK w \in Workers : job' = [job EXCEPT ![Ui] = Idle, ![w] = NewJob(at, s, job[Ui].acts)]
        BY <3>1 DEF SendCredit
      <4> DEFINE k == NewJob(at, s, job[Ui].acts)
      <4>2. k.at = at /\ k.acts = job[Ui].acts /\ k.found = {}
        BY DEF NewJob, Idle
      <4>3. \A u \in Threads : job'[u] = IF u = w THEN k ELSE IF u = Ui THEN Idle ELSE job[u]
        BY <1>0, <4>1
      <4> HIDE DEF k
      <4> QED BY <4>2, <4>3, IdleHolds DEF FirstSteps
    <3>2. CASE Done(Ui) \/ To(Ui, "routePending") \/ To(Ui, "appendLoad")
      <4>1. CASE Done(Ui)
        BY <1>0, <4>1, IdleHolds DEF Done, Become, FirstSteps
      <4>2. ASSUME NEW at \in {"routePending", "appendLoad"}, To(Ui, at)
            PROVE  /\ \A u \in Threads : u # Ui => job'[u] = job[u]
                   /\ job'[Ui].acts = job[Ui].acts /\ job'[Ui].found = {} /\ job'[Ui].at \notin FirstSteps
        BY <1>0, <2>1, <4>2 DEF To, Job, FirstSteps
      <4> QED BY <3>2, <4>1, <4>2
    <3> QED BY <1>7, <3>1, <3>2 DEF RouteToSubmission, RouteToPending
  <2>3. Queued' = Queued /\ ~ CreditLoad /\ job[Ui].at \notin FirstSteps
    BY <2>1 DEF Queued, CreditLoad, UiAt, At, FirstSteps
  <2>4. \A u \in Threads : \/ job'[u] = job[u]
                           \/ Held(u)' \subseteq Held(Ui) \union Queued /\ job'[u].at \notin FirstSteps
    BY <2>2 DEF Held
  <2> QED BY <1>0, <1>6, <2>1, <2>3, <2>4
<1>8. ASSUME NEW t \in Threads, AppendStep(t) PROVE LocalParts'
  <2>1. /\ job[t].at \in {"appendLoad", "appendTruncate", "appendWrite"} /\ UNCHANGED <<landed, firedOn>>
        /\ \A u \in Threads : u # t => job'[u] = job[u]
        /\ job'[t].at \in {"idle", "appendTruncate", "appendWrite"}
        /\ job'[t].acts \subseteq job[t].acts /\ job'[t].found \subseteq job[t].found \union Queued
    BY <1>0, <1>8, IdleHolds DEF AppendStep, AppendLoad, AppendTruncate, AppendWrite, At, history, Done, Become, To, Job, Queued
  <2>2. Queued' \subseteq Held(t) \union Queued
    BY <1>8 DEF AppendStep, AppendLoad, AppendTruncate, AppendWrite, Queued, Held
  <2>3. Held(t)' \subseteq Held(t) \union Queued
    BY <2>1 DEF Held
  <2>4. CreditLoad => t # Ui
    BY <2>1 DEF CreditLoad, UiAt, At
  <2>5. ~ CreditLoad
    <3> SUFFICES ASSUME CreditLoad PROVE FALSE
      OBVIOUS
    <3>1. Leads(t) /\ Leads(Ui)
      BY <2>1 DEF CreditLoad, UiAt, At, Leads, DrainLabels
    <3> QED BY <1>0, <2>4, <3>1 DEF Serial
  <2> QED BY <1>6, <2>1, <2>2, <2>3, <2>5 DEF FirstSteps
<1>9. ASSUME NEW t \in Workers, CreditStep(t) PROVE LocalParts'
  <2>1. /\ t \in Threads /\ job[t].at \in {"autoPost", "drainLoad", "drainRemove", "patch"} /\ UNCHANGED firedOn
        /\ job[t].found = {}
    BY <1>0, <1>9 DEF CreditStep, AutoPost, DrainLoad, DrainRemove, Patch, WorkerAt, At, Credits, QueueOK
  <2>2. ~ CreditLoad
    <3> SUFFICES ASSUME CreditLoad PROVE FALSE
      OBVIOUS
    <3>1. Leads(Ui) /\ job[Ui].at = "creditLoad"
      BY DEF CreditLoad, UiAt, At, Leads, DrainLabels
    <3>2. Leads(t) \/ Drains(t)
      BY <2>1 DEF Leads, Drains, DrainLabels
    <3> QED BY <1>0, <2>1, <3>1, <3>2 DEF Serial, MarkLabels
  <2>3. /\ \A u \in Threads : u # t => job'[u] = job[u]
        /\ job'[t].at \in {"idle", "appendLoad", "drainRemove", "patch"}
        /\ job'[t].acts \subseteq job[t].acts \union Queued /\ job'[t].found = {}
    <3>1. CASE AutoPost(t)
      <4>1. To(t, "patch") \/ To(t, "appendLoad")
        BY <3>1 DEF AutoPost
      <4> QED BY <1>0, <2>1, <4>1 DEF To, Job
    <3>2. CASE DrainLoad(t)
      BY <1>0, <2>1, <3>2, IdleHolds DEF DrainLoad, Done, Become, Job, Queued
    <3>3. CASE DrainRemove(t)
      BY <1>0, <2>1, <3>3, IdleHolds DEF DrainRemove, Done, Become, To, Job
    <3>4. CASE Patch(t)
      <4>1. Done(t) \/ job' = [job EXCEPT ![t].tries = @ + 1]
        BY <3>4 DEF Patch
      <4>2. job[t].at = "patch"
        BY <3>4 DEF Patch, WorkerAt, At
      <4> QED BY <1>0, <2>1, <4>1, <4>2, IdleHolds DEF Done, Become, Job
    <3> QED BY <1>9, <3>1, <3>2, <3>3, <3>4 DEF CreditStep
  <2>4. landed' \subseteq landed \union job[t].acts
    BY <1>9 DEF CreditStep, AutoPost, DrainLoad, DrainRemove, Patch
  <2>5. Queued' \subseteq Queued
    BY <1>9 DEF CreditStep, AutoPost, DrainLoad, DrainRemove, Patch, Queued
  <2>6. Held(t)' \subseteq Held(t) \union Queued /\ job[t].acts \subseteq Held(t) /\ job'[t].at \notin FirstSteps
    BY <2>1, <2>3 DEF Held, FirstSteps
  <2> QED BY <1>6, <2>1, <2>2, <2>3, <2>4, <2>5, <2>6 DEF FirstSteps
<1>10. ~ CreditSave
  BY DEF SavesRow
<1> QED BY <1>3, <1>4, <1>7, <1>8, <1>9, <1>10 DEF HoldStep

\* A row is one.
LEMMA SomeRow == \A r \in Row : r # None
BY HistoryAssumption DEF HistoryAssumption

\* The steps that save a row.
LEMMA LocalSaves ==
  ASSUME IInv, Serial, user.patient, Credits, LocalParts, SavesRow
  PROVE  LocalParts'
<1> USE DEF IInv
<1>0. /\ job \in [Threads -> Job] /\ \A t \in Threads : job[t] \in Job /\ Carries(job[t], received)
      /\ Ui \in Threads /\ Workers \subseteq Threads
  BY DEF JobsOK, Threads
<1>1. CASE RecordCompleted
  <2>1. /\ engine.at = "finished" /\ engine'.n = engine.n /\ engine'.at = "idle" /\ engine.n \in Scans
        /\ UNCHANGED <<job, queue, landed, firedOn>>
        /\ rows' = [rows EXCEPT ![engine.n] = NewFinished(registered)]
    BY <1>1 DEF RecordCompleted, SlotsOK, history, Save
  <2>2. \A s \in Scans : s # engine.n => rows'[s] = rows[s]
    BY <2>1 DEF RowsOK
  <2>3. Recorded' \subseteq Recorded \union {engine.n} /\ engine.n \notin Recorded
    BY <2>1, <2>2 DEF Recorded, LocalParts
  <2>4. \A t \in Threads : job[t].at \notin FirstSteps /\ job[t].at # "updateSave"
    BY <2>1 DEF Serial, FirstSteps, PostLabels, MarkLabels, DrainLabels
  <2>5. \A t \in Threads : Loaded(job[t])' /\ Newly(job[t])'
    <3> SUFFICES ASSUME NEW t \in Threads PROVE Loaded(job[t])' /\ Newly(job[t])'
      OBVIOUS
    <3>1. Newly(job[t])'
      BY <2>1, <2>4 DEF Newly
    <3>2. CASE job[t].at \in SaveLabels
      <4>1. job[t].scan \in Scans /\ job[t].row # None /\ rows[job[t].scan] = job[t].row
        BY <1>0, <3>2 DEF LocalParts, Loaded, Carries, SaveLabels
      <4>2. job[t].scan # engine.n
        BY <2>3, <4>1 DEF Recorded
      <4> QED BY <2>1, <2>2, <3>1, <4>1, <4>2 DEF Loaded
    <3> QED BY <2>1, <3>1, <3>2 DEF Loaded
  <2>6. Fired' = Fired /\ \A a \in Actions : Due(a)' <=> Due(a)
    BY <2>1 DEF Fired, Due, Held, Queued
  <2>7. \A a \in Actions : Due(a) => Local(a)'
    <3> SUFFICES ASSUME NEW a \in Actions, Due(a) PROVE Local(a)'
      OBVIOUS
    <3>1. a \in Fired /\ firedOn[a] \in Scans
      BY DEF Due, Credits, OnlyFired, Fired
    <3>2. firedOn[a] < engine.n
      BY <2>1, <3>1 DEF LocalParts
    <3>3. firedOn[a] # engine.n
      BY <2>1, <3>1, <3>2 DEF Scans
    <3> QED BY <2>1, <2>2, <3>1, <3>3 DEF LocalParts, Local
  <2>8. engine.n <= engine.n
    BY <2>1 DEF Scans
  <2> QED BY <2>1, <2>3, <2>5, <2>6, <2>7, <2>8 DEF LocalParts
<1>2. ASSUME NEW s \in Scans, DeleteRow(s) PROVE LocalParts'
  <2>1. /\ UNCHANGED <<job, engine, queue, landed, firedOn>>
        /\ Quiet /\ rows' = [rows EXCEPT ![s] = None]
    BY <1>2 DEF DeleteRow, MayAct, history, Save
  <2>2. \A u \in Scans : rows'[u] = None \/ rows'[u] = rows[u]
    BY <2>1 DEF RowsOK
  <2>3. Recorded' \subseteq Recorded /\ Fired' = Fired /\ \A a \in Actions : Due(a)' <=> Due(a)
    BY <2>1, <2>2 DEF Recorded, Fired, Due, Held, Queued
  <2>4. \A t \in Threads : Loaded(job[t])' /\ Newly(job[t])'
    BY <2>1 DEF Quiet, At, Loaded, Newly, SaveLabels, FirstSteps
  <2>5. \A a \in Actions : Due(a) => Local(a)'
    <3> SUFFICES ASSUME NEW a \in Actions, Due(a) PROVE Local(a)'
      OBVIOUS
    <3>1. firedOn[a] \in Scans
      BY DEF Due, Credits, OnlyFired, Fired
    <3> QED BY <2>1, <2>2, <3>1 DEF LocalParts, Local
  <2> QED BY <2>1, <2>3, <2>4, <2>5 DEF LocalParts
<1>3. ASSUME NEW t \in Threads, job[t].at \in {"markSave", "updateSave", "creditSave"}
      PROVE  \A u \in Threads : u # t => job[u].at \notin SaveLabels \union FirstSteps
  BY <1>3 DEF Serial, Leads, SaveLabels, FirstSteps, DrainLabels
<1>4. CASE CreditSave
  <2>1. /\ job[Ui].at = "creditSave" /\ job[Ui].row \in Row
        /\ Save(job[Ui].scan, Accumulated(job[Ui].row, job[Ui].acts))
        /\ UNCHANGED <<engine, firedOn, queue, landed>>
        /\ job' = [job EXCEPT ![Ui].at = "route"]
    BY <1>0, <1>4 DEF CreditSave, UiAt, At, To, Carries
  <2>2. /\ \A u \in Threads : u # Ui => job'[u] = job[u]
        /\ job'[Ui].at = "route" /\ job'[Ui].acts = job[Ui].acts /\ job'[Ui].found = job[Ui].found
    BY <1>0, <2>1 DEF Job
  <2> DEFINE r == Accumulated(job[Ui].row, job[Ui].acts)
  <2>3. r.reclaimed = job[Ui].row.reclaimed \union job[Ui].acts
    BY <2>1 DEF Accumulated, Row
  <2>4. r # None
    BY <1>0, <2>1, RowChanges, SomeRow DEF Job, States
  <2> HIDE DEF r
  <2>5. Save(job[Ui].scan, r)
    BY <2>1 DEF r
  <2> QED BY <1>0, <1>3, <2>1, <2>2, <2>3, <2>4, <2>5, LocalSave DEF SaveLabels, FirstSteps
<1>5. ASSUME NEW t \in Workers, MarkSave(t) PROVE LocalParts'
  <2>1. /\ job[t].at = "markSave" /\ job[t].row \in Row
        /\ Save(job[t].scan, MarkedSubmitted(job[t].row))
        /\ UNCHANGED <<engine, firedOn, queue, landed>>
        /\ job' = [job EXCEPT ![t].at = "report"]
    BY <1>0, <1>5 DEF MarkSave, WorkerAt, At, To, Carries
  <2>2. /\ \A u \in Threads : u # t => job'[u] = job[u]
        /\ job'[t].at = "report" /\ job'[t].acts = job[t].acts /\ job'[t].found = job[t].found
    BY <1>0, <2>1 DEF Job
  <2> DEFINE r == MarkedSubmitted(job[t].row)
  <2>3. r.reclaimed = job[t].row.reclaimed
    BY <2>1 DEF MarkedSubmitted, Row
  <2>4. r # None
    BY <2>1, RowChanges, SomeRow DEF States
  <2> HIDE DEF r
  <2>5. Save(job[t].scan, r)
    BY <2>1 DEF r
  <2> QED BY <1>0, <1>3, <2>1, <2>2, <2>3, <2>4, <2>5, LocalSave DEF SaveLabels, FirstSteps
<1>6. ASSUME NEW t \in Workers, UpdateSave(t) PROVE LocalParts'
  <2> DEFINE r == IF job[t].cli /\ job[t].reply = "accepted" THEN MarkedSubmitted(job[t].row)
                  ELSE Attempted(job[t].row, job[t].state)
  <2>1. /\ t \in Threads /\ job[t].at = "updateSave" /\ job[t].row \in Row /\ job[t].state \in States
        /\ Save(job[t].scan, r)
        /\ UNCHANGED <<engine, firedOn, queue, landed>>
        /\ job' = [job EXCEPT ![t].at = "cli"] \/ Done(t)
    BY <1>0, <1>6 DEF UpdateSave, WorkerAt, At, To, Carries, AfterRow
  <2>2. job[t].acts = {} /\ job[t].found = {}
    BY <2>1 DEF Credits, QueueOK, HoldLabels, CreditLabels
  <2>3. /\ \A u \in Threads : u # t => job'[u] = job[u]
        /\ job'[t].at \in {"cli", "idle"} /\ job'[t].acts = {} /\ job'[t].found = {}
    BY <1>0, <2>1, <2>2, IdleHolds DEF Job, Done, Become
  <2>4. r.reclaimed = job[t].row.reclaimed
    BY <2>1 DEF MarkedSubmitted, Attempted, Row
  <2>5. r # None
    BY <2>1, RowChanges, SomeRow
  <2> HIDE DEF r
  <2> QED BY <1>0, <1>3, <2>1, <2>2, <2>3, <2>4, <2>5, LocalSave DEF SaveLabels, FirstSteps
<1> QED BY <1>1, <1>2, <1>4, <1>5, <1>6 DEF SavesRow

LEMMA LocalKill ==
  ASSUME IInv, Serial, Credits, LocalParts, Kill
  PROVE  LocalParts'
<1>1. UNCHANGED <<rows, firedOn, queue, landed>> /\ engine'.n = engine.n /\ engine'.at = "idle"
  BY DEF Kill, IInv, SlotsOK
<1>2. \A t \in Threads : job'[t] = job[t] \/ job'[t] = Idle
  BY DEF Kill
<1>3. Loaded(Idle) /\ Idle.at \notin FirstSteps
  BY IdleHolds DEF Loaded, SaveLabels, FirstSteps
<1>4. \A t \in Threads : Held(t)' = {} \/ (Held(t)' = Held(t) /\ job'[t] = job[t])
  BY <1>2, IdleHolds DEF Held
<1>5. \A a \in Actions : Due(a)' => Due(a)
  BY <1>1, <1>4 DEF Due, Queued
<1> QED BY <1>1, <1>2, <1>3, <1>5, LocalFrame

LEMMA InitLocal == Init => LocalParts
BY SubmissionsAssumption, IdleHolds DEF SubmissionsAssumption, Init, LocalParts, Recorded, Fired, Loaded, Newly, SaveLabels, FirstSteps, Due, Held, Queued

\* What the server was told an action freed, the row of its scan shows too, if the user
\* waits for one thing to end before the next (app.rs drain_events).
THEOREM CreditIsLocalFirst == Spec => [](user.patient => LocalCreditFirst)
<1> DEFINE Inv == user.patient => LocalParts
<1>1. Init => IInv /\ Alone /\ (user.patient => Credits) /\ Inv
  BY InitInv, InitAlone, InitCredits, InitLocal
<1>2. ASSUME IInv, Alone, user.patient => Credits, Inv, [Next]_vars
      PROVE  (IInv /\ Alone /\ (user.patient => Credits) /\ Inv)'
  <2>1. (IInv /\ Alone /\ (user.patient => Credits))'
    BY <1>2, NextInv, NextAlone, NextCredits
  <2>2. ASSUME user.patient PROVE LocalParts'
    <3>1. IInv /\ Serial /\ Credits /\ LocalParts
      BY <1>2, <2>2 DEF Alone
    <3> QED BY <1>2, <2>2, <3>1, LocalPlain, LocalHold, LocalSaves, LocalKill, StepKinds
  <2> QED BY <1>2, <2>1, <2>2, SameUser
<1>3. (user.patient => Credits) /\ Inv => (user.patient => LocalCreditFirst)
  <2> SUFFICES ASSUME Credits, LocalParts PROVE LocalCreditFirst
    OBVIOUS
  <2>1. landed \subseteq Actions
    BY DEF Credits, OnlyFired, Fired
  <2> QED BY <2>1 DEF LocalParts, Due, Local, LocalCreditFirst
<1> HIDE DEF Inv
<1> QED BY <1>1, <1>2, <1>3, PTL DEF Spec
=============================================================================
