---------------------------- MODULE ScanHistory ----------------------------
(***************************************************************************)
(* The history of finished scans: a file per scan (scan_history.rs).  A    *)
(* change loads the row, changes it and saves it by a rename: a row never  *)
(* tears, but two changes may both start from one row.  Rows are known by  *)
(* the number of their scan; a later scan has a later start.               *)
(***************************************************************************)
EXTENDS Naturals, FiniteSets

CONSTANTS
  MaxScans,     \* bound
  Actions,      \* the actions on groups the user may run, with their bytes
  MaxAttempts,  \* MAX_RESUBMIT_ATTEMPTS
  None

VARIABLE rows   \* scan -> its row

Scans == 1..MaxScans
States == {"pending", "submitted", "failed"}
Row == [state : States, attempts : Nat, reclaimed : SUBSET Actions, payload : BOOLEAN]

ASSUME HistoryAssumption ==
  MaxScans \in Nat /\ MaxAttempts \in Nat \ {0} /\ None \notin Scans \union Row

RowsOK == rows \in [Scans -> Row \union {None}]

NewFinished(payload) ==
  [state |-> "pending", attempts |-> 0, reclaimed |-> {}, payload |-> payload]

Recorded == {s \in Scans : rows[s] # None}

\* list is sorted newest first.
Newest(S) == CHOOSE s \in S : \A u \in S : u <= s

PendingRows == {s \in Recorded : rows[s].state = "pending"}

\* The rows a resubmit takes: it replays the payload of the scan's end.
Resubmittable(r) == r.state \in {"pending", "failed"} /\ r.payload

\* Mutant: the attempt itself is not counted.
TransientOutcomeStateLate(prior) == IF prior >= MaxAttempts THEN "failed" ELSE "pending"

TransientOutcomeState(prior) == IF prior + 1 >= MaxAttempts THEN "failed" ELSE "pending"

\* update_submission_state with increment_attempt
Attempted(r, state) == [r EXCEPT !.state = state, !.attempts = @ + 1]

\* mark_submitted, and update_submission_state without increment_attempt
MarkedSubmitted(r) == [r EXCEPT !.state = "submitted"]

\* accumulate_reclaim_in_place
Accumulated(r, acts) == [r EXCEPT !.reclaimed = @ \union acts]

Save(s, r) == rows' = [rows EXCEPT ![s] = r]
=============================================================================
