--------------------------- MODULE MCSubmissions ---------------------------
(***************************************************************************)
(* Small instances of Submissions: each user does part of what there is to *)
(* do, against a server with some of the faults.                           *)
(***************************************************************************)
EXTENDS Submissions, TLC

CONSTANTS ui, t1, t2, t3, a1, a2, a3

User(does, acts, share, known, faults, again, kill, patient) ==
  [patient |-> patient, does |-> does, acts |-> acts, share |-> share, registered |-> known,
   faults |-> faults, resubmits |-> again, kills |-> kill]

\* Submits from the dialog or the settings, reviews, deletes.
Asked == User({"scan", "submit", "settings", "review", "delete"}, {}, "ask", FALSE, Faulty, 0, 0, TRUE)
Sticky == User({"scan", "submit"}, {}, "askThenSticky", TRUE, {"down", "lost"}, 0, 1, FALSE)
\* Does not wait for an answer.
Hasty == User({"scan", "submit", "delete"}, {}, "ask", TRUE, {"lost"}, 0, 0, FALSE)
\* Acts on groups; the scan is submitted at its end, or when there is credit.
Acting == User({"scan", "submit"}, {a1, a3}, "ask", TRUE, {"lost", "refuses"}, 0, 1, TRUE)
Shown == User({"scan", "resubmit"}, {a1, a3}, "auto", TRUE, {"down", "lost"}, 1, 0, TRUE)
\* Sends rows again.
Again == User({"scan", "resubmit", "cli"}, {}, "never", TRUE, {"down", "lost", "refuses"}, 3, 1, TRUE)
\* Acts on groups and is cut off, maybe while the queue file is written.
Cut == User({"scan"}, {a1, a2}, "never", TRUE, {"lost"}, 0, 1, TRUE)

EachUser == {Asked, Sticky, Hasty, Acting, Shown, Again, Cut}
=============================================================================
