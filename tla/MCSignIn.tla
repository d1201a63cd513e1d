------------------------------ MODULE MCSignIn ------------------------------
(***************************************************************************)
(* Small instances of SignIn with AccountProfile.                          *)
(***************************************************************************)
EXTENDS AccountProfile

CONSTANTS t1, t2, r1, r2, github, google, prod, dev, avatar, history, nick1, nick2, unnamed

\* One account has opted in to show its avatar, the others to nothing.
OptedIn == [a \in Accounts |-> IF a = <<prod, github>> THEN {avatar} ELSE {}]

\* Starts one thing at a time, on one channel; everything may fail but backups.
Patient == [visits |-> {}, edits |-> 0, optedIn |-> OptedIn, shapes |-> {},
            midFrame |-> FALSE, channel |-> prod, registered |-> TRUE, patient |-> TRUE, fails |-> {"net"},
            offered |-> {"link", "register", "reset", "submit", "prefer", "unlink"},
            clicks |-> 3, switches |-> 0]

\* New to the leaderboard: the first thing clicked registers.
Newcomer == [Patient EXCEPT !.registered = FALSE, !.offered = @ \ {"unlink"}]

\* Clicks while threads run; saves fail too.
Hurried == [Newcomer EXCEPT !.patient = FALSE, !.fails = {"net", "disk"}, !.clicks = 2]

\* Switches to the other channel while threads run.
Switching == [Newcomer EXCEPT !.patient = FALSE, !.fails = {}, !.clicks = 2, !.switches = 1,
                              !.offered = {"link", "register", "prefer"}]

\* Links once and goes to the settings of the account; the answers may have none of the
\* flags, or only the first.
Profiled == [Patient EXCEPT !.offered = {"link"}, !.clicks = 1, !.edits = 3,
                            !.visits = {"privacy"}, !.shapes = {{}, {avatar}}]

Named == [Profiled EXCEPT !.visits = {"nickname"}, !.edits = 2]

\* Unlinks and links again while the settings are open.
Relinked == [Profiled EXCEPT !.offered = {"link", "unlink"}, !.clicks = 3, !.edits = 2,
                             !.fails = {}, !.visits = {"privacy"}]

AllUsers == {Patient, Newcomer, Hurried, Switching, Profiled, Named, Relinked}
=============================================================================
