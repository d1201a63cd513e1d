------------------------------- MODULE SignIn -------------------------------
(***************************************************************************)
(* The leaderboard identity of an installation and how it is linked to an  *)
(* account: registration (src/leaderboard/registration.rs, install.rs),    *)
(* sign-in in the browser with a loopback listener (oauth.rs), and the     *)
(* window that starts, cancels and polls both (src/gui/widgets).           *)
(*                                                                         *)
(* An identity is a number, minted in order.  Each server channel has an   *)
(* install file and a token file of its own.  One sign-in session and one  *)
(* registration may be current; the threads of older ones run on.          *)
(***************************************************************************)
EXTENDS Naturals, Sequences, Functions

CONSTANTS
  Providers,   \* accounts of the user, one with each sign-in provider
  Channels,    \* server channels: prod, dev, local
  Linkers,     \* threads that run link_via_loopback_inner
  Registrars,  \* threads that register or reset
  Users,       \* what may happen: one of these records, chosen at the start
  None

ASSUME SignInAssumption ==
  /\ None \notin Linkers \union Registrars \union Providers
  /\ None \notin [id : Nat, registered : BOOLEAN]
  /\ \A u \in Users :
       /\ u.channel \in Channels
       /\ u.patient \in BOOLEAN /\ u.registered \in BOOLEAN
       /\ u.fails \subseteq {"disk", "net"}
       /\ u.clicks \in Nat /\ u.switches \in Nat
       /\ u.offered \subseteq {"link", "register", "reset", "submit", "prefer", "unlink"}

VARIABLES
  user,      \* of Users: channel (the active one at first), registered (its install file is
             \* there), patient (starts nothing while something is going on), fails (what may:
             \* requests and answers, saves and backups), offered (what is clicked), and the
             \* bounds clicks, switches
  active,    \* ACTIVE_CHANNEL
  install,   \* channel -> None or the install file: [id, registered]
  kept,      \* channel -> the backups of its install file, oldest first
  second,    \* channels with a backup whose name bears the current second
  token,     \* channel -> None or the token file: [id, provider]
  known,     \* channel -> identities its server has registered
  bound,     \* channel -> links its server keeps: [id, provider]
  slot,      \* CURRENT_SESSION: None or its thread
  regSlot,   \* CURRENT_REGISTER_SESSION
  stash,     \* PENDING_RETRY_PROVIDER
  link,      \* sign-in thread -> what it is doing
  reg,       \* registering thread -> what it is doing
  pref,      \* a preference or counter on its way to the install file: None or the state read
  minted, clicks, switches

disk   == <<install, kept, second, token>>
server == <<known, bound>>
slots  == <<slot, regSlot, stash>>
bounds == <<user, clicks, switches>>
vars   == <<disk, server, slots, active, link, reg, pref, minted, bounds>>

NoLink == [pc |-> "idle", provider |-> None, ch |-> None, cancel |-> FALSE,
           listener |-> "none", payload |-> None, id |-> 0, result |-> None]
NoReg  == [pc |-> "idle", kind |-> None, ch |-> None, id |-> 0, ok |-> FALSE]

Init ==
  /\ user \in Users
  /\ active = user.channel
  /\ install = [c \in Channels |-> IF user.registered /\ c = active
                                    THEN [id |-> 0, registered |-> TRUE] ELSE None]
  /\ kept = [c \in Channels |-> <<>>] /\ second = {}
  /\ token = [c \in Channels |-> None]
  /\ known = [c \in Channels |-> IF user.registered /\ c = active THEN {0} ELSE {}]
  /\ bound = [c \in Channels |-> {}]
  /\ slot = None /\ regSlot = None /\ stash = None
  /\ link = [t \in Linkers |-> NoLink] /\ reg = [r \in Registrars |-> NoReg]
  /\ pref = None
  /\ minted = 0 /\ clicks = 0 /\ switches = 0

NetFails  == "net" \in user.fails
DiskFails == "disk" \in user.fails

Linking(t)     == link[t].pc # "idle"
Registering(r) == reg[r].pc # "idle"

Quiet ==
  /\ slot = None /\ regSlot = None /\ pref = None /\ second = {}
  /\ \A t \in Linkers : ~Linking(t)
  /\ \A r \in Registrars : ~Registering(r)

-----------------------------------------------------------------------------
(* Starting threads.                                                       *)

\* try_start_session: nothing, if a session is current.
TryStartSession(p, c) ==
  IF slot # None \/ \A t \in Linkers : Linking(t) THEN UNCHANGED <<slot, link>>
  ELSE LET t == CHOOSE x \in Linkers : ~Linking(x) IN
       /\ slot' = t
       /\ link' = [link EXCEPT ![t] = [NoLink EXCEPT !.pc = "bind", !.provider = p, !.ch = c]]

Spawn(kind, pc, c, id) ==
  LET r == CHOOSE x \in Registrars : ~Registering(x) IN
  reg' = [reg EXCEPT ![r] = [pc |-> pc, kind |-> kind, ch |-> c, id |-> id, ok |-> FALSE]]

SomeRegistrar == \E r \in Registrars : ~Registering(r)

\* try_start_register_session: nothing, if a registration is current.
TryStartRegister(c) ==
  IF regSlot # None \/ ~SomeRegistrar THEN UNCHANGED <<regSlot, reg>>
  ELSE /\ regSlot' = CHOOSE x \in Registrars : ~Registering(x)
       /\ Spawn("session", "backup", c, 0)

-----------------------------------------------------------------------------
(* The user.                                                               *)

Clicks(what) ==
  /\ what \in user.offered /\ clicks < user.clicks
  /\ user.patient => Quiet
  /\ clicks' = clicks + 1

\* A provider in the chooser, or on the card after a scan: without an install file
\* it is registered while the user signs in, and the provider stashed for later.
StartLink(p) ==
  /\ token[active] = None
  /\ Clicks("link")
  /\ IF install[active] = None
     THEN stash' = p /\ TryStartRegister(active)
     ELSE UNCHANGED <<stash, regSlot, reg>>
  /\ TryStartSession(p, active)
  /\ UNCHANGED <<disk, server, active, pref, minted, user, switches>>

\* Shown once nothing is being registered.  What the thread still brings is dropped.
CancelSession ==
  /\ slot # None /\ regSlot = None
  /\ link' = [link EXCEPT ![slot] = IF @.pc = "done" THEN NoLink ELSE [@ EXCEPT !.cancel = TRUE]]
  /\ slot' = None
  /\ UNCHANGED <<disk, server, regSlot, stash, active, reg, pref, minted, bounds>>

ClickRegister ==
  /\ regSlot = None /\ SomeRegistrar
  /\ Clicks("register")
  /\ TryStartRegister(active)
  /\ UNCHANGED <<disk, server, slot, stash, active, link, pref, minted, user, switches>>

\* Submitting, or a ranked benchmark, registers first, in its own thread, the identity
\* that is there, or else a new one.
AutoRegister ==
  /\ SomeRegistrar
  /\ install[active] # None => ~install[active].registered
  /\ Clicks("submit")
  /\ IF install[active] = None
     THEN minted' = minted + 1 /\ Spawn("worker", "post", active, minted')
     ELSE minted' = minted /\ Spawn("worker", "post", active, install[active].id)
  /\ UNCHANGED <<disk, server, slots, active, link, pref, user, switches>>

ResetInstall ==
  /\ SomeRegistrar
  /\ Clicks("reset")
  /\ Spawn("reset", "backup", active, 0)
  /\ UNCHANGED <<disk, server, slots, active, link, pref, minted, user, switches>>

Unlink ==
  /\ token[active] # None
  /\ Clicks("unlink")
  /\ token' = [token EXCEPT ![active] = None]
  /\ UNCHANGED <<install, kept, second, server, slots, active, link, reg, pref, minted, user, switches>>

SwitchChannel(c) ==
  /\ c # active /\ switches < user.switches
  /\ user.patient => Quiet
  /\ active' = c
  /\ switches' = switches + 1
  /\ UNCHANGED <<disk, server, slots, link, reg, pref, minted, user, clicks>>

\* A share preference, a benchmark lane or a counter: the file is read, one field of
\* it changed, and all of it written.
PreferLoad ==
  /\ pref = None /\ install[active] # None
  /\ Clicks("prefer")
  /\ pref' = install[active]
  /\ UNCHANGED <<disk, server, slots, active, link, reg, minted, user, switches>>

PreferSave ==
  /\ pref # None
  /\ install' = [install EXCEPT ![active] = pref]
  /\ pref' = None
  /\ UNCHANGED <<kept, second, token, server, slots, active, link, reg, minted, bounds>>

-----------------------------------------------------------------------------
(* A registering thread.                                                   *)

GoOn(r, pc) == reg' = [reg EXCEPT ![r].pc = pc]

\* A session's result waits for the poll; nobody asks for that of a reset, and a
\* worker goes on to submit.
EndReg(r, ok) ==
  reg' = [reg EXCEPT ![r] = IF @.kind = "session" THEN [@ EXCEPT !.pc = "done", !.ok = ok]
                                                   ELSE NoReg]

\* Mutant: the name of the backup bears no date.
KeptAlone(c) == <<install[c].id>>

\* install.{channel}.json.bak.<seconds>: a second one in the same second replaces the
\* first.
KeptWith(c) ==
  IF c \in second THEN [kept[c] EXCEPT ![Len(kept[c])] = install[c].id]
                  ELSE Append(kept[c], install[c].id)

\* back_up_for, then new_unregistered.  Failing to back up stops nothing.
BackUp(r) ==
  LET c == reg[r].ch IN
  /\ reg[r].pc = "backup"
  /\ \/ /\ install[c] # None
        /\ kept' = [kept EXCEPT ![c] = KeptWith(c)]
        /\ second' = second \union {c}
        /\ install' = [install EXCEPT ![c] = None]
     \/ /\ install[c] = None \/ DiskFails
        /\ UNCHANGED <<install, kept, second>>
  /\ minted' = minted + 1
  /\ reg' = [reg EXCEPT ![r] = [@ EXCEPT !.id = minted',
                                       !.pc = IF reg[r].kind = "reset" THEN "saveChannel" ELSE "post"]]
  /\ UNCHANGED <<token, server, slots, active, link, pref, bounds>>

\* register_cli's request: the server registers the identity, or not, and the answer
\* may be lost.
RegisterPost(r) ==
  /\ reg[r].pc = "post"
  /\ \/ /\ known' = [known EXCEPT ![reg[r].ch] = @ \union {reg[r].id}]
        /\ \/ GoOn(r, "saveActive")
           \/ NetFails /\ EndReg(r, FALSE)
     \/ NetFails /\ EndReg(r, FALSE) /\ UNCHANGED known
  /\ UNCHANGED <<disk, bound, slots, active, link, pref, minted, bounds>>

\* submit_registration saves to the active channel, whatever channel this is about.
SaveActive(r) ==
  /\ reg[r].pc = "saveActive"
  /\ \/ /\ install' = [install EXCEPT ![active] = [id |-> reg[r].id, registered |-> TRUE]]
        /\ IF reg[r].kind = "session" THEN GoOn(r, "saveChannel") ELSE EndReg(r, TRUE)
     \/ DiskFails /\ EndReg(r, FALSE) /\ UNCHANGED install
  /\ UNCHANGED <<kept, second, token, server, slots, active, link, pref, minted, bounds>>

\* The session saves once more to its own channel; a reset saves here only.
SaveChannel(r) ==
  /\ reg[r].pc = "saveChannel"
  /\ \/ /\ install' = [install EXCEPT ![reg[r].ch] =
                         [id |-> reg[r].id, registered |-> reg[r].kind = "session"]]
        /\ EndReg(r, TRUE)
     \/ DiskFails /\ EndReg(r, FALSE) /\ UNCHANGED install
  /\ UNCHANGED <<kept, second, token, server, slots, active, link, pref, minted, bounds>>

Tick ==
  /\ second # {}
  /\ second' = {}
  /\ UNCHANGED <<install, kept, token, server, slots, active, link, reg, pref, minted, bounds>>

-----------------------------------------------------------------------------
(* A sign-in thread and its listener.                                      *)

Step(t, pc) == link' = [link EXCEPT ![t].pc = pc]

\* The result of a session that was cancelled reaches nobody.
End(t, result) ==
  link' = [link EXCEPT ![t] = IF slot = t THEN [@ EXCEPT !.pc = "done", !.result = result,
                                                         !.listener = "none"]
                                          ELSE NoLink]

Bind(t) ==
  /\ link[t].pc = "bind"
  /\ \/ link' = [link EXCEPT ![t].pc = "browser", ![t].listener = "check"]
     \/ NetFails /\ End(t, "failed")
  /\ UNCHANGED <<disk, server, slots, active, reg, pref, minted, bounds>>

OpenBrowser(t) ==
  /\ link[t].pc = "browser"
  /\ \/ Step(t, "receive")
     \/ NetFails /\ End(t, "failed")
  /\ UNCHANGED <<disk, server, slots, active, reg, pref, minted, bounds>>

\* The listener looks at the flag, then for a connection, and sleeps.
ListenerChecks(t) ==
  /\ link[t].listener = "check"
  /\ link' = [link EXCEPT ![t].listener = IF link[t].cancel THEN "gone" ELSE "accept"]
  /\ UNCHANGED <<disk, server, slots, active, reg, pref, minted, bounds>>

ListenerSleeps(t) ==
  /\ link[t].listener = "accept"
  /\ link' = [link EXCEPT ![t].listener = "check"]
  /\ UNCHANGED <<disk, server, slots, active, reg, pref, minted, bounds>>

\* The provider's redirect, with a code or with a refusal.
Redirect(t, what) ==
  /\ link[t].listener = "accept" /\ link[t].pc \in {"receive", "look"}
  /\ link' = [link EXCEPT ![t].listener = "gone", ![t].payload = what]
  /\ UNCHANGED <<disk, server, slots, active, reg, pref, minted, bounds>>

Receive(t) ==
  /\ link[t].pc = "receive"
  /\ CASE link[t].payload = "code" -> Step(t, "load")
       [] link[t].payload = "refusal" -> End(t, "failed")
       [] link[t].payload = None /\ link[t].listener = "gone" -> End(t, "failed")
       [] OTHER -> Step(t, "look")
  /\ UNCHANGED <<disk, server, slots, active, reg, pref, minted, bounds>>

LookAtFlag(t) ==
  /\ link[t].pc = "look"
  /\ IF link[t].cancel THEN End(t, "failed") ELSE Step(t, "receive")
  /\ UNCHANGED <<disk, server, slots, active, reg, pref, minted, bounds>>

TimeOut(t) ==
  /\ link[t].pc = "look" /\ ~link[t].cancel
  /\ End(t, "failed")
  /\ UNCHANGED <<disk, server, slots, active, reg, pref, minted, bounds>>

\* exchange_code waits up to ten seconds for the install file of the active channel.
LoadInstall(t) ==
  /\ link[t].pc = "load"
  /\ IF install[active] = None THEN End(t, "failed")
     ELSE link' = [link EXCEPT ![t].pc = "exchange", ![t].id = install[active].id]
  /\ UNCHANGED <<disk, server, slots, active, reg, pref, minted, bounds>>

Bond(t) == [id |-> link[t].id, provider |-> link[t].provider]

BoundElsewhere(t) ==
  \E b \in bound[link[t].ch] : b.id = link[t].id /\ b.provider # link[t].provider

\* Mutant: an identity the server refuses is taken for linked.
ExchangeUnchecked(t) ==
  /\ link[t].pc = "exchange"
  /\ IF link[t].id \in known[link[t].ch]
     THEN bound' = [bound EXCEPT ![link[t].ch] = @ \union {Bond(t)}]
     ELSE UNCHANGED bound
  /\ Step(t, "save")
  /\ UNCHANGED <<disk, known, slots, active, reg, pref, minted, bounds>>

\* The exchange: refused for an identity the server does not know, or knows with
\* another account; else the server links it, and the answer may be lost.
Exchange(t) ==
  LET c == link[t].ch IN
  /\ link[t].pc = "exchange"
  /\ \/ link[t].id \notin known[c] /\ End(t, "unregistered") /\ UNCHANGED bound
     \/ BoundElsewhere(t) /\ End(t, "failed") /\ UNCHANGED bound
     \/ /\ link[t].id \in known[c] /\ ~BoundElsewhere(t)
        /\ bound' = [bound EXCEPT ![c] = @ \union {Bond(t)}]
        /\ \/ Step(t, "save")
           \/ NetFails /\ End(t, "failed")
     \/ NetFails /\ End(t, "failed") /\ UNCHANGED bound
  /\ UNCHANGED <<disk, known, slots, active, reg, pref, minted, bounds>>

\* Whether the session was cancelled in the meantime is not asked again.
SaveToken(t) ==
  /\ link[t].pc = "save"
  /\ \/ token' = [token EXCEPT ![link[t].ch] = Bond(t)] /\ End(t, "linked")
     \/ DiskFails /\ End(t, "failed") /\ UNCHANGED token
  /\ UNCHANGED <<install, kept, second, server, slots, active, reg, pref, minted, bounds>>

-----------------------------------------------------------------------------
(* The polls of each frame.                                                *)

\* Mutant: only a link that was made empties the slot.
PollSessionLinked ==
  /\ slot # None
  /\ link[slot].pc = "done" /\ link[slot].result = "linked"
  /\ slot' = None
  /\ link' = [link EXCEPT ![slot] = NoLink]
  /\ UNCHANGED <<regSlot, stash, reg, disk, server, active, pref, minted, bounds>>

\* poll_session: for an identity the server does not know, a registration follows.
PollSession ==
  /\ slot # None
  /\ link[slot].pc = "done"
  /\ slot' = None
  /\ link' = [link EXCEPT ![slot] = NoLink]
  /\ IF link[slot].result = "unregistered"
     THEN stash' = link[slot].provider /\ TryStartRegister(link[slot].ch)
     ELSE UNCHANGED <<regSlot, stash, reg>>
  /\ UNCHANGED <<disk, server, active, pref, minted, bounds>>

\* poll_register_session: a sign-in with the stashed provider follows, on the active
\* channel.
PollRegister ==
  /\ regSlot # None
  /\ reg[regSlot].pc = "done"
  /\ regSlot' = None
  /\ reg' = [reg EXCEPT ![regSlot] = NoReg]
  /\ IF reg[regSlot].ok /\ stash # None
     THEN stash' = None /\ TryStartSession(stash, active)
     ELSE UNCHANGED <<slot, stash, link>>
  /\ UNCHANGED <<disk, server, active, pref, minted, bounds>>

Click ==
  \/ \E p \in Providers : StartLink(p)
  \/ CancelSession \/ ClickRegister \/ AutoRegister \/ ResetInstall \/ Unlink \/ PreferLoad
  \/ \E c \in Channels : SwitchChannel(c)

Linker(t) ==
  \/ Bind(t) \/ OpenBrowser(t) \/ Receive(t) \/ LookAtFlag(t)
  \/ LoadInstall(t) \/ Exchange(t) \/ SaveToken(t)
Listener(t) == ListenerChecks(t) \/ ListenerSleeps(t)
Registrar(r) == BackUp(r) \/ RegisterPost(r) \/ SaveActive(r) \/ SaveChannel(r)

Next ==
  \/ Click \/ PreferSave \/ Tick \/ PollSession \/ PollRegister
  \/ \E t \in Linkers : \/ Linker(t) \/ Listener(t) \/ TimeOut(t)
                        \/ \E what \in {"code", "refusal"} : Redirect(t, what)
  \/ \E r \in Registrars : Registrar(r)

\* Threads run, a window that polls is on the screen, and time passes.
Fairness ==
  /\ WF_vars(PollSession) /\ WF_vars(PollRegister)
  /\ \A t \in Linkers : WF_vars(Linker(t)) /\ SF_vars(TimeOut(t))
  /\ \A r \in Registrars : WF_vars(Registrar(r))

Spec == Init /\ [][Next]_vars /\ Fairness

-----------------------------------------------------------------------------
(* Properties.                                                             *)

\* What an install file or a token file says, a server has: an identity on disk that is
\* called registered is known to a server, and to that of its own channel while the user
\* stays on one; a link on disk is one that the server keeps.  (Files are written after
\* the answer, by threads that outlive the session that wanted them.)
ServerKnows ==
  /\ \A c \in Channels :
       (install[c] # None /\ install[c].registered) =>
         \E d \in Channels : install[c].id \in known[d] /\ (user.switches = 0 => d = c)
  /\ \A c \in Channels : token[c] # None => token[c] \in bound[c]

OnDisk == (UNION { Range(kept[c]) : c \in Channels })
            \union { install[c].id : c \in {d \in Channels : install[d] # None} }

\* An identity that was once on disk is never lost, in the install file or a backup of
\* it: for a user who lets one thing end before the next begins, and if backing up works.
IdentitiesKept == [][user.patient /\ ~DiskFails => OnDisk \subseteq OnDisk']_vars

\* Sign-in and registration both end, and so does the chain they start of each other's
\* results: once the user clicks no more, the slots that let only one of each run are
\* free, and stay so.
SessionsEnd == <>[](slot = None /\ regSlot = None)
=============================================================================
