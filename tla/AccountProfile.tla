--------------------------- MODULE AccountProfile ---------------------------
(***************************************************************************)
(* What the settings show and change of the account an installation is     *)
(* linked to: the flags of the public profile and the nickname             *)
(* (src/gui/widgets/settings_modal.rs, leaderboard/account_privacy.rs,     *)
(* account_display_name.rs), on top of SignIn, which makes and unmakes the *)
(* link.  The flags are sent all together; what is shown lives as long as  *)
(* the process.  Each request has a thread of its own.                     *)
(***************************************************************************)
EXTENDS SignIn, FiniteSets

CONSTANTS
  Flags,      \* show_display_name, show_provider, ...
  Nicknames,  \* those the user may choose, all valid
  Unnamed        \* the name of an account nobody has named

Accounts == Channels \X Providers

ASSUME ProfileAssumption ==
  /\ \A flags \in SUBSET Flags : flags # None
  /\ None \notin Nicknames \union {Unnamed, "get", "patch", "set", "failed"}
  /\ \A u \in Users : /\ u.visits \subseteq {"privacy", "nickname"} /\ u.edits \in Nat
                      /\ u.optedIn \in [Accounts -> SUBSET Flags]
                      /\ u.shapes \subseteq SUBSET Flags /\ u.midFrame \in BOOLEAN

VARIABLES
  \* More fields of user: visits, what of the settings it looks at; edits, a bound; optedIn,
  \* the flags the accounts begin with; shapes, sets of flags: the server may answer with
  \* those alone instead of all; midFrame: an answer may arrive while a frame is drawn.
  profile,  \* server: account -> [flags, name]
  privacy,  \* cache, in_flight and last_outcome of the flags
  frame,    \* None, or what the frame that is being drawn has read: [flags, install]
  nick,     \* NICKNAME_UI
  call,     \* the thread of each kind: what it asks, as which install, and the
            \* reply, None for a failure
  touched,  \* history: the flags clicked since the server last told all of them
  edits

profileVars == <<profile, privacy, frame, nick, call, touched, edits>>
allVars == <<vars, profileVars>>

Calls == {"flags", "name", "rename"}

NoCall == [at |-> "idle", what |-> None, by |-> None, value |-> None, reply |-> None]

NicknameUi == [current |-> None, fetching |-> FALSE, saving |-> FALSE, editing |-> FALSE,
               edit_buf |-> None, confirming |-> FALSE, last_message |-> None,
               initial_fetch_attempted |-> FALSE]

ProfileInit ==
  /\ profile = [a \in Accounts |-> [flags |-> user.optedIn[a], name |-> Unnamed]]
  /\ privacy = [cache |-> None, in_flight |-> FALSE, last_outcome |-> None]
  /\ frame = None
  /\ nick = NicknameUi
  /\ call = [k \in Calls |-> NoCall]
  /\ touched = {} /\ edits = 0

Linked == install[active] # None /\ token[active] # None

May(visit) == visit \in user.visits /\ Linked

Start(k, at, what, by, value) ==
  call' = [call EXCEPT ![k] = [at |-> at, what |-> what, by |-> by, value |-> value, reply |-> None]]

-----------------------------------------------------------------------------
(* Threads: fetch, update and set.                                         *)

\* A nickname thread loads the install file of the channel that is active by now.
Load(k) ==
  /\ call[k].at = "load"
  /\ call' = [call EXCEPT ![k].by = install[active],
                          ![k].at = IF install[active] = None THEN "answered" ELSE "ask"]
  /\ UNCHANGED <<profile, privacy, frame, nick, touched, edits>>

\* The account the server finds for an install.
AccountsOf(id) == {a \in Accounts : [id |-> id, provider |-> a[2]] \in bound[a[1]]}

Served(p, k) ==
  CASE call[k].what = "patch" -> [p EXCEPT !.flags = call[k].value]
    [] call[k].what = "set"   -> [p EXCEPT !.name = call[k].value]
    [] OTHER                  -> p

\* Mutant: an answer of another shape is taken for one with every flag off.
ParsedLax(p, keys) == [p EXCEPT !.flags = @ \cap keys]

\* parse_flags_body, parse_get_response, parse_set_response: without a known key the
\* answer counts as a failure; a flag it leaves out is taken to be off.
Parsed(p, keys) == IF keys = {} THEN None ELSE [p EXCEPT !.flags = @ \cap keys]

Replied(k, reply) == call' = [call EXCEPT ![k].at = "answered", ![k].reply = reply]

Ask(k) ==
  /\ call[k].at = "ask"
  /\ \/ /\ ~call[k].by.registered \/ AccountsOf(call[k].by.id) = {} \/ NetFails
        /\ Replied(k, None)
        /\ UNCHANGED profile
     \/ /\ call[k].by.registered
        /\ \E a \in AccountsOf(call[k].by.id) :
             /\ profile' = [profile EXCEPT ![a] = Served(@, k)]
             /\ \/ \E keys \in {Flags} \cup user.shapes : Replied(k, Parsed(profile'[a], keys))
                \/ NetFails /\ Replied(k, None)
  /\ UNCHANGED <<privacy, frame, nick, touched, edits>>

Told(k) == call[k].reply # None

Hang(k) == call' = [call EXCEPT ![k] = NoCall]

-----------------------------------------------------------------------------
(* render_public_profile_visibility                                        *)

\* Without flags to show they are fetched, in each frame until they have come.
BeginFrame ==
  /\ frame = None /\ May("privacy")
  /\ LET kick == privacy.cache = None /\ ~privacy.in_flight IN
     /\ privacy' = [privacy EXCEPT !.in_flight = @ \/ kick]
     /\ IF kick THEN Start("flags", "ask", "get", install[active], None) ELSE UNCHANGED call
  /\ frame' = [flags |-> IF privacy.cache = None THEN {} ELSE privacy.cache,
               install |-> install[active]]
  /\ UNCHANGED <<profile, nick, touched, edits>>

EndFrame ==
  /\ frame # None
  /\ frame' = None
  /\ UNCHANGED <<profile, privacy, nick, call, touched, edits>>

Flip(flags, f) == IF f \in flags THEN flags \ {f} ELSE flags \cup {f}

\* The flags the frame has read, one of them flipped, are shown at once and sent.
Toggle(f) ==
  /\ frame # None /\ ~privacy.in_flight
  /\ edits < user.edits
  /\ edits' = edits + 1
  /\ LET current == Flip(frame.flags, f) IN
     /\ privacy' = [cache |-> current, in_flight |-> TRUE, last_outcome |-> None]
     /\ Start("flags", "ask", "patch", frame.install, current)
  /\ frame' = None
  /\ touched' = touched \cup {f}
  /\ UNCHANGED <<profile, nick>>

\* Mutant: a failure is not kept to be shown.
FlagsAnsweredQuietly ==
  /\ call["flags"].at = "answered"
  /\ frame = None \/ user.midFrame
  /\ privacy' = [privacy EXCEPT !.in_flight = FALSE,
                   !.cache = IF Told("flags") THEN call["flags"].reply.flags ELSE @]
  /\ touched' = IF Told("flags") THEN {} ELSE touched
  /\ Hang("flags")
  /\ UNCHANGED <<profile, frame, nick, edits>>

FlagsAnswered ==
  /\ call["flags"].at = "answered"
  /\ frame = None \/ user.midFrame
  /\ privacy' = [in_flight |-> FALSE,
                 cache |-> IF Told("flags") THEN call["flags"].reply.flags ELSE privacy.cache,
                 last_outcome |-> IF Told("flags") THEN None ELSE "failed"]
  /\ touched' = IF Told("flags") THEN {} ELSE touched
  /\ Hang("flags")
  /\ UNCHANGED <<profile, frame, nick, edits>>

-----------------------------------------------------------------------------
(* render_nickname_row                                                     *)

OtherThanNick == <<profile, privacy, frame, touched>>

FetchOnce ==
  /\ May("nickname") /\ ~nick.initial_fetch_attempted
  /\ nick' = [nick EXCEPT !.initial_fetch_attempted = TRUE, !.fetching = TRUE]
  /\ Start("name", "load", "get", None, None)
  /\ UNCHANGED <<OtherThanNick, edits>>

\* While the first name is on its way there is nothing to click.
ClickEdit ==
  /\ May("nickname") /\ nick.initial_fetch_attempted
  /\ ~nick.confirming /\ ~nick.editing /\ ~nick.saving
  /\ ~(nick.fetching /\ nick.current = None)
  /\ edits < user.edits
  /\ edits' = edits + 1
  /\ nick' = [nick EXCEPT !.editing = TRUE, !.confirming = FALSE, !.last_message = None,
                !.edit_buf = IF nick.current = Unnamed THEN None ELSE nick.current]
  /\ UNCHANGED <<OtherThanNick, call>>

ClickSave(n) ==
  /\ May("nickname") /\ nick.editing /\ ~nick.confirming
  /\ nick' = [nick EXCEPT !.edit_buf = n, !.confirming = TRUE]
  /\ UNCHANGED <<OtherThanNick, call, edits>>

ClickCancel ==
  /\ May("nickname") /\ nick.editing /\ ~nick.confirming
  /\ nick' = [nick EXCEPT !.editing = FALSE, !.edit_buf = None]
  /\ UNCHANGED <<OtherThanNick, call, edits>>

ClickConfirm ==
  /\ May("nickname") /\ nick.confirming /\ ~nick.saving
  /\ nick' = [nick EXCEPT !.saving = TRUE, !.last_message = None]
  /\ Start("rename", "load", "set", None, nick.edit_buf)
  /\ UNCHANGED <<OtherThanNick, edits>>

\* Also while the name is being saved.
ClickBack ==
  /\ May("nickname") /\ nick.confirming
  /\ nick' = [nick EXCEPT !.confirming = FALSE]
  /\ UNCHANGED <<OtherThanNick, call, edits>>

NameAnswered ==
  /\ call["name"].at = "answered"
  /\ nick' = [nick EXCEPT !.fetching = FALSE,
                !.current = IF Told("name") THEN call["name"].reply.name ELSE @]
  /\ Hang("name")
  /\ UNCHANGED <<OtherThanNick, edits>>

RenameAnswered ==
  /\ call["rename"].at = "answered"
  /\ nick' = IF call["rename"].by = None
             THEN [nick EXCEPT !.saving = FALSE, !.last_message = "failed"]
             ELSE IF Told("rename")
             THEN [nick EXCEPT !.saving = FALSE, !.editing = FALSE, !.confirming = FALSE,
                     !.current = call["rename"].reply.name, !.last_message = "set",
                     !.edit_buf = None]
             ELSE [nick EXCEPT !.saving = FALSE, !.editing = FALSE, !.confirming = FALSE,
                     !.last_message = "failed"]
  /\ Hang("rename")
  /\ UNCHANGED <<OtherThanNick, edits>>

-----------------------------------------------------------------------------

ProfileNext ==
  \/ \E k \in Calls : Load(k) \/ Ask(k)
  \/ BeginFrame \/ EndFrame \/ FlagsAnswered
  \/ \E f \in Flags : Toggle(f)
  \/ FetchOnce \/ ClickEdit \/ ClickCancel \/ ClickConfirm \/ ClickBack
  \/ \E n \in Nicknames : ClickSave(n)
  \/ NameAnswered \/ RenameAnswered

FullInit == Init /\ ProfileInit

FullNext ==
  \/ Next /\ UNCHANGED profileVars
  \/ ProfileNext /\ UNCHANGED vars

FullSpec == FullInit /\ [][FullNext]_allVars /\ Fairness

-----------------------------------------------------------------------------
(* Properties.                                                             *)

BoundAccounts == {a \in Accounts : \E b \in bound[a[1]] : b.provider = a[2]}

OneAccount == \A a, b \in BoundAccounts : a = b

\* The flags that every answer with a known key has: a flag an answer leaves out is shown
\* as off, and the next click would turn it off.
AlwaysTold == {f \in Flags : \A keys \in user.shapes : keys # {} => f \in keys}

\* A request changes no flag of the account that the user has not clicked, although it
\* carries all of them: not after a request or an answer was lost, nor after an answer
\* this program cannot read ("clobbered the optimistic toggle", account_privacy.rs; of
\* a user with one account, if no answer arrives between the two reads of a frame, and of
\* the flags no answer leaves out).
UntouchedKept ==
  [][OneAccount /\ ~user.midFrame =>
       \A a \in Accounts : \A f \in AlwaysTold \ touched :
         f \in profile[a].flags <=> f \in profile'[a].flags]_allVars

\* When no request is under way and no failure is shown, the flags shown are those of
\* the account, but for flags that answers leave out; and a nickname that is reported as
\* set is the one the account has.
ShownIsStored ==
  OneAccount => \A a \in BoundAccounts :
    /\ ~privacy.in_flight /\ privacy.last_outcome = None /\ privacy.cache # None
         => \A f \in AlwaysTold : f \in privacy.cache <=> f \in profile[a].flags
    /\ nick.last_message = "set" => nick.current = profile[a].name

\* The nickname shown is the account's, when nothing is said against it ("The Edit button
\* re-spawns explicitly", settings_modal.rs, of the fetch).
NameIsStored ==
  OneAccount => \A a \in BoundAccounts :
    ~nick.saving /\ nick.last_message = None /\ nick.current # None =>
      nick.current = profile[a].name
=============================================================================
