---------------------------- MODULE SignInProofs ----------------------------
(***************************************************************************)
(* What TLAPS proves about SignIn, for any number of threads, accounts and *)
(* channels: what the files on disk say of the servers is so, whatever the *)
(* user does; and for a user who waits, where the disk works, no identity  *)
(* that was once on disk is lost.  Then about AccountProfile, for any      *)
(* number of flags and nicknames as well: for one account, a click changes *)
(* no flag but the one clicked, and what the settings show without a       *)
(* warning is what the account has.                                        *)
(***************************************************************************)
EXTENDS AccountProfile, TLAPS

-----------------------------------------------------------------------------
(* The inductive invariant.  ServerKnows alone is not inductive: a thread   *)
(* carries an answer, or a file it has loaded, over steps of the others.    *)

InstallFile == [id : Nat, registered : BOOLEAN]
TokenFile   == [id : Nat, provider : Providers \union {None}]

LinkState ==
  [pc : {"idle", "bind", "browser", "receive", "look", "load", "exchange", "save", "done"},
   provider : Providers \union {None}, ch : Channels \union {None}, cancel : BOOLEAN,
   listener : {"none", "check", "accept", "gone"}, payload : {None, "code", "refusal"},
   id : Nat, result : {None, "linked", "failed", "unregistered"}]

RegState ==
  [pc : {"idle", "backup", "post", "saveActive", "saveChannel", "done"},
   kind : {None, "session", "worker", "reset"}, ch : Channels \union {None},
   id : Nat, ok : BOOLEAN]

TypeOK ==
  /\ user \in Users /\ active \in Channels
  /\ install \in [Channels -> InstallFile \union {None}]
  /\ token \in [Channels -> TokenFile \union {None}]
  /\ known \in [Channels -> SUBSET Nat]
  /\ bound \in [Channels -> SUBSET TokenFile]
  /\ slot \in Linkers \union {None} /\ regSlot \in Registrars \union {None}
  /\ stash \in Providers \union {None}
  /\ link \in [Linkers -> LinkState] /\ reg \in [Registrars -> RegState]
  /\ pref \in InstallFile \union {None}
  /\ minted \in Nat

\* What the servers with K know: id is known to that of c, while user u stays on one.
Known(u, K, id, c) == \E d \in Channels : id \in K[d] /\ (u.switches = 0 => d = c)

\* A file that may be installed on c.
Backed(u, K, file, c) == file # None /\ file.registered => Known(u, K, file.id, c)

\* While user u stays on one channel, everything is about that channel, a.
Here(u, a, c) == c \in Channels /\ (u.switches = 0 => c = a)

\* What a sign-in thread carries, of servers that keep the links B.
LinkOK(u, a, B, l) ==
  l.pc # "idle" =>
    /\ Here(u, a, l.ch)
    /\ l.pc = "save" => [id |-> l.id, provider |-> l.provider] \in B[l.ch]

\* What a registering thread carries.
RegOK(u, a, K, r) ==
  r.pc # "idle" =>
    /\ Here(u, a, r.ch)
    /\ r.pc = "saveActive" \/ (r.pc = "saveChannel" /\ r.kind = "session") => r.id \in K[r.ch]

IInv ==
  /\ TypeOK
  /\ \A c \in Channels : Backed(user, known, install[c], c)
  /\ Backed(user, known, pref, active)
  /\ \A c \in Channels : token[c] # None => token[c] \in bound[c]
  /\ \A t \in Linkers : LinkOK(user, active, bound, link[t])
  /\ \A r \in Registrars : RegOK(user, active, known, reg[r])

-----------------------------------------------------------------------------
(* Steps of parts of the state.                                            *)

\* Servers with K2 know no less than servers with K.
AtLeast(K, K2) == \A c \in Channels : K[c] \subseteq K2[c]

\* What the servers know they go on knowing: files stay backed,
LEMMA BackedStays ==
  ASSUME NEW u, NEW K, NEW K2, AtLeast(K, K2), NEW file, NEW c, Backed(u, K, file, c)
  PROVE  Backed(u, K2, file, c)
BY DEF AtLeast, Backed, Known

\* ... sign-in threads stay in order,
LEMMA LinkStays ==
  ASSUME NEW u, NEW a, NEW B, NEW B2, AtLeast(B, B2), NEW l, LinkOK(u, a, B, l)
  PROVE  LinkOK(u, a, B2, l)
BY DEF AtLeast, LinkOK, Here

\* ... and so do registering ones.
LEMMA RegStays ==
  ASSUME NEW u, NEW a, NEW K, NEW K2, AtLeast(K, K2), NEW r, RegOK(u, a, K, r)
  PROVE  RegOK(u, a, K2, r)
BY DEF AtLeast, RegOK, Here

\* A step after which the servers know no less, and each part is what it was or is in
\* order, keeps the invariant.
LEMMA Keeps ==
  ASSUME IInv, TypeOK', user' = user, active' = active,
         AtLeast(known, known'), AtLeast(bound, bound'),
         \A c \in Channels : install'[c] = install[c] \/ Backed(user, known', install'[c], c),
         pref' = pref \/ Backed(user, known', pref', active),
         \A c \in Channels : token'[c] \in {token[c], None} \union bound'[c],
         \A t \in Linkers : link'[t] = link[t] \/ LinkOK(user, active, bound', link'[t]),
         \A r \in Registrars : reg'[r] = reg[r] \/ RegOK(user, active, known', reg'[r])
  PROVE  IInv'
<1>1. \A c \in Channels : Backed(user, known', install'[c], c)
  BY BackedStays DEF IInv
<1>2. Backed(user, known', pref', active)
  BY BackedStays DEF IInv
<1>3. \A c \in Channels : token'[c] # None => token'[c] \in bound'[c]
  BY DEF IInv, AtLeast
<1>4. \A t \in Linkers : LinkOK(user, active, bound', link'[t])
  BY LinkStays DEF IInv
<1>5. \A r \in Registrars : RegOK(user, active, known', reg'[r])
  BY RegStays DEF IInv
<1> QED BY <1>1, <1>2, <1>3, <1>4, <1>5 DEF IInv

\* A step that changes no file, no server and no thread.
LEMMA Untouched ==
  ASSUME IInv, UNCHANGED <<user, active, install, token, known, bound, link, reg, pref, minted>>,
         slot' \in Linkers \union {None}, regSlot' \in Registrars \union {None},
         stash' \in Providers \union {None}
  PROVE  IInv'
<1>1. TypeOK'
  BY DEF IInv, TypeOK
<1>2. AtLeast(known, known') /\ AtLeast(bound, bound')
  BY DEF AtLeast
<1> QED BY <1>1, <1>2, Keeps

\* The invariant holds at first (the files of a program just started).
LEMMA InitInv == Init => IInv
<1> SUFFICES ASSUME Init PROVE IInv
  OBVIOUS
<1>1. TypeOK
  BY SignInAssumption
  DEF Init, TypeOK, SignInAssumption, InstallFile, TokenFile, LinkState, RegState, NoLink, NoReg
<1>2. \A c \in Channels : Backed(user, known, install[c], c)
  BY DEF Init, Backed, Known
<1>3. Backed(user, known, pref, active)
  BY DEF Init, Backed
<1>4. \A t \in Linkers : LinkOK(user, active, bound, link[t])
  BY DEF Init, LinkOK, NoLink
<1>5. \A r \in Registrars : RegOK(user, active, known, reg[r])
  BY DEF Init, RegOK, NoReg
<1> QED BY <1>1, <1>2, <1>3, <1>4, <1>5 DEF IInv, Init

-----------------------------------------------------------------------------
(* Threads that start and threads that move.                               *)

\* A sign-in thread starts on a channel that is in order (oauth.rs try_start_session).
LEMMA SessionStarts ==
  ASSUME IInv, NEW p \in Providers, NEW c, Here(user, active, c), TryStartSession(p, c)
  PROVE  /\ link' \in [Linkers -> LinkState] /\ slot' \in Linkers \union {None}
         /\ \A B : \A t \in Linkers : link'[t] = link[t] \/ LinkOK(user, active, B, link'[t])
<1> DEFINE t == CHOOSE x \in Linkers : ~Linking(x)
           l == [NoLink EXCEPT !.pc = "bind", !.provider = p, !.ch = c]
<1>1. CASE slot # None \/ \A x \in Linkers : Linking(x)
  BY <1>1 DEF TryStartSession, IInv, TypeOK
<1>2. CASE ~ (slot # None \/ \A x \in Linkers : Linking(x))
  <2>1. t \in Linkers
    BY <1>2
  <2>2. slot' = t /\ link' = [link EXCEPT ![t] = l]
    BY <1>2 DEF TryStartSession
  <2>3. l \in LinkState /\ \A B : LinkOK(user, active, B, l)
    BY DEF NoLink, LinkState, LinkOK, Here
  <2> HIDE DEF t, l
  <2> QED BY <2>1, <2>2, <2>3 DEF IInv, TypeOK
<1> QED BY <1>1, <1>2

\* So does a registering thread,
LEMMA Spawned ==
  ASSUME IInv, NEW kind \in {"session", "worker", "reset"}, NEW pc \in {"backup", "post"},
         NEW c, Here(user, active, c), NEW id \in Nat, SomeRegistrar, Spawn(kind, pc, c, id)
  PROVE  /\ reg' \in [Registrars -> RegState]
         /\ \A K : \A r \in Registrars : reg'[r] = reg[r] \/ RegOK(user, active, K, reg'[r])
<1> DEFINE r == CHOOSE x \in Registrars : ~Registering(x)
           new == [pc |-> pc, kind |-> kind, ch |-> c, id |-> id, ok |-> FALSE]
<1>1. r \in Registrars
  BY DEF SomeRegistrar
<1>2. reg' = [reg EXCEPT ![r] = new]
  BY DEF Spawn
<1>3. new \in RegState /\ \A K : RegOK(user, active, K, new)
  BY DEF RegState, RegOK, Here
<1> HIDE DEF r, new
<1> QED BY <1>1, <1>2, <1>3 DEF IInv, TypeOK

\* ... also through the slot (registration.rs try_start_register_session).
LEMMA RegistrationStarts ==
  ASSUME IInv, NEW c, Here(user, active, c), TryStartRegister(c)
  PROVE  /\ reg' \in [Registrars -> RegState] /\ regSlot' \in Registrars \union {None}
         /\ \A K : \A r \in Registrars : reg'[r] = reg[r] \/ RegOK(user, active, K, reg'[r])
<1>1. CASE regSlot # None \/ ~SomeRegistrar
  BY <1>1 DEF TryStartRegister, IInv, TypeOK
<1>2. CASE ~ (regSlot # None \/ ~SomeRegistrar)
  <2>1. regSlot' \in Registrars
    BY <1>2 DEF TryStartRegister, SomeRegistrar
  <2>2. Spawn("session", "backup", c, 0) /\ SomeRegistrar
    BY <1>2 DEF TryStartRegister
  <2>3. /\ reg' \in [Registrars -> RegState]
        /\ \A K : \A r \in Registrars : reg'[r] = reg[r] \/ RegOK(user, active, K, reg'[r])
    BY <2>2, Spawned
  <2> QED BY <2>1, <2>3
<1> QED BY <1>1, <1>2

\* A sign-in thread that moves on.
LEMMA LinkMoves ==
  ASSUME IInv, NEW t \in Linkers, NEW l \in LinkState, link' = [link EXCEPT ![t] = l],
         LinkOK(user, active, bound', l),
         bound' \in [Channels -> SUBSET TokenFile], AtLeast(bound, bound'),
         UNCHANGED <<user, active, install, token, known, slots, reg, pref, minted>>
  PROVE  IInv'
<1>1. TypeOK'
  BY DEF IInv, TypeOK, slots
<1>2. AtLeast(known, known')
  BY DEF AtLeast
<1>3. \A x \in Linkers : link'[x] = link[x] \/ LinkOK(user, active, bound', link'[x])
  BY DEF IInv, TypeOK
<1> QED BY <1>1, <1>2, <1>3, Keeps

\* Within the wait for the redirect nothing is claimed of a server.
LEMMA StepMoves ==
  ASSUME IInv, NEW t \in Linkers, Linking(t), Step(t, "look") \/ Step(t, "load") \/ Step(t, "receive")
  PROVE  \E l \in LinkState : link' = [link EXCEPT ![t] = l] /\ LinkOK(user, active, bound, l)
<1>1. PICK pc \in {"look", "load", "receive"} : link' = [link EXCEPT ![t].pc = pc]
  BY DEF Step
<1> DEFINE l == [link[t] EXCEPT !.pc = pc]
<1>2. link' = [link EXCEPT ![t] = l]
  BY <1>1
<1>3. link[t] \in LinkState /\ Here(user, active, link[t].ch)
  BY DEF IInv, TypeOK, Linking, LinkOK
<1>4. l \in LinkState /\ l.pc = pc /\ l.ch = link[t].ch
  BY <1>3 DEF LinkState
<1>5. LinkOK(user, active, bound, l)
  <2> HIDE DEF l
  <2> QED BY <1>3, <1>4 DEF LinkOK
<1> QED BY <1>2, <1>4, <1>5

\* Nor at the end of a session.
LEMMA EndMoves ==
  ASSUME IInv, NEW t \in Linkers, Linking(t),
         NEW result \in {"linked", "failed", "unregistered"}, End(t, result)
  PROVE  \E l \in LinkState : link' = [link EXCEPT ![t] = l] /\ \A B : LinkOK(user, active, B, l)
<1> DEFINE l == IF slot = t THEN [link[t] EXCEPT !.pc = "done", !.result = result, !.listener = "none"]
                            ELSE NoLink
<1>1. link' = [link EXCEPT ![t] = l]
  BY DEF End
<1>2. link[t] \in LinkState /\ Here(user, active, link[t].ch)
  BY DEF IInv, TypeOK, Linking, LinkOK
<1>3. l \in LinkState /\ (l.pc = "idle" \/ (l.pc = "done" /\ l.ch = link[t].ch))
  BY <1>2 DEF LinkState, NoLink
<1>4. \A B : LinkOK(user, active, B, l)
  <2> HIDE DEF l
  <2> QED BY <1>2, <1>3 DEF LinkOK
<1> QED BY <1>1, <1>3, <1>4

\* A registering thread that moves on.
LEMMA RegMoves ==
  ASSUME IInv, NEW r \in Registrars, NEW n \in RegState, reg' = [reg EXCEPT ![r] = n],
         RegOK(user, active, known', n),
         known' \in [Channels -> SUBSET Nat], AtLeast(known, known'),
         install' \in [Channels -> InstallFile \union {None}],
         \A c \in Channels : install'[c] = install[c] \/ Backed(user, known', install'[c], c),
         minted' \in Nat,
         UNCHANGED <<user, active, token, bound, slots, link, pref>>
  PROVE  IInv'
<1>1. TypeOK'
  BY DEF IInv, TypeOK, slots
<1>2. AtLeast(bound, bound')
  BY DEF AtLeast
<1>3. \A x \in Registrars : reg'[x] = reg[x] \/ RegOK(user, active, known', reg'[x])
  BY DEF IInv, TypeOK
<1> QED BY <1>1, <1>2, <1>3, Keeps

\* Nor at the end of a registration.
LEMMA EndRegMoves ==
  ASSUME IInv, NEW r \in Registrars, Registering(r), NEW ok \in BOOLEAN, EndReg(r, ok)
  PROVE  \E n \in RegState : reg' = [reg EXCEPT ![r] = n] /\ \A K : RegOK(user, active, K, n)
<1> DEFINE n == IF reg[r].kind = "session" THEN [reg[r] EXCEPT !.pc = "done", !.ok = ok] ELSE NoReg
<1>1. reg' = [reg EXCEPT ![r] = n]
  BY DEF EndReg
<1>2. n \in RegState /\ \A K : RegOK(user, active, K, n)
  BY DEF IInv, TypeOK, Registering, RegState, RegOK, Here, NoReg
<1> QED BY <1>1, <1>2

-----------------------------------------------------------------------------
(* The steps.                                                              *)

\* What the user clicks, but for StartLink and switching channels.
LEMMA ClicksKeep ==
  ASSUME IInv,
         CancelSession \/ ClickRegister \/ AutoRegister \/ ResetInstall \/ Unlink \/ PreferLoad
  PROVE  IInv'
<1> USE DEF slots, server, disk, bounds
<1>0. Here(user, active, active) /\ AtLeast(known, known) /\ AtLeast(bound, bound)
  BY DEF IInv, TypeOK, Here, AtLeast
<1>1. CASE CancelSession
  <2> DEFINE l == IF link[slot].pc = "done" THEN NoLink ELSE [link[slot] EXCEPT !.cancel = TRUE]
  <2>1. /\ slot \in Linkers /\ link' = [link EXCEPT ![slot] = l] /\ slot' = None
        /\ UNCHANGED <<user, active, install, token, known, bound, regSlot, stash, reg, pref, minted>>
    BY <1>1 DEF CancelSession, IInv, TypeOK
  <2>2. /\ l \in LinkState
        /\ \/ l.pc = "idle"
           \/ /\ l.pc = link[slot].pc /\ l.ch = link[slot].ch
              /\ l.id = link[slot].id /\ l.provider = link[slot].provider
    BY <2>1 DEF IInv, TypeOK, LinkState, NoLink
  <2>3. LinkOK(user, active, bound, l)
    <3> HIDE DEF l
    <3> QED BY <2>1, <2>2 DEF IInv, LinkOK
  <2> HIDE DEF l
  <2>4. TypeOK'
    BY <2>1, <2>2 DEF IInv, TypeOK
  <2>5. \A t \in Linkers : link'[t] = link[t] \/ LinkOK(user, active, bound', link'[t])
    BY <2>1, <2>3 DEF IInv, TypeOK
  <2> QED BY <1>0, <2>1, <2>4, <2>5, Keeps
<1>2. CASE ClickRegister
  <2>1. /\ TryStartRegister(active)
        /\ UNCHANGED <<user, active, install, token, known, bound, slot, stash, link, pref, minted>>
    BY <1>2 DEF ClickRegister, Clicks
  <2>2. /\ reg' \in [Registrars -> RegState] /\ regSlot' \in Registrars \union {None}
        /\ \A K : \A r \in Registrars : reg'[r] = reg[r] \/ RegOK(user, active, K, reg'[r])
    BY <1>0, <2>1, RegistrationStarts
  <2>3. TypeOK'
    BY <2>1, <2>2 DEF IInv, TypeOK
  <2> QED BY <1>0, <2>1, <2>2, <2>3, Keeps
<1>3. CASE AutoRegister \/ ResetInstall
  <2>1. PICK kind \in {"session", "worker", "reset"}, pc \in {"backup", "post"}, id \in Nat :
          Spawn(kind, pc, active, id) /\ SomeRegistrar /\ minted' \in Nat
    <3>1. CASE AutoRegister /\ install[active] = None
      <4>1. minted' = minted + 1 /\ Spawn("worker", "post", active, minted + 1) /\ SomeRegistrar
        BY <3>1 DEF AutoRegister, Spawn
      <4>2. minted + 1 \in Nat
        BY DEF IInv, TypeOK
      <4> QED BY <4>1, <4>2
    <3>2. CASE AutoRegister /\ install[active] # None
      <4>1. minted' = minted /\ Spawn("worker", "post", active, install[active].id) /\ SomeRegistrar
        BY <3>2 DEF AutoRegister
      <4>2. minted \in Nat /\ install[active].id \in Nat
        BY <3>2 DEF IInv, TypeOK, InstallFile
      <4> QED BY <4>1, <4>2
    <3>3. CASE ResetInstall
      <4>1. minted' = minted /\ Spawn("reset", "backup", active, 0) /\ SomeRegistrar
        BY <3>3 DEF ResetInstall
      <4> QED BY <4>1 DEF IInv, TypeOK
    <3> QED BY <1>3, <3>1, <3>2, <3>3
  <2>2. UNCHANGED <<user, active, install, token, known, bound, slot, regSlot, stash, link, pref>>
    BY <1>3 DEF AutoRegister, ResetInstall, Clicks
  <2>3. /\ reg' \in [Registrars -> RegState]
        /\ \A K : \A r \in Registrars : reg'[r] = reg[r] \/ RegOK(user, active, K, reg'[r])
    BY <1>0, <2>1, Spawned
  <2>4. TypeOK'
    BY <2>1, <2>2, <2>3 DEF IInv, TypeOK
  <2> QED BY <1>0, <2>2, <2>3, <2>4, Keeps
<1>4. CASE Unlink
  <2>1. /\ token' = [token EXCEPT ![active] = None]
        /\ UNCHANGED <<user, active, install, known, bound, slots, link, reg, pref, minted>>
    BY <1>4 DEF Unlink, Clicks
  <2>2. TypeOK' /\ \A c \in Channels : token'[c] \in {token[c], None} \union bound'[c]
    BY <2>1 DEF IInv, TypeOK
  <2> QED BY <1>0, <2>1, <2>2, Keeps
<1>5. CASE PreferLoad
  <2>1. /\ pref' = install[active]
        /\ UNCHANGED <<user, active, install, token, known, bound, slots, link, reg, minted>>
    BY <1>5 DEF PreferLoad, Clicks
  <2>2. TypeOK'
    BY <2>1 DEF IInv, TypeOK
  <2>3. Backed(user, known', pref', active)
    BY <2>1 DEF IInv, TypeOK
  <2> QED BY <1>0, <2>1, <2>2, <2>3, Keeps
<1> QED BY <1>1, <1>2, <1>3, <1>4, <1>5

\* A click on a provider may start both threads (oauth_chooser.rs start_link).
LEMMA StartLinkKeeps ==
  ASSUME IInv, NEW p \in Providers, StartLink(p)
  PROVE  IInv'
<1>0. Here(user, active, active) /\ AtLeast(known, known) /\ AtLeast(bound, bound)
  BY DEF IInv, TypeOK, Here, AtLeast
<1>1. UNCHANGED <<user, active, install, token, known, bound, pref, minted>>
  BY DEF StartLink, Clicks, disk, server
<1>2. /\ link' \in [Linkers -> LinkState] /\ slot' \in Linkers \union {None}
      /\ \A B : \A t \in Linkers : link'[t] = link[t] \/ LinkOK(user, active, B, link'[t])
  BY <1>0, SessionStarts DEF StartLink
<1>3. /\ reg' \in [Registrars -> RegState] /\ regSlot' \in Registrars \union {None}
      /\ \A K : \A r \in Registrars : reg'[r] = reg[r] \/ RegOK(user, active, K, reg'[r])
  <2>1. CASE install[active] = None
    BY <1>0, <2>1, RegistrationStarts DEF StartLink
  <2>2. CASE install[active] # None
    BY <2>2 DEF StartLink, IInv, TypeOK
  <2> QED BY <2>1, <2>2
<1>4. stash' \in Providers \union {None}
  BY DEF StartLink, IInv, TypeOK
<1>5. TypeOK'
  BY <1>1, <1>2, <1>3, <1>4 DEF IInv, TypeOK
<1> QED BY <1>0, <1>1, <1>2, <1>3, <1>5, Keeps

\* Once the user has switched, a server that knows an identity need not be that of the
\* channel.
LEMMA SwitchKeeps ==
  ASSUME IInv, switches \in Nat, NEW c \in Channels, SwitchChannel(c)
  PROVE  IInv'
<1>1. /\ active' = c
      /\ UNCHANGED <<user, install, token, known, bound, slots, link, reg, pref, minted>>
  BY DEF SwitchChannel, disk, server
<1>2. TypeOK'
  BY <1>1 DEF IInv, TypeOK, slots
<1>3. Backed(user, known, pref, c) /\ user.switches # 0
  <2>1. user.switches # 0
    BY SignInAssumption DEF SwitchChannel, SignInAssumption, IInv, TypeOK
  <2> QED BY <2>1 DEF IInv, Backed, Known
<1>4. \A t \in Linkers : LinkOK(user, c, bound, link[t])
  BY <1>3 DEF IInv, LinkOK, Here
<1>5. \A r \in Registrars : RegOK(user, c, known, reg[r])
  BY <1>3 DEF IInv, RegOK, Here
<1> QED BY <1>1, <1>2, <1>3, <1>4, <1>5 DEF IInv

\* Backing up, registering and saving (registration.rs, install.rs).
LEMMA RegistrarKeeps ==
  ASSUME IInv, NEW r \in Registrars, Registrar(r)
  PROVE  IInv'
<1> USE DEF slots, server, disk, bounds
<1>0. /\ AtLeast(known, known) /\ reg[r] \in RegState /\ RegOK(user, active, known, reg[r])
      /\ known \in [Channels -> SUBSET Nat] /\ install \in [Channels -> InstallFile \union {None}]
      /\ minted \in Nat /\ active \in Channels
  BY DEF IInv, TypeOK, AtLeast
<1>1. CASE BackUp(r)
  <2> DEFINE n == [reg[r] EXCEPT !.id = minted + 1,
                                 !.pc = IF reg[r].kind = "reset" THEN "saveChannel" ELSE "post"]
  <2>1. /\ reg' = [reg EXCEPT ![r] = n] /\ minted' = minted + 1 /\ reg[r].pc = "backup"
        /\ install' = install \/ install' = [install EXCEPT ![reg[r].ch] = None]
        /\ UNCHANGED <<user, active, token, known, bound, slots, link, pref>>
    BY <1>1 DEF BackUp
  <2>2. n \in RegState
    <3>1. reg[r] \in RegState /\ minted + 1 \in Nat
      BY <1>0
    <3> QED BY <3>1 DEF RegState
  <2>3. RegOK(user, active, known', n)
    BY <1>0, <2>1 DEF RegOK, RegState
  <2>4. \A c \in Channels : install'[c] = install[c] \/ Backed(user, known', install'[c], c)
    BY <1>0, <2>1 DEF Backed
  <2>5. install' \in [Channels -> InstallFile \union {None}] /\ minted' \in Nat
    BY <1>0, <2>1
  <2> HIDE DEF n
  <2> QED BY <1>0, <2>1, <2>2, <2>3, <2>4, <2>5, RegMoves
<1>2. CASE RegisterPost(r)
  <2>1. /\ reg[r].pc = "post" /\ Registering(r)
        /\ UNCHANGED <<user, active, install, token, bound, slots, link, pref, minted>>
    BY <1>2 DEF RegisterPost, Registering
  <2>2. /\ known' \in [Channels -> SUBSET Nat] /\ AtLeast(known, known')
    <3>1. reg[r].id \in Nat
      BY <1>0 DEF RegState
    <3>2. known' = known \/ known' = [known EXCEPT ![reg[r].ch] = @ \union {reg[r].id}]
      BY <1>2 DEF RegisterPost
    <3>3. \A c \in Channels : known'[c] \in {known[c], known[c] \union {reg[r].id}}
      BY <1>0, <3>2
    <3>4. known' \in [Channels -> SUBSET Nat]
      BY <1>0, <3>1, <3>2
    <3> QED BY <3>3, <3>4 DEF AtLeast
  <2>3. CASE EndReg(r, FALSE)
    BY <1>0, <2>1, <2>2, <2>3, EndRegMoves, RegMoves
  <2>4. CASE GoOn(r, "saveActive") /\ known' = [known EXCEPT ![reg[r].ch] = @ \union {reg[r].id}]
    <3> DEFINE n == [reg[r] EXCEPT !.pc = "saveActive"]
    <3>1. reg' = [reg EXCEPT ![r] = n] /\ n \in RegState
      BY <1>0, <2>4 DEF GoOn, RegState
    <3>2. Here(user, active, reg[r].ch) /\ reg[r].ch \in Channels
      BY <1>0, <2>1 DEF RegOK, Here
    <3>3. reg[r].id \in known'[reg[r].ch]
      BY <1>0, <2>4, <3>2
    <3>4. n.ch = reg[r].ch /\ n.id = reg[r].id
      BY <1>0 DEF RegState
    <3>5. RegOK(user, active, known', n)
      <4> HIDE DEF n
      <4> QED BY <3>2, <3>3, <3>4 DEF RegOK
    <3> HIDE DEF n
    <3> QED BY <1>0, <2>1, <2>2, <3>1, <3>5, RegMoves
  <2> QED BY <1>2, <2>3, <2>4 DEF RegisterPost
<1>3. CASE SaveActive(r)
  <2>1. /\ reg[r].pc = "saveActive" /\ Registering(r)
        /\ UNCHANGED <<user, active, token, known, bound, slots, link, pref, minted>>
    BY <1>3 DEF SaveActive, Registering
  <2>2. /\ reg[r].id \in known[reg[r].ch] /\ Here(user, active, reg[r].ch) /\ reg[r].id \in Nat
    BY <1>0, <2>1 DEF RegOK, RegState
  <2>3. install' = install \/ install' = [install EXCEPT ![active] = [id |-> reg[r].id, registered |-> TRUE]]
    BY <1>3 DEF SaveActive
  <2>4. install' \in [Channels -> InstallFile \union {None}]
    <3>1. [id |-> reg[r].id, registered |-> TRUE] \in InstallFile
      BY <2>2 DEF InstallFile
    <3> QED BY <1>0, <2>3, <3>1
  <2>5. \A c \in Channels : install'[c] = install[c] \/ Backed(user, known', install'[c], c)
    BY <1>0, <2>1, <2>2, <2>3 DEF Backed, Known, Here
  <2>6. CASE EndReg(r, TRUE) \/ EndReg(r, FALSE)
    BY <1>0, <2>1, <2>4, <2>5, <2>6, EndRegMoves, RegMoves
  <2>7. CASE GoOn(r, "saveChannel")
    <3> DEFINE n == [reg[r] EXCEPT !.pc = "saveChannel"]
    <3>1. reg' = [reg EXCEPT ![r] = n] /\ n \in RegState
      BY <1>0, <2>7 DEF GoOn, RegState
    <3>2. n.ch = reg[r].ch /\ n.id = reg[r].id
      BY <1>0 DEF RegState
    <3>3. RegOK(user, active, known', n)
      <4> HIDE DEF n
      <4> QED BY <2>1, <2>2, <3>2 DEF RegOK
    <3> HIDE DEF n
    <3> QED BY <1>0, <2>1, <2>4, <2>5, <3>1, <3>3, RegMoves
  <2> QED BY <1>3, <2>6, <2>7 DEF SaveActive
<1>4. CASE SaveChannel(r)
  <2> DEFINE file == [id |-> reg[r].id, registered |-> reg[r].kind = "session"]
  <2>1. /\ reg[r].pc = "saveChannel" /\ Registering(r)
        /\ EndReg(r, TRUE) \/ EndReg(r, FALSE)
        /\ install' = install \/ install' = [install EXCEPT ![reg[r].ch] = file]
        /\ UNCHANGED <<user, active, token, known, bound, slots, link, pref, minted>>
    BY <1>4 DEF SaveChannel, Registering
  <2>2. /\ reg[r].ch \in Channels
        /\ reg[r].kind = "session" => reg[r].id \in known[reg[r].ch]
    BY <1>0, <2>1 DEF RegOK, Here
  <2>3. file \in InstallFile
    BY <1>0 DEF RegState, InstallFile
  <2>4. Backed(user, known, file, reg[r].ch)
    BY <2>2 DEF Backed, Known
  <2> HIDE DEF file
  <2>5. install' \in [Channels -> InstallFile \union {None}]
    BY <1>0, <2>1, <2>3
  <2>6. \A c \in Channels : install'[c] = install[c] \/ Backed(user, known', install'[c], c)
    BY <1>0, <2>1, <2>4
  <2> QED BY <1>0, <2>1, <2>5, <2>6, EndRegMoves, RegMoves
<1> QED BY <1>1, <1>2, <1>3, <1>4 DEF Registrar

\* The sign-in thread and its listener (oauth.rs link_via_loopback_inner).
LEMMA LinkerKeeps ==
  ASSUME IInv, NEW t \in Linkers,
         Linker(t) \/ Listener(t) \/ TimeOut(t) \/ \E what \in {"code", "refusal"} : Redirect(t, what)
  PROVE  IInv'
<1> USE DEF slots, server, disk, bounds
<1>0. /\ link[t] \in LinkState /\ LinkOK(user, active, bound, link[t])
      /\ bound \in [Channels -> SUBSET TokenFile] /\ AtLeast(bound, bound)
  BY DEF IInv, TypeOK, AtLeast
<1>1. CASE UNCHANGED <<disk, server, slots, active, reg, pref, minted, bounds>> /\ Linking(t)
           /\ \/ \E result \in {"linked", "failed", "unregistered"} : End(t, result)
              \/ Step(t, "look") \/ Step(t, "load") \/ Step(t, "receive")
  <2>1. PICK l \in LinkState : link' = [link EXCEPT ![t] = l] /\ LinkOK(user, active, bound, l)
    BY <1>1, EndMoves, StepMoves
  <2> QED BY <1>0, <1>1, <2>1, LinkMoves
<1>2. CASE OpenBrowser(t) \/ Receive(t) \/ LookAtFlag(t) \/ TimeOut(t)
  BY <1>1, <1>2 DEF OpenBrowser, Receive, LookAtFlag, TimeOut, Linking
<1>3. ASSUME NEW l \in LinkState, link' = [link EXCEPT ![t] = l],
             l.pc = link[t].pc \/ (Linking(t) /\ l.pc \notin {"idle", "save"}),
             l.ch = link[t].ch, l.id = link[t].id, l.provider = link[t].provider,
             UNCHANGED <<disk, server, slots, active, reg, pref, minted, bounds>>
      PROVE  IInv'
  <2>1. LinkOK(user, active, bound, l)
    BY <1>0, <1>3 DEF LinkOK, Linking
  <2> QED BY <1>0, <1>3, <2>1, LinkMoves
<1>4. CASE Bind(t)
  <2>1. CASE End(t, "failed")
    BY <1>1, <1>4, <2>1 DEF Bind, Linking
  <2>2. CASE ~ End(t, "failed")
    <3> DEFINE l == [link[t] EXCEPT !.pc = "browser", !.listener = "check"]
    <3>1. link' = [link EXCEPT ![t] = l] /\ Linking(t)
      BY <1>4, <2>2 DEF Bind, Linking
    <3>2. /\ l \in LinkState /\ l.pc = "browser"
          /\ l.ch = link[t].ch /\ l.id = link[t].id /\ l.provider = link[t].provider
      BY <1>0 DEF LinkState
    <3> HIDE DEF l
    <3> QED BY <1>3, <1>4, <3>1, <3>2 DEF Bind
  <2> QED BY <2>1, <2>2
<1>5. CASE Listener(t) \/ \E what \in {"code", "refusal"} : Redirect(t, what)
  <2>1. PICK s \in {"check", "accept", "gone"}, p \in {link[t].payload, "code", "refusal"} :
          link' = [link EXCEPT ![t] = [link[t] EXCEPT !.listener = s, !.payload = p]]
    <3>1. CASE Listener(t)
      <4>1. PICK s \in {"check", "accept", "gone"} : link' = [link EXCEPT ![t].listener = s]
        BY <3>1 DEF Listener, ListenerChecks, ListenerSleeps
      <4>2. [link[t] EXCEPT !.listener = s] = [link[t] EXCEPT !.listener = s, !.payload = link[t].payload]
        BY <1>0 DEF LinkState
      <4> QED BY <4>1, <4>2
    <3>2. CASE \E what \in {"code", "refusal"} : Redirect(t, what)
      BY <3>2, ZenonT(60) DEF Redirect
    <3> QED BY <1>5, <3>1, <3>2
  <2> DEFINE l == [link[t] EXCEPT !.listener = s, !.payload = p]
  <2>2. /\ l \in LinkState /\ l.pc = link[t].pc
        /\ l.ch = link[t].ch /\ l.id = link[t].id /\ l.provider = link[t].provider
    BY <1>0 DEF LinkState
  <2>3. UNCHANGED <<disk, server, slots, active, reg, pref, minted, bounds>>
    BY <1>5 DEF Listener, ListenerChecks, ListenerSleeps, Redirect
  <2> HIDE DEF l
  <2> QED BY <1>3, <2>1, <2>2, <2>3 DEF l
<1>6. CASE LoadInstall(t)
  <2>1. CASE End(t, "failed")
    BY <1>1, <1>6, <2>1 DEF LoadInstall, Linking
  <2>2. CASE ~ End(t, "failed")
    <3> DEFINE l == [link[t] EXCEPT !.pc = "exchange", !.id = install[active].id]
    <3>1. link' = [link EXCEPT ![t] = l] /\ link[t].pc = "load" /\ install[active] # None
      BY <1>6, <2>2 DEF LoadInstall
    <3>2. install[active].id \in Nat
      BY <3>1 DEF IInv, TypeOK, InstallFile
    <3>3. l \in LinkState /\ l.pc = "exchange" /\ l.ch = link[t].ch
      BY <1>0, <3>2 DEF LinkState
    <3> HIDE DEF l
    <3>4. LinkOK(user, active, bound, l)
      BY <1>0, <3>1, <3>3 DEF LinkOK
    <3>5. UNCHANGED <<disk, server, slots, active, reg, pref, minted, bounds>>
      BY <1>6 DEF LoadInstall
    <3> QED BY <1>0, <3>1, <3>3, <3>4, <3>5, LinkMoves
  <2> QED BY <2>1, <2>2
<1>7. CASE Exchange(t)
  <2>1. /\ link[t].pc = "exchange" /\ Linking(t)
        /\ UNCHANGED <<disk, known, slots, active, reg, pref, minted, bounds>>
    BY <1>7 DEF Exchange, Linking
  <2>2. /\ Bond(t) = [id |-> link[t].id, provider |-> link[t].provider]
        /\ Bond(t) \in TokenFile /\ link[t].ch \in Channels
    BY <1>0, <2>1 DEF Bond, LinkState, TokenFile, LinkOK, Here
  <2>3. bound' = bound \/ bound' = [bound EXCEPT ![link[t].ch] = @ \union {Bond(t)}]
    BY <1>7 DEF Exchange
  <2>4. \A c \in Channels : bound'[c] \in {bound[c], bound[c] \union {Bond(t)}}
    BY <1>0, <2>3
  <2>5. bound' \in [Channels -> SUBSET TokenFile] /\ AtLeast(bound, bound')
    <3>1. bound' \in [Channels -> SUBSET TokenFile]
      BY <1>0, <2>2, <2>3
    <3> QED BY <2>4, <3>1 DEF AtLeast
  <2>6. CASE \E result \in {"unregistered", "failed"} : End(t, result)
    <3>1. PICK l \in LinkState : link' = [link EXCEPT ![t] = l] /\ LinkOK(user, active, bound', l)
      BY <2>1, <2>6, EndMoves
    <3> QED BY <2>1, <2>5, <3>1, LinkMoves
  <2>7. CASE Step(t, "save") /\ bound' = [bound EXCEPT ![link[t].ch] = @ \union {Bond(t)}]
    <3> DEFINE l == [link[t] EXCEPT !.pc = "save"]
    <3>1. link' = [link EXCEPT ![t] = l]
      BY <2>7 DEF Step
    <3>2. /\ l \in LinkState /\ l.pc = "save"
          /\ l.ch = link[t].ch /\ l.id = link[t].id /\ l.provider = link[t].provider
      BY <1>0 DEF LinkState
    <3>3. Bond(t) \in bound'[link[t].ch]
      BY <1>0, <2>2, <2>7
    <3> HIDE DEF l
    <3>4. LinkOK(user, active, bound', l)
      BY <1>0, <2>1, <2>2, <3>2, <3>3 DEF LinkOK
    <3> QED BY <2>1, <2>5, <3>1, <3>2, <3>4, LinkMoves
  <2> QED BY <1>7, <2>6, <2>7 DEF Exchange
<1>8. CASE SaveToken(t)
  <2>1. /\ link[t].pc = "save" /\ Linking(t)
        /\ UNCHANGED <<install, server, slots, active, reg, pref, minted, bounds>>
        /\ token' = token \/ token' = [token EXCEPT ![link[t].ch] = Bond(t)]
    BY <1>8 DEF SaveToken, Linking
  <2>2. Bond(t) \in bound[link[t].ch] /\ link[t].ch \in Channels /\ Bond(t) \in TokenFile
    BY <1>0, <2>1 DEF Bond, LinkState, TokenFile, LinkOK, Here
  <2>3. PICK l \in LinkState : link' = [link EXCEPT ![t] = l] /\ LinkOK(user, active, bound', l)
    BY <1>8, <2>1, EndMoves DEF SaveToken
  <2>4. TypeOK'
    BY <2>1, <2>2, <2>3 DEF IInv, TypeOK
  <2>5. \A c \in Channels : token'[c] \in {token[c], None} \union bound'[c]
    BY <2>1, <2>2 DEF IInv, TypeOK
  <2>6. \A x \in Linkers : link'[x] = link[x] \/ LinkOK(user, active, bound', link'[x])
    BY <2>3 DEF IInv, TypeOK
  <2>7. AtLeast(known, known') /\ AtLeast(bound, bound')
    BY <2>1 DEF AtLeast
  <2> QED BY <2>1, <2>4, <2>5, <2>6, <2>7, Keeps
<1> QED BY <1>2, <1>4, <1>5, <1>6, <1>7, <1>8 DEF Linker

\* The polls, and what they start (poll_session, poll_register_session).
LEMMA PollsKeep ==
  ASSUME IInv, PollSession \/ PollRegister
  PROVE  IInv'
<1> USE DEF server, disk, bounds
<1>0. Here(user, active, active) /\ AtLeast(known, known) /\ AtLeast(bound, bound)
  BY DEF IInv, TypeOK, Here, AtLeast
<1>1. CASE PollSession
  <2>1. /\ slot \in Linkers /\ link[slot].pc = "done" /\ link' = [link EXCEPT ![slot] = NoLink]
        /\ slot' = None
        /\ UNCHANGED <<user, active, install, token, known, bound, pref, minted>>
    BY <1>1 DEF PollSession, IInv, TypeOK
  <2>2. Here(user, active, link[slot].ch) /\ link[slot].provider \in Providers \union {None}
    BY <2>1 DEF IInv, TypeOK, LinkOK, LinkState
  <2>3. /\ reg' \in [Registrars -> RegState] /\ regSlot' \in Registrars \union {None}
        /\ \A K : \A r \in Registrars : reg'[r] = reg[r] \/ RegOK(user, active, K, reg'[r])
    <3>1. CASE link[slot].result = "unregistered"
      <4>1. TryStartRegister(link[slot].ch)
        BY <1>1, <3>1 DEF PollSession
      <4> QED BY <2>2, <4>1, RegistrationStarts
    <3>2. CASE link[slot].result # "unregistered"
      BY <1>1, <3>2 DEF PollSession, IInv, TypeOK
    <3> QED BY <3>1, <3>2
  <2>4. stash' \in Providers \union {None}
    BY <1>1, <2>2 DEF PollSession, IInv, TypeOK
  <2>5. NoLink \in LinkState /\ LinkOK(user, active, bound', NoLink)
    BY DEF NoLink, LinkState, LinkOK
  <2>6. TypeOK'
    BY <2>1, <2>3, <2>4, <2>5 DEF IInv, TypeOK
  <2>7. \A t \in Linkers : link'[t] = link[t] \/ LinkOK(user, active, bound', link'[t])
    BY <2>1, <2>5 DEF IInv, TypeOK
  <2> QED BY <1>0, <2>1, <2>3, <2>6, <2>7, Keeps
<1>2. CASE PollRegister
  <2>1. /\ regSlot \in Registrars /\ reg' = [reg EXCEPT ![regSlot] = NoReg] /\ regSlot' = None
        /\ UNCHANGED <<user, active, install, token, known, bound, pref, minted>>
    BY <1>2 DEF PollRegister, IInv, TypeOK
  <2>2. /\ link' \in [Linkers -> LinkState] /\ slot' \in Linkers \union {None}
        /\ stash' \in Providers \union {None}
        /\ \A B : \A t \in Linkers : link'[t] = link[t] \/ LinkOK(user, active, B, link'[t])
    <3>1. CASE reg[regSlot].ok /\ stash # None
      <4>1. TryStartSession(stash, active) /\ stash' = None
        BY <1>2, <3>1 DEF PollRegister
      <4>2. stash \in Providers
        BY <3>1 DEF IInv, TypeOK
      <4> QED BY <1>0, <4>1, <4>2, SessionStarts
    <3>2. CASE ~ (reg[regSlot].ok /\ stash # None)
      BY <1>2, <3>2 DEF PollRegister, IInv, TypeOK
    <3> QED BY <3>1, <3>2
  <2>3. NoReg \in RegState /\ RegOK(user, active, known', NoReg)
    BY DEF NoReg, RegState, RegOK
  <2>4. TypeOK'
    BY <2>1, <2>2, <2>3 DEF IInv, TypeOK
  <2>5. \A r \in Registrars : reg'[r] = reg[r] \/ RegOK(user, active, known', reg'[r])
    BY <2>1, <2>3 DEF IInv, TypeOK
  <2> QED BY <1>0, <2>1, <2>2, <2>4, <2>5, Keeps
<1> QED BY <1>1, <1>2

\* A preference saved late brings back an older file, of an identity no less known.
LEMMA PreferSaveKeeps ==
  ASSUME IInv, PreferSave
  PROVE  IInv'
<1>1. /\ pref \in InstallFile /\ Backed(user, known, pref, active)
      /\ install' = [install EXCEPT ![active] = pref] /\ pref' = None
      /\ UNCHANGED <<user, active, token, known, bound, slots, link, reg, minted>>
  BY DEF PreferSave, IInv, TypeOK, server, bounds
<1>2. TypeOK'
  BY <1>1 DEF IInv, TypeOK, slots
<1>3. \A c \in Channels : install'[c] = install[c] \/ Backed(user, known', install'[c], c)
  BY <1>1 DEF IInv, TypeOK
<1>4. Backed(user, known', pref', active) /\ AtLeast(known, known') /\ AtLeast(bound, bound')
  BY <1>1 DEF Backed, AtLeast
<1> QED BY <1>1, <1>2, <1>3, <1>4, Keeps

\* The number of switches only grows.
LEMMA SwitchesKeep ==
  ASSUME switches \in Nat, [Next]_vars
  PROVE  switches' \in Nat
<1>1. CASE Click
  <2>1. CASE \E c \in Channels : SwitchChannel(c)
    BY <2>1 DEF SwitchChannel
  <2>2. CASE CancelSession
    BY <2>2 DEF CancelSession, bounds
  <2> QED BY <1>1, <2>1, <2>2
      DEF Click, StartLink, ClickRegister, AutoRegister, ResetInstall, Unlink, PreferLoad
<1>2. CASE \E t \in Linkers : \/ Linker(t) \/ Listener(t) \/ TimeOut(t)
                              \/ \E what \in {"code", "refusal"} : Redirect(t, what)
  <2>1. UNCHANGED bounds
    BY <1>2 DEF Linker, Bind, OpenBrowser, Listener, ListenerChecks, ListenerSleeps, Redirect,
                Receive, LookAtFlag, TimeOut, LoadInstall, Exchange, SaveToken
  <2> QED BY <2>1 DEF bounds
<1>3. CASE \E r \in Registrars : Registrar(r)
  <2>1. UNCHANGED bounds
    BY <1>3 DEF Registrar, BackUp, RegisterPost, SaveActive, SaveChannel
  <2> QED BY <2>1 DEF bounds
<1>4. CASE PreferSave \/ Tick \/ PollSession \/ PollRegister \/ UNCHANGED vars
  <2>1. UNCHANGED bounds
    BY <1>4 DEF PreferSave, Tick, PollSession, PollRegister, vars
  <2> QED BY <2>1 DEF bounds
<1> QED BY <1>1, <1>2, <1>3, <1>4 DEF Next

\* Every step keeps the invariant.
LEMMA NextKeeps ==
  ASSUME IInv, switches \in Nat, [Next]_vars
  PROVE  IInv'
<1>1. CASE Click
  BY <1>1, ClicksKeep, StartLinkKeeps, SwitchKeeps DEF Click
<1>2. CASE PreferSave
  BY <1>2, PreferSaveKeeps
<1>3. CASE PollSession \/ PollRegister
  BY <1>3, PollsKeep
<1>4. CASE \E t \in Linkers : \/ Linker(t) \/ Listener(t) \/ TimeOut(t)
                              \/ \E what \in {"code", "refusal"} : Redirect(t, what)
  BY <1>4, LinkerKeeps
<1>5. CASE \E r \in Registrars : Registrar(r)
  BY <1>5, RegistrarKeeps
<1>6. CASE Tick \/ UNCHANGED vars
  <2>1. UNCHANGED <<user, active, install, token, known, bound, slots, link, reg, pref, minted>>
    BY <1>6 DEF Tick, vars, disk, server, bounds
  <2> QED BY <2>1, Untouched DEF slots, IInv, TypeOK
<1> QED BY <1>1, <1>2, <1>3, <1>4, <1>5, <1>6 DEF Next

\* An identity on disk that is called registered is known to a server, that of its own
\* channel while the user stays on one, and a link on disk is one the server keeps
\* (registration.rs, install.rs, oauth.rs).
THEOREM FilesTrue == Spec => []ServerKnows
<1>1. Init => IInv /\ switches \in Nat
  BY InitInv DEF Init
<1>2. IInv /\ switches \in Nat /\ [Next]_vars => (IInv /\ switches \in Nat)'
  BY NextKeeps, SwitchesKeep
<1>3. IInv => ServerKnows
  BY DEF IInv, ServerKnows, Backed, Known
<1> QED BY <1>1, <1>2, <1>3, PTL DEF Spec

-----------------------------------------------------------------------------
(* For a user who lets one thing end before the next begins, and if saves   *)
(* and backups work, no identity is lost.  A click then starts one chain of  *)
(* threads, in which there is at most one backup, and at most one save of    *)
(* another identity than the one installed, which is in a backup by then.    *)

Busy == \E r \in Registrars : Registering(r)

\* One sign-in thread runs, on the active channel; while something registers, it is
\* the session that is current.
LinkerAlone(t) ==
  Linking(t) =>
    /\ link[t].ch = active
    /\ \A u \in Linkers : Linking(u) => u = t
    /\ regSlot # None => slot = t

\* One thread registers.  It is the one whose result is polled for, if it was started by
\* a session or beside one.
RegistrarAlone(r) ==
  Registering(r) =>
    /\ reg[r].ch = active
    /\ \A q \in Registrars : Registering(q) => q = r
    /\ reg[r].kind = "session" => regSlot = r
    /\ (\E t \in Linkers : Linking(t)) => reg[r].kind = "session"

\* A thread that is to back up finds no backup of this second; what is installed later
\* is what it registers.
Filed(r) ==
  Registering(r) =>
    IF reg[r].pc = "backup" THEN second = {}
    ELSE install[active] # None =>
           /\ install[active].id = reg[r].id
           /\ reg[r].kind = "session" => reg[r].id \in known[active]

\* A sign-in that is neither refused for its identity nor will be.
Welcome(l) ==
  /\ l.pc = "exchange" => l.id \in known[active]
  /\ ~ (l.pc = "done" /\ l.result = "unregistered")

\* So is every sign-in beside a registration or in the second of a backup.
WelcomeThen(t) ==
  Linking(t) /\ (Busy \/ second # {}) =>
    /\ install[active] # None => install[active].id \in known[active]
    /\ Welcome(link[t])

Tidy ==
  /\ kept \in [Channels -> Seq(Nat)]
  /\ \A t \in Linkers : LinkerAlone(t) /\ WelcomeThen(t)
  /\ \A r \in Registrars : RegistrarAlone(r) /\ Filed(r)
  /\ regSlot # None => Registering(regSlot) /\ reg[regSlot].kind = "session"
  /\ pref # None => /\ pref = install[active]
                    /\ ~ Busy /\ \A t \in Linkers : ~ Linking(t)

Careful == user.patient /\ ~ DiskFails

\* An install file is something.
LEMMA FileIsSome == \A i \in Nat, b \in BOOLEAN : [id |-> i, registered |-> b] # None
BY SignInAssumption DEF SignInAssumption

\* What OnDisk is, for the backups K and the installed files I.
LEMMA IsOnDisk ==
  ASSUME NEW K, NEW I, NEW i
  PROVE  i \in (UNION { Range(K[c]) : c \in Channels })
                \union { I[c].id : c \in {d \in Channels : I[d] # None} }
         <=> \/ \E c \in Channels : i \in Range(K[c])
             \/ \E c \in Channels : I[c] # None /\ i = I[c].id
<1> DEFINE D == {d \in Channels : I[d] # None}
<1>1. i \in UNION { Range(K[c]) : c \in Channels } <=> \E c \in Channels : i \in Range(K[c])
  OBVIOUS
<1>2. i \in { I[c].id : c \in D } <=> \E c \in D : i = I[c].id
  <2> HIDE DEF D
  <2> QED OBVIOUS
<1>3. (\E c \in D : i = I[c].id) <=> \E c \in Channels : I[c] # None /\ i = I[c].id
  OBVIOUS
<1> QED BY <1>1, <1>2, <1>3

\* A sign-in thread that moves on, and is not refused beside a registration.
LEMMA LinkerMovesOn ==
  ASSUME Tidy, NEW t \in Linkers, \A u \in Linkers : u # t => link'[u] = link[u],
         link'[t].pc # "idle" => Linking(t) /\ link'[t].ch = link[t].ch,
         Linking(t) /\ (Busy \/ second # {}) => Welcome(link'[t]),
         slot' = slot \/ (Linking(t) /\ (regSlot = None \/ link'[t].pc = "idle")),
         UNCHANGED <<active, install, kept, second, known, regSlot, reg, pref>>
  PROVE  Tidy'
<1>1. (Busy' <=> Busy) /\ \A u \in Linkers : Linking(u)' => Linking(u) /\ link'[u].ch = link[u].ch
  BY DEF Busy, Registering, Linking
<1>2. \A u \in Linkers : LinkerAlone(u)'
  BY <1>1 DEF Tidy, LinkerAlone, Linking
<1>3. \A u \in Linkers : WelcomeThen(u)'
  BY <1>1 DEF Tidy, WelcomeThen, Welcome
<1>4. \A r \in Registrars : RegistrarAlone(r)' /\ Filed(r)'
  BY <1>1 DEF Tidy, RegistrarAlone, Filed, Registering
<1>5. pref' # None => ~ Busy' /\ \A u \in Linkers : ~ Linking(u)'
  BY <1>1 DEF Tidy
<1> QED BY <1>2, <1>3, <1>4, <1>5 DEF Tidy, Registering

\* A registering thread that moves on, and has installed nothing but what it registers.
LEMMA RegistrarMovesOn ==
  ASSUME Tidy, NEW r \in Registrars, Registering(r), \A q \in Registrars : q # r => reg'[q] = reg[q],
         reg'[r].pc # "backup",
         reg'[r].pc # "idle" => reg'[r].ch = reg[r].ch /\ reg'[r].kind = reg[r].kind,
         reg[r].kind = "session" => reg'[r].pc # "idle",
         reg'[r].pc # "idle" /\ install'[active] # None =>
           /\ install'[active].id = reg'[r].id
           /\ reg[r].kind = "session" => reg'[r].id \in known'[active],
         (\E t \in Linkers : Linking(t)) /\ install'[active] # None =>
           install'[active].id \in known'[active],
         AtLeast(known, known'), active \in Channels, regSlot \in Registrars \union {None},
         kept' \in [Channels -> Seq(Nat)],
         UNCHANGED <<active, link, slot, regSlot, pref>>
  PROVE  Tidy'
<1>1. Busy /\ pref' = None /\ \A q \in Registrars : Registering(q) => q = r
  BY DEF Busy, Tidy, RegistrarAlone
<1>2. \A q \in Registrars : Registering(q)' =>
        q = r /\ reg'[r].ch = reg[r].ch /\ reg'[r].kind = reg[r].kind
  BY <1>1 DEF Registering
<1>3. \A t \in Linkers : LinkerAlone(t)'
  BY DEF Tidy, LinkerAlone, Linking
<1>4. \A t \in Linkers : WelcomeThen(t)'
  <2>1. known[active] \subseteq known'[active]
    BY DEF AtLeast
  <2> QED BY <1>1, <2>1 DEF Tidy, WelcomeThen, Welcome, Linking
<1>5. \A q \in Registrars : RegistrarAlone(q)'
  BY <1>2 DEF Tidy, RegistrarAlone, Linking
<1>6. \A q \in Registrars : Filed(q)'
  BY <1>2 DEF Filed, Registering
<1>7. regSlot' # None => Registering(regSlot)' /\ reg'[regSlot].kind = "session"
  <2>1. regSlot # None => regSlot = r /\ reg[r].kind = "session"
    BY <1>1 DEF Tidy
  <2> QED BY <2>1 DEF Tidy, Registering
<1> QED BY <1>1, <1>3, <1>4, <1>5, <1>6, <1>7 DEF Tidy

\* The sign-in thread and its listener: refused for an identity, it was alone.
LEMMA LinkersTidy ==
  ASSUME IInv, Tidy, NEW t \in Linkers,
         Linker(t) \/ Listener(t) \/ TimeOut(t) \/ \E what \in {"code", "refusal"} : Redirect(t, what)
  PROVE  Tidy'
<1>0. link \in [Linkers -> LinkState] /\ (Linking(t) => link[t].ch = active)
  BY DEF IInv, TypeOK, Tidy, LinkerAlone
<1>1. UNCHANGED <<active, install, kept, second, known, slot, regSlot, reg, pref>>
  BY DEF Linker, Bind, OpenBrowser, Listener, ListenerChecks, ListenerSleeps, Redirect, Receive,
         LookAtFlag, TimeOut, LoadInstall, Exchange, SaveToken, disk, server, slots
<1>2. ASSUME Linking(t), NEW result, End(t, result),
             Busy \/ second # {} => result # "unregistered"
      PROVE  Tidy'
  <2>1. /\ \A u \in Linkers : u # t => link'[u] = link[u]
        /\ link'[t].pc \in {"idle", "done"}
        /\ link'[t].pc = "done" => link'[t].result = result /\ link'[t].ch = link[t].ch
    BY <1>0, <1>2 DEF End, LinkState, NoLink
  <2> QED BY <1>1, <1>2, <2>1, LinkerMovesOn DEF Welcome
<1>3. ASSUME NEW l, link' = [link EXCEPT ![t] = l], l.ch = link[t].ch, l.pc # "idle" => Linking(t),
             Linking(t) /\ (Busy \/ second # {}) => Welcome(l)
      PROVE  Tidy'
  <2>1. link'[t] = l /\ \A u \in Linkers : u # t => link'[u] = link[u]
    BY <1>0, <1>3
  <2> QED BY <1>1, <1>3, <2>1, LinkerMovesOn
<1>4. ASSUME NEW pc \in {"look", "load", "receive", "save"}, Linking(t), Step(t, pc)
      PROVE  Tidy'
  <2> DEFINE l == [link[t] EXCEPT !.pc = pc]
  <2>1. link' = [link EXCEPT ![t] = l] /\ l.ch = link[t].ch /\ l.pc = pc
    BY <1>0, <1>4 DEF Step, LinkState
  <2> HIDE DEF l
  <2> QED BY <1>3, <1>4, <2>1 DEF Welcome
<1>5. CASE Bind(t) \/ OpenBrowser(t) \/ Receive(t) \/ LookAtFlag(t) \/ TimeOut(t) \/ SaveToken(t)
  <2>1. CASE Bind(t) /\ ~ End(t, "failed")
    <3> DEFINE l == [link[t] EXCEPT !.pc = "browser", !.listener = "check"]
    <3>1. link' = [link EXCEPT ![t] = l] /\ Linking(t)
      BY <2>1 DEF Bind, Linking
    <3>2. l.ch = link[t].ch /\ l.pc = "browser"
      BY <1>0 DEF LinkState
    <3> HIDE DEF l
    <3> QED BY <1>3, <3>1, <3>2 DEF Welcome
  <2>2. CASE OpenBrowser(t) /\ ~ End(t, "failed")
    BY <1>4, <2>2 DEF OpenBrowser, Linking
  <2>3. CASE Receive(t) /\ ~ End(t, "failed")
    BY <1>4, <2>3 DEF Receive, Linking
  <2>4. CASE LookAtFlag(t) /\ ~ End(t, "failed")
    BY <1>4, <2>4 DEF LookAtFlag, Linking
  <2>5. CASE End(t, "failed") \/ End(t, "linked")
    <3>1. Linking(t)
      BY <1>5 DEF Bind, OpenBrowser, Receive, LookAtFlag, TimeOut, SaveToken, Linking
    <3> QED BY <1>2, <2>5, <3>1
  <2> QED BY <1>5, <2>1, <2>2, <2>3, <2>4, <2>5 DEF TimeOut, SaveToken
<1>6. CASE Listener(t) \/ \E what \in {"code", "refusal"} : Redirect(t, what)
  <2>1. /\ \A u \in Linkers : u # t => link'[u] = link[u]
        /\ link'[t].pc = link[t].pc /\ link'[t].ch = link[t].ch
        /\ link'[t].id = link[t].id /\ link'[t].result = link[t].result
    BY <1>0, <1>6 DEF Listener, ListenerChecks, ListenerSleeps, Redirect, LinkState
  <2>2. Linking(t) /\ (Busy \/ second # {}) => Welcome(link[t])
    BY DEF Tidy, WelcomeThen
  <2> QED BY <1>1, <2>1, <2>2, LinkerMovesOn DEF Welcome, Linking
<1>7. CASE LoadInstall(t)
  <2>1. CASE End(t, "failed")
    BY <1>2, <1>7, <2>1 DEF LoadInstall, Linking
  <2>2. CASE ~ End(t, "failed")
    <3> DEFINE l == [link[t] EXCEPT !.pc = "exchange", !.id = install[active].id]
    <3>1. /\ link' = [link EXCEPT ![t] = l] /\ install[active] # None /\ Linking(t)
          /\ l.ch = link[t].ch /\ l.pc = "exchange" /\ l.id = install[active].id
      BY <1>0, <1>7, <2>2 DEF LoadInstall, LinkState, Linking
    <3>2. Busy \/ second # {} => install[active].id \in known[active]
      BY <3>1 DEF Tidy, WelcomeThen
    <3> HIDE DEF l
    <3> QED BY <1>3, <3>1, <3>2 DEF Welcome
  <2> QED BY <2>1, <2>2
<1>8. CASE Exchange(t)
  <2>1. Linking(t) /\ link[t].pc = "exchange" /\ link[t].ch = active
    BY <1>0, <1>8 DEF Exchange, Linking
  <2>2. Busy \/ second # {} => link[t].id \in known[active]
    BY <2>1 DEF Tidy, WelcomeThen, Welcome
  <2>3. \/ link[t].id \notin known[active] /\ End(t, "unregistered")
        \/ End(t, "failed") \/ Step(t, "save")
    BY <1>8, <2>1 DEF Exchange
  <2> QED BY <1>2, <1>4, <2>1, <2>2, <2>3
<1> QED BY <1>5, <1>6, <1>7, <1>8 DEF Linker

\* Backing up, registering and saving: one thread, and no backup before its own.
LEMMA RegistrarsTidy ==
  ASSUME IInv, Careful, Tidy, NEW r \in Registrars, Registrar(r)
  PROVE  Tidy' /\ OnDisk \subseteq OnDisk'
<1> USE DEF slots, server, disk, bounds
<1>0. /\ reg \in [Registrars -> RegState] /\ Registering(r) /\ reg[r].ch = active
      /\ RegOK(user, active, known, reg[r]) /\ AtLeast(known, known)
      /\ known \in [Channels -> SUBSET Nat] /\ install \in [Channels -> InstallFile \union {None}]
      /\ regSlot \in Registrars \union {None} /\ active \in Channels
      /\ kept \in [Channels -> Seq(Nat)] /\ ~ DiskFails
  BY DEF IInv, TypeOK, AtLeast, Tidy, RegistrarAlone, Registrar, BackUp, RegisterPost, SaveActive,
         SaveChannel, Registering, Careful
<1>1. UNCHANGED <<active, link, slot, regSlot, pref>>
  BY DEF Registrar, BackUp, RegisterPost, SaveActive, SaveChannel
<1>2. Filed(r) /\ (\A t \in Linkers : WelcomeThen(t)) /\ Busy
      /\ ((\E t \in Linkers : Linking(t)) => reg[r].kind = "session")
  BY <1>0 DEF Tidy, Busy, RegistrarAlone
<1>3. ASSUME NEW ok \in BOOLEAN, EndReg(r, ok)
      PROVE  /\ \A q \in Registrars : q # r => reg'[q] = reg[q]
             /\ reg'[r].pc \in {"idle", "done"}
             /\ reg'[r].pc = "done" => /\ reg'[r].ch = reg[r].ch /\ reg'[r].id = reg[r].id
                                       /\ reg'[r].kind = reg[r].kind
             /\ reg[r].kind = "session" => reg'[r].pc = "done"
  BY <1>0, <1>3 DEF EndReg, RegState, NoReg
<1>4. ASSUME NEW pc \in {"saveActive", "saveChannel"}, GoOn(r, pc)
      PROVE  /\ \A q \in Registrars : q # r => reg'[q] = reg[q]
             /\ reg'[r].pc = pc /\ reg'[r].ch = reg[r].ch /\ reg'[r].id = reg[r].id
             /\ reg'[r].kind = reg[r].kind
  BY <1>0, <1>4 DEF GoOn, RegState
<1>5. CASE BackUp(r)
  <2>1. second = {} /\ reg[r].pc = "backup"
    BY <1>0, <1>2, <1>5 DEF BackUp, Filed
  <2>2. /\ \A q \in Registrars : q # r => reg'[q] = reg[q]
        /\ reg'[r].pc \in {"post", "saveChannel"} /\ reg'[r].ch = reg[r].ch
        /\ reg'[r].kind = reg[r].kind
    BY <1>0, <1>5 DEF BackUp, RegState
  <2>3. /\ install'[active] = None /\ known' = known
        /\ \/ UNCHANGED <<install, kept>>
           \/ /\ install[active] # None /\ install' = [install EXCEPT ![active] = None]
              /\ kept' = [kept EXCEPT ![active] = Append(kept[active], install[active].id)]
    BY <1>0, <1>5, <2>1 DEF BackUp, KeptWith
  <2>4. kept' \in [Channels -> Seq(Nat)]
    <3>1. CASE UNCHANGED kept
      BY <1>0, <3>1
    <3>2. CASE install[active] # None /\ kept' = [kept EXCEPT ![active] = Append(kept[active], install[active].id)]
      <4>1. kept[active] \in Seq(Nat) /\ install[active].id \in Nat
        BY <1>0, <3>2 DEF InstallFile
      <4>2. Append(kept[active], install[active].id) \in Seq(Nat)
        BY <4>1
      <4> QED BY <1>0, <3>2, <4>2
    <3> QED BY <2>3, <3>1, <3>2
  <2>5. Tidy'
    BY <1>0, <1>1, <2>2, <2>3, <2>4, RegistrarMovesOn
  <2>6. OnDisk \subseteq OnDisk'
    <3>1. CASE UNCHANGED <<install, kept>>
      BY <3>1 DEF OnDisk
    <3>2. CASE /\ install[active] # None /\ install' = [install EXCEPT ![active] = None]
               /\ kept' = [kept EXCEPT ![active] = Append(kept[active], install[active].id)]
      <4> DEFINE x == install[active].id
      <4>1. kept[active] \in Seq(Nat) /\ x \in Nat
        BY <1>0, <3>2 DEF InstallFile
      <4>2. kept'[active] = Append(kept[active], x) /\ \A c \in Channels : c # active => kept'[c] = kept[c]
        BY <1>0, <3>2
      <4>3. \A c \in Channels : c # active => install'[c] = install[c]
        BY <1>0, <3>2
      <4> HIDE DEF x
      <4>4. Range(kept[active]) \union {x} \subseteq Range(Append(kept[active], x))
        <5> DEFINE s == kept[active]
        <5>1. Len(s) + 1 \in DOMAIN Append(s, x) /\ Append(s, x)[Len(s) + 1] = x
          BY <4>1
        <5>2. \A i \in DOMAIN s : i \in DOMAIN Append(s, x) /\ Append(s, x)[i] = s[i]
          BY <4>1
        <5> HIDE DEF s
        <5> QED BY <5>1, <5>2 DEF Range, s
      <4>5. \A c \in Channels : Range(kept[c]) \subseteq Range(kept'[c])
        BY <4>2, <4>4
      <4>6. x \in Range(kept'[active])
        BY <4>2, <4>4
      <4>7. ASSUME NEW i \in OnDisk PROVE i \in OnDisk'
        <5>1. CASE \E c \in Channels : i \in Range(kept[c])
          BY <4>5, <5>1, IsOnDisk DEF OnDisk
        <5>2. CASE \E c \in Channels : install[c] # None /\ i = install[c].id
          <6>1. PICK c \in Channels : install[c] # None /\ i = install[c].id
            BY <5>2
          <6>2. CASE c = active
            BY <1>0, <4>6, <6>1, <6>2, IsOnDisk DEF OnDisk, x
          <6>3. CASE c # active
            <7>1. install'[c] # None /\ i = install'[c].id
              BY <4>3, <6>1, <6>3
            <7> QED BY <7>1, IsOnDisk DEF OnDisk
          <6> QED BY <6>2, <6>3
        <5> QED BY <4>7, <5>1, <5>2, IsOnDisk DEF OnDisk
      <4> QED BY <4>7
    <3> QED BY <2>3, <3>1, <3>2
  <2> QED BY <2>5, <2>6
<1>6. CASE RegisterPost(r)
  <2>1. reg[r].pc = "post" /\ UNCHANGED <<install, kept>>
    BY <1>6 DEF RegisterPost
  <2>2. AtLeast(known, known')
    <3>1. known' = known \/ known' = [known EXCEPT ![reg[r].ch] = @ \union {reg[r].id}]
      BY <1>6 DEF RegisterPost
    <3>2. \A c \in Channels : known'[c] \in {known[c], known[c] \union {reg[r].id}}
      BY <1>0, <3>1
    <3> QED BY <3>2 DEF AtLeast
  <2>3. EndReg(r, FALSE) \/ GoOn(r, "saveActive")
    BY <1>6 DEF RegisterPost
  <2>4. /\ \A q \in Registrars : q # r => reg'[q] = reg[q]
        /\ reg'[r].pc \in {"idle", "done", "saveActive"}
        /\ reg'[r].pc # "idle" => /\ reg'[r].ch = reg[r].ch /\ reg'[r].id = reg[r].id
                                  /\ reg'[r].kind = reg[r].kind
        /\ reg[r].kind = "session" => reg'[r].pc # "idle"
    BY <1>3, <1>4, <2>3
  <2>5. install[active] # None =>
          /\ install[active].id = reg[r].id
          /\ reg[r].kind = "session" => reg[r].id \in known[active]
    BY <1>0, <1>2, <2>1 DEF Filed
  <2>6. (\E t \in Linkers : Linking(t)) /\ install[active] # None =>
          install[active].id \in known[active]
    BY <1>2 DEF WelcomeThen
  <2>7. known[active] \subseteq known'[active]
    BY <1>0, <2>2 DEF AtLeast
  <2>8. Tidy'
    BY <1>0, <1>1, <2>1, <2>2, <2>4, <2>5, <2>6, <2>7, RegistrarMovesOn
  <2> QED BY <2>1, <2>8 DEF OnDisk
<1>7. CASE SaveActive(r)
  <2>1. /\ reg[r].pc = "saveActive" /\ UNCHANGED <<known, kept>>
        /\ install' = [install EXCEPT ![active] = [id |-> reg[r].id, registered |-> TRUE]]
        /\ EndReg(r, TRUE) \/ GoOn(r, "saveChannel")
        /\ reg[r].kind = "session" => GoOn(r, "saveChannel")
    BY <1>0, <1>7 DEF SaveActive
  <2>2. reg[r].id \in known[active] /\ install'[active].id = reg[r].id
        /\ (install[active] # None => install[active].id = reg[r].id)
    BY <1>0, <1>2, <2>1 DEF RegOK, Filed
  <2>3. /\ \A q \in Registrars : q # r => reg'[q] = reg[q]
        /\ reg'[r].pc \in {"idle", "done", "saveChannel"}
        /\ reg'[r].pc # "idle" => /\ reg'[r].ch = reg[r].ch /\ reg'[r].id = reg[r].id
                                  /\ reg'[r].kind = reg[r].kind
        /\ reg[r].kind = "session" => reg'[r].pc # "idle"
    BY <1>3, <1>4, <2>1
  <2>4. Tidy'
    BY <1>0, <1>1, <2>1, <2>2, <2>3, RegistrarMovesOn
  <2>5. \A c \in Channels : install[c] # None => install'[c] # None /\ install'[c].id = install[c].id
    BY <1>0, <2>1, <2>2, FileIsSome DEF RegState
  <2> QED BY <2>1, <2>4, <2>5 DEF OnDisk
<1>8. CASE SaveChannel(r)
  <2> DEFINE file == [id |-> reg[r].id, registered |-> reg[r].kind = "session"]
  <2>1. /\ reg[r].pc = "saveChannel" /\ UNCHANGED <<known, kept>> /\ EndReg(r, TRUE)
        /\ install' = [install EXCEPT ![active] = file]
    BY <1>0, <1>8 DEF SaveChannel
  <2>2. /\ reg[r].kind = "session" => reg[r].id \in known[active]
        /\ install'[active].id = reg[r].id
        /\ install[active] # None => install[active].id = reg[r].id
    BY <1>0, <1>2, <2>1 DEF RegOK, Filed
  <2>3. Tidy'
    BY <1>0, <1>1, <1>2, <1>3, <2>1, <2>2, RegistrarMovesOn
  <2>4. \A c \in Channels : install[c] # None => install'[c] # None /\ install'[c].id = install[c].id
    BY <1>0, <2>1, <2>2, FileIsSome DEF RegState
  <2> QED BY <2>1, <2>3, <2>4 DEF OnDisk
<1> QED BY <1>5, <1>6, <1>7, <1>8 DEF Registrar

\* Where nothing runs but what has just begun: at most a sign-in, and at most a thread
\* that registers.
LEMMA Begun ==
  ASSUME second' = {}, kept' \in [Channels -> Seq(Nat)],
         \A t \in Linkers : Linking(t)' =>
           link'[t].pc = "bind" /\ link'[t].ch = active' /\ slot' = t,
         \A r \in Registrars : Registering(r)' =>
           /\ reg'[r].ch = active' /\ \A q \in Registrars : Registering(q)' => q = r
           /\ reg'[r].kind = "session" => regSlot' = r
           /\ \/ reg'[r].pc = "backup"
              \/ install'[active'] = None
              \/ install'[active'].id = reg'[r].id /\ reg'[r].kind # "session"
           /\ (\E t \in Linkers : Linking(t)') =>
                reg'[r].kind = "session" /\ install'[active'] = None,
         regSlot' # None => Registering(regSlot)' /\ (reg[regSlot].kind = "session")',
         regSlot' = None \/ \A t \in Linkers : Linking(t)' => slot' = t,
         pref' # None => /\ pref' = install'[active']
                         /\ \A r \in Registrars : ~ Registering(r)'
                         /\ \A t \in Linkers : ~ Linking(t)'
  PROVE  Tidy'
<1>1. \A t \in Linkers : LinkerAlone(t)' /\ WelcomeThen(t)'
  BY DEF LinkerAlone, WelcomeThen, Welcome, Busy
<1>2. \A r \in Registrars : RegistrarAlone(r)' /\ Filed(r)'
  BY DEF RegistrarAlone, Filed
<1> QED BY <1>1, <1>2 DEF Tidy, Busy

\* What starting a session does where no sign-in thread runs,
LEMMA SessionAlone ==
  ASSUME link \in [Linkers -> LinkState], NEW p, NEW c, slot = None,
         \A t \in Linkers : ~ Linking(t), TryStartSession(p, c)
  PROVE  \A t \in Linkers : Linking(t)' => link'[t].pc = "bind" /\ link'[t].ch = c /\ slot' = t
<1>1. CASE Linkers = {}
  BY <1>1
<1>2. CASE Linkers # {}
  <2> DEFINE x == CHOOSE y \in Linkers : ~ Linking(y)
             l == [NoLink EXCEPT !.pc = "bind", !.provider = p, !.ch = c]
  <2>1. x \in Linkers /\ slot' = x /\ link' = [link EXCEPT ![x] = l]
    BY <1>2 DEF TryStartSession
  <2>2. l.pc = "bind" /\ l.ch = c
    BY DEF NoLink
  <2> HIDE DEF x, l
  <2> QED BY <2>1, <2>2 DEF Linking
<1> QED BY <1>1, <1>2

\* ... and what starting a thread that registers does where none runs,
LEMMA SpawnedAlone ==
  ASSUME reg \in [Registrars -> RegState], NEW kind, NEW pc, NEW c, NEW id, SomeRegistrar,
         \A r \in Registrars : ~ Registering(r), Spawn(kind, pc, c, id)
  PROVE  \A r \in Registrars : Registering(r)' =>
           /\ reg'[r] = [pc |-> pc, kind |-> kind, ch |-> c, id |-> id, ok |-> FALSE]
           /\ \A q \in Registrars : Registering(q)' => q = r
<1> DEFINE x == CHOOSE y \in Registrars : ~ Registering(y)
           n == [pc |-> pc, kind |-> kind, ch |-> c, id |-> id, ok |-> FALSE]
<1>1. x \in Registrars /\ reg' = [reg EXCEPT ![x] = n]
  BY DEF SomeRegistrar, Spawn
<1> HIDE DEF x, n
<1>2. \A r \in Registrars : Registering(r)' => r = x /\ reg'[r] = n
  BY <1>1 DEF Registering
<1> QED BY <1>2 DEF n

\* ... through the slot too.
LEMMA RegistrationAlone ==
  ASSUME reg \in [Registrars -> RegState], NEW c, regSlot = None, None \notin Registrars,
         \A r \in Registrars : ~ Registering(r), TryStartRegister(c)
  PROVE  /\ \A r \in Registrars : Registering(r)' =>
              /\ reg'[r].pc = "backup" /\ reg'[r].kind = "session" /\ reg'[r].ch = c
              /\ \A q \in Registrars : Registering(q)' => q = r
              /\ regSlot' = r
         /\ regSlot' # None => Registering(regSlot)' /\ (reg[regSlot].kind = "session")'
<1>1. CASE ~ SomeRegistrar
  BY <1>1 DEF TryStartRegister, Registering
<1>2. CASE SomeRegistrar
  <2> DEFINE x == CHOOSE y \in Registrars : ~ Registering(y)
             n == [pc |-> "backup", kind |-> "session", ch |-> c, id |-> 0, ok |-> FALSE]
  <2>1. x \in Registrars /\ reg' = [reg EXCEPT ![x] = n] /\ regSlot' = x
    BY <1>2 DEF TryStartRegister, SomeRegistrar, Spawn
  <2>2. n.pc = "backup" /\ n.kind = "session" /\ n.ch = c
    OBVIOUS
  <2> HIDE DEF x, n
  <2> QED BY <2>1, <2>2 DEF Registering
<1> QED BY <1>1, <1>2

\* What the user clicks: everything was over.
LEMMA ClicksTidy ==
  ASSUME IInv, Careful, Tidy, Click
  PROVE  Tidy' /\ OnDisk \subseteq OnDisk'
<1> USE DEF slots, server, disk
<1>0. /\ reg \in [Registrars -> RegState] /\ link \in [Linkers -> LinkState]
      /\ slot \in Linkers \union {None} /\ regSlot \in Registrars \union {None}
      /\ None \notin Linkers \union Registrars
      /\ kept \in [Channels -> Seq(Nat)] /\ user.patient
  BY SignInAssumption DEF IInv, TypeOK, Tidy, Careful, SignInAssumption
<1>1. OnDisk \subseteq OnDisk' /\ UNCHANGED <<install, kept, second, known>>
  BY DEF Click, StartLink, CancelSession, ClickRegister, AutoRegister, ResetInstall, Unlink,
         PreferLoad, SwitchChannel, OnDisk
<1>2. CASE CancelSession
  <2>1. /\ slot \in Linkers /\ slot' = None /\ regSlot = None
        /\ UNCHANGED <<active, regSlot, reg, pref>>
        /\ \A u \in Linkers : u # slot => link'[u] = link[u]
        /\ link'[slot].pc # "idle" =>
             /\ link'[slot].pc = link[slot].pc /\ link'[slot].ch = link[slot].ch
             /\ link'[slot].id = link[slot].id /\ link'[slot].result = link[slot].result
    BY <1>0, <1>2 DEF CancelSession, LinkState, NoLink
  <2>2. CASE link[slot].pc # "idle"
    <3>1. Busy \/ second # {} => Welcome(link'[slot])
      BY <2>1, <2>2 DEF Tidy, WelcomeThen, Welcome, Linking
    <3> QED BY <1>1, <2>1, <2>2, <3>1, LinkerMovesOn DEF Linking
  <2>3. CASE link[slot].pc = "idle"
    <3>1. \A u \in Linkers : (Linking(u)' <=> Linking(u)) /\ (Linking(u) => link'[u] = link[u])
      BY <2>1, <2>3 DEF Linking
    <3>2. Busy' <=> Busy
      BY <2>1 DEF Busy, Registering
    <3>3. \A u \in Linkers : LinkerAlone(u)' /\ WelcomeThen(u)'
      BY <1>1, <2>1, <3>1, <3>2 DEF Tidy, LinkerAlone, WelcomeThen, Welcome
    <3>4. \A r \in Registrars : RegistrarAlone(r)' /\ Filed(r)'
      BY <1>1, <2>1, <3>1 DEF Tidy, RegistrarAlone, Filed, Registering
    <3> QED BY <1>0, <1>1, <2>1, <3>1, <3>2, <3>3, <3>4 DEF Tidy
  <2> QED BY <1>1, <2>2, <2>3
<1>3. CASE ~ CancelSession
  <2>1. Quiet
    BY <1>0, <1>3 DEF Click, StartLink, ClickRegister, AutoRegister, ResetInstall, Unlink,
                      PreferLoad, SwitchChannel, Clicks
  <2>2. /\ slot = None /\ regSlot = None /\ pref = None /\ second' = {}
        /\ \A t \in Linkers : ~ Linking(t)
        /\ \A r \in Registrars : ~ Registering(r)
    BY <1>1, <2>1 DEF Quiet
  <2>3. UNCHANGED link => \A t \in Linkers : ~ Linking(t)'
    BY <2>2 DEF Linking
  <2>4. UNCHANGED reg => \A r \in Registrars : ~ Registering(r)'
    BY <2>2 DEF Registering
  <2>5. CASE \E p \in Providers : StartLink(p)
    <3>1. PICK p \in Providers : StartLink(p)
      BY <2>5
    <3>2. \A t \in Linkers : Linking(t)' => link'[t].pc = "bind" /\ link'[t].ch = active /\ slot' = t
      <4>1. TryStartSession(p, active)
        BY <3>1 DEF StartLink
      <4> QED BY <1>0, <2>2, <4>1, SessionAlone
    <3>3. CASE install[active] = None
      <4>1. TryStartRegister(active) /\ UNCHANGED <<active, pref>>
        BY <3>1, <3>3 DEF StartLink
      <4>2. /\ \A r \in Registrars : Registering(r)' =>
                 /\ reg'[r].pc = "backup" /\ reg'[r].kind = "session" /\ reg'[r].ch = active
                 /\ \A q \in Registrars : Registering(q)' => q = r
                 /\ regSlot' = r
            /\ regSlot' # None => Registering(regSlot)' /\ (reg[regSlot].kind = "session")'
        BY <1>0, <2>2, <4>1, RegistrationAlone
      <4> QED BY <1>0, <1>1, <2>2, <3>2, <3>3, <4>1, <4>2, Begun
    <3>4. CASE install[active] # None
      <4>1. UNCHANGED <<active, pref, regSlot, reg>>
        BY <3>1, <3>4 DEF StartLink
      <4> QED BY <1>0, <1>1, <2>2, <2>4, <3>2, <4>1, Begun
    <3> QED BY <1>1, <3>3, <3>4
  <2>6. CASE ClickRegister
    <3>1. TryStartRegister(active) /\ UNCHANGED <<active, pref, slot, link>>
      BY <2>6 DEF ClickRegister
    <3>2. /\ \A r \in Registrars : Registering(r)' =>
               /\ reg'[r].pc = "backup" /\ reg'[r].kind = "session" /\ reg'[r].ch = active
               /\ \A q \in Registrars : Registering(q)' => q = r
               /\ regSlot' = r
          /\ regSlot' # None => Registering(regSlot)' /\ (reg[regSlot].kind = "session")'
      BY <1>0, <2>2, <3>1, RegistrationAlone
    <3> QED BY <1>0, <1>1, <2>2, <2>3, <3>1, <3>2, Begun
  <2>7. CASE AutoRegister \/ ResetInstall
    <3>1. PICK kind, pc, id :
            /\ kind \in {"worker", "reset"}
            /\ Spawn(kind, pc, active, id)
            /\ pc = "backup" \/ install[active] = None \/ install[active].id = id
      <4>1. CASE AutoRegister /\ install[active] = None
        <5>1. Spawn("worker", "post", active, minted + 1)
          BY <4>1 DEF AutoRegister, Spawn
        <5> QED BY <4>1, <5>1
      <4>2. CASE AutoRegister /\ install[active] # None
        <5>1. Spawn("worker", "post", active, install[active].id)
          BY <4>2 DEF AutoRegister
        <5> QED BY <5>1
      <4>3. CASE ResetInstall
        <5>1. Spawn("reset", "backup", active, 0)
          BY <4>3 DEF ResetInstall
        <5> QED BY <5>1
      <4> QED BY <2>7, <4>1, <4>2, <4>3
    <3>2. SomeRegistrar /\ UNCHANGED <<active, pref, slot, regSlot, link>>
      BY <2>7 DEF AutoRegister, ResetInstall
    <3>3. \A r \in Registrars : Registering(r)' =>
            /\ reg'[r] = [pc |-> pc, kind |-> kind, ch |-> active, id |-> id, ok |-> FALSE]
            /\ \A q \in Registrars : Registering(q)' => q = r
      BY <1>0, <2>2, <3>1, <3>2, SpawnedAlone
    <3> QED BY <1>0, <1>1, <2>2, <2>3, <3>1, <3>2, <3>3, Begun
  <2>8. CASE Unlink \/ \E c \in Channels : SwitchChannel(c)
    <3>1. UNCHANGED <<slot, regSlot, link, reg, pref>>
      BY <2>8 DEF Unlink, SwitchChannel
    <3> QED BY <1>0, <1>1, <2>2, <2>3, <2>4, <3>1, Begun
  <2>9. CASE PreferLoad
    <3>1. UNCHANGED <<active, slot, regSlot, link, reg>> /\ pref' = install[active]
      BY <2>9 DEF PreferLoad
    <3> QED BY <1>0, <1>1, <2>2, <2>3, <2>4, <3>1, Begun
  <2> QED BY <1>1, <1>3, <2>5, <2>6, <2>7, <2>8, <2>9 DEF Click
<1> QED BY <1>2, <1>3

\* The polls: a refused sign-in is followed by the one backup of its chain, and a
\* registration by a sign-in that is not refused.
LEMMA PollsTidy ==
  ASSUME IInv, Tidy, PollSession \/ PollRegister
  PROVE  Tidy'
<1> USE DEF server, disk
<1>0. /\ reg \in [Registrars -> RegState] /\ link \in [Linkers -> LinkState]
      /\ slot \in Linkers \union {None} /\ regSlot \in Registrars \union {None}
      /\ None \notin Linkers \union Registrars
      /\ kept \in [Channels -> Seq(Nat)]
  BY SignInAssumption DEF IInv, TypeOK, Tidy, SignInAssumption
<1>1. UNCHANGED <<active, install, kept, second, known, pref>>
  BY DEF PollSession, PollRegister
<1>2. CASE PollSession
  <2>1. /\ slot \in Linkers /\ Linking(slot) /\ link[slot].pc = "done"
        /\ link' = [link EXCEPT ![slot] = NoLink] /\ slot' = None
    BY <1>0, <1>2 DEF PollSession, Linking
  <2>2. /\ link[slot].ch = active /\ pref = None
        /\ \A t \in Linkers : Linking(t) => t = slot
    BY <2>1 DEF Tidy, LinkerAlone
  <2>3. /\ \A u \in Linkers : u # slot => link'[u] = link[u]
        /\ link'[slot].pc = "idle" /\ \A t \in Linkers : ~ Linking(t)'
    BY <1>0, <2>1, <2>2 DEF Linking, NoLink
  <2>4. CASE link[slot].result = "unregistered"
    <3>1. ~ Busy /\ second = {}
      BY <2>1, <2>4 DEF Tidy, WelcomeThen, Welcome
    <3>2. regSlot = None /\ \A r \in Registrars : ~ Registering(r)
      BY <1>0, <3>1 DEF Tidy, Busy
    <3>3. TryStartRegister(active)
      BY <1>2, <2>2, <2>4 DEF PollSession
    <3>4. /\ \A r \in Registrars : Registering(r)' =>
               /\ reg'[r].pc = "backup" /\ reg'[r].kind = "session" /\ reg'[r].ch = active
               /\ \A q \in Registrars : Registering(q)' => q = r
               /\ regSlot' = r
          /\ regSlot' # None => Registering(regSlot)' /\ (reg[regSlot].kind = "session")'
      BY <1>0, <3>2, <3>3, RegistrationAlone
    <3> QED BY <1>0, <1>1, <2>2, <2>3, <3>1, <3>4, Begun
  <2>5. CASE link[slot].result # "unregistered"
    <3>1. UNCHANGED <<regSlot, reg>>
      BY <1>2, <2>5 DEF PollSession
    <3> QED BY <1>1, <2>1, <2>3, <3>1, LinkerMovesOn DEF Welcome
  <2> QED BY <2>4, <2>5
<1>3. CASE PollRegister
  <2>1. /\ regSlot \in Registrars /\ Registering(regSlot) /\ reg[regSlot].pc = "done"
        /\ reg' = [reg EXCEPT ![regSlot] = NoReg] /\ regSlot' = None
    BY <1>0, <1>3 DEF PollRegister, Registering
  <2>2. /\ reg[regSlot].kind = "session" /\ pref = None /\ Busy
        /\ \A r \in Registrars : Registering(r) => r = regSlot
        /\ install[active] # None => install[active].id \in known[active]
    BY <1>0, <2>1 DEF Tidy, RegistrarAlone, Filed, Busy
  <2>3. \A r \in Registrars : ~ Registering(r)'
    BY <1>0, <2>1, <2>2 DEF Registering, NoReg
  <2>4. \A t \in Linkers : LinkerAlone(t)' /\ WelcomeThen(t)'
    <3>1. CASE UNCHANGED <<slot, link>>
      BY <1>1, <2>1, <2>2, <3>1 DEF Tidy, LinkerAlone, WelcomeThen, Welcome, Linking
    <3>2. CASE slot = None /\ TryStartSession(stash, active)
      <4>1. \A t \in Linkers : ~ Linking(t)
        BY <1>0, <2>1, <3>2 DEF Tidy, LinkerAlone
      <4>2. \A t \in Linkers : Linking(t)' =>
              link'[t].pc = "bind" /\ link'[t].ch = active /\ slot' = t
        BY <1>0, <3>2, <4>1, SessionAlone
      <4> QED BY <1>1, <2>1, <2>2, <4>2 DEF LinkerAlone, WelcomeThen, Welcome
    <3> QED BY <1>3, <3>1, <3>2 DEF PollRegister, TryStartSession
  <2>5. \A r \in Registrars : RegistrarAlone(r)' /\ Filed(r)'
    BY <2>3 DEF RegistrarAlone, Filed
  <2> QED BY <1>0, <1>1, <2>1, <2>2, <2>4, <2>5 DEF Tidy
<1> QED BY <1>2, <1>3

\* A user stays the one chosen at the start.
LEMMA UserStays ==
  ASSUME [Next]_vars
  PROVE  user' = user
<1>1. CASE Click
  BY <1>1 DEF Click, StartLink, CancelSession, ClickRegister, AutoRegister, ResetInstall, Unlink,
              PreferLoad, SwitchChannel, bounds
<1>2. CASE \E t \in Linkers : \/ Linker(t) \/ Listener(t) \/ TimeOut(t)
                              \/ \E what \in {"code", "refusal"} : Redirect(t, what)
  BY <1>2 DEF Linker, Bind, OpenBrowser, Listener, ListenerChecks, ListenerSleeps, Redirect,
              Receive, LookAtFlag, TimeOut, LoadInstall, Exchange, SaveToken, bounds
<1>3. CASE \E r \in Registrars : Registrar(r)
  BY <1>3 DEF Registrar, BackUp, RegisterPost, SaveActive, SaveChannel, bounds
<1>4. CASE PreferSave \/ Tick \/ PollSession \/ PollRegister \/ UNCHANGED vars
  BY <1>4 DEF PreferSave, Tick, PollSession, PollRegister, vars, bounds
<1> QED BY <1>1, <1>2, <1>3, <1>4 DEF Next

\* Every step of a careful user's keeps the order, and every identity.
LEMMA NextTidy ==
  ASSUME IInv, Careful, Tidy, [Next]_vars
  PROVE  Tidy' /\ OnDisk \subseteq OnDisk'
<1>1. CASE Click
  BY <1>1, ClicksTidy
<1>2. CASE PreferSave
  <2>1. pref = install[active] /\ install' = install /\ pref' = None
    BY <1>2 DEF PreferSave, Tidy, IInv, TypeOK
  <2>2. UNCHANGED <<active, kept, second, known, slot, regSlot, link, reg>>
    BY <1>2 DEF PreferSave, server, slots
  <2> QED BY <2>1, <2>2
          DEF Tidy, OnDisk, LinkerAlone, WelcomeThen, Welcome, RegistrarAlone, Filed, Busy, Linking,
              Registering
<1>3. CASE Tick \/ UNCHANGED vars
  <2>1. /\ UNCHANGED <<active, install, kept, known, slot, regSlot, link, reg, pref>>
        /\ second' \in {second, {}}
    BY <1>3 DEF Tick, vars, disk, server, slots
  <2> QED BY <2>1
          DEF Tidy, OnDisk, LinkerAlone, WelcomeThen, Welcome, RegistrarAlone, Filed, Busy, Linking,
              Registering
<1>4. CASE PollSession \/ PollRegister
  BY <1>4, PollsTidy DEF PollSession, PollRegister, OnDisk, disk
<1>5. CASE \E t \in Linkers : \/ Linker(t) \/ Listener(t) \/ TimeOut(t)
                              \/ \E what \in {"code", "refusal"} : Redirect(t, what)
  <2>1. UNCHANGED <<install, kept>>
    BY <1>5 DEF Linker, Bind, OpenBrowser, Listener, ListenerChecks, ListenerSleeps, Redirect,
                Receive, LookAtFlag, TimeOut, LoadInstall, Exchange, SaveToken, disk
  <2> QED BY <1>5, <2>1, LinkersTidy DEF OnDisk
<1>6. CASE \E r \in Registrars : Registrar(r)
  BY <1>6, RegistrarsTidy
<1> QED BY <1>1, <1>2, <1>3, <1>4, <1>5, <1>6 DEF Next

\* For a user who waits, and where backups and saves work, an identity that was once on
\* disk stays there, in the install file or a backup of it (registration.rs, install.rs).
THEOREM NoneForgotten == Spec => IdentitiesKept
<1> DEFINE Inv == IInv /\ switches \in Nat /\ (Careful => Tidy)
<1>1. Init => Inv
  <2> SUFFICES ASSUME Init PROVE Tidy
    BY InitInv DEF Init
  <2>1. kept \in [Channels -> Seq(Nat)]
    BY DEF Init
  <2> QED BY <2>1 DEF Init, Tidy, LinkerAlone, WelcomeThen, RegistrarAlone, Filed, Linking,
                       Registering, NoLink, NoReg
<1>2. Inv /\ [Next]_vars => Inv'
  <2> SUFFICES ASSUME Inv, [Next]_vars PROVE Inv'
    OBVIOUS
  <2>1. Careful' <=> Careful
    BY UserStays DEF Careful, DiskFails
  <2> QED BY <2>1, NextKeeps, SwitchesKeep, NextTidy
<1>3. Inv /\ [Next]_vars => [Careful => OnDisk \subseteq OnDisk']_vars
  BY NextTidy
<1> HIDE DEF Inv
<1> QED BY <1>1, <1>2, <1>3, PTL DEF Spec, IdentitiesKept, Careful

-----------------------------------------------------------------------------
(* AccountProfile: the inductive invariant.                                *)

Names == Nicknames \union {Unnamed, None}

Account == [flags : SUBSET Flags, name : Nicknames \union {Unnamed}]

Privacy == [cache : {None} \union SUBSET Flags, in_flight : BOOLEAN, last_outcome : {None, "failed"}]

Frame == [flags : SUBSET Flags, install : {None} \union InstallFile]

Nick ==
  [current : Names, fetching : BOOLEAN, saving : BOOLEAN, editing : BOOLEAN, edit_buf : Names,
   confirming : BOOLEAN, last_message : {None, "set", "failed"}, initial_fetch_attempted : BOOLEAN]

Thread ==
  [at : {"idle", "load", "ask", "answered"}, what : {None, "get", "patch", "set"},
   by : {None} \union InstallFile, value : Names \union SUBSET Flags, reply : {None} \union Account]

ProfileTyped ==
  /\ profile \in [Accounts -> Account]
  /\ privacy \in Privacy
  /\ frame \in {None} \union Frame
  /\ nick \in Nick
  /\ call \in [Calls -> Thread]
  /\ touched \subseteq Flags

\* What each thread asks, and the marks that keep a second one of its kind from starting.
Gates ==
  /\ privacy.in_flight <=> call["flags"].at # "idle"
  /\ nick.fetching <=> call["name"].at # "idle"
  /\ nick.saving <=> call["rename"].at # "idle"
  /\ \A k \in Calls : Told(k) => call[k].at = "answered"
  /\ call["flags"].what \in {None, "get", "patch"}
  /\ call["name"].what \in {None, "get"}
  /\ call["rename"].what \in {None, "set"}
  /\ call["flags"].what = "patch" => call["flags"].value \in SUBSET Flags
  /\ call["rename"].what = "set" => call["rename"].value \in Nicknames

\* The nickname is not edited before it has been fetched, and while one is being saved
\* nothing is said of an earlier one.
Editor ==
  /\ ~nick.initial_fetch_attempted => nick = NicknameUi
  /\ nick.fetching => /\ nick.current = None /\ nick.last_message = None
                      /\ ~nick.editing /\ ~nick.confirming /\ ~nick.saving
  /\ nick.saving => nick.last_message = None
  /\ nick.confirming => nick.edit_buf \in Nicknames

\* A frame that no answer interrupts has read what is in the cache.
Frames ==
  ~user.midFrame =>
    /\ frame # None /\ ~privacy.in_flight => privacy.cache # None /\ frame.flags = privacy.cache
    /\ call["flags"].what = "patch" => call["flags"].value = privacy.cache

Settled == ~privacy.in_flight /\ privacy.last_outcome = None /\ privacy.cache # None

\* Nothing is known of an account before there is one.
Found ==
  Told("flags") \/ Told("rename") \/ Settled \/ nick.last_message = "set"
    \/ (~user.midFrame /\ privacy.cache # None)
  => BoundAccounts # {}

\* What is known of account a.
True(a) ==
  /\ Told("flags") => \A f \in AlwaysTold : f \in call["flags"].reply.flags <=> f \in profile[a].flags
  /\ Told("rename") => call["rename"].reply.name = profile[a].name
  /\ Settled => \A f \in AlwaysTold : f \in privacy.cache <=> f \in profile[a].flags
  /\ nick.last_message = "set" => nick.current = profile[a].name
  /\ ~user.midFrame /\ privacy.cache # None =>
       \A f \in AlwaysTold \ touched : f \in privacy.cache <=> f \in profile[a].flags

PInv ==
  /\ ProfileTyped /\ Gates /\ Editor /\ Frames /\ Found
  /\ OneAccount => \A a \in BoundAccounts : True(a)

\* Which flags every answer has does not change.
LEMMA ToldStays ==
  ASSUME user' = user
  PROVE  AlwaysTold' = AlwaysTold
BY DEF AlwaysTold

-----------------------------------------------------------------------------
(* Steps of SignIn: links are made, none is undone.                        *)

\* A server keeps the links it has made.
LEMMA BoundGrows ==
  ASSUME IInv, [Next]_vars
  PROVE  AtLeast(bound, bound')
<1>0. bound \in [Channels -> SUBSET TokenFile]
  BY DEF IInv, TypeOK
<1>1. CASE Click
  BY <1>1 DEF Click, StartLink, CancelSession, ClickRegister, AutoRegister, ResetInstall, Unlink,
              PreferLoad, SwitchChannel, server, AtLeast
<1>2. CASE \E t \in Linkers : \/ Linker(t) \/ Listener(t) \/ TimeOut(t)
                              \/ \E what \in {"code", "refusal"} : Redirect(t, what)
  <2>1. CASE \E t \in Linkers : Exchange(t)
    <3>1. PICK t \in Linkers : bound' = bound \/ bound' = [bound EXCEPT ![link[t].ch] = @ \union {Bond(t)}]
      BY <2>1 DEF Exchange
    <3> QED BY <1>0, <3>1 DEF AtLeast
  <2>2. CASE ~ \E t \in Linkers : Exchange(t)
    <3>1. UNCHANGED bound
      BY <1>2, <2>2 DEF Linker, Bind, OpenBrowser, Listener, ListenerChecks, ListenerSleeps,
                        Redirect, Receive, LookAtFlag, TimeOut, LoadInstall, SaveToken, server
    <3> QED BY <3>1 DEF AtLeast
  <2> QED BY <2>1, <2>2
<1>3. CASE \E r \in Registrars : Registrar(r)
  BY <1>3 DEF Registrar, BackUp, RegisterPost, SaveActive, SaveChannel, server, AtLeast
<1>4. CASE PreferSave \/ Tick \/ PollSession \/ PollRegister \/ UNCHANGED vars
  BY <1>4 DEF PreferSave, Tick, PollSession, PollRegister, vars, server, AtLeast
<1> QED BY <1>1, <1>2, <1>3, <1>4 DEF Next

\* With one account before and after, it is the same one.
LEMMA SignInKeeps ==
  ASSUME PInv, IInv, [Next]_vars, UNCHANGED profileVars
  PROVE  PInv'
<1>1. user' = user /\ AlwaysTold' = AlwaysTold
  BY UserStays, ToldStays
<1>2. BoundAccounts \subseteq BoundAccounts'
  BY BoundGrows DEF BoundAccounts, AtLeast, Accounts
<1>3. ProfileTyped' /\ Gates' /\ Editor' /\ Frames'
  BY <1>1 DEF PInv, profileVars, ProfileTyped, Gates, Editor, Frames, Told
<1>4. /\ Told("flags")' = Told("flags") /\ Told("rename")' = Told("rename") /\ Settled' = Settled
      /\ UNCHANGED <<profile, privacy, nick, call, touched>>
  BY DEF profileVars, Told, Settled
<1>5. Found'
  BY <1>1, <1>2, <1>4 DEF PInv, Found
<1>6. ASSUME OneAccount', NEW a \in BoundAccounts'
      PROVE  True(a)'
  <2>1. CASE BoundAccounts = {}
    BY <1>1, <1>4, <2>1 DEF PInv, Found, True
  <2>2. CASE BoundAccounts # {}
    <3>1. a \in BoundAccounts /\ OneAccount
      BY <1>2, <1>6, <2>2 DEF OneAccount
    <3>2. True(a)
      BY <3>1 DEF PInv
    <3> QED BY <1>1, <1>4, <3>2 DEF True
  <2> QED BY <2>1, <2>2
<1> QED BY <1>3, <1>5, <1>6 DEF PInv

-----------------------------------------------------------------------------
(* Threads.                                                                *)

\* A nickname thread that has loaded the install file.
LEMMA LoadKeeps ==
  ASSUME PInv, IInv, UNCHANGED vars, NEW k \in Calls, Load(k)
  PROVE  PInv'
<1> DEFINE n == [call[k] EXCEPT !.by = install[active],
                                !.at = IF install[active] = None THEN "answered" ELSE "ask"]
<1>1. /\ call' = [call EXCEPT ![k] = n] /\ call[k].at = "load"
      /\ UNCHANGED <<user, bound, profile, privacy, frame, nick, touched>>
  BY DEF Load, vars, server, bounds
<1>2. call[k] \in Thread /\ call \in [Calls -> Thread]
  BY DEF PInv, ProfileTyped
<1>3. /\ n \in Thread /\ n.at # "idle"
      /\ n.what = call[k].what /\ n.value = call[k].value /\ n.reply = call[k].reply
  <2>1. install[active] \in {None} \union InstallFile
    BY DEF IInv, TypeOK
  <2> QED BY <1>2, <2>1 DEF Thread
<1> HIDE DEF n
<1>4. \A j \in Calls : /\ call'[j].what = call[j].what /\ call'[j].value = call[j].value
                       /\ call'[j].reply = call[j].reply /\ Told(j)' = Told(j)
                       /\ call'[j].at = "idle" <=> call[j].at = "idle"
  BY <1>1, <1>2, <1>3 DEF Told
<1>5. call[k].reply = None
  BY <1>1 DEF PInv, Gates, Told
<1>6. ProfileTyped'
  BY <1>1, <1>2, <1>3 DEF PInv, ProfileTyped
<1>7. Gates'
  <2>1. \A j \in Calls : Told(j)' => call'[j].at = "answered"
    BY <1>1, <1>2, <1>4, <1>5 DEF PInv, Gates, Told
  <2> QED BY <1>1, <1>4, <2>1 DEF PInv, Gates, Calls
<1>8. Editor'
  BY <1>1 DEF PInv, Editor
<1>9. Frames'
  BY <1>1, <1>4 DEF PInv, Frames, Calls
<1>10. Found' /\ (OneAccount' => \A a \in BoundAccounts' : True(a)')
  BY <1>1, <1>4, ToldStays DEF PInv, Found, Settled, True, OneAccount, BoundAccounts, Calls
<1> QED BY <1>6, <1>7, <1>8, <1>9, <1>10 DEF PInv

\* What a request does to the account it is about.
LEMMA ServedOne ==
  ASSUME PInv, NEW k \in Calls, NEW p \in Account
  PROVE  /\ Served(p, k) \in Account
         /\ k # "rename" => Served(p, k).name = p.name
         /\ k # "flags" => Served(p, k).flags = p.flags
         /\ Served(p, k).flags # p.flags =>
              call["flags"].what = "patch" /\ Served(p, k).flags = call["flags"].value
<1>1. CASE k = "flags"
  BY <1>1, ProfileAssumption DEF ProfileAssumption, PInv, Gates, Served, Account
<1>2. CASE k = "name"
  BY <1>2, ProfileAssumption DEF ProfileAssumption, PInv, Gates, Served, Account
<1>3. CASE k = "rename"
  BY <1>3, ProfileAssumption DEF ProfileAssumption, PInv, Gates, Served, Account
<1> QED BY <1>1, <1>2, <1>3 DEF Calls

\* What an answer tells of an account: its name, and the flags that every answer has.
Tells(reply, p) ==
  /\ p \in Account => reply \in Account
  /\ reply.name = p.name
  /\ \A f \in AlwaysTold : f \in reply.flags <=> f \in p.flags

\* An answer is a failure or tells of the account.
LEMMA ParsedTells ==
  ASSUME NEW p, NEW keys \in {Flags} \cup user.shapes, p \in Account
  PROVE  Parsed(p, keys) = None \/ Tells(Parsed(p, keys), p)
<1>1. SUFFICES ASSUME keys # {} PROVE Tells([p EXCEPT !.flags = @ \cap keys], p)
  BY DEF Parsed
<1> DEFINE r == [p EXCEPT !.flags = @ \cap keys]
<1>2. r \in Account /\ r.name = p.name /\ r.flags = p.flags \cap keys
  BY DEF Account
<1>3. AlwaysTold \subseteq keys
  BY <1>1 DEF AlwaysTold
<1> QED BY <1>2, <1>3 DEF Tells

\* The account of a request is one the server has bound.
LEMMA AskedOne ==
  ASSUME PInv, NEW k \in Calls, Ask(k), IInv
  PROVE  \/ UNCHANGED profile /\ Replied(k, None)
         \/ \E a \in BoundAccounts :
              /\ a \in Accounts
              /\ profile' = [profile EXCEPT ![a] = Served(@, k)]
              /\ Replied(k, None) \/ \E reply : Replied(k, reply) /\ Tells(reply, profile'[a])
<1>1. CASE UNCHANGED profile /\ Replied(k, None)
  BY <1>1
<1>2. CASE ~ (UNCHANGED profile /\ Replied(k, None))
  <2>1. PICK a \in AccountsOf(call[k].by.id) :
          /\ profile' = [profile EXCEPT ![a] = Served(@, k)]
          /\ \/ Replied(k, None)
             \/ \E keys \in {Flags} \cup user.shapes : Replied(k, Parsed(profile'[a], keys))
    BY <1>2 DEF Ask
  <2>2. a \in Accounts /\ a \in BoundAccounts
    BY <2>1 DEF AccountsOf, BoundAccounts
  <2>3. profile'[a] \in Account
    BY <2>1, <2>2, ServedOne DEF PInv, ProfileTyped
  <2> QED BY <2>1, <2>2, <2>3, ParsedTells
<1> QED BY <1>1, <1>2

\* A request that is answered or fails.
LEMMA AskKeeps ==
  ASSUME PInv, IInv, UNCHANGED vars, NEW k \in Calls, Ask(k)
  PROVE  PInv'
<1>1. /\ call[k].at = "ask" /\ call[k] \in Thread /\ call \in [Calls -> Thread]
      /\ profile \in [Accounts -> Account]
      /\ UNCHANGED <<user, bound, privacy, frame, nick, touched>>
  BY DEF Ask, vars, server, bounds, PInv, ProfileTyped
<1>2. ~Told(k)
  BY <1>1 DEF PInv, Gates
<1>3. PICK reply \in {None} \union Account :
        /\ Replied(k, reply)
        /\ \/ reply = None /\ UNCHANGED profile
           \/ \E a \in BoundAccounts :
                /\ a \in Accounts
                /\ profile' = [profile EXCEPT ![a] = Served(@, k)]
                /\ reply = None \/ Tells(reply, profile'[a])
  <2>1. CASE UNCHANGED profile /\ Replied(k, None)
    BY <2>1
  <2>2. ASSUME NEW a \in BoundAccounts, a \in Accounts,
               profile' = [profile EXCEPT ![a] = Served(@, k)],
               NEW reply, reply = None \/ Tells(reply, profile'[a]), Replied(k, reply)
        PROVE  reply \in {None} \union Account
    BY <1>1, <2>2, ServedOne DEF Tells
  <2> QED BY <2>1, <2>2, AskedOne
<1> DEFINE n == [call[k] EXCEPT !.at = "answered", !.reply = reply]
<1>4. call' = [call EXCEPT ![k] = n]
  BY <1>3 DEF Replied
<1>5. /\ n \in Thread /\ n.at = "answered" /\ n.reply = reply
      /\ n.what = call[k].what /\ n.value = call[k].value
  BY <1>1 DEF Thread
<1> HIDE DEF n
<1>6. \A j \in Calls : /\ call'[j].what = call[j].what /\ call'[j].value = call[j].value
                       /\ call'[j].at = "idle" <=> call[j].at = "idle"
  BY <1>1, <1>4, <1>5
<1>7. /\ \A j \in Calls \ {k} : call'[j] = call[j]
      /\ call'[k].reply = reply /\ call'[k].at = "answered"
  BY <1>1, <1>4, <1>5
<1>8. profile' \in [Accounts -> Account]
  BY <1>1, <1>3, ServedOne
<1>9. ProfileTyped'
  BY <1>1, <1>4, <1>5, <1>8 DEF PInv, ProfileTyped
<1>10. Gates'
  <2>1. \A j \in Calls : Told(j)' => call'[j].at = "answered"
    BY <1>7 DEF PInv, Gates, Told
  <2> QED BY <1>1, <1>6, <2>1 DEF PInv, Gates, Calls
<1>11. Editor'
  BY <1>1 DEF PInv, Editor
<1>12. Frames'
  BY <1>1, <1>6 DEF PInv, Frames, Calls
<1>13. Found'
  <2>1. BoundAccounts' = BoundAccounts /\ Settled' = Settled
    BY <1>1 DEF BoundAccounts, Settled
  <2>2. Told(k)' => BoundAccounts # {}
    BY <1>3, <1>7 DEF Told
  <2>3. \A j \in Calls \ {k} : Told(j)' = Told(j)
    BY <1>7 DEF Told
  <2> QED BY <1>1, <2>1, <2>2, <2>3 DEF PInv, Found, Calls
<1>14. ASSUME OneAccount', NEW a \in BoundAccounts' PROVE True(a)'
  <2>1. /\ a \in BoundAccounts /\ OneAccount /\ True(a) /\ a \in Accounts
        /\ AlwaysTold' = AlwaysTold
    BY <1>1, <1>14, ToldStays DEF BoundAccounts, OneAccount, PInv
  <2>2. \A j \in Calls \ {k} : Told(j)' = Told(j) /\ call'[j] = call[j]
    BY <1>7 DEF Told
  <2>3. CASE UNCHANGED profile /\ reply = None
    <3>1. ~Told(k)'
      BY <1>7, <2>3 DEF Told
    <3> QED BY <1>1, <2>1, <2>2, <2>3, <3>1 DEF True, Settled, Calls
  <2>4. CASE /\ profile' = [profile EXCEPT ![a] = Served(@, k)]
             /\ reply = None \/ Tells(reply, profile'[a])
    <3> DEFINE p == profile[a]
    <3>1. profile'[a] = Served(p, k) /\ p \in Account
      BY <1>1, <2>1, <2>4
    <3>2. Told(k)' => /\ call'[k].reply.name = profile'[a].name
                      /\ \A f \in AlwaysTold : f \in call'[k].reply.flags <=> f \in profile'[a].flags
      BY <1>7, <2>4 DEF Told, Tells
    <3>3. CASE k = "flags"
      <4>1. privacy.in_flight
        BY <1>1, <3>3 DEF PInv, Gates
      <4>2. profile'[a].name = profile[a].name
        BY <3>1, <3>3, ServedOne
      <4>3. profile'[a].flags = profile[a].flags
             \/ (call["flags"].what = "patch" /\ profile'[a].flags = call["flags"].value)
        BY <3>1, ServedOne
      <4>4. ~user.midFrame /\ privacy.cache # None =>
              \A f \in AlwaysTold \ touched : f \in privacy.cache <=> f \in profile'[a].flags
        BY <2>1, <4>3 DEF True, PInv, Frames
      <4> QED BY <1>1, <2>1, <2>2, <3>2, <3>3, <4>1, <4>2, <4>4 DEF True, Settled, Calls
    <3>4. CASE k = "name"
      <4>1. profile'[a].name = profile[a].name /\ profile'[a].flags = profile[a].flags
        BY <3>1, <3>4, ServedOne
      <4> QED BY <1>1, <2>1, <2>2, <3>4, <4>1 DEF True, Settled, Calls
    <3>5. CASE k = "rename"
      <4>1. profile'[a].flags = profile[a].flags
        BY <3>1, <3>5, ServedOne
      <4>2. nick.last_message = None
        BY <1>1, <3>5 DEF PInv, Gates, Editor
      <4> QED BY <1>1, <2>1, <2>2, <3>2, <3>5, <4>1, <4>2, ProfileAssumption
           DEF ProfileAssumption, True, Settled, Calls
    <3> QED BY <3>3, <3>4, <3>5 DEF Calls
  <2> QED BY <1>3, <2>1, <2>3, <2>4 DEF OneAccount
<1> QED BY <1>9, <1>10, <1>11, <1>12, <1>13, <1>14 DEF PInv

-----------------------------------------------------------------------------
(* The flags.                                                              *)

\* A step that changes neither the account nor the nickname.
LEMMA FlagsPart ==
  ASSUME PInv, IInv, UNCHANGED <<vars, profile, nick>>,
         NEW n \in Thread, call' = [call EXCEPT !["flags"] = n],
         privacy' \in Privacy, frame' \in {None} \union Frame, touched' \subseteq Flags,
         privacy'.in_flight <=> n.at # "idle",
         n.reply = None,
         n.what \in {None, "get", "patch"},
         n.what = "patch" => n.value \in SUBSET Flags,
         Frames', Found',
         OneAccount => \A a \in BoundAccounts :
           /\ Settled' => \A f \in AlwaysTold : f \in privacy'.cache <=> f \in profile[a].flags
           /\ ~user.midFrame /\ privacy'.cache # None =>
                \A f \in AlwaysTold \ touched' : f \in privacy'.cache <=> f \in profile[a].flags
  PROVE  PInv'
<1>1. call \in [Calls -> Thread] /\ UNCHANGED <<user, bound, profile, nick>> /\ AlwaysTold' = AlwaysTold
  BY ToldStays DEF PInv, ProfileTyped, vars, server, bounds
<1>2. /\ call'["flags"] = n /\ call'["name"] = call["name"] /\ call'["rename"] = call["rename"]
      /\ ~Told("flags")' /\ Told("name")' = Told("name") /\ Told("rename")' = Told("rename")
  BY <1>1 DEF Calls, Told
<1>3. ProfileTyped'
  BY <1>1 DEF PInv, ProfileTyped
<1>4. Gates'
  BY <1>1, <1>2 DEF PInv, Gates, Calls
<1>5. Editor'
  BY <1>1 DEF PInv, Editor
<1>6. ASSUME OneAccount', NEW a \in BoundAccounts' PROVE True(a)'
  <2>1. a \in BoundAccounts /\ OneAccount /\ True(a)
    BY <1>1, <1>6 DEF BoundAccounts, OneAccount, PInv
  <2> QED BY <1>1, <1>2, <2>1 DEF True
<1> QED BY <1>3, <1>4, <1>5, <1>6 DEF PInv

LEMMA NoCallTyped ==
  NoCall \in Thread /\ NoCall.at = "idle" /\ NoCall.what = None /\ NoCall.reply = None
BY DEF NoCall, Thread, Names

\* A frame begins, and perhaps a fetch.
LEMMA BeginFrameKeeps ==
  ASSUME PInv, IInv, UNCHANGED vars, BeginFrame
  PROVE  PInv'
<1> DEFINE kick == privacy.cache = None /\ ~privacy.in_flight
           n == IF kick THEN [at |-> "ask", what |-> "get", by |-> install[active],
                              value |-> None, reply |-> None]
                        ELSE call["flags"]
<1>1. /\ privacy \in Privacy /\ call \in [Calls -> Thread] /\ call["flags"] \in Thread
      /\ install[active] \in {None} \union InstallFile
      /\ BoundAccounts' = BoundAccounts /\ UNCHANGED <<user, profile, nick, touched>>
  BY DEF BeginFrame, PInv, ProfileTyped, Calls, IInv, TypeOK, vars, server, bounds, BoundAccounts
<1>2. /\ privacy' = [privacy EXCEPT !.in_flight = @ \/ kick]
      /\ call' = [call EXCEPT !["flags"] = n]
      /\ frame' = [flags |-> IF privacy.cache = None THEN {} ELSE privacy.cache,
                   install |-> install[active]]
  BY <1>1 DEF BeginFrame, Start
<1>3. /\ privacy' \in Privacy /\ privacy'.cache = privacy.cache
      /\ privacy'.last_outcome = privacy.last_outcome
      /\ privacy'.in_flight <=> privacy.in_flight \/ kick
  BY <1>1, <1>2 DEF Privacy
<1>4. frame' \in {None} \union Frame
  BY <1>1, <1>2 DEF Privacy, Frame
<1>5. CASE kick
  <2>1. n \in Thread /\ n.at = "ask" /\ n.what = "get" /\ n.reply = None
    BY <1>1, <1>5 DEF Thread, Names
  <2>2. call'["flags"] = n
    BY <1>1, <1>2 DEF Calls
  <2> HIDE DEF n
  <2>3. Frames'
    BY <1>1, <1>3, <1>5, <2>1, <2>2 DEF Frames
  <2>4. ~Told("flags")' /\ Told("rename")' = Told("rename")
    BY <1>1, <1>2, <2>1, <2>2 DEF Told, Calls
  <2>5. Found' /\ ~Settled'
    BY <1>1, <1>3, <1>5, <2>4 DEF PInv, Found, Settled
  <2>6. touched' \subseteq Flags
    BY <1>1 DEF PInv, ProfileTyped
  <2> QED BY <1>1, <1>2, <1>3, <1>4, <1>5, <2>1, <2>3, <2>5, <2>6, FlagsPart
<1>6. CASE ~kick
  <2>1. call' = call /\ privacy' = privacy
    BY <1>1, <1>2, <1>6 DEF Privacy
  <2>2. Frames'
    BY <1>1, <1>2, <1>6, <2>1 DEF PInv, Frames
  <2>3. Told("flags")' = Told("flags") /\ Told("rename")' = Told("rename") /\ Settled' = Settled
    BY <2>1 DEF Told, Settled
  <2>4. ProfileTyped' /\ Gates' /\ Editor' /\ Found'
    BY <1>1, <1>4, <2>1, <2>3 DEF PInv, ProfileTyped, Gates, Told, Editor, Found
  <2>5. OneAccount' => \A a \in BoundAccounts' : True(a)'
    BY <1>1, <2>1, <2>3, ToldStays DEF PInv, OneAccount, True
  <2> QED BY <2>2, <2>4, <2>5 DEF PInv
<1> QED BY <1>5, <1>6

\* A frame ends with nothing clicked.
LEMMA EndFrameKeeps ==
  ASSUME PInv, IInv, UNCHANGED vars, EndFrame
  PROVE  PInv'
<1>1. UNCHANGED <<user, bound, profile, privacy, nick, call, touched>> /\ frame' = None
  BY DEF EndFrame, vars, server, bounds
<1>2. ProfileTyped' /\ Gates' /\ Editor' /\ Frames' /\ Found'
  BY <1>1 DEF PInv, ProfileTyped, Gates, Told, Editor, Frames, Found, Settled, BoundAccounts
<1>3. OneAccount' => \A a \in BoundAccounts' : True(a)'
  BY <1>1, ToldStays DEF PInv, OneAccount, BoundAccounts, True, Told, Settled
<1> QED BY <1>2, <1>3 DEF PInv

\* A flag is clicked.
LEMMA ToggleKeeps ==
  ASSUME PInv, IInv, UNCHANGED vars, NEW f \in Flags, Toggle(f)
  PROVE  PInv'
<1> DEFINE current == Flip(frame.flags, f)
           n == [at |-> "ask", what |-> "patch", by |-> frame.install, value |-> current,
                 reply |-> None]
<1>1. /\ privacy' = [cache |-> current, in_flight |-> TRUE, last_outcome |-> None]
      /\ call' = [call EXCEPT !["flags"] = n]
      /\ frame # None /\ frame' = None /\ ~privacy.in_flight
      /\ touched' = touched \union {f}
      /\ UNCHANGED <<user, bound, profile, nick>>
  BY DEF Toggle, Start, vars, server, bounds
<1>2. frame \in Frame /\ call \in [Calls -> Thread] /\ touched \subseteq Flags
  BY <1>1 DEF PInv, ProfileTyped
<1>3. current \in SUBSET Flags /\ frame.install \in {None} \union InstallFile
  BY <1>2 DEF Frame, Flip
<1>4. \A g \in Flags \ {f} : g \in current <=> g \in frame.flags
  BY DEF Flip
<1> HIDE DEF current
<1>5. privacy' \in Privacy /\ privacy'.in_flight /\ privacy'.cache = current
  BY <1>1, <1>3 DEF Privacy
<1>6. /\ n \in Thread /\ n.at # "idle" /\ n.what = "patch" /\ n.value = current
      /\ n.reply = None
  BY <1>3 DEF Thread
<1> HIDE DEF n
<1>7. /\ call'["flags"] = n /\ ~Told("flags")' /\ Told("rename")' = Told("rename") /\ ~Settled'
  BY <1>1, <1>2, <1>5, <1>6 DEF Calls, Told, Settled
<1>8. Frames'
  BY <1>1, <1>5, <1>6, <1>7 DEF Frames
<1>9. ~user.midFrame => privacy.cache # None /\ frame.flags = privacy.cache
  BY <1>1 DEF PInv, Frames
<1>10. Found'
  BY <1>1, <1>7, <1>9 DEF PInv, Found, BoundAccounts
<1>11. ASSUME OneAccount, NEW a \in BoundAccounts, ~user.midFrame
       PROVE  \A g \in AlwaysTold \ touched' : g \in privacy'.cache <=> g \in profile[a].flags
  BY <1>1, <1>4, <1>5, <1>9, <1>11 DEF PInv, True, AlwaysTold
<1> QED BY <1>1, <1>2, <1>3, <1>5, <1>6, <1>7, <1>8, <1>10, <1>11, FlagsPart

\* The answer about the flags, or its failure, is taken.
LEMMA FlagsAnsweredKeeps ==
  ASSUME PInv, IInv, UNCHANGED vars, FlagsAnswered
  PROVE  PInv'
<1>1. /\ privacy' = [in_flight |-> FALSE,
                     cache |-> IF Told("flags") THEN call["flags"].reply.flags ELSE privacy.cache,
                     last_outcome |-> IF Told("flags") THEN None ELSE "failed"]
      /\ touched' = IF Told("flags") THEN {} ELSE touched
      /\ call' = [call EXCEPT !["flags"] = NoCall]
      /\ frame = None \/ user.midFrame
      /\ UNCHANGED <<user, bound, profile, frame, nick>>
  BY DEF FlagsAnswered, Hang, vars, server, bounds
<1>2. /\ privacy \in Privacy /\ call \in [Calls -> Thread] /\ call["flags"] \in Thread
      /\ touched \subseteq Flags /\ frame \in {None} \union Frame
  BY DEF PInv, ProfileTyped, Calls
<1>3. Told("flags") => call["flags"].reply \in Account
  BY <1>2 DEF Told, Thread
<1>4. privacy' \in Privacy /\ ~privacy'.in_flight /\ touched' \subseteq Flags
  BY <1>1, <1>2, <1>3 DEF Privacy, Account
<1>5. /\ call'["flags"] = NoCall /\ ~Told("flags")' /\ Told("rename")' = Told("rename")
  BY <1>1, <1>2, NoCallTyped DEF Calls, Told
<1>6. Settled' => Told("flags")
  BY <1>1, ProfileAssumption DEF Settled, ProfileAssumption
<1>7. Frames'
  BY <1>1, <1>5, NoCallTyped, ProfileAssumption DEF Frames, ProfileAssumption
<1>8. Found'
  BY <1>1, <1>5, <1>6 DEF PInv, Found, BoundAccounts
<1>9. ASSUME OneAccount, NEW a \in BoundAccounts
      PROVE  /\ Settled' => \A g \in AlwaysTold : g \in privacy'.cache <=> g \in profile[a].flags
             /\ ~user.midFrame /\ privacy'.cache # None =>
                  \A g \in AlwaysTold \ touched' : g \in privacy'.cache <=> g \in profile[a].flags
  <2>1. True(a)
    BY <1>9 DEF PInv
  <2>2. CASE Told("flags")
    BY <1>1, <2>1, <2>2 DEF True
  <2>3. CASE ~Told("flags")
    BY <1>1, <1>6, <2>1, <2>3 DEF True
  <2> QED BY <2>2, <2>3
<1> QED BY <1>1, <1>2, <1>4, <1>7, <1>8, <1>9, NoCallTyped, ProfileAssumption, FlagsPart
        DEF ProfileAssumption

-----------------------------------------------------------------------------
(* The nickname.                                                           *)

\* A step that changes the nickname's cells and the thread of kind k.
LEMMA NickPart ==
  ASSUME PInv, IInv, UNCHANGED <<vars, profile, privacy, frame, touched>>,
         nick' \in Nick, Editor',
         NEW k \in {"name", "rename"}, NEW n \in Thread,
         call' = [call EXCEPT ![k] = n], n.reply = None,
         k = "name" => /\ n.what \in {None, "get"}
                       /\ nick'.fetching <=> n.at # "idle"
                       /\ nick'.saving <=> nick.saving,
         k = "rename" => /\ n.what \in {None, "set"}
                         /\ n.what = "set" => n.value \in Nicknames
                         /\ nick'.saving <=> n.at # "idle"
                         /\ nick'.fetching <=> nick.fetching,
         nick'.last_message = "set" =>
           /\ BoundAccounts # {}
           /\ OneAccount => \A a \in BoundAccounts : nick'.current = profile[a].name
  PROVE  PInv'
<1>1. call \in [Calls -> Thread] /\ UNCHANGED <<user, bound, profile, privacy, frame, touched>>
  BY DEF PInv, ProfileTyped, vars, server, bounds
<1>2. /\ call'[k] = n /\ \A j \in Calls \ {k} : call'[j] = call[j]
      /\ ~Told(k)' /\ \A j \in Calls \ {k} : Told(j)' = Told(j)
  BY <1>1 DEF Calls, Told
<1>3. ProfileTyped'
  BY <1>1 DEF PInv, ProfileTyped
<1>4. Gates'
  <2>1. CASE k = "name"
    BY <1>1, <1>2, <2>1 DEF PInv, Gates, Calls
  <2>2. CASE k = "rename"
    BY <1>1, <1>2, <2>2 DEF PInv, Gates, Calls
  <2> QED BY <2>1, <2>2
<1>5. Frames'
  BY <1>1, <1>2 DEF PInv, Frames, Calls
<1>6. Found'
  BY <1>1, <1>2 DEF PInv, Found, Settled, BoundAccounts, Calls
<1>7. ASSUME OneAccount', NEW a \in BoundAccounts' PROVE True(a)'
  <2>1. a \in BoundAccounts /\ OneAccount /\ True(a) /\ AlwaysTold' = AlwaysTold
    BY <1>1, <1>7, ToldStays DEF BoundAccounts, OneAccount, PInv
  <2> QED BY <1>1, <1>2, <2>1 DEF True, Settled, Calls
<1> QED BY <1>3, <1>4, <1>5, <1>6, <1>7 DEF PInv

\* A step that leaves the threads alone.
LEMMA NickClick ==
  ASSUME PInv, IInv, UNCHANGED <<vars, profile, privacy, frame, touched, call>>,
         nick' \in Nick, Editor',
         nick'.saving <=> nick.saving, nick'.fetching <=> nick.fetching,
         nick'.last_message = "set" =>
           nick.last_message = "set" /\ nick'.current = nick.current
  PROVE  PInv'
<1>1. UNCHANGED <<user, bound, profile, privacy, frame, touched, call>>
  BY DEF vars, server, bounds
<1>2. ProfileTyped' /\ Gates' /\ Frames' /\ Found'
  BY <1>1 DEF PInv, ProfileTyped, Gates, Frames, Found, Settled, BoundAccounts, Told
<1>3. OneAccount' => \A a \in BoundAccounts' : True(a)'
  BY <1>1, ToldStays DEF PInv, OneAccount, BoundAccounts, True, Told, Settled
<1> QED BY <1>2, <1>3 DEF PInv

\* The first fetch of the name.
LEMMA FetchOnceKeeps ==
  ASSUME PInv, IInv, UNCHANGED vars, FetchOnce
  PROVE  PInv'
<1> DEFINE n == [at |-> "load", what |-> "get", by |-> None, value |-> None, reply |-> None]
<1>1. /\ nick' = [nick EXCEPT !.initial_fetch_attempted = TRUE, !.fetching = TRUE]
      /\ call' = [call EXCEPT !["name"] = n]
      /\ ~nick.initial_fetch_attempted
      /\ UNCHANGED <<profile, privacy, frame, touched>>
  BY DEF FetchOnce, Start, OtherThanNick
<1>2. nick \in Nick /\ nick = NicknameUi
  BY <1>1 DEF PInv, ProfileTyped, Editor
<1>3. nick' = [NicknameUi EXCEPT !.initial_fetch_attempted = TRUE, !.fetching = TRUE]
  BY <1>1, <1>2
<1>4. /\ nick' \in Nick /\ nick'.initial_fetch_attempted /\ nick'.fetching
      /\ ~nick'.saving /\ ~nick.saving /\ nick'.last_message = None
      /\ nick'.current = None /\ ~nick'.editing /\ ~nick'.confirming
  BY <1>2, <1>3 DEF NicknameUi, Nick, Names
<1>5. n \in Thread /\ n.at # "idle" /\ n.what = "get" /\ n.reply = None
  BY DEF Thread, Names
<1> HIDE DEF n
<1>6. Editor'
  BY <1>4 DEF Editor
<1>7. nick'.last_message # "set"
  BY <1>4, ProfileAssumption DEF ProfileAssumption
<1> QED BY <1>1, <1>4, <1>5, <1>6, <1>7, NickPart

\* What the user clicks in the row.
LEMMA RowKeeps ==
  ASSUME PInv, IInv, UNCHANGED vars,
         ClickEdit \/ ClickCancel \/ ClickBack \/ \E n \in Nicknames : ClickSave(n)
  PROVE  PInv'
<1>1. nick \in Nick /\ UNCHANGED <<profile, privacy, frame, touched, call>>
  BY DEF ClickEdit, ClickCancel, ClickBack, ClickSave, OtherThanNick, PInv, ProfileTyped
<1>2. CASE ClickEdit
  <2>1. /\ nick.initial_fetch_attempted /\ ~nick.saving /\ ~(nick.fetching /\ nick.current = None)
        /\ nick' = [nick EXCEPT !.editing = TRUE, !.confirming = FALSE, !.last_message = None,
                      !.edit_buf = IF nick.current = Unnamed THEN None ELSE nick.current]
    BY <1>2 DEF ClickEdit
  <2>2. /\ nick' \in Nick /\ ~nick'.confirming /\ nick'.last_message = None
        /\ nick'.saving = nick.saving /\ nick'.fetching = nick.fetching
        /\ nick'.initial_fetch_attempted
    BY <1>1, <2>1 DEF Nick, Names
  <2>3. ~nick.fetching
    BY <2>1 DEF PInv, Editor
  <2>4. Editor'
    BY <2>1, <2>2, <2>3 DEF Editor
  <2>5. nick'.last_message # "set"
    BY <2>2, ProfileAssumption DEF ProfileAssumption
  <2> QED BY <1>1, <2>2, <2>4, <2>5, NickClick
<1>3. CASE ClickCancel \/ ClickBack \/ \E n \in Nicknames : ClickSave(n)
  <2>1. /\ nick.editing \/ nick.confirming
        /\ \/ nick' = [nick EXCEPT !.editing = FALSE, !.edit_buf = None] /\ ~nick.confirming
           \/ nick' = [nick EXCEPT !.confirming = FALSE]
           \/ \E n \in Nicknames : nick' = [nick EXCEPT !.edit_buf = n, !.confirming = TRUE]
    BY <1>3 DEF ClickCancel, ClickBack, ClickSave
  <2>2. /\ nick' \in Nick /\ nick'.last_message = nick.last_message
        /\ nick'.saving = nick.saving /\ nick'.fetching = nick.fetching
        /\ nick'.current = nick.current
        /\ nick'.initial_fetch_attempted = nick.initial_fetch_attempted
        /\ nick'.confirming => nick'.edit_buf \in Nicknames
    BY <1>1, <2>1 DEF Nick, Names
  <2>3. ~nick.fetching /\ nick.initial_fetch_attempted
    <3>1. ~nick.fetching
      BY <2>1 DEF PInv, Editor
    <3>2. ~NicknameUi.editing /\ ~NicknameUi.confirming
      BY DEF NicknameUi
    <3>3. nick.initial_fetch_attempted
      BY <2>1, <3>2 DEF PInv, Editor
    <3> QED BY <3>1, <3>3
  <2>4. Editor'
    BY <2>2, <2>3 DEF PInv, Editor
  <2> QED BY <1>1, <2>2, <2>4, NickClick
<1> QED BY <1>2, <1>3

\* The change is confirmed.
LEMMA ConfirmKeeps ==
  ASSUME PInv, IInv, UNCHANGED vars, ClickConfirm
  PROVE  PInv'
<1> DEFINE n == [at |-> "load", what |-> "set", by |-> None, value |-> nick.edit_buf,
                 reply |-> None]
<1>1. /\ nick' = [nick EXCEPT !.saving = TRUE, !.last_message = None]
      /\ call' = [call EXCEPT !["rename"] = n]
      /\ nick.confirming
      /\ UNCHANGED <<profile, privacy, frame, touched>>
  BY DEF ClickConfirm, Start, OtherThanNick
<1>2. /\ nick \in Nick /\ nick.edit_buf \in Nicknames /\ ~nick.fetching
      /\ nick.initial_fetch_attempted
  BY <1>1 DEF PInv, ProfileTyped, Editor, NicknameUi
<1>3. /\ nick' \in Nick /\ nick'.saving /\ nick'.last_message = None
      /\ nick'.fetching = nick.fetching /\ nick'.initial_fetch_attempted
      /\ nick'.edit_buf \in Nicknames
  BY <1>1, <1>2 DEF Nick
<1>4. /\ n \in Thread /\ n.at # "idle" /\ n.what = "set" /\ n.value \in Nicknames
      /\ n.reply = None
  BY <1>2 DEF Thread, Names
<1> HIDE DEF n
<1>5. Editor'
  BY <1>2, <1>3 DEF Editor
<1>6. nick'.last_message # "set"
  BY <1>3, ProfileAssumption DEF ProfileAssumption
<1> QED BY <1>1, <1>3, <1>4, <1>5, <1>6, NickPart

\* The name has come, or not.
LEMMA NameAnsweredKeeps ==
  ASSUME PInv, IInv, UNCHANGED vars, NameAnswered
  PROVE  PInv'
<1>1. /\ nick' = [nick EXCEPT !.fetching = FALSE,
                    !.current = IF Told("name") THEN call["name"].reply.name ELSE @]
      /\ call' = [call EXCEPT !["name"] = NoCall]
      /\ call["name"].at = "answered"
      /\ UNCHANGED <<profile, privacy, frame, touched>>
  BY DEF NameAnswered, Hang, OtherThanNick
<1>2. /\ nick \in Nick /\ call["name"] \in Thread /\ nick.fetching
      /\ nick.last_message = None /\ ~nick.confirming /\ ~nick.saving
      /\ nick.initial_fetch_attempted
  BY <1>1 DEF PInv, ProfileTyped, Gates, Editor, Calls, NicknameUi
<1>3. Told("name") => call["name"].reply.name \in Names
  BY <1>2 DEF Told, Thread, Account, Names
<1>4. /\ nick' \in Nick /\ ~nick'.fetching /\ nick'.saving = nick.saving
      /\ nick'.last_message = None /\ ~nick'.confirming /\ nick'.initial_fetch_attempted
  BY <1>1, <1>2, <1>3 DEF Nick
<1>5. Editor'
  BY <1>4 DEF Editor
<1>6. nick'.last_message # "set"
  BY <1>4, ProfileAssumption DEF ProfileAssumption
<1> QED BY <1>1, <1>4, <1>5, <1>6, NoCallTyped, NickPart

\* The new name is set, or not.
LEMMA RenameAnsweredKeeps ==
  ASSUME PInv, IInv, UNCHANGED vars, RenameAnswered
  PROVE  PInv'
<1>1. /\ call' = [call EXCEPT !["rename"] = NoCall]
      /\ call["rename"].at = "answered"
      /\ UNCHANGED <<profile, privacy, frame, touched>>
  BY DEF RenameAnswered, Hang, OtherThanNick
<1>2. /\ nick \in Nick /\ call["rename"] \in Thread /\ nick.saving /\ ~nick.fetching
      /\ nick.initial_fetch_attempted
  BY <1>1 DEF PInv, ProfileTyped, Gates, Editor, Calls, NicknameUi
<1>3. Told("rename") => call["rename"].reply.name \in Names
  BY <1>2 DEF Told, Thread, Account, Names
<1>4. \/ nick' = [nick EXCEPT !.saving = FALSE, !.last_message = "failed"]
      \/ nick' = [nick EXCEPT !.saving = FALSE, !.editing = FALSE, !.confirming = FALSE,
                    !.last_message = "failed"]
      \/ /\ Told("rename")
         /\ nick' = [nick EXCEPT !.saving = FALSE, !.editing = FALSE, !.confirming = FALSE,
                       !.current = call["rename"].reply.name, !.last_message = "set",
                       !.edit_buf = None]
  BY DEF RenameAnswered
<1>5. /\ nick' \in Nick /\ ~nick'.saving /\ nick'.fetching = nick.fetching
      /\ nick'.initial_fetch_attempted
      /\ nick'.confirming => nick.confirming /\ nick'.edit_buf = nick.edit_buf
      /\ nick'.last_message = "set" => Told("rename") /\ nick'.current = call["rename"].reply.name
  BY <1>2, <1>3, <1>4, ZenonT(60) DEF Nick, Names
<1>6. Editor'
  BY <1>2, <1>5 DEF PInv, Editor
<1>7. Told("rename") => BoundAccounts # {}
  BY DEF PInv, Found
<1>8. Told("rename") /\ OneAccount =>
        \A a \in BoundAccounts : call["rename"].reply.name = profile[a].name
  BY DEF PInv, True
<1> QED BY <1>1, <1>5, <1>6, <1>7, <1>8, <1>2, NoCallTyped, ProfileAssumption, NickPart
        DEF ProfileAssumption

-----------------------------------------------------------------------------
(* The theorems.                                                           *)

LEMMA ProfileInitInv == FullInit => PInv
<1> SUFFICES ASSUME FullInit PROVE PInv
  OBVIOUS
<1>1. user \in Users /\ user.optedIn \in [Accounts -> SUBSET Flags]
  BY ProfileAssumption DEF FullInit, Init, ProfileAssumption
<1>2. /\ call = [k \in Calls |-> NoCall] /\ nick = NicknameUi /\ frame = None /\ touched = {}
      /\ privacy = [cache |-> None, in_flight |-> FALSE, last_outcome |-> None]
      /\ profile = [a \in Accounts |-> [flags |-> user.optedIn[a], name |-> Unnamed]]
  BY DEF FullInit, ProfileInit
<1>3. ProfileTyped
  <2>1. profile \in [Accounts -> Account]
    BY <1>1, <1>2 DEF Account
  <2>2. privacy \in Privacy /\ nick \in Nick
    BY <1>2 DEF Privacy, Nick, NicknameUi, Names
  <2> QED BY <1>2, <2>1, <2>2, NoCallTyped DEF ProfileTyped
<1>4. \A k \in Calls : ~Told(k) /\ call[k] = NoCall
  BY <1>2, NoCallTyped DEF Told
<1>5. Gates
  BY <1>2, <1>4, NoCallTyped, ProfileAssumption DEF Gates, Calls, NicknameUi, ProfileAssumption
<1>6. Editor
  BY <1>2 DEF Editor, NicknameUi
<1>7. Frames
  BY <1>2, <1>4, NoCallTyped, ProfileAssumption DEF Frames, Calls, ProfileAssumption
<1>8. ~Settled /\ nick.last_message # "set"
  BY <1>2, ProfileAssumption DEF Settled, NicknameUi, ProfileAssumption
<1>9. Found /\ \A a \in BoundAccounts : True(a)
  BY <1>2, <1>4, <1>8 DEF Found, True, Calls
<1> QED BY <1>3, <1>5, <1>6, <1>7, <1>9 DEF PInv

\* Every step keeps the invariant.
LEMMA FullNextKeeps ==
  ASSUME PInv, IInv, switches \in Nat, [FullNext]_allVars
  PROVE  (PInv /\ IInv /\ switches \in Nat)'
<1>1. [Next]_vars
  BY DEF FullNext, allVars
<1>2. (IInv /\ switches \in Nat)'
  BY <1>1, NextKeeps, SwitchesKeep
<1>3. CASE UNCHANGED profileVars
  BY <1>1, <1>2, <1>3, SignInKeeps
<1>4. CASE ProfileNext /\ UNCHANGED vars
  <2>1. CASE \E k \in Calls : Load(k) \/ Ask(k)
    BY <1>2, <1>4, <2>1, LoadKeeps, AskKeeps
  <2>2. CASE BeginFrame \/ EndFrame \/ FlagsAnswered \/ \E f \in Flags : Toggle(f)
    BY <1>2, <1>4, <2>2, BeginFrameKeeps, EndFrameKeeps, FlagsAnsweredKeeps, ToggleKeeps
  <2>3. CASE \/ FetchOnce \/ ClickConfirm \/ NameAnswered \/ RenameAnswered
             \/ ClickEdit \/ ClickCancel \/ ClickBack \/ \E n \in Nicknames : ClickSave(n)
    BY <1>2, <1>4, <2>3, FetchOnceKeeps, ConfirmKeeps, NameAnsweredKeeps, RenameAnsweredKeeps, RowKeeps
  <2> QED BY <1>2, <1>4, <2>1, <2>2, <2>3 DEF ProfileNext
<1> QED BY <1>2, <1>3, <1>4 DEF FullNext, allVars

\* The settings change nothing of registration and sign-in: what is proved of SignIn holds
\* with them.
THEOREM SettingsApart == FullSpec => Spec
<1>1. FullInit => Init
  BY DEF FullInit
<1>2. [FullNext]_allVars => [Next]_vars
  BY DEF FullNext, allVars
<1> QED BY <1>1, <1>2, PTL DEF FullSpec, Spec

\* What the settings show without a warning is what the one account has: the flags that
\* answers do not leave out, and a nickname reported as set (settings_modal.rs).
THEOREM ShownTrue == FullSpec => []ShownIsStored
<1> DEFINE Inv == PInv /\ IInv /\ switches \in Nat
<1>1. FullInit => Inv
  BY ProfileInitInv, InitInv DEF FullInit, Init
<1>2. Inv /\ [FullNext]_allVars => Inv'
  BY FullNextKeeps
<1>3. Inv => ShownIsStored
  BY DEF PInv, True, Settled, ShownIsStored
<1> HIDE DEF Inv
<1> QED BY <1>1, <1>2, <1>3, PTL DEF FullSpec

\* A request that sends all flags changes none of the one account's but those clicked and
\* those answers leave out, if no answer falls between the two reads of a frame
\* (settings_modal.rs, account_privacy.rs).
THEOREM OnlyClicked == FullSpec => UntouchedKept
<1> DEFINE Inv == PInv /\ IInv /\ switches \in Nat
           Kept == OneAccount /\ ~user.midFrame =>
                     \A a \in Accounts : \A f \in AlwaysTold \ touched :
                       f \in profile[a].flags <=> f \in profile'[a].flags
<1>1. FullInit => Inv
  BY ProfileInitInv, InitInv DEF FullInit, Init
<1>2. Inv /\ [FullNext]_allVars => Inv'
  BY FullNextKeeps
<1>3. Inv /\ [FullNext]_allVars => [Kept]_allVars
  <2> SUFFICES ASSUME Inv, [FullNext]_allVars, OneAccount, ~user.midFrame,
                      NEW a \in Accounts, NEW f \in AlwaysTold \ touched
               PROVE  f \in profile[a].flags <=> f \in profile'[a].flags
    OBVIOUS
  <2>1. CASE UNCHANGED profile
    BY <2>1
  <2>2. ASSUME NEW k \in Calls, Ask(k)
        PROVE  f \in profile[a].flags <=> f \in profile'[a].flags
    <3>1. CASE UNCHANGED profile
      BY <3>1
    <3>2. ASSUME NEW b \in BoundAccounts, b \in Accounts,
                 profile' = [profile EXCEPT ![b] = Served(@, k)]
          PROVE  f \in profile[a].flags <=> f \in profile'[a].flags
      <4>1. profile \in [Accounts -> Account] /\ True(b)
        BY DEF PInv, ProfileTyped
      <4>2. CASE a # b
        BY <3>2, <4>1, <4>2
      <4>3. CASE a = b
        <5>1. profile'[b] = Served(profile[b], k) /\ profile[b] \in Account
          BY <3>2, <4>1
        <5>2. profile'[b].flags = profile[b].flags
                \/ (call["flags"].what = "patch" /\ profile'[b].flags = call["flags"].value)
          BY <5>1, ServedOne
        <5>3. CASE profile'[b].flags # profile[b].flags
          <6>1. profile'[b].flags = privacy.cache
            BY <5>2, <5>3 DEF PInv, Frames
          <6>2. call["flags"].what = "patch" => privacy.cache # None
            BY ProfileAssumption DEF PInv, Gates, Frames, ProfileAssumption
          <6> QED BY <4>1, <4>3, <5>2, <5>3, <6>1, <6>2 DEF True
        <5> QED BY <4>3, <5>3
      <4> QED BY <4>2, <4>3
    <3> QED BY <2>2, <3>1, <3>2, AskedOne
  <2>3. CASE ~ \E k \in Calls : Ask(k)
    <3>1. UNCHANGED profile
      BY <2>3 DEF FullNext, allVars, profileVars, ProfileNext, Load, BeginFrame, EndFrame,
                  FlagsAnswered, Toggle, FetchOnce, ClickEdit, ClickCancel, ClickConfirm,
                  ClickBack, ClickSave, NameAnswered, RenameAnswered, OtherThanNick
    <3> QED BY <3>1
  <2> QED BY <2>2, <2>3
<1> HIDE DEF Inv
<1> QED BY <1>1, <1>2, <1>3, PTL DEF FullSpec, UntouchedKept
=============================================================================
