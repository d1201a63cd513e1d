--------------------------- MODULE DuplicateFinder ---------------------------
(***************************************************************************)
(* What a scan promises: while the files may change under it, it answers   *)
(* with disjoint groups of two or more files, and for each group there is  *)
(* a content that every member held at some time since it was listed.      *)
(***************************************************************************)
EXTENDS Naturals, FiniteSets

CONSTANTS Files, Contents

VARIABLES
  held,     \* file -> the contents it held since the scan listed it
  answers,  \* the groups reported so far
  search    \* "idle", "on" or "over"

fvars == <<held, answers, search>>

Init ==
  /\ answers = {}
  /\ search = "idle"
  /\ held \in [Files -> SUBSET Contents]

Begin ==
  /\ search # "on"
  /\ search' = "on"
  /\ answers' = {}
  /\ held' \in [Files -> SUBSET Contents]
  /\ \A f \in Files : Cardinality(held'[f]) <= 1

Change ==
  /\ held' \in [Files -> SUBSET Contents]
  /\ \A f \in Files : held[f] \subseteq held'[f]
  /\ UNCHANGED <<answers, search>>

IsGroup(G) ==
  /\ Cardinality(G) >= 2
  /\ \E c \in Contents : \A f \in G : c \in held[f]
  /\ \A A \in answers : A \intersect G = {}

\* The groups of one size class are reported together.
Answer ==
  /\ search = "on"
  /\ answers \subseteq answers'
  /\ answers' \subseteq SUBSET Files
  /\ \A G \in answers' \ answers : IsGroup(G)
  /\ \A G, H \in answers' \ answers : G = H \/ G \intersect H = {}
  /\ UNCHANGED <<held, search>>

\* The scan is over, or was killed.
Conclude ==
  /\ search = "on"
  /\ search' \in {"over", "idle"}
  /\ UNCHANGED <<held, answers>>

Next == Begin \/ Change \/ Answer \/ Conclude

Spec == Init /\ [][Next]_fvars
=============================================================================
