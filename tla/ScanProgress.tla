---------------------------- MODULE ScanProgress ----------------------------
(***************************************************************************)
(* What pausing and resuming promises: of what a scan has found, a part is *)
(* durable; the durable part never shrinks, holds nothing that was not     *)
(* found, and is what a scan knows again after it was stopped or killed.   *)
(* Only a finished scan, a fresh start or other settings give it up.       *)
(***************************************************************************)
CONSTANT Groups

VARIABLES
  known,    \* what the scan under way has found
  durable,  \* what a later scan can start from
  running

pvars == <<known, durable, running>>

Init == known = {} /\ durable = {} /\ ~ running

Start ==
  /\ ~ running
  /\ running' = TRUE
  /\ known' \in {durable, {}}
  /\ UNCHANGED durable

Find ==
  /\ running
  /\ known \subseteq known'
  /\ known' \subseteq Groups
  /\ UNCHANGED <<durable, running>>

\* What other settings had found is replaced.
Keep ==
  /\ running
  /\ durable \subseteq durable' \/ known = {}
  /\ durable' \subseteq known
  /\ UNCHANGED <<known, running>>

Stop ==
  /\ running
  /\ ~ running'
  /\ known' = {}
  /\ UNCHANGED durable

Complete ==
  /\ running
  /\ ~ running'
  /\ known' = {} /\ durable' = {}

StartFresh ==
  /\ ~ running
  /\ durable' = {}
  /\ UNCHANGED <<known, running>>

Next == Start \/ Find \/ Keep \/ Stop \/ Complete \/ StartFresh

Spec == Init /\ [][Next]_pvars
=============================================================================
