------------------------------ MODULE TrashBin ------------------------------
(***************************************************************************)
(* What a trash promises, and what FileActions takes the XDG trash for: a  *)
(* file is in its place or in the bin, trashing moves it at once, and what *)
(* is in the bin can be put back.                                          *)
(***************************************************************************)
CONSTANT Files

VARIABLES home, bin

Init == home \in SUBSET Files /\ bin = {}

Trash(f) ==
  /\ f \in home
  /\ home' = home \ {f}
  /\ bin' = bin \union {f}

PutBack(f) ==
  /\ f \in bin
  /\ bin' = bin \ {f}
  /\ home' = home \union {f}

Next == \E f \in Files : Trash(f) \/ PutBack(f)

Spec == Init /\ [][Next]_<<home, bin>>
=============================================================================
