----------------------------- MODULE MCXdgTrash -----------------------------
(***************************************************************************)
(* Instances of XdgTrash for TLC: f and g are called x; h is called x.2,    *)
(* which is also the second name tried for the other two.                   *)
(***************************************************************************)
EXTENDS XdgTrash, Sequences, TLC

CONSTANTS c1, c2, f, g, h, x1, x2, x3, y2, y3

MCFiles == {f, g, h}
MCNames == {x1, x2, x3, y2, y3}
MCCandidate ==
  [a \in MCFiles |-> SubSeq(IF a = h THEN <<x2, y2, y3>> ELSE <<x1, x2, x3>>, 1, Tries)]
=============================================================================
