--------------------------- MODULE MCHashPipeline ---------------------------
(***************************************************************************)
(* Small instances of HashPipeline.  A and B agree in the first 4 KiB and   *)
(* differ further on, E is empty.                                          *)
(***************************************************************************)
EXTENDS HashPipeline, TLC

CONSTANTS gui, cli, f1, f2, f3, f4, f5, i1, i2, i3, i4, i5, A, B, E, hA, hB, hAB, hE

MCInodes == {i1, i2, i3, i4, i5}

\* Two aliases of one inode and three other files, or a file each.
AliasedInodes == f1 :> i1 @@ f2 :> i1 @@ f3 :> i2 @@ f4 :> i3 @@ f5 :> i4
PairInodes == f1 :> i1 @@ f2 :> i2

TwoTwins == i1 :> A @@ i2 :> A @@ i3 :> B @@ i4 :> A @@ i5 :> B
AllTwins == [i \in MCInodes |-> A]
MCSizeOf == [c \in Contents |-> IF c = E THEN 0 ELSE 5]

Full == A :> hA @@ B :> hB @@ E :> hE
MCDigest == [t \in {"one", "two", "three"} |-> [c \in Contents |->
               IF t # "three" /\ c \in {A, B} THEN hAB ELSE Full[c]]]

\* No format known; one format for all files, B does not parse.
NoFormat == [f \in Files |-> [c \in Contents |-> NoPrint]]
OneFormat == [f \in Files |-> [c \in Contents |-> IF c = B THEN NoPrint ELSE hAB]]
=============================================================================
