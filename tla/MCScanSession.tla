--------------------------- MODULE MCScanSession ---------------------------
(***************************************************************************)
(* Small instances of ScanSession.                                         *)
(***************************************************************************)
EXTENDS ScanSession, TLC

CONSTANTS f1, f2, f3, f4, A, B, i1, i2, i3, i4, s1, s2, r1, r2

TwoPairs == f1 :> A @@ f2 :> A @@ f3 :> B @@ f4 :> B
AllTwins == [f \in Files |-> A]
OneSize == [f \in Files |-> 1]
OwnInodes == f1 :> i1 @@ f2 :> i2 @@ f3 :> i3 @@ f4 :> i4
PairedInodes == f1 :> i1 @@ f2 :> i1 @@ f3 :> i2 @@ f4 :> i2

\* The setups differ in a setting no walk looks at, or s2 has a larger minimum size
\* than s1.
SameFiles == [s \in Setups |-> Files]
FewerFiles == s1 :> Files @@ s2 :> {f1, f2}
OtherFiles == s1 :> {f1, f2} @@ s2 :> {f3, f4}

\* Killed, and paused anywhere but in the walk and in the hashing; the same with settings
\* changed while a preflight is on; paused anywhere, with a failing walk, failing saves,
\* and files under a reference root; and with stored results and a project.
Killed == [rootsOf |-> [s \in Setups |-> r1], admitted |-> SameFiles, reference |-> {}, flaky |-> FALSE,
           slips |-> {}, pauseAt |-> Labels \ {"walk", "hash"}, pauses |-> 1, kills |-> 2, works |-> 0]
Editing == [Killed EXCEPT !.slips = {"edit"}, !.kills = 1]
Failing == [rootsOf |-> s1 :> r1 @@ s2 :> r2, admitted |-> SameFiles, reference |-> {f1, f2}, flaky |-> TRUE,
            slips |-> {}, pauseAt |-> Labels, pauses |-> 1, kills |-> 0, works |-> 0]
Keeping == [rootsOf |-> [s \in Setups |-> r1], admitted |-> OtherFiles, reference |-> {}, flaky |-> FALSE,
            slips |-> {}, pauseAt |-> {"loop"}, pauses |-> 1, kills |-> 1, works |-> 1]
AllPlans == {Killed, Editing, Failing, Keeping}
=============================================================================
