---------------------------- MODULE MCGuiActions ----------------------------
(***************************************************************************)
(* Instances of GuiActions for TLC.  x, y and z are copies of one file, u  *)
(* and v of another; z lies below a reference root and is also reached as  *)
(* alias, a spelling the root is no prefix of.  sx ... are the names with  *)
(* .superdeduper appended once, twice stands for any with it appended      *)
(* once more.                                                              *)
(***************************************************************************)
EXTENDS GuiActions, TLC

CONSTANTS w1, w2, x, y, z, u, v, sx, sy, sz, su, sv, twice, alias,
          i1, i2, i3, i4, i5, A, B

Suffixed == [f \in {x, y, z, u, v} |->
               CASE f = x -> sx [] f = y -> sy [] f = z -> sz [] f = u -> su [] f = v -> sv]
Plain == DOMAIN Suffixed

MCFiles == Plain \union Range(Suffixed) \union {twice}
MCPaths == MCFiles \union {alias}
MCInodes == {i1, i2, i3, i4, i5}
FewInodes == {i1, i2, i3}
MCContents == {A, B}
MCCanon == [p \in MCPaths |-> IF p = alias THEN z ELSE p]
MCSafeNameOf == [f \in MCFiles |-> IF f \in Plain THEN Suffixed[f] ELSE f]
MCNewPathOf  == [p \in MCPaths |-> IF MCCanon[p] \in Plain THEN Suffixed[MCCanon[p]] ELSE twice]
MCAsideOf    == [f \in MCFiles |-> <<"aside", f>>]
MCCloneTmpOf == [f \in MCFiles |-> <<"clone", f>>]
MCArchivedAs == [p \in MCPaths |-> <<"archive", p>>]
MCEntries == MCFiles \union Range(MCAsideOf) \union Range(MCCloneTmpOf)
                     \union Range(MCArchivedAs)

NoPlaceholder == [f \in MCFiles |-> "none"]

OneGroup  == << <<x, y>> >>
ThreeCopies == << <<x, y, u>> >>
WithAlias == << <<x, y, alias>> >>
TwoGroups == << <<x, y, alias>>, <<u, v>> >>

ContentOf(t) == [f \in {MCCanon[p] : p \in UNION {Range(t[g]) : g \in DOMAIN t}} |->
                   IF Len(t) = 2 /\ f \in {u, v} THEN B ELSE A]

\* The files below each of two scan roots.
TwoRoots == << {y, u, sy, su}, MCFiles \ {y, u, sy, su} >>

UserOf(t, references, offered, patient, actions, promotes, stops, crash) ==
  [table |-> t, content |-> ContentOf(t), references |-> references, roots |-> TwoRoots,
   otherVolume |-> FALSE, copiesFail |-> FALSE, sameSecond |-> FALSE, offered |-> offered, patient |-> patient, actions |-> actions,
   promotes |-> promotes, stops |-> stops, crash |-> crash]

\* Two groups, an aliased reference; archives to another volume, restores, renames and
\* renames back.
Sorting == UserOf(TwoGroups, {z}, {"recycle", "hardlink", "removeAll", "recycleAll"}, TRUE, 3, 1, 1, TRUE)
Archiver ==
  [UserOf(ThreeCopies, {}, {"archiveAll", "archiveRestore", "safeRenameAll", "unsuperdeduper"},
          TRUE, 3, 1, 1, FALSE) EXCEPT !.otherVolume = TRUE]

\* Does not wait, with failing copies.
Hurried ==
  [UserOf(OneGroup, {}, {"hardlink", "safeRename", "archiveCopy"}, FALSE, 2, 0, 1, FALSE)
     EXCEPT !.copiesFail = TRUE, !.sameSecond = TRUE]
AllUsers == {Sorting, Archiver, Hurried}

\* Exchanges the keeper between two recycles.
Overlapping == {UserOf(OneGroup, {}, {"recycleAll"}, FALSE, 2, 1, 0, FALSE)}
=============================================================================
