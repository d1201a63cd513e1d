----------------------------- MODULE MCInventory -----------------------------
(***************************************************************************)
(* Small volumes for Inventory.  References 1 and 2 are directories, 7 is a *)
(* link, the others are files.                                              *)
(***************************************************************************)
EXTENDS Inventory, TLC

CONSTANTS s1, s2

Dir(parent, name) == [parent |-> parent, name |-> name, kind |-> "dir", size |-> 0]
File(parent, name, size) == [parent |-> parent, name |-> name, kind |-> "file", size |-> size]
Link(parent, name) == [parent |-> parent, name |-> name, kind |-> "link", size |-> 0]

Made(x, entry) == [do |-> "create", ref |-> x, entry |-> entry]
Written(x, size) == [do |-> "write", ref |-> x, size |-> size]
Moved(x, parent, name) == [do |-> "move", ref |-> x, parent |-> parent, name |-> name]
Removed(x) == [do |-> "remove", ref |-> x]

TwoFolders == 1 :> Dir(Top, "d") @@ 2 :> Dir(1, "e") @@ 3 :> File(1, "x", 1) @@ 4 :> File(2, "y", 2)

Flags(on, disable, enable) ==
  [from |-> "flags", on |-> on, disable |-> disable, enable |-> enable]
Settings(config) == [from |-> "settings", config |-> config]

RowsOf(t) == [x \in DOMAIN t |-> [parent |-> t[x].parent, name |-> t[x].name,
                                  dir |-> t[x].kind = "dir", size |-> t[x].size]]

\* A volume, read from its file table by an administrator; links are not followed.
Table == [scanners |-> {s1}, tree |-> TwoFolders, linkTo |-> <<>>, changes |-> {}, buffer |-> 2,
          meta |-> None, rows |-> NoRows, forceMft |-> TRUE, elevated |-> TRUE,
          flaky |-> FALSE, minSize |-> 0, runs |-> 2, kills |-> 0, roots |-> <<<<>>>>,
          follow |-> FALSE, parallel |-> FALSE, denied |-> {}, ownNames |-> {},
          cancellable |-> FALSE, maxSize |-> None, include |-> {}, exclude |-> {},
          exclusions |-> Flags(TRUE, {}, {}), extension |-> <<>>]

\* One inventory after the other, the first of them cold, while files come, go, grow and
\* are renamed, the journal is trimmed and replaced, and the process is killed.
Alone ==
  [Table EXCEPT !.runs = 3, !.kills = 1, !.flaky = TRUE, !.minSize = 1,
     !.changes = {Made(5, File(2, "z", 1)), Written(4, 0), Moved(3, 2, "x"), Removed(4)}]

Journaled ==
  [Table EXCEPT !.runs = 3, !.kills = 1,
     !.changes = {Made(5, File(Top, "z", 1)), Written(3, 2), [do |-> "trim"],
                  [do |-> "recreate"]}]

\* Two inventories at once, both warm: a snapshot of the volume as it first is. The
\* folder 2 is renamed, the files of it are left alone.
Ready == [id |-> 1, cursor |-> 1]
Pair ==
  [Table EXCEPT !.scanners = {s1, s2}, !.meta = Ready, !.rows = RowsOf(TwoFolders),
     !.runs = 3, !.kills = 1,
     !.changes = {Made(5, File(1, "z", 1)), Removed(3), Moved(2, Top, "e")}]

\* Nobody may read the file table: the directories are walked after all.
Refused == [Table EXCEPT !.elevated = FALSE, !.runs = 1, !.changes = {Removed(4)}]

\* The walk. In folder 2 the link 7 leads back to the folder 1 it stands in, and the link
\* 6 of the top to the file 3; a folder of the scanner's own has a file too.
Linked ==
  [Table EXCEPT
     !.tree = @ @@ 5 :> File(Top, ".superdeduper-x", 1)
                @@ 6 :> Link(Top, "l") @@ 7 :> Link(2, "up"),
     !.linkTo = 6 :> 3 @@ 7 :> 1,
     !.forceMft = FALSE, !.runs = 1, !.follow = TRUE, !.ownNames = {".superdeduper-x"}]

Walks ==
  {[Linked EXCEPT !.roots = <<<<>>>>, !.changes = {Moved(2, Top, "e"), Written(3, 2)}],
   [Linked EXCEPT !.roots = <<<<"d", "e">>, <<"l">>, <<"d">>>>, !.changes = {Removed(3)}],
   [Linked EXCEPT !.roots = <<<<"d", "e">>, <<>>>>, !.parallel = TRUE, !.cancellable = TRUE],
   [Linked EXCEPT !.roots = <<<<"d">>, <<"d", "e">>>>, !.follow = FALSE, !.parallel = TRUE,
                  !.denied = {2}, !.changes = {Removed(4)}],
   [Linked EXCEPT !.roots = <<<<>>, <<"d">>>>, !.follow = FALSE, !.denied = {1},
                  !.minSize = 2, !.changes = {Written(3, 2)}]}

\* The user's rules. A folder comes to bear a preset's name between two walks; a rule of
\* the user's own shuts out a folder that links lead round, and an extension that a link
\* to the file does not have; rules that do not compile; a root that is itself shut out;
\* the file table, which has the filters and not the exclusions.
Rules(patterns, extensions) ==
  Settings(ExclusionConfig(TRUE, SAFE_DEFAULTS, patterns, extensions))

Plain == [Linked EXCEPT !.follow = FALSE, !.extension = "x" :> "dll"]

Ruled ==
  {[Plain EXCEPT !.roots = <<<<>>>>, !.runs = 2, !.changes = {Moved(2, Top, "build")},
                 !.exclusions = Flags(TRUE, {"SystemLibraries"}, {"BuildArtefacts"})],
   [Linked EXCEPT !.roots = <<<<"d", "e">>, <<"d">>>>,
                  !.exclusions = Rules({Inside(<<"e">>)}, {}), !.include = {Under(<<"d">>)}],
   [Linked EXCEPT !.roots = <<<<>>>>, !.exclusions = Rules({Under(<<"d", "e">>)}, {"tmp"}),
                  !.extension = "x" :> "tmp", !.cancellable = TRUE],
   [Plain EXCEPT !.roots = <<<<"d">>>>, !.exclusions = Rules({Malformed}, {"dll"})],
   [Plain EXCEPT !.roots = <<<<"d", "x">>, <<"d", "e", "y">>>>, !.parallel = TRUE,
                 !.exclusions = Rules({}, {}), !.maxSize = 2],
   [Table EXCEPT !.extension = "x" :> "dll", !.exclude = {Inside(<<"e">>)},
                 !.changes = {Moved(4, 1, "y")}]}

MCSetups == {Alone, Journaled, Pair, Refused} \cup Walks \cup Ruled
=============================================================================
