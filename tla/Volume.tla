------------------------------- MODULE Volume -------------------------------
(***************************************************************************)
(* The volume under an inventory, as src/src/inventory and                 *)
(* src/src/winapi_wrappers use it: a tree of entries known by file         *)
(* reference, and the USN journal that gets a record of every change.      *)
(* It is the operating system's; other programs change it at any time.     *)
(***************************************************************************)
EXTENDS Naturals, Sequences, FiniteSets

CONSTANTS Refs,     \* file references, in the order the MFT lists them
          Top,      \* the root directory, which the MFT enumeration leaves out
          Missing,  \* what a path leads to when nothing is there
          Scanners, \* processes that take inventories
          Setups    \* the situations of this instance, one of which is the case

ASSUME RefsAssumption ==
  /\ Refs \subseteq Nat \ {0} /\ IsFiniteSet(Refs)   \* 0 is the file table's own
  /\ {Top, Missing} \cap Refs = {} /\ Top # Missing

VARIABLES setup,    \* the situation: never changes
          tree,     \* live file reference -> its entry
          journal,  \* [id, first, records]: `first` is the oldest record kept
          done,     \* changes made so far
          quiet     \* scanner -> nothing has changed since its scan began

volume == <<tree, journal, done>>

\* What is at a reference, and a record of the journal about it.
Entry == [parent : Refs \cup {Top}, name : STRING, kind : {"dir", "file", "link"},
          size : Nat]
Record == [ref : Refs, parent : Refs \cup {Top}, name : STRING, dir : BOOLEAN,
           gone : BOOLEAN]

\* A volume's tree: every entry stands in the root or in a directory that is there, no two
\* of a directory have one name, and no directory is inside itself.
WellFormed(t) ==
  /\ DOMAIN t \subseteq Refs
  /\ \A x \in DOMAIN t :
       /\ t[x] \in Entry
       /\ t[x].parent = Top \/ (t[x].parent \in DOMAIN t /\ t[t[x].parent].kind = "dir")
  /\ \A x, y \in DOMAIN t : t[x].parent = t[y].parent /\ t[x].name = t[y].name => x = y
  /\ \A S \in SUBSET DOMAIN t : (\A x \in S : t[x].parent \in S) => S = {}

\* The situations start from a volume, and what other programs do keeps to its types.
\* `linkTo` says what a link leads to in the end, which is no link.
ASSUME SetupsAssumption ==
  \A u \in Setups :
    /\ WellFormed(u.tree)
    /\ \A c \in u.changes :
         /\ c.do = "create" => c.ref \in Refs /\ c.entry \in Entry
         /\ c.do = "write" => c.size \in Nat
         /\ c.do = "move" => c.parent \in Refs \cup {Top} /\ c.name \in STRING
    /\ \A x \in DOMAIN u.tree : u.tree[x].kind = "link" => x \in DOMAIN u.linkTo
    /\ \A c \in u.changes :
         c.do = "create" /\ c.entry.kind = "link" => c.ref \in DOMAIN u.linkTo
    /\ \A x \in DOMAIN u.linkTo : u.linkTo[x] \notin DOMAIN u.linkTo
    /\ u.roots \in Seq(Seq(STRING)) /\ u.buffer \in Nat

VolumeInit ==
  /\ setup \in Setups
  /\ tree = setup.tree
  /\ journal = [id |-> 1, first |-> 1, records |-> <<>>]
  /\ done = {}
  /\ quiet = [s \in Scanners |-> TRUE]

(***************************************************************************)
(* Paths are sequences of names from the volume's root.  A link is followed *)
(* wherever it stands in a path, as fs::metadata and read_dir do.           *)
(***************************************************************************)
ChildrenOf(d) == {x \in DOMAIN tree : tree[x].parent = d}

Target(x) == IF tree[x].kind = "link" THEN setup.linkTo[x] ELSE x

Step(d, name) ==
  LET named == {x \in DOMAIN tree : tree[x].name = name /\ tree[x].parent = d}
  IN  IF named = {} THEN Missing
      ELSE LET t == Target(CHOOSE x \in named : TRUE)
           IN  IF t \in DOMAIN tree \cup {Top} THEN t ELSE Missing

Resolve(path) ==
  LET spot[n \in 0..Len(path)] == IF n = 0 THEN Top ELSE Step(spot[n - 1], path[n])
  IN  spot[Len(path)]

IsDir(x) == x = Top \/ (x \in DOMAIN tree /\ tree[x].kind = "dir")
IsFile(x) == x \in DOMAIN tree /\ tree[x].kind = "file"

\* y is x or below it: it is in every set that has x and what stands in a member.
Within(y, x) ==
  \A S \in SUBSET Refs :
    x \in S /\ (\A z \in DOMAIN tree : tree[z].parent \in S => z \in S) => y \in S

(***************************************************************************)
(* What other programs do.  The changes that may happen are listed in the   *)
(* situation; each happens at most once, in any order.                      *)
(***************************************************************************)
RecordOf(x, e, gone) ==
  [ref |-> x, parent |-> e.parent, name |-> e.name, dir |-> e.kind = "dir", gone |-> gone]

Log(rs) == journal' = [journal EXCEPT !.records = @ \o rs]

Free(d, name) == IsDir(d) /\ \A x \in ChildrenOf(d) : tree[x].name # name

Create(c) ==
  /\ c.do = "create"
  /\ c.ref \notin DOMAIN tree
  /\ Free(c.entry.parent, c.entry.name)
  /\ tree' = [x \in DOMAIN tree \cup {c.ref} |-> IF x = c.ref THEN c.entry ELSE tree[x]]
  /\ Log(<<RecordOf(c.ref, c.entry, FALSE)>>)

Write(c) ==
  /\ c.do = "write"
  /\ IsFile(c.ref)
  /\ tree' = [tree EXCEPT ![c.ref].size = c.size]
  /\ Log(<<RecordOf(c.ref, tree[c.ref], FALSE)>>)

\* A rename writes a record with the old name and one with the new.
Move(c) ==
  /\ c.do = "move"
  /\ c.ref \in DOMAIN tree
  /\ Free(c.parent, c.name)
  /\ ~Within(c.parent, c.ref)
  /\ tree' = [tree EXCEPT ![c.ref].parent = c.parent, ![c.ref].name = c.name]
  /\ Log(<<RecordOf(c.ref, tree[c.ref], FALSE), RecordOf(c.ref, tree'[c.ref], FALSE)>>)

Erase(c) ==
  /\ c.do = "remove"
  /\ c.ref \in DOMAIN tree
  /\ ChildrenOf(c.ref) = {}
  /\ tree' = [x \in DOMAIN tree \ {c.ref} |-> tree[x]]
  /\ Log(<<RecordOf(c.ref, tree[c.ref], TRUE)>>)

\* The journal drops its old records, or is deleted and made anew.
Trim(c) ==
  /\ c.do = "trim"
  /\ journal' = [journal EXCEPT !.first = Len(journal.records) + 1]
  /\ UNCHANGED tree

Recreate(c) ==
  /\ c.do = "recreate"
  /\ journal' = [id |-> journal.id + 1, first |-> 1, records |-> <<>>]
  /\ UNCHANGED tree

Change ==
  /\ \E c \in setup.changes \ done :
       /\ Create(c) \/ Write(c) \/ Move(c) \/ Erase(c) \/ Trim(c) \/ Recreate(c)
       /\ done' = done \cup {c}
  /\ quiet' = [s \in Scanners |-> FALSE]

(***************************************************************************)
(* The journal's two calls: query_usn_journal_state's next_usn, and          *)
(* read_usn_journal_delta, which fails for another journal or for records    *)
(* that are gone and returns what one buffer holds.                          *)
(***************************************************************************)
NextUsn == Len(journal.records) + 1

Readable(id, since) == id = journal.id /\ since >= journal.first /\ since <= NextUsn

read_usn_journal_delta(since) ==
  SubSeq(journal.records, since,
         IF NextUsn - since > setup.buffer THEN since + setup.buffer - 1 ELSE NextUsn - 1)
=============================================================================
