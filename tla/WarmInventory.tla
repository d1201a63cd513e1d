---------------------------- MODULE WarmInventory ----------------------------
(***************************************************************************)
(* The inventory of a whole volume from its file table: cold, by reading    *)
(* every record of the MFT and asking for each file's size                  *)
(* (src/src/inventory/mft.rs), or warm, by applying the journal's records   *)
(* since the last inventory to the snapshot kept in the cache               *)
(* (src/src/inventory/warm.rs and the inventory tables of src/src/cache.rs).*)
(* Several processes share the cache.                                       *)
(***************************************************************************)
EXTENDS Volume, Exclusions

CONSTANTS None

\* A row of inventory_records.  Nothing reads a directory's size.
SnapshotRow == [parent : Refs \cup {Top}, name : STRING, dir : BOOLEAN, size : Nat]

\* `None` stands where a size would; the snapshot there is was made of the journal there is.
ASSUME SnapshotsAssumption ==
  /\ None \notin Nat
  /\ \A u \in Setups :
       /\ u.meta # None => u.meta.id = 1 /\ u.meta.cursor \in Nat \ {0}
       /\ \A x \in DOMAIN u.rows : x \in Refs /\ u.rows[x] \in SnapshotRow

VARIABLES meta,   \* inventory_meta: None, or the journal's id and the cursor last_usn
          rows,   \* inventory_records: file reference -> row
          at,     \* scanner -> the step its inventory has come to
          job,    \* scanner -> what the step works on
          list,   \* scanner -> None before an inventory has ended, or how it ended
          runs,   \* inventories begun
          kills   \* processes killed

snapshot == <<meta, rows>>
warmVars == <<setup, volume, quiet, snapshot, at, job, list, runs, kills>>

Steps == {"idle", "meta", "rows", "read", "apply", "drop", "open", "enum", "stat", "walk"}

NoRows == [x \in {} |-> 0]
NoJob == [id |-> 0, cursor |-> 0, byRef |-> NoRows, delta |-> <<>>, upserts |-> NoRows,
          deletes |-> {}, page |-> 0, todo |-> {}, sizes |-> NoRows]

WarmInit ==
  /\ VolumeInit
  /\ meta = setup.meta
  /\ rows = setup.rows
  /\ at = [s \in Scanners |-> "idle"]
  /\ job = [s \in Scanners |-> NoJob]
  /\ list = [s \in Scanners |-> None]
  /\ runs = 0
  /\ kills = 0

Put(f, x, v) == [y \in DOMAIN f \cup {x} |-> IF y = x THEN v ELSE f[y]]
Drop(f, x) == [y \in DOMAIN f \ {x} |-> f[y]]

(***************************************************************************)
(* A file's path out of a map of records: the names up to the first parent  *)
(* the map does not have.  (A parent that is no directory would give no     *)
(* path; a record's parent always is one.)                                  *)
(***************************************************************************)
reconstruct_path(map, x) ==
  LET path[n \in 0..Cardinality(Refs)] ==
        [y \in DOMAIN map |->
           IF n = 0 \/ map[y].parent \notin DOMAIN map THEN <<map[y].name>>
           ELSE Append(path[n - 1][map[y].parent], map[y].name)]
  IN  path[Cardinality(Refs)][x]

FilesOf(map) == {x \in DOMAIN map : ~map[x].dir}

\* fs::metadata of a path the records give: None when nothing is there.
SizeAt(path) ==
  LET x == Resolve(path)
  IN  IF x = Missing THEN None ELSE IF IsFile(x) THEN tree[x].size ELSE 0

Row(r, size) == [parent |-> r.parent, name |-> r.name, dir |-> r.dir, size |-> size]

\* The user's filters that hold for every inventory: the sizes and --include, --exclude.
SizeFits(size) ==
  /\ size >= setup.minSize
  /\ setup.maxSize # None => size <= setup.maxSize

path_passes_globs(path) ==
  /\ setup.include # {} => AnyMatches(setup.include, path)
  /\ ~AnyMatches(setup.exclude, path)

\* The inventory's rows: every file that passes, under the path the records give it.
entries_from_records(map, size) ==
  {[path |-> reconstruct_path(map, x), ref |-> x, size |-> size[x]] :
     x \in {y \in FilesOf(map) : /\ y \in DOMAIN size /\ SizeFits(size[y])
                               /\ path_passes_globs(reconstruct_path(map, y))}}

\* An inventory that ends well; `whole` is FALSE when the reading was cut short.
Listed(entries, how, whole) == [entries |-> entries, how |-> how, whole |-> whole]

End(s, outcome) ==
  /\ at' = [at EXCEPT ![s] = "idle"]
  /\ job' = [job EXCEPT ![s] = NoJob]
  /\ list' = [list EXCEPT ![s] = outcome]

Go(s, step) == at' = [at EXCEPT ![s] = step] /\ UNCHANGED list

(***************************************************************************)
(* An inventory begins.  The file table is read only when --force-mft was   *)
(* given and every root is a volume's root; otherwise the directories are.  *)
(***************************************************************************)
Begin(s) ==
  /\ s \in setup.scanners /\ at[s] = "idle" /\ runs < setup.runs
  /\ runs' = runs + 1
  /\ quiet' = [quiet EXCEPT ![s] = TRUE]
  /\ list' = [list EXCEPT ![s] = None]
  /\ at' = [at EXCEPT ![s] = IF setup.forceMft THEN "meta" ELSE "walk"]
  /\ UNCHANGED <<setup, volume, snapshot, job, kills>>

\* A snapshot is given up by two statements, each of them a transaction: the first takes
\* the cursor, the second the rows (DropRows).
invalidate_inventory_snapshot(s) == meta' = None /\ UNCHANGED rows /\ Go(s, "drop")

DropRows(s) ==
  /\ at[s] = "drop"
  /\ rows' = NoRows
  /\ Go(s, "open")
  /\ UNCHANGED <<setup, volume, quiet, meta, job, runs, kills>>

(***************************************************************************)
(* The warm path.  The snapshot's cursor is checked against the journal as  *)
(* it is now; a snapshot of another journal, or one the journal no longer   *)
(* reaches, is deleted.                                                     *)
(***************************************************************************)
CursorUsable(m) ==
  /\ m.id = journal.id
  /\ m.cursor >= journal.first
  /\ m.cursor <= NextUsn

CheckMeta(s) ==
  /\ at[s] = "meta"
  /\ \/ /\ meta # None /\ CursorUsable(meta)
        /\ Go(s, "rows")
        /\ job' = [job EXCEPT ![s].id = journal.id, ![s].cursor = meta.cursor]
        /\ UNCHANGED snapshot
     \/ /\ meta # None /\ ~CursorUsable(meta)
        /\ invalidate_inventory_snapshot(s) /\ UNCHANGED job
     \/ /\ meta = None \/ setup.flaky   \* no snapshot, or the journal cannot be queried
        /\ Go(s, "open") /\ UNCHANGED <<snapshot, job>>
  /\ UNCHANGED <<setup, volume, quiet, runs, kills>>

LoadRows(s) ==
  /\ at[s] = "rows"
  /\ job' = [job EXCEPT ![s].byRef = rows]
  /\ Go(s, "read")
  /\ UNCHANGED <<setup, volume, quiet, snapshot, runs, kills>>

\* A delta that cannot be read sends the inventory down the cold path.
ReadDelta(s) ==
  /\ at[s] = "read"
  /\ \/ /\ Readable(job[s].id, job[s].cursor)
        /\ LET delta == read_usn_journal_delta(job[s].cursor)
           IN  job' = [job EXCEPT ![s].delta = delta, ![s].cursor = @ + Len(delta)]
        /\ Go(s, "apply")
     \/ /\ ~Readable(job[s].id, job[s].cursor) \/ setup.flaky
        /\ job' = [job EXCEPT ![s] = NoJob]
        /\ Go(s, "open")
  /\ UNCHANGED <<setup, volume, quiet, snapshot, runs, kills>>

(***************************************************************************)
(* One record of the delta.  The size is asked for under the path the       *)
(* records read so far give; a file that is not there is taken for deleted. *)
(***************************************************************************)
Forget(j, x) ==
  [j EXCEPT !.byRef = Drop(@, x), !.deletes = IF x \in DOMAIN j.byRef THEN @ \cup {x} ELSE @]

Remember(j, x, row) ==
  [j EXCEPT !.byRef = Put(@, x, row), !.upserts = Put(@, x, row)]

Applied(j, r) ==
  LET placed == Put(j.byRef, r.ref, Row(r, 0))
      size == SizeAt(reconstruct_path(placed, r.ref))
  IN  IF r.gone THEN Forget(j, r.ref)
      ELSE IF r.dir THEN Remember(j, r.ref, Row(r, 0))
      ELSE IF size = None THEN Forget(j, r.ref)
      ELSE Remember(j, r.ref, Row(r, size))

UnknownParent(j, r) ==
  ~r.gone /\ r.ref \notin DOMAIN j.byRef /\ r.parent \notin DOMAIN j.byRef

ApplyRecord(s) ==
  /\ at[s] = "apply" /\ job[s].delta # <<>>
  /\ LET r == Head(job[s].delta)
     IN  /\ ~UnknownParent(job[s], r)
         /\ job' = [job EXCEPT ![s] = [Applied(job[s], r) EXCEPT !.delta = Tail(@)]]
  /\ UNCHANGED <<setup, volume, quiet, snapshot, at, list, runs, kills>>

\* A new file in a directory the snapshot does not have: the snapshot is given up.
GiveUp(s) ==
  /\ at[s] = "apply" /\ job[s].delta # <<>>
  /\ UnknownParent(job[s], Head(job[s].delta))
  /\ invalidate_inventory_snapshot(s)
  /\ job' = [job EXCEPT ![s] = NoJob]
  /\ UNCHANGED <<setup, volume, quiet, runs, kills>>

\* One transaction: the cursor, then the deletes, then the upserts.
apply_inventory_delta(j) ==
  /\ meta' = [id |-> j.id, cursor |-> j.cursor]
  /\ rows' = [x \in (DOMAIN rows \ j.deletes) \cup DOMAIN j.upserts |->
                IF x \in DOMAIN j.upserts THEN j.upserts[x] ELSE rows[x]]

FinishWarm(s) ==
  /\ at[s] = "apply" /\ job[s].delta = <<>>
  /\ apply_inventory_delta(job[s])
  /\ LET j == job[s]
         sizes == [x \in DOMAIN j.byRef |-> j.byRef[x].size]
     IN  End(s, Listed(entries_from_records(j.byRef, sizes), "warm", j.cursor = NextUsn))
  /\ UNCHANGED <<setup, volume, quiet, runs, kills>>

(***************************************************************************)
(* The cold path.  The cursor of the snapshot is the journal's end as it    *)
(* was before the first record of the MFT was read; 0 stands for a journal  *)
(* that could not be queried.                                               *)
(***************************************************************************)
ColdOpen(s) ==
  /\ at[s] = "open" /\ setup.elevated
  /\ \/ job' = [job EXCEPT ![s].id = journal.id, ![s].cursor = NextUsn]
     \/ setup.flaky /\ UNCHANGED job
  /\ Go(s, "enum")
  /\ UNCHANGED <<setup, volume, quiet, snapshot, runs, kills>>

\* Only an administrator opens the volume; otherwise, and when the enumeration fails, the
\* directories are walked.
ColdFails(s) ==
  /\ \/ at[s] = "open" /\ ~setup.elevated
     \/ at[s] \in {"open", "enum"} /\ setup.flaky
  /\ job' = [job EXCEPT ![s] = NoJob]
  /\ Go(s, "walk")
  /\ UNCHANGED <<setup, volume, quiet, snapshot, runs, kills>>

Unread(s) == {x \in DOMAIN tree : x > job[s].page}

EnumNext(s) ==
  /\ at[s] = "enum" /\ Unread(s) # {}
  /\ LET x == CHOOSE y \in Unread(s) : \A z \in Unread(s) : y <= z
     IN  job' = [job EXCEPT ![s].byRef = Put(@, x, Row(RecordOf(x, tree[x], FALSE), 0)),
                            ![s].page = x]
  /\ UNCHANGED <<setup, volume, quiet, snapshot, at, list, runs, kills>>

EnumEnd(s) ==
  /\ at[s] = "enum" /\ Unread(s) = {}
  /\ job' = [job EXCEPT ![s].todo = FilesOf(job[s].byRef)]
  /\ Go(s, "stat")
  /\ UNCHANGED <<setup, volume, quiet, snapshot, runs, kills>>

\* The sizes of the files that are still where the records say, one by one.
ColdStat(s) ==
  /\ at[s] = "stat"
  /\ \E x \in job[s].todo :
       LET size == SizeAt(reconstruct_path(job[s].byRef, x))
       IN  job' = [job EXCEPT ![s].todo = @ \ {x},
                              ![s].sizes = IF size = None THEN @ ELSE Put(@, x, size)]
  /\ UNCHANGED <<setup, volume, quiet, snapshot, at, list, runs, kills>>

\* Mutant: the journal's end as it is after the enumeration.
persist_cold_snapshot_late(j) ==
  /\ meta' = [id |-> j.id, cursor |-> NextUsn]
  /\ rows' = [x \in DOMAIN j.byRef |->
                [j.byRef[x] EXCEPT !.size = IF x \in DOMAIN j.sizes THEN j.sizes[x] ELSE 0]]

\* The snapshot has every record; a file without a size gets 0.
persist_cold_snapshot(j) ==
  /\ meta' = [id |-> j.id, cursor |-> j.cursor]
  /\ rows' = [x \in DOMAIN j.byRef |->
                [j.byRef[x] EXCEPT !.size = IF x \in DOMAIN j.sizes THEN j.sizes[x] ELSE 0]]

FinishCold(s) ==
  /\ at[s] = "stat" /\ job[s].todo = {}
  /\ IF job[s].cursor # 0 THEN persist_cold_snapshot(job[s]) ELSE UNCHANGED snapshot
  /\ End(s, Listed(entries_from_records(job[s].byRef, job[s].sizes), "cold", TRUE))
  /\ UNCHANGED <<setup, volume, quiet, runs, kills>>

\* The process is killed: the cache keeps its last whole transaction.
Kill(s) ==
  /\ at[s] # "idle" /\ kills < setup.kills
  /\ kills' = kills + 1
  /\ End(s, None)
  /\ UNCHANGED <<setup, volume, quiet, snapshot, runs>>

TableStep(s) ==
  \/ CheckMeta(s) \/ DropRows(s) \/ LoadRows(s) \/ ReadDelta(s)
  \/ ApplyRecord(s) \/ GiveUp(s) \/ FinishWarm(s)
  \/ ColdOpen(s) \/ ColdFails(s) \/ EnumNext(s) \/ EnumEnd(s) \/ ColdStat(s) \/ FinishCold(s)

(***************************************************************************)
(* Properties.                                                             *)
(***************************************************************************)

\* The snapshot with the journal from its cursor on is the volume: a file or directory
\* the journal will say nothing more about is in the snapshot as it is on the volume, and
\* no other file is.  It is what makes a warm inventory of tomorrow right.  Holds in the
\* situations of MCInventory, through kills and other scans; README.md, section 6, has
\* five in which it does not.
SnapshotCatchesUp ==
  meta # None /\ CursorUsable(meta) =>
    LET ahead == {journal.records[n].ref : n \in meta.cursor..Len(journal.records)}
    IN  /\ \A x \in DOMAIN tree \ ahead :
             /\ x \in DOMAIN rows
             /\ rows[x] = Row(RecordOf(x, tree[x], FALSE),
                              IF tree[x].kind = "file" THEN tree[x].size ELSE 0)
        /\ \A x \in FilesOf(rows) \ ahead : x \in DOMAIN tree
=============================================================================
