------------------------------ MODULE HashCache ------------------------------
(***************************************************************************)
(* The hash cache of src/cache.rs: one SQLite row per file, holding the    *)
(* (size, mtime, usn) the file had when a hash was last stored for it, and *)
(* one column per hash tier.  Every process has its own connection; the    *)
(* statements of different connections are atomic.  A GUI scan first loads *)
(* all rows into a map of its own (warm_in_place) and reads only that.     *)
(*                                                                         *)
(* (size, mtime, usn) is one stamp here: the reason of a drift only feeds  *)
(* a counter.                                                              *)
(***************************************************************************)
EXTENDS Naturals, FiniteSets

CONSTANTS
  Scanners,  \* the processes that scan
  Keys,      \* (volume_guid, file_ref), or what cache_key makes up from the path
  Hashes,    \* digests
  None

Tiers == {"zero", "one", "two", "three"}

VARIABLES
  rows,      \* the files table: key -> row, or None
  mirror     \* scanner -> its warm_map, or None

cvars == <<rows, mirror>>

Row == [stamp : Nat, hash : [Tiers -> Hashes \union {None}]]
Table == [Keys -> Row \union {None}]

CacheTypeOK ==
  /\ rows \in Table
  /\ mirror \in [Scanners -> Table \union {None}]

CacheInit ==
  /\ rows = [k \in Keys |-> None]
  /\ mirror = [p \in Scanners |-> None]

NoHashes == [t \in Tiers |-> None]

\* lookup_detailed and pick_hash: a row for the file as it was listed, and a
\* value in the column of the tier.
Cached(p, k, stamp, t) ==
  LET table == IF mirror[p] = None THEN rows ELSE mirror[p] IN
  IF table[k] # None /\ table[k].stamp = stamp THEN table[k].hash[t] ELSE None

\* store: the stamp is replaced, a tier that is not written keeps what it holds
\* (COALESCE).
Store(k, stamp, t, h) ==
  LET kept == IF rows[k] = None THEN NoHashes ELSE rows[k].hash IN
  rows' = [rows EXCEPT ![k] = [stamp |-> stamp, hash |-> [kept EXCEPT ![t] = h]]]

\* warm_in_place
Warm(p) == mirror' = [mirror EXCEPT ![p] = rows]

Cold(p) == mirror' = [mirror EXCEPT ![p] = None]

\* superdeduper cache clear
Clear == rows' = [k \in Keys |-> None]
=============================================================================
