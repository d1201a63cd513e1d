------------------------------ MODULE XdgTrash ------------------------------
(***************************************************************************)
(* src/platform/linux/trash.rs: trash_file and the choice of a name, system *)
(* call by system call.  Several callers may be at it: the workers of the   *)
(* window, a second superdeduper, the desktop's own file manager, which     *)
(* follows the same specification.                                          *)
(*                                                                         *)
(* A file stands for its path and its content at once.  A name in the trash *)
(* is two files: files/<name> holds the data, info/<name>.trashinfo says    *)
(* where it came from.  The two tests of a name are one step.               *)
(***************************************************************************)
EXTENDS Naturals

CONSTANTS
  Callers,     \* threads and processes that trash files
  Files,       \* the files there are
  Names,       \* the names there can be in the trash
  Tries,       \* bound: how many names are tried, 2^32 in the code
  Candidate,   \* file, n -> the n-th name tried for it: x, x.2, x.3, ...
  None,        \* no file
  Torn         \* an info file that was created and not written

ASSUME TrashAssumption ==
  /\ Tries \in Nat \ {0}
  /\ Candidate \in [Files -> [1..Tries -> Names]]
  /\ None \notin Files /\ Torn \notin Files /\ None # Torn

VARIABLES
  home,   \* the files in their place
  data,   \* name -> the file in files/, or None
  info,   \* name -> whose info/ file it is, Torn or None
  at,     \* caller -> how far it is
  what,   \* caller -> the file it trashes
  try     \* caller -> the candidate it looks at or has chosen

callers == <<at, what, try>>
vars == <<home, data, info, callers>>

Steps == {"idle", "pick", "create", "write", "move"}

Init ==
  /\ home \in SUBSET Files
  /\ data = [n \in Names |-> None] /\ info = [n \in Names |-> None]
  /\ at = [c \in Callers |-> "idle"]
  /\ what = [c \in Callers |-> None] /\ try = [c \in Callers |-> 1]

Name(c) == Candidate[what[c]][try[c]]

Goto(c, step) == at' = [at EXCEPT ![c] = step]

\* fs::canonicalize fails for a file that is gone.
Begin(c, f) ==
  /\ at[c] = "idle" /\ f \in home
  /\ Goto(c, "pick")
  /\ what' = [what EXCEPT ![c] = f]
  /\ try' = [try EXCEPT ![c] = 1]
  /\ UNCHANGED <<home, data, info>>

\* Mutant: the name is not looked up.
AnyName(n) == TRUE

Free(n) == data[n] = None /\ info[n] = None

\* pick_unique_name: the first name that is free when it is looked at.
Pick(c) ==
  /\ at[c] = "pick"
  /\ \/ Free(Name(c)) /\ Goto(c, "create") /\ UNCHANGED try
     \/ ~Free(Name(c)) /\ try[c] < Tries /\ try' = [try EXCEPT ![c] = @ + 1] /\ UNCHANGED at
     \/ ~Free(Name(c)) /\ try[c] = Tries /\ Goto(c, "idle") /\ UNCHANGED try
  /\ UNCHANGED <<home, data, info, what>>

\* File::create truncates what is there.
CreateInfo(c) ==
  /\ at[c] = "create"
  /\ info' = [info EXCEPT ![Name(c)] = Torn]
  /\ Goto(c, "write")
  /\ UNCHANGED <<home, data, what, try>>

\* The write or the sync fails: the info file stays as it is.
WriteFails(c) ==
  /\ at[c] = "write"
  /\ Goto(c, "idle")
  /\ UNCHANGED <<home, data, info, what, try>>

\* write_all and sync_all, before the data is moved.
WriteInfo(c) ==
  /\ at[c] = "write"
  /\ info' = [info EXCEPT ![Name(c)] = what[c]]
  /\ Goto(c, "move")
  /\ UNCHANGED <<home, data, what, try>>

\* rename(2) replaces what has the name.
MoveData(c) ==
  /\ at[c] = "move" /\ what[c] \in home
  /\ home' = home \ {what[c]}
  /\ data' = [data EXCEPT ![Name(c)] = what[c]]
  /\ Goto(c, "idle")
  /\ UNCHANGED <<info, what, try>>

\* Gone meanwhile, or on another volume: the orphaned info file is removed.
MoveFails(c) ==
  /\ at[c] = "move"
  /\ info' = [info EXCEPT ![Name(c)] = None]
  /\ Goto(c, "idle")
  /\ UNCHANGED <<home, data, what, try>>

\* The caller is killed.
Killed(c) ==
  /\ at[c] # "idle"
  /\ Goto(c, "idle")
  /\ UNCHANGED <<home, data, info, what, try>>

\* The desktop puts a file back: it goes by the info file.
PutBack(n) ==
  /\ data[n] # None /\ data[n] = info[n] /\ data[n] \notin home
  /\ home' = home \union {data[n]}
  /\ data' = [data EXCEPT ![n] = None]
  /\ info' = [info EXCEPT ![n] = None]
  /\ UNCHANGED callers

Trash(c) ==
  \/ \E f \in Files : Begin(c, f)
  \/ Pick(c) \/ CreateInfo(c) \/ WriteInfo(c) \/ WriteFails(c)
  \/ MoveData(c) \/ MoveFails(c) \/ Killed(c)

Next == (\E c \in Callers : Trash(c)) \/ (\E n \in Names : PutBack(n))

Spec == Init /\ [][Next]_vars

-----------------------------------------------------------------------------
(* Properties.                                                             *)

TypeOK ==
  /\ home \subseteq Files
  /\ data \in [Names -> Files \union {None}]
  /\ info \in [Names -> Files \union {None, Torn}]
  /\ at \in [Callers -> Steps]
  /\ what \in [Callers -> Files \union {None}]
  /\ try \in [Callers -> 1..Tries]

\* "Data-without-info is unrecoverable": whatever is in the trash has an info file
\* that says where it came from, wherever a caller fails or is killed.
DataHasInfo == \A n \in Names : data[n] # None => info[n] = data[n]

\* "Suffix with a counter": trashing a file never replaces another one in the bin.
NothingReplaced ==
  [][\A n \in Names : data[n] # None => data'[n] \in {data[n], None}]_vars

\* The trash is the atomic move FileActions takes it for.
Recoverable == {f \in Files : \E n \in Names : data[n] = f /\ info[n] = f}
Bin == INSTANCE TrashBin WITH bin <- Recoverable
ImplementsBin == Bin!Spec

-----------------------------------------------------------------------------
(* Why one caller at a time is safe: the name it has chosen stays free until *)
(* it takes it, and no file is in two places.                               *)

Owned ==
  \A c \in Callers :
    /\ at[c] # "idle" => what[c] \in Files
    /\ at[c] \in {"create", "write", "move"} => data[Name(c)] = None
    /\ at[c] = "move" => info[Name(c)] = what[c]

OnePlace ==
  /\ \A n \in Names : data[n] # None => data[n] \notin home
  /\ \A m, n \in Names : data[n] # None /\ data[m] = data[n] => m = n

OneCaller == \A c, d \in Callers : c = d

IInv == TypeOK /\ DataHasInfo /\ Owned /\ OnePlace
=============================================================================
