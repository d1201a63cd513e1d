--------------------------- MODULE XdgTrashProofs ---------------------------
(***************************************************************************)
(* With one caller the trash keeps its promises, whatever is called what,   *)
(* however often the caller fails or is killed, and however many names it   *)
(* tries.  MCTrashInfo and MCTrashReplaced show that two callers break them. *)
(***************************************************************************)
EXTENDS XdgTrash, TLAPS

\* A caller at work has a file, and the name it looks at is a name.
LEMMA NameType ==
  ASSUME IInv, NEW c \in Callers, at[c] # "idle"
  PROVE  what[c] \in Files /\ Name(c) \in Names
BY TrashAssumption DEF TrashAssumption, IInv, TypeOK, Owned, Name

LEMMA InitInv == Init => IInv
BY TrashAssumption DEF TrashAssumption, Init, IInv, TypeOK, DataHasInfo, Owned, OnePlace, Steps

\* Every step keeps the invariant.
LEMMA StepInv ==
  ASSUME OneCaller, IInv, [Next]_vars
  PROVE  IInv'
<1> USE TrashAssumption DEF TrashAssumption, IInv
<1>1. ASSUME NEW c \in Callers, NEW f \in Files, Begin(c, f) PROVE IInv'
  <2>1. TypeOK' BY <1>1 DEF Begin, Goto, TypeOK, Steps
  <2>2. DataHasInfo' /\ OnePlace' BY <1>1 DEF Begin, DataHasInfo, OnePlace
  <2>3. Owned' BY <1>1 DEF Begin, Goto, TypeOK, Owned, Name, OneCaller
  <2> QED BY <2>1, <2>2, <2>3
<1>2. ASSUME NEW c \in Callers, Pick(c) PROVE IInv'
  <2>1. TypeOK'
    <3>1. CASE UNCHANGED try
      BY <1>2, <3>1 DEF Pick, Goto, TypeOK, Steps
    <3>2. CASE try[c] < Tries /\ try' = [try EXCEPT ![c] = @ + 1] /\ UNCHANGED at
      <4>1. try[c] + 1 \in 1..Tries
        BY <3>2 DEF TypeOK
      <4> QED BY <1>2, <3>2, <4>1 DEF Pick, TypeOK
    <3> QED BY <1>2, <3>1, <3>2 DEF Pick
  <2>2. DataHasInfo' /\ OnePlace' BY <1>2 DEF Pick, DataHasInfo, OnePlace
  <2>3. Owned' BY <1>2 DEF Pick, Free, Goto, TypeOK, Owned, Name, OneCaller
  <2> QED BY <2>1, <2>2, <2>3
<1>3. ASSUME NEW c \in Callers, CreateInfo(c) PROVE IInv'
  <2>0. Name(c) \in Names /\ data[Name(c)] = None
    BY <1>3, NameType DEF CreateInfo, Owned
  <2>1. TypeOK' BY <1>3, <2>0 DEF CreateInfo, Goto, TypeOK, Steps
  <2>2. DataHasInfo' /\ OnePlace' BY <1>3, <2>0 DEF CreateInfo, TypeOK, DataHasInfo, OnePlace
  <2>3. Owned' BY <1>3, <2>0 DEF CreateInfo, Goto, TypeOK, Owned, Name, OneCaller
  <2> QED BY <2>1, <2>2, <2>3
<1>4. ASSUME NEW c \in Callers, WriteInfo(c) PROVE IInv'
  <2>0. what[c] \in Files /\ Name(c) \in Names /\ data[Name(c)] = None
    BY <1>4, NameType DEF WriteInfo, Owned
  <2>1. TypeOK' BY <1>4, <2>0 DEF WriteInfo, Goto, TypeOK, Steps
  <2>2. DataHasInfo' /\ OnePlace' BY <1>4, <2>0 DEF WriteInfo, TypeOK, DataHasInfo, OnePlace
  <2>3. Owned' BY <1>4, <2>0 DEF WriteInfo, Goto, TypeOK, Owned, Name, OneCaller
  <2> QED BY <2>1, <2>2, <2>3
<1>5. ASSUME NEW c \in Callers, WriteFails(c) \/ Killed(c) PROVE IInv'
  <2>1. TypeOK' BY <1>5 DEF WriteFails, Killed, Goto, TypeOK, Steps
  <2>2. DataHasInfo' /\ OnePlace' BY <1>5 DEF WriteFails, Killed, DataHasInfo, OnePlace
  <2>3. Owned' BY <1>5 DEF WriteFails, Killed, Goto, TypeOK, Owned, Name, OneCaller
  <2> QED BY <2>1, <2>2, <2>3
<1>6. ASSUME NEW c \in Callers, MoveData(c) PROVE IInv'
  <2>0. /\ what[c] \in Files /\ what[c] \in home /\ Name(c) \in Names
        /\ info[Name(c)] = what[c]
    BY <1>6, NameType DEF MoveData, Owned
  <2>1. TypeOK' BY <1>6, <2>0 DEF MoveData, Goto, TypeOK, Steps
  <2>2. DataHasInfo' BY <1>6, <2>0 DEF MoveData, TypeOK, DataHasInfo
  <2>3. OnePlace' BY <1>6, <2>0 DEF MoveData, TypeOK, OnePlace
  <2>4. Owned' BY <1>6, <2>0 DEF MoveData, Goto, TypeOK, Owned, Name, OneCaller
  <2> QED BY <2>1, <2>2, <2>3, <2>4
<1>7. ASSUME NEW c \in Callers, MoveFails(c) PROVE IInv'
  <2>0. Name(c) \in Names /\ data[Name(c)] = None
    BY <1>7, NameType DEF MoveFails, Owned
  <2>1. TypeOK' BY <1>7, <2>0 DEF MoveFails, Goto, TypeOK, Steps
  <2>2. DataHasInfo' /\ OnePlace' BY <1>7, <2>0 DEF MoveFails, TypeOK, DataHasInfo, OnePlace
  <2>3. Owned' BY <1>7, <2>0 DEF MoveFails, Goto, TypeOK, Owned, Name, OneCaller
  <2> QED BY <2>1, <2>2, <2>3
<1>8. ASSUME NEW n \in Names, PutBack(n) PROVE IInv'
  <2>1. TypeOK' BY <1>8 DEF PutBack, callers, TypeOK
  <2>2. DataHasInfo' BY <1>8 DEF PutBack, TypeOK, DataHasInfo
  <2>3. OnePlace' BY <1>8 DEF PutBack, TypeOK, OnePlace
  <2>4. Owned'
    <3> SUFFICES ASSUME NEW c \in Callers
                 PROVE  /\ at'[c] # "idle" => what'[c] \in Files
                        /\ at'[c] \in {"create", "write", "move"} => data'[Name(c)'] = None
                        /\ at'[c] = "move" => info'[Name(c)'] = what'[c]
      BY DEF Owned
    <3>1. at'[c] = at[c] /\ what'[c] = what[c] /\ Name(c)' = Name(c)
      BY <1>8 DEF PutBack, callers, Name
    <3>2. at[c] # "idle" => Name(c) \in Names
      BY NameType
    <3>3. at[c] \in {"create", "write", "move"} => data[Name(c)] = None /\ Name(c) # n
      BY <1>8 DEF PutBack, Owned
    <3> QED BY <1>8, <3>1, <3>2, <3>3 DEF PutBack, TypeOK, Owned
  <2> QED BY <2>1, <2>2, <2>3, <2>4
<1>9. CASE UNCHANGED vars
  BY <1>9 DEF vars, callers, TypeOK, DataHasInfo, Owned, Name, OnePlace
<1> QED BY <1>1, <1>2, <1>3, <1>4, <1>5, <1>6, <1>7, <1>8, <1>9 DEF Next, Trash

\* With one caller, everything in the trash has an info file that says where it came
\* from, at every moment (trash.rs:88-93).
THEOREM Invariance == ASSUME OneCaller PROVE Spec => []IInv
<1>1. Init => IInv
  BY InitInv
<1>2. IInv /\ [Next]_vars => IInv'
  BY StepInv
<1> QED BY <1>1, <1>2, PTL DEF Spec

THEOREM InfoForData == ASSUME OneCaller PROVE Spec => []DataHasInfo
<1>1. IInv => DataHasInfo
  BY DEF IInv
<1> QED BY <1>1, Invariance, PTL

\* With one caller, trashing a file never replaces another one (trash.rs:78-81).
LEMMA StepKeeps ==
  ASSUME IInv, [Next]_vars, NEW n \in Names, data[n] # None
  PROVE  data'[n] \in {data[n], None}
<1>1. ASSUME NEW c \in Callers, MoveData(c) PROVE data'[n] = data[n]
  <2>1. Name(c) # n
    BY <1>1 DEF MoveData, IInv, Owned
  <2> QED BY <1>1, <2>1 DEF MoveData, IInv, TypeOK
<1>2. ASSUME NEW m \in Names, PutBack(m) PROVE data'[n] \in {data[n], None}
  BY <1>2 DEF PutBack, IInv, TypeOK
<1>3. ASSUME UNCHANGED data PROVE data'[n] = data[n]
  BY <1>3
<1> QED BY <1>1, <1>2, <1>3 DEF Next, Trash, Begin, Pick, CreateInfo, WriteInfo,
         WriteFails, MoveFails, Killed, vars

THEOREM NeverReplaced == ASSUME OneCaller PROVE Spec => NothingReplaced
<1> DEFINE Keeps == \A n \in Names : data[n] # None => data'[n] \in {data[n], None}
<1>1. IInv /\ [Next]_vars => [Keeps]_vars
  BY StepKeeps DEF Keeps
<1> QED BY <1>1, Invariance, PTL DEF Spec, NothingReplaced

-----------------------------------------------------------------------------
(* Implementation of TrashBin: MoveData trashes the file, PutBack puts it   *)
(* back, and every other step leaves both where they are.                   *)

LEMMA InitBin == Init => Bin!Init
BY TrashAssumption DEF TrashAssumption, Init, Bin!Init, Recoverable

LEMMA StepBin ==
  ASSUME IInv, [Next]_vars
  PROVE  [Bin!Next]_<<home, Recoverable>>
<1> USE TrashAssumption DEF TrashAssumption, IInv
<1>1. ASSUME NEW c \in Callers, MoveData(c) PROVE Bin!Next
  <2>1. /\ what[c] \in Files /\ what[c] \in home /\ Name(c) \in Names
        /\ data[Name(c)] = None /\ info[Name(c)] = what[c]
    BY <1>1, NameType DEF MoveData, Owned
  <2>2. Recoverable' = Recoverable \union {what[c]}
    BY <1>1, <2>1 DEF MoveData, TypeOK, Recoverable
  <2> QED BY <1>1, <2>1, <2>2 DEF MoveData, Bin!Next, Bin!Trash
<1>2. ASSUME NEW n \in Names, PutBack(n) PROVE Bin!Next
  <2>1. data[n] \in Files /\ data[n] \in Recoverable
    BY <1>2 DEF PutBack, TypeOK, Recoverable
  <2>2. \A m \in Names : m # n => data[m] # data[n]
    BY <2>1 DEF OnePlace
  <2>3. Recoverable' = Recoverable \ {data[n]}
    BY <1>2, <2>1, <2>2 DEF PutBack, TypeOK, Recoverable
  <2> QED BY <1>2, <2>1, <2>3 DEF PutBack, Bin!Next, Bin!PutBack
<1>3. ASSUME NEW c \in Callers, CreateInfo(c) \/ WriteInfo(c) \/ MoveFails(c)
      PROVE  UNCHANGED <<home, Recoverable>>
  <2>1. Name(c) \in Names /\ data[Name(c)] = None
    BY <1>3, NameType DEF CreateInfo, WriteInfo, MoveFails, Owned
  <2>2. \A m \in Names : data[m] # None => info'[m] = info[m]
    BY <1>3, <2>1 DEF CreateInfo, WriteInfo, MoveFails, TypeOK
  <2> QED BY <1>3, <2>1, <2>2 DEF CreateInfo, WriteInfo, MoveFails, Recoverable
<1>4. ASSUME UNCHANGED <<home, data, info>> PROVE UNCHANGED <<home, Recoverable>>
  BY <1>4 DEF Recoverable
<1> QED
  BY <1>1, <1>2, <1>3, <1>4 DEF Next, Trash, Begin, Pick, WriteFails, Killed, vars

\* With one caller at a time, trash_file is the atomic move that FileActions takes it
\* for, through every failure and kill.
THEOREM Implementation == ASSUME OneCaller PROVE Spec => ImplementsBin
<1>1. IInv /\ [Next]_vars => [Bin!Next]_<<home, Recoverable>>
  BY StepBin
<1> QED BY <1>1, InitBin, Invariance, PTL DEF Spec, ImplementsBin, Bin!Spec
=============================================================================
