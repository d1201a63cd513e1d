------------------------------ MODULE MCDedupe ------------------------------
(***************************************************************************)
(* Instances of Dedupe for TLC: two groups of two duplicates, a and b,     *)
(* with different contents.  a1, b1 and b2 have a second spelling each, and *)
(* the results file may list a file under either, or under both.           *)
(***************************************************************************)
EXTENDS Dedupe, TLC

CONSTANTS cli, a1, a2, b1, b2, alias, balias1, balias2, i1, i2, i3, i4, i5, A, B, X

MCFiles    == {a1, a2, b1, b2}
MCPaths    == MCFiles \union {alias, balias1, balias2}
MCInodes   == {i1, i2, i3, i4, i5}
MCContents == {A, B}
AllContents == {A, B, X}
MCCanon    == [p \in MCPaths |-> CASE p = alias -> a1 [] p = balias1 -> b1
                                      [] p = balias2 -> b2 [] OTHER -> p]
MCFileContent == [f \in MCFiles |-> IF f \in {a1, a2} THEN A ELSE B]
\* A and X have one size, B another.
MCSizeOf   == [c \in {A, B, X} |-> IF c = B THEN 2 ELSE 1]

\* Every file its own derived names.
MCAsideOf    == [f \in MCFiles |-> <<"aside", f>>]
MCCloneTmpOf == [f \in MCFiles |-> <<"clone", f>>]
MCSafeNameOf == [f \in MCFiles |-> <<"safe", f>>]
MCEntries == MCFiles \union Range(MCAsideOf) \union Range(MCCloneTmpOf)
                     \union Range(MCSafeNameOf)

SharedEntries == MCFiles \union {<<"aside", a1>>, <<"aside", a2>>}
                         \union Range(MCCloneTmpOf) \union Range(MCSafeNameOf)

\* a1 and b1 differ only in their extension, and so do a2 and b2.
SharedAsideOf == [f \in MCFiles |-> <<"aside", IF f \in {a1, b1} THEN a1 ELSE a2>>]

MCGroups  == << <<a1, a2>>, <<b1, b2>> >>
GuardedGroups == << <<a1, alias, a2>>, <<balias1, balias2>>, <<a2>> >>

NoPlaceholder  == [f \in MCFiles |-> "none"]
OnePlaceholder == [f \in MCFiles |-> IF f = a2 THEN "recall" ELSE "none"]

Invoke(as, ss, ds) ==
  [action : as, strategy : ss, dryRun : ds, allowSystem : {FALSE}, allowDeduped : {FALSE}]

AnyInvocation   == Invoke(Actions, {"first", "byTime"}, {FALSE})
GuardedInvocations ==
  [action : Actions, strategy : {"byRank", "inReference", "interactive"}, dryRun : BOOLEAN,
   allowSystem : BOOLEAN, allowDeduped : {FALSE}]

Symmetric == Permutations(MCInodes)
=============================================================================
