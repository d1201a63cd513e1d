----------------------------- MODULE Exclusions ------------------------------
(***************************************************************************)
(* Which files a scan leaves out by the user's rules: the policy compiled   *)
(* from the settings or from the command line when a scan starts, and what  *)
(* it says of a path (src/src/exclusions).  A path is the sequence of its   *)
(* names.  The presets' lists are cut down to a rule of each kind, and of   *)
(* the packs to two that are on by default and two that are not.            *)
(***************************************************************************)
EXTENDS Naturals, Sequences, FiniteSets, Functions

(***************************************************************************)
(* Patterns.  Those of the presets and the examples of the settings have    *)
(* one of two forms, "**/a/b/**" and "/a/b/**"; a malformed one does not    *)
(* compile.  Both want something under the directory.                       *)
(***************************************************************************)
Inside(names) == [form |-> "inside", names |-> names]
Under(names) == [form |-> "under", names |-> names]
Malformed == [form |-> "malformed", names |-> <<>>]

Matches(pattern, path) ==
  LET n == Len(pattern.names)
      from(k) == k + n < Len(path) /\ SubSeq(path, k + 1, k + n) = pattern.names
  IN  IF pattern.form = "under" THEN from(0) ELSE \E k \in 0..Len(path) : from(k)

AnyMatches(patterns, path) == \E p \in patterns : Matches(p, path)

(***************************************************************************)
(* The packs, and a user's configuration of them.                           *)
(***************************************************************************)
BuiltinPresets ==
  [SystemLibraries |-> [extensions |-> {"dll"}, paths |-> {}],
   VcsInternals    |-> [extensions |-> {}, paths |-> {Inside(<<".git", "objects">>)}],
   BuildArtefacts  |-> [extensions |-> {}, paths |-> {Inside(<<"build">>)}],
   BrowserCaches   |-> [extensions |-> {}, paths |-> {Inside(<<"cache2">>)}]]

PresetPackIds == DOMAIN BuiltinPresets

SAFE_DEFAULTS == {"SystemLibraries", "VcsInternals"}

ExclusionConfig(enabled, packs, patterns, extensions) ==
  [enabled |-> enabled, active_packs |-> packs, custom_patterns |-> patterns,
   custom_extensions |-> extensions]

DefaultConfig == ExclusionConfig(TRUE, SAFE_DEFAULTS, {}, {})

(***************************************************************************)
(* The policy of a scan.                                                    *)
(***************************************************************************)
Disabled == [enabled |-> FALSE, paths |-> {}, extensions |-> {}]

Compiles(config) == config.enabled => Malformed \notin config.custom_patterns

compile(config) ==
  IF ~config.enabled THEN Disabled
  ELSE LET packs == Range(Restrict(BuiltinPresets, config.active_packs))
       IN  [enabled    |-> TRUE,
            paths      |-> UNION {p.paths : p \in packs} \cup config.custom_patterns,
            extensions |-> UNION {p.extensions : p \in packs} \cup config.custom_extensions]

\* Rules that do not compile leave the window's scan without any, the presets included.
PolicyOfSettings(config) == IF Compiles(config) THEN compile(config) ELSE Disabled

\* The command line starts from the defaults, takes packs away, then adds some, and has
\* no rules of the user's own.
PolicyOfFlags(on, disable, enable) ==
  IF ~on THEN Disabled
  ELSE compile([DefaultConfig EXCEPT !.active_packs = (@ \ disable) \cup enable])

\* evaluate, under the extensions of the names that have one.
Excluded(policy, extension, path) ==
  LET name == path[Len(path)]
  IN  /\ policy.enabled
      /\ \/ AnyMatches(policy.paths, path)
         \/ name \in DOMAIN extension /\ extension[name] \in policy.extensions
=============================================================================
