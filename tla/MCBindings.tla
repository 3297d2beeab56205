----------------------------- MODULE MCBindings -----------------------------
(* Small instances of Bindings and Frontend for TLC, and of Identity, which
   shares nothing with them: a behaviour is of the project or of the imports. *)
EXTENDS Frontend, Identity, TLC

Symmetry == Permutations(Proc) \cup Permutations(Id) \cup Permutations(Hash)

Key(key, form) == [key |-> key, form |-> form, value |-> None]

(* No file, the user's alone, a template's with empty keys, one that exports,
   one with a key twice. *)
MCEnvFiles == {None, <<Mine>>, <<Key("id", "plain"), Key("hash", "plain")>>,
               <<Key("hash", "export"), Mine>>,
               <<Key("id", "plain"), Key("id", "plain")>>}

(* An archive of two files, one in a directory, and what its import finds. *)
MCFiles == <<"config", "key">>
Home(kind, config, key, imports) ==
  [dir |-> kind, file |-> [f \in Place |-> IF f = "config" THEN config ELSE key],
   imports |-> imports]
Homes == {Home("directory", "mine", "mine", {"u1"}),
          Home("missing", "mine", "missing", {"u1"}),
          Home("directory", "missing", "directory", {"u1"}),
          Home("file", "link", "missing", {"u1"}),
          Home("directory", "mine", "missing", {"u1", "u2"})}
NoImport == Home("missing", "missing", "missing", {})

Imports == DOMAIN ip # {}

(* Bound: once generators have overlapped or something has returned, for good,
   FreshIsTrue says no more. *)
Followed == scene = "bindings" => ~overlapped /\ ~returned

MCInit == /\ FrontendInit
          /\ \E home \in Homes \cup {NoImport} : IdentityInit(home)
          /\ Imports => scene = "bindings"
MCNext == \/ ~Imports /\ Followed /\ FrontendNext /\ UNCHANGED identityVars
          \/ IdentityNext /\ UNCHANGED frontendVars
MCSpec == MCInit /\ [][MCNext]_<<frontendVars, identityVars>>

MCEmitted == {{}, {"dist", "enums", "address", "merging"}}
=============================================================================
