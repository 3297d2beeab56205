------------------------------ MODULE Frontend ------------------------------
(***************************************************************************)
(* What the CLI writes into the frontend, beside the project of Bindings:  *)
(* the env file (`ctg sync-env`, and how `ctg doctor` judges it), the      *)
(* patches of a generated binding package and the `buffer` dependency.     *)
(*                                                                         *)
(* An env file is a sequence of lines: assignments to the two keys mapped  *)
(* from the contract, its id and its wasm hash, and a line of the user's.  *)
(* The three parts share the recorded artifact only; each state space      *)
(* (scene) follows one of them.                                            *)
(***************************************************************************)
EXTENDS Bindings, FiniteSets, Sequences, Naturals

CONSTANTS EnvFiles, \* env files a project may start with
          Emitted   \* defects a generated package may come with

VARIABLES scene,      \* which part is followed: "bindings", "env", "package"
          env,        \* the env file's lines, None if there is no file
          sync,       \* what each syncFrontendEnv has read
          mine,       \* history: the user's line is in the file
          synced,     \* history: what the last undisturbed sync wrote
          defects,    \* what keeps the generated package from working
          step,       \* how many patches each generator has applied
          dependency, \* how the frontend's package.json declares `buffer`
          broken      \* history: a generator failed after the last complete one

envVars == <<env, sync, mine, synced>>
packageVars == <<defects, step, dependency, broken>>
frontendVars == <<vars, scene, envVars, packageVars>>

Managed == {"id", "hash"}
Line == [key : Managed \cup {"mine"}, form : {"plain", "export"}, value : Id \cup Hash \cup {None}]

(* Nothing is assigned before the first deploy; the patches know the defects. *)
ASSUME FrontendAssumption ==
  /\ EnvFiles \subseteq Seq(Line) \cup {None}
  /\ \A file \in EnvFiles \ {None} : \A i \in DOMAIN file : file[i].value = None
  /\ None \notin Seq(Line) /\ None \notin Id
  /\ Emitted \subseteq SUBSET {"dist", "enums", "address", "merging"}

Mine == [key |-> "mine", form |-> "plain", value |-> None]

(* Two keys share a line's name in neither file nor merge. *)
Distinct(file) == \A i, j \in DOMAIN file : file[i].key = file[j].key => i = j

Idle == [at |-> "idle", artifact |-> None, file |-> None]

FrontendInit == /\ Init
                /\ scene \in {"bindings", "env", "package"}
                /\ env \in IF scene = "env" THEN EnvFiles ELSE {None}
                /\ sync = [p \in Proc |-> Idle]
                /\ mine = FALSE
                /\ synced = None
                /\ defects = {"polyfill", "index"}
                /\ step = [p \in Proc |-> 0]
                /\ dependency \in IF scene = "package"
                     THEN {"none", "compatible", "incompatible", "protocol", "unlocated"}
                     ELSE {"none"}
                /\ broken = FALSE

-----------------------------------------------------------------------------
(* sync-env *)

Syncing == {p \in Proc : sync[p].at # "idle"}

(* computeFrontendEnvEntries: what the keys are mapped to *)
Entry(a, key) == [key |-> key, form |-> "plain", value |-> a[key]]

(* Mutant: the file is written anew. *)
Overwritten(file, a) == <<Entry(a, "id"), Entry(a, "hash")>>

(* mergeEnvContents: the first assignment to a key is rewritten and keeps its
   `export`, a key without one is appended, other lines stay. *)
Merged(file, a) ==
  LET lines == IF file = None THEN <<>> ELSE file
      first(i) == \A j \in 1..(i - 1) : lines[j].key # lines[i].key
      kept == [i \in DOMAIN lines |->
                IF lines[i].key \in Managed /\ first(i)
                  THEN [lines[i] EXCEPT !.value = a[lines[i].key]] ELSE lines[i]]
      missing(key) == IF \E i \in DOMAIN lines : lines[i].key = key
                        THEN <<>> ELSE <<Entry(a, key)>>
  IN  kept \o missing("id") \o missing("hash")

(* readArtifacts; without an artifact the command throws. *)
SyncReads(p) == /\ sync[p].at = "idle"
                /\ recorded # None
                /\ sync' = [sync EXCEPT ![p] = [Idle EXCEPT !.at = "file", !.artifact = recorded]]
                /\ UNCHANGED <<vars, scene, env, mine, synced, packageVars>>

SyncReadsFile(p) == /\ sync[p].at = "file"
                    /\ sync' = [sync EXCEPT ![p].at = "write", ![p].file = env]
                    /\ UNCHANGED <<vars, scene, env, mine, synced, packageVars>>

(* writeFile. Whoever else read the file will undo this without knowing. *)
SyncWrites(p) == /\ sync[p].at = "write"
                 /\ env' = Merged(sync[p].file, sync[p].artifact)
                 /\ mine' = (mine /\ sync[p].file = env)
                 /\ synced' = IF sync[p].file = env THEN sync[p].artifact ELSE None
                 /\ sync' = [sync EXCEPT ![p] = Idle]
                 /\ UNCHANGED <<vars, scene, packageVars>>

(* The process dies, writing or before: writeFile has truncated the file. *)
SyncDies(p) == /\ sync[p].at \in {"file", "write"}
               /\ \/ UNCHANGED <<env, mine, synced>>
                  \/ /\ sync[p].at = "write"
                     /\ LET file == Merged(sync[p].file, sync[p].artifact)
                        IN  \E n \in 0..(Len(file) - 1) : env' = SubSeq(file, 1, n)
                     /\ mine' = FALSE
                     /\ synced' = None
               /\ sync' = [sync EXCEPT ![p] = Idle]
               /\ UNCHANGED <<vars, scene, packageVars>>

(* The user adds a line of theirs, once. *)
Edit == /\ scene = "env"
        /\ env # None
        /\ \A i \in DOMAIN env : env[i].key # "mine"
        /\ env' = Append(env, Mine)
        /\ mine' = TRUE
        /\ UNCHANGED <<vars, scene, sync, synced, packageVars>>

(* What dotenv, or a shell that sources the file, gives the app *)
Effective(key) ==
  LET at_(i) == env[i].key = key
  IN  IF \E i \in DOMAIN env : at_(i)
        THEN env[CHOOSE i \in DOMAIN env : at_(i) /\ \A j \in DOMAIN env : at_(j) => j =< i].value
        ELSE None

(* parseEnvFile, for which `export KEY` is another key *)
Parsed(key) ==
  LET at_(i) == env[i].key = key /\ env[i].form = "plain"
  IN  IF \E i \in DOMAIN env : at_(i)
        THEN env[CHOOSE i \in DOMAIN env : at_(i) /\ \A j \in DOMAIN env : at_(j) => j =< i].value
        ELSE None

(* evaluateEnvDrift *)
InSync == recorded # None /\ env # None /\ \A key \in Managed : Parsed(key) = recorded[key]

-----------------------------------------------------------------------------
(* The generated package *)

(* What Generate leaves of the defects; the polyfill, the root index and the
   frontend's package.json are in files the generator does not write. A root
   index is missing ("index") or cut off in the middle ("cut"). *)
Overwrite(emitted) == (defects \cap {"polyfill", "index", "cut"}) \cup emitted \cup {"import"}

(* patchGeneratedBindingPackage and ensureBufferDependency, in their order *)
Patches == <<"dist", "polyfill", "index", "enums", "address", "merging", "buffer">>

(* Mutant: with the polyfill in place nothing is left to do. *)
PatchedOnce(patch) ==
  IF patch = "polyfill" THEN IF "polyfill" \in defects THEN defects \ {"polyfill", "import"}
                                                       ELSE defects
                        ELSE defects \ {patch}

(* ensureBufferPolyfill writes the polyfill and imports it; the others remove
   the defect that bears their name, if it is there. ensureRootBindingIndex
   leaves an index.ts alone that exists, whatever it says. *)
Patched(patch) == defects \ IF patch = "polyfill" THEN {"polyfill", "import"} ELSE {patch}

(* ensureBufferDependency: only a range that does not meet its own is replaced,
   and nothing in a package.json that cannot be parsed. *)
Declared == IF dependency \in {"none", "incompatible"} THEN "compatible" ELSE dependency

Patch(p) == /\ at[p] = "patch"
            /\ step[p] < Len(Patches)
            /\ step' = [step EXCEPT ![p] = @ + 1]
            /\ defects' = Patched(Patches[step[p] + 1])
            /\ dependency' = IF Patches[step[p] + 1] = "buffer" THEN Declared ELSE dependency
            /\ UNCHANGED <<vars, scene, envVars, broken>>

(* A process that dies at its next patch leaves the patch undone, or the files it
   was writing in the middle of it. Those the next generate does not write anew
   are the root index and the frontend's package.json. *)
PatchDies(p) ==
  LET patch == Patches[step[p] + 1]
      writes == patch = "index" /\ "index" \in defects
      declares == patch = "buffer" /\ Declared # dependency
  IN  /\ step[p] < Len(Patches)
      /\ defects' \in {defects, defects \ (IF patch = "polyfill" THEN {"polyfill"} ELSE {})}
                       \cup (IF writes THEN {(defects \ {"index"}) \cup {"cut"}} ELSE {})
      /\ dependency' \in {dependency} \cup (IF declares THEN {"cut"} ELSE {})

(* A generator's step of Bindings, and what it means for the package. *)
GeneratorSteps(p) ==
  \/ /\ Read(p)
     /\ scene = "package" => \A q \in Proc : ~Running(q)
     /\ UNCHANGED packageVars
  \/ /\ Generate(p)
     /\ \E emitted \in Emitted : defects' = Overwrite(emitted)
     /\ step' = [step EXCEPT ![p] = 0]
     /\ UNCHANGED <<dependency, broken>>
  \/ /\ GenerateFails(p)
     /\ defects' \in {defects} \cup {Overwrite(emitted) : emitted \in Emitted}
     /\ broken' = TRUE
     /\ UNCHANGED <<step, dependency>>
  \/ /\ PatchFails(p)
     /\ broken' = TRUE
     /\ PatchDies(p) \/ UNCHANGED <<defects, dependency>>
     /\ UNCHANGED step
  \/ /\ WriteMarker(p)
     /\ step[p] = Len(Patches)
     /\ broken' = FALSE
     /\ UNCHANGED <<defects, step, dependency>>
  \/ /\ WriteMarkerFails(p)
     /\ step[p] = Len(Patches)
     /\ broken' = TRUE
     /\ UNCHANGED <<defects, step, dependency>>

(* The scene without patches: they are one step with the marker. *)
GeneratorAtOnce(p) ==
  /\ \/ Read(p) \/ ReadElsewhere(p) \/ Generate(p) \/ GenerateFails(p) \/ PatchFails(p)
     \/ WriteMarker(p) \/ WriteMarkerFails(p)
  /\ UNCHANGED packageVars

(* Bounds: what a package is generated from is deployed once, and beside an env
   file the contract has two states on chain. *)
ProjectMoves == /\ scene = "package" => recorded = None
                /\ scene = "env" => Cardinality(ran') =< 2

FrontendNext ==
  \/ /\ Deploy \/ UpgradeLands \/ RecordUpgrade \/ Rollback
     /\ ProjectMoves
     /\ UNCHANGED <<scene, envVars, packageVars>>
  \/ /\ scene = "env"
     /\ \/ Edit
        \/ \E p \in Proc : SyncReads(p) \/ SyncReadsFile(p) \/ SyncWrites(p) \/ SyncDies(p)
  \/ /\ scene = "package"
     /\ \E p \in Proc : \/ Patch(p)
                        \/ GeneratorSteps(p) /\ UNCHANGED <<scene, envVars>>
  \/ /\ scene = "bindings"
     /\ \E p \in Proc : GeneratorAtOnce(p)
     /\ UNCHANGED <<scene, envVars>>

FrontendSpec == FrontendInit /\ [][FrontendNext]_frontendVars

-----------------------------------------------------------------------------

(* The app is never configured with the id of one instance and a hash that ran
   only on another, whatever syncs overlap, die or meet a redeploy. *)
EnvOfOneArtifact ==
  env # None /\ Distinct(env)
    => \/ \A key \in Managed : Effective(key) = None
       \/ \E a \in ran : \A key \in Managed : Effective(key) \in {None, a[key]}

(* doctor says "in sync" of nothing the app does not get. *)
ReportIsTrue == InSync /\ Distinct(env)
                  => \A key \in Managed : Effective(key) = recorded[key]

(* The user's line outlives every sync that read it and was not killed. *)
UserLinesStay == mine => \E i \in DOMAIN env : env[i].key = "mine"

(* Until the project changes, a sync ends the drift, as doctor's advice has it -
   of a file without `export` and duplicates. *)
SyncEndsDrift ==
  synced # None /\ synced = recorded /\ Distinct(env) /\ (\A i \in DOMAIN env : env[i].form = "plain")
    => InSync

(* What sync-env writes can be relied on, however syncs, deploys and edits
   interleave: values of one artifact, a report that is true, the user's lines,
   and an end to the drift. *)
EnvIsTrue == EnvOfOneArtifact /\ ReportIsTrue /\ UserLinesStay /\ SyncEndsDrift

(* Once a generate has returned, and until one fails, the package works in a
   browser: every patch is in place although each generate overwrites some of
   the files and not others, and the frontend declares the dependency. Only a
   root index or a package.json that a kill has cut off in the middle of its
   writeFile stays what it is, however many generates succeed. *)
GeneratedIsUsable ==
  scene = "package" /\ marker # None /\ ~broken /\ (\A p \in Proc : ~Running(p))
    => defects \subseteq {"cut"} /\ dependency \in {"compatible", "protocol", "unlocated", "cut"}
=============================================================================
