----------------------------- MODULE DeployGraph -----------------------------
(***************************************************************************)
(* One `ctg` command at a time that works on the whole graph of contracts  *)
(* of a network: deploy, wire, upgrade, invoke, regression. Each asks for  *)
(* consent on mainnet, deploys in DeployOrder's order with constructor     *)
(* arguments resolved from the artifacts file, runs the post-deploy hooks, *)
(* and makes the frontend's env file and bindings follow.                  *)
(*                                                                         *)
(* Meanwhile other processes redeploy contracts and rebuild wasm, and a    *)
(* test network is reset. The steps of deployContract and its lock are     *)
(* those of Deployments; here they are an attempt and a record.            *)
(***************************************************************************)
EXTENDS DeployOrder, FiniteSets

CONSTANTS Commands,    \* bound: the command lines given, by configuration
          MaxCommands, \* bound: how many, by configuration
          MaxFaults    \* bound: what others do meanwhile, by configuration

VARIABLES wasm,  \* the version of each contract's wasm as last built
          inst,  \* the instances on chain: [name, hash, args]
          gone,  \* those a network reset has wiped out
          art,   \* the artifacts file: the [id, hash] of each, id 0 if none
          env,   \* the contracts whose recorded id the env file has
          bound, \* those whose bindings are of the recorded instance
          cmd,   \* the command in progress
          run,   \* its local state
          budget \* what the bounds have left: [commands, faults]

world == <<wasm, inst, gone, budget>>
files == <<art, env, bound>>
vars == <<orderVars, world, files, cmd, run>>

Kind == {"deploy", "wire", "upgrade", "invoke", "smoke", "regression"}
Command == [kind : Kind, force : BOOLEAN, ifChanged : BOOLEAN, verify : BOOLEAN,
            allowDev : BOOLEAN, target : Name \cup {None}]

(* What the command line's parser lets through. *)
Parses(c) == /\ c.kind # "deploy" => ~c.force /\ ~c.verify /\ ~c.allowDev
             /\ c.kind = "regression" => c.ifChanged
             /\ c.ifChanged => c.kind \in {"deploy", "upgrade", "regression"}
             /\ (c.target # None) <=> (c.kind \in {"upgrade", "invoke"})

(* A post-deploy hook of the configuration. *)
HookLine == [on : AnyName, refs : SUBSET AnyName, literal : BOOLEAN,
             kind : {"invoke", "read"}, expect : STRING]

ASSUME GraphAssumption ==
  /\ Commands \in [Config -> SUBSET {c \in Command : Parses(c)}]
  /\ MaxCommands \in [Config -> Nat]
  /\ MaxFaults \in [Config -> Nat]
  /\ \A c \in Config : c.postDeploy \in Seq(HookLine) /\ c.postDeployRead \in Seq(HookLine)

NoCommand == [kind |-> "none", force |-> FALSE, ifChanged |-> FALSE,
              verify |-> FALSE, allowDev |-> FALSE, target |-> None]

IdOf(n) == art[n].id
Ids == [n \in Name |-> IdOf(n)]
NoIds == [n \in Name |-> 0]

Hooks == config.postDeploy \o [i \in 1..Len(config.postDeployRead) |->
                                 [config.postDeployRead[i] EXCEPT !.kind = "read"]]

(* Before a command. at: the next step; rest: contracts left to deploy; check:
   dependencies left to verify; snap: ids read; hashed: the hash taken; got: the
   instance deployed or upgraded; done: contracts deployed; hook: next hook or
   smoke read; tries: failed attempts; todo: bindings being generated; missed:
   those that failed. The others are history: sent counts what the current step has submitted; landed,
   the hooks executed; lapsed, the steps that failed or were skipped and did not
   end the command; disturbed, rebuilt and reset, what happened meanwhile. *)
NoRun == [at |-> "idle", rest |-> <<>>, check |-> <<>>, snap |-> NoIds,
          hashed |-> 0, got |-> 0, done |-> {}, hook |-> 1, tries |-> 0,
          todo |-> {}, missed |-> {}, consented |-> FALSE, sent |-> 0, landed |-> {},
          lapsed |-> {}, disturbed |-> FALSE, rebuilt |-> FALSE, reset |-> FALSE]

Init == /\ OrderInit
        /\ wasm = [n \in Name |-> 1]
        /\ inst = <<>>
        /\ gone = {}
        /\ art = [n \in Name |-> [id |-> 0, hash |-> 0]]
        /\ env = {}
        /\ bound = {}
        /\ cmd = NoCommand
        /\ run = NoRun
        /\ budget = [commands |-> MaxCommands[config], faults |-> MaxFaults[config]]

-----------------------------------------------------------------------------
(* Control *)

At(step) == run.at = step

Goto(step) == run' = [run EXCEPT !.at = step]

(* The process ends and its variables with it. A valid configuration is valid
   the next time it is loaded. *)
Exit == /\ cmd' = NoCommand
        /\ run' = NoRun
        /\ phase' = "loaded"
        /\ selected' = None
        /\ deep' = TRUE
        /\ roots' = Name
        /\ stack' = <<>>
        /\ visited' = {}
        /\ order' = <<>>
        /\ error' = None
        /\ UNCHANGED config

(* Node waits for the generators too that the command no longer waits for. *)
Ends == /\ run.at \in {"done", "failed"}
        /\ run.todo = {}
        /\ Exit
        /\ UNCHANGED <<world, files>>

-----------------------------------------------------------------------------
(* The wasm of a contract *)

(* config.layout, of every contract: whether the configured path names the wasm
   target of former compilers, whether CARGO_TARGET_DIR is set, where the compiler
   puts its output, and where files of version 1 were left behind. *)
Migrated == IF config.layout.legacy THEN <<"migrated">> ELSE <<>>

Alternates == (IF config.layout.cargoDir THEN <<"cargo current", "cargo legacy">> ELSE <<>>)
              \o <<"source current", "source legacy">>

(* The first of these places that has a file, if one has. *)
Found(layout, places) ==
  SelectSeq(places, LAMBDA p : p \in layout.left \cup {layout.built})

WasmPaths == Found(config.layout, <<"configured">> \o Migrated \o Alternates)
HasWasm == WasmPaths # <<>>

(* A file that was left behind hides what is built. *)
Shadowed == HasWasm /\ Head(WasmPaths) # config.layout.built

Wasm(n) == IF Shadowed THEN 1 ELSE wasm[n]

(* What `ctg doctor` reports. *)
Drifts(n) == HasWasm /\ IdOf(n) # 0 /\ art[n].hash # Wasm(n)

-----------------------------------------------------------------------------
(* A transaction of the command: n's constructor with ids, as a new instance. *)
Args(n, ids) == [m \in Name |-> IF m \in refs[n] THEN ids[m] ELSE 0]

Instantiate(n, ids) ==
  inst' = Append(inst, [name |-> n, hash |-> Wasm(n), args |-> Args(n, ids)])

-----------------------------------------------------------------------------
(* Consent *)

IsMainnet == config.mainnet

(* Mutant: the network's requireConfirmation decides, also on mainnet. *)
ConfigDecides == config.requireConfirmation = "yes"
                   \/ (IsMainnet /\ config.requireConfirmation # "no")

RequiresConfirmation == IsMainnet \/ config.requireConfirmation = "yes"

FirstStep(kind) == [deploy |-> "guard", wire |-> "wire", upgrade |-> "upload",
                    invoke |-> "invoke", regression |-> "build"][kind]

(* A command line that parses, on a network that is configured; what is
   selected is stated at once and used by the search after the consent. *)
Start == /\ At("idle")
         /\ budget.commands > 0
         /\ budget' = [budget EXCEPT !.commands = @ - 1]
         /\ \E c \in Commands[config], s \in AnyName \cup {None}, d \in BOOLEAN :
              /\ cmd' = c
              /\ c.kind # "deploy" => s = None /\ d
              /\ Select(s, d)
              /\ Goto(IF c.kind = "smoke" THEN "smoke"
                      ELSE IF c.kind = "wire" /\ Hooks = <<>> THEN "done"
                      ELSE "confirm")
         /\ UNCHANGED <<wasm, inst, gone, files>>

(* confirmMainnetOperation: --yes, CAATINGA_ASSUME_YES or the user's answer *)
Confirm == /\ At("confirm")
           /\ run' = [run EXCEPT !.at = FirstStep(cmd.kind),
                                 !.consented = RequiresConfirmation]
           /\ UNCHANGED <<orderVars, world, files, cmd>>

(* regression --skip-deploy submits nothing, and nobody is asked. *)
SkipDeploy == /\ At("confirm")
              /\ cmd.kind = "regression"
              /\ run' = [run EXCEPT !.at = "build", !.lapsed = {"deploy"}]
              /\ UNCHANGED <<orderVars, world, files, cmd>>

(* No terminal to ask at, or the answer is no. *)
Refuse == /\ At("confirm")
          /\ RequiresConfirmation
          /\ Exit
          /\ UNCHANGED <<world, files>>

(* assertProtocolForZkVerifiers and assertZkVerifierDeployAllowed, if they do not
   throw; ZkProject says when the second does. *)
PassGuard == /\ At("guard")
             /\ Goto("order")
             /\ UNCHANGED <<orderVars, world, files, cmd>>

-----------------------------------------------------------------------------
(* Deploying the graph *)

Sort == /\ phase = "load" \/ At("order")
        /\ Search
        /\ UNCHANGED <<world, files, cmd, run>>

Sorted == /\ At("order")
          /\ phase = "resolved"
          /\ run' = [run EXCEPT !.at = "graph", !.rest = order]
          /\ UNCHANGED <<orderVars, world, files, cmd>>

(* Whatever throws before anything is left to do ends the command: a target
   that is not configured, a missing binary, wasm, source or artifact... *)
Fails == /\ run.at \in {"guard", "order", "graph", "verify", "contract", "record", "build",
                        "upload", "upgrade", "upgraded", "invoke", "smoke"}
         /\ Exit
         /\ UNCHANGED <<world, files>>

Current == Head(run.rest)
Continue == [run EXCEPT !.at = "graph", !.rest = Tail(@), !.tries = 0, !.sent = 0]

(* Mutant: what is recorded is skipped unless forced. *)
SkipsUnlessForced(n) == IdOf(n) # 0 /\ ~cmd.force

Skips(n) == IdOf(n) # 0 /\ ~cmd.force /\ ~cmd.ifChanged

Skip == /\ At("graph")
        /\ run.rest # <<>>
        /\ Skips(Current)
        /\ run' = Continue
        /\ UNCHANGED <<orderVars, world, files, cmd>>

(* Mutant (issue 150): the artifacts are read once, before the loop. *)
ReadOnce == IF run.done = {} /\ run.snap = NoIds THEN Ids ELSE run.snap

ReadIds == Ids

(* readArtifacts, in every iteration *)
Iterate == /\ At("graph")
           /\ run.rest # <<>>
           /\ ~Skips(Current)
           /\ run' = [run EXCEPT !.at = "verify", !.snap = ReadIds,
                        !.reset = FALSE,
                        !.check = IF cmd.verify THEN dependsOn[Current] ELSE <<>>]
           /\ UNCHANGED <<orderVars, world, files, cmd>>

(* Mutant: an id in the artifacts is good enough. *)
RecordedExists(id) == id # 0

Exists(id) == id # 0 /\ id \notin gone

(* `stellar contract fetch` of one dependency *)
Verify == /\ At("verify")
          /\ run.check # <<>>
          /\ Exists(run.snap[Head(run.check)])
          /\ run' = [run EXCEPT !.check = Tail(@)]
          /\ UNCHANGED <<orderVars, world, files, cmd>>

Resolvable(some) == \A m \in some : m \in Name /\ run.snap[m] # 0

(* Mutant: the hash in the artifacts, if there is one. *)
OldHash(n) == IF art[n].hash # 0 THEN art[n].hash ELSE Wasm(n)

NewHash(n) == Wasm(n)

(* resolveDeployArgs; then deployContract reads the file again, hashes the
   wasm and may find that there is nothing to do after all. *)
HashWasm == /\ At("verify")
            /\ run.check = <<>>
            /\ Resolvable(refs[Current])
            /\ HasWasm
            /\ LET known == IdOf(Current) # 0 /\ ~cmd.force
                   same == art[Current].hash = Wasm(Current) IN
                 run' = IF known /\ (cmd.ifChanged => same) THEN Continue
                        ELSE [run EXCEPT !.at = "contract", !.rebuilt = FALSE,
                                         !.hashed = NewHash(Current)]
            /\ UNCHANGED <<orderVars, world, files, cmd>>

(* Mutant: mainnet is retried like any network. *)
ThreeAttempts == 3

MaxAttempts == IF IsMainnet THEN 1 ELSE 3

(* Mutant: whatever looks transient is tried again. *)
RetriesForever == TRUE

Retry == run.tries + 1 < MaxAttempts

(* `stellar contract deploy` lands and its id is known, at once or recovered *)
Deploys == /\ At("contract")
           /\ Instantiate(Current, run.snap)
           /\ run' = [run EXCEPT !.at = "record", !.sent = @ + 1, !.got = Len(inst) + 1]
           /\ UNCHANGED <<orderVars, wasm, gone, budget, files, cmd>>

(* ...or lands and nobody knows; what looked transient is tried again. Nothing
   will ever name that instance. *)
DeploysUnseen == /\ At("contract")
                 /\ Retry
                 /\ run' = [run EXCEPT !.tries = @ + 1, !.sent = @ + 1]
                 /\ UNCHANGED <<orderVars, world, files, cmd>>

DeployRetries == /\ At("contract")
                 /\ Retry
                 /\ run' = [run EXCEPT !.tries = @ + 1]
                 /\ UNCHANGED <<orderVars, world, files, cmd>>

(* n's entry is of another instance, or says another hash. *)
Enter(n, id, hash) == /\ art' = [art EXCEPT ![n] = [id |-> id, hash |-> hash]]
                      /\ env' = IF IdOf(n) = id THEN env ELSE env \ {n}
                      /\ bound' = IF IdOf(n) = id THEN bound ELSE bound \ {n}

Record == /\ At("record")
          /\ Enter(Current, run.got, run.hashed)
          /\ run' = [Continue EXCEPT !.done = @ \cup {Current}]
          /\ UNCHANGED <<orderVars, world, cmd>>

(* What follows: hooks and env file only after a full deploy. *)
Deployed ==
  /\ At("graph")
  /\ run.rest = <<>>
  /\ run' = IF cmd.kind = "deploy" /\ selected = None
              THEN [run EXCEPT !.at = "wire"]
              ELSE [run EXCEPT !.at = "generate", !.lapsed = {"wire", "env"}]
  /\ UNCHANGED <<orderVars, world, files, cmd>>

(* --no-wire, --no-sync-env, --no-generate *)
LeaveOut == /\ cmd.kind \in {"deploy", "upgrade"}
            /\ \/ At("wire") /\ run' = [run EXCEPT !.at = "env", !.lapsed = {"wire"}]
               \/ At("env") /\ run' = [run EXCEPT !.at = "generate", !.lapsed = @ \cup {"env"}]
               \/ At("generate") /\ run' = [run EXCEPT !.at = "done", !.lapsed = @ \cup {"bindings"}]
            /\ UNCHANGED <<orderVars, world, files, cmd>>

BuildLeadsTo == IF "deploy" \in run.lapsed THEN "generate" ELSE "order"

(* regression --skip-build, --skip-generate, --skip-smoke *)
SkipStep == /\ cmd.kind = "regression"
            /\ \/ At("build") /\ Goto(BuildLeadsTo)
               \/ At("generate") /\ run' = [run EXCEPT !.at = "smoke", !.lapsed = @ \cup {"bindings"}]
               \/ At("smoke") /\ run.hook = 1 /\ Goto("done")
            /\ UNCHANGED <<orderVars, world, files, cmd>>

-----------------------------------------------------------------------------
(* Post-deploy hooks *)

(* The outputs an expectation accepts, of those it tells apart. *)
Outputs == {"empty", "null", "[]", "list", "word"}
Accepts(e) == [none |-> Outputs, reachable |-> Outputs \ {"empty"},
               isNull |-> {"empty", "null"}, isArray |-> {"[]", "list"},
               minLength1 |-> {"null", "list", "word"}, maxLength0 |-> {"empty", "[]"},
               equals |-> {"word"}, contains |-> {"word"}, matches |-> {"word"},
               jsonEqualsNull |-> {"null"}][e]

(* resolveMethodArgs takes the id of a contract for the alias of an identity and
   asks for its address, in vain; only behind a backslash it stays as it is. *)
ArgsAccepted(hook) == hook.refs # {} => hook.literal

ReadHooks == /\ At("wire")
             /\ run' = [run EXCEPT !.at = "hooks", !.snap = Ids]
             /\ UNCHANGED <<orderVars, world, files, cmd>>

Hook == Hooks[run.hook]
HookDue(kind) == /\ At("hooks")
                 /\ run.hook <= Len(Hooks)
                 /\ Hook.kind = kind
                 /\ Resolvable({Hook.on} \cup Hook.refs)
                 /\ ArgsAccepted(Hook)

NextHook(r) == [r EXCEPT !.hook = @ + 1, !.tries = 0, !.sent = 0]

(* Mutant: a hook that fails is left out. *)
HookFailsQuietly(r) == /\ run' = NextHook(r)
                       /\ UNCHANGED <<orderVars, cmd>>

(* The first failure is the last hook; a deploy warns and goes on. *)
HookFails(r) == IF cmd.kind = "wire" THEN Exit
                ELSE /\ run' = [r EXCEPT !.at = "env", !.lapsed = @ \cup {"wire"},
                                         !.tries = 0, !.sent = 0]
                     /\ UNCHANGED <<orderVars, cmd>>

(* The call is executed by the instance that was recorded. *)
Called == [run EXCEPT !.sent = @ + 1,
                      !.landed = @ \cup {[hook |-> run.hook, on |-> run.snap[Hook.on],
                                          ids |-> {run.snap[m] : m \in Hook.refs}]}]

Callable == run.snap[Hook.on] \notin gone

HookLands == /\ HookDue("invoke")
             /\ Callable
             /\ \E output \in Outputs :
                  IF output \in Accepts(Hook.expect)
                    THEN run' = NextHook(Called) /\ UNCHANGED <<orderVars, cmd>>
                    ELSE HookFails(Called)
             /\ UNCHANGED <<world, files>>

(* Its answer is lost: invokeWithRetry calls it again. *)
HookLandsUnseen == /\ HookDue("invoke")
                   /\ Callable
                   /\ \/ /\ Retry
                         /\ run' = [Called EXCEPT !.tries = @ + 1]
                         /\ UNCHANGED <<orderVars, cmd>>
                      \/ HookFails(Called)
                   /\ UNCHANGED <<world, files>>

HookRetries == /\ HookDue("invoke")
               /\ Retry
               /\ run' = [run EXCEPT !.tries = @ + 1]
               /\ UNCHANGED <<orderVars, world, files, cmd>>

(* A read is simulated, by the instance the file names now. *)
HookReads == /\ HookDue("read")
             /\ Exists(IdOf(Hook.on))
             /\ run' = NextHook(run)
             /\ UNCHANGED <<orderVars, world, files, cmd>>

HookThrows == /\ At("hooks")
              /\ run.hook <= Len(Hooks)
              /\ HookFails(run)
              /\ UNCHANGED <<world, files>>

Wired == /\ At("hooks")
         /\ run.hook > Len(Hooks)
         /\ Goto(IF cmd.kind = "wire" THEN "done" ELSE "env")
         /\ UNCHANGED <<orderVars, world, files, cmd>>

-----------------------------------------------------------------------------
(* The frontend follows *)

(* syncFrontendEnv needs every contract it is configured for. *)
SyncEnv == /\ At("env")
           /\ \A n \in Name : IdOf(n) # 0
           /\ env' = Name
           /\ Goto("generate")
           /\ UNCHANGED <<orderVars, world, art, bound, cmd>>

(* Mutant: a deploy generates what it was asked for. *)
SelectedTargets == IF selected = None THEN Name ELSE {selected}

(* What the deploy has deployed; every recorded contract in a regression. *)
Targets == IF cmd.kind = "upgrade" THEN {cmd.target}
           ELSE IF cmd.kind = "deploy" THEN run.done
           ELSE {n \in Name : IdOf(n) # 0}

(* A regression that finds nothing deployed ends there. *)
GenerateAll == /\ At("generate")
               /\ IF cmd.kind = "regression" /\ Targets = {} THEN Exit
                  ELSE /\ run' = [run EXCEPT !.at = "bindings", !.todo = Targets]
                       /\ UNCHANGED <<orderVars, cmd>>
               /\ UNCHANGED <<world, files>>

Generating == run.at \in {"bindings", "done", "failed"}

(* The generators run side by side; each reads the artifacts for itself, and
   asks the network for the contract. *)
Generate(n) == /\ Generating
               /\ n \in run.todo
               /\ Exists(IdOf(n))
               /\ bound' = bound \cup {n}
               /\ run' = [run EXCEPT !.todo = @ \ {n}]
               /\ UNCHANGED <<orderVars, world, art, env, cmd>>

(* Mutant: a generator that failed never settles. *)
NeverSettles(n) == /\ Generating
                   /\ n \in run.todo
                   /\ run' = [run EXCEPT !.missed = @ \cup {n}]
                   /\ UNCHANGED <<orderVars, world, files, cmd>>

GenerateFails(n) == /\ Generating
                    /\ n \in run.todo
                    /\ run' = [run EXCEPT !.todo = @ \ {n}, !.missed = @ \cup {n}]
                    /\ UNCHANGED <<orderVars, world, files, cmd>>

(* Promise.all: all have generated, or one has failed; then the command reports
   that and is over while the others still write. *)
Generated == /\ At("bindings")
             /\ run.todo = {} \/ run.missed # {}
             /\ Goto(IF cmd.kind # "regression" THEN "done"
                     ELSE IF run.missed # {} THEN "failed" ELSE "smoke")
             /\ UNCHANGED <<orderVars, world, files, cmd>>

-----------------------------------------------------------------------------
(* upgrade, invoke, smoke, and the build of a regression *)

(* buildContract unless --no-build *)
BuildOne == /\ At("upload")
            /\ IdOf(cmd.target) # 0
            /\ run.got = 0
            /\ \/ UNCHANGED wasm
               \/ wasm' = [wasm EXCEPT ![cmd.target] = @ + 1]
            /\ run' = [run EXCEPT !.got = IdOf(cmd.target)]
            /\ UNCHANGED <<orderVars, inst, gone, budget, files, cmd>>

(* `stellar contract upload`, unless the hash is the one recorded *)
Upload == /\ At("upload")
          /\ run.got # 0
          /\ HasWasm
          /\ IF cmd.ifChanged /\ art[cmd.target].hash = Wasm(cmd.target)
               THEN Goto("done")
               ELSE run' = [run EXCEPT !.at = "upgrade", !.hashed = Wasm(cmd.target)]
          /\ UNCHANGED <<orderVars, world, files, cmd>>

Upgraded == [inst EXCEPT ![run.got].hash = run.hashed]

Upgrades == /\ At("upgrade")
            /\ run.got \notin gone
            /\ inst' = Upgraded
            /\ run' = [run EXCEPT !.at = "upgraded", !.sent = @ + 1]
            /\ UNCHANGED <<orderVars, wasm, gone, budget, files, cmd>>

UpgradesUnseen == /\ At("upgrade")
                  /\ run.got \notin gone
                  /\ inst' = Upgraded
                  /\ \/ /\ Retry
                        /\ run' = [run EXCEPT !.tries = @ + 1, !.sent = @ + 1]
                        /\ UNCHANGED <<orderVars, cmd>>
                     \/ Exit
                  /\ UNCHANGED <<wasm, gone, budget, files>>

RecordUpgrade ==
  /\ At("upgraded")
  /\ Enter(cmd.target, run.got, run.hashed)
  /\ run' = [run EXCEPT !.at = "env", !.done = {cmd.target}]
  /\ UNCHANGED <<orderVars, world, cmd>>

(* invokeContract, once, whatever the failure *)
Invoke == /\ At("invoke")
          /\ Exists(IdOf(cmd.target))
          /\ \/ /\ run' = [run EXCEPT !.at = "done", !.sent = @ + 1]
                /\ UNCHANGED <<orderVars, cmd>>
             \/ Exit
          /\ UNCHANGED <<world, files>>

(* pnpm test, then the contracts, some of which have changed *)
Build == /\ At("build")
         /\ \E some \in SUBSET Name :
              wasm' = [n \in Name |-> IF n \in some THEN wasm[n] + 1 ELSE wasm[n]]
         /\ HasWasm
         /\ Goto(BuildLeadsTo)
         /\ UNCHANGED <<orderVars, inst, gone, budget, files, cmd>>

(* smoke.reads, or the hooks that read; nothing expected is "reachable". *)
Reads == config.postDeployRead
SmokeExpects(read) == IF read.expect = "none" THEN "reachable" ELSE read.expect

Smoke == /\ At("smoke")
         /\ run.hook <= Len(Reads)
         /\ Exists(IdOf(Reads[run.hook].on))
         /\ \A m \in Reads[run.hook].refs : m \in Name /\ IdOf(m) # 0
         /\ ArgsAccepted(Reads[run.hook])
         /\ \E output \in Outputs :
              run' = [run EXCEPT !.hook = @ + 1, !.lapsed = @ \cup
                        IF output \in Accepts(SmokeExpects(Reads[run.hook]))
                          THEN {} ELSE {"smoke"}]
         /\ UNCHANGED <<orderVars, world, files, cmd>>

SmokeEnds == /\ At("smoke")
             /\ Reads # <<>>
             /\ run.hook > Len(Reads)
             /\ IF "smoke" \in run.lapsed THEN Exit
                ELSE Goto("done") /\ UNCHANGED <<orderVars, cmd>>
             /\ UNCHANGED <<world, files>>

-----------------------------------------------------------------------------
(* Meanwhile *)

Disturb(r) == /\ budget.faults > 0
              /\ budget' = [budget EXCEPT !.faults = @ - 1]
              /\ run' = IF At("idle") THEN run ELSE r

(* Another process redeploys n. *)
Redeploy(n) == /\ ~At("idle")
               /\ \A m \in refs[n] \cup {n} : m \in Name /\ IdOf(m) # 0
               /\ HasWasm
               /\ Instantiate(n, Ids)
               /\ Enter(n, Len(inst) + 1, Wasm(n))
               /\ Disturb([run EXCEPT !.disturbed = TRUE])
               /\ UNCHANGED <<orderVars, wasm, gone, cmd>>

Rebuild(n) == /\ wasm' = [wasm EXCEPT ![n] = @ + 1]
              /\ Disturb([run EXCEPT !.disturbed = TRUE, !.rebuilt = TRUE])
              /\ UNCHANGED <<orderVars, inst, gone, files, cmd>>

(* A test network starts again from nothing; the artifacts file stays. *)
Reset == /\ ~IsMainnet
         /\ gone # 1..Len(inst)
         /\ gone' = 1..Len(inst)
         /\ Disturb([run EXCEPT !.disturbed = TRUE, !.reset = TRUE])
         /\ UNCHANGED <<orderVars, wasm, inst, files, cmd>>

-----------------------------------------------------------------------------
Step == \/ Confirm \/ SkipDeploy \/ SkipStep \/ PassGuard \/ Sort \/ Sorted \/ Fails \/ Ends
        \/ Skip \/ Iterate \/ Verify \/ HashWasm \/ Deploys \/ DeploysUnseen
        \/ DeployRetries \/ Record \/ Deployed \/ LeaveOut
        \/ ReadHooks \/ HookLands \/ HookLandsUnseen \/ HookRetries \/ HookReads
        \/ HookThrows \/ Wired
        \/ SyncEnv \/ GenerateAll \/ Generated
        \/ \E n \in Name : Generate(n) \/ GenerateFails(n)
        \/ BuildOne \/ Upload \/ Upgrades \/ UpgradesUnseen \/ RecordUpgrade \/ Invoke
        \/ Build \/ Smoke \/ SmokeEnds

Next == \/ Start \/ Refuse \/ Step
        \/ \E n \in Name : Redeploy(n) \/ Rebuild(n)
        \/ Reset

Spec == Init /\ [][Next]_vars

(* The process runs. Nobody has to answer the question of the guardrail. *)
FairSpec == Spec /\ WF_vars(Step)

-----------------------------------------------------------------------------

TypeOK == /\ OrderTypeOK
          /\ wasm \in [Name -> Nat]
          /\ inst \in Seq([name : Name, hash : Nat, args : [Name -> Nat]])
          /\ gone \subseteq 1..Len(inst)
          /\ art \in [Name -> [id : 0..Len(inst), hash : Nat]]
          /\ env \subseteq Name
          /\ bound \subseteq Name
          /\ cmd \in Commands[config] \cup {NoCommand}
          /\ DOMAIN run = DOMAIN NoRun
          /\ run.got \in 0..Len(inst)
          /\ run.hook \in 1..Len(Hooks) + 1
          /\ run.tries \in 0..2

(* The arguments that the graph knows of. *)
Declared(n) == {m \in Name : m \in refs[n] /\ m \in Deps(n)}

(* When a deploy is over, undisturbed, every contract it has deployed was
   constructed with the instances that are recorded of its dependencies: also those
   it has itself replaced on the way (issue 150). A placeholder inside a text may
   name a contract that is no dependency, and follows nothing. *)
ArgsFollow == At("done") /\ ~run.disturbed /\ cmd.kind \in {"deploy", "regression"}
                => \A n \in run.done : \A m \in Declared(n) :
                     inst[IdOf(n)].args[m] = IdOf(m)

(* With --verify-deps no instance is constructed with a declared dependency a reset of
   the network had already wiped out when its contract's turn came, however the
   file got to name it. *)
DepsVerified == At("record") /\ cmd.verify /\ ~run.reset
                  => \A m \in Declared(Current) : inst[run.got].args[m] \notin gone \cup {0}

(* The hash that is recorded is that of the wasm that was deployed, if nothing
   was built between the hash and the record. *)
RecordedHash == At("record") /\ ~run.rebuilt => inst[run.got].hash = run.hashed

(* Hooks run in order, none after one that failed, and when all are through,
   undisturbed, each has called the recorded instance with the recorded ids. *)
InvokeHooks(upto) == {i \in 1..upto : Hooks[i].kind = "invoke"}
WireIsComplete ==
  /\ \A l \in run.landed : \A i \in InvokeHooks(l.hook) :
       \E k \in run.landed : k.hook = i
  /\ run.hook > Len(Hooks) /\ ~run.disturbed /\ cmd.kind \in {"wire", "deploy"} =>
       \A i \in InvokeHooks(Len(Hooks)) :
         [hook |-> i, on |-> IdOf(Hooks[i].on),
          ids |-> {IdOf(m) : m \in Hooks[i].refs}] \in run.landed

(* On mainnet every command asks before the first transaction, whatever
   requireConfirmation says, and submits nothing a second time. *)
MainnetIsGuarded == IsMainnet /\ run.sent > 0 => run.consented /\ run.sent = 1

(* A deploy that was not disturbed leaves no frontend behind: the env file names
   the recorded instances unless that was left out or failed, and the bindings of
   what it has deployed, dependencies included, are of those. A generator that fails
   takes no other with it: as the process ends only its own bindings are missing. *)
FrontendFollows ==
  At("done") /\ ~run.disturbed /\ cmd.kind = "deploy" =>
    /\ "env" \notin run.lapsed => env = Name
    /\ "bindings" \notin run.lapsed => run.done \ run.missed \subseteq bound \cup run.todo

(* A regression that passes undisturbed has brought up to date what it was not
   told to skip, as if it had started from nothing: every contract is recorded and
   none drifts from its wasm, which is the one last built unless a file left behind
   hides it; and the bindings are of instances that exist. *)
RegressionIsCurrent ==
  At("done") /\ ~run.disturbed /\ cmd.kind = "regression" =>
    \A n \in Name :
      /\ "deploy" \notin run.lapsed =>
           /\ IdOf(n) # 0 /\ ~Drifts(n)
           /\ ~Shadowed => art[n].hash = wasm[n]
      /\ "bindings" \notin run.lapsed /\ IdOf(n) # 0 => Exists(IdOf(n)) /\ n \in bound

(* A hook whose placeholders are all recorded gets its arguments. *)
HooksGetTheirIds ==
  At("hooks") /\ run.hook <= Len(Hooks) /\ Resolvable({Hook.on} \cup Hook.refs) =>
    ArgsAccepted(Hook)

(* Every command comes to an end once it does not wait for an answer, whatever
   fails: deploy, wire, upgrade, invoke, smoke and regression, and the generators
   that go on after one of them has failed and was reported. *)
CommandsEnd == run.at \notin {"idle", "confirm"} ~> At("idle")
=============================================================================
