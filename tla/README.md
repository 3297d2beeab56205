# Caatinga in TLA+

Caatinga (`src/`) is a toolkit for Soroban smart contracts: a CLI (`ctg`) that
builds, deploys and upgrades contracts and keeps what it did in
`caatinga.artifacts.json`, a browser client that signs and submits invocations
through a wallet, and a zero-knowledge toolchain. These modules model the parts
of it in which several processes, promises or failures meet. TLC checks them on
small instances; TLAPS proves the results listed below for every instance.

Source paths below are relative to `src/packages/`.

## Inventory

| Component | State | Operations | Interacts with | What is hard | What makes it correct |
|---|---|---|---|---|---|
| Artifacts lock, `core/src/artifacts/artifacts-lock.ts` | the file `caatinga.artifacts.json.lock` (owner PID and time), each process's deadline and last owner read | acquire (exclusive create, read owner, probe, reclaim by rename, retry), release | every deploy and upgrade | processes die anywhere, PIDs are reused, unlink and rename fail, the check of an owner and the rename are apart | mutual exclusion; a dead owner's lock is reclaimed; every call ends |
| Artifacts file, `core/src/artifacts/` | per network and contract: contractId, wasmHash, history; a schema version | update, restore from history, migrate, validate and write by rename | deploy, upgrade, rollback, migrate, bindings, post-deploy, client environment | concurrent read-modify-write, long sequences of updates | names only what is on chain; never forgets an instance |
| Deploy and upgrade, `core/src/contracts/deploy-contract.ts`, `upgrade-contract.ts`, `upload-wasm.ts`, `core/src/stellar-cli/recover-deploy-contract-id.ts` | locals read from the file before the transaction, attempt counter | deploy (plain, `--if-changed`, `--force`, `--upgrade`), upgrade, retries, recovery of a landed deploy | Stellar CLI, Horizon, the lock, the file | the transaction and its record are apart; transactions land unseen; the wasm changes under way | every instance accounted for; the recorded hash is the running one |
| Deploy graph, `core/src/contracts/resolve-deploy-order.ts`, `deploy-contract-graph.ts`, `verify-dependency-contract.ts`, `wasm.ts` | visit marks and call stack; the contracts left; ids read | order by dependencies, skip, verify, resolve arguments and wasm, deploy | deploy, hooks, frontend | cycles, missing dependencies, ids that change on the way, a failure in the middle | dependencies come first; arguments are what is recorded |
| Post-deploy hooks, `core/src/contracts/run-post-deploy.ts` | next hook, attempts | invoke or read after a deploy, expect, retry | deploy, artifacts | one step of several fails, an answer is lost | in order, none after a failure, on the recorded instances |
| Smoke tests and invocations, `core/src/contracts/run-smoke.ts`, `invoke-contract.ts` | next read | invoke once, read, expect | artifacts, Stellar CLI | a network that was reset | a regression that passes is up to date |
| Bindings, `core/src/bindings/`, `core/src/contracts/generate-bindings.ts` | generated package and marker file | generate, patch, mark, check freshness | artifacts, deploy | a crash between the code and its marker, two generators at once, networks that share a directory, files a generate does not overwrite | "fresh" only for code of the recorded contract; all patches in place |
| Frontend environment, `core/src/frontend/` | the env file, the frontend's `package.json` | sync, report drift, declare `buffer` | artifacts, bindings, the user's editor | no lock; export lines and duplicates; a write cut off | values of one artifact, a true report, the user's lines kept |
| Wallet session, `client/src/wallet/wallet-session.ts` | connection state, address, stored wallet id | connect, disconnect, restore, with timeouts | wallet adapter, React provider, client | late promises after a disconnect or a newer connect | the state shown is that of the last call |
| Client invoke, `client/src/client/`, `client/src/xdr/` | stage, source account, signer, transaction | invoke, restore, read, buildXdr | wallet, generated binding, RPC | timeouts, prompts answered late, lost answers, a wallet that moves or cannot tell its network | a definite outcome or an explicit unknown |
| ZK tools, `zk/src/install/` | cache directory | ensure circom, snarkjs, powers of tau | builds | concurrent downloads and installations, partial files | a tool in use is complete and verified |
| ZK build, ceremony, proofs, `zk/src/build/`, `zk/src/ceremony/`, `zk/src/prove/`, `zk/src/invoke/` | build outputs, keys, manifest, proof and its record | build, import, verify, prove, status, invoke | tools, deploy | files written one by one without a lock; a manifest that says how keys were made | audited keys stay; mainnet gets no others |
| Identity import, `cli/src/commands/identity.command.ts` | the Stellar config directory, staged copies, backups | import, export | Stellar CLI | a failure between backup and install, a failure of the undoing, a kill | all files or none; no key lost |
| CLI, configuration, templates | none that outlives a command | parse, load, ask for consent, scaffold, print | all of the above | what is asked before what | on mainnet nothing without consent |

## Modules

| Module | What it is |
|---|---|
| `ArtifactsMutex` | What `withArtifactsLock` promises: one holder, who leaves by returning or dying. |
| `ArtifactsLock` | The lockfile protocol, await by await, and its properties. |
| `Artifacts` | The file and the pure functions that rewrite it. |
| `Registry` | What the file is for: the active instance of every contract, and every instance that ever was active. |
| `Deployments` | The commands `deploy`, `upgrade`, `rollback`, `migrate` of several processes, the chain, the working tree and the file. Uses `Artifacts`, the lock at its promise `ArtifactsMutex`, and is related to `Registry`. |
| `DeployOrder` | The depth-first search `resolveDeployOrder`, call by call, and the validation of the configuration. |
| `DeployGraph` | One command at a time on the whole graph: consent, order, deploy, hooks, env file, bindings, upgrade, smoke, regression. Extends `DeployOrder`. |
| `ZkCeremony` | The artifacts directory of a circuit and the commands that work in it side by side. |
| `ZkTools` | The shared cache of tools. |
| `ZkProject` | `DeployGraph`, `ZkCeremony` and `ZkTools` composed: the guard that a deploy of the verifier has to pass. |
| `Bindings` | Generated bindings, their marker and their freshness, while the contract changes. |
| `Frontend` | The env file and the patches of a generated package. Extends `Bindings`. |
| `Identity` | The import of identities into the Stellar config directory. |
| `WalletSession` | The client's wallet session in a page. |
| `Client` | The page's invocations and reads, beside that session. Extends `WalletSession`. |
| `ArtifactsLockProofs`, `DeployOrderProofs`, `DeployGraphProofs`, `IdentityProofs` | Theorems about the module each is named after. |
| `DeploymentsProofs`, `BindingsProofs`, `ClientProofs` | Theorems about `Artifacts` and `Deployments`, `Bindings` and `Frontend`, `WalletSession` and `Client`. |
| `ZkProofs` | Theorems about `ZkProject` and what it composes. |
| `MCArtifactsLock`, `MCDeployments`, `MCDeployGraph`, `MCBindings`, `MCClient` | Instances for TLC. |

### The lock

A process is named by its PID. Every `await` of `acquireLock`,
`reclaimStaleLock` and `withArtifactsLock` ends a step, so any other process may
run, time may pass and the process may die in between. `lock` is the file at the
lock path with who created it, whether `writeFile` has put the owner in it, and
the owner's `since`. `Restart` gives a dead process's PID to a new process;
`IoErrors` lets `open`, `writeFile`, `rename` and `unlink` fail. The file
`.stale-<pid>` that a rename produces is never read and is not modelled.
Two history variables serve the properties: `stolen` records that a rename took
the lockfile of a process that was creating it or inside its section, `behind`
the dead process's lockfile a call found when it began.

### The commands

`file` is the artifacts file, `chain` what hash each instance runs, `built` the
wasm in the working tree, `run` the locals of each command. A contract on a
network is one `Name`. The steps follow the code: snapshot, build (upgrade
only), hash and skip, transaction with its retries, lock, read again, write,
unlock. A transaction may take effect although its command sees a failure
(`DeployLandsUnseen`, `InvokeLandsUnseen`): the CLI timeout, a lost answer, a
recovery that finds nothing. `rollback` and `migrate` read and write without the
lock, as the code does. Abstracted: metadata, timestamps, paths, constructor
arguments, the dependency graph and `upgradeStrategy` stored with an artifact,
none of which decides what these commands do.

### The deploy graph

`DeployOrder` keeps the JavaScript call stack of `visit`: a frame is a contract and
the index of its next dependency, `visited` and the names on the stack are the
code's marks. The search runs over all of the configuration when it is loaded
and over the selected contracts when a command deploys. `refs` are the contracts
that the constructor arguments name, `whole` those named by an argument that is
nothing but a placeholder: only these are looked at when the configuration is
loaded (`parseContractIdPlaceholder` is anchored), while all are resolved. The configuration is a
variable that never changes, so one run covers many graphs.

`DeployGraph` follows one command from its first step to its last: `cmd` is the
command line, `run` its locals, `art`, `env` and `bound` what it leaves on disk,
`inst` the instances on chain with the arguments of their constructors. The steps
of `deployContract` and the lock are those of `Deployments`, here shortened to an
attempt and a record. Wasm files have versions; `WasmPaths` is
`resolveWasmArtifactPath` over the places where a file may be. A hook's output is
one of the outputs that the matchers of `verify-expect.ts` tell apart. Meanwhile
other processes redeploy and rebuild, and a test network is reset. History in
`run`: `sent` counts what the current step has submitted, `landed` the hooks that
were executed, `disturbed`, `rebuilt` and `reset` what happened meanwhile,
`lapsed` the steps that failed or were left out without ending the command, by
warning or by a regression's `--skip-*` option. The generators of a graph run side
by side: `todo` are those still at work, `missed` those that failed; after the first
failure the command may report it, and end, while others still write, and the
process exits when they are through.

### Zero knowledge

In `ZkCeremony` a key is who made it (a development setup, a ceremony, somebody
who swapped a file), for which version of the circuit, and a number; its digest is
itself. `dir` is the artifacts directory and the contract's `vk.rs`, `zp` the
commands in progress; each writes one file per step, and the manifest in two, for
`writeFile` truncates it first (`OpenManifest`) and a truncated one reads as none.
`Edit` changes the circuit or the input, `Swap` puts another key in the place of
one, `ZkStops` is a failure or a kill at any step. `Admits` is `assertDevCeremonyAllowed`, which both
`ctg zk invoke` and the deploy of the verifier call, with and without
`--allow-dev-ceremony`; in `ZkProject` a deploy on mainnet passes its guard only if
`Admits` holds. History of a command: `late`, something has been written since it
began; `pinned`, that was by an import or a verification. History of a manifest:
`raced` and `shaken`, somebody wrote while it was imported, while it was verified.

`ZkTools` has the three tools in the cache, the executable bit of circom, and
commands that are killed half-way.
The look into the cache and the first write are steps of their own, so two commands
may both find snarkjs or the powers of tau missing and make them side by side, in
the same files; what comes of that is good or bad.

### The bindings and the frontend

`recorded` and `past` are the contract's entry in the artifacts file, `chain` what
its instances run; `Deploy`, `UpgradeLands`, `RecordUpgrade` and `Rollback` change
them as the commands do (`Deployments` has the commands themselves). `code` says
from which artifacts the files in the output directory come, `marker` what the
marker says. A generator reads the artifact, overwrites the code, patches it and
writes the marker; every one of these steps may be its last. `Freshness` is
`evaluateBindingFreshness`. All networks share the directory: the module follows
one of them, and lets generators run for the contract of another (`ReadElsewhere`)
whose instances and hashes may be anything. History variables tell what the code
takes no measures against: `returned` (a rollback, or an upgrade to a former wasm;
for it, `ran`), `overlapped` (two generators at once), `strayed` (files of another
network that are not under its marker).

`Frontend` adds the patches one by one, each named for the defect it removes,
with `Overwrite` for what a generate brings back and `PatchDies` for a process that
is killed at a patch, or in the `writeFile` of a file that later generates keep
(`"cut"`); and the env file as a sequence of lines, with `Merged` for `mergeEnvContents`, `Parsed` for what doctor reads and
`Effective` for what the app gets. The three share the recorded artifact only, so
each state space follows one of them (`scene`).

### Identities

`Identity` is `mergeStagedFiles` rename by rename: `keys.file` is what is at each
place of the config directory, `keys.temp` the staged copies, `keys.bak` the
backups. Any step may throw, the undoing goes backwards over the replacements,
what fails in it is swallowed (`hurt`), and `Killed` may end an import anywhere.
The checks of an archive's paths are one step that passes or refuses.

### The wallet session and the client

One page with several calls in flight. A call is two steps, up to its await and
after it; `requestPublicKey` may be answered, rejected or time out. An adapter is
`rich` (modal, `setWallet`, `getWalletId`) or minimal. `LateAnswer` is the answer
of a modal whose connect has timed out. `Reload` is a new page with the old
storage. `blamed` records what makes the screen and the storage differ: calls
that overlap, a late answer, a storage that throws.

`Client` adds invocations. Each has a stage (`at`), the account it is built for
(`source`), who signed (`signer`), its transaction and the result it reports. A
page is configured once: with or without a wallet, with a binding that asks for a
signature, signs by itself, only sends, does neither, or is a template's
placeholder. The RPC and the ledger are external: `Accepted`, `Refused`, `Lands`,
`Poll`. `prompt` is a request the wallet still shows after its timeout,
`LateSignature` its answer. The wallet may tell its network or not
(`NetworkAnswered`, `NetworkUnknown`): if it throws or yields nothing the code lets
the invocation go on, and `unsure` remembers that, as it does when the wallet
changes its network afterwards. An operation's error is the code the user sees.

## What is checked

| Run | Instance | Shows |
|---|---|---|
| `lock_faults` | 3 processes, 2 deaths, PID reuse, I/O errors, clock 0..2 | `SafeUnlessStolen`, `SafeWithoutDeaths`, and `PromiseKept`: each step implements `ArtifactsMutex` until the first steal |
| `lock_liveness` | 3 processes, 2 deaths, fairness | `CallEnds`, `RereadFileIsStale`, `RecordedLockReclaimed` |
| `lock_loser` | 3 processes, 1 death | a divergence: see below |
| `commands` | all commands, 2 processes, 2 contracts, 4 instances, 3 commands, faults | `RegisteredIsOnChain` |
| `redeploys` | superseding commands, 2 processes, 3 commands, 2 attempts, a build at any moment, faults | `EveryInstanceAccounted`, `ImplementsRegistry`, `UpdatesSerialized` |
| `quiet` | 1 process, 4 commands, 3 builds, no faults | `RegisteredHashIsOnChain` |
| `deploy_graph` | every graph of 2 contracts; a project with hooks, worked on with every command; ceremonies; tools | Order: `DependenciesPrecede`, `SearchIsExact`. Deploy: `ArgsFollow`, `DepsVerified`, `RecordedHash`, `MainnetIsGuarded`, `CommandsEnd`. After it: `WireIsComplete`, `FrontendFollows`, `RegressionIsCurrent`. Ceremony: `ImportedStays`, `VerifiedKeysMatch`, `UpToDateVerifies`, `AdmittedIsAudited`. Tools: `ToolsAreWhole` |
| `bindings` | 2 generators or 2 syncs, 2 instances and 1 on another network, 2 hashes, failures and deaths; or 1 or 2 imports of 2 files | `FreshIsTrue`, `EnvIsTrue`, `GeneratedIsUsable`, `ImportIsAtomic` |
| `wallet_session` | 8 pages: 3 session calls and 2 wallets, or a session call beside an invocation, or invocations with every kind of binding; fairness | `Settled`, `StoredIsShown`, `ConnectingEnds`, `OutcomeIsTrue`, `AskedOnAppNetwork`, `SignedByShown`, `InvocationsEnd` |
| `rollback_history`, `first_deploys`, `hook_ids` | smallest instances | divergences: see below |

Bounds. Three processes are what the residual race of the lock needs: one that
died, one that reclaims, one that locks anew. Two deaths allow a death during a
reclaim. `MaxNow` 2 with `Timeout` 1 lets a call time out and another start
after it. Two processes and three commands let one command see the results of
two others; four instances are more than three commands and the initial
deployment can use up, except through retries. Two contracts and an unknown name
make every kind of graph: a chain, both orders of a list, a cycle of one and of
two, a dangling dependency. A second command is given where it finds what the
first has left: a redeploy with others at work, a layout in which the compiler's
output has moved. Two `zk` commands at a time, two edits and two versions of the
circuit are a build, an import, a verification or a proof with another one across
it. Two instances and two hashes give `bindings` every kind of change: a redeploy,
a return to either. Two files, one in a directory that may be missing, let
an import fail between them and undo both. Three session calls in flight are a
connect, a disconnect and a restore. Every property has a mutant of
the code under which its run fails, so none of them holds for lack of cases.

`CHECK_DEADLOCK FALSE`, in all runs but `wallet_session`, whose pages can always
call again: processes may die for good, commands, imports and time are bounded,
and a project in which nobody runs a command stands still.

Symmetry is used where the specification has no fairness and no `CHOOSE` over
the permuted sets decides a step.

Fairness. `lock_liveness` assumes that the event loop of a live process goes on
(weak fairness of its `acquireLock` and `reclaimStaleLock` steps) and that the
clock advances. Nothing is assumed of the section itself: a holder may stay
inside for ever, or die. `deploy_graph` assumes that the process of a command
goes on (weak fairness of its steps taken together; it has no await that is not
answered, for the Stellar CLI runs under a timeout), and nothing of the `zk`
commands or of the others. `wallet_session` assumes that a timeout is configured,
that the browser runs its timers and that the RPC's requests end; of the wallet
nothing: it may never answer.

Some properties are stated up to a point at which the code stops protecting them.

- `FreshIsTrue`: after a generator died between code and marker, a rollback makes
  the old marker match again over the new code; two overlapping generators can end
  with the code of one and the marker of the other; and a generator for another network that
  overwrites files and does not come to its marker leaves its code under the
  marker of this one.
- `GeneratedIsUsable`: a root `index.ts` that a kill left truncated is kept by every
  later generate (`patch-generated-binding-package.ts:229`), and a truncated
  `package.json` of the frontend is not repaired either.
- `ArgsFollow`, `DepsVerified`, `SearchIsExact`: a placeholder inside a longer text
  may name a contract outside `dependsOn`. It is resolved, but neither refused,
  nor ordered, nor verified.
- `FrontendFollows`: after the first failed generator the command's report does not
  wait for the others; their bindings are there when the process is over.
- `AskedOnAppNetwork`: a wallet that throws or yields no network when it is asked is
  not checked (`caatinga-contract-client.ts:230`), and the network is checked once.
- `ImportedStays`: an import or a verification truncates the manifest before it writes
  it, and a build that reads it then, or finds one truncated by a kill, takes it
  that there is none and sets up development keys over the imported ones.
- `VerifiedKeysMatch`: a verification stamps the manifest it has read, whatever was
  put in the place of the keys meanwhile.
- `StoredIsShown`: of overlapping calls the last one to end decides, so a failed
  restore clears what a connect has just stored, and a connect answered after a
  disconnect undoes it.
- `EnvIsTrue`: for a file with `export` lines or duplicate keys a sync does not
  end the drift that doctor reports.
- `OutcomeIsTrue`: a binding that signs by itself is reported as not signed after
  its transaction was submitted (`caatinga-contract-client.ts:133`).
- `AdmittedIsAudited`: without a manifest anything passes (`dev-ceremony.ts:92`),
  also keys of a build that was killed before it wrote one, and a manifest that a
  kill has truncated; an import that another command disturbed pins what it finds;
  and only the contract
  that is named is guarded, not one deployed as a dependency, by a regression or
  by an upgrade (`zk-guardrails.ts:24`).
- `RegressionIsCurrent`: a wasm left at an earlier place hides what the compiler
  writes elsewhere (`wasm.ts:145`), and the regression passes with the old one.
- `ToolsAreWhole`: an npm or powers-of-tau installation that is killed half-way
  stays in the cache as if it were complete, and so does what two of them, begun
  together, have left in the same files.
- `ImportIsAtomic`: two imports that overlap and both fail can remove a key that
  was there before either.
- Everything in `DeployGraph` that holds of an undisturbed command: others may
  redeploy what it has just deployed.

### Disagreements between the code and its documentation

Shown by a run:

- `lock_loser`: the comment above `reclaimStaleLock` says that of two processes
  that see the same stale lock one gets ENOENT. If the winner locks anew before
  the loser's rename, the loser moves the winner's live lock.
- `rollback_history`: `docs/deploy-upgrade-spec.md` promises that a rollback
  appends the superseded instance to the history; `updateArtifact` keeps the old
  history and the entry is dropped.
- `first_deploys`: the changelog says concurrent runs no longer drop each
  other's `contractId`; whether an artifact is superseded with a reason is
  decided from the snapshot taken before the deploy, so of two first deploys the
  second forgets the first.
- `hook_ids`: `docs/cli.md` says that hooks call a deployed contract with the ids
  of others; `resolveMethodArgs` takes a contract id for the alias of an identity
  and refuses it.

Met while modelling, and not the subject of a run:

- `ctg smoke` without `--source` resolves the default it documents for display
  only (`smoke.command.ts:26`) and passes `undefined` on, which `runSmokeReads`
  refuses.
- `import-ceremony.ts:52` says the hash tells whether the circuit being built is
  the one the ceremony ran against; the key is compared with the compiled circuit
  by the number of its public signals.
- `docs/cli.md:69` and doctor's advice to run `sync-env`: `parseEnvFile` takes
  `export KEY` for another key.
- `deploy --if-changed` skips a contract whose wasm is the same although one it
  was constructed with has been replaced (`deploy-contract-graph.ts:62`).
- `docs/cheatsheet.md:152` says of `fresh` that the bindings match the deployed
  contract. `evaluateBindingFreshness` does not compare the marker's network, so a
  `generate` for another network that fails behind the generator leaves that
  network's code under a marker that is called fresh.
- `build-circuit.ts:120` says a build must not overwrite an imported key with a
  development one. `readCeremonyManifest` returns `null` for a manifest that is being
  written or was truncated, and the build then does.
- `docs/for-llms.md:128` and `:208` say that every `${contracts.*.contractId}` in
  `deployArgs` must be listed in `dependsOn`; `validateContractGraph` looks only at
  values that are nothing but the placeholder, and `resolvePlaceholders` resolves them
  anywhere in a text.
- `docs/deploy-upgrade-spec.md:66` says that `deploy --if-changed` records the
  replaced instance in the history; `deployContract` gives no reason without
  `--force` (`deploy-contract.ts:235`), and without one nothing is appended.
- A circom download killed between checksum and chmod stays cached without the
  executable bit (`lazy-install-zk-tools.ts:62`).

The cause of `first_deploys` (`existing` is the snapshot) keeps `deploy --if-changed`,
which gives no reason, and `rollback` and `migrate`, which take no lock, out of
`UpdatesSerialized` and `ImplementsRegistry`: the run `redeploys` and the
theorems below are about the other commands.

## What is proved

Every invariant and every action property of a passing run is a theorem; what is
left to TLC alone is liveness. The theorems are about every set of processes,
contracts, instances, hashes and configurations. Constants are only assumed to be
what the named assumptions of their modules say: that `None` is no value of
another kind, that configured lists are sequences (`GraphAssumption`), that an
archive has files, each at one place (`IdentityAssumption`), that an env file
starts with values of no artifact (`FrontendAssumption`), that a bundle to import
holds keys of a ceremony and that a `zk` command works in a directory that is new
or was left by a build or an import (`ZkAssumption`, `ProjectAssumption`). Where a
theorem needs more it says so in its statement: no PID reuse, no I/O errors, no
rollback, and the like, as the runs set it.

- `ArtifactsLockProofs`. `TypeCorrect`. `MutexUnlessStolen`: the inductive
  invariant says that whoever is inside or about to write its owner is the one
  whose file is at the lock path, unless a steal has happened; two such
  processes would have created the same file. `MutexWithoutDeaths`: while nobody
  has died nobody sees a dead owner, so nobody reaches `rename`, so nothing is
  stolen. `KeepsPromise` and `KeepsPromiseUnlessStolen`: the process inside is
  the holder of `ArtifactsMutex`; entering needs an empty holder, which the
  invariant gives. This is what justifies that `Deployments` uses the promise.
  `RereadTakesFromTheDead`, without PID reuse: who is about to rename has probed an
  owner that was dead, and the dead stay dead; so the re-read is the right check and
  lacks only atomicity. With PID reuse it fails: a new process of the same PID may
  lock in the same millisecond. `RecordedLocksAreReclaimed`, without PID reuse and
  disk errors: `Chases` says that as long as the file a call has found is at the
  lock path, the call is between `open` and `rename` with that file as its owner,
  and nobody can put the file of a dead process back; so the call is never at
  `retry`, where it would give up.
- `DeploymentsProofs`. First lemmas on `Artifacts`: the functions return valid
  files, an update activates its instance and changes no other contract, an update
  with a reason forgets nothing; no update makes more known than its own instance,
  and a rollback or a migration makes nothing known that was not.
  `TypeCorrect`, by `RunOK`: which locals are set at which
  step. `LockedUpdatesSerialized`: who is past `Reread` is the holder and has
  the file as it is. `IsRegistry` and `NoInstanceLost`, for deployed projects
  and the commands that give a reason: with serialised writes each write adds
  its instance to what is known; an instance is created into the hands of a
  command or dropped, and a command gives it up only by recording or dropping it.
  `FileIsBacked`, for all commands and faults, in a new project and in a deployed
  one: `Backed` says of the file, of what each command has read of it and of what
  each command has created and not yet recorded that it is on chain and of one
  contract, since a rollback may write what it read long before.
  `QuietFileTellsHash`, under `Sequential` (one process, no faults, no build by hand
  between the steps of a command, no rollback): `Told` says that every entry has the
  hash its instance runs, but for the contract whose upgrade has run and is not yet
  recorded, and that what a command has still to record is what the chain runs. That
  an upgrade or a deploy changes the hash of no other entry is `Backed`.
- `DeployOrderProofs`. `OrderTypeCorrect` and `DependenciesComeFirst`, for every
  finite or infinite configuration, with cycles and unknown names. The invariant
  describes the stack of calls: its names are not yet placed and differ, each
  frame but the innermost is waiting for the dependency its next frame visits,
  and of a frame's dependencies those before its index are placed. Lemmas on the
  scope of a search, for the commands: the load of a configuration visits all of
  it, so one that loads has no contract that depends on itself (`LoadedIsLoopless`),
  and with `--no-deps` nothing but the selected contract is ever in the order.
  `SearchIsRight`: a configuration is refused exactly if it is not `Well`, which is
  stated by the least closed sets of contracts (`Reached`). Each call of `visit` was
  made for a dependency of its caller (`Waiting`), so a name that is met again on the
  stack depends on itself; and of a circle of placed contracts one would have the
  least place in the order (`Least`), with its dependency before it. What is
  placed is reached (`Confined`), and what was asked for is placed with all its
  dependencies, so it is all that is reached (`Covered`).
- `DeployGraphProofs`. `GraphTypeCorrect`. `MainnetAsksOnce`: `Guarded` says which
  steps lie behind the answer and at which nothing has been sent; mainnet has one
  attempt, so no step that retries is enabled after it has sent.
  `HashIsRecorded`, `DependenciesVerified` and `OrderHolds`: `AttemptInv` carries the
  search's invariant through the commands and says at each step of an attempt what
  has been checked of the contract in turn. `DependenciesVerified` is about the
  arguments that are declared dependencies, for only these are looked up on the
  network. `SearchStaysRight` carries `SearchIsRight` along.
  `ArgumentsFollow`: `FollowInv` says that what is left is the end of the order and
  that what is done lies before it, so, dependencies coming first, no instance
  already deployed names the contract that is about to be recorded (`Later`); with
  `--no-deps` there is no other, and no contract names itself. Nothing that was
  deployed is therefore made stale by a later record, and the contract in turn was
  constructed with the ids of the file as it is, which is where issue 150 was.
  `HooksRunInOrder`: every invoke hook before the one in turn has landed, and on what
  is recorded while nobody disturbs (`WireInv`); a retry lands the same hook again.
  `FrontendStaysTrue` and `RegressionLeavesNoDrift`: `KindInv` tells from where a
  command is which command it is; from the env file on, what has not lapsed is done or
  is being done (`FrontInv`); a regression leaves every contract that had its turn
  with the hash of its wasm, and its order is all contracts, by `SearchStaysRight`
  (`CurrentInv`).
- `BindingsProofs`. `TypeCorrect`, `FreshnessCorrect`: while nothing returns or
  overlaps, a marker that says what is recorded was written by a generator that
  read it after it was recorded, and so did everyone who has touched the files
  since; what is recorded anew is no artifact any marker or generator knows.
  `FrontendIsBindings`: `Frontend` takes only steps of `Bindings`, so these theorems
  hold in it. `EnvStaysTrue`: the first line of each key in the env file is of one
  artifact that has run (`EnvInv`, `Holds`); lemmas say what `Merged` keeps of a file
  line by line. `GeneratedStaysUsable`: what the patches so far have removed is not
  brought back before the next generate (`PatchedSoFar`).
- `IdentityProofs`. `ImportStaysAtomic`: the invariant has one part for what is in an
  import's hands whatever others do (`Owns`), one for what the directory is to an
  import that no other overlaps, stage by stage of replacing, undoing and cleaning
  (`Sole`), and one that overlapping imports leave each place filled when all succeed
  (`Filled`). `IdentityTypeCorrect`.
- `ClientProofs`. Of the session, `TypeCorrect`; `AlwaysSettles`: who says
  "connecting" has a connect or a restore at work; `ShownIsStored`: without overlap
  every call ends on a state that the storage agrees with, and a restore in flight
  has selected what is stored.
  `SessionInPage`: a page that also calls contracts behaves, seen
  from its session, as `WalletSession` does, so the theorems above hold in it.
  `ReportsAreTrue`, `PromptsOnAppNetwork`, `SignersAreShown`: the invariant
  `ClientInv` gives for each stage what the transaction, the signer and the
  network may be (`Good`), and that a page which shows an account has that account
  selected (`Vouched`), which is what the session's invariant is needed for.
- `ZkProofs`. `ProjectIsGraph` and `ProjectKeepsGraph`: in the composed project the
  commands of the graph take only steps of `DeployGraph`, so everything proved of it
  holds there. `ToolsStayWhole`: what a command has found in the cache stays there,
  and what is not whole is being installed, was cut short or was made
  by two (`Fetched`, `Partial`, `Lonely`).
  `VerifiedKeysAreOfEachOther`, `BuildLeavesImportedKeys`, `StatusIsTrue`,
  `MainnetIsAudited`: `Trusted` says that a manifest that nobody raced pins audited
  keys wherever a copy of it is kept, on disk or in a command's locals; `Peaceful`,
  what a command may rely on as long as nobody has written since it began; `Unpinned`,
  that a build at its setup beside an imported manifest was overtaken by an import
  or a verification; `Recorded`, what a record says of its proof. `ProjectTypeCorrect`.

Only model-checked: the liveness properties `CallEnds`, `CommandsEnd`,
`ConnectingEnds` and `InvocationsEnd`, whose fairness needs `ENABLED`, which the
prover does not reach. The four properties of the runs that expect a violation are
refuted by TLC and have no theorem.

## Plan

Done: the lock and the file, the commands and their registry, the bindings, the
wallet session, the deploy graph with its hooks, the client's invocations, the
zero-knowledge directory and tools, the env file, the import of identities; and a
theorem for every safety and action property.

Next:

1. The refinement of `DeployGraph`'s record step to `Deployments`.
2. Variants for the liveness properties: that the steps which fairness drives
   decrease a measure can be stated and proved as an action property.

## Not modelled

- Argument parsing, output and formatting, and the commands that only read and
  print (`doctor` beyond its drift, `status`, `inspect`, `estimate`, `version`):
  no state of theirs outlives a command.
- The schema of the configuration and the resolution of networks and identities:
  pure functions of a file.
- Templates and scaffolding: one process copies files into a new directory.
- The hooks of React, the lazy loading of wallet kits, the Vite plugin.
- The Stellar CLI, snarkjs, circom, Horizon, the RPC, wallets and the ledger are
  modelled only by what the code can observe of them.
