---------------------------- MODULE Deployments ----------------------------
(***************************************************************************)
(* Caatinga commands of one project running side by side: deploy, upgrade, *)
(* rollback and migrate, the chain they change and the artifacts file in   *)
(* which they record what they did                                         *)
(* (core/src/contracts/deploy-contract.ts, upgrade-contract.ts,            *)
(* upload-wasm.ts, core/src/artifacts/rollback-artifact.ts and             *)
(* migrate-artifacts-file.ts).                                             *)
(*                                                                         *)
(* A step boundary is an await that lets another process change what the   *)
(* command reads. withArtifactsLock is taken at its promise, the module    *)
(* ArtifactsMutex; ArtifactsLock shows when it is kept. A transaction may  *)
(* take effect without its command learning so.                            *)
(***************************************************************************)
EXTENDS Artifacts

CONSTANTS Proc,        \* the processes that run ctg commands
          Ops,         \* the commands they run
          Deployed,    \* were all contracts deployed before the model starts?
          MaxAttempts, \* 1 + retry delays: 1 on mainnet, 3 elsewhere
          MaxCommands, \* bound on commands
          Faults,      \* do processes die, answers get lost, the lock time out?
          MaxBuilds,   \* bound on builds of a contract
          QuietBuilds  \* are the contracts built only while no command runs?

DeployOps == {"deploy", "deploy-if-changed", "deploy-force", "deploy-upgrade"}
UpgradeOps == {"upgrade", "upgrade-if-changed"}
IfChangedOps == {"deploy-if-changed", "upgrade-if-changed"}
UnlockedOps == {"rollback", "migrate"}
Op == DeployOps \cup UpgradeOps \cup UnlockedOps

ASSUME DeploymentsAssumption == /\ None \notin Proc
                                /\ Ops \subseteq Op
                                /\ MaxAttempts \in Nat \ {0}
                                /\ MaxCommands \in Nat
                                /\ MaxBuilds \in Nat
                                /\ {Deployed, Faults, QuietBuilds} \subseteq BOOLEAN

VARIABLES file,     \* caatinga.artifacts.json
          chain,    \* chain[id]: the wasm hash the instance runs, None if there is none
          built,    \* built[n]: the hash of the wasm file of n in the working tree
          holder,   \* who is inside withArtifactsLock
          pc, run,  \* where each command is, and its locals
          started, builds,
          dropped   \* history: instances whose command ended without recording them

vars == <<file, chain, built, holder, pc, run, started, builds, dropped>>

Mutex == INSTANCE ArtifactsMutex

Step == {"idle", "read", "build", "hash", "submit", "upload", "invoke", "lock", "reread",
         "write", "unlock"}

(* The locals of a command. `existing` is the artifact of the contract in the
   first snapshot, `copy` the file it is about to rewrite. *)
Run == [op : Op \cup {None}, name : Name \cup {None}, target : Id \cup {None},
        existing : Artifact \cup {None}, hash : Hash \cup {None}, id : Id \cup {None},
        tries : Nat, copy : File \cup {None}]

NoRun == [op |-> None, name |-> None, target |-> None, existing |-> None,
          hash |-> None, id |-> None, tries |-> 0, copy |-> None]

Init == /\ \E version \in {1, 2}, at \in [Name -> Id], hash \in [Name -> Hash] :
             /\ \A m, n \in Name : at[m] = at[n] => m = n
             /\ built = hash
             /\ file = [version |-> version,
                        entry |-> [n \in Name |->
                          IF Deployed THEN [id |-> at[n], hash |-> hash[n], history |-> None]
                          ELSE None]]
             /\ chain = [id \in Id |->
                          IF Deployed /\ \E n \in Name : at[n] = id
                            THEN hash[CHOOSE n \in Name : at[n] = id]
                            ELSE None]
        /\ holder = None
        /\ pc = [p \in Proc |-> "idle"]
        /\ run = [p \in Proc |-> NoRun]
        /\ started = 0
        /\ builds = 0
        /\ dropped = {}

Goto(p, from, to) == /\ pc[p] = from
                     /\ pc' = [pc EXCEPT ![p] = to]

(* The command returns or throws. *)
Ends(p) == run' = [run EXCEPT ![p] = NoRun]

(* The command ends, and with it what it knew of an instance it created. *)
Drops(p) == /\ Ends(p)
            /\ dropped' = dropped \cup ({run[p].id} \ {None})

Quiet == \A p \in Proc : pc[p] = "idle"

-----------------------------------------------------------------------------
(* ctg build, or a build by hand: the wasm file changes. *)
Build == /\ builds < MaxBuilds
         /\ QuietBuilds => Quiet
         /\ \E n \in Name, h \in Hash : built' = [built EXCEPT ![n] = h]
         /\ builds' = builds + 1
         /\ UNCHANGED <<file, chain, holder, pc, run, started, dropped>>

Start(p) == /\ Goto(p, "idle", "read")
            /\ started < MaxCommands
            /\ \E op \in Ops, n \in Name :
                 \E target \in IF op = "rollback" THEN Id ELSE {None} :
                   run' = [run EXCEPT ![p] = [NoRun EXCEPT !.op = op, !.name = n, !.target = target]]
            /\ started' = started + 1
            /\ UNCHANGED <<file, chain, built, holder, builds, dropped>>

(* The snapshot before anything is done: `existing` comes from it. A plain
   deploy of a deployed contract is skipped, an upgrade of one that is not
   fails with ARTIFACT_NOT_FOUND. *)
ReadSnapshot(p) ==
    LET op == run[p].op
        existing == file.entry[run[p].name]
        over == \/ op = "deploy" /\ existing # None
                \/ op \in UpgradeOps /\ existing = None
    IN  /\ op \in DeployOps \cup UpgradeOps
        /\ Goto(p, "read", IF over THEN "idle"
                           ELSE IF op \in UpgradeOps THEN "build" ELSE "hash")
        /\ run' = [run EXCEPT ![p] = IF over THEN NoRun ELSE [@ EXCEPT !.existing = existing]]
        /\ UNCHANGED <<file, chain, built, holder, started, builds, dropped>>

(* The build of an upgrade (not with --no-build): the wasm file changes, or it
   was up to date, or the build fails. *)
BuildFirst(p) == /\ Goto(p, "build", "hash")
                 /\ \/ UNCHANGED <<built, builds>>
                    \/ /\ builds < MaxBuilds
                       /\ \E h \in Hash : built' = [built EXCEPT ![run[p].name] = h]
                       /\ builds' = builds + 1
                 /\ UNCHANGED <<file, chain, holder, run, started, dropped>>

BuildFails(p) == /\ Goto(p, "build", "idle")
                 /\ Ends(p)
                 /\ UNCHANGED <<file, chain, built, holder, started, builds, dropped>>

(* hashWasm, and the skip of --if-changed. *)
HashWasm(p) ==
    LET r == run[p]
        skip == r.op \in IfChangedOps /\ r.existing # None /\ r.existing.hash = built[r.name]
    IN  /\ Goto(p, "hash", IF skip THEN "idle"
                           ELSE IF r.op \in UpgradeOps THEN "upload" ELSE "submit")
        /\ run' = [run EXCEPT ![p] = IF skip THEN NoRun ELSE [@ EXCEPT !.hash = built[r.name]]]
        /\ UNCHANGED <<file, chain, built, holder, started, builds, dropped>>

-----------------------------------------------------------------------------
(* deployContract: stellar contract deploy *)

CanRetry(p) == run[p].tries + 1 < MaxAttempts

(* A transient failure is tried again, any other is thrown. *)
TriesAgain(p, step) == /\ CanRetry(p)
                       /\ Goto(p, step, step)
                       /\ run' = [run EXCEPT ![p].tries = @ + 1]

Throws(p, step) == /\ Goto(p, step, "idle")
                   /\ Ends(p)

(* A new instance of the wasm that is in the working tree by now. *)
Instantiate(p, id) == /\ chain[id] = None
                      /\ chain' = [chain EXCEPT ![id] = built[run[p].name]]

(* The CLI prints the contract id, or it is recovered from Horizon. *)
DeployLands(p) == /\ Goto(p, "submit", "lock")
                  /\ \E id \in Id : /\ Instantiate(p, id)
                                    /\ run' = [run EXCEPT ![p].id = id]
                  /\ UNCHANGED <<file, built, holder, started, builds, dropped>>

(* The transaction lands but the CLI reports a failure or runs into its
   timeout, and the recovery finds nothing. *)
DeployLandsUnseen(p) == /\ Faults
                        /\ pc[p] = "submit"
                        /\ \E id \in Id : /\ Instantiate(p, id)
                                          /\ dropped' = dropped \cup {id}
                        /\ TriesAgain(p, "submit") \/ Throws(p, "submit")
                        /\ UNCHANGED <<file, built, holder, started, builds>>

(* Mutant: the contract id of a transaction that failed is taken for deployed. *)
DeployFailsRecovered(p) == /\ Goto(p, "submit", "lock")
                           /\ \E id \in Id : /\ chain[id] = None
                                             /\ run' = [run EXCEPT ![p].id = id]
                           /\ UNCHANGED <<file, chain, built, holder, started, builds, dropped>>

DeployFails(p) == /\ TriesAgain(p, "submit") \/ Throws(p, "submit")
                  /\ UNCHANGED <<file, chain, built, holder, started, builds, dropped>>

-----------------------------------------------------------------------------
(* upgradeContractInPlace: stellar contract upload, stellar contract invoke *)

(* Mutant: the uploaded hash is not found in the output, and not replaced by
   the local one. *)
UploadWasmUnparsed(p) == /\ Goto(p, "upload", "invoke")
                         /\ run' = [run EXCEPT ![p].hash = None]
                         /\ UNCHANGED <<file, chain, built, holder, started, builds, dropped>>

(* uploadWasm hashes the file again and checks the uploaded hash against it. *)
UploadWasm(p) == /\ Goto(p, "upload", "invoke")
                 /\ run' = [run EXCEPT ![p].hash = built[run[p].name]]
                 /\ UNCHANGED <<file, chain, built, holder, started, builds, dropped>>

UploadFails(p) == /\ Throws(p, "upload")
                  /\ UNCHANGED <<file, chain, built, holder, started, builds, dropped>>

(* upgrade(new_wasm_hash) runs on the instance of the snapshot. *)
Replace(p) == chain' = [chain EXCEPT ![run[p].existing.id] = run[p].hash]

InvokeLands(p) == /\ Goto(p, "invoke", "lock")
                  /\ Replace(p)
                  /\ UNCHANGED <<file, built, holder, run, started, builds, dropped>>

InvokeLandsUnseen(p) == /\ Faults
                        /\ pc[p] = "invoke"
                        /\ Replace(p)
                        /\ TriesAgain(p, "invoke") \/ Throws(p, "invoke")
                        /\ UNCHANGED <<file, built, holder, started, builds, dropped>>

InvokeFails(p) == /\ TriesAgain(p, "invoke") \/ Throws(p, "invoke")
                  /\ UNCHANGED <<file, chain, built, holder, started, builds, dropped>>

-----------------------------------------------------------------------------
(* The record of a deploy or an upgrade: withArtifactsLock(read, write) *)

(* Mutant: the file is rewritten without waiting for the lock. *)
EnterUnlocked(p) == /\ Goto(p, "lock", "reread")
                    /\ holder' = p
                    /\ UNCHANGED <<file, chain, built, run, started, builds, dropped>>

EnterLock(p) == /\ Goto(p, "lock", "reread")
                /\ Mutex!Enter(p)
                /\ UNCHANGED <<file, chain, built, run, started, builds, dropped>>

(* ARTIFACTS_LOCK_TIMEOUT *)
LockTimesOut(p) == /\ Faults
                   /\ Goto(p, "lock", "idle")
                   /\ Drops(p)
                   /\ UNCHANGED <<file, chain, built, holder, started, builds>>

Reread(p) == /\ Goto(p, "reread", "write")
             /\ run' = [run EXCEPT ![p].copy = file]
             /\ UNCHANGED <<file, chain, built, holder, started, builds, dropped>>

(* Mutant: only --force supersedes. *)
SupersedeReasonForced(r) == CASE r.op \in UpgradeOps -> "upgrade"
                              [] r.op = "deploy-force" /\ r.existing # None -> "force-redeploy"
                              [] OTHER -> None

(* Why and how the instance in the file is superseded: decided by the
   snapshot's `existing`, not by the file that was read again. *)
SupersedeReason(r) == CASE r.op \in UpgradeOps -> "upgrade"
                        [] r.op = "deploy-upgrade" /\ r.existing # None -> "upgrade"
                        [] r.op = "deploy-force" /\ r.existing # None -> "force-redeploy"
                        [] OTHER -> None

SupersedeType(r) == IF SupersedeReason(r) = None THEN None
                    ELSE IF r.op \in UpgradeOps THEN "in-place" ELSE "new-contract"

(* A deploy records its new instance, an upgrade the one of its snapshot. *)
RecordedId(r) == IF r.op \in UpgradeOps THEN r.existing.id ELSE r.id

(* Mutant: an upgrade keeps the wasm hash of the snapshot. *)
RecordedOldHash(r) ==
    UpdateArtifact(r.copy, r.name,
                   [id |-> RecordedId(r),
                    hash |-> IF r.op \in UpgradeOps THEN r.existing.hash ELSE r.hash,
                    history |-> None],
                   SupersedeReason(r), SupersedeType(r))

Recorded(r) == UpdateArtifact(r.copy, r.name,
                              [id |-> RecordedId(r), hash |-> r.hash, history |-> None],
                              SupersedeReason(r), SupersedeType(r))

WriteRecord(p) == /\ run[p].op \in DeployOps \cup UpgradeOps
                  /\ Goto(p, "write", "unlock")
                  /\ file' = Recorded(run[p])
                  /\ Ends(p)
                  /\ UNCHANGED <<chain, built, holder, started, builds, dropped>>

(* The temporary file cannot be written or renamed: the old file stays. *)
WriteFails(p) == /\ Faults
                 /\ Goto(p, "write", IF holder = p THEN "unlock" ELSE "idle")
                 /\ Drops(p)
                 /\ UNCHANGED <<file, chain, built, holder, started, builds>>

LeaveLock(p) == /\ Goto(p, "unlock", "idle")
                /\ Mutex!Leave(p)
                /\ UNCHANGED <<file, chain, built, run, started, builds, dropped>>

-----------------------------------------------------------------------------
(* rollbackContractArtifact and migrateArtifactsFile: read, then write,
   without the lock *)

ReadUnlocked(p) ==
    LET r == run[p]
        ok == r.op = "migrate" \/ CanRestore(file, r.name, r.target)
    IN  /\ r.op \in UnlockedOps
        /\ Goto(p, "read", IF ok THEN "write" ELSE "idle")
        /\ run' = [run EXCEPT ![p] = IF ok THEN [@ EXCEPT !.copy = file] ELSE NoRun]
        /\ UNCHANGED <<file, chain, built, holder, started, builds, dropped>>

Rollback(p) == /\ run[p].op = "rollback"
               /\ Goto(p, "write", "idle")
               /\ file' = RestoreArtifactFromHistory(run[p].copy, run[p].name, run[p].target)
               /\ Ends(p)
               /\ UNCHANGED <<chain, built, holder, started, builds, dropped>>

Migrate(p) == /\ run[p].op = "migrate"
              /\ Goto(p, "write", "idle")
              /\ file' = MigrateArtifactsToV2(run[p].copy)
              /\ Ends(p)
              /\ UNCHANGED <<chain, built, holder, started, builds, dropped>>

-----------------------------------------------------------------------------
(* The process dies. What it was doing stays half done; its lock is reclaimed. *)
Crash(p) == /\ Faults
            /\ pc[p] # "idle"
            /\ pc' = [pc EXCEPT ![p] = "idle"]
            /\ IF holder = p THEN Mutex!Leave(p) ELSE UNCHANGED holder
            /\ Drops(p)
            /\ UNCHANGED <<file, chain, built, started, builds>>

Deploy(p) == DeployLands(p) \/ DeployLandsUnseen(p) \/ DeployFails(p)

Upgrade(p) == \/ UploadWasm(p) \/ UploadFails(p)
              \/ InvokeLands(p) \/ InvokeLandsUnseen(p) \/ InvokeFails(p)

Record(p) == \/ EnterLock(p) \/ LockTimesOut(p) \/ Reread(p)
             \/ WriteRecord(p) \/ WriteFails(p) \/ LeaveLock(p)

Next == \/ Build
        \/ \E p \in Proc : \/ Start(p) \/ ReadSnapshot(p)
                           \/ BuildFirst(p) \/ BuildFails(p) \/ HashWasm(p)
                           \/ Deploy(p) \/ Upgrade(p) \/ Record(p)
                           \/ ReadUnlocked(p) \/ Rollback(p) \/ Migrate(p)
                           \/ Crash(p)

Spec == Init /\ [][Next]_vars

-----------------------------------------------------------------------------
(* Properties *)

TypeOK == /\ file \in File
          /\ chain \in [Id -> Hash \cup {None}]
          /\ built \in [Name -> Hash]
          /\ holder \in Proc \cup {None}
          /\ pc \in [Proc -> Step]
          /\ run \in [Proc -> Run]
          /\ started \in Nat
          /\ builds \in Nat
          /\ dropped \subseteq Id

(* Whatever fails, dies or overtakes whatever: the file names only instances
   that are on the chain, and none of them under two contracts. *)
RegisteredIsOnChain ==
    /\ \A n \in Name : \A id \in Known(file, n) : chain[id] # None
    /\ \A m, n \in Name : m # n => Known(file, m) \cap Known(file, n) = {}

(* No instance is lost without a reason: it is in the file, active or in the
   history, or in the hands of a running command, or its own command died,
   never learnt of it or could not record it. Holds of the commands that
   supersede under the lock and with a reason (--force, --upgrade, upgrade). *)
EveryInstanceAccounted ==
    \A id \in Id : chain[id] # None =>
      \/ \E n \in Name : id \in Known(file, n)
      \/ \E p \in Proc : run[p].id = id
      \/ id \in dropped

Writes(p) == WriteRecord(p) \/ Rollback(p) \/ Migrate(p)

(* CHANGELOG of @caatinga/core: "Artifact updates are now serialized with a
   lockfile and re-read inside the lock." What a write replaces is the file
   it was computed from. *)
UpdatesSerialized == [][\A p \in Proc : Writes(p) => run[p].copy = file]_vars

(* While no command runs the file says which wasm each active instance runs
   (docs/artifacts-spec.md: "The SHA-256 hash of the compiled WASM binary
   deployed for this contract"). *)
RegisteredHashIsOnChain ==
    Quiet => \A n \in Name : file.entry[n] # None =>
               chain[file.entry[n].id] = file.entry[n].hash

(* The file is the registry it is documented to be: what was active stays
   known. *)
ActiveIds == [n \in Name |-> Active(file, n)]
KnownIds == [n \in Name |-> Known(file, n)]
Reg == INSTANCE Registry WITH active <- ActiveIds, known <- KnownIds
ImplementsRegistry == Reg!Spec

(* docs/deploy-upgrade-spec.md, Rollback: "Appends the superseded active
   instance to the history". *)
RollbackKeepsSuperseded ==
    [][\A p \in Proc : Rollback(p) =>
         Active(run[p].copy, run[p].name) \in Known(file', run[p].name)]_vars

(* CHANGELOG of @caatinga/core: "Concurrent ctg deploy/ctg upgrade runs no
   longer drop each other's contractId." *)
ConcurrentRunsKeepIds ==
    [][\A p \in Proc : WriteRecord(p) =>
         Known(file, run[p].name) \subseteq Known(file', run[p].name)]_vars
=============================================================================
