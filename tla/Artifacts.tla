----------------------------- MODULE Artifacts -----------------------------
(***************************************************************************)
(* caatinga.artifacts.json and the pure functions that rewrite it:         *)
(* core/src/artifacts/update-artifact.ts and migrate-artifacts.ts.         *)
(*                                                                         *)
(* A Name is a contract on a network (networks[n].contracts[c]). Of an     *)
(* artifact the model keeps what decides which deployment is meant: its    *)
(* contractId, its wasmHash and its history. An optional field that is     *)
(* absent is None.                                                         *)
(***************************************************************************)
EXTENDS Naturals, Sequences

CONSTANTS Name, Id, Hash, None

Reason == {"upgrade", "rollback", "force-redeploy"}
UpgradeType == {"in-place", "new-contract"}

HistoryEntry == [id : Id, hash : Hash, reason : Reason, type : UpgradeType \cup {None}]

Artifact == [id : Id, hash : Hash, history : Seq(HistoryEntry) \cup {None}]

File == [version : {1, 2}, entry : [Name -> Artifact \cup {None}]]

ASSUME NoneAssumption ==
    None \notin Name \cup Id \cup Hash \cup Reason \cup UpgradeType
                 \cup Seq(HistoryEntry) \cup Artifact \cup File

(* existing.history ?? [] *)
Past(artifact) == IF artifact.history = None THEN <<>> ELSE artifact.history

Superseded(artifact, reason, type) ==
    [id |-> artifact.id, hash |-> artifact.hash, reason |-> reason, type |-> type]

(* Mutant: a new entry replaces the history. *)
AppendHistoryOverwrites(existing, reason, type) ==
    IF existing = None THEN None
    ELSE IF reason = None THEN existing.history
    ELSE <<Superseded(existing, reason, type)>>

AppendHistory(existing, reason, type) ==
    IF existing = None THEN None
    ELSE IF reason = None THEN existing.history
    ELSE Append(Past(existing), Superseded(existing, reason, type))

UpdateArtifact(file, name, artifact, reason, type) ==
    LET history == AppendHistory(file.entry[name], reason, type)
    IN  [version |-> IF file.version = 1 /\ reason # None THEN 2 ELSE file.version,
         entry |-> [file.entry EXCEPT ![name] =
                      [id |-> artifact.id,
                       hash |-> artifact.hash,
                       history |-> IF history # None THEN history ELSE artifact.history]]]

(* The entries of the history that are deployments of id. *)
Matches(artifact, id) == {i \in DOMAIN Past(artifact) : Past(artifact)[i].id = id}

(* Neither ARTIFACT_NOT_FOUND nor ROLLBACK_TARGET_NOT_FOUND. *)
CanRestore(file, name, id) ==
    /\ file.entry[name] # None
    /\ file.entry[name].id = id \/ Matches(file.entry[name], id) # {}

RestoreArtifactFromHistory(file, name, id) ==
    LET current == file.entry[name]
        first == CHOOSE i \in Matches(current, id) : \A j \in Matches(current, id) : i <= j
        restored == [id |-> Past(current)[first].id,
                     hash |-> Past(current)[first].hash,
                     history |-> Append(Past(current), Superseded(current, "rollback", None))]
    IN  IF current.id = id
          THEN file
          ELSE [UpdateArtifact(file, name, restored, None, None) EXCEPT !.version = 2]

MigrateArtifactsToV2(file) == [file EXCEPT !.version = 2]

-----------------------------------------------------------------------------
(* What the file knows of a contract. *)

Active(file, name) == IF file.entry[name] = None THEN None ELSE file.entry[name].id

HistoryIds(file, name) ==
    IF file.entry[name] = None THEN {}
    ELSE {Past(file.entry[name])[i].id : i \in DOMAIN Past(file.entry[name])}

(* Every deployment the file still names, active or superseded. *)
Known(file, name) == HistoryIds(file, name) \cup ({Active(file, name)} \ {None})
=============================================================================
