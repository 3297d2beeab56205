------------------------------ MODULE Bindings ------------------------------
(***************************************************************************)
(* Generated bindings of one contract and the marker beside them that says *)
(* what they were generated from (core/src/bindings/,                      *)
(* core/src/contracts/generate-bindings.ts), while the contract is         *)
(* deployed, upgraded and rolled back.                                     *)
(*                                                                         *)
(* An artifact is an instance and the hash recorded for it. `code` is the  *)
(* set of artifacts whose generated files are in the output directory: one *)
(* after a complete `generate --overwrite`, several after one that was     *)
(* killed half way. Regenerating the same artifact gives the same files.   *)
(*                                                                         *)
(* The output directory is the same for every network. The module follows  *)
(* one network, any one: its entry, its history, its freshness. Of another *)
(* it knows only that its contract is generated into the directory too.    *)
(***************************************************************************)
CONSTANTS Proc,    \* processes that run `ctg generate`
          Id,      \* contract instances on the network that is followed
          Foreign, \* instances on others: an id is derived from its network
          Hash,    \* wasm hashes
          None     \* no artifact, no marker, no hash

(* What an artifact records and a marker repeats. *)
Artifact == [id : Id, hash : Hash]

Elsewhere == [id : Foreign, hash : Hash]

ASSUME BindingsAssumption == /\ None \notin Artifact \cup Elsewhere
                             /\ None \notin Hash
                             /\ Id \cap Foreign = {}

VARIABLES recorded,   \* the contract's entry in the artifacts file
          past,       \* its history
          chain,      \* the hash each instance runs, None before its deploy
          code,       \* the artifacts whose files are in the output directory
          marker,     \* .caatinga-bindings.json, None if absent or unreadable
          at,         \* where each generateBindings is
          read,       \* the artifact it has read
          ran,        \* history: what instances have run
          returned,   \* history: an instance or the record went back
          overlapped, \* history: two generators ran at once
          strayed     \* history: another network's files came under the marker

project == <<recorded, past, chain, ran>>
vars == <<project, code, marker, at, read, returned, overlapped, strayed>>

TypeOK == /\ recorded \in Artifact \cup {None}
          /\ past \subseteq Artifact
          /\ chain \in [Id -> Hash \cup {None}]
          /\ code \subseteq Artifact \cup Elsewhere
          /\ marker \in Artifact \cup Elsewhere \cup {None}
          /\ at \in [Proc -> {"idle", "generate", "patch"}]
          /\ read \in [Proc -> Artifact \cup Elsewhere \cup {None}]
          /\ ran \subseteq Artifact
          /\ returned \in BOOLEAN
          /\ overlapped \in BOOLEAN
          /\ strayed \in BOOLEAN

Init == /\ recorded = None
        /\ past = {}
        /\ chain = [i \in Id |-> None]
        /\ code = {}
        /\ marker = None
        /\ at = [p \in Proc |-> "idle"]
        /\ read = [p \in Proc |-> None]
        /\ ran = {}
        /\ returned = FALSE
        /\ overlapped = FALSE
        /\ strayed = FALSE

-----------------------------------------------------------------------------
(* What generate depends on: the contract on chain and in the file *)

(* Something new is in the entry; what it replaces is in the history. *)
Record(a) == /\ recorded' = a
             /\ past' = past \cup ({recorded} \ {None})

Unchanged == UNCHANGED <<code, marker, at, read, overlapped, strayed>>

(* deployContract: a new instance, recorded after its transaction. *)
Deploy == \E i \in Id, h \in Hash :
            LET a == [id |-> i, hash |-> h] IN
            /\ chain[i] = None
            /\ chain' = [chain EXCEPT ![i] = h]
            /\ ran' = ran \cup {a}
            /\ Record(a)
            /\ UNCHANGED returned
            /\ Unchanged

(* upgradeContractInPlace: the instance the command found in the file, which a
   redeploy may have superseded meanwhile, runs another wasm... *)
UpgradeLands == \E i \in Id : \E h \in Hash \ {chain[i]} :
                  LET a == [id |-> i, hash |-> h] IN
                  /\ chain[i] # None
                  /\ chain' = [chain EXCEPT ![i] = h]
                  /\ ran' = ran \cup {a}
                  /\ returned' = (returned \/ a \in ran)
                  /\ UNCHANGED <<recorded, past>>
                  /\ Unchanged

(* ...and, if the command gets that far, the file says so. *)
RecordUpgrade == \E i \in Id :
                   LET a == [id |-> i, hash |-> chain[i]] IN
                   /\ chain[i] # None
                   /\ a # recorded
                   /\ a \in past => returned
                   /\ Record(a)
                   /\ UNCHANGED <<chain, ran, returned>>
                   /\ Unchanged

(* restoreArtifactFromHistory *)
Rollback == /\ \E a \in past : a # recorded /\ recorded' = a
            /\ returned' = TRUE
            /\ UNCHANGED <<past, chain, ran>>
            /\ Unchanged

-----------------------------------------------------------------------------
(* generateBindings *)

Running(p) == at[p] # "idle"

(* readArtifacts finds the artifact a of the network the command is for. *)
Reads(p, a) == /\ ~Running(p)
               /\ at' = [at EXCEPT ![p] = "generate"]
               /\ read' = [read EXCEPT ![p] = a]
               /\ overlapped' = (overlapped \/ \E q \in Proc : Running(q))
               /\ UNCHANGED <<project, code, marker, returned, strayed>>

(* Without an artifact the command throws before anything. *)
Read(p) == recorded # None /\ Reads(p, recorded)

(* `--network` names another, whose contract is deployed and upgraded too. *)
ReadElsewhere(p) == \E a \in Elsewhere : Reads(p, a)

Strays(p) == read[p] \in Elsewhere

(* What `stellar-sdk generate --contract-id` may find on chain. *)
Fetched(p) == IF Strays(p) THEN {a \in Elsewhere : a.id = read[p].id}
              ELSE {[id |-> read[p].id, hash |-> chain[read[p].id]]}

Finish(p) == /\ at' = [at EXCEPT ![p] = "idle"]
             /\ read' = [read EXCEPT ![p] = None]

Generate(p) == /\ at[p] = "generate"
               /\ \E c \in Fetched(p) : code' = {c}
               /\ strayed' = Strays(p)
               /\ at' = [at EXCEPT ![p] = "patch"]
               /\ UNCHANGED <<project, marker, read, returned, overlapped>>

(* It fails, times out or dies with the process: before it overwrites the
   files, or among them. *)
GenerateFails(p) == /\ at[p] = "generate"
                    /\ \/ UNCHANGED <<code, strayed>>
                       \/ /\ \E c \in Fetched(p) : code' = code \cup {c}
                          /\ strayed' = (strayed \/ Strays(p))
                    /\ Finish(p)
                    /\ UNCHANGED <<project, marker, returned, overlapped>>

(* The generated package cannot be patched, or the process dies before
   writeBindingMarker. *)
PatchFails(p) == /\ at[p] = "patch"
                 /\ Finish(p)
                 /\ UNCHANGED <<project, code, marker, returned, overlapped, strayed>>

(* Mutant: the marker repeats the artifact as it is when it is written. *)
WriteMarkerReread(p) == /\ at[p] = "patch"
                        /\ marker' = recorded
                        /\ strayed' = FALSE
                        /\ Finish(p)
                        /\ UNCHANGED <<project, code, returned, overlapped>>

(* writeBindingMarker, after the patches *)
WriteMarker(p) == /\ at[p] = "patch"
                  /\ marker' = read[p]
                  /\ strayed' = FALSE
                  /\ Finish(p)
                  /\ UNCHANGED <<project, code, returned, overlapped>>

(* writeFile truncates the file before it writes: a process that dies in
   between leaves a marker that does not parse. *)
WriteMarkerFails(p) == /\ at[p] = "patch"
                       /\ marker' = None
                       /\ Finish(p)
                       /\ UNCHANGED <<project, code, returned, overlapped, strayed>>

(* evaluateBindingFreshness; the marker's `network` is not compared. *)
Freshness == IF recorded = None \/ code = {} THEN "missing"
             ELSE IF marker = None THEN "unknown"
             ELSE IF marker # recorded THEN "stale"
             ELSE "fresh"

-----------------------------------------------------------------------------
Next == \/ Deploy \/ UpgradeLands \/ RecordUpgrade \/ Rollback
        \/ \E p \in Proc : \/ Read(p) \/ ReadElsewhere(p) \/ Generate(p) \/ GenerateFails(p)
                           \/ PatchFails(p)
                           \/ WriteMarker(p) \/ WriteMarkerFails(p)

Spec == Init /\ [][Next]_vars

(* What `fresh` tells the user, in the words of docs/cheatsheet.md: the
   bindings match the deployed contractId and wasmHash. Nothing in the
   directory is of another instance and, unless an upgrade has landed that
   is not recorded, nothing is of another wasm. *)
Match == /\ \A c \in code : c.id = recorded.id
         /\ chain[recorded.id] = recorded.hash => code = {recorded}

(* The freshness that `ctg status` and `ctg doctor` report can be believed,
   whatever generator failed or died at whatever step, for whatever network,
   and however deploys and upgrades ran meanwhile - as long as generators do not
   overlap, nothing goes back to what it was, neither by a rollback nor by an
   upgrade to a former wasm, and no generator for another network has overwritten
   files and not yet, or never, put its marker on them. *)
FreshIsTrue == Freshness = "fresh" /\ ~returned /\ ~overlapped /\ ~strayed => Match
=============================================================================
