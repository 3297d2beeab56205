------------------------- MODULE DeploymentsProofs -------------------------
(***************************************************************************)
(* Theorems about the commands that change a project's artifacts file, for *)
(* any number of processes, contracts, instances and hashes, with every    *)
(* fault of the model.                                                     *)
(***************************************************************************)
EXTENDS Deployments, WellFoundedInduction, TLAPS

-----------------------------------------------------------------------------
(* What the functions that rewrite caatinga.artifacts.json return, for every file
   and every history *)

(* A non-empty set of positions of a history has a first one. *)
LEMMA FirstPosition ==
  ASSUME NEW S \in SUBSET Nat, S # {}
  PROVE  \E i \in S : \A j \in S : i <= j
<1>1. PICK i \in S : \A j \in S : ~ (<<j, i>> \in OpToRel(<, Nat))
  BY NatLessThanWellFounded, WFMin
<1>2. \A j \in S : ~ (j < i)
  BY <1>1 DEF OpToRel
<1> QED
  BY <1>2

LEMMA PastTyped ==
  ASSUME NEW a \in Artifact
  PROVE  Past(a) \in Seq(HistoryEntry)
BY DEF Past, Artifact

LEMMA AppendHistoryTyped ==
  ASSUME NEW existing \in Artifact \cup {None}, NEW reason \in Reason \cup {None},
         NEW type \in UpgradeType \cup {None}
  PROVE  AppendHistory(existing, reason, type) \in Seq(HistoryEntry) \cup {None}
<1>1. CASE existing = None \/ reason = None
  BY <1>1, NoneAssumption DEF AppendHistory, Artifact
<1>2. CASE existing # None /\ reason # None
  <2>1. Past(existing) \in Seq(HistoryEntry)
    BY <1>2, PastTyped
  <2>2. Superseded(existing, reason, type) \in HistoryEntry
    BY <1>2 DEF Superseded, HistoryEntry, Artifact
  <2> QED
    BY <1>2, <2>1, <2>2 DEF AppendHistory
<1> QED
  BY <1>1, <1>2

(* updateArtifact returns a valid file. *)
LEMMA UpdateTyped ==
  ASSUME NEW f \in File, NEW name \in Name, NEW artifact \in Artifact,
         NEW reason \in Reason \cup {None}, NEW type \in UpgradeType \cup {None}
  PROVE  UpdateArtifact(f, name, artifact, reason, type) \in File
<1> DEFINE history == AppendHistory(f.entry[name], reason, type)
           new == [id |-> artifact.id, hash |-> artifact.hash,
                   history |-> IF history # None THEN history ELSE artifact.history]
<1>1. f.entry \in [Name -> Artifact \cup {None}] /\ f.version \in {1, 2}
  BY DEF File
<1>2. history \in Seq(HistoryEntry) \cup {None}
  BY <1>1, AppendHistoryTyped
<1>3. new \in Artifact
  BY <1>2 DEF Artifact
<1>4. [f.entry EXCEPT ![name] = new] \in [Name -> Artifact \cup {None}]
  BY <1>1, <1>3
<1> HIDE DEF new
<1>5. UpdateArtifact(f, name, artifact, reason, type) =
        [version |-> IF f.version = 1 /\ reason # None THEN 2 ELSE f.version,
         entry |-> [f.entry EXCEPT ![name] = new]]
  BY DEF UpdateArtifact, new
<1> QED
  BY <1>1, <1>4, <1>5 DEF File

(* updateArtifact leaves every other contract alone. *)
LEMMA UpdateEntries ==
  ASSUME NEW f \in File, NEW name \in Name, NEW artifact \in Artifact,
         NEW reason \in Reason \cup {None}, NEW type \in UpgradeType \cup {None}
  PROVE  LET new == UpdateArtifact(f, name, artifact, reason, type)
             history == AppendHistory(f.entry[name], reason, type)
         IN  /\ \A n \in Name \ {name} : new.entry[n] = f.entry[n]
             /\ new.entry[name] =
                  [id |-> artifact.id, hash |-> artifact.hash,
                   history |-> IF history # None THEN history ELSE artifact.history]
             /\ new.entry[name] \in Artifact
<1>1. f.entry \in [Name -> Artifact \cup {None}]
  BY DEF File
<1>2. AppendHistory(f.entry[name], reason, type) \in Seq(HistoryEntry) \cup {None}
  BY <1>1, AppendHistoryTyped
<1> QED
  BY <1>1, <1>2 DEF UpdateArtifact, Artifact

(* restoreArtifactFromHistory finds the first deployment of the wanted id. *)
LEMMA FirstMatch ==
  ASSUME NEW a \in Artifact, NEW id \in Id, Matches(a, id) # {}
  PROVE  LET first == CHOOSE i \in Matches(a, id) : \A j \in Matches(a, id) : i <= j
         IN  /\ first \in DOMAIN Past(a)
             /\ Past(a)[first] \in HistoryEntry
             /\ Past(a)[first].id = id
<1>1. Past(a) \in Seq(HistoryEntry)
  BY PastTyped
<1>2. Matches(a, id) \in SUBSET Nat
  BY <1>1 DEF Matches
<1>3. \E i \in Matches(a, id) : \A j \in Matches(a, id) : i <= j
  BY <1>2, FirstPosition
<1> DEFINE first == CHOOSE i \in Matches(a, id) : \A j \in Matches(a, id) : i <= j
<1>4. first \in Matches(a, id)
  BY <1>3
<1> HIDE DEF first
<1>5. /\ first \in DOMAIN Past(a)
      /\ Past(a)[first].id = id
  BY <1>4 DEF Matches
<1>6. Past(a)[first] \in HistoryEntry
  BY <1>1, <1>5
<1> QED
  BY <1>5, <1>6 DEF first

(* A rollback that is possible returns a valid file. *)
LEMMA RestoreTyped ==
  ASSUME NEW f \in File, NEW name \in Name, NEW id \in Id, CanRestore(f, name, id)
  PROVE  RestoreArtifactFromHistory(f, name, id) \in File
<1> DEFINE current == f.entry[name]
           first == CHOOSE i \in Matches(current, id) : \A j \in Matches(current, id) : i <= j
           restored == [id |-> Past(current)[first].id, hash |-> Past(current)[first].hash,
                        history |-> Append(Past(current), Superseded(current, "rollback", None))]
<1>1. current \in Artifact
  BY DEF CanRestore, File
<1>2. CASE current.id = id
  BY <1>2 DEF RestoreArtifactFromHistory
<1>3. CASE current.id # id
  <2>1. Past(current)[first] \in HistoryEntry
    BY <1>1, <1>3, FirstMatch DEF CanRestore
  <2>2. Superseded(current, "rollback", None) \in HistoryEntry
    BY <1>1 DEF Superseded, HistoryEntry, Artifact, Reason
  <2>3. Append(Past(current), Superseded(current, "rollback", None)) \in Seq(HistoryEntry)
    BY <1>1, <2>2, PastTyped
  <2> HIDE DEF first
  <2>4. restored \in Artifact
    BY <2>1, <2>3 DEF Artifact, HistoryEntry
  <2> HIDE DEF restored, current
  <2>5. UpdateArtifact(f, name, restored, None, None) \in File
    BY <2>4, UpdateTyped
  <2>6. [UpdateArtifact(f, name, restored, None, None) EXCEPT !.version = 2] \in File
    BY <2>5 DEF File
  <2> QED
    BY <1>3, <2>6 DEF RestoreArtifactFromHistory, restored, current, first
<1> QED
  BY <1>2, <1>3

(* A rewrite that gives a reason, or that finds no artifact, forgets no
   deployment of the contract and adds the new one. *)
LEMMA UpdateKeepsKnown ==
  ASSUME NEW f \in File, NEW name \in Name, NEW artifact \in Artifact,
         NEW reason \in Reason, NEW type \in UpgradeType \cup {None}, artifact.history = None
  PROVE  Known(UpdateArtifact(f, name, artifact, reason, type), name)
           = Known(f, name) \cup {artifact.id}
<1> DEFINE old == f.entry[name]
           new == UpdateArtifact(f, name, artifact, reason, type).entry[name]
<1>1. old \in Artifact \cup {None}
  BY DEF File
<1>2. /\ new \in Artifact
      /\ new.id = artifact.id
      /\ new.history = IF AppendHistory(old, reason, type) # None
                         THEN AppendHistory(old, reason, type) ELSE None
  <2>1. reason \in Reason \cup {None}
    OBVIOUS
  <2>2. /\ new = [id |-> artifact.id, hash |-> artifact.hash,
                  history |-> IF AppendHistory(old, reason, type) # None
                                THEN AppendHistory(old, reason, type) ELSE artifact.history]
        /\ new \in Artifact
    <3> HIDE DEF new
    <3> QED
      BY <2>1, UpdateEntries DEF new
  <2> HIDE DEF new
  <2> QED
    BY <2>2
<1>3. /\ None \notin Artifact
      /\ None \notin Id
      /\ None \notin Seq(HistoryEntry)
      /\ reason # None
  BY NoneAssumption
<1> HIDE DEF new
<1>4. CASE old = None
  <2>1. Past(new) = <<>>
    BY <1>2, <1>4 DEF AppendHistory, Past
  <2> QED
    BY <1>2, <1>3, <1>4, <2>1 DEF Known, HistoryIds, Active, new, Artifact
<1>5. CASE old # None
  <2> DEFINE entry == Superseded(old, reason, type)
  <2>1. Past(old) \in Seq(HistoryEntry) /\ entry \in HistoryEntry /\ entry.id = old.id
    BY <1>1, <1>5, PastTyped DEF Superseded, HistoryEntry, Artifact
  <2> HIDE DEF entry
  <2>2. AppendHistory(old, reason, type) = Append(Past(old), entry)
    BY <1>3, <1>5 DEF AppendHistory, entry
  <2>3. Append(Past(old), entry) \in Seq(HistoryEntry)
    BY <2>1
  <2>4. Past(new) = Append(Past(old), entry)
    BY <1>2, <1>3, <2>2, <2>3 DEF Past
  <2>5. {Past(new)[i].id : i \in DOMAIN Past(new)}
          = {Past(old)[i].id : i \in DOMAIN Past(old)} \cup {old.id}
    BY <2>1, <2>4
  <2> QED
    BY <1>1, <1>2, <1>3, <1>5, <2>5 DEF Known, HistoryIds, Active, new, Artifact
<1> QED
  BY <1>4, <1>5

(* updateArtifact makes the given instance the active one, and changes what is
   known of no other contract. *)
LEMMA UpdateActivates ==
  ASSUME NEW f \in File, NEW name \in Name, NEW artifact \in Artifact,
         NEW reason \in Reason \cup {None}, NEW type \in UpgradeType \cup {None}
  PROVE  LET new == UpdateArtifact(f, name, artifact, reason, type)
         IN  /\ new.entry[name] # None
             /\ Active(new, name) = artifact.id
             /\ \A n \in Name \ {name} : /\ new.entry[n] = f.entry[n]
                                        /\ Active(new, n) = Active(f, n)
                                        /\ Known(new, n) = Known(f, n)
<1> DEFINE new == UpdateArtifact(f, name, artifact, reason, type)
<1> HIDE DEF new
<1>1. /\ \A n \in Name \ {name} : new.entry[n] = f.entry[n]
      /\ new.entry[name] \in Artifact
      /\ new.entry[name].id = artifact.id
  <2> DEFINE past == AppendHistory(f.entry[name], reason, type)
  <2> HIDE DEF past
  <2>1. /\ \A n \in Name \ {name} : new.entry[n] = f.entry[n]
        /\ new.entry[name] \in Artifact
        /\ new.entry[name] = [id |-> artifact.id, hash |-> artifact.hash,
                              history |-> IF past # None THEN past ELSE artifact.history]
    BY UpdateEntries DEF new, past
  <2> QED
    BY <2>1
<1>2. new.entry[name] # None
  BY <1>1, NoneAssumption
<1>3. Active(new, name) = artifact.id
  BY <1>1, <1>2 DEF Active
<1>4. ASSUME NEW n \in Name \ {name}
      PROVE  Active(new, n) = Active(f, n) /\ Known(new, n) = Known(f, n)
  BY <1>1, <1>4 DEF Active, Known, HistoryIds
<1> QED
  BY <1>1, <1>2, <1>3, <1>4 DEF new

(* The ids a valid file names are contract ids. *)
LEMMA KnownTyped ==
  ASSUME NEW f \in File, NEW name \in Name
  PROVE  Known(f, name) \subseteq Id
<1>1. f.entry[name] \in Artifact \cup {None}
  BY DEF File
<1>2. CASE f.entry[name] # None
  <2>1. Past(f.entry[name]) \in Seq(HistoryEntry) /\ f.entry[name].id \in Id
    BY <1>1, <1>2, PastTyped DEF Artifact
  <2>2. ASSUME NEW i \in DOMAIN Past(f.entry[name])
        PROVE  Past(f.entry[name])[i].id \in Id
    <3>1. Past(f.entry[name])[i] \in HistoryEntry
      BY <2>1
    <3> QED
      BY <3>1 DEF HistoryEntry
  <2> QED
    BY <1>2, <2>1, <2>2 DEF Known, HistoryIds, Active
<1>3. CASE f.entry[name] = None
  BY <1>3 DEF Known, HistoryIds, Active
<1> QED
  BY <1>2, <1>3

(* Without a reason the history stays what it was, and the active instance is
   exchanged. *)
LEMMA UpdateWithoutReason ==
  ASSUME NEW f \in File, NEW name \in Name, NEW artifact \in Artifact,
         NEW type \in UpgradeType \cup {None},
         \/ artifact.history = None
         \/ f.entry[name] # None /\ f.entry[name].history # None
  PROVE  Known(UpdateArtifact(f, name, artifact, None, type), name)
           = HistoryIds(f, name) \cup {artifact.id}
<1> DEFINE old == f.entry[name]
           new == UpdateArtifact(f, name, artifact, None, type).entry[name]
           past == AppendHistory(old, None, type)
<1>1. old \in Artifact \cup {None}
  BY DEF File
<1>2. /\ new \in Artifact
      /\ new = [id |-> artifact.id, hash |-> artifact.hash,
                history |-> IF past # None THEN past ELSE artifact.history]
  <2> HIDE DEF new
  <2> QED
    BY UpdateEntries DEF new
<1>3. past = IF old = None THEN None ELSE old.history
  BY DEF AppendHistory
<1> HIDE DEF new, past
<1>4. new.id = artifact.id /\ new # None /\ artifact.id # None
  BY <1>2, NoneAssumption DEF Artifact
<1>5. Past(new) = IF old = None THEN <<>> ELSE Past(old)
  BY <1>2, <1>3 DEF Past
<1>6. {Past(new)[i].id : i \in DOMAIN Past(new)} = HistoryIds(f, name)
  BY <1>5 DEF HistoryIds
<1> QED
  BY <1>4, <1>6 DEF Known, HistoryIds, Active, new

(* Whatever the reason, updateArtifact adds the new instance to what is known
   of the contract, and no other. *)
LEMMA UpdateAddsOne ==
  ASSUME NEW f \in File, NEW name \in Name, NEW artifact \in Artifact,
         NEW reason \in Reason \cup {None}, NEW type \in UpgradeType \cup {None},
         artifact.history = None, NEW n \in Name
  PROVE  Known(UpdateArtifact(f, name, artifact, reason, type), n)
           \subseteq Known(f, n) \cup (IF n = name THEN {artifact.id} ELSE {})
<1>1. CASE n # name
  BY <1>1, UpdateActivates
<1>2. CASE n = name /\ reason \in Reason
  BY <1>2, UpdateKeepsKnown
<1>3. CASE n = name /\ reason = None
  BY <1>3, UpdateWithoutReason DEF Known
<1> QED
  BY <1>1, <1>2, <1>3

(* A rollback names no instance the file did not name before. *)
LEMMA RestoreAddsNone ==
  ASSUME NEW f \in File, NEW name \in Name, NEW id \in Id, CanRestore(f, name, id),
         NEW n \in Name
  PROVE  Known(RestoreArtifactFromHistory(f, name, id), n) \subseteq Known(f, n)
<1> DEFINE current == f.entry[name]
           first == CHOOSE i \in Matches(current, id) : \A j \in Matches(current, id) : i <= j
           restored == [id |-> Past(current)[first].id, hash |-> Past(current)[first].hash,
                        history |-> Append(Past(current), Superseded(current, "rollback", None))]
           updated == UpdateArtifact(f, name, restored, None, None)
<1>1. current \in Artifact /\ current # None
  BY NoneAssumption DEF CanRestore, File
<1>2. CASE current.id = id
  BY <1>2 DEF RestoreArtifactFromHistory
<1>3. CASE current.id # id
  <2>1. /\ first \in DOMAIN Past(current)
        /\ Past(current)[first] \in HistoryEntry
    BY <1>1, <1>3, FirstMatch DEF CanRestore
  <2>2. Superseded(current, "rollback", None) \in HistoryEntry
    BY <1>1 DEF Superseded, HistoryEntry, Artifact, Reason
  <2>3. Append(Past(current), Superseded(current, "rollback", None)) \in Seq(HistoryEntry)
    BY <1>1, <2>2, PastTyped
  <2>4. current.history # None
    <3> HIDE DEF first
    <3> QED
      BY <2>1 DEF Past
  <2> HIDE DEF first
  <2>5. restored \in Artifact
    BY <2>1, <2>3 DEF Artifact, HistoryEntry
  <2>6. restored.id \in HistoryIds(f, name)
    BY <1>1, <2>1 DEF HistoryIds
  <2> HIDE DEF restored
  <2>7. Known(updated, name) = HistoryIds(f, name) \cup {restored.id}
    BY <1>1, <2>4, <2>5, UpdateWithoutReason
  <2>8. n # name => Known(updated, n) = Known(f, n)
    BY <2>5, UpdateActivates
  <2>9. Known(updated, n) \subseteq Known(f, n)
    BY <2>6, <2>7, <2>8 DEF Known
  <2> HIDE DEF updated
  <2>10. Known([updated EXCEPT !.version = 2], n) = Known(updated, n)
    <3>1. updated \in File
      BY <2>5, UpdateTyped DEF updated
    <3>2. [updated EXCEPT !.version = 2].entry = updated.entry
      BY <3>1 DEF File
    <3> QED
      BY <3>2 DEF Known, HistoryIds, Active
  <2>11. RestoreArtifactFromHistory(f, name, id) = [updated EXCEPT !.version = 2]
    BY <1>3 DEF RestoreArtifactFromHistory, updated, restored, first
  <2> QED
    BY <2>9, <2>10, <2>11
<1> QED
  BY <1>2, <1>3

(* The migration to version 2 names what was named before. *)
LEMMA MigrateKeepsKnown ==
  ASSUME NEW f \in File, NEW n \in Name
  PROVE  Known(MigrateArtifactsToV2(f), n) = Known(f, n)
<1>1. MigrateArtifactsToV2(f).entry = f.entry
  BY DEF MigrateArtifactsToV2, File
<1> QED
  BY <1>1 DEF Known, HistoryIds, Active

-----------------------------------------------------------------------------
(* The commands: what each knows, step by step *)

(* What a command at step `at` knows: the invariant that makes TypeOK
   inductive, and every local that is read set when it is read. *)
RunOK(at, r) ==
  /\ r \in Run
  /\ at \in {"idle", "unlock"} => r = NoRun
  /\ at \notin {"idle", "unlock"} =>
       /\ r.op \in Ops
       /\ r.name \in Name
       /\ r.op = "rollback" => r.target \in Id
  /\ at \in {"build", "hash", "submit", "upload", "invoke", "lock", "reread"} =>
       r.op \in DeployOps \cup UpgradeOps
  /\ at = "submit" => r.op \in DeployOps
  /\ at \in {"build", "upload", "invoke"} => r.op \in UpgradeOps
  /\ at \notin {"idle", "read", "unlock"} /\ r.op \in UpgradeOps => r.existing \in Artifact
  /\ at \notin {"idle", "read", "build", "hash", "unlock"} /\ r.op \in DeployOps \cup UpgradeOps =>
       r.hash \in Hash
  /\ at \in {"lock", "reread", "write"} /\ r.op \in DeployOps => r.id \in Id
  /\ r.id # None => at \in {"lock", "reread", "write"} /\ r.op \in DeployOps
  /\ at = "write" => /\ r.copy \in File
                     /\ r.op = "rollback" => CanRestore(r.copy, r.name, r.target)

RunInv == \A p \in Proc : RunOK(pc[p], run[p])

IInv == TypeOK /\ RunInv

(* NoRun is a legal value of the locals, and fits a command that is over. *)
LEMMA NoRunOK ==
  /\ NoRun \in Run
  /\ \A at \in {"idle", "unlock"} : RunOK(at, NoRun)
<1>1. NoRun \in Run
  BY DEF NoRun, Run
<1> QED
  BY <1>1 DEF RunOK, NoRun

(* A step that moves one command keeps the others as they are. *)
LEMMA OneMoves ==
  ASSUME IInv, NEW p \in Proc, NEW at \in Step, NEW r, RunOK(at, r),
         pc' = [pc EXCEPT ![p] = at], run' = [run EXCEPT ![p] = r]
  PROVE  /\ RunInv'
         /\ pc' \in [Proc -> Step]
         /\ run' \in [Proc -> Run]
<1>1. r \in Run
  BY DEF RunOK
<1>2. /\ pc' \in [Proc -> Step]
      /\ run' \in [Proc -> Run]
  BY <1>1 DEF IInv, TypeOK
<1>3. ASSUME NEW q \in Proc
      PROVE  RunOK(pc'[q], run'[q])
  BY <1>3 DEF IInv, TypeOK, RunInv
<1> QED
  BY <1>2, <1>3 DEF RunInv

LEMMA InitTyped == Init => IInv
<1> SUFFICES ASSUME Init PROVE IInv
  OBVIOUS
<1>1. PICK version \in {1, 2}, at \in [Name -> Id], hash \in [Name -> Hash] :
        /\ \A m, n \in Name : at[m] = at[n] => m = n
        /\ built = hash
        /\ file = [version |-> version,
                   entry |-> [n \in Name |->
                     IF Deployed THEN [id |-> at[n], hash |-> hash[n], history |-> None]
                     ELSE None]]
        /\ chain = [id \in Id |->
                     IF Deployed /\ \E n \in Name : at[n] = id
                       THEN hash[CHOOSE n \in Name : at[n] = id]
                       ELSE None]
  BY Zenon DEF Init
<1>2. file \in File
  <2>1. ASSUME NEW n \in Name
        PROVE  (IF Deployed THEN [id |-> at[n], hash |-> hash[n], history |-> None]
                ELSE None) \in Artifact \cup {None}
    BY DEF Artifact
  <2> QED
    BY <1>1, <2>1 DEF File
<1>3. chain \in [Id -> Hash \cup {None}]
  <2>1. \A id \in Id : (\E n \in Name : at[n] = id) => (CHOOSE n \in Name : at[n] = id) \in Name
    OBVIOUS
  <2> QED
    BY <1>1, <2>1
<1>4. TypeOK
  <2>1. pc \in [Proc -> Step] /\ run \in [Proc -> Run]
    BY NoRunOK DEF Init, Step
  <2> QED
    BY <1>1, <1>2, <1>3, <2>1 DEF Init, TypeOK
<1>5. RunInv
  BY NoRunOK DEF Init, RunInv
<1> QED
  BY <1>4, <1>5 DEF IInv

(* What a deploy or an upgrade writes is a valid file. *)
LEMMA RecordedTyped ==
  ASSUME NEW r, RunOK("write", r), r.op \in DeployOps \cup UpgradeOps
  PROVE  /\ Recorded(r) \in File
         /\ RecordedId(r) \in Id
         /\ SupersedeReason(r) \in Reason \cup {None}
         /\ SupersedeType(r) \in UpgradeType \cup {None}
<1>1. r \in Run /\ r.copy \in File /\ r.name \in Name /\ r.hash \in Hash
  BY DEF RunOK
<1>2. RecordedId(r) \in Id
  BY DEF RunOK, RecordedId, Artifact
<1>3. SupersedeReason(r) \in Reason \cup {None}
  BY DEF SupersedeReason, Reason
<1>4. SupersedeType(r) \in UpgradeType \cup {None}
  BY DEF SupersedeType, UpgradeType
<1>5. [id |-> RecordedId(r), hash |-> r.hash, history |-> None] \in Artifact
  BY <1>1, <1>2 DEF Artifact
<1> QED
  BY <1>1, <1>2, <1>3, <1>4, <1>5, UpdateTyped DEF Recorded

(* Before a deploy is submitted the command has no instance to lose. *)
LEMMA DeployTyped ==
  ASSUME IInv, NEW p \in Proc, Deploy(p)
  PROVE  IInv'
<1> DEFINE r == run[p]
<1>1. RunOK("submit", r) /\ r.name \in Name /\ r.tries \in Nat /\ pc[p] = "submit"
  BY DEF IInv, TypeOK, RunInv, RunOK, Run, Deploy, DeployLands, DeployLandsUnseen,
         DeployFails, TriesAgain, Throws, Goto
<1>2. ASSUME NEW id \in Id, Instantiate(p, id)
      PROVE  chain' \in [Id -> Hash \cup {None}]
  BY <1>1, <1>2 DEF IInv, TypeOK, Instantiate
<1>3. ASSUME TriesAgain(p, "submit") \/ Throws(p, "submit")
      PROVE  RunInv' /\ pc' \in [Proc -> Step] /\ run' \in [Proc -> Run]
  <2>1. CASE TriesAgain(p, "submit")
    <3>1. RunOK("submit", [r EXCEPT !.tries = @ + 1])
      BY <1>1 DEF RunOK, Run
    <3>2. run' = [run EXCEPT ![p] = [r EXCEPT !.tries = @ + 1]]
      BY <2>1 DEF TriesAgain
    <3>3. pc' = [pc EXCEPT ![p] = "submit"]
      BY <2>1 DEF TriesAgain, Goto
    <3> HIDE DEF r
    <3> QED
      BY <3>1, <3>2, <3>3, OneMoves DEF Step
  <2>2. CASE Throws(p, "submit")
    BY <2>2, NoRunOK, OneMoves DEF Throws, Goto, Ends, Step
  <2> QED
    BY <1>3, <2>1, <2>2
<1>4. CASE DeployLands(p)
  <2>1. PICK id \in Id : Instantiate(p, id) /\ run' = [run EXCEPT ![p].id = id]
    BY <1>4 DEF DeployLands
  <2>2. RunOK("lock", [r EXCEPT !.id = id])
    BY <1>1 DEF RunOK, Run
  <2>3. run' = [run EXCEPT ![p] = [r EXCEPT !.id = id]]
    BY <2>1
  <2>4. pc' = [pc EXCEPT ![p] = "lock"]
    BY <1>4 DEF DeployLands, Goto
  <2>5. RunInv' /\ pc' \in [Proc -> Step] /\ run' \in [Proc -> Run]
    <3> HIDE DEF r
    <3> QED
      BY <2>2, <2>3, <2>4, OneMoves DEF Step
  <2> QED
    BY <1>2, <1>4, <2>1, <2>5 DEF IInv, TypeOK, DeployLands
<1>5. CASE DeployLandsUnseen(p)
  <2>1. PICK id \in Id : Instantiate(p, id) /\ dropped' = dropped \cup {id}
    BY <1>5 DEF DeployLandsUnseen
  <2> QED
    BY <1>2, <1>3, <1>5, <2>1 DEF IInv, TypeOK, DeployLandsUnseen
<1>6. CASE DeployFails(p)
  BY <1>3, <1>6 DEF IInv, TypeOK, DeployFails
<1> QED
  BY <1>4, <1>5, <1>6 DEF Deploy

LEMMA UpgradeTyped ==
  ASSUME IInv, NEW p \in Proc, Upgrade(p)
  PROVE  IInv'
<1> DEFINE r == run[p]
<1>1. RunOK(pc[p], r) /\ r.tries \in Nat /\ pc[p] \in {"upload", "invoke"}
  BY DEF IInv, TypeOK, RunInv, RunOK, Run, Upgrade, UploadWasm, UploadFails, InvokeLands,
         InvokeLandsUnseen, InvokeFails, TriesAgain, Throws, Goto
<1>2. r.name \in Name /\ r.hash \in Hash /\ r.existing \in Artifact /\ r.existing.id \in Id
  BY <1>1 DEF RunOK, Artifact, UpgradeOps
<1>3. ASSUME Replace(p)
      PROVE  chain' \in [Id -> Hash \cup {None}]
  BY <1>2, <1>3 DEF IInv, TypeOK, Replace
<1>4. ASSUME NEW at \in {"upload", "invoke"}, TriesAgain(p, at) \/ Throws(p, at)
      PROVE  RunInv' /\ pc' \in [Proc -> Step] /\ run' \in [Proc -> Run]
  <2>1. CASE TriesAgain(p, at)
    <3>1. RunOK(at, [r EXCEPT !.tries = @ + 1])
      BY <1>1, <2>1 DEF RunOK, Run, TriesAgain, Goto
    <3>2. run' = [run EXCEPT ![p] = [r EXCEPT !.tries = @ + 1]]
      BY <2>1 DEF TriesAgain
    <3>3. pc' = [pc EXCEPT ![p] = at]
      BY <2>1 DEF TriesAgain, Goto
    <3>4. at \in Step
      BY DEF Step
    <3> HIDE DEF r
    <3> QED
      BY <3>1, <3>2, <3>3, <3>4, OneMoves
  <2>2. CASE Throws(p, at)
    BY <2>2, NoRunOK, OneMoves DEF Throws, Goto, Ends, Step
  <2> QED
    BY <1>4, <2>1, <2>2
<1>5. CASE UploadWasm(p)
  <2>1. RunOK("invoke", [r EXCEPT !.hash = built[r.name]])
    BY <1>1, <1>2, <1>5 DEF RunOK, Run, IInv, TypeOK, UploadWasm, Goto, UpgradeOps, DeployOps
  <2>2. run' = [run EXCEPT ![p] = [r EXCEPT !.hash = built[r.name]]]
    BY <1>5 DEF UploadWasm
  <2>3. pc' = [pc EXCEPT ![p] = "invoke"]
    BY <1>5 DEF UploadWasm, Goto
  <2>4. RunInv' /\ pc' \in [Proc -> Step] /\ run' \in [Proc -> Run]
    <3> HIDE DEF r
    <3> QED
      BY <2>1, <2>2, <2>3, OneMoves DEF Step
  <2> QED
    BY <1>5, <2>4 DEF IInv, TypeOK, UploadWasm
<1>6. CASE UploadFails(p)
  BY <1>4, <1>6 DEF IInv, TypeOK, UploadFails
<1>7. CASE InvokeLands(p)
  <2>1. RunOK("lock", r)
    BY <1>1, <1>2, <1>7 DEF RunOK, InvokeLands, Goto, UpgradeOps, DeployOps
  <2>2. run' = [run EXCEPT ![p] = r]
    BY <1>7 DEF InvokeLands, IInv, TypeOK
  <2>3. pc' = [pc EXCEPT ![p] = "lock"]
    BY <1>7 DEF InvokeLands, Goto
  <2>4. RunInv' /\ pc' \in [Proc -> Step] /\ run' \in [Proc -> Run]
    <3> HIDE DEF r
    <3> QED
      BY <2>1, <2>2, <2>3, OneMoves DEF Step
  <2> QED
    BY <1>3, <1>7, <2>4 DEF IInv, TypeOK, InvokeLands
<1>8. CASE InvokeLandsUnseen(p)
  BY <1>3, <1>4, <1>8 DEF IInv, TypeOK, InvokeLandsUnseen
<1>9. CASE InvokeFails(p)
  BY <1>4, <1>9 DEF IInv, TypeOK, InvokeFails
<1> QED
  BY <1>5, <1>6, <1>7, <1>8, <1>9 DEF Upgrade

LEMMA RecordTyped ==
  ASSUME IInv, NEW p \in Proc, Record(p)
  PROVE  IInv'
<1> DEFINE r == run[p]
<1>1. RunOK(pc[p], r) /\ r.id \in Id \cup {None}
  BY DEF IInv, TypeOK, RunInv, RunOK, Run
<1>2. ASSUME NEW at \in Step, RunOK(at, r), pc' = [pc EXCEPT ![p] = at], UNCHANGED run
      PROVE  RunInv' /\ pc' \in [Proc -> Step] /\ run' \in [Proc -> Run]
  <2>1. run' = [run EXCEPT ![p] = r]
    BY <1>2 DEF IInv, TypeOK
  <2> HIDE DEF r
  <2> QED
    BY <1>2, <2>1, OneMoves
<1>3. ASSUME NEW at \in {"idle", "unlock"}, pc' = [pc EXCEPT ![p] = at], Ends(p)
      PROVE  RunInv' /\ pc' \in [Proc -> Step] /\ run' \in [Proc -> Run]
  <2>1. at \in Step
    BY DEF Step
  <2> QED
    BY <1>3, <2>1, NoRunOK, OneMoves DEF Ends
<1>4. CASE EnterLock(p)
  <2>1. RunOK("reread", r) /\ "reread" \in Step
    BY <1>1, <1>4 DEF RunOK, EnterLock, Goto, Step
  <2> QED
    BY <1>2, <1>4, <2>1 DEF IInv, TypeOK, EnterLock, Goto, Mutex!Enter
<1>5. CASE LockTimesOut(p)
  BY <1>1, <1>3, <1>5 DEF IInv, TypeOK, LockTimesOut, Goto, Drops
<1>6. CASE Reread(p)
  <2>1. RunOK("write", [r EXCEPT !.copy = file])
    BY <1>1, <1>6 DEF IInv, TypeOK, RunOK, Run, Reread, Goto, DeployOps, UpgradeOps
  <2>2. run' = [run EXCEPT ![p] = [r EXCEPT !.copy = file]]
    BY <1>6 DEF Reread
  <2>3. pc' = [pc EXCEPT ![p] = "write"]
    BY <1>6 DEF Reread, Goto
  <2>4. RunInv' /\ pc' \in [Proc -> Step] /\ run' \in [Proc -> Run]
    <3> HIDE DEF r
    <3> QED
      BY <2>1, <2>2, <2>3, OneMoves DEF Step
  <2> QED
    BY <1>6, <2>4 DEF IInv, TypeOK, Reread
<1>7. CASE WriteRecord(p)
  <2>1. Recorded(r) \in File
    BY <1>1, <1>7, RecordedTyped DEF WriteRecord, Goto
  <2>2. RunInv' /\ pc' \in [Proc -> Step] /\ run' \in [Proc -> Run]
    BY <1>3, <1>7 DEF WriteRecord, Goto
  <2> QED
    BY <1>7, <2>1, <2>2 DEF IInv, TypeOK, WriteRecord
<1>8. CASE WriteFails(p)
  BY <1>1, <1>3, <1>8 DEF IInv, TypeOK, WriteFails, Goto, Drops
<1>9. CASE LeaveLock(p)
  <2>1. RunOK("idle", r) /\ "idle" \in Step
    BY <1>1, <1>9, NoRunOK DEF RunOK, LeaveLock, Goto, Step
  <2> QED
    BY <1>2, <1>9, <2>1 DEF IInv, TypeOK, LeaveLock, Goto, Mutex!Leave
<1> QED
  BY <1>4, <1>5, <1>6, <1>7, <1>8, <1>9 DEF Record

(* The commands without the lock, the start of a command and its death. *)
LEMMA OtherTyped ==
  ASSUME IInv, NEW p \in Proc,
         \/ Start(p) \/ ReadSnapshot(p) \/ BuildFirst(p) \/ BuildFails(p) \/ HashWasm(p)
         \/ ReadUnlocked(p) \/ Rollback(p) \/ Migrate(p) \/ Crash(p)
  PROVE  IInv'
<1> DEFINE r == run[p]
<1>1. RunOK(pc[p], r) /\ r.id \in Id \cup {None} /\ r \in Run
  BY DEF IInv, TypeOK, RunInv, RunOK, Run
<1>2. ASSUME pc' = [pc EXCEPT ![p] = "idle"], Ends(p)
      PROVE  RunInv' /\ pc' \in [Proc -> Step] /\ run' \in [Proc -> Run]
  BY <1>2, NoRunOK, OneMoves DEF Ends, Step
<1>3. CASE Start(p)
  <2>1. PICK op \in Ops, n \in Name : \E target \in IF op = "rollback" THEN Id ELSE {None} :
          run' = [run EXCEPT ![p] = [NoRun EXCEPT !.op = op, !.name = n, !.target = target]]
    BY <1>3 DEF Start
  <2>2. PICK target \in IF op = "rollback" THEN Id ELSE {None} :
          run' = [run EXCEPT ![p] = [NoRun EXCEPT !.op = op, !.name = n, !.target = target]]
    BY <2>1
  <2>3. op \in Op
    BY DeploymentsAssumption
  <2>4. RunOK("read", [NoRun EXCEPT !.op = op, !.name = n, !.target = target])
    BY <2>3 DEF RunOK, NoRun, Run
  <2>5. RunInv' /\ pc' \in [Proc -> Step] /\ run' \in [Proc -> Run]
    BY <1>3, <2>2, <2>4, OneMoves DEF Start, Goto, Step
  <2>6. /\ UNCHANGED <<file, chain, built, holder, builds, dropped>>
        /\ started' = started + 1
    BY <1>3, Zenon DEF Start
  <2> QED
    BY <2>5, <2>6 DEF IInv, TypeOK
<1>4. CASE ReadSnapshot(p)
  <2> DEFINE existing == file.entry[r.name]
             over == \/ r.op = "deploy" /\ existing # None
                     \/ r.op \in UpgradeOps /\ existing = None
             next == [r EXCEPT !.existing = existing]
             at == IF r.op \in UpgradeOps THEN "build" ELSE "hash"
  <2>1. existing \in Artifact \cup {None} /\ r.op \in DeployOps \cup UpgradeOps
    BY <1>1, <1>4 DEF IInv, TypeOK, File, RunOK, ReadSnapshot, Goto
  <2>2. CASE over
    BY <1>2, <1>4, <2>2 DEF IInv, TypeOK, ReadSnapshot, Goto, Ends
  <2>3. CASE ~ over
    <3>1. RunOK(at, next) /\ at \in Step
      BY <1>1, <1>4, <2>1, <2>3 DEF RunOK, Run, ReadSnapshot, Goto, Step
    <3>2. run' = [run EXCEPT ![p] = next] /\ pc' = [pc EXCEPT ![p] = at]
      BY <1>4, <2>3 DEF ReadSnapshot, Goto
    <3>3. RunInv' /\ pc' \in [Proc -> Step] /\ run' \in [Proc -> Run]
      <4> HIDE DEF next, at
      <4> QED
        BY <3>1, <3>2, OneMoves
    <3> QED
      BY <1>4, <3>3 DEF IInv, TypeOK, ReadSnapshot
  <2> QED
    BY <2>2, <2>3
<1>5. CASE HashWasm(p)
  <2> DEFINE skip == r.op \in IfChangedOps /\ r.existing # None /\ r.existing.hash = built[r.name]
             next == [r EXCEPT !.hash = built[r.name]]
             at == IF r.op \in UpgradeOps THEN "upload" ELSE "submit"
  <2>1. r.op \in DeployOps \cup UpgradeOps /\ built[r.name] \in Hash
    BY <1>1, <1>5 DEF IInv, TypeOK, RunOK, HashWasm, Goto
  <2>2. CASE skip
    BY <1>2, <1>5, <2>2 DEF IInv, TypeOK, HashWasm, Goto, Ends
  <2>3. CASE ~ skip
    <3>1. RunOK(at, next) /\ at \in Step
      BY <1>1, <1>5, <2>1 DEF RunOK, Run, HashWasm, Goto, Step
    <3>2. run' = [run EXCEPT ![p] = next] /\ pc' = [pc EXCEPT ![p] = at]
      BY <1>5, <2>3 DEF HashWasm, Goto
    <3>3. RunInv' /\ pc' \in [Proc -> Step] /\ run' \in [Proc -> Run]
      <4> HIDE DEF next, at
      <4> QED
        BY <3>1, <3>2, OneMoves
    <3> QED
      BY <1>5, <3>3 DEF IInv, TypeOK, HashWasm
  <2> QED
    BY <2>2, <2>3
<1>6. CASE ReadUnlocked(p)
  <2> DEFINE ok == r.op = "migrate" \/ CanRestore(file, r.name, r.target)
             next == [r EXCEPT !.copy = file]
  <2>1. CASE ~ ok
    BY <1>2, <1>6, <2>1 DEF IInv, TypeOK, ReadUnlocked, Goto, Ends
  <2>2. CASE ok
    <3>1. RunOK("write", next)
      BY <1>1, <1>6, <2>2 DEF RunOK, Run, IInv, TypeOK, ReadUnlocked, Goto, UnlockedOps,
                             DeployOps, UpgradeOps
    <3>2. run' = [run EXCEPT ![p] = next] /\ pc' = [pc EXCEPT ![p] = "write"]
      BY <1>6, <2>2 DEF ReadUnlocked, Goto
    <3>3. RunInv' /\ pc' \in [Proc -> Step] /\ run' \in [Proc -> Run]
      <4> HIDE DEF next
      <4> QED
        BY <3>1, <3>2, OneMoves DEF Step
    <3> QED
      BY <1>6, <3>3 DEF IInv, TypeOK, ReadUnlocked
  <2> QED
    BY <2>1, <2>2
<1>7. CASE Rollback(p)
  <2>1. RestoreArtifactFromHistory(r.copy, r.name, r.target) \in File
    BY <1>1, <1>7, RestoreTyped DEF RunOK, Rollback, Goto
  <2> QED
    BY <1>2, <1>7, <2>1 DEF IInv, TypeOK, Rollback, Goto
<1>8. CASE Migrate(p)
  <2>1. MigrateArtifactsToV2(r.copy) \in File
    BY <1>1, <1>8 DEF RunOK, Migrate, Goto, MigrateArtifactsToV2, File
  <2> QED
    BY <1>2, <1>8, <2>1 DEF IInv, TypeOK, Migrate, Goto
<1>9. CASE Crash(p)
  BY <1>1, <1>2, <1>9 DEF IInv, TypeOK, Crash, Drops, Mutex!Leave
<1>10. CASE BuildFirst(p)
  <2>1. RunOK("hash", r)
    BY <1>1, <1>10 DEF RunOK, BuildFirst, Goto
  <2>2. run' = [run EXCEPT ![p] = r] /\ pc' = [pc EXCEPT ![p] = "hash"]
    BY <1>10 DEF BuildFirst, Goto, IInv, TypeOK
  <2>3. RunInv' /\ pc' \in [Proc -> Step] /\ run' \in [Proc -> Run]
    <3> HIDE DEF r
    <3> QED
      BY <2>1, <2>2, OneMoves DEF Step
  <2> QED
    BY <1>10, <2>3 DEF IInv, TypeOK, BuildFirst
<1>11. CASE BuildFails(p)
  BY <1>2, <1>11 DEF IInv, TypeOK, BuildFails, Goto
<1> QED
  BY <1>3, <1>4, <1>5, <1>6, <1>7, <1>8, <1>9, <1>10, <1>11

LEMMA StepTyped == IInv /\ [Next]_vars => IInv'
<1> SUFFICES ASSUME IInv, [Next]_vars PROVE IInv'
  OBVIOUS
<1>1. CASE Build
  BY <1>1 DEF IInv, TypeOK, RunInv, Build
<1>2. CASE UNCHANGED vars
  BY <1>2 DEF IInv, TypeOK, RunInv, vars
<1> QED
  BY <1>1, <1>2, DeployTyped, UpgradeTyped, RecordTyped, OtherTyped DEF Next

(* Every value stays in its range: in particular the file stays a valid
   artifacts file, and an upgrade never runs without the artifact it read. *)
THEOREM TypeCorrect == Spec => []TypeOK
<1>1. IInv => TypeOK
  BY DEF IInv
<1> QED
  BY <1>1, InitTyped, StepTyped, PTL DEF Spec

-----------------------------------------------------------------------------
(* Who is past Reread is inside the lock, and has the file as it is. *)
Serial == \A p \in Proc :
  /\ pc[p] \in {"reread", "unlock"} => holder = p
  /\ pc[p] = "write" => holder = p /\ run[p].copy = file

(* A step of one command outside the lock, or out of it, disturbs no other. *)
LEMMA OutsideStep ==
  ASSUME IInv, Serial, NEW p \in Proc, NEW at \in Step \ {"reread", "write", "unlock"}, NEW r,
         pc' = [pc EXCEPT ![p] = at], run' = [run EXCEPT ![p] = r], UNCHANGED <<file, holder>>
  PROVE  Serial'
BY DEF IInv, TypeOK, Serial

LEMMA RecordSerial ==
  ASSUME IInv, Serial, NEW p \in Proc, Record(p)
  PROVE  Serial'
<1>1. /\ pc \in [Proc -> Step]
      /\ run \in [Proc -> Run]
      /\ None \notin Proc
  BY DeploymentsAssumption DEF IInv, TypeOK
<1>2. CASE EnterLock(p)
  BY <1>1, <1>2 DEF Serial, EnterLock, Goto, Mutex!Enter
<1>3. CASE LockTimesOut(p)
  BY <1>3, OutsideStep DEF LockTimesOut, Goto, Drops, Ends, Step
<1>4. CASE Reread(p)
  <2>1. holder = p
    BY <1>4 DEF Serial, Reread, Goto
  <2>2. run' = [run EXCEPT ![p] = [run[p] EXCEPT !.copy = file]]
    BY <1>4 DEF Reread
  <2>3. run'[p].copy = file
    BY <1>1, <2>2 DEF Run
  <2> QED
    BY <1>1, <1>4, <2>1, <2>2, <2>3 DEF Serial, Reread, Goto
<1>5. CASE WriteRecord(p)
  <2>1. holder = p
    BY <1>5 DEF Serial, WriteRecord, Goto
  <2> QED
    BY <1>1, <1>5, <2>1 DEF Serial, WriteRecord, Goto, Ends
<1>6. CASE WriteFails(p)
  <2>1. holder = p
    BY <1>6 DEF Serial, WriteFails, Goto
  <2> QED
    BY <1>1, <1>6, <2>1 DEF Serial, WriteFails, Goto, Drops, Ends
<1>7. CASE LeaveLock(p)
  BY <1>1, <1>7 DEF Serial, LeaveLock, Goto, Mutex!Leave
<1> QED
  BY <1>2, <1>3, <1>4, <1>5, <1>6, <1>7 DEF Record

LEMMA InitSerial == Init => Serial
BY DEF Init, Serial

(* Deploys and upgrades keep the invariant, and with it what a write replaces
   is what it read. *)
LEMMA StepSerial ==
  ASSUME Ops \cap UnlockedOps = {}, IInv, Serial, [Next]_vars
  PROVE  /\ Serial'
         /\ \A p \in Proc : Writes(p) => run[p].copy = file
<1>1. \A p \in Proc : pc[p] \in {"read", "write"} => run[p].op \notin UnlockedOps
  BY DEF IInv, RunInv, RunOK
<1>2. \A p \in Proc : Writes(p) => run[p].copy = file
  BY DEF Serial, Writes, WriteRecord, Rollback, Migrate, Goto
<1>3. ASSUME NEW p \in Proc,
             \/ ReadUnlocked(p) \/ Rollback(p) \/ Migrate(p)
      PROVE  FALSE
  BY <1>1, <1>3 DEF ReadUnlocked, Rollback, Migrate, Goto, UnlockedOps
<1>4. ASSUME NEW p \in Proc,
             Start(p) \/ ReadSnapshot(p) \/ BuildFirst(p) \/ BuildFails(p) \/ HashWasm(p)
      PROVE  Serial'
  <2>1. CASE Start(p)
    BY <2>1, OutsideStep DEF Start, Goto, Step
  <2>2. CASE ReadSnapshot(p)
    BY <2>2, OutsideStep DEF ReadSnapshot, Goto, Step
  <2>3. CASE HashWasm(p)
    BY <2>3, OutsideStep DEF HashWasm, Goto, Step
  <2>4. CASE BuildFirst(p)
    BY <2>4 DEF IInv, TypeOK, Serial, BuildFirst, Goto
  <2>5. CASE BuildFails(p)
    BY <2>5, OutsideStep DEF BuildFails, Goto, Ends, Step
  <2> QED
    BY <1>4, <2>1, <2>2, <2>3, <2>4, <2>5
<1>5. ASSUME NEW p \in Proc, NEW at \in {"submit", "upload", "invoke"},
             TriesAgain(p, at) \/ Throws(p, at), UNCHANGED <<file, holder>>
      PROVE  Serial'
  <2>1. at \in Step \ {"reread", "write", "unlock"}
    BY DEF Step
  <2>2. CASE TriesAgain(p, at)
    BY <1>5, <2>1, <2>2, OutsideStep DEF TriesAgain, Goto
  <2>3. CASE Throws(p, at)
    BY <1>5, <2>3, OutsideStep DEF Throws, Goto, Ends, Step
  <2> QED
    BY <1>5, <2>2, <2>3
<1>6. ASSUME NEW p \in Proc, Deploy(p)
      PROVE  Serial'
  <2>1. CASE DeployLands(p)
    BY <2>1, OutsideStep DEF DeployLands, Goto, Step
  <2>2. CASE DeployLandsUnseen(p)
    BY <1>5, <2>2 DEF DeployLandsUnseen
  <2>3. CASE DeployFails(p)
    BY <1>5, <2>3 DEF DeployFails
  <2> QED
    BY <1>6, <2>1, <2>2, <2>3 DEF Deploy
<1>7. ASSUME NEW p \in Proc, Upgrade(p)
      PROVE  Serial'
  <2>1. CASE UploadWasm(p)
    BY <2>1, OutsideStep DEF UploadWasm, Goto, Step
  <2>2. CASE UploadFails(p)
    BY <1>5, <2>2 DEF UploadFails
  <2>3. CASE InvokeLands(p)
    BY <2>3 DEF IInv, TypeOK, Serial, InvokeLands, Goto
  <2>4. CASE InvokeLandsUnseen(p)
    BY <1>5, <2>4 DEF InvokeLandsUnseen
  <2>5. CASE InvokeFails(p)
    BY <1>5, <2>5 DEF InvokeFails
  <2> QED
    BY <1>7, <2>1, <2>2, <2>3, <2>4, <2>5 DEF Upgrade
<1>8. ASSUME NEW p \in Proc, Crash(p)
      PROVE  Serial'
  BY <1>8, DeploymentsAssumption DEF IInv, TypeOK, Serial, Crash, Drops, Ends, Mutex!Leave
<1>9. ASSUME Build \/ UNCHANGED vars
      PROVE  Serial'
  BY <1>9 DEF Serial, Build, vars
<1> QED
  BY <1>2, <1>3, <1>4, <1>6, <1>7, <1>8, <1>9, RecordSerial DEF Next

(* CHANGELOG: "Artifact updates are now serialized with a lockfile and re-read
   inside the lock." True of deploys and upgrades: no file another command
   wrote in between is ever replaced. *)
THEOREM LockedUpdatesSerialized ==
  ASSUME Ops \cap UnlockedOps = {}
  PROVE  Spec => UpdatesSerialized
<1>1. Init => IInv /\ Serial
  BY InitTyped, InitSerial
<1>2. IInv /\ Serial /\ [Next]_vars => (IInv /\ Serial)'
  BY StepTyped, StepSerial
<1>3. IInv /\ Serial /\ [Next]_vars => [\A p \in Proc : Writes(p) => run[p].copy = file]_vars
  BY StepSerial
<1> QED
  BY <1>1, <1>2, <1>3, PTL DEF Spec, UpdatesSerialized

-----------------------------------------------------------------------------
(* The commands that name a reason when they supersede, in a project whose
   contracts are deployed: deploy (which skips), deploy --force, deploy
   --upgrade and upgrade. *)
Superseding == Deployed /\ Ops \cap ({"deploy-if-changed"} \cup UnlockedOps) = {}

Present ==
  /\ \A n \in Name : file.entry[n] # None
  /\ \A p \in Proc : pc[p] \notin {"idle", "read", "unlock"} =>
       run[p].existing # None /\ run[p].op # "deploy"

(* What a command does to the locals that say what it records: it reads them,
   keeps them, or is over. *)
Shape(q) ==
  \/ pc'[q] = pc[q] /\ run'[q] = run[q]
  \/ pc'[q] \in {"idle", "read", "unlock"}
  \/ ReadSnapshot(q) \/ ReadUnlocked(q)
  \/ /\ pc[q] \notin {"idle", "read", "unlock"}
     /\ run'[q].existing = run[q].existing
     /\ run'[q].op = run[q].op
     /\ run'[q].name = run[q].name

LEMMA StepShape ==
  ASSUME IInv, [Next]_vars, NEW q \in Proc
  PROVE  Shape(q)
<1>1. pc \in [Proc -> Step] /\ run \in [Proc -> Run]
  BY DEF IInv, TypeOK
<1>2. CASE Build \/ UNCHANGED vars
  BY <1>2 DEF Build, vars, Shape
<1>3. ASSUME NEW p \in Proc,
             Start(p) \/ ReadSnapshot(p) \/ BuildFirst(p) \/ BuildFails(p) \/ HashWasm(p)
      PROVE  Shape(q)
  <2>1. CASE Start(p)
    <3>1. pc' = [pc EXCEPT ![p] = "read"] /\ \E r : run' = [run EXCEPT ![p] = r]
      BY <2>1 DEF Start, Goto
    <3> QED
      BY <1>1, <3>1 DEF Shape
  <2>2. CASE ReadSnapshot(p)
    <3>1. \E at, r : pc' = [pc EXCEPT ![p] = at] /\ run' = [run EXCEPT ![p] = r]
      BY <2>2 DEF ReadSnapshot, Goto
    <3> QED
      BY <1>1, <2>2, <3>1 DEF Shape
  <2>3. CASE HashWasm(p)
    BY <1>1, <2>3 DEF HashWasm, Goto, Run, Shape
  <2>4. CASE BuildFirst(p) \/ BuildFails(p)
    BY <1>1, <2>4 DEF BuildFirst, BuildFails, Goto, Ends, Shape
  <2> QED
    BY <1>3, <2>1, <2>2, <2>3, <2>4
<1>4. ASSUME NEW p \in Proc, Deploy(p)
      PROVE  Shape(q)
  BY <1>1, <1>4 DEF Deploy, DeployLands, DeployLandsUnseen, DeployFails, TriesAgain, Throws,
                    Ends, Goto, Run, Shape
<1>5. ASSUME NEW p \in Proc, Upgrade(p)
      PROVE  Shape(q)
  BY <1>1, <1>5 DEF Upgrade, UploadWasm, UploadFails, InvokeLands, InvokeLandsUnseen,
                    InvokeFails, TriesAgain, Throws, Ends, Goto, Run, Shape
<1>6. ASSUME NEW p \in Proc, Record(p)
      PROVE  Shape(q)
  BY <1>1, <1>6 DEF Record, EnterLock, LockTimesOut, Reread, WriteRecord, WriteFails,
                    LeaveLock, Drops, Ends, Goto, Run, Shape
<1>7. ASSUME NEW p \in Proc, ReadUnlocked(p) \/ Rollback(p) \/ Migrate(p) \/ Crash(p)
      PROVE  Shape(q)
  BY <1>1, <1>7 DEF ReadUnlocked, Rollback, Migrate, Crash, Drops, Ends, Goto, Shape
<1> QED
  BY <1>2, <1>3, <1>4, <1>5, <1>6, <1>7 DEF Next

(* The write of a superseding command activates one instance and forgets none. *)
LEMMA WriteActivates ==
  ASSUME Superseding, IInv, Serial, Present, NEW p \in Proc, WriteRecord(p)
  PROVE  /\ run[p].name \in Name
         /\ RecordedId(run[p]) \in Id
         /\ \A n \in Name : file'.entry[n] # None
         /\ Active(file', run[p].name) = RecordedId(run[p])
         /\ Known(file', run[p].name) = Known(file, run[p].name) \cup {RecordedId(run[p])}
         /\ \A n \in Name \ {run[p].name} : /\ Active(file', n) = Active(file, n)
                                            /\ Known(file', n) = Known(file, n)
<1> DEFINE r == run[p]
           new == [id |-> RecordedId(r), hash |-> r.hash, history |-> None]
<1>1. /\ RunOK("write", r)
      /\ r.op \in DeployOps \cup UpgradeOps
      /\ r.copy = file
      /\ r.existing # None
      /\ r.op # "deploy"
  BY DEF WriteRecord, Goto, IInv, RunInv, Serial, Present
<1>2. r.op # "deploy-if-changed" /\ r.name \in Name /\ r.hash \in Hash /\ file \in File
  BY <1>1 DEF RunOK, Superseding
<1>3. SupersedeReason(r) \in Reason
  BY <1>1, <1>2 DEF SupersedeReason, Reason, DeployOps
<1>4. RecordedId(r) \in Id /\ SupersedeType(r) \in UpgradeType \cup {None}
  BY <1>1, RecordedTyped
<1>5. new \in Artifact /\ new.history = None /\ new.id = RecordedId(r)
  BY <1>2, <1>4 DEF Artifact
<1>6. file' = UpdateArtifact(file, r.name, new, SupersedeReason(r), SupersedeType(r))
  BY <1>1 DEF WriteRecord, Recorded
<1> HIDE DEF new, r
<1>7. Known(file', r.name) = Known(file, r.name) \cup {new.id}
  BY <1>2, <1>3, <1>4, <1>5, <1>6, UpdateKeepsKnown
<1>8. /\ file'.entry[r.name] # None
      /\ Active(file', r.name) = new.id
      /\ \A n \in Name \ {r.name} : /\ file'.entry[n] = file.entry[n]
                                   /\ Active(file', n) = Active(file, n)
                                   /\ Known(file', n) = Known(file, n)
  BY <1>2, <1>3, <1>4, <1>5, <1>6, UpdateActivates
<1> QED
  BY <1>2, <1>4, <1>5, <1>7, <1>8 DEF Present, r

(* Every other step of these commands leaves the file alone. *)
LEMMA OnlyRecordsWrite ==
  ASSUME Superseding, IInv, [Next]_vars
  PROVE  file' = file \/ \E p \in Proc : WriteRecord(p)
<1>1. ASSUME NEW p \in Proc, Rollback(p) \/ Migrate(p)
      PROVE  FALSE
  BY <1>1 DEF Rollback, Migrate, Goto, IInv, RunInv, RunOK, Superseding, UnlockedOps
<1>2. ASSUME NEW p \in Proc, Deploy(p) \/ Upgrade(p)
      PROVE  file' = file
  BY <1>2 DEF Deploy, DeployLands, DeployLandsUnseen, DeployFails,
              Upgrade, UploadWasm, UploadFails, InvokeLands, InvokeLandsUnseen, InvokeFails
<1>3. ASSUME NEW p \in Proc, Record(p), ~ WriteRecord(p)
      PROVE  file' = file
  BY <1>3 DEF Record, EnterLock, LockTimesOut, Reread, WriteFails, LeaveLock
<1>4. ASSUME NEW p \in Proc,
             \/ Start(p) \/ ReadSnapshot(p) \/ BuildFirst(p) \/ BuildFails(p) \/ HashWasm(p)
             \/ ReadUnlocked(p) \/ Crash(p)
      PROVE  file' = file
  BY <1>4 DEF Start, ReadSnapshot, BuildFirst, BuildFails, HashWasm, ReadUnlocked, Crash
<1>5. CASE Build \/ UNCHANGED vars
  BY <1>5 DEF Build, vars
<1> QED
  BY <1>1, <1>2, <1>3, <1>4, <1>5 DEF Next

(* What the file and the chain hold at first. *)
LEMMA InitFile ==
  ASSUME Init
  PROVE  \E at \in [Name -> Id], hash \in [Name -> Hash] :
           /\ \A n \in Name : file.entry[n] =
                IF Deployed THEN [id |-> at[n], hash |-> hash[n], history |-> None] ELSE None
           /\ \A id \in Id : chain[id] # None => Deployed /\ \E n \in Name : at[n] = id
<1>1. PICK version \in {1, 2}, at \in [Name -> Id], hash \in [Name -> Hash] :
        /\ \A m, n \in Name : at[m] = at[n] => m = n
        /\ built = hash
        /\ file = [version |-> version,
                   entry |-> [n \in Name |->
                     IF Deployed THEN [id |-> at[n], hash |-> hash[n], history |-> None]
                     ELSE None]]
        /\ chain = [id \in Id |->
                     IF Deployed /\ \E n \in Name : at[n] = id
                       THEN hash[CHOOSE n \in Name : at[n] = id]
                       ELSE None]
  BY Zenon DEF Init
<1>2. \A id \in Id : chain[id] # None => Deployed /\ \E n \in Name : at[n] = id
  BY <1>1
<1>3. \A n \in Name : file.entry[n] =
        IF Deployed THEN [id |-> at[n], hash |-> hash[n], history |-> None] ELSE None
  BY <1>1
<1> QED
  BY <1>2, <1>3

LEMMA InitPresent == Superseding /\ Init => Present
<1> SUFFICES ASSUME Superseding, Init PROVE Present
  OBVIOUS
<1>1. PICK at \in [Name -> Id], hash \in [Name -> Hash] :
        \A n \in Name : file.entry[n] =
          IF Deployed THEN [id |-> at[n], hash |-> hash[n], history |-> None] ELSE None
  BY InitFile
<1>2. ASSUME NEW n \in Name
      PROVE  file.entry[n] # None
  <2>1. file.entry[n] = [id |-> at[n], hash |-> hash[n], history |-> None]
    BY <1>1 DEF Superseding
  <2>2. file.entry[n] \in Artifact
    BY <2>1 DEF Artifact
  <2> QED
    BY <2>2, NoneAssumption
<1> QED
  BY <1>2 DEF Init, Present

LEMMA StepPresent ==
  ASSUME Superseding, IInv, Serial, Present, [Next]_vars
  PROVE  Present'
<1>1. ASSUME NEW n \in Name
      PROVE  file'.entry[n] # None
  BY OnlyRecordsWrite, WriteActivates DEF Present
<1>2. ASSUME NEW p \in Proc, pc'[p] \notin {"idle", "read", "unlock"}
      PROVE  run'[p].existing # None /\ run'[p].op # "deploy"
  <2>1. CASE ReadSnapshot(p)
    <3>1. file.entry[run[p].name] # None
      BY <2>1 DEF ReadSnapshot, Goto, IInv, RunInv, RunOK, Present
    <3>2. run[p].op # "deploy" /\ run[p] \in Run /\ run \in [Proc -> Run] /\ pc \in [Proc -> Step]
      BY <1>2, <2>1, <3>1 DEF ReadSnapshot, Goto, IInv, TypeOK
    <3>3. run'[p] = [run[p] EXCEPT !.existing = file.entry[run[p].name]]
      BY <1>2, <2>1, <3>2 DEF ReadSnapshot, Goto
    <3> QED
      BY <3>1, <3>2, <3>3 DEF Run
  <2>2. CASE ReadUnlocked(p)
    BY <2>2 DEF ReadUnlocked, Goto, IInv, RunInv, RunOK, Superseding
  <2>3. CASE ~ ReadSnapshot(p) /\ ~ ReadUnlocked(p)
    BY <1>2, <2>3, StepShape DEF Shape, Present
  <2> QED
    BY <2>1, <2>2, <2>3
<1> QED
  BY <1>1, <1>2 DEF Present

(* What the file knows grows by the instance a command activates, and nothing
   else changes it. *)
LEMMA RegistryStep ==
  ASSUME Superseding, IInv, Serial, Present, [Next]_vars
  PROVE  /\ [Reg!Next]_<<ActiveIds, KnownIds>>
         /\ \A n \in Name : Known(file, n) \subseteq Known(file', n)
<1>1. CASE file' = file
  BY <1>1 DEF ActiveIds, KnownIds, Active, Known, HistoryIds
<1>2. ASSUME NEW p \in Proc, WriteRecord(p)
      PROVE  /\ Reg!Next
             /\ \A n \in Name : Known(file, n) \subseteq Known(file', n)
  <2> DEFINE name == run[p].name
             id == RecordedId(run[p])
  <2>1. /\ name \in Name
        /\ id \in Id
        /\ Active(file', name) = id
        /\ Known(file', name) = Known(file, name) \cup {id}
        /\ \A n \in Name \ {name} : Active(file', n) = Active(file, n) /\ Known(file', n) = Known(file, n)
    BY <1>2, WriteActivates
  <2> HIDE DEF name, id
  <2>2. ActiveIds' = [ActiveIds EXCEPT ![name] = id]
    BY <2>1 DEF ActiveIds
  <2>3. KnownIds' = [KnownIds EXCEPT ![name] = @ \cup {id}]
    BY <2>1 DEF KnownIds
  <2>4. Reg!Next
    BY <2>1, <2>2, <2>3 DEF Reg!Next, Reg!Activate
  <2> QED
    BY <2>1, <2>4
<1> QED
  BY <1>1, <1>2, OnlyRecordsWrite

LEMMA InitRegistry ==
  ASSUME Init
  PROVE  /\ Reg!Init
         /\ \A n \in Name : Known(file, n) = {Active(file, n)} \ {None}
<1>1. PICK at \in [Name -> Id], hash \in [Name -> Hash] :
        \A n \in Name : file.entry[n] =
          IF Deployed THEN [id |-> at[n], hash |-> hash[n], history |-> None] ELSE None
  BY InitFile
<1>2. ASSUME NEW n \in Name
      PROVE  /\ Active(file, n) \in Id \cup {None}
             /\ Known(file, n) = {Active(file, n)} \ {None}
  <2>1. CASE file.entry[n] = None
    BY <2>1 DEF Active, Known, HistoryIds
  <2>2. CASE file.entry[n] # None
    <3>1. file.entry[n] = [id |-> at[n], hash |-> hash[n], history |-> None]
      BY <1>1, <2>2
    <3>2. Past(file.entry[n]) = <<>>
      BY <3>1 DEF Past
    <3>3. HistoryIds(file, n) = {}
      BY <2>2, <3>2 DEF HistoryIds
    <3> QED
      BY <2>2, <3>1, <3>3 DEF Active, Known
  <2> QED
    BY <2>1, <2>2
<1> QED
  BY <1>2 DEF Reg!Init, ActiveIds, KnownIds

(* The file is a registry: a superseding command makes its instance active
   and what was active before stays known, whatever runs beside it, fails or
   dies. *)
THEOREM IsRegistry ==
  ASSUME Superseding
  PROVE  Spec => ImplementsRegistry
<1>1. Init => IInv /\ Serial /\ Present
  BY InitTyped, InitSerial, InitPresent
<1>2. IInv /\ Serial /\ Present /\ [Next]_vars => (IInv /\ Serial /\ Present)'
  <2>1. Ops \cap UnlockedOps = {}
    BY DEF Superseding
  <2> QED
    BY <2>1, StepTyped, StepSerial, StepPresent
<1>3. Init => Reg!Init
  BY InitRegistry
<1>4. IInv /\ Serial /\ Present /\ [Next]_vars => [Reg!Next]_<<ActiveIds, KnownIds>>
  BY RegistryStep
<1> QED
  BY <1>1, <1>2, <1>3, <1>4, PTL DEF Spec, ImplementsRegistry, Reg!Spec

-----------------------------------------------------------------------------
(* Where the instances are. An upgrade works on one the file knows. *)
Accounted ==
  /\ EveryInstanceAccounted
  /\ \A p \in Proc : pc[p] \notin {"idle", "read", "unlock"} /\ run[p].op \in UpgradeOps =>
       run[p].existing.id \in Known(file, run[p].name)

(* Only a deploy creates an instance, and its command then holds it, unless
   it never learns of it. *)
LEMMA ChainStep ==
  ASSUME IInv, [Next]_vars, NEW id \in Id, chain'[id] # None
  PROVE  \/ chain[id] # None
         \/ \E p \in Proc : run'[p].id = id
         \/ id \in dropped'
         \/ \E p \in Proc : pc[p] = "invoke" /\ run[p].existing.id = id
<1>1. chain \in [Id -> Hash \cup {None}] /\ run \in [Proc -> Run]
  BY DEF IInv, TypeOK
<1>2. ASSUME NEW p \in Proc, DeployLands(p)
      PROVE  chain[id] # None \/ run'[p].id = id
  BY <1>1, <1>2 DEF DeployLands, Instantiate, Run
<1>3. ASSUME NEW p \in Proc, DeployLandsUnseen(p)
      PROVE  chain[id] # None \/ id \in dropped'
  BY <1>1, <1>3 DEF DeployLandsUnseen, Instantiate
<1>4. ASSUME NEW p \in Proc, InvokeLands(p) \/ InvokeLandsUnseen(p)
      PROVE  chain[id] # None \/ (pc[p] = "invoke" /\ run[p].existing.id = id)
  BY <1>1, <1>4 DEF InvokeLands, InvokeLandsUnseen, Replace, Goto
<1>5. ASSUME NEW p \in Proc,
             \/ DeployFails(p) \/ UploadWasm(p) \/ UploadFails(p) \/ InvokeFails(p)
             \/ Start(p) \/ ReadSnapshot(p) \/ BuildFirst(p) \/ BuildFails(p) \/ HashWasm(p)
             \/ ReadUnlocked(p) \/ Rollback(p) \/ Migrate(p) \/ Crash(p)
      PROVE  chain' = chain
  BY <1>5 DEF DeployFails, UploadWasm, UploadFails, InvokeFails, Start, ReadSnapshot, BuildFirst,
              BuildFails, HashWasm,
              ReadUnlocked, Rollback, Migrate, Crash
<1>6. ASSUME NEW p \in Proc, Record(p)
      PROVE  chain' = chain
  BY <1>6 DEF Record, EnterLock, LockTimesOut, Reread, WriteRecord, WriteFails, LeaveLock
<1>7. CASE Build \/ UNCHANGED vars
  BY <1>7 DEF Build, vars
<1> QED
  BY <1>2, <1>3, <1>4, <1>5, <1>6, <1>7 DEF Next, Deploy, Upgrade

(* A command gives up the instance it holds by recording it, or it is dropped. *)
LEMMA HeldStep ==
  ASSUME IInv, [Next]_vars, NEW q \in Proc, run[q].id \in Id
  PROVE  \/ run'[q].id = run[q].id
         \/ run[q].id \in dropped'
         \/ WriteRecord(q)
<1>1. /\ run \in [Proc -> Run]
      /\ run[q].id # None
      /\ pc[q] \in {"lock", "reread", "write"}
      /\ pc[q] = "write" => run[q].op \notin UnlockedOps
  BY NoneAssumption DEF IInv, TypeOK, RunInv, RunOK, DeployOps, UnlockedOps
<1>2. ASSUME NEW p \in Proc, NEW r, run' = [run EXCEPT ![p] = r], p # q
      PROVE  run'[q].id = run[q].id
  BY <1>1, <1>2
<1>3. ASSUME NEW p \in Proc,
             \/ Start(p) \/ ReadSnapshot(p) \/ BuildFirst(p) \/ BuildFails(p) \/ HashWasm(p)
             \/ ReadUnlocked(p)
      PROVE  run'[q].id = run[q].id
  <2>1. p # q /\ (UNCHANGED run \/ \E r : run' = [run EXCEPT ![p] = r])
    BY <1>1, <1>3 DEF Start, ReadSnapshot, BuildFirst, BuildFails, Ends, HashWasm, ReadUnlocked, Goto
  <2> QED
    BY <1>2, <2>1
<1>4. ASSUME NEW p \in Proc, Deploy(p) \/ Upgrade(p)
      PROVE  run'[q].id = run[q].id
  <2>1. p # q /\ (UNCHANGED run \/ \E r : run' = [run EXCEPT ![p] = r])
    BY <1>1, <1>4 DEF Deploy, DeployLands, DeployLandsUnseen, DeployFails,
                      Upgrade, UploadWasm, UploadFails, InvokeLands, InvokeLandsUnseen,
                      InvokeFails, TriesAgain, Throws, Ends, Goto
  <2> QED
    BY <1>2, <2>1
<1>5. ASSUME NEW p \in Proc, Rollback(p) \/ Migrate(p)
      PROVE  run'[q].id = run[q].id
  <2>1. p # q /\ run' = [run EXCEPT ![p] = NoRun]
    BY <1>1, <1>5 DEF Rollback, Migrate, Goto, Ends, UnlockedOps
  <2> QED
    BY <1>2, <2>1
<1>6. ASSUME NEW p \in Proc, LockTimesOut(p) \/ WriteFails(p) \/ Crash(p)
      PROVE  run'[q].id = run[q].id \/ run[q].id \in dropped'
  BY <1>1, <1>6 DEF LockTimesOut, WriteFails, Crash, Drops, Ends
<1>7. ASSUME NEW p \in Proc, EnterLock(p) \/ LeaveLock(p) \/ Reread(p)
      PROVE  run'[q].id = run[q].id
  BY <1>1, <1>7 DEF EnterLock, LeaveLock, Reread, Run
<1>8. ASSUME NEW p \in Proc, WriteRecord(p)
      PROVE  run'[q].id = run[q].id \/ WriteRecord(q)
  BY <1>2, <1>8 DEF WriteRecord, Ends
<1>9. CASE Build \/ UNCHANGED vars
  BY <1>9 DEF Build, vars
<1> QED
  BY <1>3, <1>4, <1>5, <1>6, <1>7, <1>8, <1>9 DEF Next, Record

(* What was dropped stays dropped. *)
LEMMA DroppedStep ==
  ASSUME [Next]_vars
  PROVE  dropped \subseteq dropped'
<1>1. ASSUME NEW p \in Proc, Deploy(p) \/ Upgrade(p)
      PROVE  dropped \subseteq dropped'
  BY <1>1 DEF Deploy, DeployLands, DeployLandsUnseen, DeployFails,
              Upgrade, UploadWasm, UploadFails, InvokeLands, InvokeLandsUnseen, InvokeFails
<1>2. ASSUME NEW p \in Proc, Record(p)
      PROVE  dropped \subseteq dropped'
  BY <1>2 DEF Record, EnterLock, LockTimesOut, Reread, WriteRecord, WriteFails, LeaveLock, Drops
<1>3. ASSUME NEW p \in Proc,
             \/ Start(p) \/ ReadSnapshot(p) \/ BuildFirst(p) \/ BuildFails(p) \/ HashWasm(p)
             \/ ReadUnlocked(p) \/ Rollback(p) \/ Migrate(p) \/ Crash(p)
      PROVE  dropped \subseteq dropped'
  BY <1>3 DEF Start, ReadSnapshot, BuildFirst, BuildFails, HashWasm, ReadUnlocked, Rollback, Migrate, Crash, Drops
<1>4. CASE Build \/ UNCHANGED vars
  BY <1>4 DEF Build, vars
<1> QED
  BY <1>1, <1>2, <1>3, <1>4 DEF Next

LEMMA StepAccounted ==
  ASSUME Superseding, IInv, Serial, Present, Accounted, [Next]_vars
  PROVE  Accounted'
<1>1. \A n \in Name : Known(file, n) \subseteq Known(file', n)
  BY RegistryStep
<1>2. ASSUME NEW id \in Id, chain'[id] # None
      PROVE  \/ \E n \in Name : id \in Known(file', n)
             \/ \E p \in Proc : run'[p].id = id
             \/ id \in dropped'
  <2>1. CASE chain[id] # None
    <3>1. CASE \E n \in Name : id \in Known(file, n)
      BY <1>1, <3>1
    <3>2. CASE id \in dropped
      BY <3>2, DroppedStep
    <3>3. ASSUME NEW p \in Proc, run[p].id = id, WriteRecord(p)
          PROVE  \E n \in Name : id \in Known(file', n)
      <4>1. run[p].op \in DeployOps /\ RecordedId(run[p]) = id
        BY <3>3, NoneAssumption DEF IInv, RunInv, RunOK, RecordedId, DeployOps, UpgradeOps
      <4> QED
        BY <3>3, <4>1, WriteActivates
    <3>4. CASE \E p \in Proc : run[p].id = id
      BY <3>3, <3>4, HeldStep
    <3> QED
      BY <2>1, <3>1, <3>2, <3>4 DEF Accounted, EveryInstanceAccounted
  <2>2. ASSUME NEW p \in Proc, pc[p] = "invoke", run[p].existing.id = id
        PROVE  \E n \in Name : id \in Known(file', n)
    <3>1. run[p].op \in UpgradeOps /\ run[p].name \in Name
      BY <2>2 DEF IInv, RunInv, RunOK
    <3> QED
      BY <1>1, <2>2, <3>1 DEF Accounted
  <2> QED
    BY <1>2, <2>1, <2>2, ChainStep
<1>3. ASSUME NEW p \in Proc, pc'[p] \notin {"idle", "read", "unlock"}, run'[p].op \in UpgradeOps
      PROVE  run'[p].existing.id \in Known(file', run'[p].name)
  <2>1. pc \in [Proc -> Step] /\ run \in [Proc -> Run] /\ run[p] \in Run
    BY DEF IInv, TypeOK
  <2>2. pc[p] \notin {"idle", "unlock"} => run[p].name \in Name
    BY DEF IInv, RunInv, RunOK
  <2>3. CASE ReadSnapshot(p)
    <3> DEFINE existing == file.entry[run[p].name]
    <3>1. /\ run[p].name \in Name
          /\ existing # None
      BY <2>2, <2>3 DEF ReadSnapshot, Goto, Present
    <3>2. existing \in Artifact
      BY <3>1 DEF IInv, TypeOK, File
    <3>3. existing.id \in Known(file, run[p].name)
      BY <3>1, <3>2, NoneAssumption DEF Known, Active, Artifact
    <3>4. run'[p] = [run[p] EXCEPT !.existing = existing]
      BY <1>3, <2>1, <2>3 DEF ReadSnapshot, Goto
    <3>5. run'[p].existing = existing /\ run'[p].name = run[p].name
      BY <2>1, <3>4 DEF Run
    <3> QED
      BY <1>1, <3>1, <3>3, <3>5
  <2>4. CASE ReadUnlocked(p)
    BY <2>4 DEF ReadUnlocked, Goto, IInv, RunInv, RunOK, Superseding
  <2>5. CASE ~ ReadSnapshot(p) /\ ~ ReadUnlocked(p)
    <3>1. /\ pc[p] \notin {"idle", "read", "unlock"}
          /\ run'[p].existing = run[p].existing
          /\ run'[p].op = run[p].op
          /\ run'[p].name = run[p].name
      BY <1>3, <2>5, StepShape DEF Shape
    <3> QED
      BY <1>1, <1>3, <2>2, <3>1 DEF Accounted
  <2> QED
    BY <2>3, <2>4, <2>5
<1> QED
  BY <1>2, <1>3 DEF Accounted, EveryInstanceAccounted

LEMMA InitAccounted == Superseding /\ Init => Accounted
<1> SUFFICES ASSUME Superseding, Init PROVE Accounted
  OBVIOUS
<1>1. PICK at \in [Name -> Id], hash \in [Name -> Hash] :
        /\ \A n \in Name : file.entry[n] =
             IF Deployed THEN [id |-> at[n], hash |-> hash[n], history |-> None] ELSE None
        /\ \A id \in Id : chain[id] # None => Deployed /\ \E n \in Name : at[n] = id
  BY InitFile
<1>2. ASSUME NEW id \in Id, chain[id] # None
      PROVE  \E n \in Name : id \in Known(file, n)
  <2>1. PICK n \in Name : at[n] = id
    BY <1>1, <1>2
  <2>2. file.entry[n] = [id |-> id, hash |-> hash[n], history |-> None]
    BY <1>1, <1>2, <2>1
  <2>3. file.entry[n] # None
    BY InitPresent DEF Present
  <2> QED
    BY <2>2, <2>3, NoneAssumption DEF Known, Active
<1> QED
  BY <1>2 DEF Accounted, EveryInstanceAccounted, Init

(* No instance on the chain is lost without a reason: the file names it, a
   running command holds it, or its own command died, failed to record it or
   never learnt of it. No other command can make the file forget it. *)
THEOREM NoInstanceLost ==
  ASSUME Superseding
  PROVE  Spec => []EveryInstanceAccounted
<1> DEFINE Inv == IInv /\ Serial /\ Present /\ Accounted
<1>1. Init => Inv
  BY InitTyped, InitSerial, InitPresent, InitAccounted
<1>2. Inv /\ [Next]_vars => Inv'
  <2>1. Ops \cap UnlockedOps = {}
    BY DEF Superseding
  <2> QED
    BY <2>1, StepTyped, StepSerial, StepPresent, StepAccounted
<1>3. Inv => EveryInstanceAccounted
  BY DEF Accounted
<1> QED
  BY <1>1, <1>2, <1>3, PTL DEF Spec

-----------------------------------------------------------------------------
(* The instances a command could write under a contract: those of its copy of
   the file, the one it read as existing and the one it created. *)
Holds(r, n) ==
  (IF r.copy = None THEN {} ELSE Known(r.copy, n))
    \cup ((IF r.name # n THEN {}
           ELSE {r.id} \cup (IF r.existing = None THEN {} ELSE {r.existing.id})) \ {None})

(* The file gives id to the contract n, or some command could. *)
Claims(id, n) == id \in Known(file, n) \/ \E p \in Proc : id \in Holds(run[p], n)

(* Every instance that the file names, or could come to name, is on the chain
   and belongs to one contract. *)
Backed ==
  /\ \A n \in Name : \A id : Claims(id, n) => id \in Id /\ chain[id] # None
  /\ \A m, n \in Name : \A id : Claims(id, m) /\ Claims(id, n) => m = n

(* A command that is over holds nothing. *)
LEMMA NoRunHolds ==
  ASSUME NEW n \in Name
  PROVE  Holds(NoRun, n) = {}
BY DEF Holds, NoRun

(* A step of one command after which it holds no more than the file and the
   commands held, on a chain that forgets nothing. *)
LEMMA BackedStep ==
  ASSUME IInv, Backed, NEW p \in Proc, NEW r, run' = [run EXCEPT ![p] = r],
         \A n \in Name : \A id : id \in Holds(r, n) => Claims(id, n),
         \A n \in Name : \A id : id \in Known(file', n) => Claims(id, n),
         \A id \in Id : chain[id] # None => chain'[id] # None
  PROVE  Backed'
<1>1. ASSUME NEW n \in Name, NEW id, Claims(id, n)'
      PROVE  Claims(id, n)
  <2>1. ASSUME NEW q \in Proc, id \in Holds(run'[q], n)
        PROVE  Claims(id, n)
    <3>1. run'[q] = IF q = p THEN r ELSE run[q]
      BY DEF IInv, TypeOK
    <3> QED
      BY <2>1, <3>1 DEF Claims
  <2>2. id \in Known(file', n) \/ \E q \in Proc : id \in Holds(run'[q], n)
    BY <1>1 DEF Claims, Holds, Known, HistoryIds, Active
  <2> QED
    BY <2>1, <2>2
<1> QED
  BY <1>1 DEF Backed

(* What a command holds is claimed. *)
LEMMA HeldIsClaimed ==
  ASSUME NEW p \in Proc, NEW n \in Name, NEW id, id \in Holds(run[p], n)
  PROVE  Claims(id, n)
BY DEF Claims

(* A step of one command after which it holds no more than was claimed. *)
Kept(p) == \E r : /\ run' = [run EXCEPT ![p] = r]
                  /\ \A n \in Name : \A id : id \in Holds(r, n) => Claims(id, n)

(* A change of the other locals does not change what is held. *)
LEMMA SameHolds ==
  ASSUME NEW p \in Proc, NEW r, run' = [run EXCEPT ![p] = r],
         r.copy = run[p].copy, r.name = run[p].name, r.id = run[p].id,
         r.existing = run[p].existing
  PROVE  Kept(p)
<1>1. ASSUME NEW n \in Name, NEW id, id \in Holds(r, n)
      PROVE  Claims(id, n)
  <2>1. id \in Holds(run[p], n)
    BY <1>1 DEF Holds
  <2> QED
    BY <2>1 DEF Claims
<1> QED
  BY <1>1, Zenon DEF Kept

(* Neither does the end of a command. *)
LEMMA EndHolds ==
  ASSUME NEW p \in Proc, Ends(p)
  PROVE  Kept(p)
<1>1. \A n \in Name : \A id : id \in Holds(NoRun, n) => Claims(id, n)
  BY NoRunHolds
<1> QED
  BY <1>1, Zenon DEF Ends, Kept

(* Nor another attempt. *)
LEMMA RetryHolds ==
  ASSUME IInv, NEW p \in Proc, NEW step, TriesAgain(p, step) \/ Throws(p, step)
  PROVE  Kept(p)
<1>1. run[p] \in Run
  BY DEF IInv, TypeOK
<1>2. CASE TriesAgain(p, step)
  <2> DEFINE r == [run[p] EXCEPT !.tries = @ + 1]
  <2>1. run' = [run EXCEPT ![p] = r]
    BY <1>2 DEF TriesAgain
  <2>2. r.copy = run[p].copy /\ r.name = run[p].name /\ r.id = run[p].id /\ r.existing = run[p].existing
    BY <1>1 DEF Run
  <2> HIDE DEF r
  <2> QED
    BY <2>1, <2>2, SameHolds
<1>3. CASE Throws(p, step)
  BY <1>3, EndHolds DEF Throws
<1> QED
  BY <1>2, <1>3

(* A step that writes no file. *)
LEMMA KeptBacked ==
  ASSUME IInv, Backed, NEW p \in Proc, Kept(p), file' = file,
         \A id \in Id : chain[id] # None => chain'[id] # None
  PROVE  Backed'
<1>1. \A n \in Name : \A id : id \in Known(file', n) => Claims(id, n)
  BY DEF Claims
<1>2. PICK r : /\ run' = [run EXCEPT ![p] = r]
              /\ \A n \in Name : \A id : id \in Holds(r, n) => Claims(id, n)
  BY Zenon DEF Kept
<1> QED
  BY <1>1, <1>2, BackedStep

(* The chain while commands work on it: what is on it stays. *)
LEMMA ChainGrows ==
  ASSUME IInv, NEW id \in Id, NEW hash \in Hash, chain' = [chain EXCEPT ![id] = hash]
  PROVE  \A x \in Id : chain[x] # None => chain'[x] # None
BY NoneAssumption DEF IInv, TypeOK

(* A deploy that is seen to land holds an instance no command or file claims. *)
LEMMA LandsBacked ==
  ASSUME IInv, Backed, NEW p \in Proc, DeployLands(p)
  PROVE  Backed'
<1>1. PICK id \in Id : /\ chain[id] = None
                       /\ chain' = [chain EXCEPT ![id] = built[run[p].name]]
                       /\ run' = [run EXCEPT ![p].id = id]
  BY DEF DeployLands, Instantiate
<1>2. /\ run \in [Proc -> Run]
      /\ run[p] \in Run
      /\ run[p].name \in Name
      /\ built[run[p].name] \in Hash
      /\ chain \in [Id -> Hash \cup {None}]
      /\ file' = file
  BY DEF DeployLands, Goto, IInv, TypeOK, RunInv, RunOK
<1>3. ASSUME NEW q \in Proc, NEW n \in Name, NEW x, x \in Holds(run'[q], n)
      PROVE  Claims(x, n) \/ (x = id /\ n = run[p].name)
  <2>1. CASE q # p
    BY <1>1, <1>2, <1>3, <2>1 DEF Claims
  <2>2. CASE q = p
    <3>1. run'[p] = [run[p] EXCEPT !.id = id]
      BY <1>1, <1>2
    <3>2. /\ run'[p].id = id
          /\ run'[p].copy = run[p].copy
          /\ run'[p].name = run[p].name
          /\ run'[p].existing = run[p].existing
      BY <1>2, <3>1 DEF Run
    <3>3. x \in Holds(run[p], n) \/ (x = id /\ n = run[p].name)
      BY <1>3, <2>2, <3>2 DEF Holds
    <3> QED
      BY <3>3 DEF Claims
  <2> QED
    BY <2>1, <2>2
<1>4. ASSUME NEW n \in Name, NEW x, Claims(x, n)'
      PROVE  Claims(x, n) \/ (x = id /\ n = run[p].name)
  <2>1. x \in Known(file, n) \/ \E q \in Proc : x \in Holds(run'[q], n)
    <3>1. Known(file', n) = Known(file, n)
      BY <1>2
    <3> QED
      BY <1>4, <3>1 DEF Claims, Holds, Known, HistoryIds, Active
  <2> QED
    BY <1>3, <2>1 DEF Claims
<1>5. \A n \in Name : ~ Claims(id, n)
  BY <1>1 DEF Backed
<1>6. chain'[id] # None /\ \A x \in Id : chain[x] # None => chain'[x] # None
  BY <1>1, <1>2, NoneAssumption, ChainGrows
<1> QED
  BY <1>4, <1>5, <1>6 DEF Backed

LEMMA DeployBacked ==
  ASSUME IInv, Backed, NEW p \in Proc, Deploy(p)
  PROVE  Backed'
<1>1. CASE DeployLands(p)
  BY <1>1, LandsBacked
<1>2. CASE DeployLandsUnseen(p)
  <2>1. PICK id \in Id : chain' = [chain EXCEPT ![id] = built[run[p].name]]
    BY <1>2 DEF DeployLandsUnseen, Instantiate
  <2>2. built[run[p].name] \in Hash
    BY <1>2 DEF DeployLandsUnseen, IInv, TypeOK, RunInv, RunOK
  <2>3. \A x \in Id : chain[x] # None => chain'[x] # None
    BY <2>1, <2>2, ChainGrows
  <2>4. Kept(p) /\ file' = file
    BY <1>2, RetryHolds DEF DeployLandsUnseen
  <2> QED
    BY <2>3, <2>4, KeptBacked
<1>3. CASE DeployFails(p)
  BY <1>3, RetryHolds, KeptBacked DEF DeployFails
<1> QED
  BY <1>1, <1>2, <1>3 DEF Deploy

LEMMA UpgradeBacked ==
  ASSUME IInv, Backed, NEW p \in Proc, Upgrade(p)
  PROVE  Backed'
<1>1. /\ run \in [Proc -> Run]
      /\ run[p] \in Run
  BY DEF IInv, TypeOK
<1>2. ASSUME Replace(p), pc[p] = "invoke"
      PROVE  \A x \in Id : chain[x] # None => chain'[x] # None
  <2>1. run[p].existing.id \in Id /\ run[p].hash \in Hash
    BY <1>2 DEF IInv, RunInv, RunOK, Artifact
  <2> QED
    BY <1>2, <2>1, ChainGrows DEF Replace
<1>3. CASE UploadWasm(p)
  <2> DEFINE r == [run[p] EXCEPT !.hash = built[run[p].name]]
  <2>1. run' = [run EXCEPT ![p] = r] /\ file' = file /\ chain' = chain
    BY <1>3 DEF UploadWasm
  <2>2. r.copy = run[p].copy /\ r.name = run[p].name /\ r.id = run[p].id /\ r.existing = run[p].existing
    BY <1>1 DEF Run
  <2> HIDE DEF r
  <2> QED
    BY <2>1, <2>2, SameHolds, KeptBacked
<1>4. CASE UploadFails(p)
  BY <1>4, EndHolds, KeptBacked DEF UploadFails, Throws
<1>5. CASE InvokeLands(p)
  <2>1. run' = [run EXCEPT ![p] = run[p]] /\ file' = file
    BY <1>1, <1>5 DEF InvokeLands
  <2> QED
    BY <1>2, <1>5, <2>1, SameHolds, KeptBacked DEF InvokeLands, Goto
<1>6. CASE InvokeLandsUnseen(p)
  BY <1>2, <1>6, RetryHolds, KeptBacked DEF InvokeLandsUnseen
<1>7. CASE InvokeFails(p)
  BY <1>7, RetryHolds, KeptBacked DEF InvokeFails
<1> QED
  BY <1>3, <1>4, <1>5, <1>6, <1>7 DEF Upgrade

(* What a deploy or an upgrade writes was in its copy, or is the instance it
   worked on. *)
LEMMA RecordBacked ==
  ASSUME IInv, Backed, NEW p \in Proc, Record(p)
  PROVE  Backed'
<1>1. /\ run \in [Proc -> Run]
      /\ run[p] \in Run
  BY DEF IInv, TypeOK
<1>2. ASSUME UNCHANGED run
      PROVE  Kept(p)
  <2>1. run' = [run EXCEPT ![p] = run[p]]
    BY <1>1, <1>2
  <2> QED
    BY <2>1, SameHolds
<1>3. CASE EnterLock(p)
  BY <1>2, <1>3, KeptBacked DEF EnterLock
<1>4. CASE LockTimesOut(p)
  BY <1>4, EndHolds, KeptBacked DEF LockTimesOut, Drops
<1>5. CASE Reread(p)
  <2> DEFINE r == [run[p] EXCEPT !.copy = file]
  <2>1. run' = [run EXCEPT ![p] = r] /\ file' = file /\ chain' = chain
    BY <1>5 DEF Reread
  <2>2. r.copy = file /\ r.name = run[p].name /\ r.id = run[p].id /\ r.existing = run[p].existing
    BY <1>1 DEF Run
  <2> HIDE DEF r
  <2>3. \A n \in Name : \A id : id \in Holds(r, n) => id \in Known(file, n) \/ id \in Holds(run[p], n)
    BY <2>2 DEF Holds
  <2>4. Kept(p)
    BY <2>1, <2>3, Zenon DEF Kept, Claims
  <2> QED
    BY <2>1, <2>4, KeptBacked
<1>6. CASE WriteRecord(p)
  <2> DEFINE r == run[p]
             new == [id |-> RecordedId(r), hash |-> r.hash, history |-> None]
  <2>1. RunOK("write", r) /\ r.op \in DeployOps \cup UpgradeOps
    BY <1>6 DEF WriteRecord, Goto, IInv, RunInv
  <2>2. /\ RecordedId(r) \in Id
        /\ SupersedeReason(r) \in Reason \cup {None}
        /\ SupersedeType(r) \in UpgradeType \cup {None}
        /\ r.copy \in File /\ r.copy # None
        /\ r.name \in Name
        /\ r.hash \in Hash
    BY <2>1, RecordedTyped, NoneAssumption DEF RunOK
  <2>3. new \in Artifact /\ new.history = None /\ new.id = RecordedId(r)
    BY <2>2 DEF Artifact
  <2>4. file' = UpdateArtifact(r.copy, r.name, new, SupersedeReason(r), SupersedeType(r))
    BY <1>6 DEF WriteRecord, Recorded
  <2>5. RecordedId(r) \in Holds(r, r.name)
    <3>1. r.op \in UpgradeOps => r.existing \in Artifact
      BY <2>1 DEF RunOK
    <3> QED
      BY <2>2, <3>1, NoneAssumption DEF RecordedId, Holds
  <2> HIDE DEF new, r
  <2>6. ASSUME NEW n \in Name, NEW id, id \in Known(file', n)
        PROVE  id \in Holds(r, n)
    <3>1. id \in Known(r.copy, n) \cup (IF n = r.name THEN {new.id} ELSE {})
      BY <2>2, <2>3, <2>4, <2>6, UpdateAddsOne
    <3>2. id \in Known(r.copy, n) => id \in Holds(r, n)
      BY <2>2 DEF Holds
    <3> QED
      BY <2>3, <2>5, <3>1, <3>2
  <2>7. \A n \in Name : \A id : id \in Known(file', n) => Claims(id, n)
    BY <2>6 DEF Claims, r
  <2>8. \A n \in Name : \A id : id \in Holds(NoRun, n) => Claims(id, n)
    BY NoRunHolds
  <2> QED
    BY <1>6, <2>7, <2>8, BackedStep DEF WriteRecord, Ends
<1>7. CASE WriteFails(p)
  BY <1>7, EndHolds, KeptBacked DEF WriteFails, Drops
<1>8. CASE LeaveLock(p)
  BY <1>2, <1>8, KeptBacked DEF LeaveLock
<1> QED
  BY <1>3, <1>4, <1>5, <1>6, <1>7, <1>8 DEF Record

(* The start of a command holds nothing, its first read only what the file
   names. *)
LEMMA ReadsBacked ==
  ASSUME IInv, Backed, NEW p \in Proc,
         \/ Start(p) \/ ReadSnapshot(p) \/ BuildFirst(p) \/ BuildFails(p) \/ HashWasm(p)
         \/ ReadUnlocked(p) \/ Crash(p)
  PROVE  Backed'
<1>1. /\ run \in [Proc -> Run]
      /\ run[p] \in Run
  BY DEF IInv, TypeOK
<1>2. file' = file
  BY DEF Start, ReadSnapshot, BuildFirst, BuildFails, HashWasm, ReadUnlocked, Crash
<1>3. chain' = chain
  BY DEF Start, ReadSnapshot, BuildFirst, BuildFails, HashWasm, ReadUnlocked, Crash
<1>4. CASE Start(p)
  <2>1. PICK op \in Ops, n \in Name, target \in Id \cup {None} :
          run' = [run EXCEPT ![p] = [NoRun EXCEPT !.op = op, !.name = n, !.target = target]]
    BY <1>4 DEF Start
  <2> DEFINE r == [NoRun EXCEPT !.op = op, !.name = n, !.target = target]
  <2>2. r.copy = None /\ r.id = None /\ r.existing = None
    BY DEF NoRun
  <2>3. run' = [run EXCEPT ![p] = r]
    BY <2>1
  <2> HIDE DEF r
  <2>4. \A m \in Name : \A id : id \in Holds(r, m) => Claims(id, m)
    BY <2>2 DEF Holds
  <2>5. Kept(p)
    BY <2>3, <2>4, Zenon DEF Kept
  <2> QED
    BY <1>2, <1>3, <2>5, KeptBacked
<1>5. CASE ReadSnapshot(p)
  <2> DEFINE existing == file.entry[run[p].name]
             r == [run[p] EXCEPT !.existing = existing]
  <2>1. run' = [run EXCEPT ![p] = NoRun] \/ run' = [run EXCEPT ![p] = r]
    BY <1>5 DEF ReadSnapshot
  <2>2. r.copy = run[p].copy /\ r.name = run[p].name /\ r.id = run[p].id /\ r.existing = existing
    BY <1>1 DEF Run
  <2>3. existing # None /\ existing.id # None => existing.id \in Known(file, run[p].name)
    BY DEF Known, Active
  <2> HIDE DEF existing, r
  <2>4. \A n \in Name : \A id : id \in Holds(r, n) => id \in Known(file, n) \/ id \in Holds(run[p], n)
    BY <2>2, <2>3 DEF Holds
  <2>5. \A n \in Name : \A id : id \in Holds(r, n) => Claims(id, n)
    BY <2>4 DEF Claims
  <2>6. Kept(p)
    <3>1. ASSUME run' = [run EXCEPT ![p] = r]
          PROVE  Kept(p)
      BY <2>5, <3>1, Zenon DEF Kept
    <3>2. ASSUME run' = [run EXCEPT ![p] = NoRun]
          PROVE  Kept(p)
      BY <3>2, EndHolds DEF Ends
    <3> QED
      BY <2>1, <3>1, <3>2
  <2> QED
    BY <1>2, <1>3, <2>6, KeptBacked
<1>6. CASE BuildFirst(p)
  <2>1. run' = [run EXCEPT ![p] = run[p]]
    BY <1>1, <1>6 DEF BuildFirst
  <2> QED
    BY <1>2, <1>3, <2>1, SameHolds, KeptBacked
<1>7. CASE BuildFails(p) \/ Crash(p)
  BY <1>2, <1>3, <1>7, EndHolds, KeptBacked DEF BuildFails, Crash, Drops
<1>8. CASE HashWasm(p)
  <2> DEFINE r == [run[p] EXCEPT !.hash = built[run[p].name]]
  <2>1. run' = [run EXCEPT ![p] = NoRun] \/ run' = [run EXCEPT ![p] = r]
    BY <1>8 DEF HashWasm
  <2>2. r.copy = run[p].copy /\ r.name = run[p].name /\ r.id = run[p].id /\ r.existing = run[p].existing
    BY <1>1 DEF Run
  <2> HIDE DEF r
  <2>3. run' = [run EXCEPT ![p] = r] => Kept(p)
    BY <2>2, SameHolds
  <2>4. Kept(p)
    BY <2>1, <2>3, EndHolds DEF Ends
  <2> QED
    BY <1>2, <1>3, <2>4, KeptBacked
<1>9. CASE ReadUnlocked(p)
  <2> DEFINE r == [run[p] EXCEPT !.copy = file]
  <2>1. run' = [run EXCEPT ![p] = NoRun] \/ run' = [run EXCEPT ![p] = r]
    BY <1>9 DEF ReadUnlocked
  <2>2. r.copy = file /\ r.name = run[p].name /\ r.id = run[p].id /\ r.existing = run[p].existing
    BY <1>1 DEF Run
  <2> HIDE DEF r
  <2>3. \A n \in Name : \A id : id \in Holds(r, n) => id \in Known(file, n) \/ id \in Holds(run[p], n)
    BY <2>2 DEF Holds
  <2>4. run' = [run EXCEPT ![p] = r] => Kept(p)
    BY <2>3, Zenon DEF Kept, Claims
  <2>5. Kept(p)
    BY <2>1, <2>4, EndHolds DEF Ends
  <2> QED
    BY <1>2, <1>3, <2>5, KeptBacked
<1> QED
  BY <1>4, <1>5, <1>6, <1>7, <1>8, <1>9

(* A rollback and a migration write no instance their copy did not name. *)
LEMMA UnlockedBacked ==
  ASSUME IInv, Backed, NEW p \in Proc, Rollback(p) \/ Migrate(p)
  PROVE  Backed'
<1> DEFINE r == run[p]
<1>1. /\ RunOK("write", r)
      /\ run' = [run EXCEPT ![p] = NoRun]
      /\ chain' = chain
  BY DEF Rollback, Migrate, Goto, Ends, IInv, RunInv
<1>2. r.copy \in File /\ r.copy # None /\ r.name \in Name
  BY <1>1, NoneAssumption DEF RunOK
<1>3. ASSUME NEW n \in Name
      PROVE  Known(file', n) \subseteq Known(r.copy, n)
  <2>1. CASE Rollback(p)
    <3>1. r.target \in Id /\ CanRestore(r.copy, r.name, r.target)
      BY <1>1, <2>1 DEF Rollback, RunOK
    <3>2. file' = RestoreArtifactFromHistory(r.copy, r.name, r.target)
      BY <2>1 DEF Rollback
    <3> HIDE DEF r
    <3> QED
      BY <1>2, <3>1, <3>2, RestoreAddsNone
  <2>2. CASE Migrate(p)
    BY <1>2, <2>2, MigrateKeepsKnown DEF Migrate
  <2> QED
    BY <2>1, <2>2
<1>4. \A n \in Name : \A id : id \in Known(file', n) => Claims(id, n)
  BY <1>2, <1>3 DEF Claims, Holds
<1>5. \A n \in Name : \A id : id \in Holds(NoRun, n) => Claims(id, n)
  BY NoRunHolds
<1> QED
  BY <1>1, <1>4, <1>5, BackedStep

LEMMA StepBacked == IInv /\ Backed /\ [Next]_vars => Backed'
<1> SUFFICES ASSUME IInv, Backed, [Next]_vars PROVE Backed'
  OBVIOUS
<1>1. CASE Build \/ UNCHANGED vars
  <2>1. UNCHANGED <<file, chain, run>>
    BY <1>1 DEF Build, vars
  <2>2. ASSUME NEW n \in Name, NEW id
        PROVE  Claims(id, n)' <=> Claims(id, n)
    BY <2>1 DEF Claims, Holds, Known, HistoryIds, Active
  <2> QED
    BY <2>1, <2>2 DEF Backed
<1> QED
  BY <1>1, DeployBacked, UpgradeBacked, RecordBacked, ReadsBacked, UnlockedBacked DEF Next

LEMMA InitBacked == Init => Backed
<1> SUFFICES ASSUME Init PROVE Backed
  OBVIOUS
<1>1. PICK at \in [Name -> Id], hash \in [Name -> Hash] :
        /\ \A m, n \in Name : at[m] = at[n] => m = n
        /\ file.entry = [n \in Name |->
              IF Deployed THEN [id |-> at[n], hash |-> hash[n], history |-> None] ELSE None]
        /\ chain = [id \in Id |-> IF Deployed /\ \E n \in Name : at[n] = id
                                     THEN hash[CHOOSE n \in Name : at[n] = id] ELSE None]
  <2>1. PICK version \in {1, 2}, at \in [Name -> Id], hash \in [Name -> Hash] :
          /\ \A m, n \in Name : at[m] = at[n] => m = n
          /\ built = hash
          /\ file = [version |-> version,
                     entry |-> [n \in Name |->
                       IF Deployed THEN [id |-> at[n], hash |-> hash[n], history |-> None]
                       ELSE None]]
          /\ chain = [id \in Id |->
                       IF Deployed /\ \E n \in Name : at[n] = id
                         THEN hash[CHOOSE n \in Name : at[n] = id]
                         ELSE None]
    BY Zenon DEF Init
  <2>2. file.entry = [n \in Name |->
          IF Deployed THEN [id |-> at[n], hash |-> hash[n], history |-> None] ELSE None]
    BY <2>1
  <2> QED
    BY <2>1, <2>2, Zenon
<1>2. ASSUME NEW n \in Name, NEW id, Claims(id, n)
      PROVE  Deployed /\ id = at[n]
  <2>1. id \in Known(file, n)
    BY <1>2, NoRunHolds DEF Claims, Init
  <2>2. Deployed
    BY <1>1, <2>1 DEF Known, HistoryIds, Active
  <2>3. file.entry[n] = [id |-> at[n], hash |-> hash[n], history |-> None]
    BY <1>1, <2>2
  <2>4. Past(file.entry[n]) = <<>>
    BY <2>3 DEF Past
  <2> QED
    BY <2>1, <2>2, <2>3, <2>4 DEF Known, HistoryIds, Active
<1>3. ASSUME NEW n \in Name, Deployed
      PROVE  at[n] \in Id /\ chain[at[n]] # None
  <2>1. (CHOOSE m \in Name : at[m] = at[n]) \in Name
    OBVIOUS
  <2>2. chain[at[n]] = hash[CHOOSE m \in Name : at[m] = at[n]]
    BY <1>1, <1>3
  <2> QED
    BY <2>1, <2>2, NoneAssumption
<1>4. ASSUME NEW n \in Name, NEW id, Claims(id, n)
      PROVE  id \in Id /\ chain[id] # None
  BY <1>2, <1>3, <1>4
<1>5. ASSUME NEW m \in Name, NEW n \in Name, NEW id, Claims(id, m), Claims(id, n)
      PROVE  m = n
  <2>1. at[m] = at[n]
    BY <1>2, <1>5
  <2> QED
    BY <1>1, <2>1
<1> QED
  BY <1>4, <1>5 DEF Backed

(* Whatever fails, dies or overtakes whatever, of all commands: the file names
   only instances that are on the chain, and none of them under two contracts.
   The invariant says so of everything a command could still write, too. *)
THEOREM FileIsBacked == Spec => []RegisteredIsOnChain
<1>1. Init => IInv /\ Backed
  BY InitTyped, InitBacked
<1>2. IInv /\ Backed /\ [Next]_vars => (IInv /\ Backed)'
  BY StepTyped, StepBacked
<1>3. Backed => RegisteredIsOnChain
  BY DEF Backed, Claims, RegisteredIsOnChain
<1> QED
  BY <1>1, <1>2, <1>3, PTL DEF Spec

-----------------------------------------------------------------------------
(* What the file says of the wasm that runs. One process, no faults, no build
   by hand between the steps of a command, and no rollback, which sets the
   file back and not the chain. *)
Sequential == /\ ~ Faults
              /\ QuietBuilds
              /\ "rollback" \notin Ops
              /\ \A p, q \in Proc : p = q

(* The file f says of n what the chain c says. *)
Current(n, f, c) == f.entry[n] # None => c[f.entry[n].id] = f.entry[n].hash

(* The upgrade has run on the chain and is not in the file yet. *)
Unrecorded(at, r) == at \in {"lock", "reread", "write"} /\ r.op \in UpgradeOps

(* What the command still has to record is what the chain runs, and what it
   has read of the file is what the file says. *)
RunTells(at, r, f, c, b) ==
  /\ at = "submit" => r.hash = b[r.name]
  /\ at \in {"lock", "reread", "write"} /\ r.op \in DeployOps => c[r.id] = r.hash
  /\ at \notin {"idle", "read", "unlock"} /\ r.op \in UpgradeOps => r.existing = f.entry[r.name]
  /\ Unrecorded(at, r) => c[r.existing.id] = r.hash
  /\ at = "write" => r.copy = f

(* A file that may be behind the chain in what the command r is about to record. *)
Tells(at, r, f, c, b) ==
  /\ \A n \in Name : Current(n, f, c) \/ (Unrecorded(at, r) /\ r.name = n)
  /\ RunTells(at, r, f, c, b)

Told == /\ Proc = {} => \A n \in Name : Current(n, file, chain)
        /\ \A p \in Proc : Tells(pc[p], run[p], file, chain, built)

(* A step of the one command there is. *)
LEMMA ToldStep ==
  ASSUME Sequential, IInv, NEW p \in Proc, NEW at, NEW r,
         pc' = [pc EXCEPT ![p] = at], run' = [run EXCEPT ![p] = r],
         Tells(at, r, file', chain', built')
  PROVE  Told'
<1>1. \A q \in Proc : q = p
  BY DEF Sequential
<1>2. pc'[p] = at /\ run'[p] = r
  BY DEF IInv, TypeOK
<1>3. \A q \in Proc : Tells(pc'[q], run'[q], file', chain', built')
  BY <1>1, <1>2
<1> QED
  BY <1>3 DEF Told, Current, Unrecorded, RunTells, Tells

(* A command that is over owes the file nothing. *)
LEMMA OverTells ==
  ASSUME NEW at \in {"idle", "unlock"}, NEW f, NEW c, NEW b,
         \A n \in Name : Current(n, f, c)
  PROVE  Tells(at, NoRun, f, c, b)
BY DEF Tells, RunTells, Unrecorded

(* The steps of a command before it touches the chain. *)
LEMMA ReadsTold ==
  ASSUME Sequential, IInv, Told, NEW p \in Proc,
         Start(p) \/ ReadSnapshot(p) \/ BuildFirst(p) \/ BuildFails(p) \/ HashWasm(p)
           \/ ReadUnlocked(p)
  PROVE  Told'
<1>1. /\ Tells(pc[p], run[p], file, chain, built)
      /\ RunOK(pc[p], run[p])
      /\ run[p] \in Run
      /\ pc \in [Proc -> Step] /\ run \in [Proc -> Run]
      /\ built \in [Name -> Hash]
  BY DEF Told, IInv, TypeOK, RunInv
<1>2. file' = file /\ chain' = chain
  BY DEF Start, ReadSnapshot, BuildFirst, BuildFails, HashWasm, ReadUnlocked
<1>3. pc[p] \notin {"lock", "reread", "write"}
  BY DEF Start, ReadSnapshot, BuildFirst, BuildFails, HashWasm, ReadUnlocked, Goto
<1>4. \A n \in Name : Current(n, file', chain')
  BY <1>1, <1>2, <1>3 DEF Tells, Unrecorded
<1>5. ASSUME NEW at \in {"idle", "unlock"}, pc' = [pc EXCEPT ![p] = at], Ends(p)
      PROVE  Told'
  BY <1>4, <1>5, OverTells, ToldStep DEF Ends
<1>6. CASE Start(p)
  <2>1. PICK op \in Ops, n \in Name, target \in Id \cup {None} :
          run' = [run EXCEPT ![p] = [NoRun EXCEPT !.op = op, !.name = n, !.target = target]]
    BY <1>6 DEF Start
  <2> DEFINE r == [NoRun EXCEPT !.op = op, !.name = n, !.target = target]
  <2>2. run' = [run EXCEPT ![p] = r] /\ pc' = [pc EXCEPT ![p] = "read"]
    BY <1>6, <2>1 DEF Start, Goto
  <2> HIDE DEF r
  <2>3. Tells("read", r, file', chain', built')
    BY <1>4 DEF Tells, RunTells, Unrecorded
  <2> QED
    BY <2>2, <2>3, ToldStep
<1>7. CASE ReadSnapshot(p)
  <2> DEFINE r == [run[p] EXCEPT !.existing = file.entry[run[p].name]]
             to == IF run[p].op \in UpgradeOps THEN "build" ELSE "hash"
  <2>1. \/ pc' = [pc EXCEPT ![p] = "idle"] /\ Ends(p)
        \/ pc' = [pc EXCEPT ![p] = to] /\ run' = [run EXCEPT ![p] = r]
    BY <1>7 DEF ReadSnapshot, Goto, Ends
  <2>2. r.op = run[p].op /\ r.name = run[p].name /\ r.existing = file.entry[run[p].name]
    BY <1>1 DEF Run
  <2>3. to \in {"build", "hash"}
    OBVIOUS
  <2> HIDE DEF r, to
  <2>4. Tells(to, r, file', chain', built')
    BY <1>2, <1>4, <2>2, <2>3 DEF Tells, RunTells, Unrecorded
  <2> QED
    BY <1>5, <2>1, <2>4, ToldStep
<1>8. CASE BuildFirst(p)
  <2>1. pc[p] = "build" /\ pc' = [pc EXCEPT ![p] = "hash"] /\ run' = [run EXCEPT ![p] = run[p]]
    BY <1>1, <1>8 DEF BuildFirst, Goto
  <2>2. Tells("hash", run[p], file', chain', built')
    BY <1>1, <1>2, <1>4, <2>1 DEF Tells, RunTells, Unrecorded
  <2> QED
    BY <2>1, <2>2, ToldStep
<1>9. CASE BuildFails(p)
  BY <1>5, <1>9 DEF BuildFails, Goto
<1>10. CASE HashWasm(p)
  <2> DEFINE r == [run[p] EXCEPT !.hash = built[run[p].name]]
             to == IF run[p].op \in UpgradeOps THEN "upload" ELSE "submit"
  <2>1. \/ pc' = [pc EXCEPT ![p] = "idle"] /\ Ends(p)
        \/ pc' = [pc EXCEPT ![p] = to] /\ run' = [run EXCEPT ![p] = r]
    BY <1>10 DEF HashWasm, Goto, Ends
  <2>2. r.op = run[p].op /\ r.name = run[p].name /\ r.existing = run[p].existing
          /\ r.hash = built[run[p].name]
    BY <1>1 DEF Run
  <2>3. to \in {"upload", "submit"} /\ pc[p] = "hash" /\ built' = built
    BY <1>10 DEF HashWasm, Goto
  <2> HIDE DEF r, to
  <2>4. Tells(to, r, file', chain', built')
    BY <1>1, <1>2, <1>4, <2>2, <2>3 DEF Tells, RunTells, Unrecorded
  <2> QED
    BY <1>5, <2>1, <2>4, ToldStep
<1>11. CASE ReadUnlocked(p)
  <2> DEFINE r == [run[p] EXCEPT !.copy = file]
  <2>1. \/ pc' = [pc EXCEPT ![p] = "idle"] /\ Ends(p)
        \/ pc' = [pc EXCEPT ![p] = "write"] /\ run' = [run EXCEPT ![p] = r]
    BY <1>11 DEF ReadUnlocked, Goto, Ends
  <2>2. r.op = run[p].op /\ r.copy = file /\ r.op \in UnlockedOps
    BY <1>1, <1>11 DEF Run, ReadUnlocked
  <2> HIDE DEF r
  <2>3. Tells("write", r, file', chain', built')
    BY <1>2, <1>4, <2>2 DEF Tells, RunTells, Unrecorded, UnlockedOps, DeployOps, UpgradeOps
  <2> QED
    BY <1>5, <2>1, <2>3, ToldStep
<1> QED
  BY <1>6, <1>7, <1>8, <1>9, <1>10, <1>11

(* Another attempt, or the end, of a command that has done nothing yet. *)
LEMMA RetryTold ==
  ASSUME Sequential, IInv, Told, NEW p \in Proc, NEW at \in {"submit", "upload", "invoke"},
         TriesAgain(p, at) \/ Throws(p, at), UNCHANGED <<file, chain, built>>
  PROVE  Told'
<1>1. /\ Tells(pc[p], run[p], file, chain, built)
      /\ run[p] \in Run
      /\ pc[p] = at
  BY DEF Told, IInv, TypeOK, TriesAgain, Throws, Goto
<1>2. \A n \in Name : Current(n, file, chain)
  BY <1>1 DEF Tells, Unrecorded
<1>3. CASE TriesAgain(p, at)
  <2> DEFINE r == [run[p] EXCEPT !.tries = @ + 1]
  <2>1. run' = [run EXCEPT ![p] = r] /\ pc' = [pc EXCEPT ![p] = at]
    BY <1>3 DEF TriesAgain, Goto
  <2>2. r.op = run[p].op /\ r.name = run[p].name /\ r.existing = run[p].existing
          /\ r.hash = run[p].hash
    BY <1>1 DEF Run
  <2> HIDE DEF r
  <2>3. Tells(at, r, file', chain', built')
    BY <1>1, <1>2, <2>2 DEF Tells, RunTells, Unrecorded
  <2> QED
    BY <2>1, <2>3, ToldStep
<1>4. CASE Throws(p, at)
  BY <1>2, <1>4, OverTells, ToldStep DEF Throws, Goto, Ends
<1> QED
  BY <1>3, <1>4

(* A deploy creates an instance no entry names, with the wasm it has hashed. *)
LEMMA DeployTold ==
  ASSUME Sequential, IInv, Backed, Told, NEW p \in Proc, Deploy(p)
  PROVE  Told'
<1>1. /\ Tells(pc[p], run[p], file, chain, built)
      /\ RunOK(pc[p], run[p])
      /\ run[p] \in Run
      /\ chain \in [Id -> Hash \cup {None}]
      /\ built \in [Name -> Hash]
      /\ file \in File
  BY DEF Told, IInv, TypeOK, RunInv
<1>2. CASE DeployLands(p)
  <2>1. PICK id \in Id : /\ chain[id] = None
                         /\ chain' = [chain EXCEPT ![id] = built[run[p].name]]
                         /\ run' = [run EXCEPT ![p].id = id]
    BY <1>2 DEF DeployLands, Instantiate
  <2>2. /\ pc[p] = "submit" /\ pc' = [pc EXCEPT ![p] = "lock"]
        /\ file' = file /\ built' = built
    BY <1>2 DEF DeployLands, Goto
  <2> DEFINE r == [run[p] EXCEPT !.id = id]
  <2>3. run' = [run EXCEPT ![p] = r]
    BY <2>1
  <2>4. r.op = run[p].op /\ r.name = run[p].name /\ r.hash = run[p].hash /\ r.id = id
    BY <1>1 DEF Run
  <2> HIDE DEF r
  <2>5. ASSUME NEW n \in Name
        PROVE  Current(n, file', chain')
    <3>1. Current(n, file, chain)
      BY <1>1, <2>2 DEF Tells, Unrecorded
    <3>2. CASE file.entry[n] # None
      <4>1. file.entry[n].id \in Known(file, n)
        BY <1>1, <3>2, NoneAssumption DEF Known, Active, File, Artifact
      <4>2. file.entry[n].id \in Id /\ file.entry[n].id # id
        BY <2>1, <4>1 DEF Backed, Claims
      <4> QED
        BY <1>1, <2>1, <2>2, <3>1, <4>2 DEF Current
    <3>3. CASE file.entry[n] = None
      BY <2>2, <3>3 DEF Current
    <3> QED
      BY <3>2, <3>3
  <2>6. r.op \notin UpgradeOps /\ chain'[r.id] = r.hash
    BY <1>1, <2>1, <2>2, <2>4 DEF RunOK, DeployOps, UpgradeOps, Tells, RunTells
  <2>7. Tells("lock", r, file', chain', built')
    BY <2>5, <2>6 DEF Tells, RunTells, Unrecorded
  <2> QED
    BY <2>2, <2>3, <2>7, ToldStep
<1>3. CASE DeployLandsUnseen(p)
  BY <1>3 DEF DeployLandsUnseen, Sequential
<1>4. CASE DeployFails(p)
  BY <1>4, RetryTold DEF DeployFails
<1> QED
  BY <1>2, <1>3, <1>4 DEF Deploy

(* An upgrade replaces the wasm of the one contract it will record. *)
LEMMA UpgradeTold ==
  ASSUME Sequential, IInv, Backed, Told, NEW p \in Proc, Upgrade(p)
  PROVE  Told'
<1>1. /\ Tells(pc[p], run[p], file, chain, built)
      /\ RunOK(pc[p], run[p])
      /\ run \in [Proc -> Run]
      /\ run[p] \in Run
      /\ chain \in [Id -> Hash \cup {None}]
      /\ file \in File
  BY DEF Told, IInv, TypeOK, RunInv
<1>2. CASE UploadWasm(p)
  <2> DEFINE r == [run[p] EXCEPT !.hash = built[run[p].name]]
  <2>1. /\ run' = [run EXCEPT ![p] = r] /\ pc[p] = "upload" /\ pc' = [pc EXCEPT ![p] = "invoke"]
        /\ UNCHANGED <<file, chain, built>>
    BY <1>2 DEF UploadWasm, Goto
  <2>2. r.op = run[p].op /\ r.name = run[p].name /\ r.existing = run[p].existing
    BY <1>1 DEF Run
  <2> HIDE DEF r
  <2>3. Tells("invoke", r, file', chain', built')
    BY <1>1, <2>1, <2>2 DEF Tells, RunTells, Unrecorded
  <2> QED
    BY <2>1, <2>3, ToldStep
<1>3. CASE UploadFails(p)
  BY <1>3, RetryTold DEF UploadFails
<1>4. CASE InvokeLands(p)
  <2> DEFINE r == run[p]
             id == r.existing.id
  <2>1. /\ pc[p] = "invoke" /\ pc' = [pc EXCEPT ![p] = "lock"]
        /\ run' = [run EXCEPT ![p] = r]
        /\ chain' = [chain EXCEPT ![id] = r.hash]
        /\ file' = file
    BY <1>1, <1>4 DEF InvokeLands, Replace, Goto
  <2>2. /\ r.op \in UpgradeOps /\ r.existing \in Artifact /\ r.hash \in Hash /\ r.name \in Name
        /\ r.existing = file.entry[r.name]
    BY <1>1, <2>1 DEF RunOK, Tells, RunTells
  <2>3. id \in Id /\ id \in Known(file, r.name)
    BY <2>2, NoneAssumption DEF Artifact, Known, Active
  <2>4. ASSUME NEW n \in Name, n # r.name
        PROVE  Current(n, file', chain')
    <3>1. Current(n, file, chain)
      BY <1>1, <2>1 DEF Tells, Unrecorded
    <3>2. CASE file.entry[n] # None
      <4>1. file.entry[n].id \in Known(file, n) /\ file.entry[n].id \in Id
        BY <1>1, <3>2, NoneAssumption DEF Known, Active, File, Artifact
      <4>2. file.entry[n].id # id
        BY <2>2, <2>3, <2>4, <4>1 DEF Backed, Claims
      <4> QED
        BY <1>1, <2>1, <3>1, <4>1, <4>2 DEF Current
    <3>3. CASE file.entry[n] = None
      BY <2>1, <3>3 DEF Current
    <3> QED
      BY <3>2, <3>3
  <2>5. chain'[id] = r.hash
    BY <1>1, <2>1, <2>3
  <2>6. Tells("lock", r, file', chain', built')
    BY <2>1, <2>2, <2>4, <2>5 DEF Tells, RunTells, Unrecorded, DeployOps, UpgradeOps
  <2> QED
    BY <2>1, <2>6, ToldStep
<1>5. CASE InvokeLandsUnseen(p)
  BY <1>5 DEF InvokeLandsUnseen, Sequential
<1>6. CASE InvokeFails(p)
  BY <1>6, RetryTold DEF InvokeFails
<1> QED
  BY <1>2, <1>3, <1>4, <1>5, <1>6 DEF Upgrade

(* The record brings the entry of the command's contract up to the chain and
   leaves every other as it is. *)
LEMMA WriteTold ==
  ASSUME Sequential, IInv, Told, NEW p \in Proc, WriteRecord(p)
  PROVE  Told'
<1> DEFINE r == run[p]
           new == [id |-> RecordedId(r), hash |-> r.hash, history |-> None]
<1>1. /\ Tells("write", r, file, chain, built)
      /\ RunOK("write", r)
      /\ r.op \in DeployOps \cup UpgradeOps
      /\ pc' = [pc EXCEPT ![p] = "unlock"]
      /\ run' = [run EXCEPT ![p] = NoRun]
      /\ chain' = chain /\ file' = Recorded(r)
  BY DEF WriteRecord, Goto, Ends, Told, IInv, TypeOK, RunInv
<1>2. /\ r.copy = file /\ r.copy \in File /\ r.name \in Name /\ r.hash \in Hash
      /\ chain[RecordedId(r)] = r.hash
  BY <1>1 DEF Tells, RunTells, RunOK, RecordedId, Unrecorded, DeployOps, UpgradeOps
<1>3. /\ SupersedeReason(r) \in Reason \cup {None}
      /\ SupersedeType(r) \in UpgradeType \cup {None}
      /\ RecordedId(r) \in Id
  BY <1>1, RecordedTyped
<1>4. new \in Artifact /\ new.id = RecordedId(r) /\ new.hash = r.hash
  BY <1>2, <1>3 DEF Artifact
<1>5. file' = UpdateArtifact(file, r.name, new, SupersedeReason(r), SupersedeType(r))
  BY <1>1, <1>2 DEF Recorded
<1> HIDE DEF new, r
<1>6. /\ \A n \in Name \ {r.name} : file'.entry[n] = file.entry[n]
      /\ file'.entry[r.name].id = RecordedId(r)
      /\ file'.entry[r.name].hash = r.hash
  <2> DEFINE reason == SupersedeReason(r)
             history == AppendHistory(file.entry[r.name], reason, SupersedeType(r))
  <2>1. /\ \A n \in Name \ {r.name} : file'.entry[n] = file.entry[n]
        /\ file'.entry[r.name] =
             [id |-> new.id, hash |-> new.hash,
              history |-> IF history # None THEN history ELSE new.history]
    <3> HIDE DEF history
    <3>1. file \in File
      BY <1>2
    <3> QED
      BY <1>2, <1>3, <1>4, <1>5, <3>1, UpdateEntries DEF history
  <2> QED
    BY <1>4, <2>1
<1>7. \A n \in Name : Current(n, file', chain')
  BY <1>1, <1>2, <1>6 DEF Current, Tells
<1> QED
  BY <1>1, <1>7, OverTells, ToldStep

LEMMA RecordTold ==
  ASSUME Sequential, IInv, Told, NEW p \in Proc, Record(p)
  PROVE  Told'
<1>1. /\ Tells(pc[p], run[p], file, chain, built)
      /\ RunOK(pc[p], run[p])
      /\ run \in [Proc -> Run]
      /\ run[p] \in Run
  BY DEF Told, IInv, TypeOK, RunInv
<1>2. CASE EnterLock(p)
  <2>1. /\ pc[p] = "lock" /\ pc' = [pc EXCEPT ![p] = "reread"] /\ run' = [run EXCEPT ![p] = run[p]]
        /\ UNCHANGED <<file, chain, built>>
    BY <1>1, <1>2 DEF EnterLock, Goto
  <2>2. Tells("reread", run[p], file', chain', built')
    BY <1>1, <2>1 DEF Tells, RunTells, Unrecorded
  <2> QED
    BY <2>1, <2>2, ToldStep
<1>3. CASE Reread(p)
  <2> DEFINE r == [run[p] EXCEPT !.copy = file]
  <2>1. /\ pc[p] = "reread" /\ pc' = [pc EXCEPT ![p] = "write"] /\ run' = [run EXCEPT ![p] = r]
        /\ UNCHANGED <<file, chain, built>>
    BY <1>3 DEF Reread, Goto
  <2>2. /\ r.op = run[p].op /\ r.name = run[p].name /\ r.existing = run[p].existing
        /\ r.hash = run[p].hash /\ r.id = run[p].id /\ r.copy = file
    BY <1>1 DEF Run
  <2> HIDE DEF r
  <2>3. Tells("write", r, file', chain', built')
    BY <1>1, <2>1, <2>2 DEF Tells, RunTells, Unrecorded
  <2> QED
    BY <2>1, <2>3, ToldStep
<1>4. CASE LeaveLock(p)
  <2>1. /\ pc[p] = "unlock" /\ pc' = [pc EXCEPT ![p] = "idle"] /\ run' = [run EXCEPT ![p] = run[p]]
        /\ UNCHANGED <<file, chain, built>>
    BY <1>1, <1>4 DEF LeaveLock, Goto
  <2>2. Tells("idle", run[p], file', chain', built')
    BY <1>1, <2>1 DEF Tells, RunTells, Unrecorded
  <2> QED
    BY <2>1, <2>2, ToldStep
<1>5. CASE LockTimesOut(p) \/ WriteFails(p)
  BY <1>5 DEF LockTimesOut, WriteFails, Sequential
<1> QED
  BY <1>2, <1>3, <1>4, <1>5, WriteTold DEF Record

(* A migration changes no entry; there is no rollback. *)
LEMMA MigrateTold ==
  ASSUME Sequential, IInv, Told, NEW p \in Proc, Rollback(p) \/ Migrate(p)
  PROVE  Told'
<1>1. /\ Tells("write", run[p], file, chain, built)
      /\ RunOK("write", run[p])
      /\ pc' = [pc EXCEPT ![p] = "idle"]
      /\ run' = [run EXCEPT ![p] = NoRun]
      /\ chain' = chain
  BY DEF Rollback, Migrate, Goto, Ends, Told, IInv, TypeOK, RunInv
<1>2. Migrate(p) /\ run[p].op = "migrate"
  BY <1>1 DEF Rollback, Migrate, RunOK, Sequential
<1>3. file' = [file EXCEPT !.version = 2] /\ file \in File
  BY <1>1, <1>2 DEF Migrate, MigrateArtifactsToV2, Tells, RunTells, IInv, TypeOK
<1>4. file'.entry = file.entry
  BY <1>3 DEF File
<1>5. \A n \in Name : Current(n, file', chain')
  BY <1>1, <1>2, <1>4 DEF Current, Tells, Unrecorded, UpgradeOps
<1> QED
  BY <1>1, <1>5, OverTells, ToldStep

LEMMA StepTold == Sequential /\ IInv /\ Backed /\ Told /\ [Next]_vars => Told'
<1> SUFFICES ASSUME Sequential, IInv, Backed, Told, [Next]_vars PROVE Told'
  OBVIOUS
<1>1. CASE Build
  <2>1. /\ \A p \in Proc : pc[p] = "idle"
        /\ UNCHANGED <<file, chain, pc, run>>
    BY <1>1 DEF Build, Quiet, Sequential
  <2> QED
    BY <2>1 DEF Told, Tells, RunTells, Unrecorded, Current
<1>2. CASE UNCHANGED vars
  BY <1>2 DEF vars, Told, Tells, RunTells, Unrecorded, Current
<1>3. ASSUME NEW p \in Proc, Crash(p)
      PROVE  Told'
  BY <1>3 DEF Crash, Sequential
<1> QED
  BY <1>1, <1>2, <1>3, ReadsTold, DeployTold, UpgradeTold, RecordTold, MigrateTold DEF Next

LEMMA InitTold == Init => Told
<1> SUFFICES ASSUME Init PROVE Told
  OBVIOUS
<1>1. PICK version \in {1, 2}, at \in [Name -> Id], hash \in [Name -> Hash] :
        /\ \A m, n \in Name : at[m] = at[n] => m = n
        /\ built = hash
        /\ file = [version |-> version,
                   entry |-> [n \in Name |->
                     IF Deployed THEN [id |-> at[n], hash |-> hash[n], history |-> None]
                     ELSE None]]
        /\ chain = [id \in Id |->
                     IF Deployed /\ \E n \in Name : at[n] = id
                       THEN hash[CHOOSE n \in Name : at[n] = id]
                       ELSE None]
  BY Zenon DEF Init
<1>2. ASSUME NEW n \in Name
      PROVE  Current(n, file, chain)
  <2>1. file.entry[n] = IF Deployed THEN [id |-> at[n], hash |-> hash[n], history |-> None] ELSE None
    BY <1>1
  <2>2. CASE Deployed
    <3>1. (CHOOSE m \in Name : at[m] = at[n]) = n
      BY <1>1
    <3>2. chain[at[n]] = hash[n]
      BY <1>1, <2>2, <3>1
    <3> QED
      BY <2>1, <2>2, <3>2 DEF Current
  <2>3. CASE ~Deployed
    BY <2>1, <2>3 DEF Current
  <2> QED
    BY <2>2, <2>3
<1> QED
  BY <1>2, OverTells DEF Init, Told

(* Of commands that run one after another, with no fault in them, no build by
   hand in between and no rollback: when the command is over, the file names for
   every contract the wasm its active instance runs. *)
THEOREM QuietFileTellsHash ==
  Sequential => (Spec => []RegisteredHashIsOnChain)
<1> SUFFICES ASSUME Sequential PROVE Spec => []RegisteredHashIsOnChain
  OBVIOUS
<1>1. Init => IInv /\ Backed /\ Told
  BY InitTyped, InitBacked, InitTold
<1>2. IInv /\ Backed /\ Told /\ [Next]_vars => (IInv /\ Backed /\ Told)'
  BY StepTyped, StepBacked, StepTold
<1>3. Told => RegisteredHashIsOnChain
  BY DEF Told, Tells, Unrecorded, Current, Quiet, RegisteredHashIsOnChain
<1> QED
  BY <1>1, <1>2, <1>3, PTL DEF Spec
=============================================================================
