--------------------------- MODULE BindingsProofs ---------------------------
(* That freshness can be believed, for any number of generators, instances
   and hashes; and, for the frontend beside them, that sync-env can be relied
   on and that a generated package works. *)
EXTENDS Frontend, TLAPS

(* What the file has recorded at some time. *)
Known == (past \cup {recorded}) \ {None}

Steady == ~returned /\ ~overlapped /\ ~strayed

AnyArtifact == Artifact \cup Elsewhere

(* What was recorded or read has run; an instance that has run is on chain. *)
History == /\ Known \subseteq ran
           /\ \A i \in Id : chain[i] # None => [id |-> i, hash |-> chain[i]] \in ran
           /\ \A a \in ran : chain[a.id] # None

Locals == /\ \A p \in Proc : Running(p) => read[p] \in ran \cup Elsewhere
          /\ ~returned => /\ marker \in Known \cup Elsewhere \cup {None}
                          /\ \A p \in Proc : Running(p) => read[p] \in Known \cup Elsewhere

Alone == ~overlapped => \A p, q \in Proc : Running(p) /\ Running(q) => p = q

(* What the files are to an artifact they were generated for, when instances
   run these hashes. *)
Generated(files, runs, a) == /\ \A c \in files : c.id = a.id
                             /\ runs[a.id] = a.hash => files = {a}

(* Between code and marker. *)
Patching == /\ ~overlapped => \A p \in Proc : at[p] = "patch" => (strayed <=> Strays(p))
            /\ Steady => \A p \in Proc : at[p] = "patch" => Generated(code, chain, read[p])

(* Under a marker of the recorded artifact: a generator that is at work is at
   work on it, or for another network... *)
Aimed == ~returned /\ ~overlapped /\ recorded # None /\ marker = recorded
           => \A p \in Proc : Running(p) => read[p] \in {recorded} \cup Elsewhere

(* ...and the files are its files, unless they are another network's. *)
Marked == Steady /\ recorded # None /\ marker = recorded
            => Generated(code, chain, recorded)

IInv == TypeOK /\ History /\ Locals /\ Alone /\ Patching /\ Aimed /\ Marked

(* The artifacts of another network are none of this one. *)
LEMMA ElsewhereIsElse == Artifact \cap Elsewhere = {}
  BY BindingsAssumption DEF Artifact, Elsewhere

(* An artifact recorded for the first time is not the one of the marker. *)
LEMMA RecordMarked ==
  ASSUME IInv, NEW a \in Artifact, a \notin Known \/ returned, recorded' = a,
         Unchanged, returned => returned'
  PROVE  Aimed' /\ Marked'
<1>1. CASE returned
  BY <1>1 DEF Aimed, Marked, Steady
<1>2. CASE ~returned
  <2>1. marker # a
    BY <1>2, BindingsAssumption, ElsewhereIsElse DEF IInv, Locals
  <2> QED
    BY <2>1 DEF Aimed, Marked, Unchanged
<1> QED
  BY <1>1, <1>2

(* A transaction leaves files generated for an artifact that has run what they
   are, unless it brings the instance back to that artifact's hash. *)
LEMMA ChainKeepsGenerated ==
  ASSUME IInv, NEW i \in Id, NEW h \in Hash, chain' = [chain EXCEPT ![i] = h],
         Unchanged, NEW a \in ran, a \in Artifact, Generated(code, chain, a), a # [id |-> i, hash |-> h]
  PROVE  Generated(code', chain', a)
<1>1. code' = code /\ chain \in [Id -> Hash \cup {None}] /\ a.id \in Id
  BY DEF IInv, TypeOK, Unchanged, Artifact
<1>2. CASE a.id = i
  <2>1. a = [id |-> a.id, hash |-> a.hash]
    BY DEF Artifact
  <2>2. a.hash # h
    BY <1>2, <2>1
  <2> QED
    BY <1>1, <1>2, <2>2 DEF Generated
<1>3. CASE a.id # i
  BY <1>1, <1>3 DEF Generated
<1> QED
  BY <1>2, <1>3

(* While nothing has strayed, who is between code and marker is at work on an
   artifact of this network. *)
LEMMA PatchOfRecorded ==
  ASSUME IInv, Steady, NEW p \in Proc, at[p] = "patch"
  PROVE  /\ read[p] \in ran /\ read[p] \in Artifact
         /\ Generated(code, chain, read[p])
<1>1. read[p] \notin Elsewhere
  BY DEF IInv, Patching, Steady, Strays
<1>2. read[p] \in ran
  BY <1>1 DEF IInv, Locals, Running
<1>3. ran \subseteq Artifact
  BY DEF IInv, TypeOK
<1> QED
  BY <1>2, <1>3 DEF IInv, Patching

(* The project moves and no generator does: who has strayed still has. *)
LEMMA ProjectPatching ==
  ASSUME IInv, Unchanged, returned => returned', returned \in BOOLEAN,
         \A p \in Proc : Steady /\ at[p] = "patch" => Generated(code, chain', read[p])
  PROVE  Patching'
  BY DEF IInv, Patching, Steady, Strays, Unchanged

LEMMA DeployKeeps == IInv /\ Deploy => IInv'
<1> SUFFICES ASSUME IInv, NEW i \in Id, NEW h \in Hash,
                    chain[i] = None,
                    chain' = [chain EXCEPT ![i] = h],
                    ran' = ran \cup {[id |-> i, hash |-> h]},
                    Record([id |-> i, hash |-> h]),
                    UNCHANGED returned, Unchanged
             PROVE  IInv'
  BY DEF Deploy
<1> DEFINE a == [id |-> i, hash |-> h]
<1> USE BindingsAssumption
<1>1. TypeOK'
  BY DEF IInv, TypeOK, Record, Unchanged, Artifact
<1>2. a \in Artifact /\ a \notin ran
  BY DEF IInv, History, Artifact
<1>3. Known' = Known \cup {a}
  BY <1>2 DEF Known, Record
<1>4. History'
  BY <1>2, <1>3 DEF IInv, TypeOK, History, Artifact
<1>5. Locals'
  BY <1>3 DEF IInv, Locals, Running, Unchanged
<1>6. Alone'
  BY DEF IInv, Alone, Running, Unchanged
<1>7. Patching'
  <2>1. ASSUME NEW p \in Proc, Steady, at[p] = "patch"
        PROVE  Generated(code, chain', read[p])
    <3>1. read[p] \in ran /\ read[p] \in Artifact /\ Generated(code, chain, read[p])
      BY <2>1, PatchOfRecorded
    <3>2. Generated(code', chain', read[p])
      BY <1>2, <3>1, ChainKeepsGenerated
    <3> QED
      BY <3>2 DEF Unchanged
  <2> QED
    BY <2>1, ProjectPatching DEF IInv, TypeOK
<1>8. Aimed' /\ Marked'
  BY <1>2, RecordMarked DEF IInv, History, Record
<1> QED
  BY <1>1, <1>4, <1>5, <1>6, <1>7, <1>8 DEF IInv

LEMMA UpgradeLandsKeeps == IInv /\ UpgradeLands => IInv'
<1> SUFFICES ASSUME IInv, NEW i \in Id, NEW h \in Hash \ {chain[i]},
                    chain[i] # None,
                    chain' = [chain EXCEPT ![i] = h],
                    ran' = ran \cup {[id |-> i, hash |-> h]},
                    returned' = (returned \/ [id |-> i, hash |-> h] \in ran),
                    UNCHANGED <<recorded, past>>, Unchanged
             PROVE  IInv'
  BY DEF UpgradeLands
<1> DEFINE a == [id |-> i, hash |-> h]
<1> USE BindingsAssumption
<1>1. TypeOK'
  BY DEF IInv, TypeOK, Unchanged, Artifact
<1>2. Known' = Known
  BY DEF Known
<1>3. History'
  BY <1>2 DEF IInv, TypeOK, History, Artifact
<1>4. Locals'
  BY <1>2 DEF IInv, Locals, Running, Unchanged
<1>5. Alone'
  BY DEF IInv, Alone, Running, Unchanged
<1>6. returned \in BOOLEAN /\ returned' \in BOOLEAN /\ (~returned' => ~returned /\ a \notin ran)
  BY DEF IInv, TypeOK
<1>7. Patching'
  <2>1. CASE returned'
    BY <2>1 DEF IInv, Patching, Steady, Strays, Unchanged
  <2>2. CASE ~returned'
    <3>1. ASSUME NEW p \in Proc, Steady, at[p] = "patch"
          PROVE  Generated(code, chain', read[p])
      <4>1. read[p] \in ran /\ read[p] \in Artifact /\ Generated(code, chain, read[p])
        BY <3>1, PatchOfRecorded
      <4>2. Generated(code', chain', read[p])
        BY <1>6, <2>2, <4>1, ChainKeepsGenerated
      <4> QED
        BY <4>2 DEF Unchanged
    <3> QED
      BY <1>6, <3>1, ProjectPatching
  <2> QED
    BY <2>1, <2>2
<1>8. Aimed'
  BY <1>6 DEF IInv, Aimed, Running, Unchanged
<1>9. Marked'
  <2> SUFFICES ASSUME Steady', recorded # None, marker = recorded
               PROVE  Generated(code', chain', recorded)
    BY DEF Marked, Unchanged
  <2>1. Steady /\ a \notin ran
    BY <1>6 DEF Steady, Unchanged
  <2>2. recorded \in ran /\ recorded \in Artifact
    BY DEF IInv, History, Known, TypeOK
  <2>3. Generated(code, chain, recorded)
    BY <2>1 DEF IInv, Marked
  <2> QED
    BY <2>1, <2>2, <2>3, ChainKeepsGenerated
<1> QED
  BY <1>1, <1>3, <1>4, <1>5, <1>7, <1>8, <1>9 DEF IInv

LEMMA RecordUpgradeKeeps == IInv /\ RecordUpgrade => IInv'
<1> SUFFICES ASSUME IInv, NEW i \in Id, chain[i] # None,
                    [id |-> i, hash |-> chain[i]] # recorded,
                    [id |-> i, hash |-> chain[i]] \in past => returned,
                    Record([id |-> i, hash |-> chain[i]]),
                    UNCHANGED <<chain, ran, returned>>, Unchanged
             PROVE  IInv'
  BY DEF RecordUpgrade
<1> DEFINE a == [id |-> i, hash |-> chain[i]]
<1> USE BindingsAssumption
<1>1. a \in Artifact /\ a \in ran
  BY DEF IInv, TypeOK, History, Artifact
<1>2. TypeOK'
  BY <1>1 DEF IInv, TypeOK, Record, Unchanged
<1>3. Known' = Known \cup {a}
  BY <1>1 DEF Known, Record
<1>4. History'
  BY <1>1, <1>3 DEF IInv, History
<1>5. Locals'
  BY <1>3 DEF IInv, Locals, Running, Unchanged
<1>6. Alone'
  BY DEF IInv, Alone, Running, Unchanged
<1>7. Patching'
  BY DEF IInv, Patching, Steady, Generated, Strays, Unchanged
<1>8. Aimed' /\ Marked'
  <2>1. a \notin Known \/ returned
    BY DEF Known
  <2>2. recorded' = a
    BY DEF Record
  <2> HIDE DEF a
  <2> QED
    BY <1>1, <2>1, <2>2, RecordMarked
<1> QED
  BY <1>2, <1>4, <1>5, <1>6, <1>7, <1>8 DEF IInv

LEMMA RollbackKeeps == IInv /\ Rollback => IInv'
<1> SUFFICES ASSUME IInv, Rollback PROVE IInv'
  OBVIOUS
<1>1. Known' \subseteq Known
  BY DEF Known, Rollback
<1>2. TypeOK' /\ History'
  BY <1>1 DEF IInv, TypeOK, History, Rollback, Unchanged
<1>3. Alone'
  BY DEF IInv, Alone, Running, Rollback, Unchanged
<1>4. Locals'
  BY DEF IInv, Unchanged, Running, Locals, Rollback
<1>5. Patching' /\ Aimed' /\ Marked'
  BY DEF IInv, Unchanged, Running, Patching, Aimed, Marked, Steady, Strays, Rollback
<1> QED
  BY <1>2, <1>3, <1>4, <1>5 DEF IInv

(* A generator begins, for this network or for another. *)
LEMMA ReadsKeeps ==
  ASSUME IInv, NEW p \in Proc, NEW a, a \in {recorded} \cup Elsewhere, a # None, Reads(p, a)
  PROVE  IInv'
<1> USE BindingsAssumption
<1>1. /\ at' = [at EXCEPT ![p] = "generate"]
      /\ read' = [read EXCEPT ![p] = a]
      /\ UNCHANGED <<recorded, past, chain, ran, code, marker, returned, strayed>>
  BY DEF Reads, project
<1>2. /\ overlapped' = (overlapped \/ \E q \in Proc : Running(q))
      /\ overlapped \in BOOLEAN /\ overlapped' \in BOOLEAN
  BY DEF Reads, IInv, TypeOK
<1>3. a \in AnyArtifact
  BY DEF IInv, TypeOK, AnyArtifact
<1>4. TypeOK'
  <2>1. read' \in [Proc -> Artifact \cup Elsewhere \cup {None}]
    BY <1>1, <1>3 DEF IInv, TypeOK, AnyArtifact
  <2> QED
    BY <1>1, <1>2, <2>1 DEF IInv, TypeOK
<1>5. Known' = Known /\ a \in Known \cup Elsewhere
  BY <1>1 DEF Known
<1>6. History'
  BY <1>1, <1>5 DEF IInv, History
<1>7. \A q \in Proc : at'[q] # "idle" => \/ (Running(q) /\ read'[q] = read[q])
                                          \/ (q = p /\ read'[q] = a)
  BY <1>1 DEF IInv, TypeOK, Running
<1>8. Locals'
  BY <1>1, <1>5, <1>7 DEF IInv, Locals, History, Running
<1>9. Alone'
  BY <1>1, <1>2 DEF IInv, Alone, Running, TypeOK
<1>10. \A q \in Proc : at'[q] = "patch" => at[q] = "patch" /\ read'[q] = read[q]
  BY <1>1 DEF IInv, TypeOK
<1>11. Patching'
  BY <1>1, <1>2, <1>10 DEF IInv, Patching, Steady, Strays, Generated
<1>12. Aimed'
  BY <1>1, <1>2, <1>7 DEF IInv, Aimed, Running
<1>13. Marked'
  BY <1>1, <1>2 DEF IInv, Marked, Steady, Generated
<1> QED
  BY <1>4, <1>6, <1>8, <1>9, <1>11, <1>12, <1>13 DEF IInv

(* What is found on chain for a generator at work. *)
LEMMA FetchedIs ==
  ASSUME IInv, NEW p \in Proc, Running(p), NEW c \in Fetched(p)
  PROVE  /\ c \in AnyArtifact
         /\ ~Strays(p) => /\ c.id = read[p].id
                          /\ chain[read[p].id] = read[p].hash => c = read[p]
<1>1. CASE Strays(p)
  BY <1>1 DEF Fetched, AnyArtifact
<1>2. CASE ~Strays(p)
  <2>1. read[p] \in ran /\ read[p] \in Artifact
    BY <1>2 DEF IInv, TypeOK, Locals, Strays
  <2>2. chain[read[p].id] \in Hash
    BY <2>1 DEF IInv, TypeOK, History, Artifact
  <2>3. c = [id |-> read[p].id, hash |-> chain[read[p].id]]
    BY <1>2 DEF Fetched
  <2> QED
    BY <1>2, <2>1, <2>2, <2>3 DEF Artifact, AnyArtifact
<1> QED
  BY <1>1, <1>2

LEMMA GenerateKeeps == \A p \in Proc : IInv /\ Generate(p) => IInv'
<1> SUFFICES ASSUME NEW p \in Proc, IInv, Generate(p) PROVE IInv'
  OBVIOUS
<1>1. PICK c \in Fetched(p) : code' = {c}
  BY DEF Generate
<1>2. /\ at[p] = "generate" /\ Running(p)
      /\ strayed' = Strays(p)
      /\ at' = [at EXCEPT ![p] = "patch"]
      /\ UNCHANGED <<recorded, past, chain, ran, marker, read, returned, overlapped>>
  BY DEF Generate, project, Running
<1>3. /\ c \in AnyArtifact
      /\ ~Strays(p) => /\ c.id = read[p].id
                       /\ chain[read[p].id] = read[p].hash => c = read[p]
  BY <1>2, FetchedIs
<1>4. TypeOK'
  <2>1. strayed' \in BOOLEAN /\ code' \subseteq Artifact \cup Elsewhere
    BY <1>1, <1>2, <1>3 DEF Strays, AnyArtifact
  <2> QED
    BY <1>2, <2>1 DEF IInv, TypeOK
<1>5. \A q \in Proc : (Running(q))' <=> Running(q)
  BY <1>2 DEF IInv, TypeOK, Running
<1>6. History' /\ Locals' /\ Alone' /\ Aimed'
  BY <1>2, <1>5 DEF IInv, History, Locals, Alone, Aimed, Known
<1>7. ~Strays(p) => Generated(code', chain, read[p])
  BY <1>1, <1>3 DEF Generated
<1>8. \A q \in Proc : ~overlapped /\ at'[q] = "patch" => q = p
  BY <1>2 DEF IInv, TypeOK, Alone, Running
<1>9. Patching'
  BY <1>2, <1>7, <1>8 DEF Patching, Steady, Strays
<1>10. Marked'
  <2> SUFFICES ASSUME Steady', recorded # None, marker = recorded
               PROVE  Generated(code', chain, recorded)
    BY <1>2 DEF Marked
  <2>1. ~Strays(p) /\ ~returned /\ ~overlapped
    BY <1>2 DEF Steady
  <2>2. read[p] = recorded
    BY <1>2, <2>1 DEF IInv, Aimed, Strays
  <2> QED
    BY <1>7, <2>1, <2>2
<1> QED
  BY <1>4, <1>6, <1>9, <1>10 DEF IInv

LEMMA GenerateFailsKeeps == \A p \in Proc : IInv /\ GenerateFails(p) => IInv'
<1> SUFFICES ASSUME NEW p \in Proc, IInv, GenerateFails(p) PROVE IInv'
  OBVIOUS
<1>1. /\ at[p] = "generate" /\ Running(p)
      /\ at' = [at EXCEPT ![p] = "idle"]
      /\ read' = [read EXCEPT ![p] = None]
      /\ UNCHANGED <<recorded, past, chain, ran, marker, returned, overlapped>>
  BY DEF GenerateFails, Finish, project, Running
<1>2. \/ UNCHANGED <<code, strayed>>
      \/ /\ \E c \in Fetched(p) : code' = code \cup {c}
         /\ strayed' = (strayed \/ Strays(p))
  BY DEF GenerateFails
<1>3. TypeOK'
  <2>1. code' \subseteq Artifact \cup Elsewhere
    BY <1>1, <1>2, FetchedIs DEF IInv, TypeOK, AnyArtifact
  <2>2. strayed' \in BOOLEAN
    BY <1>2 DEF IInv, TypeOK, Strays
  <2> QED
    BY <1>1, <2>1, <2>2 DEF IInv, TypeOK
<1>4. \A q \in Proc : at'[q] # "idle" => Running(q) /\ q # p /\ at'[q] = at[q] /\ read'[q] = read[q]
  BY <1>1 DEF IInv, TypeOK, Running
<1>5. History' /\ Locals'
  BY <1>1, <1>4 DEF IInv, History, Locals, Known, Running
<1>6. Alone' /\ Aimed'
  BY <1>1, <1>4 DEF IInv, Alone, Aimed, Running
<1>7. \A q \in Proc : ~overlapped => at'[q] # "patch"
  BY <1>1, <1>4 DEF IInv, Alone, Running
<1>8. Patching'
  BY <1>1, <1>7 DEF Patching, Steady
<1>9. Marked'
  <2> SUFFICES ASSUME Steady', recorded # None, marker = recorded
               PROVE  Generated(code', chain, recorded)
    BY <1>1 DEF Marked
  <2>1. Generated(code, chain, recorded)
    BY <1>1, <1>2 DEF IInv, Marked, Steady, TypeOK
  <2>2. CASE code' = code
    BY <2>1, <2>2
  <2>3. ASSUME NEW c \in Fetched(p), code' = code \cup {c}, ~Strays(p)
        PROVE  Generated(code', chain, recorded)
    <3>1. read[p] = recorded
      BY <1>1, <2>3 DEF IInv, Aimed, Strays, Steady
    <3> QED
      BY <1>1, <2>1, <2>3, <3>1, FetchedIs DEF Generated
  <2> QED
    BY <1>2, <2>2, <2>3 DEF Steady
<1> QED
  BY <1>3, <1>5, <1>6, <1>8, <1>9 DEF IInv

(* What PatchFails, WriteMarker and WriteMarkerFails have in common. *)
LEMMA FinishKeeps ==
  ASSUME NEW p \in Proc, IInv, at[p] = "patch", Finish(p),
         UNCHANGED <<project, code, returned, overlapped>>,
         \/ marker' = read[p] /\ strayed' = FALSE
         \/ marker' \in {marker, None} /\ strayed' = strayed
  PROVE  IInv'
<1>1. /\ at' = [at EXCEPT ![p] = "idle"]
      /\ read' = [read EXCEPT ![p] = None]
      /\ UNCHANGED <<recorded, past, chain, ran>>
      /\ Running(p)
  BY DEF Finish, project, Running
<1>2. TypeOK'
  BY <1>1 DEF IInv, TypeOK
<1>3. \A q \in Proc : at'[q] # "idle" => Running(q) /\ q # p /\ at'[q] = at[q] /\ read'[q] = read[q]
  BY <1>1 DEF IInv, TypeOK, Running
<1>4. \A q \in Proc : ~overlapped => at'[q] = "idle"
  BY <1>1, <1>3 DEF IInv, Alone
<1>5. Known' = Known
  BY <1>1 DEF Known
<1>6. History' /\ Alone'
  BY <1>1, <1>3, <1>5 DEF IInv, History, Alone, Running
<1>7. Locals'
  BY <1>1, <1>3, <1>5 DEF IInv, Locals, Running
<1>8. Patching' /\ Aimed'
  BY <1>4 DEF Patching, Steady, Aimed, Running
<1>9. Marked'
  <2> SUFFICES ASSUME Steady', recorded # None, marker' = recorded
               PROVE  Generated(code, chain, recorded)
    BY <1>1 DEF Marked
  <2>1. CASE marker' = marker /\ strayed' = strayed
    BY <2>1 DEF IInv, Marked, Steady
  <2>2. CASE marker' = read[p]
    <3>1. recorded \in Artifact
      BY DEF IInv, TypeOK
    <3>2. ~Strays(p) /\ ~overlapped /\ ~returned
      BY <2>2, <3>1, ElsewhereIsElse DEF Strays, Steady
    <3>3. ~strayed
      BY <3>2 DEF IInv, Patching
    <3> QED
      BY <2>2, <3>2, <3>3 DEF IInv, Patching, Steady
  <2> QED
    BY <2>1, <2>2
<1> QED
  BY <1>2, <1>6, <1>7, <1>8, <1>9 DEF IInv

LEMMA InvInit == Init => IInv
  BY DEF Init, IInv, TypeOK, History, Known, Locals, Alone, Patching, Aimed, Marked, Running, Steady

LEMMA InvNext == IInv /\ [Next]_vars => IInv'
<1> SUFFICES ASSUME IInv, [Next]_vars PROVE IInv'
  OBVIOUS
<1>1. CASE Deploy
  BY <1>1, DeployKeeps
<1>2. CASE UpgradeLands
  BY <1>2, UpgradeLandsKeeps
<1>3. CASE RecordUpgrade
  BY <1>3, RecordUpgradeKeeps
<1>4. CASE Rollback
  BY <1>4, RollbackKeeps
<1>5. ASSUME NEW p \in Proc, Read(p) \/ ReadElsewhere(p) PROVE IInv'
  BY <1>5, ReadsKeeps, BindingsAssumption DEF Read, ReadElsewhere
<1>6. ASSUME NEW p \in Proc, Generate(p) PROVE IInv'
  BY <1>6, GenerateKeeps
<1>7. ASSUME NEW p \in Proc, GenerateFails(p) PROVE IInv'
  BY <1>7, GenerateFailsKeeps
<1>8. ASSUME NEW p \in Proc, PatchFails(p) PROVE IInv'
  BY <1>8, FinishKeeps DEF PatchFails
<1>9. ASSUME NEW p \in Proc, WriteMarker(p) PROVE IInv'
  BY <1>9, FinishKeeps DEF WriteMarker
<1>10. ASSUME NEW p \in Proc, WriteMarkerFails(p) PROVE IInv'
  BY <1>10, FinishKeeps DEF WriteMarkerFails
<1>11. CASE UNCHANGED vars
  BY <1>11 DEF vars, project, IInv, TypeOK, History, Known, Locals, Alone,
               Patching, Aimed, Marked, Generated, Steady, Strays, Running
<1> QED
  BY <1>1, <1>2, <1>3, <1>4, <1>5, <1>6, <1>7, <1>8, <1>9, <1>10, <1>11 DEF Next

LEMMA InvImplies == IInv => FreshIsTrue
<1> SUFFICES ASSUME IInv, Freshness = "fresh", ~returned, ~overlapped, ~strayed
             PROVE  Match
  BY DEF FreshIsTrue
<1>1. recorded # None /\ marker = recorded
  BY DEF Freshness
<1> QED
  BY <1>1 DEF IInv, Marked, Steady, Generated, Match

(* The variables of the bindings stay in their ranges. *)
THEOREM TypeCorrect == Spec => []TypeOK
<1>1. IInv => TypeOK
  BY DEF IInv
<1> QED
  BY <1>1, InvInit, InvNext, PTL DEF Spec

(* What evaluateBindingFreshness calls fresh was generated from the recorded
   instance and, where the record is right about the hash, from that hash:
   for any number of processes, instances, hashes, failures and deaths, until
   generators overlap or the project goes back. *)
THEOREM FreshnessCorrect == Spec => []FreshIsTrue
  BY InvInit, InvNext, InvImplies, PTL DEF Spec

-----------------------------------------------------------------------------
(* Beside the frontend the project is still that of Bindings. *)

LEMMA FrontendStep == [FrontendNext]_frontendVars => [Next]_vars
<1> SUFFICES ASSUME [FrontendNext]_frontendVars PROVE [Next]_vars
  OBVIOUS
<1>1. CASE Deploy \/ UpgradeLands \/ RecordUpgrade \/ Rollback
  BY <1>1 DEF Next
<1>2. ASSUME NEW p \in Proc,
             \/ Read(p) \/ ReadElsewhere(p) \/ Generate(p) \/ GenerateFails(p) \/ PatchFails(p)
             \/ WriteMarker(p) \/ WriteMarkerFails(p)
      PROVE  Next
  BY <1>2 DEF Next
<1>3. CASE UNCHANGED vars
  BY <1>3
<1>4. ASSUME NEW p \in Proc, SyncReads(p) \/ SyncReadsFile(p) \/ SyncWrites(p) \/ SyncDies(p) \/ Patch(p)
      PROVE  UNCHANGED vars
  BY <1>4 DEF SyncReads, SyncReadsFile, SyncWrites, SyncDies, Patch
<1>5. Edit => UNCHANGED vars
  BY DEF Edit
<1>6. UNCHANGED frontendVars => UNCHANGED vars
  BY DEF frontendVars
<1> QED
  BY <1>1, <1>2, <1>3, <1>4, <1>5, <1>6 DEF FrontendNext, GeneratorSteps, GeneratorAtOnce

(* What the frontend reads of the bindings and of the record has what Bindings
   promises. *)
THEOREM FrontendIsBindings == FrontendSpec => Spec
<1>1. FrontendInit => Init
  BY DEF FrontendInit
<1> QED
  BY <1>1, FrontendStep, PTL DEF FrontendSpec, Spec

-----------------------------------------------------------------------------
(* The env file *)

(* No line before has the key of line i. *)
First(file, i) == \A j \in 1..(i - 1) : file[j].key # file[i].key

(* What the first line of each key assigns is of artifact a, or nothing. *)
Holds(file, a) ==
  \A i \in DOMAIN file : file[i].key \in Managed /\ First(file, i) => file[i].value = a[file[i].key]
Blank(file) == \A i \in DOMAIN file : file[i].value = None

Assigned(file, key) == \E i \in DOMAIN file : file[i].key = key

(* The file is untouched by any sync, or of one artifact that has run; a sync
   at work holds one; the histories say what they are named for. *)
EnvInv ==
  /\ env \in Seq(Line) \cup {None}
  /\ env # None => Blank(env) \/ \E a \in ran : Holds(env, a)
  /\ sync \in [Proc -> [at : {"idle", "file", "write"}, artifact : Artifact \cup {None},
                        file : Seq(Line) \cup {None}]]
  /\ \A p \in Proc : sync[p].at # "idle" => sync[p].artifact \in ran
  /\ mine => env # None /\ Assigned(env, "mine")
  /\ synced # None => /\ env # None
                      /\ synced \in Artifact
                      /\ \A key \in Managed : Assigned(env, key)
                      /\ Holds(env, synced)

(* A line that is appended, unless its key is assigned. *)
Extended(file, line) == IF Assigned(file, line.key) THEN file ELSE Append(file, line)

LEMMA ExtendedHolds ==
  ASSUME NEW file \in Seq(Line), NEW a, NEW line \in Line,
         Holds(file, a), line.key \in Managed => line.value = a[line.key]
  PROVE  /\ Extended(file, line) \in Seq(Line)
         /\ Holds(Extended(file, line), a)
         /\ \A key : Assigned(Extended(file, line), key) <=> Assigned(file, key) \/ key = line.key
<1>1. CASE Assigned(file, line.key)
  BY <1>1 DEF Extended
<1>2. CASE ~Assigned(file, line.key)
  <2> DEFINE next == Append(file, line)
  <2>1. /\ next \in Seq(Line) /\ Len(next) = Len(file) + 1 /\ Len(file) \in Nat
        /\ DOMAIN next = 1..(Len(file) + 1) /\ DOMAIN file = 1..Len(file)
        /\ \A i \in 1..Len(file) : next[i] = file[i]
        /\ next[Len(file) + 1] = line
    OBVIOUS
  <2>2. Extended(file, line) = next
    BY <1>2 DEF Extended
  <2> HIDE DEF next
  <2>3. \A i \in 1..Len(file) : First(next, i) <=> First(file, i)
    BY <2>1 DEF First
  <2>4. Holds(next, a)
    <3> SUFFICES ASSUME NEW i \in DOMAIN next, next[i].key \in Managed, First(next, i)
                 PROVE  next[i].value = a[next[i].key]
      BY DEF Holds
    <3>1. CASE i \in 1..Len(file)
      BY <2>1, <2>3, <3>1 DEF Holds
    <3>2. CASE i = Len(file) + 1
      BY <2>1, <3>2
    <3> QED
      BY <2>1, <3>1, <3>2
  <2>5. \A key : Assigned(next, key) <=> Assigned(file, key) \/ key = line.key
    BY <2>1 DEF Assigned
  <2> QED
    BY <2>1, <2>2, <2>4, <2>5
<1> QED
  BY <1>1, <1>2

(* The file, or none, that an artifact is merged into. *)
LEMMA MergedHolds ==
  ASSUME NEW file \in Seq(Line) \cup {None}, NEW a \in Artifact
  PROVE  /\ Merged(file, a) \in Seq(Line)
         /\ Merged(file, a) # None
         /\ Holds(Merged(file, a), a)
         /\ \A key \in Managed : Assigned(Merged(file, a), key)
         /\ file # None /\ Assigned(file, "mine") => Assigned(Merged(file, a), "mine")
<1> DEFINE lines == IF file = None THEN <<>> ELSE file
           first(i) == \A j \in 1..(i - 1) : lines[j].key # lines[i].key
           kept == [i \in DOMAIN lines |->
                     IF lines[i].key \in Managed /\ first(i)
                       THEN [lines[i] EXCEPT !.value = a[lines[i].key]] ELSE lines[i]]
           missing(key) == IF \E i \in DOMAIN lines : lines[i].key = key
                             THEN <<>> ELSE <<Entry(a, key)>>
           merged == (kept \o missing("id")) \o missing("hash")
<1>0. Merged(file, a) = merged
  BY DEF Merged
<1>1. lines \in Seq(Line) /\ Len(lines) \in Nat /\ DOMAIN lines = 1..Len(lines)
  OBVIOUS
<1>2. \A key \in Managed : /\ a[key] \in Id \cup Hash \cup {None}
                           /\ Entry(a, key) \in Line
                           /\ Entry(a, key).key = key /\ Entry(a, key).value = a[key]
  BY DEF Managed, Artifact, Entry, Line
<1>3. \A key \in Managed : missing(key) \in Seq(Line) /\ Len(missing(key)) \in {0, 1}
  BY <1>2
<1>4. /\ kept \in Seq(Line) /\ Len(kept) = Len(lines) /\ DOMAIN kept = 1..Len(lines)
      /\ \A i \in 1..Len(lines) : /\ kept[i].key = lines[i].key
                                  /\ kept[i].key \in Managed /\ first(i) => kept[i].value = a[kept[i].key]
  <2>1. \A i \in 1..Len(lines) : /\ kept[i] \in Line
                                 /\ kept[i].key = lines[i].key
                                 /\ lines[i].key \in Managed /\ first(i)
                                      => kept[i].value = a[lines[i].key]
    <3> SUFFICES ASSUME NEW i \in 1..Len(lines)
                 PROVE  /\ kept[i] \in Line
                        /\ kept[i].key = lines[i].key
                        /\ lines[i].key \in Managed /\ first(i)
                              => kept[i].value = a[lines[i].key]
      OBVIOUS
    <3> DEFINE line == lines[i]
    <3>1. line \in Line
      BY <1>1
    <3>2. kept[i] = IF line.key \in Managed /\ first(i)
                      THEN [line EXCEPT !.value = a[line.key]] ELSE line
      BY <1>1
    <3> HIDE DEF line, kept, first
    <3>3. kept[i] \in Line /\ kept[i].key = line.key
          /\ (line.key \in Managed /\ first(i) => kept[i].value = a[line.key])
      BY <1>2, <3>1, <3>2 DEF Line
    <3> QED
      BY <3>3 DEF line
  <2>2. DOMAIN kept = 1..Len(lines)
    BY <1>1
  <2> HIDE DEF kept, first, lines
  <2>3. kept \in [1..Len(lines) -> Line]
    <3>1. kept = [i \in 1..Len(lines) |-> kept[i]]
      BY <2>2 DEF kept
    <3> QED
      BY <2>1, <3>1
  <2> QED
    BY <1>1, <2>1, <2>2, <2>3
<1>5. /\ Holds(kept, a)
      /\ \A key : Assigned(kept, key) <=> Assigned(lines, key)
  <2>1. \A i \in 1..Len(lines) : First(kept, i) <=> first(i)
    <3> HIDE DEF kept, lines
    <3> QED
      BY <1>1, <1>4 DEF First
  <2> HIDE DEF kept, lines, first
  <2> QED
    BY <1>1, <1>4, <2>1 DEF Holds, Assigned
<1>6. merged = Extended(Extended(kept, Entry(a, "id")), Entry(a, "hash"))
  <2> DEFINE one == Extended(kept, Entry(a, "id"))
  <2>1. \A key \in Managed : missing(key) = IF Assigned(lines, key) THEN <<>> ELSE <<Entry(a, key)>>
    BY DEF Assigned
  <2> HIDE DEF kept, lines, missing
  <2>2. \A s \in Seq(Line), l \in Line : s \o <<>> = s /\ s \o <<l>> = Append(s, l)
    OBVIOUS
  <2>3. one = kept \o missing("id")
    BY <1>2, <1>4, <1>5, <2>1, <2>2 DEF Extended, Managed
  <2>4. one \in Seq(Line) /\ (Assigned(one, "hash") <=> Assigned(lines, "hash"))
    BY <1>2, <1>4, <1>5, ExtendedHolds DEF Managed
  <2> HIDE DEF one
  <2>5. Extended(one, Entry(a, "hash")) = one \o missing("hash")
    BY <1>2, <2>1, <2>2, <2>4 DEF Extended, Managed
  <2> QED
    BY <2>3, <2>5 DEF one
<1> HIDE DEF kept, lines, missing, merged
<1> DEFINE one == Extended(kept, Entry(a, "id"))
           two == Extended(one, Entry(a, "hash"))
<1>7. /\ one \in Seq(Line) /\ Holds(one, a)
      /\ \A key : Assigned(one, key) <=> Assigned(lines, key) \/ key = "id"
  <2> DEFINE line == Entry(a, "id")
  <2>1. line \in Line /\ line.key = "id" /\ line.value = a[line.key]
    BY <1>2 DEF Managed
  <2>2. kept \in Seq(Line) /\ Holds(kept, a)
    BY <1>4, <1>5
  <2> HIDE DEF line
  <2>3. /\ Extended(kept, line) \in Seq(Line) /\ Holds(Extended(kept, line), a)
        /\ \A key : Assigned(Extended(kept, line), key) <=> Assigned(kept, key) \/ key = line.key
    BY <2>1, <2>2, ExtendedHolds
  <2> QED
    BY <1>5, <2>1, <2>3 DEF line
<1> HIDE DEF one
<1>8. /\ two \in Seq(Line) /\ Holds(two, a)
      /\ \A key : Assigned(two, key) <=> Assigned(lines, key) \/ key \in {"id", "hash"}
  BY <1>2, <1>7, ExtendedHolds DEF Managed
<1>9. Merged(file, a) = two
  BY <1>0, <1>6 DEF one
<1> HIDE DEF two
<1>10. file # None => lines = file
  BY DEF lines
<1> QED
  BY <1>8, <1>9, <1>10, FrontendAssumption DEF Managed

Grows == ran \subseteq ran' /\ ran' \subseteq Artifact

LEMMA RanGrows ==
  ASSUME IInv, IInv', [FrontendNext]_frontendVars
  PROVE  Grows /\ (recorded # None => recorded \in ran)
<1>1. [Next]_vars
  BY FrontendStep
<1>2. ran \subseteq ran'
  <2>1. Deploy \/ UpgradeLands => ran \subseteq ran'
    BY DEF Deploy, UpgradeLands
  <2>2. RecordUpgrade \/ Rollback \/ UNCHANGED vars => ran' = ran
    BY DEF RecordUpgrade, Rollback, vars, project
  <2>3. ASSUME NEW p \in Proc,
               \/ Read(p) \/ ReadElsewhere(p) \/ Generate(p) \/ GenerateFails(p)
               \/ PatchFails(p) \/ WriteMarker(p) \/ WriteMarkerFails(p)
        PROVE  ran' = ran
    BY <2>3 DEF Read, ReadElsewhere, Reads, Generate, GenerateFails, PatchFails, WriteMarker, WriteMarkerFails, project
  <2> QED
    BY <1>1, <2>1, <2>2, <2>3 DEF Next
<1>3. recorded # None => recorded \in ran
  BY DEF IInv, History, Known
<1> QED
  BY <1>2, <1>3 DEF Grows, IInv, TypeOK

LEMMA EnvInit == FrontendInit => EnvInv
<1> SUFFICES ASSUME FrontendInit PROVE EnvInv
  OBVIOUS
<1>1. env \in Seq(Line) \cup {None} /\ (env # None => Blank(env))
  BY FrontendAssumption DEF FrontendInit, Blank
<1>2. sync = [p \in Proc |-> Idle] /\ mine = FALSE /\ synced = None
  BY DEF FrontendInit
<1>3. sync \in [Proc -> [at : {"idle", "file", "write"}, artifact : Artifact \cup {None},
                         file : Seq(Line) \cup {None}]]
  BY <1>2 DEF Idle
<1>4. \A p \in Proc : sync[p].at = "idle"
  BY <1>2 DEF Idle
<1> QED
  BY <1>1, <1>2, <1>3, <1>4 DEF EnvInv

(* A prefix of what was merged *)
LEMMA PrefixHolds ==
  ASSUME NEW file \in Seq(Line), NEW a, Holds(file, a), NEW n \in 0..(Len(file) - 1)
  PROVE  SubSeq(file, 1, n) \in Seq(Line) /\ Holds(SubSeq(file, 1, n), a)
<1> DEFINE cut == SubSeq(file, 1, n)
<1>1. /\ cut \in Seq(Line) /\ DOMAIN cut = 1..n /\ n =< Len(file) /\ DOMAIN file = 1..Len(file)
      /\ Len(file) \in Nat /\ n \in Nat
      /\ \A i \in 1..n : cut[i] = file[i]
  OBVIOUS
<1> HIDE DEF cut
<1>2. ASSUME NEW i \in 1..n PROVE First(cut, i) <=> First(file, i)
  <2>1. cut[i] = file[i] /\ \A j \in 1..(i - 1) : j \in 1..n
    BY <1>1
  <2>2. \A j \in 1..(i - 1) : cut[j] = file[j]
    BY <1>1, <2>1
  <2> QED
    BY <2>1, <2>2, Zenon DEF First
<1>3. Holds(cut, a)
  BY <1>1, <1>2 DEF Holds
<1> QED
  BY <1>1, <1>3 DEF cut

SyncState == [at : {"idle", "file", "write"}, artifact : Artifact \cup {None},
              file : Seq(Line) \cup {None}]

(* One sync goes on; what is in the file is another matter. *)
LEMMA SyncMoves ==
  ASSUME EnvInv, Grows, NEW p \in Proc, NEW s \in SyncState, sync' = [sync EXCEPT ![p] = s],
         s.at # "idle" => s.artifact \in ran
  PROVE  /\ sync' \in [Proc -> SyncState]
         /\ \A q \in Proc : sync'[q].at # "idle" => sync'[q].artifact \in ran'
<1>1. /\ sync \in [Proc -> SyncState]
      /\ \A q \in Proc : sync[q].at # "idle" => sync[q].artifact \in ran
  BY DEF EnvInv, SyncState
<1> HIDE DEF SyncState
<1>2. \A q \in Proc : sync'[q] = IF q = p THEN s ELSE sync[q]
  BY <1>1
<1>3. sync' \in [Proc -> SyncState]
  BY <1>1
<1>4. ran \subseteq ran'
  BY DEF Grows
<1> QED
  BY <1>1, <1>2, <1>3, <1>4

(* A file that stays is of the artifacts it was of. *)
LEMMA FileStays ==
  ASSUME EnvInv, Grows, UNCHANGED <<env, mine, synced>>,
         sync' \in [Proc -> SyncState],
         \A q \in Proc : sync'[q].at # "idle" => sync'[q].artifact \in ran'
  PROVE  EnvInv'
<1>1. env' # None => Blank(env') \/ \E a \in ran' : Holds(env', a)
  BY DEF EnvInv, Grows
<1> QED
  BY <1>1 DEF EnvInv, SyncState

LEMMA EnvKept ==
  ASSUME EnvInv, Grows, UNCHANGED envVars
  PROVE  EnvInv'
<1>1. UNCHANGED <<env, mine, synced>> /\ sync' = sync
  BY DEF envVars
<1>2. /\ sync' \in [Proc -> SyncState]
      /\ \A q \in Proc : sync'[q].at # "idle" => sync'[q].artifact \in ran'
  BY <1>1 DEF EnvInv, SyncState, Grows
<1> QED
  BY <1>1, <1>2, FileStays

LEMMA IdleIsState == Idle \in SyncState /\ Idle.at = "idle"
  BY DEF Idle, SyncState

LEMMA SyncReadsKeeps ==
  ASSUME EnvInv, IInv, Grows, recorded # None => recorded \in ran, NEW p \in Proc, SyncReads(p)
  PROVE  EnvInv'
<1> DEFINE s == [Idle EXCEPT !.at = "file", !.artifact = recorded]
<1>1. recorded \in Artifact /\ recorded \in ran
  BY DEF SyncReads, IInv, TypeOK
<1>2. s \in SyncState /\ s.artifact = recorded
  BY <1>1 DEF Idle, SyncState
<1>3. sync' = [sync EXCEPT ![p] = s] /\ UNCHANGED <<env, mine, synced>>
  BY DEF SyncReads
<1> HIDE DEF s
<1>4. /\ sync' \in [Proc -> SyncState]
      /\ \A q \in Proc : sync'[q].at # "idle" => sync'[q].artifact \in ran'
  BY <1>1, <1>2, <1>3, SyncMoves
<1> QED
  BY <1>3, <1>4, FileStays

LEMMA SyncReadsFileKeeps ==
  ASSUME EnvInv, Grows, NEW p \in Proc, SyncReadsFile(p)
  PROVE  EnvInv'
<1> DEFINE s == [sync[p] EXCEPT !.at = "write", !.file = env]
<1>1. /\ sync[p] \in SyncState /\ sync[p].artifact \in ran /\ env \in Seq(Line) \cup {None}
      /\ sync \in [Proc -> SyncState]
  BY DEF SyncReadsFile, EnvInv, SyncState
<1>2. s \in SyncState /\ s.artifact = sync[p].artifact
  BY <1>1 DEF SyncState
<1>3. sync' = [sync EXCEPT ![p] = s] /\ UNCHANGED <<env, mine, synced>>
  BY <1>1 DEF SyncReadsFile
<1> HIDE DEF s
<1>4. /\ sync' \in [Proc -> SyncState]
      /\ \A q \in Proc : sync'[q].at # "idle" => sync'[q].artifact \in ran'
  BY <1>1, <1>2, <1>3, SyncMoves
<1> QED
  BY <1>3, <1>4, FileStays

LEMMA SyncWritesKeeps ==
  ASSUME EnvInv, Grows, NEW p \in Proc, SyncWrites(p)
  PROVE  EnvInv'
<1> DEFINE a == sync[p].artifact
           file == sync[p].file
<1>1. /\ sync[p] \in SyncState /\ a \in ran /\ a \in Artifact /\ file \in Seq(Line) \cup {None}
  <2>1. sync[p] \in SyncState /\ a \in ran /\ ran \subseteq Artifact
    BY DEF SyncWrites, EnvInv, SyncState, Grows
  <2> QED
    BY <2>1 DEF SyncState
<1>2. /\ env' = Merged(file, a)
      /\ mine' = (mine /\ file = env)
      /\ synced' = IF file = env THEN a ELSE None
      /\ sync' = [sync EXCEPT ![p] = Idle]
  BY DEF SyncWrites
<1> HIDE DEF a, file
<1>3. /\ env' \in Seq(Line) /\ env' # None
      /\ Holds(env', a)
      /\ \A key \in Managed : Assigned(env', key)
      /\ file # None /\ Assigned(file, "mine") => Assigned(env', "mine")
  BY <1>1, <1>2, MergedHolds
<1>4. /\ sync' \in [Proc -> SyncState]
      /\ \A q \in Proc : sync'[q].at # "idle" => sync'[q].artifact \in ran'
  BY <1>2, SyncMoves, IdleIsState
<1>5. \E b \in ran' : Holds(env', b)
  BY <1>1, <1>3 DEF Grows
<1>6. mine' => Assigned(env', "mine")
  BY <1>2, <1>3 DEF EnvInv
<1>7. synced' # None => synced' = a
  BY <1>2
<1> QED
  BY <1>1, <1>3, <1>4, <1>5, <1>6, <1>7 DEF EnvInv, SyncState

LEMMA SyncDiesKeeps ==
  ASSUME EnvInv, Grows, NEW p \in Proc, SyncDies(p)
  PROVE  EnvInv'
<1> DEFINE a == sync[p].artifact
           file == sync[p].file
<1>1. /\ sync[p] \in SyncState /\ a \in ran /\ a \in Artifact /\ file \in Seq(Line) \cup {None}
  <2>1. sync[p] \in SyncState /\ a \in ran /\ ran \subseteq Artifact
    BY DEF SyncDies, EnvInv, SyncState, Grows
  <2> QED
    BY <2>1 DEF SyncState
<1>2. /\ sync' \in [Proc -> SyncState]
      /\ \A q \in Proc : sync'[q].at # "idle" => sync'[q].artifact \in ran'
  BY SyncMoves, IdleIsState DEF SyncDies
<1>3. CASE UNCHANGED <<env, mine, synced>>
  BY <1>2, <1>3, FileStays
<1>4. ASSUME NEW n \in 0..(Len(Merged(file, a)) - 1),
             env' = SubSeq(Merged(file, a), 1, n), mine' = FALSE, synced' = None
      PROVE  EnvInv'
  <2>1. Merged(file, a) \in Seq(Line) /\ Holds(Merged(file, a), a)
    BY <1>1, MergedHolds
  <2>2. env' \in Seq(Line) /\ Holds(env', a)
    BY <1>4, <2>1, PrefixHolds
  <2>3. \E b \in ran' : Holds(env', b)
    BY <1>1, <2>2 DEF Grows
  <2> QED
    BY <1>2, <1>4, <2>2, <2>3 DEF EnvInv, SyncState
<1> QED
  BY <1>3, <1>4 DEF SyncDies

LEMMA EditKeeps ==
  ASSUME EnvInv, Grows, Edit
  PROVE  EnvInv'
<1>1. /\ env \in Seq(Line) /\ ~Assigned(env, "mine") /\ env' = Append(env, Mine)
      /\ mine' = TRUE /\ sync' = sync /\ synced' = synced
  BY DEF Edit, EnvInv, Assigned
<1>2. Mine \in Line /\ Mine.key = "mine" /\ "mine" \notin Managed /\ Mine.value = None
  BY DEF Mine, Line, Managed
<1>3. env' = Extended(env, Mine)
  BY <1>1, <1>2 DEF Extended
<1>4. \A a : Holds(env, a) => /\ env' \in Seq(Line)
                              /\ Holds(env', a)
  BY <1>1, <1>2, <1>3, ExtendedHolds
<1>5. env' \in Seq(Line) /\ env' # None
  BY <1>1, <1>2, FrontendAssumption
<1>6. Assigned(env', "mine") /\ \A key : Assigned(env, key) => Assigned(env', key)
  <2>1. \A i \in 1..Len(env) : i \in DOMAIN env' /\ env'[i] = env[i]
    BY <1>1, <1>2
  <2>2. Len(env) + 1 \in DOMAIN env' /\ env'[Len(env) + 1] = Mine
    BY <1>1, <1>2
  <2>3. DOMAIN env = 1..Len(env)
    BY <1>1
  <2> QED
    BY <1>2, <2>1, <2>2, <2>3 DEF Assigned
<1>7. Blank(env) => Blank(env')
  <2>1. /\ DOMAIN env' = 1..(Len(env) + 1) /\ DOMAIN env = 1..Len(env) /\ Len(env) \in Nat
        /\ env'[Len(env) + 1] = Mine
        /\ \A i \in 1..Len(env) : env'[i] = env[i]
    BY <1>1, <1>2
  <2>2. \A i \in DOMAIN env' : i = Len(env) + 1 \/ i \in 1..Len(env)
    BY <2>1
  <2> QED
    BY <1>2, <2>1, <2>2 DEF Blank
<1>8. Blank(env') \/ \E a \in ran' : Holds(env', a)
  BY <1>1, <1>4, <1>7, FrontendAssumption DEF EnvInv, Grows
<1>9. /\ sync' \in [Proc -> SyncState]
      /\ \A q \in Proc : sync'[q].at # "idle" => sync'[q].artifact \in ran'
  BY <1>1 DEF EnvInv, Grows, SyncState
<1>10. synced' # None => /\ synced' \in Artifact
                         /\ \A key \in Managed : Assigned(env', key)
                         /\ Holds(env', synced')
  BY <1>1, <1>4, <1>6 DEF EnvInv
<1> QED
  BY <1>5, <1>6, <1>8, <1>9, <1>10 DEF EnvInv, SyncState

LEMMA EnvNext ==
  ASSUME EnvInv, IInv, IInv', [FrontendNext]_frontendVars
  PROVE  EnvInv'
<1>1. Grows /\ (recorded # None => recorded \in ran)
  BY RanGrows
<1>2. CASE UNCHANGED envVars
  BY <1>1, <1>2, EnvKept
<1>3. CASE Edit
  BY <1>1, <1>3, EditKeeps
<1>4. ASSUME NEW p \in Proc, SyncReads(p) \/ SyncReadsFile(p) \/ SyncWrites(p) \/ SyncDies(p)
      PROVE  EnvInv'
  BY <1>1, <1>4, SyncReadsKeeps, SyncReadsFileKeeps, SyncWritesKeeps, SyncDiesKeeps
<1>5. ASSUME NEW p \in Proc, Patch(p) PROVE UNCHANGED envVars
  BY <1>5 DEF Patch
<1>6. UNCHANGED frontendVars => UNCHANGED envVars
  BY DEF frontendVars
<1> QED
  BY <1>2, <1>3, <1>4, <1>5, <1>6 DEF FrontendNext

(* In a file without duplicates a key has the value of its line. *)
LEMMA ValueOfLine ==
  ASSUME env \in Seq(Line), Distinct(env), NEW key
  PROVE  /\ ~Assigned(env, key) => Effective(key) = None /\ Parsed(key) = None
         /\ \A i \in DOMAIN env : env[i].key = key
              => /\ Effective(key) = env[i].value
                 /\ Parsed(key) = IF env[i].form = "plain" THEN env[i].value ELSE None
<1>1. ~Assigned(env, key) => Effective(key) = None /\ Parsed(key) = None
  BY DEF Assigned, Effective, Parsed
<1>2. ASSUME NEW i \in DOMAIN env, env[i].key = key
      PROVE  /\ Effective(key) = env[i].value
             /\ Parsed(key) = IF env[i].form = "plain" THEN env[i].value ELSE None
  <2>1. \A j \in DOMAIN env : env[j].key = key => j = i
    BY <1>2 DEF Distinct
  <2>2. \A j \in DOMAIN env : j =< j
    OBVIOUS
  <2> DEFINE last == CHOOSE j \in DOMAIN env : env[j].key = key /\ \A k \in DOMAIN env : env[k].key = key => k =< j
             plain == CHOOSE j \in DOMAIN env :
                        /\ env[j].key = key /\ env[j].form = "plain"
                        /\ \A k \in DOMAIN env : env[k].key = key /\ env[k].form = "plain" => k =< j
  <2>3. last = i
    BY <1>2, <2>1, <2>2
  <2>4. Effective(key) = env[last].value
    BY <1>2 DEF Effective
  <2>5. env[i].form = "plain" => plain = i /\ Parsed(key) = env[plain].value
    <3>1. env[i].form = "plain" => plain = i
      BY <1>2, <2>1, <2>2
    <3>2. env[i].form = "plain" => Parsed(key) = env[plain].value
      BY <1>2 DEF Parsed
    <3> QED
      BY <3>1, <3>2
  <2>6. env[i].form # "plain" => Parsed(key) = None
    BY <1>2, <2>1 DEF Parsed
  <2> QED
    BY <2>3, <2>4, <2>5, <2>6
<1> QED
  BY <1>1, <1>2

LEMMA EnvImplies ==
  ASSUME EnvInv, IInv
  PROVE  EnvIsTrue
<1>1. EnvOfOneArtifact
  <2> SUFFICES ASSUME env # None, Distinct(env), ~Blank(env)
               PROVE  \E a \in ran : \A key \in Managed : Effective(key) \in {None, a[key]}
    <3>1. ASSUME env # None, Distinct(env), Blank(env)
          PROVE  \A key \in Managed : Effective(key) = None
      BY <3>1, ValueOfLine DEF EnvInv, Blank, Assigned
    <3> QED
      BY <3>1 DEF EnvOfOneArtifact
  <2>1. PICK a \in ran : Holds(env, a)
    BY DEF EnvInv
  <2>2. \A i \in DOMAIN env : First(env, i)
    BY DEF First, Distinct, EnvInv
  <2>3. \A key \in Managed : Effective(key) \in {None, a[key]}
    BY <2>1, <2>2, ValueOfLine DEF EnvInv, Holds, Assigned
  <2> QED
    BY <2>3
<1>2. ReportIsTrue
  <2> SUFFICES ASSUME InSync, Distinct(env), NEW key \in Managed
               PROVE  Effective(key) = recorded[key]
    BY DEF ReportIsTrue
  <2>1. /\ env \in Seq(Line) /\ recorded \in Artifact /\ Parsed(key) = recorded[key]
    BY DEF InSync, EnvInv, IInv, TypeOK
  <2>2. recorded[key] # None
    BY <2>1, FrontendAssumption, BindingsAssumption DEF Artifact, Managed
  <2>3. PICK i \in DOMAIN env : env[i].key = key
    BY <2>1, <2>2, ValueOfLine DEF Assigned
  <2> QED
    BY <2>1, <2>2, <2>3, ValueOfLine
<1>3. UserLinesStay
  BY DEF UserLinesStay, EnvInv, Assigned
<1>4. SyncEndsDrift
  <2> SUFFICES ASSUME synced # None, synced = recorded, Distinct(env),
                      \A i \in DOMAIN env : env[i].form = "plain"
               PROVE  InSync
    BY DEF SyncEndsDrift
  <2>1. /\ env # None /\ env \in Seq(Line) /\ Holds(env, recorded)
        /\ \A key \in Managed : Assigned(env, key)
    BY DEF EnvInv
  <2>2. ASSUME NEW key \in Managed PROVE Parsed(key) = recorded[key]
    <3>1. PICK i \in DOMAIN env : env[i].key = key
      BY <2>1 DEF Assigned
    <3>2. First(env, i)
      BY <2>1 DEF First, Distinct
    <3>3. env[i].value = recorded[key]
      BY <2>1, <3>1, <3>2 DEF Holds
    <3> QED
      BY <2>1, <3>1, <3>3, ValueOfLine
  <2> QED
    BY <2>1, <2>2 DEF InSync
<1> QED
  BY <1>1, <1>2, <1>3, <1>4 DEF EnvIsTrue

(* Whatever syncs overlap, die or meet a redeploy or an edit, the app gets the
   values of one artifact, doctor's report is true, the user's lines stay and
   a sync ends the drift. *)
THEOREM EnvStaysTrue == FrontendSpec => []EnvIsTrue
<1>1. FrontendInit => IInv /\ EnvInv
  BY InvInit, EnvInit DEF FrontendInit
<1>2. IInv /\ EnvInv /\ [FrontendNext]_frontendVars => IInv' /\ EnvInv'
  BY FrontendStep, InvNext, EnvNext
<1>3. IInv /\ EnvInv => EnvIsTrue
  BY EnvImplies
<1> QED
  BY <1>1, <1>2, <1>3, PTL DEF FrontendSpec

-----------------------------------------------------------------------------
(* The generated package *)

Defect == {"dist", "polyfill", "index", "cut", "enums", "address", "merging", "import"}
Works == {"compatible", "protocol", "unlocated", "cut"}

PackageType == /\ step \in [Proc -> 0..7]
               /\ defects \subseteq Defect
               /\ dependency \in {"none", "incompatible"} \cup Works
               /\ at \in [Proc -> {"idle", "generate", "patch"}]

OneGenerator == \A p, q \in Proc : Running(p) /\ Running(q) => p = q

(* What the patches so far have done is not undone. *)
PatchedSoFar ==
  \A p \in Proc : at[p] = "patch" =>
    /\ \A i \in 1..7 : i =< step[p] => Patches[i] \notin defects
    /\ step[p] >= 2 => "import" \notin defects
    /\ step[p] = 7 => dependency \in Works

Usable == marker # None /\ ~broken /\ (\A p \in Proc : ~Running(p))
            => defects \subseteq {"cut"} /\ dependency \in Works

PackageInv == /\ PackageType
              /\ scene = "package" => OneGenerator /\ PatchedSoFar /\ Usable

LEMMA PatchesAre == /\ Len(Patches) = 7
                    /\ Patches[1] = "dist" /\ Patches[2] = "polyfill" /\ Patches[3] = "index"
                    /\ Patches[4] = "enums" /\ Patches[5] = "address" /\ Patches[6] = "merging"
                    /\ Patches[7] = "buffer"
  BY DEF Patches

LEMMA PackageInit == FrontendInit => PackageInv
<1> SUFFICES ASSUME FrontendInit PROVE PackageInv
  OBVIOUS
<1>1. /\ marker = None /\ at = [p \in Proc |-> "idle"] /\ step = [p \in Proc |-> 0]
      /\ defects = {"polyfill", "index"}
  BY DEF FrontendInit, Init
<1>2. dependency \in {"none", "incompatible"} \cup Works
  BY DEF FrontendInit, Works
<1>3. PackageType
  BY <1>1, <1>2 DEF PackageType, Defect
<1> QED
  BY <1>1, <1>3 DEF PackageInv, OneGenerator, PatchedSoFar, Usable, Running

(* Nothing of the package or of its generators moves. *)
LEMMA PackageKept ==
  ASSUME PackageInv, UNCHANGED <<at, marker, scene, defects, step, dependency, broken>>
  PROVE  PackageInv'
BY DEF PackageInv, PackageType, OneGenerator, PatchedSoFar, Usable, Running

(* Beside the package scene only the ranges matter. *)
LEMMA OtherScene ==
  ASSUME PackageInv, IInv', scene # "package", UNCHANGED <<scene, packageVars>>
  PROVE  PackageInv'
BY DEF PackageInv, PackageType, IInv, TypeOK, packageVars

(* A generator is gone. *)
LEMMA GoneKeeps ==
  ASSUME PackageInv, scene = "package", scene' = scene, NEW p \in Proc, Running(p), Finish(p),
         defects' \subseteq Defect, UNCHANGED step,
         dependency' \in {"none", "incompatible"} \cup Works,
         ~broken' /\ marker' # None => defects' \subseteq {"cut"} /\ dependency' \in Works
  PROVE  PackageInv'
<1>1. \A q \in Proc : ~Running(q)'
  BY DEF PackageInv, PackageType, OneGenerator, Running, Finish
<1>2. PackageType'
  BY DEF PackageInv, PackageType, Finish
<1>3. OneGenerator' /\ PatchedSoFar'
  BY <1>1 DEF OneGenerator, PatchedSoFar, Running
<1>4. Usable'
  BY DEF Usable
<1> QED
  BY <1>2, <1>3, <1>4 DEF PackageInv

LEMMA PatchKeeps ==
  ASSUME PackageInv, scene = "package", NEW p \in Proc, Patch(p)
  PROVE  PackageInv'
<1> DEFINE n == step[p] + 1
           patch == Patches[n]
<1>1. /\ at[p] = "patch" /\ at' = at /\ scene' = scene /\ step' = [step EXCEPT ![p] = n]
      /\ defects' = Patched(patch)
      /\ dependency' = IF patch = "buffer" THEN Declared ELSE dependency
      /\ n \in 1..7 /\ step[p] \in 0..6
  BY PatchesAre DEF Patch, vars, PackageInv, PackageType
<1>2. /\ defects' \subseteq defects /\ patch \notin defects'
      /\ patch = "polyfill" => "import" \notin defects'
  BY <1>1 DEF Patched
<1>3. dependency' \in {"none", "incompatible"} \cup Works
  BY <1>1 DEF PackageInv, PackageType, Declared, Works
<1>4. PackageType'
  <2>1. step' \in [Proc -> 0..7]
    BY <1>1 DEF PackageInv, PackageType
  <2> QED
    BY <1>1, <1>2, <1>3, <2>1 DEF PackageInv, PackageType
<1>5. OneGenerator' /\ \A q \in Proc : at'[q] = "patch" => q = p
  BY <1>1 DEF PackageInv, OneGenerator, Running
<1>6. step'[p] = n
  BY <1>1 DEF PackageInv, PackageType
<1>7. /\ \A i \in 1..7 : i =< n => Patches[i] \notin defects'
      /\ n >= 2 => "import" \notin defects'
      /\ n = 7 => dependency' \in Works
  <2>1. /\ \A i \in 1..7 : i =< step[p] => Patches[i] \notin defects
        /\ step[p] >= 2 => "import" \notin defects
    BY <1>1 DEF PackageInv, PatchedSoFar
  <2>2. \A i \in 1..7 : i =< n => i =< step[p] \/ i = n
    BY <1>1
  <2>3. \A i \in 1..7 : i =< n => Patches[i] \notin defects'
    BY <1>2, <2>1, <2>2
  <2>4. n >= 2 => step[p] >= 2 \/ n = 2
    BY <1>1
  <2>5. n >= 2 => "import" \notin defects'
    BY <1>2, <2>1, <2>4, PatchesAre
  <2>6. n = 7 => dependency' = Declared
    BY <1>1, PatchesAre
  <2>7. Declared \in Works
    BY DEF Declared, Works, PackageInv, PackageType
  <2> QED
    BY <2>3, <2>5, <2>6, <2>7
<1>8. PatchedSoFar'
  BY <1>5, <1>6, <1>7 DEF PatchedSoFar
<1>9. Usable'
  BY <1>1 DEF Usable, Running
<1> QED
  BY <1>4, <1>5, <1>8, <1>9 DEF PackageInv

LEMMA GeneratorKeeps ==
  ASSUME PackageInv, scene = "package", scene' = scene, NEW p \in Proc, GeneratorSteps(p)
  PROVE  PackageInv'
<1>1. ASSUME Read(p), \A q \in Proc : ~Running(q), UNCHANGED packageVars
      PROVE  PackageInv'
  <2>1. at' = [at EXCEPT ![p] = "generate"] /\ marker' = marker
    BY <1>1 DEF Read, Reads
  <2>2. PackageType'
    BY <1>1, <2>1 DEF PackageInv, PackageType, packageVars
  <2>3. \A q \in Proc : at'[q] # "idle" => q = p /\ at'[q] = "generate"
    BY <1>1, <2>1 DEF Running, PackageInv, PackageType
  <2>4. OneGenerator' /\ PatchedSoFar'
    BY <2>3 DEF OneGenerator, PatchedSoFar, Running
  <2>5. at'[p] = "generate"
    BY <2>1 DEF PackageInv, PackageType
  <2>6. Usable'
    BY <2>5 DEF Usable, Running
  <2> QED
    BY <2>2, <2>4, <2>6 DEF PackageInv
<1>2. ASSUME Generate(p), NEW emitted \in Emitted, defects' = Overwrite(emitted),
             step' = [step EXCEPT ![p] = 0], dependency' = dependency
      PROVE  PackageInv'
  <2>1. at[p] = "generate" /\ at' = [at EXCEPT ![p] = "patch"]
    BY <1>2 DEF Generate
  <2>2. defects' \subseteq Defect
    BY <1>2, FrontendAssumption DEF Overwrite, Defect
  <2>3. PackageType'
    BY <1>2, <2>1, <2>2 DEF PackageInv, PackageType
  <2>4. step'[p] = 0 /\ at'[p] = "patch" /\ \A q \in Proc : at'[q] # "idle" => q = p
    BY <1>2, <2>1 DEF PackageInv, PackageType, OneGenerator, Running
  <2>5. OneGenerator' /\ PatchedSoFar'
    BY <2>4 DEF OneGenerator, PatchedSoFar, Running
  <2>6. Usable'
    BY <2>4 DEF Usable, Running
  <2> QED
    BY <2>3, <2>5, <2>6 DEF PackageInv
<1>3. ASSUME GenerateFails(p), defects' \in {defects} \cup {Overwrite(emitted) : emitted \in Emitted},
             broken' = TRUE, UNCHANGED <<step, dependency>>
      PROVE  PackageInv'
  <2>1. defects' \subseteq Defect
    BY <1>3, FrontendAssumption DEF PackageInv, PackageType, Overwrite, Defect
  <2>2. dependency' \in {"none", "incompatible"} \cup Works
    BY <1>3 DEF PackageInv, PackageType
  <2>3. Running(p) /\ Finish(p)
    BY <1>3 DEF GenerateFails, Running
  <2> QED
    BY <1>3, <2>1, <2>2, <2>3, GoneKeeps
<1>4. ASSUME PatchFails(p), broken' = TRUE, UNCHANGED step,
             PatchDies(p) \/ UNCHANGED <<defects, dependency>>
      PROVE  PackageInv'
  <2>1. defects \subseteq Defect /\ dependency \in {"none", "incompatible"} \cup Works
    BY DEF PackageInv, PackageType
  <2>2. \/ defects' = defects
        \/ defects' = defects \ {"polyfill"}
        \/ defects' = defects \ {}
        \/ defects' = (defects \ {"index"}) \cup {"cut"}
    <3>1. CASE UNCHANGED <<defects, dependency>>
      BY <3>1
    <3>2. CASE PatchDies(p)
      BY <3>2, Zenon DEF PatchDies
    <3> QED
      BY <1>4, <3>1, <3>2
  <2>3. dependency' = dependency \/ dependency' = "cut"
    BY <1>4, Zenon DEF PatchDies
  <2>4. defects' \subseteq Defect
    BY <2>1, <2>2 DEF Defect
  <2>5. dependency' \in {"none", "incompatible"} \cup Works
    BY <2>1, <2>3 DEF Works
  <2>6. Running(p) /\ Finish(p)
    BY <1>4 DEF PatchFails, Running
  <2> QED
    BY <1>4, <2>4, <2>5, <2>6, GoneKeeps
<1>5. ASSUME WriteMarker(p), step[p] = 7, UNCHANGED <<defects, step, dependency>>
      PROVE  PackageInv'
  <2>1. at[p] = "patch" /\ Finish(p)
    BY <1>5 DEF WriteMarker
  <2>2. /\ \A i \in 1..7 : Patches[i] \notin defects
        /\ "import" \notin defects
        /\ dependency \in Works
    BY <1>5, <2>1 DEF PackageInv, PatchedSoFar
  <2>3. defects \subseteq Defect
    BY DEF PackageInv, PackageType
  <2>4. defects \subseteq {"cut"}
    BY <2>2, <2>3, PatchesAre DEF Defect
  <2> QED
    BY <1>5, <2>1, <2>2, <2>3, <2>4, GoneKeeps DEF Running
<1>6. ASSUME WriteMarkerFails(p), broken' = TRUE, UNCHANGED <<defects, step, dependency>>
      PROVE  PackageInv'
  BY <1>6, GoneKeeps DEF WriteMarkerFails, Running, PackageInv, PackageType
<1> QED
  BY <1>1, <1>2, <1>3, <1>4, <1>5, <1>6, PatchesAre DEF GeneratorSteps

LEMMA PackageNext ==
  ASSUME PackageInv, IInv', [FrontendNext]_frontendVars
  PROVE  PackageInv'
<1>1. CASE /\ Deploy \/ UpgradeLands \/ RecordUpgrade \/ Rollback
           /\ UNCHANGED <<scene, envVars, packageVars>>
  BY <1>1, PackageKept DEF Deploy, UpgradeLands, RecordUpgrade, Rollback, Unchanged, packageVars
<1>2. CASE UNCHANGED frontendVars
  BY <1>2, PackageKept DEF frontendVars, vars, packageVars
<1>3. CASE Edit
  BY <1>3, PackageKept DEF Edit, vars, packageVars
<1>4. ASSUME NEW p \in Proc, SyncReads(p) \/ SyncReadsFile(p) \/ SyncWrites(p) \/ SyncDies(p)
      PROVE  PackageInv'
  BY <1>4, PackageKept DEF SyncReads, SyncReadsFile, SyncWrites, SyncDies, vars, packageVars
<1>5. ASSUME scene = "package", NEW p \in Proc, Patch(p) PROVE PackageInv'
  BY <1>5, PatchKeeps
<1>6. ASSUME scene = "package", scene' = scene, NEW p \in Proc, GeneratorSteps(p) PROVE PackageInv'
  BY <1>6, GeneratorKeeps
<1>7. ASSUME scene = "bindings", NEW p \in Proc, GeneratorAtOnce(p), scene' = scene PROVE PackageInv'
  BY <1>7, OtherScene DEF GeneratorAtOnce
<1> QED
  BY <1>1, <1>2, <1>3, <1>4, <1>5, <1>6, <1>7 DEF FrontendNext

(* Once a generate has returned, and until one fails, every patch is in place
   and the frontend declares the dependency, whatever the generator emits and
   however often the contract is redeployed. *)
THEOREM GeneratedStaysUsable == FrontendSpec => []GeneratedIsUsable
<1>1. FrontendInit => IInv /\ PackageInv
  BY InvInit, PackageInit DEF FrontendInit
<1>2. IInv /\ PackageInv /\ [FrontendNext]_frontendVars => IInv' /\ PackageInv'
  BY FrontendStep, InvNext, PackageNext
<1>3. PackageInv => GeneratedIsUsable
  BY DEF PackageInv, Usable, GeneratedIsUsable, Works
<1> QED
  BY <1>1, <1>2, <1>3, PTL DEF FrontendSpec
=============================================================================
