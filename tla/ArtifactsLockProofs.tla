------------------------ MODULE ArtifactsLockProofs ------------------------
(***************************************************************************)
(* What holds of the lockfile protocol for every set of processes, every   *)
(* timeout and every bound on the clock and on deaths.                     *)
(***************************************************************************)
EXTENDS ArtifactsLock, TLAPS

(* The lockfile of a process that created it and has not left: at lockPath,
   and written as soon as the process is inside. *)
HoldersKeepFile == \A p \in Proc :
    pc[p] \in Holding => /\ lock # NoFile
                         /\ lock.by = p

(* The inductive part of SafeUnlessStolen. *)
HoldInv == TypeOK /\ (~stolen => HoldersKeepFile)

(* The inductive part of SafeWithoutDeaths, when crashes = 0: nobody is dead, so no probe finds
   a dead owner, nobody reclaims and nothing is ever stolen. *)
NoReclaim == /\ ~stolen
             /\ \A p \in Proc : /\ pc[p] \notin {"reread", "rename", "unlink", "dead"}
                                /\ pc[p] = "probe" => owner[p] \in File

LEMMA InitTyped == Init => TypeOK
<1> SUFFICES ASSUME Init PROVE TypeOK
  OBVIOUS
<1>1. pc \in [Proc -> Step]
  BY DEF Init, Step
<1> QED
  BY <1>1 DEF Init, TypeOK

(* A lockfile is there once it is created. *)
LEMMA FileIsThere ==
  ASSUME NEW p \in Proc, NEW w \in BOOLEAN, NEW t \in Nat
  PROVE  [by |-> p, written |-> w, since |-> t] # NoFile
BY LockAssumption DEF File

(* The state of the protocol is well-typed in every execution of acquireLock,
   reclaimStaleLock and withArtifactsLock. *)
THEOREM TypeCorrect == Spec => []TypeOK
<1>1. Init => TypeOK
  BY InitTyped
<1>2. TypeOK /\ [Next]_vars => TypeOK'
  <2> SUFFICES ASSUME TypeOK, [Next]_vars
               PROVE  TypeOK'
    OBVIOUS
  <2> USE LockAssumption DEF TypeOK, File, Step, Goto
  <2>1. CASE Tick
    BY <2>1 DEF Tick
  <2>2. ASSUME NEW p \in Proc, Call(p) PROVE TypeOK'
    BY <2>2 DEF Call, LeftByTheDead, Alive
  <2>3. ASSUME NEW p \in Proc, Acquire(p) PROVE TypeOK'
    <3>1. CASE Create(p)     BY <3>1 DEF Create
    <3>2. CASE Exists(p)     BY <3>2 DEF Exists
    <3>3. CASE OpenFails(p)  BY <3>3 DEF OpenFails, Forget
    <3>4. CASE WriteOwner(p) BY <3>4 DEF WriteOwner, Forget
    <3>5. CASE WriteFails(p) BY <3>5 DEF WriteFails, Forget
    <3>6. CASE ReadOwner(p)  BY <3>6 DEF ReadOwner, ReadLockOwner
    <3>7. CASE ProbeOwner(p) BY <3>7 DEF ProbeOwner
    <3>8. CASE TimedOut(p)   BY <3>8 DEF TimedOut, Forget
    <3>9. CASE Sleep(p)      BY <3>9 DEF Sleep
    <3> QED BY <2>3, <3>1, <3>2, <3>3, <3>4, <3>5, <3>6, <3>7, <3>8, <3>9 DEF Acquire
  <2>4. ASSUME NEW p \in Proc, Reclaim(p) PROVE TypeOK'
    <3>1. CASE RereadOwner(p)  BY <3>1 DEF RereadOwner
    <3>2. CASE Rename(p)       BY <3>2 DEF Rename
    <3>3. CASE RenameFails(p)  BY <3>3 DEF RenameFails
    <3>4. CASE UnlinkStolen(p) BY <3>4 DEF UnlinkStolen
    <3> QED BY <2>4, <3>1, <3>2, <3>3, <3>4 DEF Reclaim
  <2>5. ASSUME NEW p \in Proc, Release(p) \/ ReleaseFails(p) PROVE TypeOK'
    BY <2>5 DEF Release, ReleaseFails
  <2>6. ASSUME NEW p \in Proc, Crash(p) PROVE TypeOK'
    BY <2>6 DEF Crash, Forget
  <2>7. ASSUME NEW p \in Proc, Restart(p) PROVE TypeOK'
    BY <2>7 DEF Restart
  <2>8. CASE UNCHANGED vars
    BY <2>8 DEF vars
  <2> QED
    BY <2>1, <2>2, <2>3, <2>4, <2>5, <2>6, <2>7, <2>8 DEF Next
<1> QED
  BY <1>1, <1>2, PTL DEF Spec

-----------------------------------------------------------------------------
(* A holder's lockfile leaves its path only by its own release or by a rename,
   which is what `stolen` records. *)
LEMMA HoldersKeepFileStep ==
  ASSUME HoldInv, TypeOK', Next
  PROVE  HoldInv'
<1> USE DEF HoldInv, HoldersKeepFile, Holding, Goto
<1>1. CASE Tick
  BY <1>1 DEF Tick
<1>2. ASSUME NEW p \in Proc, Call(p) PROVE HoldInv'
  BY <1>2 DEF Call, TypeOK
<1>3. ASSUME NEW p \in Proc, Acquire(p) PROVE HoldInv'
  <2>1. CASE Create(p)     BY <2>1, FileIsThere DEF Create, TypeOK
  <2>2. CASE Exists(p)     BY <2>2 DEF Exists, TypeOK
  <2>3. CASE OpenFails(p)  BY <2>3 DEF OpenFails, TypeOK
  <2>4. CASE WriteOwner(p)
    <3>1. [by |-> p, written |-> TRUE, since |-> now] # NoFile
      BY FileIsThere DEF TypeOK
    <3> QED
      BY <2>4, <3>1 DEF WriteOwner, TypeOK
  <2>5. CASE WriteFails(p) BY <2>5 DEF WriteFails, TypeOK
  <2>6. CASE ReadOwner(p)  BY <2>6 DEF ReadOwner, TypeOK
  <2>7. CASE ProbeOwner(p) BY <2>7 DEF ProbeOwner, TypeOK
  <2>8. CASE TimedOut(p)   BY <2>8 DEF TimedOut, TypeOK
  <2>9. CASE Sleep(p)      BY <2>9 DEF Sleep, TypeOK
  <2> QED BY <1>3, <2>1, <2>2, <2>3, <2>4, <2>5, <2>6, <2>7, <2>8, <2>9 DEF Acquire
<1>4. ASSUME NEW p \in Proc, Reclaim(p) PROVE HoldInv'
  <2>1. CASE RereadOwner(p)  BY <2>1 DEF RereadOwner, TypeOK
  <2>2. CASE Rename(p)
    (* a rename that takes nobody's file finds no holder at all *)
    BY <2>2 DEF Rename, TypeOK
  <2>3. CASE RenameFails(p)  BY <2>3 DEF RenameFails, TypeOK
  <2>4. CASE UnlinkStolen(p) BY <2>4 DEF UnlinkStolen, TypeOK
  <2> QED BY <1>4, <2>1, <2>2, <2>3, <2>4 DEF Reclaim
<1>5. ASSUME NEW p \in Proc, Release(p) \/ ReleaseFails(p) PROVE HoldInv'
  BY <1>5 DEF Release, ReleaseFails, TypeOK
<1>6. ASSUME NEW p \in Proc, Crash(p) PROVE HoldInv'
  BY <1>6 DEF Crash, TypeOK
<1>7. ASSUME NEW p \in Proc, Restart(p) PROVE HoldInv'
  BY <1>7 DEF Restart, TypeOK
<1> QED
  BY <1>1, <1>2, <1>3, <1>4, <1>5, <1>6, <1>7 DEF Next

LEMMA HoldInvariant == Spec => []HoldInv
<1>1. Init => HoldInv
  <2> SUFFICES ASSUME Init PROVE HoldInv
    OBVIOUS
  <2>1. TypeOK
    BY InitTyped
  <2>2. HoldersKeepFile
    BY DEF Init, HoldersKeepFile, Holding
  <2> QED
    BY <2>1, <2>2 DEF HoldInv
<1>2. HoldInv /\ TypeOK' /\ [Next]_vars => HoldInv'
  <2>1. CASE UNCHANGED vars
    BY <2>1 DEF HoldInv, HoldersKeepFile, TypeOK, vars
  <2> QED
    BY <2>1, HoldersKeepFileStep
<1> QED
  BY <1>1, <1>2, TypeCorrect, PTL DEF Spec

(* Two sections overlap only after a rename stole a live holder's lockfile. *)
THEOREM MutexUnlessStolen == Spec => []SafeUnlessStolen
<1>1. HoldInv => SafeUnlessStolen
  BY DEF HoldInv, HoldersKeepFile, Holding, SafeUnlessStolen, MutualExclusion
<1> QED
  BY <1>1, HoldInvariant, PTL

-----------------------------------------------------------------------------
(* While every process lives nothing is reclaimed, hence nothing is stolen:
   timeouts and I/O errors alone never make two sections overlap. *)
THEOREM MutexWithoutDeaths == Spec => []SafeWithoutDeaths
<1>1. Init => NoReclaim
  BY DEF Init, NoReclaim
<1>2. TypeOK /\ (crashes = 0 => NoReclaim) /\ [Next]_vars => (crashes = 0 => NoReclaim)'
  <2> SUFFICES ASSUME TypeOK, crashes = 0 => NoReclaim, [Next]_vars, crashes' = 0
               PROVE  NoReclaim'
    OBVIOUS
  <2>1. crashes = 0 /\ NoReclaim
    <3>1. crashes' = crashes \/ crashes' = crashes + 1
      BY DEF Next, vars, Tick, Call, Acquire, Reclaim, Create, Exists, OpenFails, WriteOwner,
             WriteFails, ReadOwner, ProbeOwner, TimedOut, Sleep, RereadOwner, Rename,
             RenameFails, UnlinkStolen, Release, ReleaseFails, Crash, Restart
    <3> QED
      BY <3>1 DEF TypeOK
  <2> USE <2>1 DEF NoReclaim, Goto, TypeOK
  <2>2. CASE Tick
    BY <2>2 DEF Tick
  <2>3. ASSUME NEW p \in Proc, Call(p) PROVE NoReclaim'
    BY <2>3 DEF Call
  <2>4. ASSUME NEW p \in Proc, Acquire(p) PROVE NoReclaim'
    <3>1. CASE Create(p)     BY <3>1 DEF Create
    <3>2. CASE Exists(p)     BY <3>2 DEF Exists
    <3>3. CASE OpenFails(p)  BY <3>3 DEF OpenFails, Forget
    <3>4. CASE WriteOwner(p) BY <3>4 DEF WriteOwner, Forget
    <3>5. CASE WriteFails(p) BY <3>5 DEF WriteFails, Forget
    <3>6. CASE ReadOwner(p)  BY <3>6 DEF ReadOwner, ReadLockOwner
    <3>7. CASE ProbeOwner(p)
      <4>1. Alive(owner[p].by)
        BY <3>7 DEF ProbeOwner, Alive, File
      <4> QED
        BY <3>7, <4>1 DEF ProbeOwner
    <3>8. CASE TimedOut(p)   BY <3>8 DEF TimedOut, Forget
    <3>9. CASE Sleep(p)      BY <3>9 DEF Sleep
    <3> QED BY <2>4, <3>1, <3>2, <3>3, <3>4, <3>5, <3>6, <3>7, <3>8, <3>9 DEF Acquire
  <2>5. ASSUME NEW p \in Proc, Reclaim(p) PROVE NoReclaim'
    BY <2>5 DEF Reclaim, RereadOwner, Rename, RenameFails, UnlinkStolen
  <2>6. ASSUME NEW p \in Proc, Release(p) \/ ReleaseFails(p) PROVE NoReclaim'
    BY <2>6 DEF Release, ReleaseFails
  <2>7. ASSUME NEW p \in Proc, Crash(p) PROVE NoReclaim'
    BY <2>7 DEF Crash, Forget
  <2>8. ASSUME NEW p \in Proc, Restart(p) PROVE NoReclaim'
    BY <2>8 DEF Restart
  <2>9. CASE UNCHANGED vars
    BY <2>9 DEF vars
  <2> QED
    BY <2>2, <2>3, <2>4, <2>5, <2>6, <2>7, <2>8, <2>9 DEF Next
<1>3. SafeUnlessStolen /\ (crashes = 0 => NoReclaim) => SafeWithoutDeaths
  BY DEF SafeUnlessStolen, SafeWithoutDeaths, NoReclaim
<1> QED
  BY <1>1, <1>2, <1>3, TypeCorrect, MutexUnlessStolen, PTL DEF Spec

-----------------------------------------------------------------------------
(* At most one process is inside while holders keep their files, and it is
   the holder that the promise speaks of. *)
LEMMA HolderIsInside ==
  ASSUME HoldersKeepFile
  PROVE  /\ \A p \in Proc : pc[p] = "critical" => Holder = p
         /\ (\A p \in Proc : pc[p] # "critical") => Holder = NoFile
BY DEF HoldersKeepFile, Holding, Holder

LEMMA HolderIsInsideNext ==
  ASSUME HoldersKeepFile'
  PROVE  /\ \A p \in Proc : pc'[p] = "critical" => Holder' = p
         /\ (\A p \in Proc : pc'[p] # "critical") => Holder' = NoFile
BY DEF HoldersKeepFile, Holding, Holder

(* A step that moves nobody into or out of a section leaves the holder. *)
LEMMA HolderUnchanged ==
  ASSUME HoldersKeepFile, HoldersKeepFile',
         \A p \in Proc : pc'[p] = "critical" <=> pc[p] = "critical"
  PROVE  Holder' = Holder
BY HolderIsInside, HolderIsInsideNext

(* Where a section begins: WriteOwner. *)
LEMMA EnterStep ==
  ASSUME TypeOK, HoldersKeepFile, HoldersKeepFile', NEW p \in Proc, WriteOwner(p)
  PROVE  Mutex!Next
<1>1. Holder = NoFile
  <2>1. \A q \in Proc : pc[q] # "critical"
    BY DEF WriteOwner, Goto, HoldersKeepFile, Holding
  <2> QED
    BY <2>1, HolderIsInside
<1>2. Holder' = p
  BY HolderIsInsideNext DEF WriteOwner, Goto, TypeOK
<1> QED
  BY <1>1, <1>2 DEF Mutex!Next, Mutex!Enter

(* Where a section ends: a release, or the death of the holder. *)
LEMMA LeaveStep ==
  ASSUME TypeOK, HoldersKeepFile, HoldersKeepFile', NEW p \in Proc,
         pc[p] = "critical", NEW to \in Step \ {"critical"}, pc' = [pc EXCEPT ![p] = to]
  PROVE  Mutex!Next
<1>1. Holder = p
  BY HolderIsInside
<1>2. Holder' = NoFile
  <2>1. \A q \in Proc : pc'[q] # "critical"
    BY DEF TypeOK, HoldersKeepFile, Holding
  <2> QED
    BY <2>1, HolderIsInsideNext
<1> QED
  BY <1>1, <1>2 DEF Mutex!Next, Mutex!Leave

LEMMA PromiseStep ==
  ASSUME HoldInv, HoldInv', ~stolen, ~stolen', [Next]_vars
  PROVE  [Mutex!Next]_Holder
<1> USE DEF HoldInv
<1> DEFINE Same == \A p \in Proc : pc'[p] = "critical" <=> pc[p] = "critical"
<1>0. Same => Holder' = Holder
  BY HolderUnchanged
<1> USE DEF Goto
<1>1. CASE Tick \/ UNCHANGED vars
  BY <1>0, <1>1 DEF Tick, vars
<1>2. ASSUME NEW p \in Proc, Acquire(p) PROVE [Mutex!Next]_Holder
  <2>1. CASE WriteOwner(p)
    BY <2>1, EnterStep
  <2>2. CASE ~WriteOwner(p)
    <3>1. Same
      BY <1>2, <2>2 DEF Acquire, Create, Exists, OpenFails, WriteFails, ReadOwner, ProbeOwner,
                        TimedOut, Sleep, TypeOK
    <3> QED
      BY <1>0, <3>1
  <2> QED
    BY <2>1, <2>2
<1>3. ASSUME NEW p \in Proc, Call(p) \/ Reclaim(p) \/ Restart(p) PROVE [Mutex!Next]_Holder
  <2>1. Same
    BY <1>3 DEF Call, Restart, Reclaim, RereadOwner, Rename, RenameFails, UnlinkStolen, TypeOK
  <2> QED
    BY <1>0, <2>1
<1>4. ASSUME NEW p \in Proc, Release(p) \/ ReleaseFails(p) PROVE [Mutex!Next]_Holder
  <2>1. pc[p] = "critical" /\ pc' = [pc EXCEPT ![p] = "idle"]
    BY <1>4 DEF Release, ReleaseFails
  <2>2. "idle" \in Step \ {"critical"}
    BY DEF Step
  <2> QED
    BY <2>1, <2>2, LeaveStep
<1>5. ASSUME NEW p \in Proc, Crash(p) PROVE [Mutex!Next]_Holder
  <2>1. pc' = [pc EXCEPT ![p] = "dead"]
    BY <1>5 DEF Crash
  <2>2. CASE pc[p] = "critical"
    <3>1. "dead" \in Step \ {"critical"}
      BY DEF Step
    <3> QED
      BY <2>1, <2>2, <3>1, LeaveStep
  <2>3. CASE pc[p] # "critical"
    BY <1>0, <2>1, <2>3 DEF TypeOK
  <2> QED
    BY <2>2, <2>3
<1> QED
  BY <1>1, <1>2, <1>3, <1>4, <1>5 DEF Next

(* A steal is never forgotten. *)
LEMMA StolenStays == stolen /\ [Next]_vars => stolen'
BY DEF Next, vars, Tick, Call, Acquire, Create, Exists, OpenFails, WriteOwner, WriteFails,
       ReadOwner, ProbeOwner, TimedOut, Sleep, Reclaim, RereadOwner, Rename, RenameFails,
       UnlinkStolen, Release, ReleaseFails, Crash, Restart

(* Step by step the protocol does what withArtifactsLock promises, up to the
   rename that takes a live holder's lockfile. *)
THEOREM KeepsPromise == Spec => PromiseKept
<1>1. HoldInv /\ HoldInv' /\ [Next]_vars => [~stolen' => [Mutex!Next]_Holder]_vars
  <2> SUFFICES ASSUME HoldInv, HoldInv', [Next]_vars, ~stolen'
               PROVE  [Mutex!Next]_Holder
    OBVIOUS
  <2> QED
    BY PromiseStep, StolenStays
<1> QED
  BY <1>1, HoldInvariant, PTL DEF Spec, PromiseKept

(* The lockfile protocol keeps the promise of withArtifactsLock in every
   execution in which no rename steals a live holder's lockfile. *)
THEOREM KeepsPromiseUnlessStolen == Spec /\ [](~stolen) => ImplementsMutex
<1>1. Init => Mutex!Init
  BY DEF Init, Mutex!Init, Holder
<1>2. HoldInv /\ HoldInv' /\ ~stolen /\ ~stolen' /\ [Next]_vars => [Mutex!Next]_Holder
  BY PromiseStep
<1> QED
  BY <1>1, <1>2, HoldInvariant, PTL DEF Spec, ImplementsMutex, Mutex!Spec

-----------------------------------------------------------------------------
(* What a reclaim may rely on while no PID is given to a new process: who was
   found dead stays dead, and so does his lockfile. *)

(* Who is about to be robbed was found dead; who left the file that a call has
   found was dead then. *)
DeadStayDead == \A p \in Proc :
  /\ pc[p] \in {"reread", "rename"} => owner[p] \in File /\ pc[owner[p].by] = "dead"
  /\ behind[p] # NoFile => pc[behind[p].by] = "dead"

(* As long as the file a call has found is at lockPath, the call is on its way
   to reclaim it. *)
Chases(p) ==
  behind[p] # NoFile /\ behind[p].written /\ lock = behind[p] =>
    /\ pc[p] \in {"open", "read", "probe", "reread", "rename"}
    /\ pc[p] \in {"probe", "reread", "rename"} => owner[p] = lock

(* A probed owner was read from a file. *)
Probed == \A p \in Proc : pc[p] = "probe" => owner[p] \in File

DeadInv == TypeOK /\ Probed /\ DeadStayDead

ChaseInv == DeadInv /\ \A p \in Proc : Chases(p)

LEMMA DeadInit == Init => ChaseInv
<1> SUFFICES ASSUME Init PROVE ChaseInv
  OBVIOUS
<1>1. TypeOK
  BY InitTyped
<1> QED
  BY <1>1 DEF Init, ChaseInv, DeadInv, Probed, DeadStayDead, Chases

(* The dead stay dead. *)
LEMMA NobodyRises ==
  ASSUME ~ Reuse, TypeOK, [Next]_vars, NEW q \in Proc, pc[q] = "dead"
  PROVE  pc'[q] = "dead"
<1> USE DEF TypeOK, Goto
<1>1. ASSUME NEW p \in Proc, Acquire(p)
      PROVE  pc'[q] = "dead"
  <2>1. pc[p] # "dead" /\ \E to \in Step : pc' = [pc EXCEPT ![p] = to]
    BY <1>1 DEF Acquire, Create, Exists, OpenFails, WriteOwner, WriteFails, ReadOwner, ProbeOwner,
                TimedOut, Sleep, Step
  <2> QED
    BY <2>1
<1>2. ASSUME NEW p \in Proc, Reclaim(p) \/ Call(p) \/ Release(p) \/ ReleaseFails(p)
      PROVE  pc'[q] = "dead"
  <2>1. pc[p] # "dead" /\ \E to \in Step : pc' = [pc EXCEPT ![p] = to]
    BY <1>2 DEF Reclaim, RereadOwner, Rename, RenameFails, UnlinkStolen, Call, Release,
                ReleaseFails, Step
  <2> QED
    BY <2>1
<1>3. ASSUME NEW p \in Proc, Crash(p) \/ Restart(p)
      PROVE  pc'[q] = "dead"
  BY <1>3 DEF Crash, Restart
<1>4. CASE Tick \/ UNCHANGED vars
  BY <1>4 DEF Tick, vars
<1> QED
  BY <1>1, <1>2, <1>3, <1>4 DEF Next

LEMMA ProbedStep ==
  ASSUME TypeOK, Probed, [Next]_vars
  PROVE  Probed'
<1> USE DEF TypeOK, Probed, Goto
<1>1. ASSUME NEW p \in Proc, Acquire(p)
      PROVE  Probed'
  <2>1. CASE ReadOwner(p)
    BY <2>1, LockAssumption DEF ReadOwner, ReadLockOwner
  <2>2. CASE Create(p) \/ Exists(p) \/ OpenFails(p) \/ WriteOwner(p) \/ WriteFails(p)
    BY <2>2 DEF Create, Exists, OpenFails, WriteOwner, WriteFails, Forget
  <2>3. CASE ProbeOwner(p) \/ TimedOut(p) \/ Sleep(p)
    BY <2>3 DEF ProbeOwner, TimedOut, Sleep, Forget
  <2> QED
    BY <1>1, <2>1, <2>2, <2>3 DEF Acquire
<1>2. ASSUME NEW p \in Proc, Reclaim(p) \/ Call(p) \/ Release(p) \/ ReleaseFails(p)
      PROVE  Probed'
  BY <1>2 DEF Reclaim, RereadOwner, Rename, RenameFails, UnlinkStolen, Call, Release, ReleaseFails
<1>3. ASSUME NEW p \in Proc, Crash(p) \/ Restart(p)
      PROVE  Probed'
  BY <1>3 DEF Crash, Restart, Forget
<1>4. CASE Tick \/ UNCHANGED vars
  BY <1>4 DEF Tick, vars
<1> QED
  BY <1>1, <1>2, <1>3, <1>4 DEF Next

(* A process comes to reclaim only by a probe that found the owner dead. *)
LEMMA OnlyProbesReclaim ==
  ASSUME TypeOK, Probed, [Next]_vars, NEW p \in Proc, pc'[p] \in {"reread", "rename"}
  PROVE  /\ owner'[p] = owner[p]
         /\ \/ pc[p] \in {"reread", "rename"}
            \/ pc[p] = "probe" /\ pc[owner[p].by] = "dead"
<1> USE DEF TypeOK, Goto
<1>1. ASSUME NEW q \in Proc, Acquire(q)
      PROVE  /\ owner'[p] = owner[p]
             /\ \/ pc[p] \in {"reread", "rename"}
                \/ pc[p] = "probe" /\ pc[owner[p].by] = "dead"
  <2>1. CASE ProbeOwner(q)
    BY <2>1 DEF ProbeOwner, Alive, Step
  <2>2. CASE Create(q) \/ Exists(q) \/ OpenFails(q) \/ WriteOwner(q) \/ WriteFails(q)
    BY <2>2 DEF Create, Exists, OpenFails, WriteOwner, WriteFails, Forget
  <2>3. CASE ReadOwner(q) \/ TimedOut(q) \/ Sleep(q)
    BY <2>3 DEF ReadOwner, TimedOut, Sleep, Forget
  <2> QED
    BY <1>1, <2>1, <2>2, <2>3 DEF Acquire
<1>2. ASSUME NEW q \in Proc, Reclaim(q) \/ Call(q) \/ Release(q) \/ ReleaseFails(q)
      PROVE  owner'[p] = owner[p] /\ pc[p] \in {"reread", "rename"}
  BY <1>2 DEF Reclaim, RereadOwner, Rename, RenameFails, UnlinkStolen, Call, Release, ReleaseFails
<1>3. ASSUME NEW q \in Proc, Crash(q) \/ Restart(q)
      PROVE  owner'[p] = owner[p] /\ pc[p] \in {"reread", "rename"}
  BY <1>3 DEF Crash, Restart, Forget
<1>4. CASE Tick \/ UNCHANGED vars
  BY <1>4 DEF Tick, vars
<1> QED
  BY <1>1, <1>2, <1>3, <1>4 DEF Next

(* A call notes only what the dead have left, and forgets it when it is over. *)
LEMMA OnlyCallsNote ==
  ASSUME TypeOK, [Next]_vars, NEW p \in Proc, behind'[p] # NoFile
  PROVE  \/ behind'[p] = behind[p]
         \/ Call(p) /\ LeftByTheDead /\ behind'[p] = lock
<1> USE DEF TypeOK, Goto
<1>1. ASSUME NEW q \in Proc, Acquire(q) \/ Reclaim(q) \/ Release(q) \/ ReleaseFails(q)
      PROVE  behind'[p] = behind[p]
  BY <1>1 DEF Acquire, Create, Exists, OpenFails, WriteOwner, WriteFails, ReadOwner, ProbeOwner,
              TimedOut, Sleep, Forget, Reclaim, RereadOwner, Rename, RenameFails, UnlinkStolen,
              Release, ReleaseFails
<1>2. ASSUME NEW q \in Proc, Call(q)
      PROVE  \/ behind'[p] = behind[p]
             \/ Call(p) /\ LeftByTheDead /\ behind'[p] = lock
  BY <1>2 DEF Call
<1>3. ASSUME NEW q \in Proc, Crash(q) \/ Restart(q)
      PROVE  behind'[p] = behind[p]
  BY <1>3 DEF Crash, Restart, Forget
<1>4. CASE Tick \/ UNCHANGED vars
  BY <1>4 DEF Tick, vars
<1> QED
  BY <1>1, <1>2, <1>3, <1>4 DEF Next

LEMMA DeadStep ==
  ASSUME ~ Reuse, DeadInv, TypeOK', [Next]_vars
  PROVE  DeadInv'
<1>1. Probed'
  BY ProbedStep DEF DeadInv
<1>2. ASSUME NEW p \in Proc, pc'[p] \in {"reread", "rename"}
      PROVE  owner'[p] \in File /\ pc'[owner'[p].by] = "dead"
  <2>1. owner'[p] = owner[p] /\ owner[p] \in File /\ pc[owner[p].by] = "dead"
    BY <1>2, OnlyProbesReclaim DEF DeadInv, DeadStayDead, Probed
  <2>2. owner[p].by \in Proc
    BY <2>1 DEF File
  <2> QED
    BY <2>1, <2>2, NobodyRises DEF DeadInv
<1>3. ASSUME NEW p \in Proc, behind'[p] # NoFile
      PROVE  pc'[behind'[p].by] = "dead"
  <2>1. behind'[p] \in File
    BY <1>3 DEF TypeOK
  <2>2. behind'[p].by \in Proc
    BY <2>1 DEF File
  <2>3. pc[behind'[p].by] = "dead"
    BY <1>3, OnlyCallsNote DEF DeadInv, DeadStayDead, LeftByTheDead, Alive
  <2> QED
    BY <2>2, <2>3, NobodyRises DEF DeadInv
<1> QED
  BY <1>1, <1>2, <1>3 DEF DeadInv, DeadStayDead

(* As long as no PID is given to a new process: a rename that moves the very
   file that was read again takes it from nobody who lives. *)
THEOREM RereadTakesFromTheDead ==
  ~ Reuse => (Spec => RereadFileIsStale)
<1> SUFFICES ASSUME ~ Reuse PROVE Spec => RereadFileIsStale
  OBVIOUS
<1>1. Init => DeadInv
  BY DeadInit DEF ChaseInv
<1>2. DeadInv /\ TypeOK' /\ [Next]_vars => DeadInv'
  BY DeadStep
<1>3. DeadInv => \A p \in Proc : Rename(p) /\ lock = owner[p] => pc[lock.by] \notin Holding
  BY DEF DeadInv, DeadStayDead, Rename, Goto, Holding
<1>4. DeadInv /\ [Next]_vars =>
        [\A p \in Proc : Rename(p) /\ lock = owner[p] => pc[lock.by] \notin Holding]_vars
  BY <1>3
<1> QED
  BY <1>1, <1>2, <1>4, TypeCorrect, PTL DEF Spec, RereadFileIsStale

-----------------------------------------------------------------------------
(* The dead write no lockfile: what a call has found behind is not put there
   again. *)
LEMMA OldFilesStayAway ==
  ASSUME ~ Reuse, DeadInv, [Next]_vars, NEW p \in Proc,
         behind[p] # NoFile, behind[p].written, lock' = behind[p]
  PROVE  lock = behind[p]
<1>1. behind[p] \in File /\ pc[behind[p].by] = "dead" /\ lock' # NoFile
  BY LockAssumption DEF DeadInv, TypeOK, DeadStayDead
<1>2. ASSUME NEW q \in Proc, Create(q)
      PROVE  FALSE
  BY <1>2 DEF Create
<1>3. ASSUME NEW q \in Proc, WriteOwner(q)
      PROVE  lock' = lock
  BY <1>1, <1>3 DEF WriteOwner, Goto
<1>4. ASSUME NEW q \in Proc, Rename(q) \/ Release(q)
      PROVE  FALSE
  BY <1>1, <1>4 DEF Rename, Release
<1>5. ASSUME NEW q \in Proc,
             \/ Exists(q) \/ OpenFails(q) \/ WriteFails(q) \/ ReadOwner(q) \/ ProbeOwner(q)
             \/ TimedOut(q) \/ Sleep(q) \/ RereadOwner(q) \/ RenameFails(q) \/ UnlinkStolen(q)
             \/ Call(q) \/ ReleaseFails(q) \/ Crash(q) \/ Restart(q)
      PROVE  lock' = lock
  BY <1>5 DEF Exists, OpenFails, WriteFails, ReadOwner, ProbeOwner, TimedOut, Sleep, RereadOwner,
              RenameFails, UnlinkStolen, Call, ReleaseFails, Crash, Restart
<1>6. CASE Tick \/ UNCHANGED vars
  BY <1>6 DEF Tick, vars
<1> QED
  BY <1>2, <1>3, <1>4, <1>5, <1>6 DEF Next, Acquire, Reclaim

(* A step of another process leaves the call where it is. *)
LEMMA OthersLeave ==
  ASSUME TypeOK, NEW p \in Proc, NEW q \in Proc, q # p,
         \/ Call(q) \/ Acquire(q) \/ Reclaim(q) \/ Release(q) \/ ReleaseFails(q)
         \/ Crash(q) \/ Restart(q)
  PROVE  pc'[p] = pc[p] /\ owner'[p] = owner[p] /\ behind'[p] = behind[p]
<1> USE DEF TypeOK, Goto
<1>1. CASE Acquire(q)
  BY <1>1 DEF Acquire, Create, Exists, OpenFails, WriteOwner, WriteFails, ReadOwner, ProbeOwner,
              TimedOut, Sleep, Forget
<1>2. CASE Reclaim(q)
  BY <1>2 DEF Reclaim, RereadOwner, Rename, RenameFails, UnlinkStolen
<1>3. CASE Call(q) \/ Release(q) \/ ReleaseFails(q) \/ Crash(q) \/ Restart(q)
  BY <1>3 DEF Call, Release, ReleaseFails, Crash, Restart, Forget
<1> QED
  BY <1>1, <1>2, <1>3

(* The call's own steps: from the file it has found to its rename. *)
LEMMA ChaseStep ==
  ASSUME ~ IoErrors, ~ Reuse, DeadInv, NEW p \in Proc, Chases(p),
         behind[p] # NoFile, behind[p].written, lock = behind[p],
         lock' = lock, behind'[p] = behind[p],
         \/ Call(p) \/ Acquire(p) \/ Reclaim(p) \/ Release(p) \/ ReleaseFails(p)
         \/ Crash(p) \/ Restart(p)
  PROVE  Chases(p)'
<1> USE DEF Goto
<1>1. /\ pc[p] \in {"open", "read", "probe", "reread", "rename"}
      /\ pc[p] \in {"probe", "reread", "rename"} => owner[p] = lock
      /\ lock # NoFile
      /\ ReadLockOwner = lock
      /\ pc[lock.by] = "dead"
      /\ pc \in [Proc -> Step] /\ owner \in [Proc -> File \cup {NoFile}]
      /\ behind \in [Proc -> File \cup {NoFile}]
  BY DEF Chases, ReadLockOwner, DeadInv, DeadStayDead, TypeOK
<1>2. CASE Acquire(p)
  <2>1. CASE Exists(p)
    BY <1>1, <2>1 DEF Exists, Chases
  <2>2. CASE ReadOwner(p)
    BY <1>1, <2>2 DEF ReadOwner, Chases
  <2>3. CASE ProbeOwner(p)
    BY <1>1, <2>3 DEF ProbeOwner, Alive, Chases
  <2>4. ~ (\/ Create(p) \/ OpenFails(p) \/ WriteOwner(p) \/ WriteFails(p) \/ TimedOut(p) \/ Sleep(p))
    BY <1>1 DEF Create, OpenFails, WriteOwner, WriteFails, TimedOut, Sleep
  <2> QED
    BY <1>2, <2>1, <2>2, <2>3, <2>4 DEF Acquire
<1>3. CASE Reclaim(p)
  <2>1. CASE RereadOwner(p)
    BY <1>1, <2>1 DEF RereadOwner, Chases
  <2>2. ~ (Rename(p) \/ RenameFails(p) \/ UnlinkStolen(p))
    BY <1>1 DEF Rename, RenameFails, UnlinkStolen
  <2> QED
    BY <1>3, <2>1, <2>2 DEF Reclaim
<1>4. ~ (Call(p) \/ Release(p) \/ ReleaseFails(p) \/ Restart(p))
  BY <1>1 DEF Call, Release, ReleaseFails, Restart
<1>5. ~ Crash(p)
  BY <1>1 DEF Crash, Forget
<1> QED
  BY <1>2, <1>3, <1>4, <1>5

LEMMA ChaseNext ==
  ASSUME ~ IoErrors, ~ Reuse, ChaseInv, TypeOK', [Next]_vars
  PROVE  ChaseInv'
<1>1. DeadInv'
  BY DeadStep DEF ChaseInv
<1>2. ASSUME NEW p \in Proc, behind'[p] # NoFile, behind'[p].written, lock' = behind'[p]
      PROVE  Chases(p)'
  <2>1. CASE Call(p)
    <3>1. pc'[p] = "open"
      BY <2>1 DEF Call, Goto, ChaseInv, DeadInv, TypeOK
    <3> QED
      BY <3>1 DEF Chases
  <2>2. CASE ~ Call(p)
    <3>1. behind'[p] = behind[p]
      BY <1>2, <2>2, OnlyCallsNote DEF ChaseInv, DeadInv
    <3>2. lock = behind[p] /\ lock' = lock
      BY <1>2, <3>1, OldFilesStayAway DEF ChaseInv
    <3>3. CASE Tick \/ UNCHANGED vars
      BY <3>3 DEF Tick, vars, ChaseInv, Chases
    <3>4. ASSUME NEW q \in Proc, q # p,
                 \/ Call(q) \/ Acquire(q) \/ Reclaim(q) \/ Release(q) \/ ReleaseFails(q)
                 \/ Crash(q) \/ Restart(q)
          PROVE  Chases(p)'
      BY <3>2, <3>4, OthersLeave DEF ChaseInv, DeadInv, Chases
    <3>5. CASE \/ Call(p) \/ Acquire(p) \/ Reclaim(p) \/ Release(p) \/ ReleaseFails(p)
               \/ Crash(p) \/ Restart(p)
      BY <1>2, <3>1, <3>2, <3>5, ChaseStep DEF ChaseInv
    <3> QED
      BY <3>3, <3>4, <3>5 DEF Next
  <2> QED
    BY <2>1, <2>2
<1>3. \A p \in Proc : Chases(p)'
  BY <1>2 DEF Chases
<1> QED
  BY <1>1, <1>3 DEF ChaseInv

(* As long as no PID is given to a new process and the disk does not fail: no
   call gives up over a recorded lockfile that a dead process had left before
   it was made, however many others go after the same file. *)
THEOREM RecordedLocksAreReclaimed ==
  ~ Reuse /\ ~ IoErrors => (Spec => RecordedLockReclaimed)
<1> SUFFICES ASSUME ~ Reuse, ~ IoErrors PROVE Spec => RecordedLockReclaimed
  OBVIOUS
<1>1. Init => ChaseInv
  BY DeadInit
<1>2. ChaseInv /\ TypeOK' /\ [Next]_vars => ChaseInv'
  BY ChaseNext
<1>3. ChaseInv /\ [Next]_vars =>
        [\A p \in Proc : TimedOut(p) /\ behind[p] # NoFile /\ behind[p].written
                           => lock # behind[p]]_vars
  BY DEF ChaseInv, Chases, TimedOut, Goto
<1> QED
  BY <1>1, <1>2, <1>3, TypeCorrect, PTL DEF Spec, RecordedLockReclaimed
=============================================================================
