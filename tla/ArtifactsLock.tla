--------------------------- MODULE ArtifactsLock ---------------------------
(***************************************************************************)
(* The lockfile protocol of core/src/artifacts/artifacts-lock.ts.          *)
(*                                                                         *)
(* Every await of the code is a step boundary: other processes run, time   *)
(* passes and processes die between any two of the actions below. A        *)
(* process is named by its PID. The lockfile is known by the process that  *)
(* created it and by what it says: `written` is FALSE from open(path, "wx")*)
(* until writeFile has put the owner in it, which readLockOwner cannot     *)
(* tell from a damaged or a foreign file. A Date.now() of one millisecond  *)
(* is one value of `now`.                                                  *)
(***************************************************************************)
EXTENDS Naturals

CONSTANTS Proc,       \* PIDs of the Caatinga processes of one project
          NoFile,     \* no lockfile at the path; also an undefined owner
          Timeout,    \* options.timeoutMs
          MaxNow,     \* bound on the clock
          MaxCrashes, \* bound on deaths of processes
          Reuse,      \* may the system give a dead process's PID to a new one?
          IoErrors    \* may open, writeFile, rename and unlink fail (EACCES...)?

(* What a lockfile can be: who created it and what it records. *)
File == [by : Proc, written : BOOLEAN, since : Nat]

ASSUME LockAssumption == /\ NoFile \notin File \cup Proc
                         /\ Timeout \in Nat
                         /\ MaxNow \in Nat
                         /\ MaxCrashes \in Nat
                         /\ Reuse \in BOOLEAN
                         /\ IoErrors \in BOOLEAN

VARIABLES lock,     \* the file at lockPath, or NoFile
          pc,       \* where each process is in withArtifactsLock
          owner,    \* owner[p]: the owner p read last, NoFile if undefined
          deadline, \* deadline[p]: when p's acquireLock gives up
          now,      \* Date.now()
          crashes,  \* deaths so far
          stolen,   \* history: some rename moved the lockfile of a live holder
          behind    \* history: the dead process's lockfile p found when called

vars == <<lock, pc, owner, deadline, now, crashes, stolen, behind>>

Step == {"idle", "open", "write", "read", "probe", "reread", "rename",
         "unlink", "retry", "critical", "dead"}

(* A process whose lockfile must stay where it is. *)
Holding == {"write", "critical"}

Alive(p) == pc[p] # "dead"

(* readLockOwner: a missing, empty or partial file has no owner. *)
ReadLockOwner == IF lock # NoFile /\ lock.written THEN lock ELSE NoFile

(* The lockfile was left by a process that is gone. *)
LeftByTheDead == lock # NoFile /\ ~Alive(lock.by)

Init == /\ lock = NoFile
        /\ pc = [p \in Proc |-> "idle"]
        /\ owner = [p \in Proc |-> NoFile]
        /\ deadline = [p \in Proc |-> 0]
        /\ now = 0
        /\ crashes = 0
        /\ stolen = FALSE
        /\ behind = [p \in Proc |-> NoFile]

(* The call's locals go out of scope. *)
Forget(p) == /\ owner' = [owner EXCEPT ![p] = NoFile]
             /\ deadline' = [deadline EXCEPT ![p] = 0]
             /\ behind' = [behind EXCEPT ![p] = NoFile]

Goto(p, from, to) == /\ pc[p] = from
                     /\ pc' = [pc EXCEPT ![p] = to]

-----------------------------------------------------------------------------
(* acquireLock *)

Call(p) == /\ Goto(p, "idle", "open")
           /\ now + Timeout <= MaxNow
           /\ deadline' = [deadline EXCEPT ![p] = now + Timeout]
           /\ behind' = [behind EXCEPT ![p] = IF LeftByTheDead THEN lock ELSE NoFile]
           /\ UNCHANGED <<lock, owner, now, crashes, stolen>>

(* Mutant: open(lockPath, "w"), which truncates a file that is there. *)
CreateOver(p) == /\ Goto(p, "open", "write")
                 /\ lock' = [by |-> p, written |-> FALSE, since |-> 0]
                 /\ UNCHANGED <<owner, deadline, now, crashes, stolen, behind>>

(* open(lockPath, "wx") creates an empty file... *)
Create(p) == /\ Goto(p, "open", "write")
             /\ lock = NoFile
             /\ lock' = [by |-> p, written |-> FALSE, since |-> 0]
             /\ UNCHANGED <<owner, deadline, now, crashes, stolen, behind>>

(* ...or fails with EEXIST... *)
Exists(p) == /\ Goto(p, "open", "read")
             /\ lock # NoFile
             /\ UNCHANGED <<lock, owner, deadline, now, crashes, stolen, behind>>

(* ...or fails with another error, which the call throws. *)
OpenFails(p) == /\ IoErrors
                /\ Goto(p, "open", "idle")
                /\ Forget(p)
                /\ UNCHANGED <<lock, now, crashes, stolen>>

(* Mutant: the owner is written without its timestamp. *)
WriteOwnerPidOnly(p) == /\ Goto(p, "write", "critical")
                        /\ lock' = IF lock # NoFile /\ lock.by = p
                                     THEN [by |-> p, written |-> TRUE]
                                     ELSE lock
                        /\ Forget(p)
                        /\ UNCHANGED <<now, crashes, stolen>>

(* writeFile goes through the handle: to the file p created, wherever it is
   by now. Only at lockPath is it ever read. *)
WriteOwner(p) == /\ Goto(p, "write", "critical")
                 /\ lock' = IF lock # NoFile /\ lock.by = p
                              THEN [by |-> p, written |-> TRUE, since |-> now]
                              ELSE lock
                 /\ Forget(p)
                 /\ UNCHANGED <<now, crashes, stolen>>

(* writeFile throws (a full disk): the handle is closed, the error is not an
   EEXIST and is rethrown, and the empty file stays. *)
WriteFails(p) == /\ IoErrors
                 /\ Goto(p, "write", "idle")
                 /\ Forget(p)
                 /\ UNCHANGED <<lock, now, crashes, stolen>>

(* Mutant: a lockfile without an owner is taken for an abandoned one. *)
ReadOwnerReclaimsUnknown(p) ==
    /\ Goto(p, "read", IF ReadLockOwner = NoFile THEN "reread" ELSE "probe")
    /\ owner' = [owner EXCEPT ![p] = ReadLockOwner]
    /\ UNCHANGED <<lock, deadline, now, crashes, stolen, behind>>

ReadOwner(p) == /\ Goto(p, "read", IF ReadLockOwner = NoFile THEN "retry" ELSE "probe")
                /\ owner' = [owner EXCEPT ![p] = ReadLockOwner]
                /\ UNCHANGED <<lock, deadline, now, crashes, stolen, behind>>

(* Mutants: every error of kill means a dead process, EPERM of another user's
   included; or none does. *)
ProbeOwnerNoEperm(p) == /\ Goto(p, "probe", "reread")
                        /\ UNCHANGED <<lock, owner, deadline, now, crashes, stolen, behind>>

ProbeOwnerAlwaysAlive(p) == /\ Goto(p, "probe", "retry")
                            /\ UNCHANGED <<lock, owner, deadline, now, crashes, stolen, behind>>

(* isProcessAlive: kill(pid, 0). *)
ProbeOwner(p) == /\ Goto(p, "probe", IF Alive(owner[p].by) THEN "retry" ELSE "reread")
                 /\ UNCHANGED <<lock, owner, deadline, now, crashes, stolen, behind>>

(* Mutant: a timeout that goes on without the lock. *)
TimedOutProceeds(p) == /\ Goto(p, "retry", "critical")
                       /\ now >= deadline[p]
                       /\ Forget(p)
                       /\ UNCHANGED <<lock, now, crashes, stolen>>

TimedOut(p) == /\ Goto(p, "retry", "idle")
               /\ now >= deadline[p]
               /\ Forget(p)
               /\ UNCHANGED <<lock, now, crashes, stolen>>

(* Mutant: the deadline does not stop the loop. *)
SleepPastDeadline(p) == /\ Goto(p, "retry", "open")
                        /\ owner' = [owner EXCEPT ![p] = NoFile]
                        /\ UNCHANGED <<lock, deadline, now, crashes, stolen, behind>>

Sleep(p) == /\ Goto(p, "retry", "open")
            /\ now < deadline[p]
            /\ owner' = [owner EXCEPT ![p] = NoFile]
            /\ UNCHANGED <<lock, deadline, now, crashes, stolen, behind>>

-----------------------------------------------------------------------------
(* reclaimStaleLock *)

(* The owner is read again; another pid or since means somebody was faster. *)
RereadOwner(p) == /\ Goto(p, "reread", IF ReadLockOwner = owner[p] THEN "rename" ELSE "retry")
                  /\ UNCHANGED <<lock, owner, deadline, now, crashes, stolen, behind>>

(* rename moves whatever is at lockPath now. *)
Rename(p) == /\ Goto(p, "rename", "unlink")
             /\ lock # NoFile
             /\ lock' = NoFile
             /\ stolen' = (stolen \/ pc[lock.by] \in Holding)
             /\ UNCHANGED <<owner, deadline, now, crashes, behind>>

(* ENOENT: somebody else moved it. Any other error ends here as well. *)
RenameFails(p) == /\ Goto(p, "rename", "retry")
                  /\ lock = NoFile \/ IoErrors
                  /\ UNCHANGED <<lock, owner, deadline, now, crashes, stolen, behind>>

(* unlink(lockPath.stale-pid), a file nobody reads, then acquireLock goes
   round again without a look at the deadline. *)
UnlinkStolen(p) == /\ Goto(p, "unlink", "open")
                   /\ owner' = [owner EXCEPT ![p] = NoFile]
                   /\ UNCHANGED <<lock, deadline, now, crashes, stolen, behind>>

-----------------------------------------------------------------------------
(* withArtifactsLock, when fn() has returned or thrown: the path is unlinked
   whoever's file is there, and an error of unlink is swallowed. *)

Release(p) == /\ Goto(p, "critical", "idle")
              /\ lock' = NoFile
              /\ UNCHANGED <<owner, deadline, now, crashes, stolen, behind>>

ReleaseFails(p) == /\ IoErrors
                   /\ Goto(p, "critical", "idle")
                   /\ UNCHANGED <<lock, owner, deadline, now, crashes, stolen, behind>>

-----------------------------------------------------------------------------
(* The processes and their clock. *)

(* The process ends: Ctrl-C, a CI timeout, the OOM killer, or a plain exit. *)
Crash(p) == /\ Alive(p)
            /\ crashes < MaxCrashes
            /\ pc' = [pc EXCEPT ![p] = "dead"]
            /\ crashes' = crashes + 1
            /\ Forget(p)
            /\ UNCHANGED <<lock, now, stolen>>

(* A new process is given the PID of a dead one. *)
Restart(p) == /\ Reuse
              /\ Goto(p, "dead", "idle")
              /\ UNCHANGED <<lock, owner, deadline, now, crashes, stolen, behind>>

Tick == /\ now < MaxNow
        /\ now' = now + 1
        /\ UNCHANGED <<lock, pc, owner, deadline, crashes, stolen, behind>>

-----------------------------------------------------------------------------
Acquire(p) == \/ Create(p) \/ Exists(p) \/ OpenFails(p)
              \/ WriteOwner(p) \/ WriteFails(p)
              \/ ReadOwner(p) \/ ProbeOwner(p)
              \/ TimedOut(p) \/ Sleep(p)

Reclaim(p) == RereadOwner(p) \/ Rename(p) \/ RenameFails(p) \/ UnlinkStolen(p)

Next == \/ Tick
        \/ \E p \in Proc : \/ Call(p) \/ Acquire(p) \/ Reclaim(p)
                           \/ Release(p) \/ ReleaseFails(p)
                           \/ Crash(p) \/ Restart(p)

Spec == Init /\ [][Next]_vars

(* The event loop of a live process goes on and its clock with it. Nothing is
   assumed of fn(): a holder may stay inside for ever. *)
FairSpec == /\ Spec
            /\ WF_vars(Tick)
            /\ \A p \in Proc : WF_vars(Acquire(p) \/ Reclaim(p))

-----------------------------------------------------------------------------
(* Properties *)

TypeOK == /\ lock \in File \cup {NoFile}
          /\ pc \in [Proc -> Step]
          /\ owner \in [Proc -> File \cup {NoFile}]
          /\ deadline \in [Proc -> Nat]
          /\ now \in Nat
          /\ crashes \in Nat
          /\ stolen \in BOOLEAN
          /\ behind \in [Proc -> File \cup {NoFile}]

MutualExclusion == \A p, q \in Proc :
                      pc[p] = "critical" /\ pc[q] = "critical" => p = q

(* Two read-modify-write sections overlap only after a rename took the
   lockfile of a live holder: neither timeouts, nor I/O errors, nor deaths at
   any other moment, nor the unconditional unlink of a release do it. *)
SafeUnlessStolen == ~stolen => MutualExclusion

(* As long as every process lives, no rename happens at all and the sections
   are serialized. *)
SafeWithoutDeaths == crashes = 0 => MutualExclusion

(* The re-read before the rename is the right check, and lacks only
   atomicity: a rename that moves the very file that was re-read never takes
   it from a live holder. *)
RereadFileIsStale ==
    [][\A p \in Proc : Rename(p) /\ lock = owner[p] => pc[lock.by] \notin Holding]_vars

(* The comment above reclaimStaleLock: when two processes saw the same stale
   lock, only one moves the path, the other's rename fails with ENOENT. So a
   rename that succeeds has moved the lock its process re-read. *)
LoserGetsEnoent == [][\A p \in Proc : Rename(p) => lock = owner[p]]_vars

(* The comment above withArtifactsLock: a lock left behind by an interrupted
   run is reclaimed on the next attempt and does not block a run for the full
   timeout. True of a lockfile whose owner had been recorded: it never makes a
   later call give up, unless its PID was given to a new process or the disk
   fails. *)
RecordedLockReclaimed ==
    [][\A p \in Proc : TimedOut(p) /\ behind[p] # NoFile /\ behind[p].written
                           => lock # behind[p]]_vars

(* Every call ends, with the lock or with an error, even when the holder hangs
   inside fn() for ever and whatever is reclaimed on the way. *)
CallEnds == \A p \in Proc : pc[p] = "open" ~> pc[p] \in {"critical", "idle", "dead"}

(* The promise of withArtifactsLock, with the process inside as its holder. *)
Holder == IF \E p \in Proc : pc[p] = "critical"
            THEN CHOOSE p \in Proc : pc[p] = "critical"
            ELSE NoFile

Mutex == INSTANCE ArtifactsMutex WITH holder <- Holder, None <- NoFile

(* Every step of the protocol is a step of the promise or none at all, up to
   the step after which some rename has taken a live holder's lockfile. *)
PromiseKept == [][~stolen' => [Mutex!Next]_Holder]_vars

(* The whole promise. *)
ImplementsMutex == Mutex!Spec
=============================================================================
