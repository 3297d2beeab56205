-------------------------- MODULE ArtifactsMutex --------------------------
(***************************************************************************)
(* What withArtifactsLock promises its callers (the comment above it in    *)
(* core/src/artifacts/artifacts-lock.ts): the read-modify-write sections   *)
(* on caatinga.artifacts.json of concurrent Caatinga processes are         *)
(* serialized, and a process that dies in its section does not keep the    *)
(* others out for ever.                                                    *)
(***************************************************************************)
CONSTANTS Proc,    \* the Caatinga processes that share one project directory
          None     \* the holder while nobody is inside a section

VARIABLE holder    \* the process inside its section, or None

TypeOK == holder \in Proc \cup {None}

Init == holder = None

(* A process enters its section: nobody else is inside. *)
Enter(p) == /\ holder = None
            /\ holder' = p

(* The holder leaves: fn() has returned or thrown, or the process died. *)
Leave(p) == /\ holder = p
            /\ holder' = None

Next == \E p \in Proc : Enter(p) \/ Leave(p)

Spec == Init /\ [][Next]_holder
=============================================================================
