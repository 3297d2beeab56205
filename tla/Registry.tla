------------------------------ MODULE Registry ------------------------------
(***************************************************************************)
(* What the artifacts file is for (docs/deploy-upgrade-spec.md): for every *)
(* contract it names the active deployment, and it never forgets one that  *)
(* was active before, so that a rollback can return to it.                 *)
(***************************************************************************)
CONSTANTS Name, Id, None

VARIABLES active,  \* active[n]: the deployment of contract n in use, or None
          known    \* known[n]: every deployment of n that was ever active

Init == /\ active \in [Name -> Id \cup {None}]
        /\ known = [n \in Name |-> {active[n]} \ {None}]

Activate(n, id) == /\ active' = [active EXCEPT ![n] = id]
                   /\ known' = [known EXCEPT ![n] = @ \cup {id}]

Next == \E n \in Name, id \in Id : Activate(n, id)

Spec == Init /\ [][Next]_<<active, known>>
=============================================================================
