----------------------------- MODULE DeployOrder -----------------------------
(***************************************************************************)
(* The order in which contracts are deployed: resolveDeployOrder           *)
(* (core/src/contracts/resolve-deploy-order.ts), a depth-first search over *)
(* `dependsOn`. A command runs it twice: when the configuration is loaded, *)
(* over all of it (core/src/config/validate-contract-graph.ts), and then   *)
(* over what it was asked to deploy.                                       *)
(*                                                                         *)
(* The JavaScript call stack is `stack`, innermost call first. A frame is  *)
(* a contract and the index of its next dependency.                        *)
(***************************************************************************)
EXTENDS Integers, Sequences

CONSTANTS Name,    \* the configured contracts
          Unknown, \* a name that is not configured
          None,    \* no contract selected, no error
          Config   \* configurations: [dependsOn : lists, whole, inline : sets of names]

AnyName == Name \cup {Unknown}

(* By contract: dependsOn, and the contracts that `${contracts.x.contractId}` names
   as all of an argument, or as a part of one (any text around it). *)
ASSUME OrderAssumption ==
         /\ Unknown \notin Name
         /\ None \notin AnyName \cup {"missing", "cycle", "invalid"}
         /\ \A c \in Config : /\ c.dependsOn \in [Name -> Seq(AnyName)]
                              /\ c.whole \in [Name -> SUBSET AnyName]
                              /\ c.inline \in [Name -> SUBSET AnyName]

VARIABLES config,   \* what loadConfig has read
          phase,    \* "load", "loaded", "resolve", "resolved" or "failed"
          selected, \* the contract the command names, None for all
          deep,     \* includeDependencies
          roots,    \* what the outer loop has left to visit
          stack,    \* the calls of visit in progress
          visited,  \* state.get(n) = "visited"
          order,    \* the order so far
          error     \* the error thrown, None if none was

orderVars == <<config, phase, selected, deep, roots, stack, visited, order, error>>

dependsOn == config.dependsOn
whole == config.whole
refs == [n \in Name |-> whole[n] \cup config.inline[n]]
Deps(n) == {dependsOn[n][i] : i \in 1..Len(dependsOn[n])}

Frame == [name : Name, next : Nat \ {0}]

OrderTypeOK == /\ config \in Config
               /\ phase \in {"load", "loaded", "resolve", "resolved", "failed"}
               /\ selected \in AnyName \cup {None}
               /\ deep \in BOOLEAN
               /\ roots \subseteq AnyName
               /\ stack \in Seq(Frame)
               /\ visited \subseteq Name
               /\ order \in Seq(Name)
               /\ error \in {None, "missing", "cycle", "invalid"}

OrderInit == /\ config \in Config
             /\ phase = "load"
             /\ selected = None
             /\ deep = TRUE
             /\ roots = Name
             /\ stack = <<>>
             /\ visited = {}
             /\ order = <<>>
             /\ error = None

-----------------------------------------------------------------------------

Searching == phase \in {"load", "resolve"}

Throw(e) == /\ phase' = "failed"
            /\ error' = e

(* state.get(n) = "visiting" *)
Visiting == {stack[i].name : i \in 1..Len(stack)}

(* without includeDependencies only the selected contract's own are looked at *)
DepsExist(n) == deep \/ selected # n \/ Deps(n) \subseteq Name

(* Mutant: a contract is visited as soon as its visit begins. *)
VisitUnmarked(n, rest) ==
  IF n \notin Name
    THEN Throw("missing") /\ UNCHANGED <<stack, visited, order>>
  ELSE IF n \in visited \/ n \in Visiting
    THEN stack' = rest /\ UNCHANGED <<visited, order, phase, error>>
  ELSE IF ~DepsExist(n)
    THEN Throw("missing") /\ UNCHANGED <<stack, visited, order>>
  ELSE /\ stack' = <<[name |-> n, next |-> 1]>> \o rest
       /\ UNCHANGED <<visited, order, phase, error>>

(* visit(n) up to its loop; `rest` is the stack it returns to. *)
Visit(n, rest) ==
  IF n \notin Name
    THEN Throw("missing") /\ UNCHANGED <<stack, visited, order>>
  ELSE IF n \in visited
    THEN stack' = rest /\ UNCHANGED <<visited, order, phase, error>>
  ELSE IF n \in Visiting
    THEN Throw("cycle") /\ UNCHANGED <<stack, visited, order>>
  ELSE IF ~DepsExist(n)
    THEN Throw("missing") /\ UNCHANGED <<stack, visited, order>>
  ELSE /\ stack' = <<[name |-> n, next |-> 1]>> \o rest
       /\ UNCHANGED <<visited, order, phase, error>>

(* The outer loop, in the order of the object's keys. *)
VisitRoot == /\ Searching
             /\ stack = <<>>
             /\ \E n \in roots : /\ roots' = roots \ {n}
                                 /\ Visit(n, <<>>)
             /\ UNCHANGED <<config, selected, deep>>

VisitDependency ==
  /\ Searching
  /\ stack # <<>>
  /\ deep
  /\ LET f == Head(stack) IN
       /\ f.next <= Len(dependsOn[f.name])
       /\ Visit(dependsOn[f.name][f.next],
                <<[f EXCEPT !.next = @ + 1]>> \o Tail(stack))
  /\ UNCHANGED <<config, selected, deep, roots>>

(* Mutant: the order in reverse. *)
LeaveFirst == /\ Searching
              /\ stack # <<>>
              /\ deep => Head(stack).next > Len(dependsOn[Head(stack).name])
              /\ visited' = visited \cup {Head(stack).name}
              /\ order' = <<Head(stack).name>> \o order
              /\ stack' = Tail(stack)
              /\ UNCHANGED <<config, phase, selected, deep, roots, error>>

(* The loop is over: the contract is visited and takes its place. *)
Leave == /\ Searching
         /\ stack # <<>>
         /\ deep => Head(stack).next > Len(dependsOn[Head(stack).name])
         /\ visited' = visited \cup {Head(stack).name}
         /\ order' = Append(order, Head(stack).name)
         /\ stack' = Tail(stack)
         /\ UNCHANGED <<config, phase, selected, deep, roots, error>>

SearchEnds(p) == /\ phase = p
                 /\ roots = {}
                 /\ stack = <<>>

(* What validateContractGraph throws for an argument of n that is all a
   placeholder and names m; those inside a text it does not see. *)
RefError(n, m) == IF m \notin Name THEN "missing"
                  ELSE IF m \notin Deps(n) THEN "invalid"
                  ELSE None

BadRefs == {r \in Name \X AnyName : r[2] \in whole[r[1]] /\ RefError(r[1], r[2]) # None}

(* The configuration is valid, or the first argument that is not throws. *)
Loaded == /\ SearchEnds("load")
          /\ IF BadRefs = {}
               THEN phase' = "loaded" /\ UNCHANGED error
               ELSE \E r \in BadRefs : Throw(RefError(r[1], r[2]))
          /\ UNCHANGED <<config, selected, deep, roots, stack, visited, order>>

(* resolveDeployOrder for `ctg deploy [s]`, with --no-deps if ~d. *)
Select(s, d) == /\ phase = "loaded"
                /\ d \/ s # None
                /\ phase' = "resolve"
                /\ selected' = s
                /\ deep' = d
                /\ roots' = IF s = None THEN Name ELSE {s}
                /\ visited' = {}
                /\ order' = <<>>
                /\ UNCHANGED <<config, stack, error>>

Resolved == /\ SearchEnds("resolve")
            /\ phase' = "resolved"
            /\ UNCHANGED <<config, selected, deep, roots, stack, visited, order, error>>

Search == VisitRoot \/ VisitDependency \/ Leave \/ Loaded \/ Resolved

OrderNext == \/ Search
             \/ \E s \in AnyName \cup {None}, d \in BOOLEAN : Select(s, d)

OrderSpec == OrderInit /\ [][OrderNext]_orderVars

-----------------------------------------------------------------------------

(* Every contract stands after all it depends on, and in the order once: when
   its constructor's arguments are resolved, what they name has had its turn. *)
DependenciesPrecede ==
  /\ \A i, j \in 1..Len(order) : order[i] = order[j] => i = j
  /\ deep => \A i \in 1..Len(order) :
               \A d \in Deps(order[i]) : \E j \in 1..(i - 1) : order[j] = d

(* Reference: what is reached from `from`, and whether it is well founded. *)
Closed(from, set) == /\ from \subseteq set
                     /\ \A n \in set \cap Name : Deps(n) \subseteq set

Reached(from) == {n \in AnyName : \A set \in SUBSET AnyName :
                                   Closed(from, set) => n \in set}

(* Some contracts, each of which depends on one of them: a cycle. *)
Cyclic(from) == \E set \in SUBSET (Reached(from) \cap Name) :
                  /\ set # {}
                  /\ \A n \in set : Deps(n) \cap set # {}

Well == /\ Reached(Name) \subseteq Name
        /\ ~Cyclic(Name)
        /\ \A n \in Name : whole[n] \subseteq Deps(n)

(* A configuration is refused exactly if a contract depends, however far, on
   itself or on one that is not configured, or if an argument that is nothing but
   a placeholder names a contract that is no dependency; a command then deploys
   exactly what it was asked to and what that needs. *)
SearchIsExact ==
  /\ phase \in {"loaded", "resolve", "resolved"} => Well
  /\ phase = "failed" => \/ ~Well
                         \/ selected \notin Name \cup {None}
  /\ phase = "resolved" =>
       {order[i] : i \in 1..Len(order)} =
         (IF selected = None THEN Name
          ELSE IF deep THEN Reached({selected}) ELSE {selected})
=============================================================================
