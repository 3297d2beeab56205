-------------------------- MODULE DeployOrderProofs --------------------------
(***************************************************************************)
(* Theorems about DeployOrder, for every set of contracts and every        *)
(* configuration, cyclic ones included.                                    *)
(***************************************************************************)
EXTENDS DeployOrder, TLAPS, SequenceTheorems, WellFoundedInduction

(* What unshift does to the stack of calls. *)
LEMMA Pushed ==
  ASSUME NEW S, NEW x \in S, NEW s \in Seq(S)
  PROVE  /\ <<x>> \o s \in Seq(S)
         /\ Len(<<x>> \o s) = Len(s) + 1
         /\ (<<x>> \o s)[1] = x
         /\ \A i \in 2..(Len(s) + 1) : (<<x>> \o s)[i] = s[i - 1]
  OBVIOUS

LEMMA Popped ==
  ASSUME NEW S, NEW s \in Seq(S), s # <<>>
  PROVE  /\ Head(s) \in S
         /\ Head(s) = s[1]
         /\ Tail(s) \in Seq(S)
         /\ Len(s) \in Nat \ {0}
         /\ Len(Tail(s)) = Len(s) - 1
         /\ \A i \in 1..(Len(s) - 1) : Tail(s)[i] = s[i + 1]
  OBVIOUS

-----------------------------------------------------------------------------
(* The inductive invariant *)

(* What is visited is what has been placed, once. *)
Marked == /\ visited = {order[i] : i \in 1..Len(order)}
          /\ \A i, j \in 1..Len(order) : order[i] = order[j] => i = j

(* A contract whose visit is in progress has no place yet. *)
Open == /\ \A i \in 1..Len(stack) : stack[i].name \notin visited
        /\ \A i, j \in 1..Len(stack) : stack[i].name = stack[j].name => i = j

(* The dependencies a visit has gone through are placed, but the last of them
   may be the visit it waits for. *)
Descended ==
  deep => \A i \in 1..Len(stack) : \A k \in 1..Len(dependsOn[stack[i].name]) :
            k < stack[i].next =>
              \/ dependsOn[stack[i].name][k] \in visited
              \/ /\ i > 1
                 /\ k = stack[i].next - 1
                 /\ dependsOn[stack[i].name][k] = stack[i - 1].name

Preceded == deep => \A i \in 1..Len(order) :
              \A d \in Deps(order[i]) : \E j \in 1..(i - 1) : order[j] = d

(* A command starts with no visit in progress. *)
Rests == phase \in {"loaded", "resolved"} => stack = <<>>

OrderInv == OrderTypeOK /\ Marked /\ Open /\ Descended /\ Preceded /\ Rests

(* The configured dependencies are lists of names. *)
LEMMA Lists ==
  ASSUME OrderTypeOK, NEW n \in Name
  PROVE  /\ dependsOn[n] \in Seq(AnyName)
         /\ Len(dependsOn[n]) \in Nat
         /\ \A k \in 1..Len(dependsOn[n]) : dependsOn[n][k] \in AnyName
<1>1. dependsOn \in [Name -> Seq(AnyName)]
  BY OrderAssumption DEF OrderTypeOK, dependsOn
<1>2. dependsOn[n] \in Seq(AnyName)
  BY <1>1
<1> QED
  BY <1>2

(* Places are kept as long as the order is. *)
LEMMA Undisturbed ==
  ASSUME UNCHANGED <<deep, visited, order, dependsOn>>
  PROVE  Marked /\ Preceded => Marked' /\ Preceded'
<1>1. Marked => Marked'
  BY DEF Marked
<1>2. \A m : Deps(m)' = Deps(m)
  BY DEF Deps
<1>3. Preceded => Preceded'
  BY <1>2 DEF Preceded
<1> QED
  BY <1>1, <1>3

(* What a visit may do, at a stack it returns to that is in order. *)
LEMMA Visits ==
  ASSUME OrderInv, Searching, NEW n \in AnyName, NEW rest \in Seq(Frame), Visit(n, rest),
         UNCHANGED <<config, selected, deep>>, roots' \subseteq AnyName,
         \A i \in 1..Len(rest) : rest[i].name \in Visiting,
         \A i, j \in 1..Len(rest) : rest[i].name = rest[j].name => i = j,
         deep => \A i \in 1..Len(rest) : \A k \in 1..Len(dependsOn[rest[i].name]) :
            k < rest[i].next =>
              \/ dependsOn[rest[i].name][k] \in visited
              \/ i = 1 /\ k = rest[i].next - 1 /\ dependsOn[rest[i].name][k] = n
              \/ /\ i > 1
                 /\ k = rest[i].next - 1
                 /\ dependsOn[rest[i].name][k] = rest[i - 1].name
  PROVE  OrderInv'
<1> USE DEF OrderInv
<1>1. UNCHANGED <<visited, order, dependsOn>>
  BY DEF Visit, Throw, dependsOn
<1>2. Marked' /\ Preceded'
  BY <1>1, Undisturbed
<1>3. CASE phase' = "failed" /\ error' \in {"missing", "cycle"} /\ UNCHANGED stack
  <2>1. Open' /\ Descended' /\ Rests'
    BY <1>1, <1>3 DEF Open, Descended, Rests
  <2>2. OrderTypeOK'
    BY <1>1, <1>3 DEF OrderTypeOK
  <2> QED
    BY <1>2, <2>1, <2>2
<1>4. CASE n \in visited /\ stack' = rest /\ UNCHANGED <<phase, error>>
  <2>1. OrderTypeOK'
    BY <1>1, <1>4 DEF OrderTypeOK
  <2>2. Open'
    BY <1>1, <1>4 DEF Open, Visiting
  <2>3. Descended'
    BY <1>1, <1>4 DEF Descended
  <2>4. Rests'
    BY <1>4 DEF Rests, Searching
  <2> QED
    BY <1>2, <2>1, <2>2, <2>3, <2>4
<1>5. CASE /\ n \in Name /\ n \notin visited /\ n \notin Visiting
           /\ stack' = <<[name |-> n, next |-> 1]>> \o rest
           /\ UNCHANGED <<phase, error>>
  <2> DEFINE f == [name |-> n, next |-> 1]
  <2>1. f \in Frame /\ f.name = n /\ f.next = 1
    BY <1>5 DEF Frame
  <2> HIDE DEF f
  <2>2. /\ stack' \in Seq(Frame)
        /\ Len(rest) \in Nat
        /\ Len(stack') = Len(rest) + 1
        /\ stack'[1] = f
        /\ \A i \in 2..(Len(rest) + 1) : stack'[i] = rest[i - 1]
    <3>1. stack' = <<f>> \o rest
      BY <1>5 DEF f
    <3> QED
      BY <2>1, <3>1, Pushed
  <2>3. OrderTypeOK'
    BY <1>1, <1>5, <2>2 DEF OrderTypeOK
  <2>4. Open'
    <3>1. ASSUME NEW i \in 1..(Len(rest) + 1)
          PROVE  /\ stack'[i].name \notin visited
                 /\ i # 1 => stack'[i].name # n
      <4>1. CASE i = 1
        BY <1>5, <2>1, <2>2, <4>1
      <4>2. CASE i # 1
        <5>1. i - 1 \in 1..Len(rest) /\ stack'[i] = rest[i - 1]
          <6>1. i \in 2..(Len(rest) + 1)
            BY <2>2, <4>2
          <6> QED
            BY <2>2, <6>1
        <5>2. rest[i - 1].name \in Visiting
          BY <5>1
        <5>3. \A m \in Visiting : m \notin visited
          BY DEF Open, Visiting
        <5> QED
          BY <1>5, <5>1, <5>2, <5>3
      <4> QED
        BY <4>1, <4>2
    <3>2. ASSUME NEW i \in 1..(Len(rest) + 1), NEW j \in 1..(Len(rest) + 1),
                 stack'[i].name = stack'[j].name
          PROVE  i = j
      <4>1. CASE i = 1 \/ j = 1
        BY <2>1, <2>2, <3>1, <3>2, <4>1
      <4>2. CASE i # 1 /\ j # 1
        <5>1. i - 1 \in 1..Len(rest) /\ j - 1 \in 1..Len(rest)
          BY <2>2, <4>2
        <5>2. rest[i - 1].name = rest[j - 1].name
          BY <2>2, <3>2, <4>2
        <5> QED
          BY <5>1, <5>2
      <4> QED
        BY <4>1, <4>2
    <3> QED
      BY <1>1, <2>2, <3>1, <3>2 DEF Open
  <2>5. Descended'
    <3> SUFFICES ASSUME deep, NEW i \in 1..(Len(rest) + 1),
                        NEW k \in 1..Len(dependsOn[stack'[i].name]),
                        k < stack'[i].next
                 PROVE  \/ dependsOn[stack'[i].name][k] \in visited
                        \/ /\ i > 1
                           /\ k = stack'[i].next - 1
                           /\ dependsOn[stack'[i].name][k] = stack'[i - 1].name
      BY <1>1, <2>2 DEF Descended
    <3>1. i # 1
      BY <2>1, <2>2
    <3>2. i - 1 \in 1..Len(rest) /\ stack'[i] = rest[i - 1]
      BY <2>2, <3>1
    <3>3. CASE i = 2
      BY <2>1, <2>2, <3>2, <3>3
    <3>4. CASE i > 2
      <4>1. stack'[i - 1] = rest[i - 2]
        BY <2>2, <3>4
      <4> QED
        BY <2>2, <3>2, <3>4, <4>1
    <3> QED
      BY <2>2, <3>1, <3>3, <3>4
  <2>6. Rests'
    BY <1>5 DEF Rests, Searching
  <2> QED
    BY <1>2, <2>3, <2>4, <2>5, <2>6
<1> QED
  BY <1>3, <1>4, <1>5 DEF Visit, Throw

LEMMA Roots == OrderInv /\ VisitRoot => OrderInv'
<1> SUFFICES ASSUME OrderInv, VisitRoot PROVE OrderInv'
  OBVIOUS
<1>1. PICK n \in roots : roots' = roots \ {n} /\ Visit(n, <<>>)
  BY DEF VisitRoot
<1>2. n \in AnyName /\ roots' \subseteq AnyName
  BY <1>1 DEF OrderInv, OrderTypeOK
<1>3. Searching /\ UNCHANGED <<config, selected, deep>>
  BY DEF VisitRoot
<1> DEFINE rest == <<>>
<1>4. rest \in Seq(Frame) /\ 1..Len(rest) = {}
  OBVIOUS
<1>5. Visit(n, rest)
  BY <1>1
<1> HIDE DEF rest
<1> QED
  BY <1>2, <1>3, <1>4, <1>5, Visits

LEMMA Dependencies == OrderInv /\ VisitDependency => OrderInv'
<1> SUFFICES ASSUME OrderInv, VisitDependency PROVE OrderInv'
  OBVIOUS
<1> DEFINE f == Head(stack)
           g == [f EXCEPT !.next = @ + 1]
           n == dependsOn[f.name][f.next]
           rest == <<g>> \o Tail(stack)
<1>1. /\ stack \in Seq(Frame) /\ f \in Frame /\ f = stack[1]
      /\ Tail(stack) \in Seq(Frame)
      /\ Len(stack) \in Nat \ {0}
      /\ Len(Tail(stack)) = Len(stack) - 1
      /\ \A i \in 1..(Len(stack) - 1) : Tail(stack)[i] = stack[i + 1]
  <2>1. stack \in Seq(Frame) /\ stack # <<>>
    BY DEF OrderInv, OrderTypeOK, VisitDependency
  <2> QED
    BY <2>1, Popped
<1>2. f.name \in Name /\ f.next \in Nat \ {0}
  BY <1>1 DEF Frame
<1>3. g \in Frame /\ g.name = f.name /\ g.next = f.next + 1
  BY <1>1, <1>2 DEF Frame
<1>4. n \in AnyName /\ f.next \in 1..Len(dependsOn[f.name])
  BY <1>2, Lists DEF VisitDependency, OrderInv
<1>5. Visit(n, rest) /\ deep /\ Searching /\ UNCHANGED <<config, selected, deep, roots>>
  BY DEF VisitDependency
<1> HIDE DEF f, g, n
<1>6. /\ rest \in Seq(Frame)
      /\ Len(rest) = Len(stack)
      /\ rest[1] = g
      /\ \A i \in 2..Len(stack) : rest[i] = stack[i]
  <2>1. /\ rest \in Seq(Frame)
        /\ Len(rest) = Len(Tail(stack)) + 1
        /\ rest[1] = g
        /\ \A i \in 2..(Len(Tail(stack)) + 1) : rest[i] = Tail(stack)[i - 1]
    BY <1>1, <1>3, Pushed
  <2> QED
    BY <1>1, <2>1
<1> HIDE DEF rest
<1>7. \A i \in 1..Len(rest) : rest[i].name = stack[i].name
  BY <1>1, <1>3, <1>6
<1>8. \A i \in 1..Len(rest) : rest[i].name \in Visiting
  BY <1>6, <1>7 DEF Visiting
<1>9. \A i, j \in 1..Len(rest) : rest[i].name = rest[j].name => i = j
  BY <1>6, <1>7 DEF OrderInv, Open
<1>10. ASSUME NEW i \in 1..Len(rest), NEW k \in 1..Len(dependsOn[rest[i].name]),
              k < rest[i].next
       PROVE  \/ dependsOn[rest[i].name][k] \in visited
              \/ i = 1 /\ k = rest[i].next - 1 /\ dependsOn[rest[i].name][k] = n
              \/ /\ i > 1
                 /\ k = rest[i].next - 1
                 /\ dependsOn[rest[i].name][k] = rest[i - 1].name
  <2>1. i \in 1..Len(stack) /\ k \in 1..Len(dependsOn[stack[i].name])
    BY <1>6, <1>7
  <2>2. k < stack[i].next =>
          \/ dependsOn[stack[i].name][k] \in visited
          \/ i > 1 /\ k = stack[i].next - 1 /\ dependsOn[stack[i].name][k] = stack[i - 1].name
    BY <1>5, <2>1 DEF OrderInv, Descended
  <2>3. CASE i = 1
    BY <1>1, <1>2, <1>3, <1>6, <1>10, <2>1, <2>2, <2>3 DEF n
  <2>4. CASE i > 1
    BY <1>1, <1>6, <1>7, <1>10, <2>1, <2>2, <2>4
  <2> QED
    BY <1>1, <2>1, <2>3, <2>4
<1>11. roots' \subseteq AnyName
  BY <1>5 DEF OrderInv, OrderTypeOK
<1> QED
  BY <1>4, <1>5, <1>6, <1>8, <1>9, <1>10, <1>11, Visits

LEMMA Leaves == OrderInv /\ Leave => OrderInv'
<1> SUFFICES ASSUME OrderInv, Leave PROVE OrderInv'
  OBVIOUS
<1> DEFINE f == Head(stack)
<1>1. /\ stack \in Seq(Frame) /\ f \in Frame /\ f = stack[1]
      /\ stack' \in Seq(Frame)
      /\ Len(stack) \in Nat \ {0}
      /\ Len(stack') = Len(stack) - 1
      /\ \A i \in 1..(Len(stack) - 1) : stack'[i] = stack[i + 1]
  <2>1. stack \in Seq(Frame) /\ stack # <<>> /\ stack' = Tail(stack)
    BY DEF OrderInv, OrderTypeOK, Leave
  <2> QED
    BY <2>1, Popped
<1>2. f.name \in Name /\ f.next \in Nat \ {0}
  BY <1>1 DEF Frame
<1>3. /\ order \in Seq(Name) /\ Len(order) \in Nat
      /\ order' \in Seq(Name)
      /\ Len(order') = Len(order) + 1
      /\ \A i \in 1..Len(order) : order'[i] = order[i]
      /\ order'[Len(order) + 1] = f.name
  BY <1>2 DEF OrderInv, OrderTypeOK, Leave
<1>4. /\ visited' = visited \cup {f.name}
      /\ UNCHANGED <<config, phase, selected, deep, roots, error, dependsOn>>
      /\ deep => f.next > Len(dependsOn[f.name])
  BY DEF Leave, dependsOn
<1>5. /\ Len(dependsOn[f.name]) \in Nat
      /\ Deps(f.name) = {dependsOn[f.name][k] : k \in 1..Len(dependsOn[f.name])}
  BY <1>2, Lists DEF OrderInv, Deps
<1> HIDE DEF f
<1>6. f.name \notin visited
  BY <1>1 DEF OrderInv, Open
<1>7. OrderTypeOK'
  BY <1>1, <1>2, <1>3, <1>4 DEF OrderInv, OrderTypeOK
<1>8. Marked'
  <2>1. visited = {order[i] : i \in 1..Len(order)}
        /\ \A i, j \in 1..Len(order) : order[i] = order[j] => i = j
    BY DEF OrderInv, Marked
  <2>2. visited' = {order'[i] : i \in 1..Len(order')}
    BY <1>3, <1>4, <2>1
  <2>3. \A i \in 1..Len(order) : order'[i] # f.name
    BY <1>3, <1>6, <2>1
  <2>4. \A i, j \in 1..Len(order') : order'[i] = order'[j] => i = j
    BY <1>3, <2>1, <2>3
  <2> QED
    BY <2>2, <2>4 DEF Marked
<1>9. Open'
  <2>1. ASSUME NEW i \in 1..Len(stack')
        PROVE  stack'[i].name \notin visited'
    <3>1. i + 1 \in 1..Len(stack) /\ stack'[i] = stack[i + 1] /\ i + 1 # 1
      BY <1>1
    <3>2. stack[i + 1].name # f.name /\ stack[i + 1].name \notin visited
      BY <1>1, <3>1 DEF OrderInv, Open
    <3> QED
      BY <1>4, <3>1, <3>2
  <2>2. ASSUME NEW i \in 1..Len(stack'), NEW j \in 1..Len(stack'),
               stack'[i].name = stack'[j].name
        PROVE  i = j
    <3>1. i + 1 \in 1..Len(stack) /\ j + 1 \in 1..Len(stack)
          /\ stack'[i] = stack[i + 1] /\ stack'[j] = stack[j + 1]
      BY <1>1
    <3>2. i + 1 = j + 1
      BY <2>2, <3>1 DEF OrderInv, Open
    <3> QED
      BY <3>2
  <2> QED
    BY <2>1, <2>2 DEF Open
<1>10. Descended'
  <2> SUFFICES ASSUME deep, NEW i \in 1..Len(stack'),
                      NEW k \in 1..Len(dependsOn[stack'[i].name]),
                      k < stack'[i].next
               PROVE  \/ dependsOn[stack'[i].name][k] \in visited'
                      \/ /\ i > 1
                         /\ k = stack'[i].next - 1
                         /\ dependsOn[stack'[i].name][k] = stack'[i - 1].name
    BY <1>4 DEF Descended
  <2>1. i + 1 \in 1..Len(stack) /\ stack'[i] = stack[i + 1]
    BY <1>1
  <2>2. \/ dependsOn[stack[i + 1].name][k] \in visited
        \/ k = stack[i + 1].next - 1 /\ dependsOn[stack[i + 1].name][k] = stack[i].name
    BY <2>1 DEF OrderInv, Descended
  <2>3. CASE i = 1
    BY <1>1, <1>4, <2>1, <2>2, <2>3
  <2>4. CASE i > 1
    <3>1. stack'[i - 1] = stack[i]
      BY <1>1, <2>4
    <3> QED
      BY <1>4, <2>1, <2>2, <2>4, <3>1
  <2> QED
    BY <2>3, <2>4
<1>11. Preceded'
  <2> SUFFICES ASSUME deep, NEW i \in 1..Len(order'), NEW d \in Deps(order'[i])
               PROVE  \E j \in 1..(i - 1) : order'[j] = d
    <3>1. \A m : Deps(m)' = Deps(m)
      BY <1>4 DEF Deps
    <3> QED
      BY <1>4, <3>1 DEF Preceded
  <2>1. CASE i \in 1..Len(order)
    <3>1. \E j \in 1..(i - 1) : order[j] = d
      BY <1>3, <2>1 DEF OrderInv, Preceded
    <3> QED
      BY <1>3, <2>1, <3>1
  <2>2. CASE i = Len(order) + 1
    <3>1. d \in Deps(f.name)
      BY <1>3, <2>2
    <3>2. PICK k \in 1..Len(dependsOn[f.name]) : d = dependsOn[f.name][k]
      BY <1>5, <3>1
    <3>3. k < f.next
      BY <1>2, <1>4, <1>5
    <3>4. d \in visited
      BY <1>1, <3>2, <3>3 DEF OrderInv, Descended
    <3>5. PICK j \in 1..Len(order) : order[j] = d
      BY <3>4 DEF OrderInv, Marked
    <3> QED
      BY <1>3, <2>2, <3>5
  <2> QED
    BY <1>3, <2>1, <2>2
<1>12. Rests'
  BY <1>4 DEF Rests, Leave, Searching
<1> QED
  BY <1>7, <1>8, <1>9, <1>10, <1>11, <1>12 DEF OrderInv

-----------------------------------------------------------------------------

LEMMA OrderInvInit == OrderInit => OrderInv
  BY OrderAssumption DEF OrderInit, OrderInv, OrderTypeOK, Marked, Open, Descended,
     Preceded, Rests, AnyName

LEMMA OrderInvNext == OrderInv /\ [OrderNext]_orderVars => OrderInv'
<1> SUFFICES ASSUME OrderInv, [OrderNext]_orderVars PROVE OrderInv'
  OBVIOUS
<1>1. CASE Loaded
  <2>1. UNCHANGED <<config, selected, deep, roots, stack, visited, order, dependsOn>>
    BY <1>1 DEF Loaded, dependsOn
  <2>2. stack = <<>> /\ phase' \in {"loaded", "failed"}
        /\ error' \in {None, "missing", "cycle", "invalid"}
    <3>1. error \in {None, "missing", "cycle", "invalid"}
      BY DEF OrderInv, OrderTypeOK
    <3> QED
      BY <1>1, <3>1 DEF Loaded, SearchEnds, Throw, RefError
  <2>3. OrderTypeOK'
    BY <2>1, <2>2 DEF OrderInv, OrderTypeOK
  <2>4. \A m : Deps(m)' = Deps(m)
    BY <2>1 DEF Deps
  <2>5. Marked' /\ Open' /\ Rests'
    BY <2>1, <2>2 DEF OrderInv, Marked, Open, Rests
  <2>6. Descended'
    BY <2>1 DEF OrderInv, Descended
  <2>7. Preceded'
    BY <2>1, <2>4 DEF OrderInv, Preceded
  <2> QED
    BY <2>3, <2>5, <2>6, <2>7 DEF OrderInv
<1>2. ASSUME NEW s \in AnyName \cup {None}, NEW d \in BOOLEAN, Select(s, d)
      PROVE  OrderInv'
  <2>1. /\ stack' = <<>> /\ order' = <<>> /\ visited' = {} /\ phase' = "resolve"
        /\ roots' \subseteq AnyName
    BY <1>2 DEF Select, OrderInv, Rests, AnyName
  <2>2. OrderTypeOK'
    BY <1>2, <2>1 DEF Select, OrderInv, OrderTypeOK
  <2> QED
    BY <2>1, <2>2 DEF OrderInv, Marked, Open, Descended, Preceded, Rests
<1>3. CASE Resolved
  <2>1. UNCHANGED <<config, selected, deep, roots, stack, visited, order, error, dependsOn>>
        /\ stack = <<>> /\ phase' = "resolved"
    BY <1>3 DEF Resolved, SearchEnds, dependsOn
  <2>2. \A m : Deps(m)' = Deps(m)
    BY <2>1 DEF Deps
  <2>3. OrderTypeOK' /\ Marked' /\ Open' /\ Rests'
    BY <2>1 DEF OrderInv, OrderTypeOK, Marked, Open, Rests
  <2>4. Descended' /\ Preceded'
    BY <2>1, <2>2 DEF OrderInv, Descended, Preceded
  <2> QED
    BY <2>3, <2>4 DEF OrderInv
<1>4. CASE UNCHANGED orderVars
  BY <1>4 DEF orderVars, dependsOn, OrderInv, OrderTypeOK, Marked, Open, Descended,
     Preceded, Rests, Deps
<1> QED
  BY <1>1, <1>2, <1>3, <1>4, Roots, Dependencies, Leaves DEF OrderNext, Search

-----------------------------------------------------------------------------
(* What the two searches of a command look at *)

(* At load every contract is still to be visited, being visited, or placed. *)
Whole == phase = "load" => deep /\ \A n \in Name : n \in roots \cup visited \cup Visiting

(* With --no-deps there is only the contract that was named. *)
Alone == ~deep => /\ roots \subseteq {selected}
                  /\ \A i \in 1..Len(stack) : stack[i].name = selected
                  /\ \A i \in 1..Len(order) : order[i] = selected

ScopeInv == Whole /\ Alone

(* No contract depends on itself. *)
Loopless == \A n \in Name : n \notin Deps(n)

LEMMA ScopeInit == OrderInit => ScopeInv
  BY DEF OrderInit, ScopeInv, Whole, Alone

(* What a visit leaves on the stack. *)
LEMMA VisitNames ==
  ASSUME NEW n \in AnyName, NEW rest \in Seq(Frame), Visit(n, rest), phase' # "failed"
  PROVE  /\ UNCHANGED <<phase, visited, order>>
         /\ \/ n \in visited /\ stack' = rest
            \/ /\ Visiting' = {n} \cup {rest[i].name : i \in 1..Len(rest)}
               /\ \A i \in 1..Len(stack') :
                    stack'[i].name = n \/ \E j \in 1..Len(rest) : stack'[i].name = rest[j].name
<1>1. UNCHANGED <<phase, visited, order>>
  BY DEF Visit, Throw
<1>2. CASE n \in Name /\ stack' = <<[name |-> n, next |-> 1]>> \o rest
  <2> DEFINE f == [name |-> n, next |-> 1]
  <2>1. f \in Frame /\ f.name = n
    BY <1>2 DEF Frame
  <2> HIDE DEF f
  <2>2. /\ Len(rest) \in Nat
        /\ Len(stack') = Len(rest) + 1
        /\ stack'[1] = f
        /\ \A i \in 2..(Len(rest) + 1) : stack'[i] = rest[i - 1]
    BY <1>2, <2>1, Pushed DEF f
  <2>3. ASSUME NEW i \in 1..Len(stack')
        PROVE  stack'[i].name = n \/ \E j \in 1..Len(rest) : stack'[i].name = rest[j].name
    <3>1. CASE i = 1
      BY <2>1, <2>2, <3>1
    <3>2. CASE i > 1
      <4>1. i - 1 \in 1..Len(rest) /\ stack'[i] = rest[i - 1]
        BY <2>2, <2>3, <3>2
      <4> QED
        BY <4>1
    <3> QED
      BY <2>2, <2>3, <3>1, <3>2
  <2>4. \E i \in 1..Len(stack') : stack'[i].name = n
    BY <2>1, <2>2
  <2>5. ASSUME NEW j \in 1..Len(rest)
        PROVE  \E i \in 1..Len(stack') : stack'[i].name = rest[j].name
    <3>1. j + 1 \in 1..Len(stack') /\ stack'[j + 1] = rest[j]
      BY <2>2, <2>5
    <3> QED
      BY <3>1
  <2>6. Visiting' = {n} \cup {rest[i].name : i \in 1..Len(rest)}
    <3> DEFINE names == {stack'[i].name : i \in 1..Len(stack')}
    <3>1. \A x \in names : x \in {n} \cup {rest[i].name : i \in 1..Len(rest)}
      BY <2>3
    <3>2. n \in names /\ \A j \in 1..Len(rest) : rest[j].name \in names
      BY <2>4, <2>5
    <3>3. Visiting' = names
      BY DEF Visiting
    <3> HIDE DEF names
    <3> QED
      BY <3>1, <3>2, <3>3
  <2> QED
    BY <1>1, <2>3, <2>6
<1> QED
  BY <1>1, <1>2 DEF Visit, Throw

LEMMA ScopeRoots == OrderInv /\ ScopeInv /\ VisitRoot => ScopeInv'
<1> SUFFICES ASSUME OrderInv, ScopeInv, VisitRoot PROVE ScopeInv'
  OBVIOUS
<1>1. PICK n \in roots : roots' = roots \ {n} /\ Visit(n, <<>>)
  BY DEF VisitRoot
<1>2. n \in AnyName /\ stack = <<>> /\ UNCHANGED <<selected, deep>>
  BY <1>1 DEF OrderInv, OrderTypeOK, VisitRoot
<1> DEFINE rest == <<>>
<1>3. rest \in Seq(Frame) /\ 1..Len(rest) = {} /\ rest = stack
  BY <1>2
<1>4. Visit(n, rest)
  BY <1>1
<1> HIDE DEF rest
<1>5. CASE phase' = "failed"
  <2>1. UNCHANGED <<stack, order>>
    BY <1>2, <1>3, <1>4, <1>5 DEF Visit, Throw, VisitRoot, Searching
  <2> QED
    BY <1>1, <1>2, <1>5, <2>1 DEF ScopeInv, Whole, Alone
<1>6. CASE phase' # "failed"
  <2>1. /\ UNCHANGED <<phase, visited, order>>
        /\ \/ n \in visited /\ stack' = stack
           \/ Visiting' = {n} /\ \A i \in 1..Len(stack') : stack'[i].name = n
    <3>1. {rest[i].name : i \in 1..Len(rest)} = {}
      BY <1>3
    <3>2. /\ UNCHANGED <<phase, visited, order>>
          /\ \/ n \in visited /\ stack' = rest
             \/ /\ Visiting' = {n} \cup {rest[i].name : i \in 1..Len(rest)}
                /\ \A i \in 1..Len(stack') :
                     stack'[i].name = n \/ \E j \in 1..Len(rest) : stack'[i].name = rest[j].name
      BY <1>2, <1>3, <1>4, <1>6, VisitNames
    <3> QED
      BY <1>3, <3>1, <3>2
  <2>2. Visiting = {}
    BY <1>3 DEF Visiting
  <2>3. n \in visited' \cup Visiting' /\ UNCHANGED <<phase, visited, order>>
    BY <2>1
  <2>4. Whole'
    BY <1>1, <1>2, <2>2, <2>3 DEF ScopeInv, Whole
  <2>5. Alone'
    BY <1>1, <1>2, <2>1 DEF ScopeInv, Alone
  <2> QED
    BY <2>4, <2>5 DEF ScopeInv
<1> QED
  BY <1>5, <1>6

LEMMA ScopeDependencies == OrderInv /\ ScopeInv /\ VisitDependency => ScopeInv'
<1> SUFFICES ASSUME OrderInv, ScopeInv, VisitDependency PROVE ScopeInv'
  OBVIOUS
<1> DEFINE f == Head(stack)
           g == [f EXCEPT !.next = @ + 1]
           n == dependsOn[f.name][f.next]
           rest == <<g>> \o Tail(stack)
<1>1. /\ stack \in Seq(Frame) /\ f \in Frame /\ f = stack[1]
      /\ Tail(stack) \in Seq(Frame)
      /\ Len(stack) \in Nat \ {0}
      /\ Len(Tail(stack)) = Len(stack) - 1
      /\ \A i \in 1..(Len(stack) - 1) : Tail(stack)[i] = stack[i + 1]
  <2>1. stack \in Seq(Frame) /\ stack # <<>>
    BY DEF OrderInv, OrderTypeOK, VisitDependency
  <2> QED
    BY <2>1, Popped
<1>2. g \in Frame /\ g.name = f.name
  <2>1. f.name \in Name /\ f.next \in Nat \ {0} /\ f = [name |-> f.name, next |-> f.next]
    BY <1>1 DEF Frame
  <2>2. f.next + 1 \in Nat \ {0}
    BY <2>1
  <2> HIDE DEF f
  <2> QED
    BY <1>1, <2>1, <2>2 DEF Frame
<1>3. n \in AnyName
  <2>1. f.name \in Name /\ f.next \in Nat \ {0}
    BY <1>1 DEF Frame
  <2> QED
    BY <2>1, Lists DEF VisitDependency, OrderInv
<1>4. Visit(n, rest) /\ deep /\ UNCHANGED <<selected, deep, roots>>
  BY DEF VisitDependency
<1> HIDE DEF f, g, n
<1>5. /\ rest \in Seq(Frame)
      /\ Len(rest) = Len(stack)
      /\ rest[1] = g
      /\ \A i \in 2..Len(stack) : rest[i] = stack[i]
  <2>1. /\ rest \in Seq(Frame)
        /\ Len(rest) = Len(Tail(stack)) + 1
        /\ rest[1] = g
        /\ \A i \in 2..(Len(Tail(stack)) + 1) : rest[i] = Tail(stack)[i - 1]
    BY <1>1, <1>2, Pushed
  <2> QED
    BY <1>1, <2>1
<1> HIDE DEF rest
<1>6. \A i \in 1..Len(stack) : rest[i].name = stack[i].name
  BY <1>1, <1>2, <1>5
<1>7. {rest[i].name : i \in 1..Len(rest)} = Visiting
  BY <1>5, <1>6 DEF Visiting
<1>8. ASSUME phase' = "load"
      PROVE  phase = "load" /\ visited' = visited /\ Visiting \subseteq Visiting'
  <2>1. /\ UNCHANGED <<phase, visited, order>>
        /\ \/ stack' = rest
           \/ Visiting' = {n} \cup {rest[i].name : i \in 1..Len(rest)}
    BY <1>3, <1>4, <1>5, <1>8, VisitNames
  <2>2. stack' = rest => Visiting' = Visiting
    BY <1>5, <1>7 DEF Visiting
  <2> QED
    BY <1>7, <1>8, <2>1, <2>2
<1>9. Whole'
  BY <1>4, <1>8 DEF ScopeInv, Whole
<1> QED
  BY <1>4, <1>9 DEF ScopeInv, Alone

LEMMA ScopeLeaves == OrderInv /\ ScopeInv /\ Leave => ScopeInv'
<1> SUFFICES ASSUME OrderInv, ScopeInv, Leave PROVE ScopeInv'
  OBVIOUS
<1> DEFINE f == Head(stack)
<1>1. /\ f = stack[1]
      /\ Len(stack) \in Nat \ {0}
      /\ Len(stack') = Len(stack) - 1
      /\ \A i \in 1..(Len(stack) - 1) : stack'[i] = stack[i + 1]
  <2>1. stack \in Seq(Frame) /\ stack # <<>> /\ stack' = Tail(stack)
    BY DEF OrderInv, OrderTypeOK, Leave
  <2> QED
    BY <2>1, Popped
<1>2. /\ UNCHANGED <<phase, selected, deep, roots>>
      /\ visited' = visited \cup {f.name}
      /\ order' = Append(order, f.name)
      /\ order \in Seq(Name)
  BY DEF Leave, OrderInv, OrderTypeOK
<1> HIDE DEF f
<1>3. ASSUME NEW i \in 1..Len(stack)
      PROVE  stack[i].name = f.name \/ \E j \in 1..Len(stack') : stack'[j].name = stack[i].name
  <2>1. CASE i = 1
    BY <1>1, <2>1
  <2>2. CASE i > 1
    <3>1. i - 1 \in 1..Len(stack') /\ stack'[i - 1] = stack[i]
      BY <1>1, <1>3, <2>2
    <3> QED
      BY <3>1
  <2> QED
    BY <1>1, <1>3, <2>1, <2>2
<1>4. Visiting \subseteq {f.name} \cup Visiting'
  BY <1>3 DEF Visiting
<1>5. Whole'
  BY <1>2, <1>4 DEF ScopeInv, Whole
<1>6. Alone'
  <2> SUFFICES ASSUME ~deep
               PROVE  /\ roots \subseteq {selected}
                      /\ \A i \in 1..Len(stack') : stack'[i].name = selected
                      /\ \A i \in 1..Len(order') : order'[i] = selected
    BY <1>2 DEF Alone
  <2>1. /\ roots \subseteq {selected}
        /\ \A i \in 1..Len(stack) : stack[i].name = selected
        /\ \A i \in 1..Len(order) : order[i] = selected
    BY DEF ScopeInv, Alone
  <2>2. f.name = selected
    BY <1>1, <2>1
  <2>3. \A i \in 1..Len(stack') : stack'[i].name = selected
    BY <1>1, <2>1
  <2>4. \A i \in 1..Len(order') : order'[i] = selected
    <3> HIDE DEF f
    <3>1. f.name \in {selected} /\ Len(order) \in Nat
      BY <1>2, <2>2
    <3>2. order \in Seq(Name \cup {selected})
      BY <1>2
    <3>3. /\ Len(order') = Len(order) + 1
          /\ order'[Len(order) + 1] = f.name
          /\ \A i \in 1..Len(order) : order'[i] = order[i]
      BY <1>2, <3>1, <3>2
    <3> QED
      BY <2>1, <2>2, <3>1, <3>3
  <2> QED
    BY <2>1, <2>3, <2>4
<1> QED
  BY <1>5, <1>6 DEF ScopeInv

LEMMA ScopeNext == OrderInv /\ ScopeInv /\ [OrderNext]_orderVars => ScopeInv'
<1> SUFFICES ASSUME OrderInv, ScopeInv, [OrderNext]_orderVars PROVE ScopeInv'
  OBVIOUS
<1>1. CASE Loaded \/ Resolved
  <2>1. UNCHANGED <<selected, deep, roots, stack, visited, order>> /\ phase' # "load"
    BY <1>1 DEF Loaded, Resolved, Throw
  <2> QED
    BY <2>1 DEF ScopeInv, Whole, Alone
<1>2. ASSUME NEW s \in AnyName \cup {None}, NEW d \in BOOLEAN, Select(s, d)
      PROVE  ScopeInv'
  <2>1. /\ stack' = <<>> /\ order' = <<>> /\ phase' = "resolve"
        /\ deep' = d /\ selected' = s /\ (~d => roots' = {s})
    BY <1>2 DEF Select, OrderInv, Rests
  <2> QED
    BY <2>1 DEF ScopeInv, Whole, Alone
<1>3. CASE UNCHANGED orderVars
  BY <1>3 DEF orderVars, ScopeInv, Whole, Alone, Visiting
<1> QED
  BY <1>1, <1>2, <1>3, ScopeRoots, ScopeDependencies, ScopeLeaves DEF OrderNext, Search

(* A configuration that was loaded has no contract that depends on itself. *)
LEMMA LoadedIsLoopless ==
  ASSUME OrderInv, ScopeInv, Loaded
  PROVE  Loopless
<1>1. deep /\ \A n \in Name : n \in visited
  <2>1. Visiting = {}
    BY DEF Loaded, SearchEnds, Visiting
  <2> QED
    BY <2>1 DEF Loaded, SearchEnds, ScopeInv, Whole
<1>2. ASSUME NEW n \in Name, n \in Deps(n)
      PROVE  FALSE
  <2>1. Len(order) \in Nat
    BY DEF OrderInv, OrderTypeOK
  <2>2. PICK i \in 1..Len(order) : order[i] = n
    BY <1>1 DEF OrderInv, Marked
  <2>3. PICK j \in 1..(i - 1) : order[j] = n
    BY <1>1, <1>2, <2>2 DEF OrderInv, Preceded
  <2>4. j \in 1..Len(order) /\ j # i
    BY <2>1, <2>3
  <2> QED
    BY <2>2, <2>3, <2>4 DEF OrderInv, Marked
<1> QED
  BY <1>2 DEF Loopless

-----------------------------------------------------------------------------
(* What the searches decide *)

(* A set of numbers that is not empty has a least one. *)
LEMMA Least ==
  ASSUME NEW S \in SUBSET Nat, S # {}
  PROVE  \E x \in S : \A y \in S : x <= y
<1> DEFINE R == OpToRel(<, Nat)
<1>1. IsWellFoundedOn(R, Nat)
  BY NatLessThanWellFounded
<1>2. \A x, y \in Nat : y < x => <<y, x>> \in R
  BY DEF OpToRel
<1> HIDE DEF R
<1>3. PICK x \in S : \A y \in S : ~(<<y, x>> \in R)
  BY <1>1, WFMin
<1>4. S \subseteq Nat
  OBVIOUS
<1>5. ASSUME NEW y \in S PROVE x <= y
  <2>1. x \in Nat /\ y \in Nat
    BY <1>3, <1>4
  <2>2. ~(y < x)
    BY <1>2, <1>3, <2>1
  <2> QED
    BY <2>1, <2>2
<1> QED
  BY <1>5

(* What a search is to visit. *)
Requested == IF selected = None THEN Name ELSE {selected}

(* Each call of visit was made for a dependency of its caller. *)
Waiting == \A i \in 1..(Len(stack) - 1) : stack[i].name \in Deps(stack[i + 1].name)

(* Nothing that was asked for is forgotten. *)
Covered == phase \in {"load", "resolve", "resolved"} =>
             \A n \in Requested : n \in roots \cup visited \cup Visiting

(* Nothing else is looked at. *)
Confined == /\ phase \in {"load", "loaded"} => selected = None
            /\ roots \subseteq Requested
            /\ \A n \in visited \cup Visiting : n \in Reached(Requested)

(* A valid configuration is loaded, and what was asked for is placed. *)
Decided == /\ phase \in {"loaded", "resolve", "resolved"} => Well
           /\ phase = "failed" => \/ ~Well
                                  \/ selected \notin Name \cup {None}
           /\ phase = "resolved" => roots = {} /\ stack = <<>>

ExactInv == Waiting /\ Covered /\ Confined /\ Decided

-----------------------------------------------------------------------------
(* What can be reached *)

LEMMA RequestIsReached ==
  ASSUME NEW from \in SUBSET AnyName
  PROVE  from \subseteq Reached(from)
  BY DEF Reached, Closed

LEMMA DepsAreReached ==
  ASSUME NEW from, NEW n \in Reached(from) \cap Name, NEW d \in Deps(n), d \in AnyName
  PROVE  d \in Reached(from)
<1>1. \A set \in SUBSET AnyName : Closed(from, set) => d \in set
  BY DEF Reached, Closed
<1> QED
  BY <1>1 DEF Reached

LEMMA ReachedIsLeast ==
  ASSUME NEW from, NEW set \in SUBSET AnyName, Closed(from, set)
  PROVE  Reached(from) \subseteq set
  BY DEF Reached

(* The contracts of a valid configuration depend on configured ones. *)
LEMMA WellDeps ==
  ASSUME OrderTypeOK, Well, NEW n \in Name, NEW d \in Deps(n)
  PROVE  d \in Name
<1>1. d \in AnyName
  BY Lists DEF Deps
<1>2. n \in Reached(Name)
  BY RequestIsReached DEF AnyName
<1>3. d \in Reached(Name)
  BY <1>1, <1>2, DepsAreReached
<1> QED
  BY <1>3 DEF Well

(* A contract that waits for itself is in a cycle. *)
LEMMA WaitingIsCyclic ==
  ASSUME OrderTypeOK, Waiting, stack # <<>>, NEW n \in Visiting, n \in Deps(stack[1].name)
  PROVE  ~Well
<1>1. stack \in Seq(Frame) /\ Len(stack) \in Nat \ {0}
  BY DEF OrderTypeOK
<1>2. \A i \in 1..Len(stack) : stack[i] \in Frame /\ stack[i].name \in Name
  <2>1. \A i \in 1..Len(stack) : stack[i] \in Frame
    BY <1>1
  <2> QED
    BY <2>1 DEF Frame
<1>3. PICK k \in 1..Len(stack) : stack[k].name = n
  BY DEF Visiting
<1> DEFINE set == {stack[i].name : i \in 1..k}
<1>4. set \subseteq Reached(Name) \cap Name
  <2>1. set \subseteq Name
    BY <1>1, <1>2
  <2> QED
    BY <2>1, RequestIsReached DEF AnyName
<1>5. n \in set /\ set # {}
  BY <1>3
<1>6. ASSUME NEW i \in 1..k
      PROVE  Deps(stack[i].name) \cap set # {}
  <2>1. CASE i = 1
    BY <1>5, <2>1
  <2>2. CASE i > 1
    <3>1. i - 1 \in 1..(Len(stack) - 1) /\ i - 1 \in 1..k /\ (i - 1) + 1 = i
      BY <1>1, <2>2
    <3>2. stack[i - 1].name \in Deps(stack[(i - 1) + 1].name)
      BY <3>1 DEF Waiting
    <3>3. stack[i - 1].name \in Deps(stack[i].name)
      BY <3>1, <3>2
    <3>4. stack[i - 1].name \in set
      BY <3>1
    <3> QED
      BY <3>3, <3>4
  <2> QED
    BY <2>1, <2>2
<1>7. \A m \in set : Deps(m) \cap set # {}
  BY <1>6
<1> HIDE DEF set
<1>8. Cyclic(Name)
  BY <1>4, <1>5, <1>7 DEF Cyclic
<1> QED
  BY <1>8 DEF Well

-----------------------------------------------------------------------------
(* Its steps *)

(* Whether a configuration is valid depends on nothing else. *)
LEMMA SameWell ==
  ASSUME UNCHANGED config
  PROVE  /\ \A m : Deps(m)' = Deps(m)
         /\ Well' = Well
<1>1. dependsOn' = dependsOn /\ whole' = whole
  BY DEF dependsOn, whole
<1>2. \A m : Deps(m)' = Deps(m)
  BY <1>1 DEF Deps
<1>3. Reached(Name)' = Reached(Name)
  BY <1>2 DEF Reached, Closed
<1>4. Cyclic(Name)' = Cyclic(Name)
  BY <1>2, <1>3 DEF Cyclic
<1>5. Well' = Well
  BY <1>1, <1>2, <1>3, <1>4 DEF Well
<1> QED
  BY <1>2, <1>5

(* While what was asked for stays too, so does the answer. *)
LEMMA SameGraph ==
  ASSUME UNCHANGED <<config, selected>>
  PROVE  /\ \A m : Deps(m)' = Deps(m)
         /\ Requested' = Requested
         /\ Reached(Requested)' = Reached(Requested)
         /\ Well' = Well
<1>1. (\A m : Deps(m)' = Deps(m)) /\ Well' = Well
  BY SameWell
<1>2. Requested' = Requested
  BY DEF Requested
<1>3. Reached(Requested)' = Reached(Requested)
  BY <1>1, <1>2 DEF Reached, Closed
<1> QED
  BY <1>1, <1>2, <1>3

(* The three ways a visit goes. *)
LEMMA VisitCases ==
  ASSUME NEW n \in AnyName, NEW rest \in Seq(Frame), Visit(n, rest)
  PROVE  \/ /\ phase' = "failed"
            /\ UNCHANGED <<stack, visited, order>>
            /\ n \notin Name \/ n \in Visiting \/ ~DepsExist(n)
         \/ /\ UNCHANGED <<phase, visited, order>>
            /\ n \in visited
            /\ stack' = rest
         \/ /\ UNCHANGED <<phase, visited, order>>
            /\ n \in Name
            /\ Len(stack') = Len(rest) + 1
            /\ stack'[1].name = n
            /\ \A i \in 2..(Len(rest) + 1) : stack'[i] = rest[i - 1]
<1>1. CASE n \in Name /\ stack' = <<[name |-> n, next |-> 1]>> \o rest
           /\ UNCHANGED <<visited, order, phase, error>>
  <2> DEFINE f == [name |-> n, next |-> 1]
  <2>1. f \in Frame /\ f.name = n
    BY <1>1 DEF Frame
  <2> HIDE DEF f
  <2>2. /\ Len(stack') = Len(rest) + 1
        /\ stack'[1] = f
        /\ \A i \in 2..(Len(rest) + 1) : stack'[i] = rest[i - 1]
    BY <1>1, <2>1, Pushed DEF f
  <2> QED
    BY <1>1, <2>1, <2>2
<1> QED
  BY <1>1 DEF Visit, Throw

LEMMA ExactRoots == OrderInv /\ ScopeInv /\ ExactInv /\ VisitRoot => ExactInv'
<1> SUFFICES ASSUME OrderInv, ScopeInv, ExactInv, VisitRoot PROVE ExactInv'
  OBVIOUS
<1>1. PICK n \in roots : roots' = roots \ {n} /\ Visit(n, <<>>)
  BY DEF VisitRoot
<1>2. /\ n \in AnyName /\ n \in Requested /\ stack = <<>> /\ Searching
      /\ UNCHANGED <<config, selected, deep>>
  BY <1>1 DEF OrderInv, OrderTypeOK, VisitRoot, ExactInv, Confined
<1> DEFINE rest == <<>>
<1>3. rest \in Seq(Frame) /\ Len(rest) = 0 /\ rest = stack
  BY <1>2
<1>4. Visit(n, rest)
  BY <1>1
<1>5. Visiting = {}
  BY <1>2 DEF Visiting
<1> HIDE DEF rest
<1>6. \/ /\ phase' = "failed"
         /\ UNCHANGED <<stack, visited, order>>
         /\ n \notin Name \/ n \in Visiting \/ ~DepsExist(n)
      \/ /\ UNCHANGED <<phase, visited, order>>
         /\ n \in visited
         /\ stack' = rest
      \/ /\ UNCHANGED <<phase, visited, order>>
         /\ n \in Name
         /\ Len(stack') = 1
         /\ stack'[1].name = n
  <2>1. n \in AnyName /\ rest \in Seq(Frame) /\ Visit(n, rest)
    BY <1>2, <1>3, <1>4
  <2>2. Len(rest) + 1 = 1
    BY <1>3
  <2> HIDE <1>1, <1>2, <1>3, <1>4
  <2> QED
    BY <2>1, <2>2, VisitCases
<1>7. visited' = visited /\ phase' \in {phase, "failed"}
  BY <1>6
<1>8. Waiting'
  BY <1>3, <1>6 DEF Waiting
<1>9. Visiting' \subseteq {n}
  BY <1>3, <1>6 DEF Visiting
<1>10. phase' # "failed" => n \in visited \cup Visiting'
  BY <1>6 DEF Visiting
<1>11. Covered'
  <2>1. phase' # "failed" => phase' = phase
    BY <1>6
  <2> QED
    BY <1>1, <1>2, <1>5, <1>7, <1>10, <2>1, SameGraph DEF ExactInv, Covered
<1>12. Confined'
  <2>1. n \in Reached(Requested)
    <3>1. Requested \subseteq AnyName
      BY DEF Requested, OrderInv, OrderTypeOK, AnyName
    <3> QED
      BY <1>2, <3>1, RequestIsReached
  <2>2. phase' \in {"load", "loaded"} => selected' = None
    BY <1>2, <1>7 DEF ExactInv, Confined
  <2> QED
    BY <1>1, <1>2, <1>7, <1>9, <2>1, <2>2, SameGraph DEF ExactInv, Confined
<1>13. Decided'
  <2>1. phase # "failed" /\ phase # "resolved" /\ phase # "loaded"
    BY <1>2 DEF Searching
  <2>2. CASE phase' = "failed"
    <3>1. SUFFICES ASSUME Well, selected \in Name \cup {None} PROVE FALSE
      BY <1>2, <2>2, SameGraph DEF Decided
    <3>2. n \in Name
      BY <1>2, <3>1 DEF Requested
    <3>3. Deps(n) \subseteq Name
      BY <3>1, <3>2, WellDeps DEF OrderInv
    <3> QED
      BY <1>5, <1>6, <2>1, <2>2, <3>2, <3>3 DEF DepsExist
  <2>3. CASE phase' # "failed"
    BY <1>2, <1>7, <2>1, <2>3, SameGraph DEF ExactInv, Decided
  <2> QED
    BY <2>2, <2>3
<1> QED
  BY <1>8, <1>11, <1>12, <1>13 DEF ExactInv

LEMMA ExactDependencies == OrderInv /\ ScopeInv /\ ExactInv /\ VisitDependency => ExactInv'
<1> SUFFICES ASSUME OrderInv, ScopeInv, ExactInv, VisitDependency PROVE ExactInv'
  OBVIOUS
<1> DEFINE f == Head(stack)
           g == [f EXCEPT !.next = @ + 1]
           n == dependsOn[f.name][f.next]
           rest == <<g>> \o Tail(stack)
<1>1. /\ stack \in Seq(Frame) /\ f \in Frame /\ f = stack[1]
      /\ Tail(stack) \in Seq(Frame)
      /\ Len(stack) \in Nat \ {0}
      /\ Len(Tail(stack)) = Len(stack) - 1
      /\ \A i \in 1..(Len(stack) - 1) : Tail(stack)[i] = stack[i + 1]
  <2>1. stack \in Seq(Frame) /\ stack # <<>>
    BY DEF OrderInv, OrderTypeOK, VisitDependency
  <2> QED
    BY <2>1, Popped
<1>2. g \in Frame /\ g.name = f.name
  <2>1. f.name \in Name /\ f.next \in Nat \ {0} /\ f = [name |-> f.name, next |-> f.next]
    BY <1>1 DEF Frame
  <2>2. f.next + 1 \in Nat \ {0}
    BY <2>1
  <2> HIDE DEF f
  <2> QED
    BY <1>1, <2>1, <2>2 DEF Frame
<1>3. n \in AnyName /\ n \in Deps(f.name) /\ f.name \in Name
  <2>1. f.name \in Name /\ f.next \in Nat \ {0}
    BY <1>1 DEF Frame
  <2>2. f.next \in 1..Len(dependsOn[f.name])
    BY <2>1, Lists DEF VisitDependency, OrderInv
  <2> QED
    BY <2>1, <2>2, Lists DEF OrderInv, Deps
<1>4. /\ Visit(n, rest) /\ deep /\ Searching /\ stack # <<>>
      /\ UNCHANGED <<config, selected, deep, roots>>
  BY DEF VisitDependency
<1> HIDE DEF f, g, n
<1>5. /\ rest \in Seq(Frame)
      /\ Len(rest) = Len(stack)
      /\ rest[1] = g
      /\ \A i \in 2..Len(stack) : rest[i] = stack[i]
  <2>1. /\ rest \in Seq(Frame)
        /\ Len(rest) = Len(Tail(stack)) + 1
        /\ rest[1] = g
        /\ \A i \in 2..(Len(Tail(stack)) + 1) : rest[i] = Tail(stack)[i - 1]
    BY <1>1, <1>2, Pushed
  <2> QED
    BY <1>1, <2>1
<1> HIDE DEF rest
<1>6. \A i \in 1..Len(stack) : rest[i].name = stack[i].name
  BY <1>1, <1>2, <1>5
<1>7. \/ /\ phase' = "failed"
         /\ UNCHANGED <<stack, visited, order>>
         /\ n \notin Name \/ n \in Visiting \/ ~DepsExist(n)
      \/ /\ UNCHANGED <<phase, visited, order>>
         /\ n \in visited
         /\ stack' = rest
      \/ /\ UNCHANGED <<phase, visited, order>>
         /\ n \in Name
         /\ Len(stack') = Len(stack) + 1
         /\ stack'[1].name = n
         /\ \A i \in 2..(Len(stack) + 1) : stack'[i] = rest[i - 1]
  BY <1>3, <1>4, <1>5, VisitCases
<1>8. visited' = visited /\ phase' \in {phase, "failed"}
  BY <1>7
<1>9. f.name \in Visiting
  BY <1>1 DEF Visiting
<1>10. Waiting'
  <2>1. CASE stack' = stack
    BY <1>4, <2>1, SameGraph DEF ExactInv, Waiting
  <2>2. CASE stack' = rest
    BY <1>1, <1>4, <1>5, <1>6, <2>2, SameGraph DEF ExactInv, Waiting
  <2>3. CASE /\ Len(stack') = Len(stack) + 1
             /\ stack'[1].name = n
             /\ \A i \in 2..(Len(stack) + 1) : stack'[i] = rest[i - 1]
    <3>1. SUFFICES ASSUME NEW i \in 1..Len(stack)
                   PROVE  stack'[i].name \in Deps(stack'[i + 1].name)
      <4>1. Len(stack') - 1 = Len(stack)
        BY <1>1, <2>3
      <4> QED
        BY <1>4, <4>1, SameGraph DEF Waiting
    <3>2. stack'[i + 1].name = stack[i].name
      <4>1. i + 1 \in 2..(Len(stack) + 1) /\ (i + 1) - 1 = i
        BY <1>1
      <4> QED
        BY <1>6, <2>3, <4>1
    <3>3. CASE i = 1
      BY <1>1, <1>3, <2>3, <3>2, <3>3
    <3>4. CASE i > 1
      <4>1. i \in 2..(Len(stack) + 1) /\ i - 1 \in 1..Len(stack) /\ i - 1 \in 1..(Len(stack) - 1)
            /\ (i - 1) + 1 = i
        BY <1>1, <3>4
      <4>2. stack'[i].name = stack[i - 1].name
        BY <1>6, <2>3, <4>1
      <4>3. stack[i - 1].name \in Deps(stack[(i - 1) + 1].name)
        BY <4>1 DEF ExactInv, Waiting
      <4> QED
        BY <3>2, <4>1, <4>2, <4>3
    <3> QED
      BY <3>3, <3>4
  <2> QED
    BY <1>7, <2>1, <2>2, <2>3
<1>11. /\ Visiting' \subseteq Visiting \cup (IF n \in Name THEN {n} ELSE {})
       /\ Visiting \subseteq Visiting'
  <2>1. CASE stack' = stack
    BY <2>1 DEF Visiting
  <2>2. CASE stack' = rest
    BY <1>5, <1>6, <2>2 DEF Visiting
  <2>3. CASE /\ n \in Name
             /\ Len(stack') = Len(stack) + 1
             /\ stack'[1].name = n
             /\ \A i \in 2..(Len(stack) + 1) : stack'[i] = rest[i - 1]
    <3>1. ASSUME NEW i \in 1..Len(stack)
          PROVE  stack'[i + 1].name = stack[i].name /\ i + 1 \in 1..Len(stack')
      <4>1. i + 1 \in 2..(Len(stack) + 1) /\ (i + 1) - 1 = i
        BY <1>1
      <4> QED
        BY <1>1, <1>6, <2>3, <4>1
    <3>2. ASSUME NEW i \in 1..Len(stack'), i # 1
          PROVE  \E j \in 1..Len(stack) : stack'[i].name = stack[j].name
      <4>1. i - 1 \in 1..Len(stack) /\ (i - 1) + 1 = i
        BY <1>1, <2>3, <3>2
      <4>2. stack'[(i - 1) + 1].name = stack[i - 1].name
        BY <3>1, <4>1
      <4> QED
        BY <4>1, <4>2
    <3>3. Visiting \subseteq Visiting'
      BY <3>1 DEF Visiting
    <3>4. \A m \in Visiting' : m = n \/ m \in Visiting
      BY <2>3, <3>2 DEF Visiting
    <3> QED
      BY <2>3, <3>3, <3>4
  <2> QED
    BY <1>7, <2>1, <2>2, <2>3
<1>12. Covered'
  <2>1. phase' # "failed" => phase' = phase
    BY <1>7
  <2> QED
    BY <1>4, <1>8, <1>11, <2>1, SameGraph DEF ExactInv, Covered
<1>13. Confined'
  <2>1. f.name \in Reached(Requested)
    BY <1>9 DEF ExactInv, Confined
  <2>2. n \in Reached(Requested)
    BY <1>3, <2>1, DepsAreReached
  <2>3. phase' \in {"load", "loaded"} => selected' = None
    BY <1>4, <1>8 DEF ExactInv, Confined
  <2> QED
    BY <1>4, <1>8, <1>11, <2>2, <2>3, SameGraph DEF ExactInv, Confined
<1>14. Decided'
  <2>1. phase # "failed" /\ phase # "resolved" /\ phase # "loaded"
    BY <1>4 DEF Searching
  <2>2. CASE phase' = "failed"
    <3>1. SUFFICES ASSUME Well PROVE FALSE
      BY <1>4, <2>2, SameGraph DEF Decided
    <3>2. n \in Name
      BY <1>3, <3>1, WellDeps DEF OrderInv
    <3>3. n \in Visiting
      BY <1>4, <1>7, <2>1, <2>2, <3>2 DEF DepsExist
    <3> QED
      BY <1>1, <1>3, <1>4, <3>1, <3>3, WaitingIsCyclic DEF OrderInv, ExactInv
  <2>3. CASE phase' # "failed"
    BY <1>4, <1>8, <2>1, <2>3, SameGraph DEF ExactInv, Decided
  <2> QED
    BY <2>2, <2>3
<1> QED
  BY <1>10, <1>12, <1>13, <1>14 DEF ExactInv

LEMMA ExactLeaves == OrderInv /\ ScopeInv /\ ExactInv /\ Leave => ExactInv'
<1> SUFFICES ASSUME OrderInv, ScopeInv, ExactInv, Leave PROVE ExactInv'
  OBVIOUS
<1> DEFINE f == Head(stack)
<1>1. /\ f = stack[1]
      /\ Len(stack) \in Nat \ {0}
      /\ Len(stack') = Len(stack) - 1
      /\ \A i \in 1..(Len(stack) - 1) : stack'[i] = stack[i + 1]
  <2>1. stack \in Seq(Frame) /\ stack # <<>> /\ stack' = Tail(stack)
    BY DEF OrderInv, OrderTypeOK, Leave
  <2> QED
    BY <2>1, Popped
<1>2. /\ UNCHANGED <<config, phase, selected, deep, roots>> /\ Searching
      /\ visited' = visited \cup {f.name}
  BY DEF Leave
<1> HIDE DEF f
<1>3. \A i \in 1..Len(stack') : i + 1 \in 1..Len(stack) /\ stack'[i].name = stack[i + 1].name
  BY <1>1
<1>4. Waiting'
  <2> SUFFICES ASSUME NEW i \in 1..(Len(stack') - 1)
               PROVE  stack'[i].name \in Deps(stack'[i + 1].name)
    BY <1>2, SameGraph DEF Waiting
  <2>1. /\ i \in 1..Len(stack') /\ i + 1 \in 1..Len(stack')
        /\ i + 1 \in 1..(Len(stack) - 1)
    BY <1>1
  <2>2. stack[i + 1].name \in Deps(stack[(i + 1) + 1].name)
    BY <2>1 DEF ExactInv, Waiting
  <2> QED
    BY <1>3, <2>1, <2>2
<1>5. f.name \in Visiting /\ Visiting' \subseteq Visiting
  BY <1>1, <1>3 DEF Visiting
<1>6. ASSUME NEW i \in 1..Len(stack)
      PROVE  stack[i].name = f.name \/ \E j \in 1..Len(stack') : stack'[j].name = stack[i].name
  <2>1. CASE i = 1
    BY <1>1, <2>1
  <2>2. CASE i > 1
    <3>1. i - 1 \in 1..Len(stack') /\ stack'[i - 1] = stack[i]
      BY <1>1, <1>6, <2>2
    <3> QED
      BY <3>1
  <2> QED
    BY <1>1, <1>6, <2>1, <2>2
<1>7. Visiting \subseteq {f.name} \cup Visiting'
  BY <1>6 DEF Visiting
<1>8. Covered'
  BY <1>2, <1>7, SameGraph DEF ExactInv, Covered
<1>9. Confined'
  BY <1>2, <1>5, SameGraph DEF ExactInv, Confined
<1>10. Decided'
  BY <1>2, SameGraph DEF ExactInv, Decided, Searching
<1> QED
  BY <1>4, <1>8, <1>9, <1>10 DEF ExactInv

(* A configuration that is loaded is valid: the order the search has found is a
   witness that no contracts depend on each other in a circle. *)
LEMMA LoadedIsWell ==
  ASSUME OrderInv, ScopeInv, Loaded, BadRefs = {}
  PROVE  Well
<1>1. deep /\ \A n \in Name : n \in visited
  <2>1. Visiting = {}
    BY DEF Loaded, SearchEnds, Visiting
  <2> QED
    BY <2>1 DEF Loaded, SearchEnds, ScopeInv, Whole
<1>2. /\ Len(order) \in Nat
      /\ \A i \in 1..Len(order) : order[i] \in Name
      /\ \A n \in Name : \E i \in 1..Len(order) : order[i] = n
  BY <1>1 DEF OrderInv, OrderTypeOK, Marked
<1>3. \A i \in 1..Len(order) : \A d \in Deps(order[i]) : \E j \in 1..(i - 1) : order[j] = d
  BY <1>1 DEF OrderInv, Preceded
<1>4. Reached(Name) \subseteq Name
  <2>1. ASSUME NEW n \in Name, NEW d \in Deps(n)
        PROVE  d \in Name
    <3>1. PICK i \in 1..Len(order) : order[i] = n
      BY <1>2
    <3>2. PICK j \in 1..(i - 1) : order[j] = d
      BY <1>3, <2>1, <3>1
    <3>3. j \in 1..Len(order)
      BY <1>2
    <3> QED
      BY <1>2, <3>2, <3>3
  <2>2. Closed(Name, Name) /\ Name \in SUBSET AnyName
    BY <2>1 DEF Closed, AnyName
  <2> QED
    BY <2>2, ReachedIsLeast
<1>5. ~Cyclic(Name)
  <2> SUFFICES ASSUME NEW set \in SUBSET (Reached(Name) \cap Name), set # {},
                      \A n \in set : Deps(n) \cap set # {}
               PROVE  FALSE
    BY DEF Cyclic
  <2> DEFINE places == {i \in 1..Len(order) : order[i] \in set}
  <2>1. places \in SUBSET Nat
    BY <1>2
  <2>2. places # {}
    <3>1. PICK n \in set : TRUE
      OBVIOUS
    <3> QED
      BY <1>2, <3>1
  <2>3. \A i \in places : i \in 1..Len(order) /\ order[i] \in set
    OBVIOUS
  <2>4. \A i \in 1..Len(order) : order[i] \in set => i \in places
    OBVIOUS
  <2> HIDE DEF places
  <2>5. PICK i \in places : \A j \in places : i <= j
    BY <2>1, <2>2, Least
  <2>6. PICK d \in Deps(order[i]) : d \in set
    BY <2>3
  <2>7. PICK j \in 1..(i - 1) : order[j] = d
    BY <1>3, <2>3
  <2>8. j \in 1..Len(order) /\ i \in Nat /\ j \in Nat /\ j < i
    <3>1. Len(order) \in Nat
      BY <1>2
    <3>2. i \in 1..Len(order)
      BY <2>3
    <3> QED
      BY <3>1, <3>2
  <2> QED
    BY <2>4, <2>5, <2>6, <2>7, <2>8
<1>6. ASSUME NEW n \in Name, NEW m \in whole[n]
      PROVE  m \in Deps(n)
  <2>1. m \in AnyName
    BY <1>6, OrderAssumption DEF OrderInv, OrderTypeOK, whole
  <2>2. <<n, m>> \in Name \X AnyName /\ <<n, m>>[1] = n /\ <<n, m>>[2] = m
    BY <2>1
  <2>3. RefError(n, m) = None
    BY <1>6, <2>2 DEF BadRefs
  <2> QED
    BY <2>3, OrderAssumption DEF RefError
<1> QED
  BY <1>4, <1>5, <1>6 DEF Well

LEMMA ExactInit == OrderInit => ExactInv
<1> SUFFICES ASSUME OrderInit PROVE ExactInv
  OBVIOUS
<1>1. stack = <<>> /\ Visiting = {} /\ visited = {} /\ phase = "load" /\ selected = None
      /\ roots = Name /\ Requested = Name
  BY DEF OrderInit, Visiting, Requested
<1> QED
  BY <1>1 DEF ExactInv, Waiting, Covered, Confined, Decided

LEMMA ExactNext == OrderInv /\ ScopeInv /\ ExactInv /\ [OrderNext]_orderVars => ExactInv'
<1> SUFFICES ASSUME OrderInv, ScopeInv, ExactInv, [OrderNext]_orderVars PROVE ExactInv'
  OBVIOUS
<1>1. CASE Loaded
  <2>1. /\ UNCHANGED <<config, selected, roots, stack, visited>>
        /\ phase = "load" /\ phase' \in {"loaded", "failed"}
        /\ BadRefs = {} <=> phase' = "loaded"
    BY <1>1 DEF Loaded, SearchEnds, Throw
  <2>2. Waiting' /\ Covered' /\ Confined'
    <3>1. Visiting' = Visiting
      BY <2>1 DEF Visiting
    <3> QED
      BY <2>1, <3>1, SameGraph DEF ExactInv, Waiting, Covered, Confined
  <2>3. BadRefs = {} => Well
    BY <1>1, LoadedIsWell
  <2>4. Well => BadRefs = {}
    <3>1. SUFFICES ASSUME Well, NEW n \in Name, NEW m \in whole[n]
                   PROVE  RefError(n, m) = None
      <4>1. \A r \in Name \X AnyName : r[1] \in Name
        OBVIOUS
      <4> QED
        BY <4>1 DEF BadRefs
    <3>2. m \in Deps(n)
      BY <3>1 DEF Well
    <3>3. m \in Name
      BY <3>1, <3>2, WellDeps DEF OrderInv
    <3> QED
      BY <3>2, <3>3 DEF RefError
  <2>5. Decided'
    BY <2>1, <2>3, <2>4, SameGraph DEF Decided
  <2> QED
    BY <2>2, <2>5 DEF ExactInv
<1>2. ASSUME NEW s \in AnyName \cup {None}, NEW d \in BOOLEAN, Select(s, d)
      PROVE  ExactInv'
  <2>1. /\ UNCHANGED config /\ stack' = <<>> /\ visited' = {} /\ phase' = "resolve"
        /\ selected' = s /\ phase = "loaded"
        /\ roots' = IF s = None THEN Name ELSE {s}
    BY <1>2 DEF Select, OrderInv, Rests
  <2>2. Requested' = roots' /\ Visiting' = {}
    BY <2>1 DEF Requested, Visiting
  <2>3. Waiting' /\ Covered' /\ Confined'
    BY <2>1, <2>2 DEF Waiting, Covered, Confined
  <2>4. Well
    BY <2>1 DEF ExactInv, Decided
  <2>5. Well'
    BY <2>1, <2>4, SameWell
  <2>6. Decided'
    BY <2>1, <2>5 DEF Decided
  <2> QED
    BY <2>3, <2>6 DEF ExactInv
<1>3. CASE Resolved
  <2>1. /\ UNCHANGED <<config, selected, roots, stack, visited>>
        /\ phase = "resolve" /\ phase' = "resolved" /\ roots = {} /\ stack = <<>>
    BY <1>3 DEF Resolved, SearchEnds
  <2>2. Visiting' = Visiting
    BY <2>1 DEF Visiting
  <2> QED
    BY <2>1, <2>2, SameGraph DEF ExactInv, Waiting, Covered, Confined, Decided
<1>4. CASE UNCHANGED orderVars
  <2>1. UNCHANGED <<config, selected, roots, stack, visited, phase>>
    BY <1>4 DEF orderVars
  <2>2. Visiting' = Visiting
    BY <2>1 DEF Visiting
  <2> QED
    BY <2>1, <2>2, SameGraph DEF ExactInv, Waiting, Covered, Confined, Decided
<1> QED
  BY <1>1, <1>2, <1>3, <1>4, ExactRoots, ExactDependencies, ExactLeaves
  DEF OrderNext, Search

(* The three parts of the invariant give the property. *)
LEMMA ExactInvIsExact == OrderInv /\ ScopeInv /\ ExactInv => SearchIsExact
<1> SUFFICES ASSUME OrderInv, ScopeInv, ExactInv PROVE SearchIsExact
  OBVIOUS
<1> DEFINE placed == {order[i] : i \in 1..Len(order)}
<1>1. ASSUME phase = "resolved"
      PROVE  placed = (IF selected = None THEN Name
                       ELSE IF deep THEN Reached({selected}) ELSE {selected})
  <2>1. placed = visited /\ visited \subseteq Name /\ Visiting = {} /\ roots = {}
    BY <1>1 DEF OrderInv, OrderTypeOK, Marked, ExactInv, Decided, Visiting
  <2>2. Requested \subseteq visited /\ visited \subseteq Reached(Requested)
    BY <1>1, <2>1 DEF ExactInv, Covered, Confined
  <2>3. CASE selected = None
    BY <2>1, <2>2, <2>3 DEF Requested
  <2>4. CASE selected # None /\ deep
    <3>1. Requested = {selected}
      BY <2>4 DEF Requested
    <3>2. ASSUME NEW n \in visited, NEW d \in Deps(n)
          PROVE  d \in visited
      <4>1. Len(order) \in Nat
        BY DEF OrderInv, OrderTypeOK
      <4>2. PICK i \in 1..Len(order) : order[i] = n
        BY <2>1
      <4>3. PICK j \in 1..(i - 1) : order[j] = d
        BY <2>4, <4>2 DEF OrderInv, Preceded
      <4>4. j \in 1..Len(order)
        BY <4>1
      <4> QED
        BY <2>1, <4>3, <4>4
    <3>3. Closed(Requested, visited) /\ visited \in SUBSET AnyName
      BY <2>1, <2>2, <3>2 DEF Closed, AnyName
    <3> QED
      BY <2>1, <2>2, <2>4, <3>1, <3>3, ReachedIsLeast
  <2>5. CASE selected # None /\ ~deep
    <3>1. \A n \in placed : n = selected
      BY <2>5 DEF ScopeInv, Alone
    <3> QED
      BY <2>1, <2>2, <2>5, <3>1 DEF Requested
  <2> QED
    BY <2>3, <2>4, <2>5
<1> QED
  BY <1>1 DEF SearchIsExact, ExactInv, Decided

(* Type correctness of the search, whatever the graph. *)
THEOREM OrderTypeCorrect == OrderSpec => []OrderTypeOK
<1>1. OrderInv => OrderTypeOK
  BY DEF OrderInv
<1> QED
  BY <1>1, OrderInvInit, OrderInvNext, PTL DEF OrderSpec

(* No contract is ever placed twice or before one it depends on: deploy-contract-graph
   constructs contracts in this order. *)
THEOREM DependenciesComeFirst == OrderSpec => []DependenciesPrecede
<1>1. OrderInv => DependenciesPrecede
  BY DEF OrderInv, Marked, Preceded, DependenciesPrecede
<1> QED
  BY <1>1, OrderInvInit, OrderInvNext, PTL DEF OrderSpec

(* A configuration is refused exactly if it has a cycle, an unknown contract or an
   argument that is no dependency, and resolveDeployOrder returns exactly what was
   asked for and what that needs: no order of the keys or of dependsOn changes it. *)
THEOREM SearchIsRight == OrderSpec => []SearchIsExact
<1>1. OrderInit => OrderInv /\ ScopeInv /\ ExactInv
  BY OrderInvInit, ScopeInit, ExactInit
<1>2. OrderInv /\ ScopeInv /\ ExactInv /\ [OrderNext]_orderVars
        => (OrderInv /\ ScopeInv /\ ExactInv)'
  BY OrderInvNext, ScopeNext, ExactNext
<1> QED
  BY <1>1, <1>2, ExactInvIsExact, PTL DEF OrderSpec
=============================================================================
