----------------------- MODULE DependencyOrder_proofs -----------------------
(***************************************************************************)
(* The sorts answer with an order, and report a cycle only where there is  *)
(* one, for every configuration and every request.  Everything follows     *)
(* from Inv: the search keeps its path a chain of distinct services, the   *)
(* result closed under edges from left to right, and never leaves what the *)
(* request reaches.                                                        *)
(***************************************************************************)
EXTENDS DependencyOrder, TLAPS

Distinct(q) == \A i, k \in DOMAIN q : q[i] = q[k] => i = k
Ordered == \A i \in DOMAIN result : Edges[result[i]] \subseteq Before(result, i)
Chain == \A i \in 1..(Len(path) - 1) : path[i + 1] \in Edges[path[i]]
Within == \A S \in SUBSET Names :
            Requested \subseteq S /\ Closed(S, Edges) =>
              collected \cup visiting \cup visited \subseteq S

Inv ==
    /\ TypeOK
    /\ Distinct(path) /\ Distinct(result)
    /\ visiting \cap visited = {}
    /\ Ordered /\ Chain /\ Within
    /\ outcome \notin {"collecting", "unknown"} => Requested \subseteq collected
    /\ outcome = "sorted" => collected \subseteq visited
    /\ outcome = "cycle" => path # <<>> /\ Edges[Top] \cap visiting # {}

-----------------------------------------------------------------------------
\* Appending to a sequence adds one element, after all others.
LEMMA AppendFacts ==
    ASSUME NEW S, NEW q \in Seq(S), NEW e \in S
    PROVE  /\ Append(q, e) \in Seq(S)
           /\ Len(Append(q, e)) = Len(q) + 1
           /\ DOMAIN Append(q, e) = 1..(Len(q) + 1)
           /\ DOMAIN q = 1..Len(q)
           /\ Append(q, e)[Len(q) + 1] = e
           /\ \A i \in 1..Len(q) : Append(q, e)[i] = q[i]
           /\ Elements(Append(q, e)) = Elements(q) \cup {e}
<1>1. /\ Append(q, e) \in Seq(S)
      /\ Len(Append(q, e)) = Len(q) + 1
      /\ DOMAIN Append(q, e) = 1..(Len(q) + 1)
      /\ DOMAIN q = 1..Len(q)
      /\ Append(q, e)[Len(q) + 1] = e
      /\ \A i \in 1..Len(q) : Append(q, e)[i] = q[i]
      /\ Len(q) \in Nat
  OBVIOUS
<1>2. Elements(Append(q, e)) = Elements(q) \cup {e}
  BY <1>1 DEF Elements
<1> QED BY <1>1, <1>2

\* Appending something new keeps the elements distinct.
LEMMA AppendDistinct ==
    ASSUME NEW S, NEW q \in Seq(S), NEW e \in S, e \notin Elements(q), Distinct(q)
    PROVE  Distinct(Append(q, e))
<1>1. Len(q) \in Nat
  OBVIOUS
<1> QED BY <1>1, AppendFacts DEF Distinct, Elements

\* Returning from a call takes the last element off the path, and only it.
LEMMA FrontFacts ==
    ASSUME NEW S, NEW q \in Seq(S), q # <<>>, Distinct(q)
    PROVE  LET front == SubSeq(q, 1, Len(q) - 1) IN
           /\ front \in Seq(S)
           /\ Len(front) = Len(q) - 1
           /\ \A i \in 1..(Len(q) - 1) : front[i] = q[i]
           /\ Elements(front) = Elements(q) \ {q[Len(q)]}
           /\ Distinct(front)
           /\ q[Len(q)] \in Elements(q)
<1> DEFINE front == SubSeq(q, 1, Len(q) - 1)
<1>1. Len(q) \in Nat /\ Len(q) >= 1 /\ DOMAIN q = 1..Len(q)
  OBVIOUS
<1>2. /\ front \in Seq(S)
      /\ Len(front) = Len(q) - 1
      /\ \A i \in 1..(Len(q) - 1) : front[i] = q[i]
      /\ DOMAIN front = 1..(Len(q) - 1)
  BY <1>1
<1> HIDE DEF front
<1>3. Elements(front) = Elements(q) \ {q[Len(q)]}
  BY <1>1, <1>2 DEF Elements, Distinct
<1>4. Distinct(front)
  BY <1>1, <1>2 DEF Distinct
<1>5. q[Len(q)] \in Elements(q)
  BY <1>1 DEF Elements
<1> QED BY <1>2, <1>3, <1>4, <1>5 DEF front

\* The edges of either direction stay among the names.
LEMMA EdgesType ==
    ASSUME TypeOK
    PROVE  Edges \in [Names -> SUBSET Names]
BY NamesAssumption DEF TypeOK, Edges, Dependents, Dependencies

\* A call on a service that is neither done nor under way, reached by an edge
\* or asked for, keeps everything.
LEMMA EnterKeeps ==
    ASSUME Inv, NEW n \in Names, n \notin visiting, n \notin visited,
           path = <<>> \/ (path # <<>> /\ n \in Edges[Top]),
           n \in collected \/ (path # <<>> /\ n \in Edges[Top]),
           Enter(n), UNCHANGED <<question, collected, outcome>>,
           outcome = "sorting"
    PROVE  Inv'
<1> USE DEF Inv
<1>1. Edges' = Edges /\ Requested' = Requested
  BY DEF question, Edges, Requested
<1>2. path' = Append(path, n) /\ visiting' = visiting \cup {n}
      /\ visited' = visited /\ result' = result
  BY DEF Enter
<1>3. path \in Seq(Names) /\ visiting = Elements(path) /\ Len(path) \in Nat
  BY DEF TypeOK
<1>4. TypeOK'
  BY <1>2, <1>3, AppendFacts DEF TypeOK, question
<1>5. Distinct(path)' /\ Distinct(result)'
  BY <1>2, <1>3, AppendDistinct DEF Distinct
<1>6. Ordered'
  BY <1>1, <1>2 DEF Ordered
<1>7. Chain'
  <2>1. /\ Len(path') = Len(path) + 1
        /\ path'[Len(path) + 1] = n
        /\ \A i \in 1..Len(path) : path'[i] = path[i]
    BY <1>2, <1>3, AppendFacts
  <2>2. Len(path) > 0 => n \in Edges[path[Len(path)]]
    BY <1>3 DEF Top
  <2> SUFFICES ASSUME NEW i \in 1..(Len(path') - 1)
               PROVE  path'[i + 1] \in Edges[path'[i]]
    BY <1>1 DEF Chain
  <2>3. CASE i = Len(path)
    BY <2>1, <2>2, <2>3, <1>3
  <2>4. CASE i < Len(path)
    <3>1. i \in 1..(Len(path) - 1) /\ i + 1 \in 1..Len(path) /\ i \in 1..Len(path)
      BY <2>1, <2>4, <1>3
    <3> QED BY <3>1, <2>1 DEF Chain
  <2> QED BY <2>1, <2>3, <2>4, <1>3
<1>8. Within'
  <2> SUFFICES ASSUME NEW S \in SUBSET Names,
                      Requested \subseteq S, Closed(S, Edges)
               PROVE  (collected \cup visiting \cup visited \subseteq S)'
    BY <1>1 DEF Within
  <2>1. collected \cup visiting \cup visited \subseteq S
    BY DEF Within
  <2>2. path # <<>> => Top \in visiting
    BY <1>3, FrontFacts DEF Top
  <2>3. n \in S
    BY <2>1, <2>2 DEF Closed
  <2> QED BY <2>1, <2>3, <1>2
<1> QED BY <1>1, <1>2, <1>4, <1>5, <1>6, <1>7, <1>8

-----------------------------------------------------------------------------
LEMMA InitInv == Init => Inv
<1> SUFFICES ASSUME Init PROVE Inv
  OBVIOUS
<1>1. TypeOK
  <2>1. <<>> \in Seq(Names) /\ Elements(<<>>) = {}
    BY DEF Elements
  <2>2. collected \in SUBSET Names
    BY NamesAssumption DEF Init
  <2> QED BY <2>1, <2>2 DEF Init, TypeOK
<1>2. Distinct(path) /\ Distinct(result) /\ Ordered /\ Chain
  BY DEF Init, Distinct, Ordered, Chain
<1>3. Within
  BY DEF Init, Within, Requested
<1> QED BY <1>1, <1>2, <1>3 DEF Init, Inv, Requested

\* A service whose edges all lead to results becomes one itself.
LEMMA LeaveKeeps ==
    ASSUME Inv, Leave
    PROVE  Inv'
<1> USE DEF Inv
<1>1. Edges' = Edges /\ Requested' = Requested /\ outcome' = outcome
      /\ outcome = "sorting" /\ collected' = collected
  BY DEF Leave, question, Edges, Requested
<1>2. /\ path # <<>> /\ Edges[Top] \subseteq visited
      /\ path' = SubSeq(path, 1, Len(path) - 1)
      /\ visiting' = visiting \ {Top}
      /\ visited' = visited \cup {Top}
      /\ result' = Append(result, Top)
  BY DEF Leave, Unmark, Unvisited
<1>3. path \in Seq(Names) /\ visiting = Elements(path) /\ Len(path) \in Nat
      /\ result \in Seq(Names) /\ visited = Elements(result) /\ Len(result) \in Nat
  BY DEF TypeOK
<1>4. /\ path' \in Seq(Names) /\ visiting' = Elements(path')
      /\ Len(path') = Len(path) - 1
      /\ \A i \in 1..(Len(path) - 1) : path'[i] = path[i]
      /\ Distinct(path') /\ Top \in visiting
  BY <1>2, <1>3, FrontFacts DEF Top
<1>5. Top \in Names /\ Top \notin visited
  <2>1. Top \in Names
    BY <1>2, <1>3 DEF Top
  <2> QED BY <2>1, <1>4
<1>6. /\ result' \in Seq(Names) /\ visited' = Elements(result')
      /\ Distinct(result')
  BY <1>2, <1>3, <1>5, AppendFacts, AppendDistinct
<1>7. TypeOK'
  BY <1>1, <1>4, <1>6 DEF TypeOK, Leave, question
<1>8. Ordered'
  <2>1. /\ DOMAIN result' = 1..(Len(result) + 1)
        /\ DOMAIN result = 1..Len(result)
        /\ result'[Len(result) + 1] = Top
        /\ \A i \in 1..Len(result) : result'[i] = result[i]
    BY <1>2, <1>3, <1>5, AppendFacts
  <2> SUFFICES ASSUME NEW i \in 1..(Len(result) + 1)
               PROVE  Edges[result'[i]] \subseteq Before(result', i)
    BY <1>1, <2>1 DEF Ordered
  <2>2. CASE i = Len(result) + 1
    <3>1. Before(result', i) = Elements(result)
      BY <2>1, <2>2, <1>3 DEF Before, Elements
    <3> QED BY <3>1, <2>1, <2>2, <1>2, <1>3
  <2>3. CASE i \in 1..Len(result)
    <3>1. Before(result', i) = Before(result, i)
      BY <2>1, <2>3, <1>3 DEF Before
    <3> QED BY <3>1, <2>1, <2>3 DEF Ordered
  <2> QED BY <2>2, <2>3, <1>3
<1>9. Chain'
  <2> SUFFICES ASSUME NEW i \in 1..(Len(path') - 1)
               PROVE  path'[i + 1] \in Edges[path'[i]]
    BY <1>1 DEF Chain
  <2>1. i \in 1..(Len(path) - 1) /\ i + 1 \in 1..(Len(path) - 1)
    BY <1>3, <1>4
  <2> QED BY <2>1, <1>4 DEF Chain
<1>10. Within'
  BY <1>1, <1>2, <1>4 DEF Within
<1> QED BY <1>1, <1>2, <1>4, <1>6, <1>7, <1>8, <1>9, <1>10

LEMMA NextInv == Inv /\ [Next]_vars => Inv'
<1> SUFFICES ASSUME Inv, [Next]_vars PROVE Inv'
  OBVIOUS
<1>e. Edges \in [Names -> SUBSET Names]
  BY EdgesType DEF Inv
<1>0. CASE Include
  <2>1. /\ Edges' = Edges /\ Requested' = Requested /\ Top' = Top
        /\ UNCHANGED <<question, path, visiting, visited, result, outcome>>
        /\ outcome = "collecting"
    BY <1>0 DEF Include, question, search, Edges, Requested, Top
  <2>2. \E s \in Requested : s \in Names /\ collected' = collected \cup {s}
    BY <1>0, NamesAssumption DEF Include, Requested, Inv, TypeOK
  <2>3. TypeOK'
    BY <2>1, <2>2 DEF Inv, TypeOK, question
  <2>4. Within'
    BY <2>1, <2>2 DEF Inv, Within
  <2>5. Distinct(path)' /\ Distinct(result)' /\ Ordered' /\ Chain'
    BY <2>1 DEF Inv, Distinct, Ordered, Chain
  <2> QED BY <2>1, <2>3, <2>4, <2>5 DEF Inv
<1>1. CASE Collect
  <2>1. /\ Edges' = Edges /\ Requested' = Requested /\ Top' = Top
        /\ UNCHANGED <<question, path, visiting, visited, result>>
        /\ outcome = "collecting"
    BY <1>1 DEF Collect, question, search, Edges, Requested, Top
  <2>2. \E s \in collected : \E n \in Edges[s] :
          \/ outcome' = "unknown" /\ collected' = collected
          \/ collected' = collected \cup {n} /\ outcome' = outcome
    BY <1>1 DEF Collect
  <2>3. TypeOK'
    BY <2>1, <2>2, <1>e DEF Inv, TypeOK, question
  <2>4. Within'
    BY <2>1, <2>2 DEF Inv, Within, Closed
  <2>5. Distinct(path)' /\ Distinct(result)' /\ Ordered' /\ Chain'
    BY <2>1 DEF Inv, Distinct, Ordered, Chain
  <2> QED BY <2>1, <2>2, <2>3, <2>4, <2>5 DEF Inv
<1>2. CASE AllCollected \/ Finish
  <2>1. /\ Edges' = Edges /\ Requested' = Requested /\ Top' = Top
        /\ UNCHANGED <<question, path, visiting, visited, result, collected>>
        /\ Requested \subseteq collected
        /\ \/ outcome' = "sorting"
           \/ outcome' = "sorted" /\ collected \subseteq visited
    BY <1>2 DEF AllCollected, Finish, AllVisited, question, search, Edges,
                Requested, Top, Inv
  <2>2. TypeOK' /\ Within'
    BY <2>1 DEF Inv, TypeOK, question, Within
  <2>3. Distinct(path)' /\ Distinct(result)' /\ Ordered' /\ Chain'
    BY <2>1 DEF Inv, Distinct, Ordered, Chain
  <2> QED BY <2>1, <2>2, <2>3 DEF Inv
<1>3. CASE Root
  <2>1. /\ outcome = "sorting" /\ path = <<>>
        /\ UNCHANGED <<question, collected, outcome>>
    BY <1>3 DEF Root
  <2>2. PICK s \in collected \ visited : Enter(s)
    BY <1>3 DEF Root
  <2>3. s \in Names /\ s \notin visiting
    BY <2>1 DEF Inv, TypeOK, Elements
  <2> QED BY <2>1, <2>2, <2>3, EnterKeeps
<1>4. CASE Descend
  <2>1. /\ outcome = "sorting" /\ path # <<>>
        /\ UNCHANGED <<question, collected>>
    BY <1>4 DEF Descend
  <2>2. PICK n \in Edges[Top] \ visited :
           IF n \in visiting THEN outcome' = "cycle" /\ UNCHANGED search
           ELSE Enter(n) /\ UNCHANGED outcome
    BY <1>4 DEF Descend, Unvisited, OnPath
  <2>3. Top \in Names
    BY <2>1 DEF Inv, TypeOK, Top
  <2>4. n \in Names
    BY <2>3, <1>e
  <2>5. CASE n \in visiting
    <3>1. /\ Edges' = Edges /\ Requested' = Requested /\ Top' = Top
          /\ UNCHANGED <<path, visiting, visited, result>> /\ outcome' = "cycle"
      BY <2>1, <2>2, <2>5 DEF question, search, Edges, Requested, Top
    <3>2. TypeOK' /\ Within'
      BY <2>1, <3>1 DEF Inv, TypeOK, question, Within
    <3>3. Distinct(path)' /\ Distinct(result)' /\ Ordered' /\ Chain'
      BY <3>1 DEF Inv, Distinct, Ordered, Chain
    <3> QED BY <2>1, <2>2, <2>5, <3>1, <3>2, <3>3 DEF Inv
  <2>6. CASE n \notin visiting
    BY <2>1, <2>2, <2>4, <2>6, EnterKeeps
  <2> QED BY <2>5, <2>6
<1>5. CASE Leave
  BY <1>5, LeaveKeeps
<1>6. CASE UNCHANGED vars
  <2>1. Edges' = Edges /\ Requested' = Requested /\ Top' = Top
        /\ UNCHANGED <<question, path, visiting, visited, result, collected, outcome>>
    BY <1>6 DEF vars, question, Edges, Requested, Top
  <2>2. TypeOK' /\ Within' /\ Distinct(path)' /\ Distinct(result)' /\ Ordered' /\ Chain'
    BY <2>1 DEF Inv, TypeOK, question, Within, Distinct, Ordered, Chain
  <2> QED BY <2>1, <2>2 DEF Inv
<1> QED BY <1>0, <1>1, <1>2, <1>3, <1>4, <1>5, <1>6 DEF Next

LEMMA Invariance == Spec => []Inv
BY InitInv, NextInv, PTL DEF Spec

-----------------------------------------------------------------------------
(* The sets visiting and visited of dependencies.rs always hold exactly    *)
(* what is on the call stack and in the result.                            *)
THEOREM TypeCorrect == Spec => []TypeOK
<1>1. Inv => TypeOK
  BY DEF Inv
<1> QED BY <1>1, Invariance, PTL

(* topological_sort answers with the dependencies of a service before it,  *)
(* reverse_topological_sort with its dependents, both with the closure of  *)
(* the request and nothing more, for configurations of any size.           *)
THEOREM SortIsRight == Spec => []SortedIsOrder
<1>1. Inv => SortedIsOrder
  <2> SUFFICES ASSUME Inv, outcome = "sorted"
               PROVE  IsOrder(result, Requested, Edges)
    BY DEF SortedIsOrder
  <2>1. visited = Elements(result) /\ visited \in SUBSET Names
        /\ Requested \subseteq visited
    BY DEF Inv, TypeOK, Elements
  <2>2. Closed(visited, Edges)
    <3> SUFFICES ASSUME NEW i \in DOMAIN result
                 PROVE  Edges[result[i]] \subseteq Elements(result)
      BY <2>1 DEF Closed, Elements
    <3>1. Before(result, i) \subseteq Elements(result)
      <4>1. DOMAIN result = 1..Len(result) /\ Len(result) \in Nat
        BY DEF Inv, TypeOK
      <4> QED BY <4>1 DEF Before, Elements
    <3> QED BY <3>1 DEF Inv, Ordered
  <2>3. Closure(Requested, Edges) = visited
    BY <2>1, <2>2 DEF Closure, Inv, Within
  <2> QED BY <2>1, <2>3 DEF IsOrder, Inv, Distinct, Ordered
<1> QED BY <1>1, Invariance, PTL

(* An answer "Circular dependency detected" (dependencies.rs) always comes *)
(* with a cycle of the configuration.                                      *)
THEOREM CycleReported == Spec => []CycleIsReal
<1>1. Inv => CycleIsReal
  <2> SUFFICES ASSUME Inv, outcome = "cycle"
               PROVE  \E first \in DOMAIN path :
                        /\ \A i \in first..(Len(path) - 1) :
                              path[i + 1] \in Edges[path[i]]
                        /\ path[first] \in Edges[Top]
    BY DEF CycleIsReal
  <2>1. DOMAIN path = 1..Len(path) /\ Len(path) \in Nat /\ visiting = Elements(path)
    BY DEF Inv, TypeOK
  <2>2. PICK first \in DOMAIN path : path[first] \in Edges[Top]
    BY <2>1 DEF Inv, Elements
  <2>3. \A i \in first..(Len(path) - 1) : path[i + 1] \in Edges[path[i]]
    BY <2>1 DEF Inv, Chain
  <2> QED BY <2>2, <2>3
<1> QED BY <1>1, Invariance, PTL
=============================================================================
