-------------------------- MODULE CommandLine_proofs --------------------------
(***************************************************************************)
(* Safety of what the harness commands do with a configuration, for every  *)
(* configuration, request, environment and answer of a daemon.             *)
(*                                                                         *)
(* The commands (CommandLine).  The closure of a request is the least      *)
(* closed set that contains it, so what lies below a service is found      *)
(* without an induction: the part of a sort that stands before a service   *)
(* is closed and contains what the service's edges lead to.                *)
(*                                                                         *)
(* The values of an environment (Templates).  A template is the sum of its *)
(* pieces from the right, and its meaning the sum of their meanings from   *)
(* the left.  Before every step of the scan either it stands between two   *)
(* pieces, with what the pieces before it mean in the output, or no ${ is  *)
(* left.  What holds of a number of pieces is carried from each to the     *)
(* next by UpTo, which stands in for the induction.                        *)
(***************************************************************************)
EXTENDS CommandLine, Templates, FiniteSetTheorems, SequenceTheorems,
        WellFoundedInduction, TLAPS

Places == {"begin", "list", "ask", "sort", "loop", "sent", "poll", "status",
           "summary", "ok", "error"}

TypeOK ==
    /\ config \in Configurations
    /\ kind \in {"start", "stop"} /\ request \in SUBSET Names
    /\ force \in BOOLEAN /\ wait \in BOOLEAN
    /\ at \in Places
    /\ running \in SUBSET Names
    /\ order \in Seq(Names) /\ todo \in Seq(Names)
    /\ done \in SUBSET Services /\ failures \in SUBSET Services
    /\ context \in SUBSET Reference /\ late \in BOOLEAN

\* The services the loop has gone past.
Taken == Before(order, Len(order) - Len(todo) + 1)

\* What a sort by edges and the filter of stop make of the request.
OrderOK ==
    /\ \A i, k \in DOMAIN order : order[i] = order[k] => i = k
    /\ Elements(order) = {n \in Closure(Asked, Edges) : Kept(n)}
    /\ \A i \in DOMAIN order :
         {n \in Closure(Edges[order[i]], Edges) : Kept(n)} \subseteq Before(order, i)

Suffix ==
    /\ Len(todo) <= Len(order)
    /\ \A k \in 1 .. Len(todo) : todo[k] = order[Len(order) - Len(todo) + k]

\* Every service gone past has been dealt with.
LoopOK ==
    /\ Suffix
    /\ Taken \cap Services \subseteq done \cup failures
    /\ done \subseteq Taken
    /\ kind = "start" => Taken \subseteq Services
    /\ kind = "start" => \A s \in done : [service |-> s, what |-> "address"] \in context

PlaceOK ==
    /\ at \in {"begin", "list", "ask", "sort"} => order = <<>> /\ done = {} /\ failures = {}
    /\ at = "sent" => todo # <<>> /\ Current \in Services
    /\ at = "summary" => failures # {}
    /\ at = "ok" /\ order # <<>> => todo = <<>> /\ failures = {}

Inv == TypeOK /\ (order # <<>> => OrderOK) /\ LoopOK /\ PlaceOK

-----------------------------------------------------------------------------
(* The closure and the sort. *)

LEMMA ClosureFacts ==
    ASSUME NEW r \in SUBSET Names, NEW E \in [Names -> SUBSET Names]
    PROVE  /\ r \subseteq Closure(r, E) /\ Closure(r, E) \subseteq Names
           /\ Closed(Closure(r, E), E)
           /\ \A S \in SUBSET Names : r \subseteq S /\ Closed(S, E) => Closure(r, E) \subseteq S
BY DEF Closure, Closed

LEMMA EdgesType ==
    ASSUME TypeOK
    PROVE  /\ config.deps \in [Names -> SUBSET Names]
           /\ Dependents(config.deps) \in [Names -> SUBSET Services]
           /\ Edges \in [Names -> SUBSET Names]
           /\ Asked \in SUBSET Names
<1>1. config.deps \in Dependencies
  BY ConfigurationsAssumption DEF TypeOK
<1> QED
  BY <1>1, NamesAssumption DEF Dependencies, Dependents, Edges, Asked, TypeOK

LEMMA BeforeSubset ==
    ASSUME NEW q \in Seq(Names), NEW i \in 1 .. Len(q) + 1
    PROVE  /\ Before(q, i) \subseteq Elements(q)
           /\ Before(q, i) \subseteq Names
           /\ \A k \in 1 .. i : Before(q, k) \subseteq Before(q, i)
BY DEF Before, Elements

\* What lies below a member of an order stands before it.
LEMMA BelowIsBefore ==
    ASSUME NEW E \in [Names -> SUBSET Names], NEW r \in SUBSET Names, NEW q \in Seq(Names),
           IsOrder(q, r, E), NEW i \in DOMAIN q
    PROVE  Closure(E[q[i]], E) \subseteq Before(q, i)
<1>1. i \in 1 .. Len(q) + 1 /\ i \in 1 .. Len(q) /\ q[i] \in Names
  OBVIOUS
<1>2. E[q[i]] \subseteq Before(q, i) /\ Before(q, i) \in SUBSET Names
  BY <1>1, BeforeSubset DEF IsOrder
<1>3. Closed(Before(q, i), E)
  <2> SUFFICES ASSUME NEW k \in 1 .. (i - 1)  PROVE E[q[k]] \subseteq Before(q, i)
    BY DEF Closed, Before
  <2>1. k \in DOMAIN q /\ k \in 1 .. i
    BY <1>1
  <2>2. E[q[k]] \subseteq Before(q, k)
    BY <2>1 DEF IsOrder
  <2>3. Before(q, k) \subseteq Before(q, i)
    BY <1>1, <2>1, BeforeSubset
  <2> QED  BY <2>2, <2>3
<1>4. E[q[i]] \in SUBSET Names
  BY <1>1
<1> QED  BY <1>2, <1>3, <1>4, ClosureFacts

\* What stop leaves of a sort keeps the order of what it leaves.
LEMMA RetainedFacts ==
    ASSUME NEW q \in Seq(Names), NEW r \in Retained(q),
           \A i, k \in DOMAIN q : q[i] = q[k] => i = k
    PROVE  /\ r \in Seq(Names)
           /\ Elements(r) = {n \in Elements(q) : Kept(n)}
           /\ \A i, k \in DOMAIN r : r[i] = r[k] => i = k
           /\ \A i \in DOMAIN r, a \in DOMAIN q : r[i] = q[a] =>
                {n \in Before(q, a) : Kept(n)} \subseteq Before(r, i)
<1> DEFINE S == {n \in Elements(q) : Kept(n)}
<1>1. S \in SUBSET Names
  BY DEF Elements
<1>2. Cardinality(S) \in Nat
  BY <1>1, FiniteAssumption, FS_Subset, FS_CardinalityType
<1>3. /\ r \in [1 .. Cardinality(S) -> S] /\ Elements(r) = S
      /\ \A i, k \in DOMAIN r : i < k => \E a, b \in DOMAIN q : a < b /\ r[i] = q[a] /\ r[k] = q[b]
  BY DEF Retained
<1> HIDE DEF S
<1>4. r \in Seq(Names) /\ DOMAIN r = 1 .. Cardinality(S) /\ Len(r) = Cardinality(S)
  BY <1>1, <1>2, <1>3
<1>5. \A i, k \in DOMAIN r : i < k => r[i] # r[k]
  BY <1>3
<1>6. \A i, k \in DOMAIN r : r[i] = r[k] => i = k
  <2> SUFFICES ASSUME NEW i \in DOMAIN r, NEW k \in DOMAIN r, r[i] = r[k]  PROVE i = k
    OBVIOUS
  <2>1. i \in Nat /\ k \in Nat
    BY <1>2, <1>4
  <2> QED  BY <1>5, <2>1
<1>7. ASSUME NEW i \in DOMAIN r, NEW a \in DOMAIN q, r[i] = q[a],
             NEW n \in Before(q, a), Kept(n)
      PROVE  n \in Before(r, i)
  <2>1. PICK b \in 1 .. (a - 1) : n = q[b]
    BY DEF Before
  <2>2. b \in DOMAIN q /\ b < a /\ b # a
    BY <2>1
  <2>3. PICK k \in DOMAIN r : n = r[k]
    <3>1. n \in Elements(q)
      BY <2>1, <2>2 DEF Elements
    <3>2. n \in Elements(r)
      BY <1>3, <1>7, <3>1 DEF S
    <3> QED  BY <3>2 DEF Elements
  <2>4. k # i
    <3>1. q[a] # q[b] /\ r[i] = q[a] /\ r[k] = q[b]
      BY <1>7, <2>1, <2>2, <2>3
    <3> QED  BY <3>1
  <2>5. ~ (i < k)
    <3> SUFFICES ASSUME i < k  PROVE FALSE
      OBVIOUS
    <3>1. i \in DOMAIN r
      BY <1>7
    <3>2. PICK c \in DOMAIN q, d \in DOMAIN q : c < d /\ r[i] = q[c] /\ r[k] = q[d]
      BY <1>3, <2>3, <3>1
    <3>3. c = a /\ d = b
      BY <1>7, <2>1, <2>2, <2>3, <3>2
    <3> QED  BY <2>2, <3>2, <3>3
  <2>6. k \in 1 .. (i - 1)
    BY <1>2, <1>4, <2>4, <2>5
  <2> QED  BY <2>3, <2>6 DEF Before
<1> QED  BY <1>3, <1>4, <1>6, <1>7 DEF S

\* One service taken.
LEMMA TakeOne ==
    ASSUME TypeOK, Suffix, todo # <<>>, todo' = Tail(todo), order' = order
    PROVE  /\ todo' \in Seq(Names) /\ Suffix'
           /\ Current \in Names
           /\ Taken' = Taken \cup {Current}
<1>1. /\ Len(todo) \in 1 .. Len(order) /\ Len(order) \in Nat /\ Len(todo') = Len(todo) - 1
      /\ todo' \in Seq(Names) /\ \A k \in 1 .. Len(todo') : todo'[k] = todo[k + 1]
  BY DEF TypeOK, Suffix
<1>2. Current = todo[1] /\ Current \in Names
  BY <1>1 DEF TypeOK, Current
<1>3. Suffix'
  <2> SUFFICES ASSUME NEW k \in 1 .. Len(todo')
               PROVE  todo'[k] = order[Len(order) - Len(todo') + k]
    BY <1>1 DEF Suffix
  <2>1. k + 1 \in 1 .. Len(todo) /\ todo'[k] = todo[k + 1]
    BY <1>1
  <2>2. todo[k + 1] = order[Len(order) - Len(todo) + (k + 1)]
    BY <2>1 DEF Suffix
  <2>3. Len(order) - Len(todo) + (k + 1) = Len(order) - Len(todo') + k
    BY <1>1, <2>1
  <2> QED  BY <2>1, <2>2, <2>3
<1>4. Taken' = Taken \cup {Current}
  <2> DEFINE h == Len(order) - Len(todo)
  <2>1. h \in Nat /\ Len(order) - Len(todo') = h + 1
    BY <1>1
  <2>2. Current = order[h + 1]
    BY <1>1, <1>2 DEF Suffix
  <2>3. Taken = {order[k] : k \in 1 .. h}
    BY <1>1 DEF Taken, Before
  <2>4. Taken' = {order[k] : k \in 1 .. h + 1}
    <3>1. (Len(order) - Len(todo') + 1) - 1 = h + 1
      BY <1>1
    <3> QED  BY <3>1 DEF Taken, Before
  <2> HIDE DEF h
  <2>5. 1 .. h + 1 = (1 .. h) \cup {h + 1}
    BY <2>1
  <2> QED  BY <2>2, <2>3, <2>4, <2>5
<1> QED  BY <1>1, <1>2, <1>3, <1>4

-----------------------------------------------------------------------------
(* The invariant. *)

LEMMA InitInv == Init => Inv
<1> SUFFICES ASSUME Init  PROVE Inv
  OBVIOUS
<1>1. late \in BOOLEAN
  BY Zenon DEF Init
<1>2. TypeOK /\ PlaceOK
  BY <1>1 DEF Init, TypeOK, Places, PlaceOK
<1>3. LoopOK
  BY DEF Init, LoopOK, Suffix, Taken, Before
<1> QED  BY <1>2, <1>3 DEF Init, Inv

\* The sort and the filter make an order, none of which is taken yet.
LEMMA SortInv ==
    ASSUME Inv, Sort
    PROVE  Inv'
<1> USE DEF Inv
<1>0. order = <<>> /\ done = {} /\ failures = {}
  BY DEF Sort, PlaceOK
<1>1. CASE Orders(Asked) = {}
  <2>1. at' = "error" /\ UNCHANGED <<invocation, request, running, progress, order, todo>>
    BY <1>1 DEF Sort
  <2> QED
    BY <1>0, <2>1 DEF invocation, progress, TypeOK, Places, LoopOK, Suffix, PlaceOK, Taken, Before
<1>2. CASE Orders(Asked) # {}
  <2>1. PICK q \in Orders(Asked) : order' \in Retained(q)
    BY <1>2 DEF Sort
  <2>2. /\ at' = "loop" /\ todo' = order'
        /\ UNCHANGED <<config, kind, force, wait, request, running, done, failures, context, late>>
    BY <1>2 DEF Sort, invocation, progress
  <2>3. q \in Seq(Names) /\ IsOrder(q, Asked, Edges)
    <3>1. Closure(Asked, Edges) \in SUBSET Names
      BY DEF Closure
    <3>2. Cardinality(Closure(Asked, Edges)) \in Nat
      BY <3>1, FiniteAssumption, FS_Subset, FS_CardinalityType
    <3> QED  BY <2>1, <3>1, <3>2 DEF Orders
  <2>4. \A i, k \in DOMAIN q : q[i] = q[k] => i = k
    BY <2>3 DEF IsOrder
  <2>5. /\ order' \in Seq(Names)
        /\ Elements(order') = {n \in Elements(q) : Kept(n)}
        /\ \A i, k \in DOMAIN order' : order'[i] = order'[k] => i = k
        /\ \A i \in DOMAIN order', a \in DOMAIN q : order'[i] = q[a] =>
             {n \in Before(q, a) : Kept(n)} \subseteq Before(order', i)
    BY <2>1, <2>3, <2>4, RetainedFacts
  <2>6. Edges' = Edges /\ Asked' = Asked /\ \A n : Kept(n)' <=> Kept(n)
    BY <2>2 DEF Edges, Asked, Kept
  <2>7. OrderOK'
    <3>1. Elements(order') = {n \in Closure(Asked, Edges) : Kept(n)}
      BY <2>3, <2>5 DEF IsOrder
    <3>2. ASSUME NEW i \in DOMAIN order'
          PROVE  {n \in Closure(Edges[order'[i]], Edges) : Kept(n)} \subseteq Before(order', i)
      <4>1. order'[i] \in Elements(q)
        BY <2>5, <3>2 DEF Elements
      <4>2. PICK a \in DOMAIN q : order'[i] = q[a]
        BY <4>1 DEF Elements
      <4>3. Closure(Edges[q[a]], Edges) \subseteq Before(q, a)
        BY <2>3, EdgesType, BelowIsBefore
      <4> QED  BY <2>5, <4>2, <4>3
    <3> QED  BY <2>5, <2>6, <3>1, <3>2 DEF OrderOK
  <2>8. LoopOK' /\ PlaceOK'
    BY <1>0, <2>2, <2>5 DEF LoopOK, Suffix, PlaceOK, Taken, Before
  <2>9. TypeOK'
    BY <2>2, <2>5 DEF TypeOK, Places
  <2> QED  BY <2>7, <2>8, <2>9
<1> QED  BY <1>1, <1>2

\* The loop goes past its current service, which it has dealt with.
LEMMA LoopOn ==
    ASSUME Inv, todo # <<>>, todo' = Tail(todo),
           UNCHANGED <<config, kind, request, running, order>>,
           done \subseteq done', done' \subseteq done \cup {Current},
           failures \subseteq failures', context \subseteq context',
           Current \in Services => Current \in done' \cup failures',
           kind = "start" => Current \in Services,
           kind = "start" /\ Current \in done' \ done =>
             [service |-> Current, what |-> "address"] \in context'
    PROVE  LoopOK' /\ (order' # <<>> => OrderOK') /\ todo' \in Seq(Names)
<1>1. /\ todo' \in Seq(Names) /\ Suffix' /\ Current \in Names
      /\ Taken' = Taken \cup {Current}
  BY TakeOne DEF Inv, LoopOK
<1>2. LoopOK'
  BY <1>1 DEF Inv, LoopOK
<1>3. order' # <<>> => OrderOK'
  BY DEF Inv, OrderOK, Edges, Asked, Kept
<1> QED  BY <1>1, <1>2, <1>3

\* A step outside the loop, or one that ends it.
LEMMA LoopStays ==
    ASSUME Inv, UNCHANGED <<config, kind, request, running, order, todo, done, context>>,
           failures \subseteq failures'
    PROVE  LoopOK' /\ (order' # <<>> => OrderOK')
<1>1. LoopOK'
  BY DEF Inv, LoopOK, Suffix, Taken
<1> QED  BY <1>1 DEF Inv, OrderOK, Edges, Asked, Kept

LEMMA LearnedType ==
    ASSUME NEW s \in Services, NEW port \in BOOLEAN
    PROVE  /\ Learned(s, port) \subseteq Reference
           /\ [service |-> s, what |-> "address"] \in Learned(s, port)
BY DEF Learned, Reference

LEMMA NextInv == Inv /\ [Next]_vars => Inv'
<1> SUFFICES ASSUME Inv, [Next]_vars  PROVE Inv'
  OBVIOUS
<1> USE DEF Inv, invocation, progress
<1>0. todo # <<>> => order # <<>> /\ Current \in Names
  BY DEF Current, TypeOK, LoopOK, Suffix
<1>1. CASE Connect \/ Unreachable
  BY <1>1, LoopStays DEF Connect, Unreachable, TypeOK, Places, PlaceOK
<1>2. CASE Sort
  BY <1>2, SortInv
<1>3. CASE NotConfigured
  <2>1. CASE kind = "start"
    BY <1>3, <2>1, LoopStays DEF NotConfigured, TypeOK, Places, PlaceOK
  <2>2. CASE kind # "start"
    <3>1. InLoop /\ todo' = Tail(todo) /\ Current \notin Services
          /\ UNCHANGED <<config, kind, force, wait, request, at, running, order, done, failures, context, late>>
      BY <1>3, <2>2 DEF NotConfigured
    <3>2. LoopOK' /\ (order' # <<>> => OrderOK') /\ todo' \in Seq(Names)
      BY <2>2, <3>1, LoopOn DEF InLoop
    <3> QED  BY <3>1, <3>2 DEF InLoop, TypeOK, Places, PlaceOK
  <2> QED  BY <2>1, <2>2
<1>4. CASE ConversionFails \/ Unexpected
  <2>1. /\ todo # <<>> /\ todo' = Tail(todo) /\ Current \in Services
        /\ failures' = failures \cup {Current} /\ at' = "loop"
        /\ UNCHANGED <<config, kind, force, wait, request, running, order, done, context, late>>
    BY <1>4 DEF ConversionFails, Unexpected, InLoop, PlaceOK
  <2>2. LoopOK' /\ (order' # <<>> => OrderOK') /\ todo' \in Seq(Names)
    BY <2>1, LoopOn
  <2> QED  BY <2>1, <2>2 DEF TypeOK, Places, PlaceOK
<1>5. CASE Succeeds
  <2>1. /\ todo # <<>> /\ todo' = Tail(todo) /\ Current \in Services
        /\ done' = done \cup {Current} /\ at' \in {"poll", "loop"} /\ late' = FALSE
        /\ UNCHANGED <<config, kind, force, wait, request, running, order, failures>>
    BY <1>5 DEF Succeeds, PlaceOK
  <2>2. PICK port \in BOOLEAN :
          context' = IF kind = "start" THEN context \cup Learned(Current, port) ELSE context
    BY <1>5 DEF Succeeds
  <2>3. /\ context \subseteq context' /\ context' \in SUBSET Reference
        /\ kind = "start" => [service |-> Current, what |-> "address"] \in context'
    BY <2>1, <2>2, LearnedType DEF TypeOK
  <2>4. LoopOK' /\ (order' # <<>> => OrderOK') /\ todo' \in Seq(Names)
    BY <2>1, <2>3, LoopOn
  <2> QED  BY <2>1, <2>3, <2>4 DEF TypeOK, Places, PlaceOK
<1>6. CASE Refused
  <2>1. /\ todo # <<>> /\ Current \in Services /\ failures' = failures \cup {Current}
        /\ UNCHANGED <<config, kind, force, wait, request, running, order, done, context, late>>
    BY <1>6 DEF Refused, PlaceOK
  <2>2. CASE todo' = todo /\ at' = "summary"
    BY <2>1, <2>2, LoopStays DEF TypeOK, Places, PlaceOK
  <2>3. CASE todo' = Tail(todo) /\ at' = "loop"
    <3>1. LoopOK' /\ (order' # <<>> => OrderOK') /\ todo' \in Seq(Names)
      BY <2>1, <2>3, LoopOn
    <3> QED  BY <2>1, <2>3, <3>1 DEF TypeOK, Places, PlaceOK
  <2> QED  BY <1>6, <2>2, <2>3 DEF Refused
<1>7. CASE Deadline \/ TimesOut \/ AskStatus \/ Answered
  BY <1>7, LoopStays DEF Deadline, TimesOut, AskStatus, Answered, TypeOK, Places, PlaceOK
<1>8. CASE Finish
  BY <1>8, LoopStays DEF Finish, Code, TypeOK, Places, PlaceOK
<1>9. CASE List
  <2>1. /\ order = <<>> /\ done = {} /\ failures = {} /\ running' \in SUBSET Names
        /\ request' \in SUBSET Names /\ at' \in {"ok", "ask", "sort"}
        /\ UNCHANGED <<config, kind, force, wait, order, todo, done, failures, context, late>>
    BY <1>9 DEF List, PlaceOK, TypeOK
  <2> QED  BY <2>1 DEF TypeOK, Places, PlaceOK, LoopOK, Suffix, Taken
<1>10. CASE Ask
  BY <1>10, LoopStays DEF Ask, TypeOK, Places, PlaceOK
<1>11. CASE Send
  BY <1>11, LoopStays DEF Send, InLoop, Current, TypeOK, Places, PlaceOK
<1>12. CASE UNCHANGED vars
  BY <1>12, LoopStays DEF vars, Current, TypeOK, Places, PlaceOK
<1> HIDE DEF Inv, invocation, progress
<1> QED
  BY <1>1, <1>2, <1>3, <1>4, <1>5, <1>6, <1>7, <1>8, <1>9, <1>10, <1>11,
     <1>12 DEF Next, OwnStep, Outside

LEMMA Invariance == Spec => []Inv
BY InitInv, NextInv, PTL DEF Spec

-----------------------------------------------------------------------------
(* The properties. *)

\* A service gone past stands in the order with everything below it before it,
\* so all of that has been gone past too.
LEMMA TakenIsClosed ==
    ASSUME Inv, NEW s \in done
    PROVE  /\ {n \in Closure(Edges[s], Edges) : Kept(n)} \subseteq Taken
           /\ Edges[s] \in SUBSET Names
<1>1. PICK i \in 1 .. (Len(order) - Len(todo)) : s = order[i]
  BY DEF Inv, LoopOK, Taken, Before
<1>2. /\ i \in DOMAIN order /\ i \in 1 .. (Len(order) - Len(todo) + 1)
      /\ Len(order) - Len(todo) + 1 \in 1 .. Len(order) + 1 /\ order # <<>>
  BY <1>1 DEF Inv, TypeOK, LoopOK, Suffix
<1>3. Before(order, i) \subseteq Taken
  BY <1>2, BeforeSubset DEF Inv, TypeOK, Taken
<1>4. {n \in Closure(Edges[s], Edges) : Kept(n)} \subseteq Before(order, i)
  BY <1>1, <1>2 DEF Inv, OrderOK
<1> QED  BY <1>3, <1>4, EdgesType, NamesAssumption DEF Inv, TypeOK

\* What the current service of the loop needs has been gone past.
LEMMA BelowCurrent ==
    ASSUME Inv, InLoop
    PROVE  {n \in Closure(Edges[Current], Edges) : Kept(n)} \subseteq Taken
<1> DEFINE h == Len(order) - Len(todo)
<1>1. h + 1 \in DOMAIN order /\ Current = order[h + 1] /\ order # <<>>
  BY DEF Inv, TypeOK, LoopOK, Suffix, InLoop, Current
<1>2. {n \in Closure(Edges[order[h + 1]], Edges) : Kept(n)} \subseteq Before(order, h + 1)
  BY <1>1 DEF Inv, OrderOK
<1> QED  BY <1>1, <1>2 DEF Taken

\* harness start: a service it has started had each of its dependencies started
\* before it by the same invocation, or is one of those start went on after.
THEOREM StartsDependenciesFirst == Spec => []DependenciesFirst
<1>1. Inv => DependenciesFirst
  <2> SUFFICES ASSUME Inv, kind = "start", NEW s \in done
               PROVE  config.deps[s] \subseteq done \cup failures
    BY DEF DependenciesFirst
  <2>1. Edges = config.deps /\ \A n : Kept(n)
    BY DEF Edges, Kept
  <2>2. config.deps[s] \subseteq Taken
    BY <2>1, TakenIsClosed, EdgesType, ClosureFacts DEF Inv
  <2> QED  BY <2>2 DEF Inv, LoopOK
<1> QED  BY <1>1, Invariance, PTL

\* harness start: when a service's environment is resolved, an address of a
\* service below it is known, unless a service below it has failed.
THEOREM AddressesAreKnown == Spec => []ReferencesResolve
<1>1. Inv => ReferencesResolve
  <2> SUFFICES ASSUME Inv, kind = "start", InLoop, Current \in Services,
                      NEW r \in config.refs[Current] \ context,
                      r.what # "port", r.service \in Below(Current),
                      failures \cap Below(Current) = {}
               PROVE  FALSE
    BY DEF ReferencesResolve
  <2>1. r \in Reference
    BY ConfigurationsAssumption DEF Inv, TypeOK
  <2>2. r = [service |-> r.service, what |-> "address"]
    BY <2>1 DEF Reference
  <2>3. Edges = config.deps /\ \A n : Kept(n)
    BY DEF Edges, Kept
  <2>4. Below(Current) \subseteq Taken
    BY <2>3, BelowCurrent DEF Below
  <2>5. r.service \in done
    BY <2>4 DEF Inv, LoopOK
  <2> QED  BY <2>2, <2>5 DEF Inv, LoopOK
<1> QED  BY <1>1, Invariance, PTL

\* harness stop: a service it has stopped had every dependent that ran when the
\* daemon was asked stopped before it, or tried and failed.
THEOREM StopsDependentsFirst == Spec => []DependentsFirst
<1>1. Inv => DependentsFirst
  <2> SUFFICES ASSUME Inv, kind = "stop", NEW s \in done,
                      NEW n \in Affected({s}, config.deps) \cap running
               PROVE  n \in done \cup failures
    BY DEF DependentsFirst
  <2> DEFINE E == Dependents(config.deps)
  <2>0. kind # "start" /\ Edges = E
    BY DEF Edges
  <2>1. /\ E \in [Names -> SUBSET Services] /\ E \in [Names -> SUBSET Names]
        /\ s \in Services /\ s \in Names
    BY EdgesType, NamesAssumption DEF Inv, TypeOK
  <2>2. n \in Closure({s}, E) /\ n # s /\ Kept(n)
    BY DEF Affected, Inv, TypeOK, Kept
  <2> HIDE DEF E
  <2>3. n \in Services
    <3>1. Closed(Services, E)
      BY <2>1, NamesAssumption DEF Closed
    <3>2. Closure({s}, E) \subseteq Services
      BY <2>1, <3>1, NamesAssumption, ClosureFacts
    <3> QED  BY <2>2, <3>2
  <2>4. n \in Closure(E[s], E)
    <3> DEFINE C == Closure(E[s], E)
    <3>1. E[s] \subseteq C /\ C \subseteq Names /\ Closed(C, E)
      BY <2>1, ClosureFacts
    <3> HIDE DEF C
    <3> DEFINE D == {s} \cup C
    <3>2. /\ {s} \in SUBSET Names /\ D \in SUBSET Names
          /\ {s} \subseteq D /\ Closed(D, E)
      BY <2>1, <3>1 DEF Closed
    <3> HIDE DEF D
    <3>3. Closure({s}, E) \subseteq D
      BY <2>1, <3>2, ClosureFacts
    <3> QED  BY <2>2, <3>3 DEF C, D
  <2>5. n \in Taken
    BY <2>0, <2>2, <2>4, TakenIsClosed
  <2> QED  BY <2>3, <2>5 DEF Inv, LoopOK
<1> QED  BY <1>1, Invariance, PTL

\* Exit code 0: start has started the closure of its request, stop has stopped
\* what was running of the closure under dependents.
THEOREM OkIsComplete == Spec => []OkMeansDone
<1>1. Inv => OkMeansDone
  <2> SUFFICES ASSUME Inv, at = "ok", order # <<>>
               PROVE  done = IF kind = "start" THEN Closure(Asked, config.deps)
                             ELSE Services \cap running
                                  \cap Closure(request, Dependents(config.deps))
    BY DEF OkMeansDone
  <2>1. todo = <<>> /\ failures = {}
    BY DEF Inv, PlaceOK
  <2>2. Taken = Elements(order)
    BY <2>1 DEF Inv, TypeOK, Taken, Before, Elements
  <2>3. done = Elements(order) \cap Services
    BY <2>1, <2>2 DEF Inv, TypeOK, LoopOK
  <2>4. Elements(order) = {n \in Closure(Asked, Edges) : Kept(n)}
    BY DEF Inv, OrderOK
  <2>5. CASE kind = "start"
    BY <2>2, <2>3, <2>4, <2>5 DEF Inv, LoopOK, Edges, Kept
  <2>6. CASE kind = "stop"
    BY <2>3, <2>4, <2>6 DEF Edges, Kept, Asked
  <2> QED  BY <2>5, <2>6 DEF Inv, TypeOK
<1> QED  BY <1>1, Invariance, PTL

-----------------------------------------------------------------------------
(* Strings, and what pieces put one after another make of them.  What the  *)
(* scan has done is a sum from the left, what is left a sum from the right.*)

Tokens == Words \cup {"_", Open, Close, ".", ":-", "none", "address", "value"}
String == Seq(Tokens)

\* Kept closed, so that a chain of concatenations is rewritten only by these.
Cat(s, t) == s \o t

\* Strings put one after another.
LEMMA CatFacts ==
  /\ \A s, t \in String : Cat(s, t) \in String
  /\ \A s, t, u \in String : Cat(Cat(s, t), u) = Cat(s, Cat(t, u))
  /\ \A s \in String : Cat(s, <<>>) = s /\ Cat(<<>>, s) = s
  /\ <<>> \in String
<1>1. \A s, t \in String : Cat(s, t) \in String
  BY ConcatProperties DEF Cat, String
<1>2. \A s, t, u \in String : Cat(Cat(s, t), u) = Cat(s, Cat(t, u))
  BY ConcatAssociative DEF Cat, String
<1>3. \A s \in String : Cat(s, <<>>) = s /\ Cat(<<>>, s) = s
  BY ConcatEmptySeq DEF Cat, String
<1>4. <<>> \in String
  BY DEF String
<1> QED  BY <1>1, <1>2, <1>3, <1>4

\* One of them alone, for the steps a prover does by rewriting.
LEMMA CatAssociates ==
  ASSUME NEW s \in String, NEW t \in String, NEW u \in String
  PROVE  Cat(Cat(s, t), u) = Cat(s, Cat(t, u))
BY CatFacts

\* A set of numbers has a least one.
LEMMA LeastOf ==
  ASSUME NEW D \in SUBSET Nat, D # {}
  PROVE  \E i \in D : \A m \in D : i <= m
<1>1. PICK i \in D : \A m \in D : ~ (<<m, i>> \in OpToRel(<, Nat))
  BY NatLessThanWellFounded, WFMin
<1>2. \A m \in D : ~ (m < i)
  BY <1>1 DEF OpToRel
<1> QED  BY <1>2

\* What holds at 0 and goes on from each place to the next holds up to n.
LEMMA UpTo ==
  ASSUME NEW n \in Nat, NEW H \in SUBSET (0..n), 0 \in H,
         \A i \in 1..n : i - 1 \in H => i \in H
  PROVE  H = 0..n
<1> DEFINE D == (0..n) \ H
<1>1. SUFFICES ASSUME D # {}  PROVE FALSE
  OBVIOUS
<1>2. D \in SUBSET Nat
  OBVIOUS
<1>3. PICK i \in D : \A m \in D : i <= m
  <2> HIDE DEF D
  <2> QED  BY <1>1, <1>2, LeastOf
<1>4. i \in 1..n /\ i - 1 \in 0..n /\ ~ (i <= i - 1)
  BY <1>3
<1>5. i - 1 \in H
  BY <1>3, <1>4
<1> QED  BY <1>3, <1>4, <1>5

\* Steps of any kind can be followed from a start.
Steps(step, S, n) == step \in [1..n -> [S -> S]]
Chain(F, S, a, step, n) ==
  F \in [0..n -> S] /\ F[0] = a /\ \A i \in 1..n : F[i] = step[i][F[i-1]]

\* So a function that follows them exists.
LEMMA ChainExists ==
  ASSUME NEW S, NEW a \in S, NEW n \in Nat, NEW step, Steps(step, S, n)
  PROVE  \E F : Chain(F, S, a, step, n)
<1> DEFINE Follows(F, k) == F[0] = a /\ \A i \in 1..k : F[i] = step[i][F[i-1]]
           H == {k \in 0..n : \E F \in [0..k -> S] : Follows(F, k)}
<1>. USE DEF Steps
<1>1. 0 \in H
  <2>1. PICK F : F = [i \in 0..0 |-> a]
    OBVIOUS
  <2>2. F \in [0..0 -> S] /\ Follows(F, 0) /\ 0 \in 0..n
    BY <2>1
  <2> HIDE DEF Follows
  <2> QED  BY <2>2
<1>2. ASSUME NEW k \in 1..n, k - 1 \in H  PROVE k \in H
  <2>1. PICK F \in [0..(k-1) -> S] : Follows(F, k - 1)
    BY <1>2
  <2>2. PICK G : G = [i \in 0..k |-> IF i = k THEN step[k][F[k-1]] ELSE F[i]]
    OBVIOUS
  <2>3. F[k-1] \in S /\ step[k][F[k-1]] \in S
    BY <2>1
  <2>4. G \in [0..k -> S]
    BY <2>2, <2>3
  <2>5. \A i \in 0..(k-1) : G[i] = F[i]
    BY <2>2
  <2>6. G[k] = step[k][G[k-1]]
    BY <2>2, <2>5
  <2>7. \A i \in 1..(k-1) : G[i] = step[i][G[i-1]]
    <3> TAKE i \in 1..(k-1)
    <3>1. i \in 0..(k-1) /\ i - 1 \in 0..(k-1)
      OBVIOUS
    <3> QED  BY <2>1, <2>5, <3>1
  <2>8. G[0] = a
    BY <2>1, <2>5
  <2>9. \A i \in 1..k : i = k \/ i \in 1..(k-1)
    OBVIOUS
  <2>10. Follows(G, k)
    BY <2>6, <2>7, <2>8, <2>9
  <2> HIDE DEF Follows
  <2> QED  BY <2>4, <2>10
<1>3. n \in H
  <2> HIDE DEF H
  <2>1. H \in SUBSET (0..n)
    BY DEF H
  <2> QED  BY <1>1, <1>2, <2>1, UpTo
<1> QED  BY <1>3 DEF Chain

\* F[i] is the first i parts of q, R[i] the parts after them.
LeftSums(F, q) ==
  /\ F \in [0..Len(q) -> String] /\ F[0] = <<>>
  /\ \A i \in 1..Len(q) : F[i] = Cat(F[i-1], q[i])
RightSums(R, q) ==
  /\ R \in [0..Len(q) -> String] /\ R[Len(q)] = <<>>
  /\ \A i \in 1..Len(q) : R[i-1] = Cat(q[i], R[i])

\* The sums from the left exist,
LEMMA LeftSumsExist ==
  ASSUME NEW q \in Seq(String)
  PROVE  \E F : LeftSums(F, q)
<1> DEFINE n == Len(q)
<1>1. n \in Nat /\ \A i \in 1..n : q[i] \in String
  OBVIOUS
<1>2. PICK step : step = [i \in 1..n |-> [s \in String |-> Cat(s, q[i])]]
  OBVIOUS
<1>3. Steps(step, String, n)
  BY <1>1, <1>2, CatFacts DEF Steps
<1>4. <<>> \in String
  BY CatFacts
<1> HIDE DEF n
<1>5. PICK F : Chain(F, String, <<>>, step, n)
  BY <1>1, <1>3, <1>4, ChainExists
<1>. USE DEF Chain
<1>6. \A i \in 1..n : F[i-1] \in String
  BY <1>1, <1>5
<1>7. \A i \in 1..n : F[i] = Cat(F[i-1], q[i])
  BY <1>2, <1>5, <1>6
<1> QED  BY <1>5, <1>7 DEF LeftSums, n

\* and those from the right.
LEMMA RightSumsExist ==
  ASSUME NEW q \in Seq(String)
  PROVE  \E R : RightSums(R, q)
<1> DEFINE n == Len(q)
<1>1. n \in Nat /\ \A i \in 1..n : q[i] \in String
  OBVIOUS
<1>2. PICK step : step = [i \in 1..n |-> [s \in String |-> Cat(q[n - i + 1], s)]]
  OBVIOUS
<1>3. Steps(step, String, n)
  <2>1. \A i \in 1..n : n - i + 1 \in 1..n
    BY <1>1
  <2> HIDE DEF n
  <2> QED  BY <1>1, <1>2, <2>1, CatFacts DEF Steps
<1>4. <<>> \in String
  BY CatFacts
<1> HIDE DEF n
<1>5. PICK F : Chain(F, String, <<>>, step, n)
  BY <1>1, <1>3, <1>4, ChainExists
<1>. USE DEF Chain
<1>6. PICK R : R = [i \in 0..n |-> F[n - i]]
  OBVIOUS
<1>7. R \in [0..n -> String] /\ R[n] = <<>>
  BY <1>1, <1>5, <1>6
<1>8. \A i \in 1..n : R[i-1] = Cat(q[i], R[i])
  <2> TAKE i \in 1..n
  <2>1. PICK k : k = n - i + 1
    OBVIOUS
  <2>2. k \in 1..n /\ k - 1 = n - i /\ n - k + 1 = i /\ n - (i - 1) = k
        /\ i - 1 \in 0..n /\ i \in 0..n /\ k - 1 \in 0..n
    BY <1>1, <2>1
  <2>3. R[i-1] = F[k] /\ R[i] = F[k-1] /\ F[k-1] \in String
    BY <1>5, <1>6, <2>2
  <2>4. F[k] = step[k][F[k-1]]
    BY <1>5, <2>2
  <2>5. step[k][F[k-1]] = Cat(q[i], F[k-1])
    BY <1>2, <2>2, <2>3
  <2> QED  BY <2>3, <2>4, <2>5
<1> QED  BY <1>7, <1>8 DEF RightSums, n

\* Both come to the same string,
LEMMA SumsAgree ==
  ASSUME NEW q \in Seq(String), NEW F, NEW R, LeftSums(F, q), RightSums(R, q)
  PROVE  F[Len(q)] = R[0]
<1> DEFINE n == Len(q)
           H == {i \in 0..n : Cat(F[i], R[i]) = R[0]}
<1>1. n \in Nat /\ \A i \in 1..n : q[i] \in String
  OBVIOUS
<1>2. \A i \in 0..n : F[i] \in String /\ R[i] \in String
  BY DEF LeftSums, RightSums
<1>3. 0 \in H
  BY <1>1, <1>2, CatFacts DEF LeftSums
<1>4. ASSUME NEW i \in 1..n, i - 1 \in H  PROVE i \in H
  <2>1. F[i-1] \in String /\ R[i] \in String /\ q[i] \in String
    BY <1>1, <1>2
  <2>2. F[i] = Cat(F[i-1], q[i]) /\ R[i-1] = Cat(q[i], R[i])
    BY DEF LeftSums, RightSums
  <2>3. Cat(Cat(F[i-1], q[i]), R[i]) = Cat(F[i-1], Cat(q[i], R[i]))
    BY <2>1, CatFacts
  <2> QED  BY <1>1, <1>4, <2>2, <2>3
<1>5. n \in H
  <2>1. H \in SUBSET (0..n)
    OBVIOUS
  <2> HIDE DEF H, n
  <2> QED  BY <1>1, <1>3, <1>4, <2>1, UpTo
<1>6. Cat(F[n], <<>>) = R[0] /\ F[n] \in String
  BY <1>1, <1>2, <1>5 DEF RightSums
<1> QED  BY <1>6, CatFacts

\* which is the one FlattenSeq makes.
LEMMA FlattenIsSum ==
  ASSUME NEW q \in Seq(String), NEW F, LeftSums(F, q)
  PROVE  FlattenSeq(q) = F[Len(q)]
<1> DEFINE n == Len(q)
           P(f) == f = [i \in 1..n |-> IF i = 1 THEN q[i] ELSE f[i-1] \o q[i]]
<1>1. n \in Nat /\ DOMAIN q = 1..n /\ \A i \in 1..n : q[i] \in String
  OBVIOUS
<1>2. CASE n = 0
  <2>1. q = <<>> /\ F[n] = <<>>
    BY <1>2 DEF LeftSums
  <2> QED  BY <1>2, <2>1 DEF FlattenSeq
<1>3. CASE n # 0
  <2>1. PICK g : g = [i \in 1..n |-> F[i]]
    OBVIOUS
  <2>2. \A i \in 1..n : g[i] = (IF i = 1 THEN q[i] ELSE g[i-1] \o q[i])
    <3> SUFFICES ASSUME NEW i \in 1..n
                 PROVE  g[i] = (IF i = 1 THEN q[i] ELSE g[i-1] \o q[i])
      OBVIOUS
    <3>1. g[i] = Cat(F[i-1], q[i])
      BY <2>1 DEF LeftSums
    <3>2. CASE i = 1
      <4>1. F[i-1] = <<>> /\ q[i] \in String
        BY <1>1, <3>2 DEF LeftSums
      <4> QED  BY <3>1, <3>2, <4>1, CatFacts
    <3>3. CASE i # 1
      <4>1. i - 1 \in 1..n
        BY <1>1, <3>3
      <4> QED  BY <2>1, <3>1, <3>3, <4>1 DEF Cat
    <3> QED  BY <3>2, <3>3
  <2>3. P(g)
    BY <2>1, <2>2
  <2>4. ASSUME NEW f, P(f)  PROVE f = g
    <3> DEFINE D == {i \in 1..n : f[i] # g[i]}
    <3>1. SUFFICES ASSUME D # {}  PROVE FALSE
      <4>1. f = [i \in 1..n |-> f[i]] /\ g = [i \in 1..n |-> g[i]]
        BY <2>1, <2>4
      <4> HIDE DEF n
      <4> QED  BY <4>1
    <3>2. PICK i \in D : \A m \in D : i <= m
      <4>1. D \in SUBSET Nat
        BY <1>1
      <4> HIDE DEF D
      <4> QED  BY <3>1, <4>1, LeastOf
    <3>3. /\ i \in 1..n /\ f[i] # g[i]
          /\ \A m \in 1..n : m < i => f[m] = g[m]
      BY <3>2, <1>1
    <3>4. f[i] = (IF i = 1 THEN q[i] ELSE f[i-1] \o q[i])
      <4> HIDE DEF n, D
      <4> QED  BY <2>4, <3>3
    <3>5. i # 1 => i - 1 \in 1..n /\ i - 1 < i
      BY <3>3, <1>1
    <3> HIDE DEF n, D
    <3> QED  BY <2>2, <3>3, <3>4, <3>5
  <2>5. (CHOOSE f : P(f)) = g
    BY <2>3, <2>4, Zenon
  <2>6. FlattenSeq(q) = (CHOOSE f : P(f))[n]
    BY <1>1, <1>3 DEF FlattenSeq
  <2>7. g[n] = F[n]
    BY <1>1, <1>3, <2>1
  <2> QED  BY <2>5, <2>6, <2>7
<1> QED  BY <1>2, <1>3

-----------------------------------------------------------------------------
(* Finding a token, and cutting a string where it was found.               *)

Without(t, u) == \A i \in 1..Len(u) : u[i] # t

\* The length of a string is all most steps need to know of it.
LEMMA LengthIsNat == \A s \in String : Len(s) \in Nat
BY DEF String

\* A token that is not there is not found;
LEMMA FirstNone ==
  ASSUME NEW t, NEW u \in String, Without(t, u)
  PROVE  First(t, u) = 0
BY DEF First, SelectInSeq, Without

\* the first place it stands at is the one found.
LEMMA FirstIs ==
  ASSUME NEW t, NEW q \in String, NEW k \in 1..Len(q), q[k] = t,
         \A i \in 1..(k-1) : q[i] # t
  PROVE  First(t, q) = k
<1> DEFINE I == {i \in 1..Len(q) : q[i] = t}
<1>1. k \in I /\ Len(q) \in Nat
  BY DEF String
<1>2. \A i \in I : k <= i
  BY <1>1
<1>3. \A x \in I : (\A y \in I : x =< y) => x = k
  BY <1>1, <1>2
<1>4. Min(I) = k
  <2> HIDE DEF I
  <2>1. k \in Int /\ \A y \in I : k =< y
    BY <1>1, <1>2
  <2> QED  BY <1>1, <1>3, <2>1 DEF Min
<1>5. First(t, q) = Min(I)
  BY <1>1 DEF First, SelectInSeq
<1> QED  BY <1>4, <1>5

\* Where the tokens of both strings stand.
LEMMA CatLength ==
  ASSUME NEW u \in String, NEW v \in String
  PROVE  /\ Len(Cat(u, v)) = Len(u) + Len(v) /\ Len(u) \in Nat /\ Len(v) \in Nat
         /\ \A i \in 1..Len(u) : Cat(u, v)[i] = u[i]
         /\ \A i \in 1..Len(v) : Cat(u, v)[Len(u) + i] = v[i]
<1>1. Len(u) \in Nat /\ Len(v) \in Nat
  BY DEF String
<1>2. Len(Cat(u, v)) = Len(u) + Len(v)
      /\ \A i \in 1..(Len(u) + Len(v)) :
            Cat(u, v)[i] = IF i <= Len(u) THEN u[i] ELSE v[i - Len(u)]
  BY ConcatProperties DEF Cat, String
<1>3. \A i \in 1..Len(u) : i \in 1..(Len(u) + Len(v)) /\ i <= Len(u)
  BY <1>1
<1>4. \A i \in 1..Len(v) : Len(u) + i \in 1..(Len(u) + Len(v))
                           /\ ~ (Len(u) + i <= Len(u)) /\ (Len(u) + i) - Len(u) = i
  BY <1>1
<1> QED  BY <1>1, <1>2, <1>3, <1>4

\* What SubSeq cuts at the seam gives both strings back,
LEMMA CutAt ==
  ASSUME NEW u \in String, NEW v \in String, NEW n \in Nat, n = Len(u)
  PROVE  /\ SubSeq(Cat(u, v), 1, n) = u
         /\ SubSeq(Cat(u, v), n + 1, Len(Cat(u, v))) = v
<1>1. PICK w : w = Cat(u, v)
  OBVIOUS
<1>2. /\ Len(w) = n + Len(v) /\ Len(v) \in Nat /\ w \in String
      /\ \A i \in 1..n : w[i] = u[i]
      /\ \A i \in 1..Len(v) : w[n + i] = v[i]
  BY <1>1, CatLength, CatFacts
<1>3. SubSeq(w, 1, n) = u
  <2>1. SubSeq(w, 1, n) = [i \in 1..n |-> w[i]]
    BY <1>2
  <2>2. u = [i \in 1..n |-> u[i]]
    BY DEF String
  <2> QED  BY <1>2, <2>1, <2>2
<1>4. SubSeq(w, n + 1, Len(w)) = v
  <2>1. SubSeq(w, n + 1, Len(w)) = [i \in 1..Len(v) |-> w[n + i]]
    <3>1. Len(w) \in Nat /\ (Len(w) - (n + 1)) + 1 = Len(v)
      BY <1>2
    <3>2. \A i \in 1..Len(v) : ((n + 1) + i) - 1 = n + i
      BY <1>2
    <3>3. SubSeq(w, n + 1, Len(w)) \in Seq(Tokens)
          /\ Len(SubSeq(w, n + 1, Len(w))) = Len(v)
          /\ \A i \in 1..Len(v) : SubSeq(w, n + 1, Len(w))[i] = w[n + i]
      BY <1>2, <3>1, <3>2 DEF String
    <3> QED  BY <1>2, <3>3
  <2>2. v = [i \in 1..Len(v) |-> v[i]]
    BY DEF String
  <2> QED  BY <1>2, <2>1, <2>2
<1> QED  BY <1>1, <1>3, <1>4

\* and the seam is where the first one ends.
LEMMA Cut ==
  ASSUME NEW u \in String, NEW v \in String
  PROVE  /\ SubSeq(Cat(u, v), 1, Len(u)) = u
         /\ SubSeq(Cat(u, v), Len(u) + 1, Len(Cat(u, v))) = v
<1>1. PICK n : n = Len(u)
  OBVIOUS
<1>2. n \in Nat
  BY <1>1, LengthIsNat
<1> QED  BY <1>1, <1>2, CutAt

\* A token after a string without it is found there.
LEMMA FirstFound ==
  ASSUME NEW t \in Tokens, NEW u \in String, NEW v \in String, Without(t, u)
  PROVE  First(t, Cat(u, Cat(<<t>>, v))) = Len(u) + 1
<1>1. <<t>> \in String /\ Len(<<t>>) = 1 /\ <<t>>[1] = t
  BY DEF String
<1>2. PICK w : w = Cat(<<t>>, v)
  OBVIOUS
<1>3. w \in String /\ w[1] = t /\ Len(w) \in Nat /\ Len(w) >= 1
  <2>1. PICK p : p = <<t>>
    OBVIOUS
  <2>2. p \in String /\ Len(p) = 1 /\ p[1] = t /\ w = Cat(p, v)
    BY <1>1, <1>2, <2>1
  <2>3. w \in String
    BY <2>2, CatFacts
  <2>4. Len(w) = Len(p) + Len(v) /\ Len(v) \in Nat
    BY <2>2, CatLength
  <2>5. w[1] = t
    <3>1. 1 \in 1..Len(p)
      BY <2>2
    <3> QED  BY <2>2, <3>1, CatLength
  <2> QED  BY <2>2, <2>3, <2>4, <2>5
<1>4. PICK q : q = Cat(u, w)
  OBVIOUS
<1>5. q \in String /\ Len(u) + 1 \in 1..Len(q) /\ q[Len(u) + 1] = t
      /\ Len(u) \in Nat /\ \A i \in 1..Len(u) : q[i] = u[i]
  <2>1. q \in String /\ Len(q) = Len(u) + Len(w) /\ Len(u) \in Nat
    BY <1>3, <1>4, CatLength, CatFacts
  <2>2. 1 \in 1..Len(w)
    BY <1>3
  <2>3. q[Len(u) + 1] = w[1] /\ \A i \in 1..Len(u) : q[i] = u[i]
    BY <1>3, <1>4, <2>2, CatLength
  <2> QED  BY <1>3, <2>1, <2>3
<1>6. \A i \in 1..((Len(u) + 1) - 1) : q[i] # t
  BY <1>5 DEF Without
<1> QED  BY <1>2, <1>4, <1>5, <1>6, FirstIs

-----------------------------------------------------------------------------
(* What is written between the braces of a piece, and that Parse reads it  *)
(* back.  First, short strings token by token.                             *)

\* A string of one token,
LEMMA OneToken ==
  ASSUME NEW a \in Tokens
  PROVE  <<a>> \in String /\ Len(<<a>>) = 1 /\ <<a>>[1] = a
BY DEF String

\* of three,
LEMMA ThreeTokens ==
  ASSUME NEW a \in Tokens, NEW b \in Tokens, NEW c \in Tokens
  PROVE  <<a, b, c>> \in String /\ Len(<<a, b, c>>) = 3
         /\ <<a, b, c>>[1] = a /\ <<a, b, c>>[2] = b /\ <<a, b, c>>[3] = c
BY DEF String

\* and of two.
LEMMA Pair ==
  ASSUME NEW a \in Tokens, NEW b \in Tokens
  PROVE  Cat(<<a>>, <<b>>) = <<a, b>>
<1>1. PICK u, v, w : u = <<a>> /\ v = <<b>> /\ w = Cat(u, v)
  OBVIOUS
<1>2. /\ u \in String /\ v \in String /\ Len(u) = 1 /\ Len(v) = 1
      /\ u[1] = a /\ v[1] = b /\ w = Cat(u, v)
  BY <1>1, OneToken
<1>3. w \in String
  BY <1>2, CatFacts
<1>4. Len(w) = 2
  <2>1. Len(w) = Len(u) + Len(v)
    BY <1>2, CatLength
  <2> QED  BY <1>2, <2>1
<1>5. w[1] = a /\ w[2] = b
  <2>1. 1 \in 1..Len(u) /\ 1 \in 1..Len(v)
    BY <1>2
  <2>2. w[1] = u[1] /\ w[Len(u) + 1] = v[1]
    BY <1>2, <2>1, CatLength
  <2> QED  BY <1>2, <2>2
<1>6. PICK x : x = <<a, b>>
  OBVIOUS
<1>7. x \in String /\ Len(x) = 2 /\ x[1] = a /\ x[2] = b
  BY <1>6 DEF String
<1>8. \A i \in 1..Len(w) : w[i] = x[i]
  <2>1. \A i \in 1..Len(w) : i = 1 \/ i = 2
    BY <1>4
  <2> QED  BY <1>5, <1>7, <2>1
<1> QED  BY <1>1, <1>3, <1>4, <1>6, <1>7, <1>8, SeqEqual DEF String

\* A token before two others, and one on each side of three.
LEMMA TokenBefore ==
  ASSUME NEW a, NEW b, NEW c
  PROVE  Cat(<<a>>, <<b, c>>) = <<a, b, c>>
<1>1. <<a, b, c>> = <<a>> \o <<b, c>>
  OBVIOUS
<1> QED  BY <1>1 DEF Cat

\* The same for the five tokens of a reference.
LEMMA Around ==
  ASSUME NEW a, NEW b, NEW c, NEW d, NEW e
  PROVE  Cat(<<a>>, Cat(<<b, c, d>>, <<e>>)) = <<a, b, c, d, e>>
<1>1. <<a, b, c, d, e>> = <<a>> \o (<<b, c, d>> \o <<e>>)
  OBVIOUS
<1> QED  BY <1>1 DEF Cat

\* Which tokens there are, and that braces are no other token.
LEMMA TokensFacts ==
  /\ Open \in Tokens /\ Close \in Tokens
  /\ {"NAME", "svc", "ip", ".", ":-", "_", "address", "value", "none"} \subseteq Tokens
  /\ Open # Close /\ \A t \in {"NAME", "svc", "ip", ".", ":-", "_"} : t # Open /\ t # Close
BY DEF Tokens, Open, Close, Words

Braces(c) == Cat(<<Open>>, Cat(c, <<Close>>))

Defaults == {<<>>, <<"_">>, <<"_", ".", "_">>, <<Open>>}
WithDefault(d) == Cat(<<"NAME">>, Cat(<<":-">>, d))

\* What keeps a default apart from none, and inside its braces.
Fits(x) == /\ x \in String /\ (Len(x) = 0 \/ x[1] # "none")
           /\ \A i \in 1..Len(x) : x[i] # Close

\* Every default of one token that is no } fits.
LEMMA OneFits ==
  ASSUME NEW t \in Tokens, t # "none", t # Close
  PROVE  Fits(<<t>>)
<1>1. PICK x : x = <<t>>
  OBVIOUS
<1>2. x \in String /\ Len(x) = 1 /\ x[1] = t
  BY <1>1, OneToken
<1>3. \A i \in 1..Len(x) : i = 1
  BY <1>2
<1>4. Fits(x)
  BY <1>2, <1>3 DEF Fits
<1> QED  BY <1>1, <1>4, Zenon

\* What a user may write as a default.
LEMMA DefaultFacts ==
  ASSUME NEW d \in Defaults
  PROVE  d \in String /\ d # NoDefault /\ Without(Close, d)
<1>1. Fits(<<>>)
  BY CatFacts DEF Fits
<1>2. Fits(<<"_">>)
  BY OneFits, TokensFacts
<1>3. Fits(<<Open>>)
  <2>1. Open # "none"
    BY DEF Open
  <2> QED  BY OneFits, TokensFacts, <2>1
<1>4. Fits(<<"_", ".", "_">>)
  <2>1. PICK x : x = <<"_", ".", "_">>
    OBVIOUS
  <2>2. x \in String /\ x[1] = "_" /\ x[2] = "." /\ x[3] = "_"
    BY <2>1, ThreeTokens, TokensFacts
  <2>3. Len(x) = 3
    BY <2>1, ThreeTokens, TokensFacts
  <2>4. \A i \in 1..Len(x) : i = 1 \/ i = 2 \/ i = 3
    BY <2>3
  <2>5. Fits(x)
    BY <2>2, <2>4 DEF Fits, Close
  <2> QED  BY <2>1, <2>5, Zenon
<1>5. Fits(d)
  BY <1>1, <1>2, <1>3, <1>4, Zenon DEF Defaults
<1>6. NoDefault[1] = "none" /\ Len(NoDefault) = 1
  BY DEF NoDefault
<1> QED  BY <1>5, <1>6 DEF Fits, Without

\* What a user may write.
LEMMA PieceCases ==
  ASSUME NEW p \in Pieces
  PROVE  \/ p \in {Text, Unclosed, Malformed, Ref("svc"), Env(NoDefault)}
         \/ \E d \in Defaults : p = Env(d)
BY DEF Pieces, Defaults

\* Each expression stands between its braces.
LEMMA WrittenOut ==
  /\ Written(Malformed) = Braces(<<"svc">>)
  /\ Written(Ref("svc")) = Braces(<<"svc", ".", "ip">>)
  /\ Written(Env(NoDefault)) = Braces(<<"NAME">>)
  /\ \A d \in Defaults : Written(Env(d)) = Braces(WithDefault(d))
<1>1. \A t \in Tokens : Braces(<<t>>) = <<Open, t, Close>>
  <2> TAKE t \in Tokens
  <2>1. Cat(<<t>>, <<Close>>) = <<t, Close>>
    BY Pair, TokensFacts
  <2>2. Cat(<<Open>>, <<t, Close>>) = <<Open, t, Close>>
    BY TokenBefore
  <2> QED  BY <2>1, <2>2, Zenon DEF Braces
<1>2. Written(Malformed) = Braces(<<"svc">>)
  <2>1. Written(Malformed) = <<Open, "svc", Close>>
    BY DEF Written, Malformed
  <2> QED  BY <1>1, <2>1, TokensFacts
<1>3. Written(Ref("svc")) = Braces(<<"svc", ".", "ip">>)
  <2>1. Written(Ref("svc")) = <<Open, "svc", ".", "ip", Close>>
    BY DEF Written, Ref
  <2>2. Braces(<<"svc", ".", "ip">>) = <<Open, "svc", ".", "ip", Close>>
    BY Around DEF Braces
  <2> QED  BY <2>1, <2>2, Zenon
<1>4. Written(Env(NoDefault)) = Braces(<<"NAME">>)
  <2>1. Written(Env(NoDefault)) = <<Open, "NAME">> \o <<>> \o <<Close>>
    BY DEF Written, Env
  <2>2. PICK x, y : x = <<Open, "NAME">> /\ y = <<Close>>
    OBVIOUS
  <2>3. x = Cat(<<Open>>, <<"NAME">>) /\ <<Open>> \in String /\ <<"NAME">> \in String /\ y \in String
    BY <2>2, Pair, OneToken, TokensFacts
  <2>4. Cat(x, <<>>) = x
    BY <2>3, CatFacts
  <2>5. Written(Env(NoDefault)) = Cat(x, y)
    BY <2>1, <2>2, <2>4 DEF Cat
  <2>6. Cat(x, y) = Cat(<<Open>>, Cat(<<"NAME">>, y))
    BY <2>3, CatFacts
  <2> QED  BY <2>2, <2>5, <2>6 DEF Braces
<1>5. ASSUME NEW d \in Defaults  PROVE Written(Env(d)) = Braces(WithDefault(d))
  <2>1. Written(Env(d)) = <<Open, "NAME">> \o (<<":-">> \o d) \o <<Close>>
    BY DefaultFacts DEF Written, Env
  <2>2. PICK o, n, x, c : o = <<Open>> /\ n = <<"NAME">> /\ x = Cat(<<":-">>, d) /\ c = <<Close>>
    OBVIOUS
  <2>3. <<":-">> \in String /\ d \in String
    BY OneToken, TokensFacts, DefaultFacts
  <2>4. o \in String /\ n \in String /\ x \in String /\ c \in String
    <3>1. o \in String /\ n \in String /\ c \in String
      BY <2>2, OneToken, TokensFacts
    <3> QED  BY <2>2, <2>3, <3>1, CatFacts
  <2>5. <<Open, "NAME">> = Cat(o, n)
    BY <2>2, Pair, TokensFacts
  <2>6. Cat(Cat(Cat(o, n), x), c) = Cat(o, Cat(Cat(n, x), c))
    <3>1. Cat(Cat(o, n), x) = Cat(o, Cat(n, x)) /\ Cat(n, x) \in String
      BY <2>4, CatFacts
    <3> QED  BY <2>4, <3>1, CatFacts
  <2>7. Written(Env(d)) = Cat(Cat(Cat(o, n), x), c)
    <3>1. Written(Env(d)) = Cat(Cat(<<Open, "NAME">>, Cat(<<":-">>, d)), <<Close>>)
      BY <2>1 DEF Cat
    <3> QED  BY <2>2, <2>5, <3>1
  <2> QED  BY <2>2, <2>6, <2>7 DEF Braces, WithDefault
<1> QED  BY <1>2, <1>3, <1>4, <1>5

\* What Parse looks at in NAME:-d.
LEMMA WithDefaultParts ==
  ASSUME NEW d \in String
  PROVE  LET c == WithDefault(d)
         IN  /\ c \in String /\ Len(c) = 2 + Len(d) /\ Len(d) \in Nat
             /\ c[1] = "NAME" /\ c[2] = ":-" /\ \A i \in 1..Len(d) : c[2 + i] = d[i]
             /\ SubSeq(c, 3, Len(c)) = d
<1>1. PICK n, s, u, c : n = <<"NAME">> /\ s = <<":-">> /\ u = Cat(n, s) /\ c = WithDefault(d)
  OBVIOUS
<1>2. n \in String /\ s \in String /\ n[1] = "NAME" /\ s[1] = ":-"
  BY <1>1, OneToken, TokensFacts
<1>3. Len(n) = 1 /\ Len(s) = 1
  BY <1>1, OneToken, TokensFacts
<1>4. c = Cat(n, Cat(s, d)) /\ u = Cat(n, s)
  BY <1>1, Zenon DEF WithDefault
<1>5. c = Cat(u, d) /\ u \in String
  BY <1>2, <1>4, CatFacts
<1>6. Len(u) = 2
  <2>1. Len(u) = Len(n) + Len(s)
    BY <1>2, <1>4, CatLength
  <2> QED  BY <1>3, <2>1
<1>7. u[1] = "NAME" /\ u[2] = ":-"
  <2>1. 1 \in 1..Len(n) /\ 1 \in 1..Len(s)
    BY <1>3
  <2>2. u[1] = n[1] /\ u[Len(n) + 1] = s[1]
    BY <1>2, <1>4, <2>1, CatLength
  <2> QED  BY <1>2, <1>3, <2>2
<1>8. c \in String
  BY <1>5, CatFacts
<1>9. Len(c) = 2 + Len(d) /\ Len(d) \in Nat
  <2>1. Len(c) = Len(u) + Len(d) /\ Len(d) \in Nat
    BY <1>5, CatLength
  <2> QED  BY <1>6, <2>1
<1>10. c[1] = "NAME" /\ c[2] = ":-" /\ \A i \in 1..Len(d) : c[2 + i] = d[i]
  <2>1. 1 \in 1..Len(u) /\ 2 \in 1..Len(u)
    BY <1>6
  <2>2. c[1] = u[1] /\ c[2] = u[2] /\ \A i \in 1..Len(d) : c[Len(u) + i] = d[i]
    BY <1>5, <2>1, CatLength
  <2> QED  BY <1>6, <1>7, <2>2
<1>11. SubSeq(c, 3, Len(c)) = d
  <2>1. SubSeq(Cat(u, d), 2 + 1, Len(Cat(u, d))) = d
    BY <1>5, <1>6, CutAt
  <2> QED  BY <1>5, <2>1
<1> QED  BY <1>1, <1>8, <1>9, <1>10, <1>11, Zenon

\* Parse reads each expression as the piece it was written for, or refuses it.
LEMMA ParseReads ==
  ASSUME NEW p \in Pieces, p # Text, p # Unclosed
  PROVE  \E c \in String :
            /\ Written(p) = Braces(c) /\ Without(Close, c)
            /\ \/ Parse(c) = p
               \/ Parse(c) = Malformed /\ (p = Malformed \/ Dotted(p))
<1> DEFINE Reads(c, q) == /\ c \in String /\ Written(q) = Braces(c) /\ Without(Close, c)
                          /\ \/ Parse(c) = q
                             \/ Parse(c) = Malformed /\ (q = Malformed \/ Dotted(q))
<1>1. Reads(<<"svc">>, Malformed)
  <2>1. PICK c : c = <<"svc">>
    OBVIOUS
  <2>2. c \in String /\ c[1] = "svc"
    BY <2>1, OneToken, TokensFacts
  <2>3. Len(c) = 1
    BY <2>1, OneToken, TokensFacts
  <2>4. \A i \in 1..Len(c) : i = 1
    BY <2>3
  <2>5. c # <<>>
    BY <2>3
  <2>6. Without(Close, c)
    BY <2>2, <2>4, TokensFacts DEF Without
  <2>7. Parse(c) = Malformed
    BY <2>2, <2>4, <2>5 DEF Parse, IsReference, Contains
  <2>8. Written(Malformed) = Braces(c)
    BY <2>1, WrittenOut, Zenon
  <2> QED  BY <2>1, <2>2, <2>6, <2>7, <2>8, Zenon
<1>2. Reads(<<"NAME">>, Env(NoDefault))
  <2>1. PICK c : c = <<"NAME">>
    OBVIOUS
  <2>2. c \in String /\ c[1] = "NAME"
    BY <2>1, OneToken, TokensFacts
  <2>3. Len(c) = 1
    BY <2>1, OneToken, TokensFacts
  <2>4. \A i \in 1..Len(c) : i = 1
    BY <2>3
  <2>5. c # <<>>
    BY <2>3
  <2>6. Without(Close, c)
    BY <2>2, <2>4, TokensFacts DEF Without
  <2>7. Parse(c) = Env(NoDefault)
    BY <2>2, <2>3, <2>4, <2>5 DEF Parse, IsReference, Contains
  <2>8. Written(Env(NoDefault)) = Braces(c)
    BY <2>1, WrittenOut, Zenon
  <2> QED  BY <2>1, <2>2, <2>6, <2>7, <2>8, Zenon
<1>3. Reads(<<"svc", ".", "ip">>, Ref("svc"))
  <2>1. PICK c : c = <<"svc", ".", "ip">>
    OBVIOUS
  <2>2. c \in String /\ c[1] = "svc" /\ c[2] = "." /\ c[3] = "ip"
    BY <2>1, ThreeTokens, TokensFacts
  <2>3. Len(c) = 3
    BY <2>1, ThreeTokens, TokensFacts
  <2>4. 2 \in 1..Len(c) /\ \A i \in 1..Len(c) : i = 1 \/ i = 2 \/ i = 3
    BY <2>3
  <2>5. c # <<>>
    BY <2>3
  <2>6. Without(Close, c)
    BY <2>2, <2>4, TokensFacts DEF Without
  <2>7. Parse(c) = Ref("svc")
    BY <2>2, <2>3, <2>4, <2>5 DEF Parse, IsReference, Contains, Words, Properties
  <2>8. Written(Ref("svc")) = Braces(c)
    BY <2>1, WrittenOut, Zenon
  <2> QED  BY <2>1, <2>2, <2>6, <2>7, <2>8, Zenon
<1>4. ASSUME NEW d \in Defaults  PROVE Reads(WithDefault(d), Env(d))
  <2>1. PICK c : c = WithDefault(d)
    OBVIOUS
  <2>2. d \in String /\ Without(Close, d)
    BY DefaultFacts
  <2>3. /\ c \in String /\ Len(c) = 2 + Len(d) /\ Len(d) \in Nat
        /\ c[1] = "NAME" /\ c[2] = ":-" /\ \A i \in 1..Len(d) : c[2 + i] = d[i]
        /\ SubSeq(c, 3, Len(c)) = d
    BY <2>1, <2>2, WithDefaultParts
  <2>4. \A i \in 1..Len(c) : i = 1 \/ i = 2 \/ (i - 2 \in 1..Len(d) /\ 2 + (i - 2) = i)
    BY <2>3
  <2>5. c # <<>> /\ Len(c) # 1
    BY <2>3
  <2>6. Without(Close, c)
    BY <2>2, <2>3, <2>4, TokensFacts DEF Without
  <2>7. Written(Env(d)) = Braces(c)
    BY <2>1, WrittenOut, Zenon
  <2>8. Parse(c) = Env(d) \/ (Parse(c) = Malformed /\ Dotted(Env(d)))
    <3>1. CASE ~ Contains(d, ".")
      <4>1. ~ IsReference(c)
        BY <2>3, <2>4, <3>1 DEF IsReference, Contains
      <4> QED  BY <2>3, <2>5, <4>1 DEF Parse, Default
    <3>2. CASE Contains(d, ".")
      <4>1. Dotted(Env(d))
        BY <3>2 DEF Dotted, Env
      <4>2. Parse(c) = Malformed
        <5>1. PICK i \in 1..Len(d) : d[i] = "."
          BY <3>2 DEF Contains
        <5>2. 2 + i \in 1..Len(c) /\ c[2 + i] = "."
          BY <2>3, <5>1
        <5>3. IsReference(c)
          BY <5>2 DEF IsReference, Contains
        <5>4. c[2] # "."
          BY <2>3
        <5> QED  BY <2>5, <5>3, <5>4 DEF Parse
      <4> QED  BY <4>1, <4>2
    <3> QED  BY <3>1, <3>2
  <2> QED  BY <2>1, <2>3, <2>6, <2>7, <2>8, Zenon
<1> HIDE DEF Reads
<1>5. p \in {Malformed, Ref("svc"), Env(NoDefault)} \/ \E d \in Defaults : p = Env(d)
  BY PieceCases
<1>6. \E c : Reads(c, p)
  BY <1>1, <1>2, <1>3, <1>4, <1>5, Zenon
<1>7. PICK c : Reads(c, p)
  BY <1>6, Zenon
<1>8. c \in String /\ Reads(c, p)
  BY <1>7, Zenon DEF Reads
<1> QED  BY <1>8, Zenon DEF Reads

-----------------------------------------------------------------------------
(* One look of the scan at what is left.                                   *)

\* Where q has c in braces between u and v, and what Variable cuts it into.
SeenAt(q, u, c, v) ==
    LET from == Len(u) + 1 IN
    /\ First(Open, q) = from
    /\ \E i \in from..Len(q) : q[i] = Close
    /\ SubSeq(q, 1, from - 1) = u
    /\ \E r : r = SubSeq(q, from + 1, Len(q)) /\ SubSeq(r, 1, First(Close, r) - 1) = c
    /\ SubSeq(q, from + Len(c) + 2, Len(q)) = v

\* An expression in braces after a string without ${ is seen there.
LEMMA FoundBraces ==
  ASSUME NEW u \in String, Without(Open, u), NEW c \in String, Without(Close, c),
         NEW v \in String, NEW q, q = Cat(u, Cat(Braces(c), v))
  PROVE  SeenAt(q, u, c, v)
<1>1. PICK o, e : o = <<Open>> /\ e = <<Close>>
  OBVIOUS
<1>2. o \in String /\ e \in String /\ o[1] = Open /\ e[1] = Close
  BY <1>1, OneToken, TokensFacts
<1>3. Len(o) = 1 /\ Len(e) = 1
  BY <1>1, OneToken, TokensFacts
<1>4. PICK r : r = Cat(c, Cat(e, v))
  OBVIOUS
<1>5. Cat(e, v) \in String /\ Cat(c, e) \in String /\ r \in String
  BY <1>2, <1>4, CatFacts
<1>6. Cat(Braces(c), v) = Cat(o, r)
  <2>1. Braces(c) = Cat(o, Cat(c, e))
    BY <1>1, Zenon DEF Braces
  <2>2. Cat(Cat(o, Cat(c, e)), v) = Cat(o, Cat(Cat(c, e), v))
    BY <1>2, <1>5, CatFacts
  <2>3. Cat(Cat(c, e), v) = r
    BY <1>2, <1>4, CatFacts
  <2> QED  BY <2>1, <2>2, <2>3, Zenon
<1>7. q = Cat(u, Cat(o, r)) /\ Cat(o, r) \in String
  BY <1>2, <1>5, <1>6, CatFacts
<1>8. First(Open, q) = Len(u) + 1
  <2>1. First(Open, Cat(u, Cat(<<Open>>, r))) = Len(u) + 1
    BY <1>5, FirstFound, TokensFacts
  <2> QED  BY <1>1, <1>7, <2>1, Zenon
<1>9. Len(u) \in Nat /\ Len(c) \in Nat /\ Len(v) \in Nat /\ Len(r) \in Nat /\ Len(q) \in Nat
  <2>1. q \in String
    BY <1>7, CatFacts
  <2> QED  BY <1>5, <2>1, LengthIsNat
<1>10. PICK a : a = Cat(u, o)
  OBVIOUS
<1>11. a \in String /\ q = Cat(a, r)
  BY <1>2, <1>5, <1>7, <1>10, CatFacts
<1>12. Len(a) = Len(u) + 1
  <2>1. Len(a) = Len(u) + Len(o)
    BY <1>2, <1>10, CatLength
  <2> QED  BY <1>3, <2>1
<1>13. SubSeq(q, (Len(u) + 1) + 1, Len(q)) = r
  <2>1. SubSeq(Cat(a, r), Len(a) + 1, Len(Cat(a, r))) = r
    BY <1>5, <1>11, Cut
  <2> QED  BY <1>11, <1>12, <2>1, Zenon
<1>14. SubSeq(q, 1, (Len(u) + 1) - 1) = u
  <2>1. SubSeq(q, 1, Len(u)) = u
    <3>1. SubSeq(Cat(u, Cat(o, r)), 1, Len(u)) = u
      BY <1>7, Cut
    <3> QED  BY <1>7, <3>1, Zenon
  <2>2. (Len(u) + 1) - 1 = Len(u)
    BY <1>9
  <2> QED  BY <2>1, <2>2
<1>15. First(Close, r) = Len(c) + 1
  <2>1. First(Close, Cat(c, Cat(<<Close>>, v))) = Len(c) + 1
    BY FirstFound, TokensFacts
  <2> QED  BY <1>1, <1>4, <2>1, Zenon
<1>16. SubSeq(r, 1, (Len(c) + 1) - 1) = c
  <2>1. SubSeq(r, 1, Len(c)) = c
    <3>1. SubSeq(Cat(c, Cat(e, v)), 1, Len(c)) = c
      BY <1>5, Cut
    <3> QED  BY <1>4, <3>1, Zenon
  <2>2. (Len(c) + 1) - 1 = Len(c)
    BY <1>9
  <2> QED  BY <2>1, <2>2
<1>17. PICK b : b = Cat(a, Cat(c, e))
  OBVIOUS
<1>18. b \in String /\ q = Cat(b, v)
  <2>1. r = Cat(Cat(c, e), v)
    BY <1>2, <1>4, CatFacts
  <2> QED  BY <1>5, <1>11, <1>17, <2>1, CatFacts
<1>19. Len(Cat(c, e)) = Len(c) + 1
  <2>1. Len(Cat(c, e)) = Len(c) + Len(e)
    BY <1>2, CatLength
  <2> QED  BY <1>3, <2>1
<1>20. Len(b) = Len(u) + Len(c) + 2
  <2>1. Len(b) = Len(a) + Len(Cat(c, e))
    BY <1>5, <1>11, <1>17, CatLength
  <2> QED  BY <1>9, <1>12, <1>19, <2>1
<1>21. SubSeq(q, (Len(u) + 1) + Len(c) + 2, Len(q)) = v
  <2>1. SubSeq(Cat(b, v), Len(b) + 1, Len(Cat(b, v))) = v
    BY <1>18, Cut
  <2>2. Len(b) + 1 = (Len(u) + 1) + Len(c) + 2
    BY <1>9, <1>20
  <2> QED  BY <1>18, <2>1, <2>2, Zenon
<1>22. \E i \in (Len(u) + 1)..Len(q) : q[i] = Close
  <2>1. PICK k : k = Len(c) + 1
    OBVIOUS
  <2>2. r[k] = Close /\ k \in 1..Len(r)
    <3>1. PICK w : w = Cat(e, v)
      OBVIOUS
    <3>2. Len(w) = Len(e) + Len(v) /\ w \in String
      BY <1>2, <1>5, <3>1, CatLength
    <3>3. 1 \in 1..Len(w) /\ 1 \in 1..Len(e)
      BY <1>3, <1>9, <3>2
    <3>4. w[1] = e[1]
      BY <1>2, <3>1, <3>3, CatLength
    <3>5. r[Len(c) + 1] = w[1] /\ Len(r) = Len(c) + Len(w)
      BY <1>4, <3>1, <3>2, <3>3, CatLength
    <3> QED  BY <1>2, <1>3, <1>9, <2>1, <3>2, <3>4, <3>5
  <2>3. q[Len(a) + k] = r[k]
    <3>1. Cat(a, r)[Len(a) + k] = r[k]
      BY <1>5, <1>11, <2>2, CatLength
    <3> QED  BY <1>11, <3>1
  <2>4. Len(q) = Len(a) + Len(r)
    BY <1>5, <1>11, CatLength
  <2>5. Len(a) + k \in (Len(u) + 1)..Len(q)
    BY <1>9, <1>12, <2>2, <2>4
  <2> QED  BY <2>2, <2>3, <2>5
<1>23. SubSeq(r, 1, First(Close, r) - 1) = c
  BY <1>15, <1>16, Zenon
<1> QED  BY <1>8, <1>13, <1>14, <1>21, <1>22, <1>23, Zenon DEF SeenAt

\* A ${ that is never closed is found, and its end is not.
LEMMA FoundUnclosed ==
  ASSUME NEW u \in String, Without(Open, u), NEW q, q = Cat(u, Written(Unclosed))
  PROVE  /\ First(Open, q) = Len(u) + 1
         /\ \A i \in (Len(u) + 1)..Len(q) : q[i] # Close
         /\ SubSeq(q, (Len(u) + 1) + 1, Len(q)) = <<"_">>
         /\ SubSeq(q, 1, Len(u) + 1) = Cat(u, <<Open>>)
<1>1. PICK o, e, a : o = <<Open>> /\ e = <<"_">> /\ a = Cat(u, o)
  OBVIOUS
<1>2. o \in String /\ e \in String /\ o[1] = Open /\ e[1] = "_"
  BY <1>1, OneToken, TokensFacts
<1>3. Len(o) = 1 /\ Len(e) = 1
  BY <1>1, OneToken, TokensFacts
<1>4. q = Cat(u, Cat(o, e)) /\ a = Cat(u, o)
  <2>1. Cat(<<Open>>, <<"_">>) = <<Open, "_">>
    BY Pair, TokensFacts
  <2>2. Written(Unclosed) = <<Open, "_">>
    BY DEF Written, Unclosed
  <2> QED  BY <1>1, <2>1, <2>2, Zenon
<1>5. q = Cat(a, e) /\ a \in String
  BY <1>2, <1>4, CatFacts
<1>6. Len(u) \in Nat
  BY LengthIsNat
<1>7. Len(a) = Len(u) + 1
  <2>1. Len(a) = Len(u) + Len(o)
    BY <1>2, <1>4, CatLength
  <2> QED  BY <1>3, <2>1
<1>8. Len(q) = Len(u) + 2
  <2>1. Len(q) = Len(a) + Len(e)
    BY <1>2, <1>5, CatLength
  <2> QED  BY <1>3, <1>6, <1>7, <2>1
<1>9. First(Open, q) = Len(u) + 1
  <2>1. First(Open, Cat(u, Cat(<<Open>>, e))) = Len(u) + 1
    BY <1>2, FirstFound, TokensFacts
  <2> QED  BY <1>1, <1>4, <2>1, Zenon
<1>10. q[Len(u) + 1] = Open /\ q[Len(u) + 2] = "_"
  <2>1. 1 \in 1..Len(o) /\ 1 \in 1..Len(e) /\ Len(u) + 1 \in 1..Len(a)
    BY <1>3, <1>6, <1>7
  <2>2. a[Len(u) + 1] = o[1]
    BY <1>2, <1>4, <2>1, CatLength
  <2>3. q[Len(u) + 1] = a[Len(u) + 1]
    <3>1. Cat(a, e)[Len(u) + 1] = a[Len(u) + 1]
      BY <1>2, <1>5, <2>1, CatLength
    <3> QED  BY <1>5, <3>1, Zenon
  <2>4. q[Len(u) + 2] = e[1]
    <3>1. Cat(a, e)[Len(a) + 1] = e[1]
      BY <1>2, <1>5, <2>1, CatLength
    <3>2. Len(a) + 1 = Len(u) + 2
      BY <1>6, <1>7
    <3> QED  BY <1>5, <3>1, <3>2, Zenon
  <2> QED  BY <1>2, <2>2, <2>3, <2>4
<1>11. \A i \in (Len(u) + 1)..Len(q) : q[i] # Close
  <2>1. \A i \in (Len(u) + 1)..Len(q) : i = Len(u) + 1 \/ i = Len(u) + 2
    BY <1>6, <1>8
  <2> QED  BY <1>10, <2>1, TokensFacts
<1>12. SubSeq(q, (Len(u) + 1) + 1, Len(q)) = e /\ SubSeq(q, 1, Len(u) + 1) = a
  <2>1. /\ SubSeq(Cat(a, e), Len(a) + 1, Len(Cat(a, e))) = e
        /\ SubSeq(Cat(a, e), 1, Len(a)) = a
    BY <1>2, <1>5, Cut
  <2> QED  BY <1>5, <1>7, <2>1, Zenon
<1>13. a = Cat(u, <<Open>>) /\ e = <<"_">>
  BY <1>1, Zenon
<1> QED  BY <1>9, <1>11, <1>12, <1>13, Zenon

-----------------------------------------------------------------------------
(* The scan of a template and its inductive invariant                      *)

Parts == [i \in DOMAIN template |-> Written(template[i])]
Meanings == [i \in DOMAIN template |-> Meaning(template[i])]

\* R and G are what is left of the input, and what is meant, at each piece.
Scans(R, G) == RightSums(R, Parts) /\ LeftSums(G, Meanings)

Lacks(p) == \/ p = Env(NoDefault) /\ "NAME" \notin provided
            \/ p = Ref("svc") /\ "svc" \notin provided
LackedBy(k) == {p \in Meaningless : \E i \in 1..k : template[i] = p}

\* The scan stands between two pieces, or nothing is left to look for.
BetweenPieces(R, G, k) ==
    /\ remaining = R[k]
    /\ missing = LackedBy(k)
    /\ missing = {} => output = G[k]
OnlyText(G) ==
    /\ remaining \in String /\ Without(Open, remaining)
    /\ missing = Meaningless
    /\ missing = {} => Cat(output, remaining) = G[Len(template)]

ScanInv ==
    /\ template \in Templates /\ provided \in SUBSET {"NAME", "svc"}
    /\ verdict \in {"scanning", "malformed", "missing", "resolved"}
    /\ \E R, G : /\ Scans(R, G)
                 /\ verdict = "scanning" =>
                      OnlyText(G) \/ \E k \in 0..Len(template) : BetweenPieces(R, G, k)
                 /\ verdict = "resolved" => output = G[Len(template)]
    /\ verdict = "malformed" =>
         \E i \in DOMAIN template : template[i] = Malformed \/ Dotted(template[i])
    /\ verdict \in {"missing", "resolved"} => missing = Meaningless

\* A template, as a sequence of pieces.
LEMMA TemplateFacts ==
  ASSUME template \in Templates
  PROVE  /\ template \in Seq(Pieces) /\ Len(template) \in Nat
         /\ DOMAIN template = 1..Len(template)
         /\ \A i \in 1..Len(template) :
              template[i] \in Pieces /\ (template[i] = Unclosed => i = Len(template))
<1>1. PICK n \in 0..MaxPieces : template \in [1..n -> Pieces]
  BY DEF Templates
<1>2. n \in Nat
  BY PiecesAssumption
<1>3. template \in Seq(Pieces) /\ Len(template) = n /\ DOMAIN template = 1..n
  BY <1>1, <1>2
<1>4. \A i \in DOMAIN template : template[i] = Unclosed => i = Len(template)
  BY DEF Templates, Opened
<1> QED  BY <1>1, <1>2, <1>3, <1>4

\* What is written of a piece is a string,
LEMMA WrittenIsString ==
  ASSUME NEW p \in Pieces
  PROVE  Written(p) \in String
<1>1. Written(Text) \in String
  <2>1. Written(Text) = Cat(<<"_">>, <<Close>>)
    BY Pair, TokensFacts DEF Written, Text
  <2>2. <<"_">> \in String /\ <<Close>> \in String
    BY OneToken, TokensFacts
  <2> QED  BY <2>1, <2>2, CatFacts
<1>2. Written(Unclosed) \in String
  <2>1. Written(Unclosed) = Cat(<<Open>>, <<"_">>)
    BY Pair, TokensFacts DEF Written, Unclosed
  <2>2. <<"_">> \in String /\ <<Open>> \in String
    BY OneToken, TokensFacts
  <2> QED  BY <2>1, <2>2, CatFacts
<1>3. CASE p # Text /\ p # Unclosed
  <2>1. PICK c \in String : Written(p) = Braces(c)
    BY <1>3, ParseReads
  <2>2. <<Open>> \in String /\ <<Close>> \in String
    BY OneToken, TokensFacts
  <2> QED  BY <2>1, <2>2, CatFacts DEF Braces
<1> QED  BY <1>1, <1>2, <1>3

\* and so is what it means,
LEMMA MeaningIsString ==
  ASSUME NEW p \in Pieces
  PROVE  Meaning(p) \in String
<1>1. <<"value">> \in String /\ <<"address">> \in String /\ NoDefault \in String
  BY OneToken, TokensFacts DEF NoDefault
<1>2. p.is = "env" => p.default \in String
  <2>1. CASE p \in {Text, Unclosed, Malformed, Ref("svc")}
    BY <2>1 DEF Text, Unclosed, Malformed, Ref
  <2>2. CASE p = Env(NoDefault)
    BY <1>1, <2>2 DEF Env
  <2>3. ASSUME NEW d \in Defaults, p = Env(d)  PROVE p.default \in String
    BY <2>3, DefaultFacts DEF Env
  <2> QED  BY <2>1, <2>2, <2>3, PieceCases
<1> QED  BY <1>1, <1>2, WrittenIsString DEF Meaning

\* for every piece of a template.
LEMMA PartsAreStrings ==
  ASSUME template \in Templates
  PROVE  /\ Parts \in Seq(String) /\ Len(Parts) = Len(template)
         /\ Meanings \in Seq(String) /\ Len(Meanings) = Len(template)
         /\ \A i \in 1..Len(template) : /\ Parts[i] = Written(template[i])
                                        /\ Meanings[i] = Meaning(template[i])
<1>1. PICK n : n = Len(template)
  OBVIOUS
<1>2. n \in Nat /\ DOMAIN template = 1..n /\ \A i \in 1..n : template[i] \in Pieces
  BY <1>1, TemplateFacts
<1>3. \A i \in 1..n : Written(template[i]) \in String /\ Meaning(template[i]) \in String
  BY <1>2, WrittenIsString, MeaningIsString
<1>4. Parts \in [1..n -> String] /\ Meanings \in [1..n -> String]
  BY <1>2, <1>3 DEF Parts, Meanings
<1>5. Parts \in Seq(String) /\ Len(Parts) = n /\ Meanings \in Seq(String) /\ Len(Meanings) = n
  BY <1>2, <1>4
<1>6. \A i \in 1..n : Parts[i] = Written(template[i]) /\ Meanings[i] = Meaning(template[i])
  BY <1>2 DEF Parts, Meanings
<1> QED  BY <1>1, <1>5, <1>6

\* Text means itself and has no ${.
LEMMA TextWritten ==
  /\ Written(Text) \in String /\ Without(Open, Written(Text)) /\ Meaning(Text) = Written(Text)
  /\ Meaning(Unclosed) = Written(Unclosed)
<1>1. PICK x : x = Written(Text)
  OBVIOUS
<1>2. x \in String
  BY <1>1, WrittenIsString DEF Pieces
<1>3. x[1] = "_" /\ x[2] = Close
  BY <1>1 DEF Written, Text
<1>4. Len(x) = 2
  BY <1>1 DEF Written, Text
<1>5. \A i \in 1..Len(x) : i = 1 \/ i = 2
  BY <1>4
<1>6. Without(Open, x)
  BY <1>3, <1>5, TokensFacts DEF Without
<1>7. Meaning(Text) = Written(Text)
  BY DEF Meaning, Text
<1>8. Meaning(Unclosed) = Written(Unclosed)
  BY DEF Meaning, Unclosed
<1> QED  BY <1>1, <1>2, <1>6, <1>7, <1>8

\* What neither string has, both together do not have.
LEMMA WithoutCat ==
  ASSUME NEW t, NEW u \in String, NEW v \in String, Without(t, u), Without(t, v)
  PROVE  Without(t, Cat(u, v))
<1>1. PICK w : w = Cat(u, v)
  OBVIOUS
<1>2. /\ Len(w) = Len(u) + Len(v) /\ Len(u) \in Nat /\ Len(v) \in Nat
      /\ \A i \in 1..Len(u) : w[i] = u[i]
      /\ \A i \in 1..Len(v) : w[Len(u) + i] = v[i]
  BY <1>1, CatLength
<1>3. SUFFICES ASSUME NEW i \in 1..Len(w)  PROVE w[i] # t
  BY <1>1 DEF Without
<1>4. CASE i \in 1..Len(u)
  BY <1>2, <1>4 DEF Without
<1>5. CASE i \notin 1..Len(u)
  <2>1. PICK k : k = i - Len(u)
    OBVIOUS
  <2>2. k \in 1..Len(v) /\ Len(u) + k = i
    BY <1>2, <1>5, <2>1
  <2> QED  BY <1>2, <2>2 DEF Without
<1> QED  BY <1>4, <1>5

\* Over pieces of text nothing is found, and they mean themselves.
LEMMA TextRun ==
  ASSUME template \in Templates, NEW R, NEW G, Scans(R, G),
         NEW k \in 0..Len(template), NEW m \in k..Len(template),
         \A i \in (k+1)..m : template[i] = Text
  PROVE  \E u \in String : /\ Without(Open, u)
                           /\ R[k] = Cat(u, R[m]) /\ G[m] = Cat(G[k], u)
<1>1. PICK n : n = Len(template)
  OBVIOUS
<1>2. n \in Nat /\ k \in Nat /\ m \in Nat /\ k <= m /\ m <= n
  BY <1>1, TemplateFacts
<1>3. /\ \A i \in 0..n : R[i] \in String /\ G[i] \in String
      /\ \A i \in 1..n : R[i-1] = Cat(Parts[i], R[i]) /\ G[i] = Cat(G[i-1], Meanings[i])
  BY <1>1, PartsAreStrings DEF Scans, RightSums, LeftSums
<1> DEFINE Run(u, i) == /\ u \in String /\ Without(Open, u)
                        /\ R[k] = Cat(u, R[i]) /\ G[i] = Cat(G[k], u)
           H == {j \in 0..(m-k) : \E u : Run(u, k + j)}
<1>4. 0 \in H
  <2>1. <<>> \in String /\ Without(Open, <<>>)
    BY CatFacts DEF Without
  <2>2. k \in 0..n /\ R[k] \in String /\ G[k] \in String
    BY <1>2, <1>3
  <2>3. R[k] = Cat(<<>>, R[k]) /\ G[k] = Cat(G[k], <<>>)
    BY <2>2, CatFacts
  <2>4. k + 0 = k /\ 0 \in 0..(m-k)
    BY <1>2
  <2> QED  BY <2>1, <2>3, <2>4
<1>5. ASSUME NEW j \in 1..(m-k), j - 1 \in H  PROVE j \in H
  <2>1. PICK i : i = k + j
    OBVIOUS
  <2>2. k + (j - 1) = i - 1 /\ i \in (k+1)..m /\ i \in 1..n /\ i \in 0..n /\ i - 1 \in 0..n
        /\ k \in 0..n
    BY <1>2, <2>1
  <2>3. PICK u : Run(u, i - 1)
    BY <1>5, <2>2
  <2>4. PICK x : x = Written(Text)
    OBVIOUS
  <2>5. template[i] = Text /\ Parts[i] = x /\ Meanings[i] = x
    BY <1>1, <2>2, <2>4, TextWritten, PartsAreStrings
  <2>6. x \in String /\ Without(Open, x)
    BY <2>4, TextWritten
  <2>7. Cat(u, x) \in String /\ Without(Open, Cat(u, x))
    BY <2>3, <2>6, WithoutCat, CatFacts
  <2>8. R[k] = Cat(Cat(u, x), R[i])
    <3>1. R[k] = Cat(u, Cat(x, R[i])) /\ R[i] \in String /\ u \in String
      BY <1>3, <2>2, <2>3, <2>5
    <3> QED  BY <2>6, <3>1, CatFacts
  <2>9. G[i] = Cat(G[k], Cat(u, x))
    <3>1. G[i] = Cat(Cat(G[k], u), x) /\ G[k] \in String /\ u \in String
      BY <1>3, <2>2, <2>3, <2>5
    <3> QED  BY <2>6, <3>1, CatFacts
  <2>10. Run(Cat(u, x), i)
    BY <2>7, <2>8, <2>9
  <2> HIDE DEF Run
  <2> QED  BY <2>1, <2>10
<1>6. (m-k) \in H
  <2>1. H \in SUBSET (0..(m-k)) /\ m - k \in Nat
    BY <1>2
  <2> HIDE DEF H
  <2>2. H = 0..(m-k)
    BY <1>4, <1>5, <2>1, UpTo
  <2> QED  BY <1>2, <2>1, <2>2
<1>7. k + (m - k) = m
  BY <1>2
<1>8. \E u : Run(u, m)
  BY <1>6, <1>7
<1> QED  BY <1>8

\* From each piece on there is text, and then a piece that opens, or the end.
LEMMA NextPiece ==
  ASSUME template \in Templates, NEW R, NEW G, Scans(R, G), NEW k \in 0..Len(template)
  PROVE  \E u \in String :
           /\ Without(Open, u)
           /\ \/ /\ R[k] = u /\ G[Len(template)] = Cat(G[k], u)
                 /\ \A i \in (k+1)..Len(template) : template[i] = Text
              \/ \E m \in (k+1)..Len(template) :
                   /\ R[k] = Cat(u, Cat(Written(template[m]), R[m]))
                   /\ G[m-1] = Cat(G[k], u)
                   /\ template[m] # Text /\ \A i \in (k+1)..(m-1) : template[i] = Text
<1>1. PICK n : n = Len(template)
  OBVIOUS
<1>2. n \in Nat /\ k \in Nat /\ k <= n
  BY <1>1, TemplateFacts
<1>3. /\ \A i \in 0..n : R[i] \in String /\ G[i] \in String
      /\ R[n] = <<>>
      /\ \A i \in 1..n : R[i-1] = Cat(Written(template[i]), R[i])
  BY <1>1, PartsAreStrings DEF Scans, RightSums, LeftSums
<1> DEFINE D == {m \in (k+1)..n : template[m] # Text}
<1>4. CASE D = {}
  <2>1. \A i \in (k+1)..n : template[i] = Text
    BY <1>4
  <2>2. n \in k..n
    BY <1>2
  <2>3. PICK u \in String : Without(Open, u) /\ R[k] = Cat(u, R[n]) /\ G[n] = Cat(G[k], u)
    BY <1>1, <2>1, <2>2, TextRun
  <2>4. R[k] = u
    BY <1>3, <2>3, CatFacts
  <2> QED  BY <1>1, <2>1, <2>3, <2>4
<1>5. CASE D # {}
  <2>1. D \in SUBSET Nat
    BY <1>2
  <2>2. PICK m \in D : \A i \in D : m <= i
    <3> HIDE DEF D
    <3> QED  BY <1>5, <2>1, LeastOf
  <2>3. m \in (k+1)..n /\ template[m] # Text /\ m - 1 \in k..n /\ m \in 1..n
    BY <1>2, <2>2
  <2>4. \A i \in (k+1)..(m-1) : template[i] = Text
    BY <1>2, <2>2
  <2>5. PICK u \in String : Without(Open, u) /\ R[k] = Cat(u, R[m-1]) /\ G[m-1] = Cat(G[k], u)
    BY <1>1, <2>3, <2>4, TextRun
  <2>6. R[m-1] = Cat(Written(template[m]), R[m])
    BY <1>3, <2>3
  <2> QED  BY <1>1, <2>3, <2>4, <2>5, <2>6
<1> QED  BY <1>4, <1>5

\* A variable is known unless it is one that is to be reported missing.
LEMMA KnownFacts ==
  ASSUME NEW p \in Pieces, p # Text, p # Unclosed, p # Malformed
  PROVE  (Known(p) <=> ~ Lacks(p)) /\ (Known(p) => Meaning(p) = Value(p))
<1>1. CASE p = Ref("svc")
  <2>1. p.is = "ref" /\ p.service = "svc" /\ p # Env(NoDefault)
    BY <1>1 DEF Ref, Env
  <2> QED  BY <1>1, <2>1 DEF Known, Lacks, Meaning, Value
<1>2. CASE p = Env(NoDefault)
  <2>1. p.is = "env" /\ p.default = NoDefault /\ p # Ref("svc")
    BY <1>2 DEF Ref, Env
  <2> QED  BY <1>2, <2>1 DEF Known, Lacks, Meaning, Value
<1>3. ASSUME NEW d \in Defaults, p = Env(d)
      PROVE  (Known(p) <=> ~ Lacks(p)) /\ (Known(p) => Meaning(p) = Value(p))
  <2>1. p.is = "env" /\ p.default = d /\ p # Ref("svc")
    BY <1>3 DEF Ref, Env
  <2>2. d # NoDefault
    BY DefaultFacts
  <2>3. p # Env(NoDefault)
    <3>1. Env(NoDefault).default = NoDefault
      BY DEF Env
    <3> QED  BY <2>1, <2>2, <3>1
  <2> QED  BY <2>1, <2>2, <2>3 DEF Known, Lacks, Meaning, Value
<1> QED  BY <1>1, <1>2, <1>3, PieceCases

\* Text is never reported missing.
LEMMA TextLacksNothing == ~ Lacks(Text) /\ ~ Lacks(Unclosed)
BY DEF Lacks, Text, Unclosed, Env, Ref

\* What the first k pieces lack grows piece by piece into Meaningless.
LEMMA MeaninglessLack ==
  ASSUME template \in Templates
  PROVE  /\ Meaningless = {p \in Range(template) : Lacks(p)}
         /\ LackedBy(0) = {} /\ LackedBy(Len(template)) = Meaningless
<1>1. Meaningless = {p \in Range(template) : Lacks(p)}
  BY DEF Meaningless, Lacks
<1>2. LackedBy(0) = {}
  BY DEF LackedBy
<1>3. Range(template) = {template[i] : i \in 1..Len(template)}
  BY TemplateFacts DEF Range
<1>4. LackedBy(Len(template)) = Meaningless
  BY <1>1, <1>3 DEF LackedBy
<1> QED  BY <1>1, <1>2, <1>4

\* Nothing is lacking because of text,
LEMMA LackedOverText ==
  ASSUME template \in Templates, NEW k \in 0..Len(template), NEW m \in k..Len(template),
         \A i \in (k+1)..m : template[i] = Text
  PROVE  LackedBy(m) = LackedBy(k)
<1>1. PICK n : n = Len(template)
  OBVIOUS
<1>2. n \in Nat /\ k \in Nat /\ m \in Nat /\ k <= m /\ m <= n
  BY <1>1, TemplateFacts
<1>3. \A p \in Meaningless : p # Text
  BY MeaninglessLack, TextLacksNothing
<1>4. \A i \in 1..m : i \in 1..k \/ i \in (k+1)..m
  BY <1>2
<1>5. \A i \in 1..k : i \in 1..m
  BY <1>2
<1> QED  BY <1>3, <1>4, <1>5 DEF LackedBy

\* and of any piece at most the piece itself.
LEMMA LackedOne ==
  ASSUME template \in Templates, NEW m \in 1..Len(template)
  PROVE  LackedBy(m) = LackedBy(m-1) \cup (IF Lacks(template[m]) THEN {template[m]} ELSE {})
<1>1. PICK n : n = Len(template)
  OBVIOUS
<1>2. n \in Nat /\ m \in 1..n
  BY <1>1, TemplateFacts
<1>3. \A i : i \in 1..m <=> i \in 1..(m-1) \/ i = m
  BY <1>2
<1>4. template[m] \in Range(template)
  BY <1>1, <1>2, TemplateFacts DEF Range
<1>5. Lacks(template[m]) <=> template[m] \in Meaningless
  BY <1>4, MeaninglessLack
<1> QED  BY <1>3, <1>5 DEF LackedBy

\* At the beginning the scan stands before the first piece.
LEMMA ScanInit == TemplateInit => ScanInv
<1> SUFFICES ASSUME TemplateInit  PROVE ScanInv
  OBVIOUS
<1>1. template \in Templates /\ provided \in SUBSET {"NAME", "svc"} /\ verdict = "scanning"
  BY DEF TemplateInit
<1>2. PICK R : RightSums(R, Parts)
  BY <1>1, PartsAreStrings, RightSumsExist
<1>3. PICK G : LeftSums(G, Meanings)
  BY <1>1, PartsAreStrings, LeftSumsExist
<1>4. PICK F : LeftSums(F, Parts)
  BY <1>1, PartsAreStrings, LeftSumsExist
<1>5. input = R[0]
  <2>1. Parts \in Seq(String)
    BY <1>1, PartsAreStrings
  <2>2. FlattenSeq(Parts) = F[Len(Parts)]
    BY <1>4, <2>1, FlattenIsSum
  <2>3. F[Len(Parts)] = R[0]
    BY <1>2, <1>4, <2>1, SumsAgree
  <2> QED  BY <2>2, <2>3 DEF TemplateInit, Flat, Parts
<1>6. G[0] = <<>>
  BY <1>3 DEF LeftSums
<1>7. BetweenPieces(R, G, 0)
  BY <1>1, <1>5, <1>6, MeaninglessLack DEF BetweenPieces, TemplateInit
<1>8. 0 \in 0..Len(template)
  <2>1. Len(template) \in Nat
    BY <1>1, TemplateFacts
  <2> QED  BY <2>1
<1> QED  BY <1>1, <1>2, <1>3, <1>7, <1>8 DEF ScanInv, Scans

\* The definitions that speak of the template and the context stay as they are.
LEMMA SameTemplate ==
  ASSUME UNCHANGED <<template, input, provided>>
  PROVE  /\ Parts' = Parts /\ Meanings' = Meanings /\ Meaningless' = Meaningless
         /\ \A R, G : Scans(R, G)' = Scans(R, G)
         /\ \A k : LackedBy(k)' = LackedBy(k)
<1>1. Parts' = Parts
  BY DEF Parts
<1>2. Meanings' = Meanings
  BY DEF Meanings, Meaning
<1>3. Meaningless' = Meaningless
  BY DEF Meaningless
<1>4. \A R, G : Scans(R, G)' = Scans(R, G)
  BY <1>1, <1>2 DEF Scans
<1>5. \A k : LackedBy(k)' = LackedBy(k)
  BY <1>3 DEF LackedBy
<1> QED  BY <1>1, <1>2, <1>3, <1>4, <1>5

\* A piece that is not text opens with ${, so that the scan finds it.
LEMMA OpensFound ==
  ASSUME NEW u \in String, Without(Open, u), NEW v \in String, NEW p \in Pieces, p # Text
  PROVE  First(Open, Cat(u, Cat(Written(p), v))) = Len(u) + 1
<1>1. \E x \in String : Written(p) = Cat(<<Open>>, x)
  <2>1. CASE p = Unclosed
    <3>1. Written(Unclosed) = Cat(<<Open>>, <<"_">>)
      BY Pair, TokensFacts DEF Written, Unclosed
    <3>2. <<"_">> \in String
      BY OneToken, TokensFacts
    <3> QED  BY <2>1, <3>1, <3>2, Zenon
  <2>2. CASE p # Unclosed
    <3>1. PICK c \in String : Written(p) = Braces(c)
      BY <2>2, ParseReads
    <3>2. <<Close>> \in String
      BY OneToken, TokensFacts
    <3>3. Cat(c, <<Close>>) \in String
      BY <3>2, CatFacts
    <3> QED  BY <3>1, <3>3, Zenon DEF Braces
  <2> QED  BY <2>1, <2>2
<1>2. PICK x \in String : Written(p) = Cat(<<Open>>, x)
  BY <1>1
<1>3. PICK o : o = <<Open>>
  OBVIOUS
<1>4. o \in String
  BY <1>3, OneToken, TokensFacts
<1>5. Cat(Cat(o, x), v) = Cat(o, Cat(x, v)) /\ Cat(x, v) \in String
  BY <1>4, CatFacts
<1>6. First(Open, Cat(u, Cat(<<Open>>, Cat(x, v)))) = Len(u) + 1
  BY <1>5, FirstFound, TokensFacts
<1> QED  BY <1>2, <1>3, <1>5, <1>6, Zenon

\* Where nothing is found, only text is left.
LEMMA OnlyTextIsLeft ==
  ASSUME template \in Templates, NEW R, NEW G, Scans(R, G), NEW k \in 0..Len(template),
         BetweenPieces(R, G, k), First(Open, remaining) = 0
  PROVE  OnlyText(G)
<1>1. PICK n : n = Len(template)
  OBVIOUS
<1>2. n \in Nat /\ k \in 0..n
  BY <1>1, TemplateFacts
<1>3. \A i \in 0..n : R[i] \in String
  BY <1>1, PartsAreStrings DEF Scans, RightSums
<1>4. PICK u \in String :
           /\ Without(Open, u)
           /\ \/ /\ R[k] = u /\ G[n] = Cat(G[k], u)
                 /\ \A i \in (k+1)..n : template[i] = Text
              \/ \E m \in (k+1)..n :
                   /\ R[k] = Cat(u, Cat(Written(template[m]), R[m]))
                   /\ template[m] # Text
  BY <1>1, NextPiece
<1>5. ASSUME NEW m \in (k+1)..n, R[k] = Cat(u, Cat(Written(template[m]), R[m])),
             template[m] # Text
      PROVE  FALSE
  <2>1. m \in 1..n /\ m \in 0..n
    BY <1>2
  <2>2. R[m] \in String /\ template[m] \in Pieces
    BY <1>1, <1>3, <2>1, TemplateFacts
  <2>3. First(Open, R[k]) = Len(u) + 1
    BY <1>4, <1>5, <2>2, OpensFound
  <2>4. Len(u) \in Nat
    BY LengthIsNat
  <2> QED  BY <2>3, <2>4 DEF BetweenPieces
<1>6. R[k] = u /\ G[n] = Cat(G[k], u) /\ \A i \in (k+1)..n : template[i] = Text
  BY <1>4, <1>5
<1>7. LackedBy(n) = LackedBy(k) /\ LackedBy(n) = Meaningless
  <2>1. n \in k..n
    BY <1>2
  <2> QED  BY <1>1, <1>6, <2>1, LackedOverText, MeaninglessLack
<1> QED  BY <1>1, <1>4, <1>6, <1>7 DEF OnlyText, BetweenPieces

-----------------------------------------------------------------------------
(* The steps of the scan                                                   *)

\* Complete is taken when only text is left, and copies it.
LEMMA CompleteScan ==
  ASSUME ScanInv, Complete
  PROVE  ScanInv'
<1>1. PICK R, G : /\ Scans(R, G)
                  /\ OnlyText(G) \/ \E k \in 0..Len(template) : BetweenPieces(R, G, k)
  BY DEF ScanInv, Complete
<1>2. OnlyText(G)
  BY <1>1, OnlyTextIsLeft DEF ScanInv, Complete
<1>3. missing' = Meaningless /\ (missing' = {} => output' = G[Len(template)])
  BY <1>2 DEF OnlyText, Complete, Cat
<1>4. UNCHANGED <<template, input, provided>>
  BY DEF Complete
<1>5. verdict' \in {"missing", "resolved"} /\ (verdict' = "resolved" => missing' = {})
  BY DEF Complete
<1>6. Scans(R, G)' /\ Meaningless' = Meaningless
  BY <1>1, <1>4, SameTemplate
<1> QED  BY <1>3, <1>4, <1>5, <1>6 DEF ScanInv

\* A ${ that is found is the beginning of the next piece that is not text.
LEMMA FoundPiece ==
  ASSUME ScanInv, verdict = "scanning", First(Open, remaining) # 0
  PROVE  \E R, G, k, m, u :
            /\ Scans(R, G)
            /\ k \in 0..Len(template) /\ m \in (k+1)..Len(template)
            /\ BetweenPieces(R, G, k)
            /\ u \in String /\ Without(Open, u)
            /\ remaining = Cat(u, Cat(Written(template[m]), R[m]))
            /\ G[m-1] = Cat(G[k], u)
            /\ template[m] # Text
            /\ missing = LackedBy(m-1)
<1>1. PICK R, G : /\ Scans(R, G)
                  /\ OnlyText(G) \/ \E k \in 0..Len(template) : BetweenPieces(R, G, k)
  BY DEF ScanInv
<1>2. template \in Templates
  BY DEF ScanInv
<1>3. ~ OnlyText(G)
  BY FirstNone DEF OnlyText
<1>4. PICK k \in 0..Len(template) : BetweenPieces(R, G, k)
  BY <1>1, <1>3
<1>5. PICK n : n = Len(template)
  OBVIOUS
<1>6. n \in Nat /\ k \in 0..n
  BY <1>2, <1>5, TemplateFacts
<1>7. PICK u \in String :
           /\ Without(Open, u)
           /\ \/ /\ R[k] = u /\ G[n] = Cat(G[k], u)
                 /\ \A i \in (k+1)..n : template[i] = Text
              \/ \E m \in (k+1)..n :
                   /\ R[k] = Cat(u, Cat(Written(template[m]), R[m]))
                   /\ G[m-1] = Cat(G[k], u)
                   /\ template[m] # Text /\ \A i \in (k+1)..(m-1) : template[i] = Text
  BY <1>1, <1>2, <1>5, NextPiece
<1>8. R[k] # u
  BY <1>4, <1>7, FirstNone DEF BetweenPieces
<1>9. PICK m \in (k+1)..n :
                   /\ R[k] = Cat(u, Cat(Written(template[m]), R[m]))
                   /\ G[m-1] = Cat(G[k], u)
                   /\ template[m] # Text /\ \A i \in (k+1)..(m-1) : template[i] = Text
  BY <1>7, <1>8
<1>10. m - 1 \in k..n
  BY <1>6
<1>11. LackedBy(m-1) = LackedBy(k)
  BY <1>2, <1>5, <1>9, <1>10, LackedOverText
<1> QED  BY <1>1, <1>4, <1>5, <1>7, <1>9, <1>11 DEF BetweenPieces

\* NotClosed is taken at an unclosed ${ only, after which only text is left.
LEMMA NotClosedScan ==
  ASSUME ScanInv, NotClosed
  PROVE  ScanInv'
<1>1. UNCHANGED <<template, input, provided, missing, verdict>> /\ verdict = "scanning"
      /\ First(Open, remaining) # 0
  BY DEF NotClosed
<1>2. PICK R, G, k, m, u :
            /\ Scans(R, G)
            /\ k \in 0..Len(template) /\ m \in (k+1)..Len(template)
            /\ BetweenPieces(R, G, k)
            /\ u \in String /\ Without(Open, u)
            /\ remaining = Cat(u, Cat(Written(template[m]), R[m]))
            /\ G[m-1] = Cat(G[k], u)
            /\ template[m] # Text
            /\ missing = LackedBy(m-1)
  BY <1>1, FoundPiece
<1>3. template \in Templates
  BY DEF ScanInv
<1>4. PICK n : n = Len(template)
  OBVIOUS
<1>5. n \in Nat /\ k \in 0..n /\ m \in 1..n /\ m \in 0..n
  BY <1>2, <1>3, <1>4, TemplateFacts
<1>6. /\ \A i \in 0..n : R[i] \in String /\ G[i] \in String
      /\ R[n] = <<>>
      /\ G[m] = Cat(G[m-1], Meaning(template[m]))
  BY <1>2, <1>3, <1>4, <1>5, PartsAreStrings DEF Scans, RightSums, LeftSums
<1>7. template[m] \in Pieces /\ R[m] \in String
  BY <1>3, <1>4, <1>5, <1>6, TemplateFacts
<1>8. template[m] = Unclosed
  <2>1. SUFFICES ASSUME template[m] # Unclosed  PROVE FALSE
    OBVIOUS
  <2>2. PICK c \in String : Written(template[m]) = Braces(c) /\ Without(Close, c)
    BY <1>2, <1>7, <2>1, ParseReads
  <2>3. PICK v, q : v = R[m] /\ q = Cat(u, Cat(Braces(c), v))
    OBVIOUS
  <2>4. SeenAt(q, u, c, v)
    BY <1>2, <1>7, <2>2, <2>3, FoundBraces
  <2>5. q = remaining
    BY <1>2, <2>2, <2>3
  <2> QED  BY <2>4, <2>5 DEF NotClosed, SeenAt
<1>9. m = n
  BY <1>3, <1>4, <1>5, <1>8, TemplateFacts
<1>10. remaining = Cat(u, Written(Unclosed))
  <2>1. Written(Unclosed) \in String
    BY <1>7, <1>8, WrittenIsString
  <2>2. R[m] = <<>> /\ Cat(Written(Unclosed), <<>>) = Written(Unclosed)
    BY <1>6, <1>9, <2>1, CatFacts
  <2> QED  BY <1>2, <1>8, <2>2, Zenon
<1>11. remaining' = <<"_">> /\ output' = Cat(output, Cat(u, <<Open>>))
  <2>1. PICK q : q = remaining
    OBVIOUS
  <2>2. /\ First(Open, q) = Len(u) + 1
        /\ SubSeq(q, (Len(u) + 1) + 1, Len(q)) = <<"_">>
        /\ SubSeq(q, 1, Len(u) + 1) = Cat(u, <<Open>>)
    BY <1>2, <1>10, <2>1, FoundUnclosed
  <2>3. /\ remaining' = SubSeq(q, First(Open, q) + 1, Len(q))
        /\ output' = Cat(output, SubSeq(q, 1, First(Open, q)))
    BY <2>1, Zenon DEF NotClosed, Cat
  <2> QED  BY <2>2, <2>3, Zenon
<1>12. remaining' \in String /\ Without(Open, remaining')
  <2>1. <<"_">> \in String /\ <<"_">>[1] = "_"
    BY OneToken, TokensFacts
  <2>2. Len(<<"_">>) = 1
    BY OneToken, TokensFacts
  <2>3. PICK x : x = remaining'
    OBVIOUS
  <2>4. x \in String /\ x[1] = "_"
    BY <1>11, <2>1, <2>3, Zenon
  <2>5. Len(x) = 1
    BY <1>11, <2>2, <2>3, Zenon
  <2>6. \A i \in 1..Len(x) : i = 1
    BY <2>5
  <2>7. Without(Open, x)
    BY <2>4, <2>6, TokensFacts DEF Without
  <2> QED  BY <2>3, <2>4, <2>7, Zenon
<1>13. missing' = Meaningless
  <2>1. LackedBy(m) = LackedBy(m-1)
    BY <1>3, <1>4, <1>5, <1>8, LackedOne, TextLacksNothing
  <2>2. LackedBy(n) = Meaningless
    BY <1>3, <1>4, MeaninglessLack
  <2> QED  BY <1>1, <1>2, <1>9, <2>1, <2>2
<1>14. ASSUME missing' = {}  PROVE Cat(output', remaining') = G[n]
  <2>1. output = G[k] /\ G[k] \in String
    BY <1>1, <1>2, <1>5, <1>6, <1>14 DEF BetweenPieces
  <2>2. G[n] = Cat(Cat(G[k], u), Written(Unclosed))
    BY <1>2, <1>6, <1>8, <1>9, TextWritten
  <2>3. PICK o, e : o = <<Open>> /\ e = <<"_">>
    OBVIOUS
  <2>4. o \in String /\ e \in String
    BY <2>3, OneToken, TokensFacts
  <2>5. Written(Unclosed) = Cat(o, e)
    <3>1. Written(Unclosed) = Cat(<<Open>>, <<"_">>)
      BY Pair, TokensFacts DEF Written, Unclosed
    <3> QED  BY <2>3, <3>1, Zenon
  <2>6. Cat(Cat(G[k], Cat(u, o)), e) = Cat(Cat(G[k], u), Cat(o, e))
    <3>1. Cat(u, o) \in String /\ Cat(o, e) \in String
      BY <1>2, <2>4, CatFacts
    <3>2. Cat(Cat(G[k], Cat(u, o)), e) = Cat(G[k], Cat(Cat(u, o), e))
      BY <1>2, <2>1, <2>4, <3>1, CatAssociates, Zenon
    <3>3. Cat(Cat(u, o), e) = Cat(u, Cat(o, e))
      BY <1>2, <2>4, CatFacts
    <3>4. Cat(G[k], Cat(u, Cat(o, e))) = Cat(Cat(G[k], u), Cat(o, e))
      BY <1>2, <2>1, <3>1, CatFacts
    <3> QED  BY <3>2, <3>3, <3>4
  <2> QED  BY <1>11, <2>1, <2>2, <2>3, <2>5, <2>6, Zenon
<1>15. Scans(R, G)' /\ Meaningless' = Meaningless
  BY <1>1, <1>2, SameTemplate
<1>16. OnlyText(G)'
  BY <1>1, <1>4, <1>12, <1>13, <1>14, <1>15 DEF OnlyText
<1> QED  BY <1>1, <1>15, <1>16 DEF ScanInv

\* What Variable reads of a piece between braces, and what it leaves.
LEMMA ReadBraces ==
  ASSUME NEW u \in String, Without(Open, u), NEW c \in String, Without(Close, c),
         NEW v \in String, remaining = Cat(u, Cat(Braces(c), v)), Variable
  PROVE  /\ Parse(c) = Malformed => verdict' = "malformed"
         /\ Parse(c) # Malformed =>
              /\ verdict' = verdict
              /\ remaining' = v
              /\ output' = Cat(Cat(output, u),
                               IF Known(Parse(c)) THEN Value(Parse(c)) ELSE <<>>)
              /\ missing' = missing \cup (IF Known(Parse(c)) THEN {} ELSE {Parse(c)})
<1>1. PICK q : q = remaining
  OBVIOUS
<1>2. SeenAt(q, u, c, v)
  <2>1. q = Cat(u, Cat(Braces(c), v))
    BY <1>1
  <2> QED  BY <2>1, FoundBraces
<1>3. Expression(First(Open, q)) = c
  BY <1>1, <1>2, Zenon DEF Expression, SeenAt
<1>4. SubSeq(q, After(First(Open, q), c), Len(q)) = v
  BY <1>2, Zenon DEF After, SeenAt
<1>5. SubSeq(q, 1, First(Open, q) - 1) = u
  BY <1>2, Zenon DEF SeenAt
<1>6. /\ Parse(c) = Malformed => verdict' = "malformed"
      /\ Parse(c) # Malformed =>
           /\ verdict' = verdict
           /\ remaining' = SubSeq(q, After(First(Open, q), c), Len(q))
           /\ output' = Cat(Cat(output, SubSeq(q, 1, First(Open, q) - 1)),
                            IF Known(Parse(c)) THEN Value(Parse(c)) ELSE <<>>)
           /\ missing' = missing \cup (IF Known(Parse(c)) THEN {} ELSE {Parse(c)})
  BY <1>1, <1>3, Zenon DEF Variable, Cat
<1> QED  BY <1>4, <1>5, <1>6, Zenon

\* Variable goes past one expression, or refuses it for good.
LEMMA VariableScan ==
  ASSUME ScanInv, Variable
  PROVE  ScanInv'
<1>1. verdict = "scanning" /\ First(Open, remaining) # 0
      /\ UNCHANGED <<template, input, provided>>
  BY DEF Variable
<1>2. PICK R, G, k, m, u :
            /\ Scans(R, G)
            /\ k \in 0..Len(template) /\ m \in (k+1)..Len(template)
            /\ BetweenPieces(R, G, k)
            /\ u \in String /\ Without(Open, u)
            /\ remaining = Cat(u, Cat(Written(template[m]), R[m]))
            /\ G[m-1] = Cat(G[k], u)
            /\ template[m] # Text
            /\ missing = LackedBy(m-1)
  BY <1>1, FoundPiece
<1>3. template \in Templates
  BY DEF ScanInv
<1>4. PICK n : n = Len(template)
  OBVIOUS
<1>5. n \in Nat /\ k \in 0..n /\ m \in 1..n /\ m \in 0..n
  BY <1>2, <1>3, <1>4, TemplateFacts
<1>6. /\ \A i \in 0..n : R[i] \in String /\ G[i] \in String
      /\ R[n] = <<>>
      /\ G[m] = Cat(G[m-1], Meaning(template[m]))
  BY <1>2, <1>3, <1>4, <1>5, PartsAreStrings DEF Scans, RightSums, LeftSums
<1>7. PICK p : p = template[m]
  OBVIOUS
<1>8. p \in Pieces /\ p # Text /\ (p = Unclosed => m = n)
  BY <1>2, <1>3, <1>4, <1>5, <1>7, TemplateFacts
<1>9. p # Unclosed
  <2>1. SUFFICES ASSUME p = Unclosed  PROVE FALSE
    OBVIOUS
  <2>2. Written(Unclosed) \in String
    BY <1>8, <2>1, WrittenIsString
  <2>3. remaining = Cat(u, Written(Unclosed))
    <3>1. R[m] = <<>>
      BY <1>6, <1>8, <2>1
    <3>2. Cat(Written(Unclosed), <<>>) = Written(Unclosed)
      BY <2>2, CatFacts
    <3> QED  BY <1>2, <1>7, <2>1, <3>1, <3>2, Zenon
  <2>4. PICK q : q = remaining
    OBVIOUS
  <2>5. First(Open, q) = Len(u) + 1 /\ \A i \in (Len(u) + 1)..Len(q) : q[i] # Close
    BY <1>2, <2>3, <2>4, FoundUnclosed
  <2>6. \E i \in First(Open, q)..Len(q) : q[i] = Close
    BY <2>4 DEF Variable
  <2> QED  BY <2>5, <2>6
<1>10. PICK c \in String :
            /\ Written(p) = Braces(c) /\ Without(Close, c)
            /\ \/ Parse(c) = p
               \/ Parse(c) = Malformed /\ (p = Malformed \/ Dotted(p))
  BY <1>8, <1>9, ParseReads
<1>11. /\ Parse(c) = Malformed => verdict' = "malformed"
       /\ Parse(c) # Malformed =>
            /\ verdict' = verdict
            /\ remaining' = R[m]
            /\ output' = Cat(Cat(output, u),
                             IF Known(Parse(c)) THEN Value(Parse(c)) ELSE <<>>)
            /\ missing' = missing \cup (IF Known(Parse(c)) THEN {} ELSE {Parse(c)})
  <2>1. R[m] \in String /\ remaining = Cat(u, Cat(Braces(c), R[m]))
    BY <1>2, <1>5, <1>6, <1>7, <1>10
  <2>2. PICK v : v = R[m]
    OBVIOUS
  <2>3. v \in String /\ remaining = Cat(u, Cat(Braces(c), v))
    BY <2>1, <2>2
  <2> QED  BY <1>2, <1>10, <2>2, <2>3, ReadBraces
<1>12. Scans(R, G)' /\ Meaningless' = Meaningless /\ LackedBy(m)' = LackedBy(m)
  BY <1>1, <1>2, SameTemplate
<1>13. m \in 0..Len(template)'
  BY <1>1, <1>4, <1>5
<1>14. CASE Parse(c) = Malformed
  <2>1. p = Malformed \/ Dotted(p)
    BY <1>10, <1>14
  <2>2. verdict' = "malformed" /\ m \in DOMAIN template /\ template' = template
    BY <1>1, <1>3, <1>4, <1>5, <1>11, <1>14, TemplateFacts
  <2> QED  BY <1>1, <1>7, <1>12, <2>1, <2>2 DEF ScanInv
<1>15. CASE Parse(c) # Malformed
  <2>1. Parse(c) = p /\ p # Malformed
    BY <1>10, <1>15
  <2>2. (Known(p) <=> ~ Lacks(p)) /\ (Known(p) => Meaning(p) = Value(p))
    BY <1>8, <1>9, <2>1, KnownFacts
  <2>3. missing' = LackedBy(m)
    <3>1. LackedBy(m) = LackedBy(m-1) \cup (IF Lacks(p) THEN {p} ELSE {})
      BY <1>3, <1>4, <1>5, <1>7, LackedOne
    <3>2. missing' = missing \cup (IF Known(p) THEN {} ELSE {p})
      BY <1>11, <2>1
    <3> QED  BY <1>2, <2>2, <3>1, <3>2
  <2>4. ASSUME missing' = {}  PROVE output' = G[m]
    <3>1. missing' = missing \cup (IF Known(p) THEN {} ELSE {p})
      BY <1>11, <2>1
    <3>2. Known(p) /\ missing = {}
      BY <2>4, <3>1
    <3>3. output = G[k]
      BY <1>2, <3>2 DEF BetweenPieces
    <3>4. output' = Cat(Cat(output, u), Meaning(p))
      BY <1>11, <1>15, <2>1, <2>2, <3>2
    <3> QED  BY <1>2, <1>6, <1>7, <3>3, <3>4
  <2>5. remaining' = R[m] /\ verdict' = "scanning"
    BY <1>1, <1>11, <1>15
  <2>6. BetweenPieces(R, G, m)'
    BY <1>12, <2>3, <2>4, <2>5 DEF BetweenPieces
  <2> QED  BY <1>1, <1>12, <1>13, <2>5, <2>6 DEF ScanInv
<1> QED  BY <1>14, <1>15

\* A stuttering step changes nothing ScanInv speaks of.
LEMMA StillScan ==
  ASSUME ScanInv, UNCHANGED templateVars
  PROVE  ScanInv'
<1>1. UNCHANGED <<template, input, provided, remaining, output, missing, verdict>>
  BY DEF templateVars
<1>2. PICK R, G : /\ Scans(R, G)
                  /\ verdict = "scanning" =>
                      OnlyText(G) \/ \E k \in 0..Len(template) : BetweenPieces(R, G, k)
                  /\ verdict = "resolved" => output = G[Len(template)]
  BY DEF ScanInv
<1>3. /\ Scans(R, G)' /\ Meaningless' = Meaningless
      /\ \A k : LackedBy(k)' = LackedBy(k)
  BY <1>1, <1>2, SameTemplate
<1>4. OnlyText(G)' = OnlyText(G)
  BY <1>1, <1>3 DEF OnlyText
<1>5. \A k : BetweenPieces(R, G, k)' = BetweenPieces(R, G, k)
  BY <1>1, <1>3 DEF BetweenPieces
<1> QED  BY <1>1, <1>2, <1>3, <1>4, <1>5 DEF ScanInv

\* TemplateSpec keeps to ScanInv.
LEMMA ScanInvariance == TemplateSpec => []ScanInv
<1>1. ScanInv /\ [TemplateNext]_templateVars => ScanInv'
  BY CompleteScan, VariableScan, NotClosedScan, StillScan DEF TemplateNext
<1> QED  BY <1>1, ScanInit, PTL DEF TemplateSpec

-----------------------------------------------------------------------------
(* The results                                                             *)

(* The string resolve_string returns (harness-config/src/resolver.rs) is   *)
(* the template with every ${...} that find_variables finds replaced by    *)
(* the value of its variable, its default or the address of its service:   *)
(* however many pieces there are, the offsets the scan cuts at lose,       *)
(* repeat or move nothing of the text between them.                        *)
THEOREM ResolvedValueIsMeant == TemplateSpec => []ResolvedIsMeant
<1>1. ScanInv => ResolvedIsMeant
  <2>1. SUFFICES ASSUME ScanInv, verdict = "resolved"
                 PROVE  output = FlattenSeq(Meanings)
    BY DEF ResolvedIsMeant, Meanings
  <2>2. PICK R, G : Scans(R, G) /\ output = G[Len(template)]
    BY <2>1 DEF ScanInv
  <2>3. Meanings \in Seq(String) /\ Len(Meanings) = Len(template)
    BY <2>1, PartsAreStrings DEF ScanInv
  <2> QED  BY <2>2, <2>3, FlattenIsSum DEF Scans
<1> QED  BY <1>1, ScanInvariance, PTL

(* When resolve_string has looked at the whole template, its errors name   *)
(* exactly the variables without a default that the environment lacks and  *)
(* the services that have no address.                                      *)
THEOREM MissingNamesAreMissing == TemplateSpec => []MissingIsMissing
<1>1. ScanInv => MissingIsMissing
  BY DEF ScanInv, MissingIsMissing
<1> QED  BY <1>1, ScanInvariance, PTL

(* parse_variable_expr refuses an expression that find_variables cut out   *)
(* only if one is written in the template that is neither a variable nor a *)
(* reference, or has a dot in its default: text, an unclosed ${ and a      *)
(* default of ${ are never taken for part of an expression.                *)
THEOREM GrammarIsAccepted == TemplateSpec => []WellFormedAccepted
<1>1. ScanInv => WellFormedAccepted
  BY DEF ScanInv, WellFormedAccepted
<1> QED  BY <1>1, ScanInvariance, PTL
=============================================================================
