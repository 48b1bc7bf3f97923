--------------------------- MODULE DependencyOrder ---------------------------
(***************************************************************************)
(* topological_sort and reverse_topological_sort (harness/src/commands/    *)
(* dependencies.rs), one step per call and return of the depth-first       *)
(* search.  The sets of the code are hash sets: whatever is taken out of   *)
(* one is taken in any order.                                              *)
(***************************************************************************)
EXTENDS DependencyGraph

VARIABLES
    deps,       \* the dependencies of the configuration
    direction,  \* which of the two sorts runs: "start" or "stop"
    request,    \* the services asked for; none means all
    collected,  \* services_to_start, services_to_stop
    path,       \* the calls of dfs_forward, dfs_reverse under way
    visiting, visited, result,  \* as in the code
    outcome     \* where the sort is: "collecting", "sorting", or its answer

vars == <<deps, direction, request, collected, path, visiting, visited, result,
          outcome>>
search == <<path, visiting, visited, result>>
question == <<deps, direction, request>>

Edges == IF direction = "start" THEN deps ELSE Dependents(deps)
Requested == IF request = {} THEN Services ELSE request
Top == path[Len(path)]

Init ==
    /\ deps \in Dependencies
    /\ direction \in {"start", "stop"}
    /\ request \in SUBSET Names
    /\ collected = IF request = {} THEN Services ELSE {}
    /\ path = <<>> /\ visiting = {} /\ visited = {} /\ result = <<>>
    /\ outcome = IF request = {} THEN "sorting" ELSE "collecting"

-----------------------------------------------------------------------------
\* Only the dependencies are looked up; dependents are services anyway.
Unknown(n) == direction = "start" /\ n \notin Services

\* The next service of the request, when the last one has been followed up.
Include ==
    /\ outcome = "collecting"
    /\ Closed(collected, Edges)
    /\ \E s \in Requested \ collected : collected' = collected \cup {s}
    /\ UNCHANGED <<question, search, outcome>>

Collect ==
    /\ outcome = "collecting"
    /\ \E s \in collected : \E n \in Edges[s] \ collected :
          IF Unknown(n)
          THEN outcome' = "unknown" /\ UNCHANGED collected
          ELSE collected' = collected \cup {n} /\ UNCHANGED outcome
    /\ UNCHANGED <<question, search>>

AllCollected ==
    /\ outcome = "collecting"
    /\ Requested \subseteq collected /\ Closed(collected, Edges)
    /\ outcome' = "sorting"
    /\ UNCHANGED <<question, search, collected>>

Enter(n) ==
    /\ path' = Append(path, n)
    /\ visiting' = visiting \cup {n}
    /\ UNCHANGED <<visited, result>>

\* The outer loop calls the search for a service not yet visited.
Root ==
    /\ outcome = "sorting" /\ path = <<>>
    /\ \E s \in collected \ visited : Enter(s)
    /\ UNCHANGED <<question, collected, outcome>>

M_OnPath(n) == n \in collected
OnPath(n) == n \in visiting

M_Unvisited(n) == Edges[n] \ (visited \cup visiting)
Unvisited(n) == Edges[n] \ visited

\* The search calls itself for a neighbour not yet visited.
Descend ==
    /\ outcome = "sorting" /\ path # <<>>
    /\ \E n \in Unvisited(Top) :
          IF OnPath(n)
          THEN outcome' = "cycle" /\ UNCHANGED search
          ELSE Enter(n) /\ UNCHANGED outcome
    /\ UNCHANGED <<question, collected>>

Unmark(n) == visiting \ {n}

Leave ==
    /\ outcome = "sorting" /\ path # <<>>
    /\ Unvisited(Top) = {}
    /\ path' = SubSeq(path, 1, Len(path) - 1)
    /\ visiting' = Unmark(Top)
    /\ visited' = visited \cup {Top}
    /\ result' = Append(result, Top)
    /\ UNCHANGED <<question, collected, outcome>>

M_AllVisited == visited = collected
AllVisited == collected \subseteq visited

Finish ==
    /\ outcome = "sorting" /\ path = <<>>
    /\ AllVisited
    /\ outcome' = "sorted"
    /\ UNCHANGED <<question, search, collected>>

Next == Include \/ Collect \/ AllCollected \/ Root \/ Descend \/ Leave \/ Finish

Spec == Init /\ [][Next]_vars
FairSpec == Spec /\ WF_vars(Next)

-----------------------------------------------------------------------------
(* The variables stay in their types, and what the code keeps twice agrees:*)
(* visiting is what is on the call stack, visited what is in the result.   *)
TypeOK ==
    /\ deps \in Dependencies
    /\ direction \in {"start", "stop"}
    /\ request \in SUBSET Names
    /\ collected \in SUBSET Names
    /\ path \in Seq(Names) /\ visiting = Elements(path)
    /\ result \in Seq(Names) /\ visited = Elements(result)
    /\ outcome \in {"collecting", "sorting", "sorted", "unknown", "cycle"}

(* What a sort answers is what was asked for with everything it needs (for *)
(* a stop: everything that needs it), each once, and in an order in which  *)
(* start.rs and stop.rs may take them one by one.                          *)
SortedIsOrder == outcome = "sorted" => IsOrder(result, Requested, Edges)

(* "Circular dependency detected" is only said of a configuration with a   *)
(* cycle: the calls under way from the service named to the last one       *)
(* follow dependencies, and so does the way back.                          *)
CycleIsReal ==
    outcome = "cycle" =>
      \E first \in DOMAIN path :
        /\ \A i \in first..(Len(path) - 1) : path[i + 1] \in Edges[path[i]]
        /\ path[first] \in Edges[Top]

(* Every sort answers, whatever the configuration: the recursion cannot    *)
(* run on in a cycle.                                                      *)
Answers == <>(outcome \in {"sorted", "unknown", "cycle"})
=============================================================================
