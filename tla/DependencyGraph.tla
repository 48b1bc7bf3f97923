--------------------------- MODULE DependencyGraph ---------------------------
(***************************************************************************)
(* The dependency relation of a configuration (harness/src/commands/       *)
(* dependencies.rs).  A configuration names Services; each lists the names *)
(* it depends on, some of which may not be services at all.  What the two  *)
(* sorts of that file promise is IsOrder: DependencyOrder shows that they  *)
(* do, CommandLine only relies on it.                                      *)
(***************************************************************************)
EXTENDS Integers, Sequences

CONSTANTS Services,  \* the keys of config.services
          Names      \* every name a configuration or a command may mention

ASSUME NamesAssumption == Services \subseteq Names

\* What a service depends on; a name that is no service depends on nothing.
Dependencies == {d \in [Names -> SUBSET Names] :
                   \A n \in Names \ Services : d[n] = {}}

(* build_dependency_graph: an edge from a service to each dependent of it. *)
M_Dependents(deps) == deps
Dependents(deps) ==
    [n \in Names |-> {s \in Services : n \in Services /\ n \in deps[s]}]

Closed(S, edges) == \A s \in S : edges[s] \subseteq S

\* collect_dependencies and collect_dependents: everything to be reached.
M_Closure(request, edges) == request \cup UNION {edges[r] : r \in request}
Closure(request, edges) ==
    {n \in Names : \A S \in SUBSET Names :
        request \subseteq S /\ Closed(S, edges) => n \in S}

\* get_affected_services
Affected(request, deps) == Closure(request, Dependents(deps)) \ request

Elements(q) == {q[i] : i \in DOMAIN q}
Before(q, i) == {q[k] : k \in 1..(i - 1)}

(* A sort of what request asks for: each member of its closure once, after *)
(* everything its edges lead to.                                           *)
IsOrder(q, request, edges) ==
    /\ \A i, k \in DOMAIN q : q[i] = q[k] => i = k
    /\ Elements(q) = Closure(request, edges)
    /\ \A i \in DOMAIN q : edges[q[i]] \subseteq Before(q, i)
=============================================================================
