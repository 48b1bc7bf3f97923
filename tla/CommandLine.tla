----------------------------- MODULE CommandLine -----------------------------
(***************************************************************************)
(* One invocation of harness start or harness stop (harness/src/commands/  *)
(* start.rs, stop.rs) against the daemon.  The daemon serves other         *)
(* invocations and its services change on their own, so each answer is     *)
(* anything a daemon may say at that moment, and none need ever come:      *)
(* send_request (harness/src/client/mod.rs) awaits it without a limit.     *)
(* The order in which the services are taken is any IsOrder (see           *)
(* DependencyOrder).                                                       *)
(***************************************************************************)
EXTENDS DependencyGraph, FiniteSets

CONSTANT Configurations     \* what the configuration file may hold

Reference == [service : Services, what : {"address", "port"}]

(* deps as in DependencyGraph; refs: the references in a service's         *)
(* environment; unset: the services whose environment names a variable that*)
(* is not set where the command runs and has no default; checked: the      *)
(* services with a health check.  validate_config lets no dependency on and*)
(* no reference to an unknown service through; of an unset variable it only*)
(* warns.                                                                  *)
ASSUME ConfigurationsAssumption ==
    Configurations \subseteq
         [deps : {d \in Dependencies : \A s \in Services : d[s] \subseteq Services},
          refs : [Services -> SUBSET Reference],
          unset : SUBSET Services,
          checked : SUBSET Services]

\* A configuration file and a command line are finite.
ASSUME FiniteAssumption == IsFiniteSet(Names)

VARIABLES
    config,                 \* the parsed configuration
    kind, request,          \* "start" or "stop", and the services named
    force, wait,            \* the options --force and --timeout of stop
    at,                     \* where the invocation is; at last its exit code
    running,                \* running_services of stop
    order, todo,            \* ordered_services, and what the loop has left
    done,                   \* started_services; of stop, what answered Success
    failures,               \* the services in failures
    context,                \* what the resolution context of start knows
    late                    \* the wait for the service has passed its timeout

vars == <<config, kind, request, force, wait, at, running, order, todo, done,
          failures, context, late>>
invocation == <<config, kind, force, wait>>
progress == <<done, failures, context, late>>

Init ==
    /\ config \in Configurations
    /\ kind \in {"start", "stop"}
    /\ request \in SUBSET Names
    /\ force \in BOOLEAN /\ wait \in BOOLEAN
    /\ kind = "start" => ~force /\ ~wait
    /\ at = "begin"
    /\ running = {} /\ order = <<>> /\ todo = <<>>
    /\ done = {} /\ failures = {} /\ context = {} /\ late = FALSE

-----------------------------------------------------------------------------
M_Edges == Dependents(config.deps)
Edges == IF kind = "start" THEN config.deps ELSE Dependents(config.deps)
Orders(asked) ==
    LET n == Cardinality(Closure(asked, Edges))
    IN  {q \in [1..n -> Closure(asked, Edges)] : IsOrder(q, asked, Edges)}
Asked == IF kind = "start" /\ request = {} THEN Services ELSE request

Current == Head(todo)
InLoop == at = "loop" /\ todo # <<>>

(* connect_to_daemon; stop then asks for the list of services.             *)
Connect ==
    /\ at = "begin"
    /\ at' = IF kind = "start" THEN "sort" ELSE "list"
    /\ UNCHANGED <<invocation, request, running, order, todo, progress>>

\* The daemon cannot be reached, or answers with something that is no list.
Unreachable ==
    /\ at \in {"begin", "list"}
    /\ at' = "error"
    /\ UNCHANGED <<invocation, request, running, order, todo, progress>>

M_Kept(n) == kind = "stop" => n \in request
Kept(n) == kind = "stop" => n \in running

\* q without what is not kept, the rest in its order: as q lists nothing twice, this
\* is the one sequence filter returns, said without recursion along q.
Retained(q) ==
    LET S == {n \in Elements(q) : Kept(n)}
    IN  {r \in [1..Cardinality(S) -> S] :
           /\ Elements(r) = S
           /\ \A i, k \in DOMAIN r : i < k =>
                \E a, b \in DOMAIN q : a < b /\ r[i] = q[a] /\ r[k] = q[b]}

(* The sort; with a cycle there is no order.  stop then leaves out what    *)
(* was not running.                                                        *)
Sort ==
    /\ at = "sort"
    /\ IF Orders(Asked) = {} THEN at' = "error" /\ UNCHANGED <<order, todo>>
       ELSE /\ at' = "loop"
            /\ \E q \in Orders(Asked) : order' \in Retained(q)
            /\ todo' = order'
    /\ UNCHANGED <<invocation, request, running, progress>>

(* A service that is not in the configuration ends start at once; stop     *)
(* leaves it alone.                                                        *)
NotConfigured ==
    /\ InLoop
    /\ Current \notin Services
    /\ IF kind = "start" THEN at' = "error" /\ UNCHANGED todo
       ELSE todo' = Tail(todo) /\ UNCHANGED at
    /\ UNCHANGED <<invocation, request, running, order, progress>>

Resolves(s) ==
    kind = "start" => config.refs[s] \subseteq context /\ s \notin config.unset

(* convert_to_orchestrator_with_context fails for a reference or a variable*)
(* that has no value: start goes on to the next service.                   *)
ConversionFails ==
    /\ InLoop
    /\ Current \in Services /\ ~Resolves(Current)
    /\ todo' = Tail(todo)
    /\ failures' = failures \cup {Current}
    /\ UNCHANGED <<invocation, request, at, running, order, done, context, late>>

\* The request for the current service is sent; its answer is awaited.
Send ==
    /\ InLoop
    /\ Current \in Services /\ Resolves(Current)
    /\ at' = "sent"
    /\ UNCHANGED <<invocation, request, running, order, todo, progress>>

\* What the daemon's answer tells of the service: a port only if it has one.
M_Learned(s, port) == {[service |-> s, what |-> "port"]}
Learned(s, port) == {[service |-> s, what |-> w] :
                       w \in {"address"} \cup (IF port THEN {"port"} ELSE {})}

Awaited(s) == IF kind = "start" THEN s \in config.checked ELSE wait

(* The daemon answers that it has started the service (ServiceStarted, or  *)
(* Success from an older one, without a port) or stopped it (Success).     *)
Succeeds ==
    /\ at = "sent"
    /\ todo' = Tail(todo)
    /\ done' = done \cup {Current}
    /\ \E port \in BOOLEAN :
         context' = IF kind = "start" THEN context \cup Learned(Current, port)
                    ELSE context
    /\ at' = IF Awaited(Current) THEN "poll" ELSE "loop"
    /\ late' = FALSE
    /\ UNCHANGED <<invocation, request, running, order, failures>>

\* After Error, or a failed connection, the loop ends unless forced.
Breaks == ~force

Refused ==
    /\ at = "sent"
    /\ todo' = IF Breaks THEN todo ELSE Tail(todo)
    /\ failures' = failures \cup {Current}
    /\ at' = IF Breaks THEN "summary" ELSE "loop"
    /\ UNCHANGED <<invocation, request, running, order, done, context, late>>

\* An answer of another kind is a failure after which the loop goes on.
Unexpected ==
    /\ at = "sent"
    /\ at' = "loop"
    /\ todo' = Tail(todo)
    /\ failures' = failures \cup {Current}
    /\ UNCHANGED <<invocation, request, running, order, done, context, late>>

\* startup_timeout has a default, --timeout is what made stop wait.
M_HasTimeout == kind = "stop"
HasTimeout == kind = "start" \/ wait

\* The time that the wait may take passes.
Deadline ==
    /\ at \in {"poll", "status"} /\ HasTimeout /\ ~late
    /\ late' = TRUE
    /\ UNCHANGED <<invocation, request, at, running, order, todo, done, failures, context>>

(* The wait: the clock is looked at, and if there is time GetServiceStatus *)
(* is sent and its answer awaited, whatever the clock says by then.        *)
TimesOut ==
    /\ at = "poll" /\ late
    /\ at' = "loop"
    /\ UNCHANGED <<invocation, request, running, order, todo, progress>>

AskStatus ==
    /\ at = "poll" /\ ~late
    /\ at' = "status"
    /\ UNCHANGED <<invocation, request, running, order, todo, progress>>

(* A status that settles the matter, or an answer that is no status, ends  *)
(* the wait; after any other the invocation sleeps for 500 ms.             *)
Answered ==
    /\ at = "status"
    /\ at' \in {"loop", "poll"}
    /\ UNCHANGED <<invocation, request, running, order, todo, progress>>

M_Code == "ok"
Code == IF failures = {} THEN "ok" ELSE "error"

\* The summary and the exit code.
Finish ==
    /\ at = "summary" \/ (at = "loop" /\ todo = <<>>)
    /\ at' = Code
    /\ UNCHANGED <<invocation, request, running, order, todo, progress>>

(* stop.rs: the daemon's list of services, and what is to be stopped.  If  *)
(* others depend on it the user is asked, unless forced.                   *)
List ==
    /\ at = "list"
    /\ running' \in SUBSET Names
    /\ LET stop == IF request = {} THEN running' ELSE request \cap running' IN
         /\ request' = stop
         /\ at' = IF stop = {} THEN "ok"
                  ELSE IF Affected(stop, config.deps) # {} /\ ~force THEN "ask"
                  ELSE "sort"
    /\ UNCHANGED <<invocation, order, todo, progress>>

\* The user says no, or yes, or the answer cannot be read.
Ask ==
    /\ at = "ask"
    /\ at' \in {"ok", "sort", "error"}
    /\ UNCHANGED <<invocation, request, running, order, todo, progress>>

\* What an invocation does by itself, and what the daemon, the connection to
\* it and the user do.
OwnStep == \/ Sort \/ NotConfigured \/ ConversionFails \/ Send
           \/ TimesOut \/ AskStatus \/ Finish
Outside == \/ Connect \/ Unreachable \/ List \/ Succeeds \/ Refused
           \/ Unexpected \/ Answered \/ Ask

Next == OwnStep \/ Outside \/ Deadline

Spec == Init /\ [][Next]_vars

\* The task runs and time passes; nothing makes anybody answer.
FairSpec == Spec /\ WF_vars(OwnStep) /\ WF_vars(Deadline)

-----------------------------------------------------------------------------
(* start.rs takes a service only when each of its dependencies has been    *)
(* started by the same invocation, except those it went on after (a        *)
(* configuration that could not be converted, an answer of another kind).  *)
DependenciesFirst ==
    kind = "start" =>
      \A s \in done : config.deps[s] \subseteq done \cup failures

(* A reference to the address of a service one depends on, directly or     *)
(* not, has a value when it is needed: a conversion fails only for a port, *)
(* for a service that is no dependency, after another failure, or for a    *)
(* variable that is not set.                                               *)
Below(s) == Closure(config.deps[s], config.deps)
ReferencesResolve ==
    (kind = "start" /\ InLoop /\ Current \in Services) =>
      \A r \in config.refs[Current] \ context :
        \/ r.what = "port"
        \/ r.service \notin Below(Current)
        \/ failures \cap Below(Current) # {}

(* stop.rs never stops a service before every dependent that was running   *)
(* in its list has been stopped or has failed to.                          *)
DependentsFirst ==
    kind = "stop" =>
      \A s \in done :
        Affected({s}, config.deps) \cap running \subseteq done \cup failures

(* Exit code 0 means what it says: start has started the whole closure of  *)
(* its request; stop has stopped every configured service that was asked   *)
(* for and every dependent of it that was running, or the user said no.    *)
OkMeansDone ==
    (at = "ok" /\ order # <<>>) =>
      done = IF kind = "start" THEN Closure(Asked, config.deps)
             ELSE Services \cap running
                  \cap Closure(request, Dependents(config.deps))

(* An invocation comes to an end, or one thing it awaits never comes: the  *)
(* connection, the list, its user, or one answer.  A service that never    *)
(* gets healthy, or never stops, does not hold it up: as long as the daemon*)
(* answers, the wait for it ends.                                          *)
Awaits == {"begin", "list", "ask", "sent", "status"}
CommandEnds ==
    <>(at \in {"ok", "error"}) \/ \E p \in Awaits : <>[](at = p)

(* Does not hold (stop.rs:126): stop --timeout waits "up to 30 seconds"    *)
(* (harness/README.md).  The clock is not looked at while an answer is     *)
(* awaited, so a daemon that does not answer is waited for without end.    *)
Waiting == kind = "stop" /\ at \in {"poll", "status"}
WaitIsBounded == Waiting ~> ~Waiting

(* Does not hold (stop.rs:173, failures are subtracted from the length):   *)
(* the count stop.rs prints as "services stopped successfully" is the      *)
(* number of services stopped.  After a failure that ends the loop those   *)
(* not attempted are counted too.                                          *)
CountIsTrue ==
    (kind = "stop" /\ at \in {"ok", "error"} /\ order # <<>>) =>
      Len(order) - Cardinality(failures) = Cardinality(done)
=============================================================================
