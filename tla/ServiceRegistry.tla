--------------------------- MODULE ServiceRegistry ---------------------------
(***************************************************************************)
(* service-registry's Registry over its sled backend, with the WebSocket   *)
(* connections that serve it.  Every operation reads the store, writes it, *)
(* flushes it and returns the events for the subscribers; nothing holds    *)
(* these parts together.  Callers are tasks of the embedding program that  *)
(* call the Registry directly, Conns are the tasks of accepted connections *)
(* (each with its socket address); both share the store and the table of   *)
(* subscribers.                                                            *)
(*                                                                         *)
(* With Parallel = FALSE one executor thread runs all tasks and an         *)
(* operation only gives way where it waits for the flush or the socket.    *)
(***************************************************************************)
EXTENDS Naturals, FiniteSets

CONSTANTS
  Names,       \* service names
  Callers,     \* tasks that use the Registry directly
  Conns,       \* WebSocket connections, by peer address
  EventTypes,  \* event types a peer may subscribe to
  None,
  Parallel,    \* TRUE: several executor threads
  Unreliable   \* the connections on which a send may fail

ASSUME RegistryAssumption ==
  /\ Callers \cap Conns = {}
  /\ Parallel \in BOOLEAN
  /\ Unreliable \subseteq Conns

VARIABLES
  store,        \* the services tree: name -> entry
  durable,      \* the part of it that is on disk
  subscribers,  \* Registry.subscribers: address -> event types
  task,         \* where every caller and connection is in its operation
  phase,        \* a connection: new (accepted), open, closed
  local,        \* a connection handler's own set of subscriptions
  writer,       \* history: whose write of a name is the last, while it has no answer
  promised      \* history: {the entry an operation answered that it wrote}, or {} if
                \* the last write of the name has not been answered

vars == <<store, durable, subscribers, task, phase, local, writer, promised>>

Tasks == Callers \cup Conns

ServiceState == {"Registered", "Starting", "Running", "Stopping", "Stopped", "Failed"}
Entry == [state : ServiceState, endpoints : {0, 1}]
ASSUME NoneAssumption == None \notin Names \cup Entry \cup Tasks

Ops == {"register", "update_state", "update_endpoints", "deregister", "add_or_update"}

Task == [pc : {"idle", "read", "write", "flush", "emit", "reply"},
         op : Ops \cup {None}, svc : Names \cup {None},
         new : Entry \cup {None}, seen : Entry \cup {None}]

IdleTask == [pc |-> "idle", op |-> None, svc |-> None, new |-> None, seen |-> None]

NewEntry == [state |-> "Registered", endpoints |-> 0]

Init ==
  /\ store = [n \in Names |-> None]
  /\ durable = [n \in Names |-> None]
  /\ subscribers = [c \in Conns |-> {}]
  /\ task = [t \in Tasks |-> IdleTask]
  /\ phase = [c \in Conns |-> "closed"]
  /\ local = [c \in Conns |-> {}]
  /\ writer = [n \in Names |-> None]
  /\ promised = [n \in Names |-> {}]

-----------------------------------------------------------------------------
(* Scheduling *)

\* The flush completes while its task waits to be polled: "emit" counts as waiting.
\* (M_... stands for a plausible mistake in the operator after it.)
M_Awaiting(t) == task[t].pc \in {"idle", "write", "flush", "emit", "reply"}
Awaiting(t) == task[t].pc \in {"idle", "flush", "emit", "reply"}

MayRun(t) == Parallel \/ \A u \in Tasks \ {t} : Awaiting(u)

At(t, label) == task[t].pc = label /\ MayRun(t)

Goto(t, label) == task' = [task EXCEPT ![t].pc = label]

\* A caller's operation returns; a connection still has to send the response.
Finish(t) ==
  task' = [task EXCEPT ![t] = [IdleTask EXCEPT !.pc = IF t \in Conns THEN "reply" ELSE "idle"]]

-----------------------------------------------------------------------------
(* The operations of Registry *)

\* is_valid_transition
ValidTransition(from, to) ==
  \/ to = "Failed"
  \/ from \in {"Registered", "Stopped", "Failed"} /\ to = "Starting"
  \/ from = "Starting" /\ to = "Running"
  \/ from \in {"Running", "Starting"} /\ to = "Stopping"
  \/ from = "Stopping" /\ to = "Stopped"

\* What an operation finds in the store decides whether it goes on to write:
\* ServiceExists, ServiceNotFound and InvalidStateTransition end it.
M_Accepted(op, found, new) == op = "add_or_update" \/ (op = "register" <=> found = None)
Accepted(op, found, new) ==
  CASE op = "register" -> found = None
    [] op = "update_state" -> found # None /\ ValidTransition(found.state, new.state)
    [] op \in {"update_endpoints", "deregister"} -> found # None
    [] op = "add_or_update" -> TRUE

\* What it then writes: the copy it read, with one part replaced.
Written(op, found, new) ==
  CASE op \in {"register", "add_or_update"} -> new
    [] op = "update_state" -> [found EXCEPT !.state = new.state]
    [] op = "update_endpoints" -> [found EXCEPT !.endpoints = new.endpoints]
    [] op = "deregister" -> None

Begin(t, op, n, new) ==
  task' = [task EXCEPT ![t] = [IdleTask EXCEPT
             !.pc = "read", !.op = op, !.svc = n, !.new = new]]

\* A direct call; an argument carries what the operation uses.
Arguments(op) ==
  CASE op = "register" -> {NewEntry}
    [] op = "update_state" -> [state : ServiceState, endpoints : {0}]
    [] op = "update_endpoints" -> [state : {"Registered"}, endpoints : {0, 1}]
    [] op = "deregister" -> {None}
    [] op = "add_or_update" -> Entry

Call(t, op, n, new) ==
  /\ At(t, "idle")
  /\ Begin(t, op, n, new)
  /\ UNCHANGED <<store, durable, subscribers, phase, local, writer, promised>>

\* backend.get_service and the checks on its result
Read(t) ==
  LET found == store[task[t].svc] IN
  /\ At(t, "read")
  /\ IF Accepted(task[t].op, found, task[t].new)
     THEN task' = [task EXCEPT ![t].pc = "write", ![t].seen = found]
     ELSE Finish(t)
  /\ UNCHANGED <<store, durable, subscribers, phase, local, writer, promised>>

\* put_service, remove_service: the tree changes at once ...
Write(t) ==
  LET n == task[t].svc IN
  /\ At(t, "write")
  /\ store' = [store EXCEPT ![n] = Written(task[t].op, task[t].seen, task[t].new)]
  /\ task' = [task EXCEPT ![t] = [IdleTask EXCEPT !.pc = "flush", !.svc = n]]
  /\ writer' = [writer EXCEPT ![n] = t]
  /\ promised' = [promised EXCEPT ![n] = {}]
  /\ UNCHANGED <<durable, subscribers, phase, local>>

\* ... and flush_async puts the whole tree on disk.
M_Flushed == durable
Flushed == store

Flush(t) ==
  /\ At(t, "flush")
  /\ durable' = Flushed
  /\ Goto(t, "emit")
  /\ UNCHANGED <<store, subscribers, phase, local, writer, promised>>

\* The write of t has its answer.
Answered(t) == writer' = [n \in Names |-> IF writer[n] = t THEN None ELSE writer[n]]

\* The backend answers an error, which ? hands on.  After a failed flush the tree
\* stays changed, and the other tasks go on with an entry that is not on disk.
BackendFails(t) ==
  /\ \E label \in {"read", "write", "flush"} : At(t, label)
  /\ Finish(t)
  /\ Answered(t)
  /\ UNCHANGED <<store, durable, subscribers, phase, local, promised>>

\* emit_event under the subscribers' lock, and Ok.  The list of messages is returned;
\* handle_service_action drops it, and nothing in the crate sends it.
Emit(t) ==
  /\ At(t, "emit")
  /\ Finish(t)
  /\ promised' = [n \in Names |-> IF writer[n] = t THEN {store[n]} ELSE promised[n]]
  /\ Answered(t)
  /\ UNCHANGED <<store, durable, subscribers, phase, local>>

-----------------------------------------------------------------------------
(* The connection handlers *)

\* A handler that returns early, with ? on a failed send, skips the clean-up; what
\* goes with it is its own set.
Abandon(c) ==
  /\ c \in Unreliable
  /\ phase' = [phase EXCEPT ![c] = "closed"]
  /\ task' = [task EXCEPT ![c] = IdleTask]
  /\ local' = [local EXCEPT ![c] = {}]
  /\ UNCHANGED <<store, durable, subscribers, writer, promised>>

\* A new peer; the address may be one used before.
Accept(c) ==
  /\ phase[c] = "closed"
  /\ phase' = [phase EXCEPT ![c] = "new"]
  /\ local' = [local EXCEPT ![c] = {}]
  /\ UNCHANGED <<store, durable, subscribers, task, writer, promised>>

\* send_initial_state
SendInitial(c) ==
  /\ phase[c] = "new"
  /\ At(c, "idle")
  /\ \/ /\ phase' = [phase EXCEPT ![c] = "open"]
        /\ UNCHANGED <<store, durable, subscribers, task, local, writer, promised>>
     \/ Abandon(c)

Serving(c) == phase[c] = "open" /\ At(c, "idle")

\* handle_subscribe: the local set grows, the registry's set is replaced.
Subscribe(c, wanted) ==
  /\ Serving(c)
  /\ local' = [local EXCEPT ![c] = @ \cup wanted]
  /\ subscribers' = [subscribers EXCEPT ![c] = wanted]
  /\ Goto(c, "reply")
  /\ UNCHANGED <<store, durable, phase, writer, promised>>

\* handle_unsubscribe; an empty subscription is removed.
M_Unsubscribed(c, unwanted) == subscribers
Unsubscribed(c, unwanted) == [subscribers EXCEPT ![c] = @ \ unwanted]

Unsubscribe(c, unwanted) ==
  /\ Serving(c)
  /\ local' = [local EXCEPT ![c] = @ \ unwanted]
  /\ subscribers' = Unsubscribed(c, unwanted)
  /\ Goto(c, "reply")
  /\ UNCHANGED <<store, durable, phase, writer, promised>>

\* handle_service_action: Start and Restart ask for Starting, Stop for Stopping.
ServiceAction(c, n, state) ==
  /\ Serving(c)
  /\ state \in {"Starting", "Stopping"}
  /\ Begin(c, "update_state", n, [state |-> state, endpoints |-> 0])
  /\ UNCHANGED <<store, durable, subscribers, phase, local, writer, promised>>

\* A query, a reload, a malformed text or a ping: only an answer is sent.
Query(c) ==
  /\ Serving(c)
  /\ Goto(c, "reply")
  /\ UNCHANGED <<store, durable, subscribers, phase, local, writer, promised>>

\* send_response; if that and the error response after it fail the handler ends.
Reply(c) ==
  /\ At(c, "reply")
  /\ \/ /\ Goto(c, "idle")
        /\ UNCHANGED <<store, durable, subscribers, phase, local, writer, promised>>
     \/ Abandon(c)

\* A close frame, the end of the stream or an error of the socket.
Unregistered(c) == [subscribers EXCEPT ![c] = {}]

Close(c) ==
  /\ Serving(c)
  /\ phase' = [phase EXCEPT ![c] = "closed"]
  /\ subscribers' = Unregistered(c)
  /\ local' = [local EXCEPT ![c] = {}]
  /\ UNCHANGED <<store, durable, task, writer, promised>>

-----------------------------------------------------------------------------

\* sled flushes by itself, too.
BackgroundFlush ==
  /\ durable # store
  /\ durable' = store
  /\ UNCHANGED <<store, subscribers, task, phase, local, writer, promised>>

\* The process dies and starts again on what is on disk; subscriptions are not kept.
Crash ==
  /\ store' = durable
  /\ subscribers' = [c \in Conns |-> {}]
  /\ task' = [t \in Tasks |-> IdleTask]
  /\ phase' = [c \in Conns |-> "closed"]
  /\ local' = [c \in Conns |-> {}]
  /\ writer' = [n \in Names |-> None]
  /\ UNCHANGED <<durable, promised>>

OperationStep(t) == Read(t) \/ Write(t) \/ Flush(t) \/ BackendFails(t) \/ Emit(t)

ConnRequest(c) ==
  \/ \E types \in SUBSET EventTypes : Subscribe(c, types) \/ Unsubscribe(c, types)
  \/ \E n \in Names, state \in ServiceState : ServiceAction(c, n, state)
  \/ Query(c)

Next ==
  \/ \E t \in Callers, op \in Ops, n \in Names : \E new \in Arguments(op) : Call(t, op, n, new)
  \/ \E t \in Tasks : OperationStep(t)
  \/ \E c \in Conns : Accept(c) \/ SendInitial(c) \/ ConnRequest(c) \/ Reply(c) \/ Close(c)
  \/ BackgroundFlush
  \/ Crash

Spec == Init /\ [][Next]_vars

-----------------------------------------------------------------------------
(* Properties *)

TypeOK ==
  /\ store \in [Names -> Entry \cup {None}]
  /\ durable \in [Names -> Entry \cup {None}]
  /\ subscribers \in [Conns -> SUBSET EventTypes]
  /\ task \in [Tasks -> Task]
  /\ phase \in [Conns -> {"new", "open", "closed"}]
  /\ local \in [Conns -> SUBSET EventTypes]
  /\ writer \in [Names -> Tasks \cup {None}]
  /\ promised \in [Names -> SUBSET (Entry \cup {None})]

\* "Atomic updates": whoever is about to write acts on what the store still
\* holds, so no update is lost, nothing deregistered comes back and no name is
\* registered twice.
ReadsAreCurrent ==
  \A t \in Tasks : task[t].pc = "write" => task[t].seen = store[task[t].svc]

\* update_state never takes a service along a transition is_valid_transition
\* refuses, and never touches its endpoints.
StatesFollowTransitions ==
  [][\A t \in Tasks, n \in Names :
       (task[t].pc = "write" /\ task'[t].pc = "flush" /\ task[t].op = "update_state"
        /\ task[t].svc = n) =>
         /\ store[n] # None /\ store'[n] # None
         /\ ValidTransition(store[n].state, store'[n].state)
         /\ store'[n].endpoints = store[n].endpoints]_vars

\* An operation that answered Ok has put its entry on disk: the entry is there, after
\* any number of crashes, until somebody writes that name again.
AnsweredIsDurable ==
  \A n \in Names : promised[n] \subseteq {store[n]} \cap {durable[n]}

\* Does not hold (sled.rs:83, 125, a flush that fails leaves the tree changed):
\* with no flush pending everything the registry answers from is on disk.
NothingPendingIsDurable == (\A t \in Tasks : task[t].pc # "flush") => durable = store

\* Does not hold (websocket.rs:152, a failed send leaves by ?):
\* "Clean up subscriptions", a connection that is gone is no subscriber ...
NoStaleSubscribers == \A c \in Conns : phase[c] = "closed" => subscribers[c] = {}

\* ... but this holds, whatever the other connections do, for every connection whose
\* sends succeed.
ReliableLeaveNothing ==
  \A c \in Conns \ Unreliable : phase[c] = "closed" => subscribers[c] = {}

\* The registry collects no event for a connection that its handler, which
\* filters by its own set, would not pass on.
SubscribersAreLocal ==
  \A c \in Conns \ Unreliable : phase[c] = "open" => subscribers[c] \subseteq local[c]

\* Does not hold (registry.rs:118, a second subscribe replaces the first):
\* the response to subscribe lists what the connection is subscribed to.
SubscriptionsAgree == \A c \in Conns : phase[c] = "open" => local[c] \subseteq subscribers[c]
=============================================================================
