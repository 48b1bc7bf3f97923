----------------------- MODULE ServiceRegistry_proofs ------------------------
(* Safety of ServiceRegistry for every set of names, callers and connections. *)
EXTENDS ServiceRegistry, TLAPS

\* An operation under way has its arguments, and one about to write has passed
\* its checks on what it read.
Carries(t) ==
  /\ task[t].pc \in {"read", "write"} =>
       task[t].op \in Ops /\ task[t].svc \in Names /\ task[t].new \in Arguments(task[t].op)
  /\ task[t].pc = "write" => Accepted(task[t].op, task[t].seen, task[t].new)

TypeInv == TypeOK /\ \A t \in Tasks : Carries(t)

LEMMA ArgumentsAreEntries == \A op \in Ops : Arguments(op) \subseteq Entry \cup {None}
BY DEF Arguments, Ops, Entry, NewEntry, ServiceState

LEMMA IdleTaskType == IdleTask \in Task
BY DEF IdleTask, Task

LEMMA InitTypeInv == Init => TypeInv
BY RegistryAssumption, IdleTaskType
   DEF Init, TypeInv, TypeOK, Carries, IdleTask

\* A step that changes one task's record, to one of the given shapes.
LEMMA TaskChanges ==
  ASSUME TypeInv, NEW t \in Tasks, NEW r \in Task, task' = [task EXCEPT ![t] = r],
         r.pc \in {"read", "write"} =>
           r.op \in Ops /\ r.svc \in Names /\ r.new \in Arguments(r.op),
         r.pc = "write" => Accepted(r.op, r.seen, r.new)
  PROVE  task' \in [Tasks -> Task] /\ \A u \in Tasks : Carries(u)'
BY DEF TypeInv, TypeOK, Carries

LEMMA GotoChanges ==
  ASSUME TypeInv, NEW t \in Tasks, NEW l \in {"idle", "emit", "reply"}, Goto(t, l)
  PROVE  task' \in [Tasks -> Task] /\ \A u \in Tasks : Carries(u)'
<1> DEFINE r == [task[t] EXCEPT !.pc = l]
<1>1. r \in Task /\ r.pc = l
  BY DEF TypeInv, TypeOK, Task
<1>2. task' = [task EXCEPT ![t] = r]
  BY DEF Goto
<1> QED
  BY <1>1, <1>2, TaskChanges

LEMMA FinishChanges ==
  ASSUME TypeInv, NEW t \in Tasks, Finish(t)
  PROVE  task' \in [Tasks -> Task] /\ \A u \in Tasks : Carries(u)'
<1> DEFINE r == [IdleTask EXCEPT !.pc = IF t \in Conns THEN "reply" ELSE "idle"]
<1>1. r \in Task /\ r.pc \in {"idle", "reply"}
  BY DEF IdleTask, Task
<1>2. task' = [task EXCEPT ![t] = r]
  BY DEF Finish
<1> HIDE DEF r
<1> QED
  BY <1>1, <1>2, TaskChanges

LEMMA FinishRests ==
  ASSUME TypeInv, NEW t \in Tasks, Finish(t)
  PROVE  /\ task'[t].pc \in {"idle", "reply"}
         /\ \A u \in Tasks \ {t} : task'[u] = task[u]
BY DEF Finish, IdleTask, TypeInv, TypeOK

LEMMA BeginChanges ==
  ASSUME TypeInv, NEW t \in Tasks, NEW op \in Ops, NEW n \in Names, NEW new \in Arguments(op),
         Begin(t, op, n, new)
  PROVE  task' \in [Tasks -> Task] /\ \A u \in Tasks : Carries(u)'
<1> DEFINE r == [IdleTask EXCEPT !.pc = "read", !.op = op, !.svc = n, !.new = new]
<1>1. /\ r \in Task /\ r.pc = "read"
      /\ r.op = op /\ r.svc = n /\ r.new = new
  BY ArgumentsAreEntries DEF IdleTask, Task
<1>2. task' = [task EXCEPT ![t] = r]
  BY DEF Begin
<1> HIDE DEF r
<1> QED
  BY <1>1, <1>2, TaskChanges

\* What an accepted operation writes is an entry or nothing.
LEMMA WrittenType ==
  ASSUME NEW op \in Ops, NEW found \in Entry \cup {None}, NEW new \in Arguments(op),
         Accepted(op, found, new)
  PROVE  Written(op, found, new) \in Entry \cup {None}
<1>1. CASE op \in {"register", "add_or_update"}
  BY <1>1, ArgumentsAreEntries DEF Written
<1>2. CASE op = "update_state"
  <2>1. found \in Entry /\ new.state \in ServiceState
    BY <1>2 DEF Accepted, Arguments
  <2>2. Written(op, found, new) = [found EXCEPT !.state = new.state]
    BY <1>2 DEF Written
  <2> QED  BY <2>1, <2>2 DEF Entry
<1>3. CASE op = "update_endpoints"
  <2>1. found \in Entry /\ new.endpoints \in {0, 1}
    BY <1>3 DEF Accepted, Arguments
  <2>2. Written(op, found, new) = [found EXCEPT !.endpoints = new.endpoints]
    BY <1>3 DEF Written
  <2> QED  BY <2>1, <2>2 DEF Entry
<1>4. CASE op = "deregister"
  BY <1>4 DEF Written
<1> QED
  BY <1>1, <1>2, <1>3, <1>4 DEF Ops

-----------------------------------------------------------------------------
(* Type correctness.                                                          *)

Quiet == UNCHANGED <<store, durable, subscribers, phase, local, writer, promised>>

LEMMA QuietType ==
  ASSUME TypeInv, Quiet, task' \in [Tasks -> Task], \A u \in Tasks : Carries(u)'
  PROVE  TypeInv'
BY DEF TypeInv, TypeOK, Quiet

LEMMA OperationType ==
  ASSUME TypeInv, NEW t \in Tasks, OperationStep(t)
  PROVE  TypeInv'
<1>1. CASE Read(t)
  <2> DEFINE found == store[task[t].svc]
             r == [task[t] EXCEPT !.pc = "write", !.seen = found]
  <2>0. /\ task[t] \in Task /\ task[t].op \in Ops /\ task[t].svc \in Names
        /\ task[t].new \in Arguments(task[t].op) /\ found \in Entry \cup {None}
    BY <1>1 DEF TypeInv, TypeOK, Carries, Read, At
  <2>1. CASE Accepted(task[t].op, found, task[t].new)
    <3>1. /\ r \in Task /\ r.pc = "write" /\ r.seen = found
          /\ r.op = task[t].op /\ r.svc = task[t].svc /\ r.new = task[t].new
      BY <2>0 DEF Task
    <3>2. task' = [task EXCEPT ![t] = r]
      BY <1>1, <2>1 DEF Read
    <3> HIDE DEF r
    <3>3. task' \in [Tasks -> Task] /\ \A u \in Tasks : Carries(u)'
      BY <2>0, <2>1, <3>1, <3>2, TaskChanges
    <3> QED  BY <1>1, <3>3, QuietType DEF Read, Quiet
  <2>2. CASE ~ Accepted(task[t].op, found, task[t].new)
    <3>1. Finish(t)
      BY <1>1, <2>2 DEF Read
    <3> QED  BY <1>1, <3>1, FinishChanges, QuietType DEF Read, Quiet
  <2> QED  BY <2>1, <2>2
<1>2. CASE Write(t)
  <2>1. /\ task[t].op \in Ops /\ task[t].svc \in Names /\ task[t].seen \in Entry \cup {None}
        /\ task[t].new \in Arguments(task[t].op)
        /\ Accepted(task[t].op, task[t].seen, task[t].new)
    BY <1>2 DEF TypeInv, TypeOK, Carries, Write, At, Task
  <2>2. store' \in [Names -> Entry \cup {None}]
    BY <1>2, <2>1, WrittenType DEF Write, TypeInv, TypeOK
  <2> DEFINE r == [IdleTask EXCEPT !.pc = "flush", !.svc = task[t].svc]
  <2>3. r \in Task /\ r.pc = "flush"
    BY <2>1 DEF IdleTask, Task
  <2>4. task' = [task EXCEPT ![t] = r]
    BY <1>2 DEF Write
  <2> HIDE DEF r
  <2>5. task' \in [Tasks -> Task] /\ \A u \in Tasks : Carries(u)'
    BY <2>3, <2>4, TaskChanges
  <2>6. /\ writer' \in [Names -> Tasks \cup {None}]
        /\ promised' \in [Names -> SUBSET (Entry \cup {None})]
    BY <1>2, <2>1 DEF Write, TypeInv, TypeOK
  <2> QED  BY <1>2, <2>2, <2>5, <2>6 DEF Write, TypeInv, TypeOK
<1>3. CASE Flush(t)
  BY <1>3, GotoChanges DEF Flush, Flushed, TypeInv, TypeOK
<1>4. CASE BackendFails(t) \/ Emit(t)
  <2>1. /\ writer' \in [Names -> Tasks \cup {None}]
        /\ promised' \in [Names -> SUBSET (Entry \cup {None})]
    BY <1>4 DEF BackendFails, Emit, Answered, TypeInv, TypeOK
  <2> QED  BY <1>4, <2>1, FinishChanges DEF BackendFails, Emit, TypeInv, TypeOK
<1> QED
  BY <1>1, <1>2, <1>3, <1>4 DEF OperationStep

LEMMA AbandonType ==
  ASSUME TypeInv, NEW c \in Conns, Abandon(c)
  PROVE  TypeInv'
<1>1. task' \in [Tasks -> Task] /\ \A u \in Tasks : Carries(u)'
  <2>1. IdleTask.pc = "idle" /\ c \in Tasks
    BY DEF IdleTask, Tasks
  <2> QED  BY <2>1, IdleTaskType, TaskChanges DEF Abandon
<1> QED
  BY <1>1 DEF Abandon, TypeInv, TypeOK

LEMMA ConnectionType ==
  ASSUME TypeInv, NEW c \in Conns,
         Accept(c) \/ SendInitial(c) \/ ConnRequest(c) \/ Reply(c) \/ Close(c)
  PROVE  TypeInv'
<1>0. c \in Tasks
  BY DEF Tasks
<1>1. CASE Accept(c)
  BY <1>1 DEF Accept, TypeInv, TypeOK, Carries
<1>2. CASE SendInitial(c)
  <2>1. CASE Abandon(c)
    BY <2>1, AbandonType
  <2>2. CASE ~ Abandon(c)
    BY <1>2, <2>2 DEF SendInitial, TypeInv, TypeOK, Carries
  <2> QED  BY <2>1, <2>2
<1>3. CASE ConnRequest(c)
  <2>1. ASSUME NEW types \in SUBSET EventTypes, Subscribe(c, types)  PROVE TypeInv'
    BY <1>0, <2>1, GotoChanges DEF Subscribe, TypeInv, TypeOK
  <2>2. ASSUME NEW types \in SUBSET EventTypes, Unsubscribe(c, types)  PROVE TypeInv'
    BY <1>0, <2>2, GotoChanges DEF Unsubscribe, Unsubscribed, TypeInv, TypeOK
  <2>3. ASSUME NEW n \in Names, NEW state \in ServiceState, ServiceAction(c, n, state)
        PROVE  TypeInv'
    <3>1. "update_state" \in Ops /\ [state |-> state, endpoints |-> 0] \in Arguments("update_state")
      BY DEF Ops, Arguments
    <3> QED  BY <1>0, <2>3, <3>1, BeginChanges, QuietType DEF ServiceAction, Quiet
  <2>4. CASE Query(c)
    BY <1>0, <2>4, GotoChanges, QuietType DEF Query, Quiet
  <2> QED  BY <1>3, <2>1, <2>2, <2>3, <2>4 DEF ConnRequest
<1>4. CASE Reply(c)
  <2>1. CASE Abandon(c)
    BY <2>1, AbandonType
  <2>2. CASE Goto(c, "idle") /\ Quiet
    BY <1>0, <2>2, GotoChanges, QuietType
  <2> QED  BY <1>4, <2>1, <2>2 DEF Reply, Quiet
<1>5. CASE Close(c)
  BY <1>5 DEF Close, Unregistered, TypeInv, TypeOK, Carries
<1> QED
  BY <1>1, <1>2, <1>3, <1>4, <1>5

LEMMA TypeInvStep == TypeInv /\ [Next]_vars => TypeInv'
<1> SUFFICES ASSUME TypeInv, [Next]_vars  PROVE TypeInv'
  OBVIOUS
<1>1. ASSUME NEW t \in Callers, NEW op \in Ops, NEW n \in Names, NEW new \in Arguments(op),
             Call(t, op, n, new)
      PROVE  TypeInv'
  BY <1>1, BeginChanges, QuietType DEF Call, Quiet, Tasks
<1>2. CASE BackgroundFlush
  BY <1>2 DEF BackgroundFlush, TypeInv, TypeOK, Carries
<1>3. CASE Crash
  <2>1. task' \in [Tasks -> Task] /\ \A u \in Tasks : Carries(u)'
    BY <1>3, IdleTaskType DEF Crash, Carries, IdleTask
  <2> QED  BY <1>3, <2>1 DEF Crash, TypeInv, TypeOK
<1>4. CASE UNCHANGED vars
  BY <1>4 DEF vars, TypeInv, TypeOK, Carries
<1> QED
  BY <1>1, <1>2, <1>3, <1>4, OperationType, ConnectionType DEF Next

\* Every reachable state has its type.
THEOREM TypeCorrect == Spec => []TypeOK
<1>1. TypeInv => TypeOK
  BY DEF TypeInv
<1> QED
  BY <1>1, InitTypeInv, TypeInvStep, PTL DEF Spec
-----------------------------------------------------------------------------
(* One executor thread: read, check and write are one step.                   *)

\* While a task is about to write, nobody else moves the store or the tasks.
LEMMA WriterRuns ==
  ASSUME ~ Parallel, NEW t \in Tasks, task[t].pc = "write", [Next]_vars
  PROVE  Write(t) \/ BackendFails(t) \/ Crash \/ (task' = task /\ store' = store)
<1>1. ASSUME NEW u \in Tasks, NEW l, At(u, l)  PROVE u = t /\ l = "write"
  BY <1>1 DEF At, MayRun, Awaiting
<1>2. ASSUME NEW u \in Tasks, OperationStep(u)  PROVE Write(t) \/ BackendFails(t)
  <2>1. Write(u) \/ BackendFails(u)
    BY <1>1, <1>2 DEF OperationStep, Read, Flush, Emit
  <2>2. u = t
    BY <1>1, <2>1 DEF Write, BackendFails
  <2> QED  BY <2>1, <2>2
<1>3. ASSUME NEW u \in Callers, NEW op \in Ops, NEW n \in Names, NEW new \in Arguments(op),
             Call(u, op, n, new)
      PROVE  FALSE
  BY <1>1, <1>3 DEF Call, Tasks
<1>4. ASSUME NEW c \in Conns, SendInitial(c) \/ ConnRequest(c) \/ Reply(c) \/ Close(c)
      PROVE  FALSE
  <2>1. At(c, "idle") \/ At(c, "reply")
    BY <1>4
       DEF SendInitial, ConnRequest, Reply, Close, Subscribe, Unsubscribe, ServiceAction, Query,
           Serving
  <2>2. c \in Tasks
    BY DEF Tasks
  <2> QED  BY <1>1, <2>1, <2>2
<1>5. ASSUME NEW c \in Conns, Accept(c)  PROVE task' = task /\ store' = store
  BY <1>5 DEF Accept
<1>6. BackgroundFlush \/ UNCHANGED vars => task' = task /\ store' = store
  BY DEF BackgroundFlush, vars
<1> QED
  BY <1>2, <1>3, <1>4, <1>5, <1>6 DEF Next

\* Only Read leads to the write, and it has just looked.
LEMMA WriterHasRead ==
  ASSUME TypeInv, [Next]_vars, NEW t \in Tasks, task[t].pc # "write", task'[t].pc = "write"
  PROVE  Read(t) /\ task'[t].seen = store[task[t].svc] /\ task'[t].svc = task[t].svc
<1> USE DEF TypeInv, TypeOK
<1>1. ASSUME NEW u \in Tasks, NEW l \in {"idle", "emit", "reply"}, Goto(u, l)  PROVE FALSE
  BY <1>1 DEF Goto
<1>2. ASSUME NEW u \in Tasks, Finish(u)  PROVE FALSE
  BY <1>2 DEF Finish, IdleTask
<1>3. ASSUME NEW u \in Tasks, NEW op \in Ops, NEW n, NEW new, Begin(u, op, n, new)  PROVE FALSE
  BY <1>3 DEF Begin, IdleTask
<1>4. ASSUME NEW u \in Tasks, OperationStep(u)
      PROVE  Read(t) /\ task'[t].seen = store[task[t].svc] /\ task'[t].svc = task[t].svc
  <2>1. CASE Write(u)
    BY <2>1 DEF Write, IdleTask
  <2>2. CASE Flush(u) \/ BackendFails(u) \/ Emit(u)
    BY <1>1, <1>2, <2>2 DEF Flush, BackendFails, Emit
  <2>3. CASE Read(u)
    <3>1. task' = [task EXCEPT ![u].pc = "write", ![u].seen = store[task[u].svc]]
      BY <1>2, <2>3 DEF Read
    <3>2. u = t
      BY <3>1
    <3> QED  BY <2>3, <3>1, <3>2 DEF Task
  <2> QED  BY <1>4, <2>1, <2>2, <2>3 DEF OperationStep
<1>5. ASSUME NEW u \in Callers, NEW op \in Ops, NEW n \in Names, NEW new \in Arguments(op),
             Call(u, op, n, new)
      PROVE  FALSE
  BY <1>3, <1>5 DEF Call, Tasks
<1>6. ASSUME NEW c \in Conns, Abandon(c)  PROVE FALSE
  BY <1>6 DEF Abandon, IdleTask
<1>7. ASSUME NEW c \in Conns,
             Accept(c) \/ SendInitial(c) \/ ConnRequest(c) \/ Reply(c) \/ Close(c)
      PROVE  FALSE
  <2>1. c \in Tasks /\ "update_state" \in Ops
    BY DEF Tasks, Ops
  <2>2. ~ ConnRequest(c)
    BY <1>1, <1>3, <2>1 DEF ConnRequest, Subscribe, Unsubscribe, ServiceAction, Query
  <2>3. ~ Reply(c) /\ ~ SendInitial(c)
    BY <1>1, <1>6, <2>1 DEF Reply, SendInitial
  <2>4. task' # task
    OBVIOUS
  <2> QED  BY <1>7, <2>2, <2>3, <2>4 DEF Accept, Close
<1>8. BackgroundFlush \/ Crash \/ UNCHANGED vars => FALSE
  BY DEF BackgroundFlush, Crash, vars, IdleTask
<1> QED
  BY <1>4, <1>5, <1>7, <1>8 DEF Next

LEMMA CurrentStep ==
  ASSUME ~ Parallel
  PROVE  TypeInv /\ ReadsAreCurrent /\ [Next]_vars => ReadsAreCurrent'
<1> SUFFICES ASSUME TypeInv, ReadsAreCurrent, [Next]_vars, NEW t \in Tasks,
                    task'[t].pc = "write"
             PROVE  task'[t].seen = store'[task'[t].svc]
  BY DEF ReadsAreCurrent
<1>1. CASE task[t].pc = "write"
  <2>1. ~ Write(t) /\ ~ BackendFails(t) /\ ~ Crash
    <3>1. ~ Write(t)
      <4>1. Write(t) =>
              task' = [task EXCEPT ![t] = [IdleTask EXCEPT !.pc = "flush", !.svc = task[t].svc]]
        BY DEF Write
      <4> QED  BY <4>1 DEF IdleTask, TypeInv, TypeOK
    <3>2. ~ BackendFails(t)
      BY FinishRests DEF BackendFails
    <3>3. ~ Crash
      BY DEF Crash, IdleTask
    <3> QED  BY <3>1, <3>2, <3>3
  <2> QED  BY <1>1, <2>1, WriterRuns DEF ReadsAreCurrent
<1>2. CASE task[t].pc # "write"
  <2>1. Read(t) /\ task'[t].seen = store[task[t].svc] /\ task'[t].svc = task[t].svc
    BY <1>2, WriterHasRead
  <2> QED  BY <2>1 DEF Read
<1> QED  BY <1>1, <1>2

\* On one executor thread no operation of the Registry acts on an entry that has
\* changed since it was read, for any number of callers and connections.
THEOREM UpdatesAreAtomic ==
  ASSUME ~ Parallel
  PROVE  Spec => []ReadsAreCurrent
<1>1. Init => ReadsAreCurrent
  BY DEF Init, ReadsAreCurrent, IdleTask
<1> QED
  BY <1>1, InitTypeInv, TypeInvStep, CurrentStep, PTL DEF Spec

\* Then update_state only takes a service along its transition table.
THEOREM TransitionsAreFollowed ==
  ASSUME ~ Parallel
  PROVE  Spec => StatesFollowTransitions
<1> DEFINE Followed ==
      \A t \in Tasks, n \in Names :
        (task[t].pc = "write" /\ task'[t].pc = "flush" /\ task[t].op = "update_state"
         /\ task[t].svc = n) =>
          /\ store[n] # None /\ store'[n] # None
          /\ ValidTransition(store[n].state, store'[n].state)
          /\ store'[n].endpoints = store[n].endpoints
<1>1. TypeInv /\ ReadsAreCurrent /\ [Next]_vars => [Followed]_vars
  <2> SUFFICES ASSUME TypeInv, ReadsAreCurrent, [Next]_vars, NEW t \in Tasks, NEW n \in Names,
                      task[t].pc = "write", task'[t].pc = "flush",
                      task[t].op = "update_state", task[t].svc = n
               PROVE  /\ store[n] # None /\ store'[n] # None
                      /\ ValidTransition(store[n].state, store'[n].state)
                      /\ store'[n].endpoints = store[n].endpoints
    OBVIOUS
  <2>1. Write(t)
    <3>1. ~ Crash /\ ~ BackendFails(t)
      BY FinishRests DEF Crash, BackendFails, IdleTask
    <3> QED  BY <3>1, WriterRuns
  <2>2. /\ store[n] \in Entry /\ task[t].new.state \in ServiceState
        /\ ValidTransition(store[n].state, task[t].new.state)
    BY NoneAssumption
       DEF TypeInv, TypeOK, Carries, Accepted, Arguments, ReadsAreCurrent
  <2>3. store'[n] = [store[n] EXCEPT !.state = task[t].new.state]
    BY <2>1 DEF Write, Written, ReadsAreCurrent, TypeInv, TypeOK
  <2>4. /\ store'[n] \in Entry /\ store'[n].state = task[t].new.state
        /\ store'[n].endpoints = store[n].endpoints
    BY <2>2, <2>3 DEF Entry
  <2> QED  BY <2>2, <2>4, NoneAssumption
<1>2. Init => ReadsAreCurrent
  BY DEF Init, ReadsAreCurrent, IdleTask
<1> QED
  BY <1>1, <1>2, InitTypeInv, TypeInvStep, CurrentStep, PTL DEF Spec, StatesFollowTransitions

-----------------------------------------------------------------------------
(* Durability and the table of subscribers, under either scheduler.           *)

\* What has been flushed for the last writer of a name, and is about to be answered,
\* is on disk.
DurableInv ==
  /\ AnsweredIsDurable
  /\ \A t \in Tasks, n \in Names :
       writer[n] = t /\ task[t].pc = "emit" => durable[n] = store[n]
  /\ \A t \in Tasks, n \in Names :
       writer[n] = t => task[t].pc \in {"flush", "emit"} /\ promised[n] = {}

LEMMA DurableStep == TypeInv /\ DurableInv /\ [Next]_vars => DurableInv'
<1> SUFFICES ASSUME TypeInv, DurableInv, [Next]_vars  PROVE DurableInv'
  OBVIOUS
<1> USE DEF TypeInv, TypeOK, DurableInv, AnsweredIsDurable
\* A step of a task outside its flush, which leaves the store and the disk alone.
<1>1. ASSUME NEW t \in Tasks, task[t].pc \notin {"flush", "emit"},
             NEW r, task' = [task EXCEPT ![t] = r],
             UNCHANGED <<store, durable, writer, promised>>
      PROVE  DurableInv'
  BY <1>1
<1>2. ASSUME NEW t \in Tasks, OperationStep(t)  PROVE DurableInv'
  <2>1. CASE Read(t)
    BY <1>1, <2>1 DEF Read, At, Finish
  <2>2. CASE Write(t)
    BY <2>2 DEF Write, At, IdleTask, Carries
  <2>3. CASE Flush(t)
    BY <2>3 DEF Flush, Flushed, At, Goto
  <2>4. ASSUME Finish(t), Answered(t), NEW u \in Tasks, NEW n \in Names, writer'[n] = u
        PROVE  writer[n] = u /\ writer[n] # t /\ task'[u] = task[u]
    <3>1. u # None
      BY NoneAssumption
    <3>2. writer[n] # t /\ writer[n] = u
      BY <2>4, <3>1 DEF Answered
    <3> QED  BY <2>4, <3>2, FinishRests
  <2>5. CASE BackendFails(t)
    <3>1. UNCHANGED <<store, durable, promised>> /\ Finish(t) /\ Answered(t)
      BY <2>5 DEF BackendFails
    <3> HIDE DEF TypeInv, TypeOK
    <3> QED  BY <3>1, <2>4
  <2>6. CASE Emit(t)
    <3>1. /\ UNCHANGED <<store, durable>> /\ Finish(t) /\ Answered(t) /\ task[t].pc = "emit"
          /\ promised' = [n \in Names |-> IF writer[n] = t THEN {store[n]} ELSE promised[n]]
      BY <2>6 DEF Emit, At
    <3>2. AnsweredIsDurable'
      BY <3>1
    <3> HIDE DEF TypeInv, TypeOK
    <3> QED  BY <3>1, <3>2, <2>4
  <2> QED  BY <1>2, <2>1, <2>2, <2>3, <2>5, <2>6 DEF OperationStep
<1>3. ASSUME NEW t \in Callers, NEW op \in Ops, NEW n \in Names, NEW new \in Arguments(op),
             Call(t, op, n, new)
      PROVE  DurableInv'
  BY <1>1, <1>3 DEF Call, At, Begin, Tasks
<1>4. ASSUME NEW c \in Conns,
             Accept(c) \/ SendInitial(c) \/ ConnRequest(c) \/ Reply(c) \/ Close(c)
      PROVE  DurableInv'
  <2>1. CASE Accept(c) \/ Close(c)
    BY <2>1 DEF Accept, Close
  <2>2. CASE SendInitial(c)
    BY <1>1, <2>2 DEF SendInitial, Abandon, At, Tasks
  <2>3. CASE Reply(c)
    BY <1>1, <2>3 DEF Reply, Abandon, At, Goto, Tasks
  <2>4. CASE ConnRequest(c)
    <3>1. c \in Tasks /\ task[c].pc \notin {"flush", "emit"}
      BY <2>4
         DEF ConnRequest, Subscribe, Unsubscribe, ServiceAction, Query, Serving, At, Tasks
    <3>2. UNCHANGED <<store, durable, writer, promised>>
      BY <2>4 DEF ConnRequest, Subscribe, Unsubscribe, ServiceAction, Query
    <3>3. PICK r : task' = [task EXCEPT ![c] = r]
      BY <2>4
         DEF ConnRequest, Subscribe, Unsubscribe, ServiceAction, Query, Goto, Begin
    <3> QED  BY <1>1, <3>1, <3>2, <3>3
  <2> QED  BY <1>4, <2>1, <2>2, <2>3, <2>4
<1>5. CASE BackgroundFlush
  BY <1>5 DEF BackgroundFlush
<1>6. CASE Crash
  BY <1>6, NoneAssumption DEF Crash, IdleTask
<1>7. CASE UNCHANGED vars
  BY <1>7 DEF vars
<1> QED
  BY <1>2, <1>3, <1>4, <1>5, <1>6, <1>7 DEF Next

\* What an operation has acknowledged survives a crash until somebody writes the name
\* again, whichever flushes of the other tasks fail and under either scheduler.
THEOREM AnswersAreDurable == Spec => []AnsweredIsDurable
<1>1. Init => DurableInv
  BY NoneAssumption DEF Init, DurableInv, AnsweredIsDurable, IdleTask
<1>2. DurableInv => AnsweredIsDurable
  BY DEF DurableInv
<1> QED
  BY <1>1, <1>2, InitTypeInv, TypeInvStep, DurableStep, PTL DEF Spec

SubscriberInv ==
  \A c \in Conns \ Unreliable :
    /\ subscribers[c] \subseteq local[c]
    /\ phase[c] # "open" => subscribers[c] = {}

LEMMA SubscriberStep == TypeInv /\ SubscriberInv /\ [Next]_vars => SubscriberInv'
<1> SUFFICES ASSUME TypeInv, SubscriberInv, [Next]_vars  PROVE SubscriberInv'
  OBVIOUS
<1> USE DEF TypeInv, TypeOK, SubscriberInv
<1>1. UNCHANGED <<subscribers, local, phase>> => SubscriberInv'
  OBVIOUS
<1>2. ASSUME NEW t \in Tasks, OperationStep(t)  PROVE SubscriberInv'
  BY <1>1, <1>2 DEF OperationStep, Read, Write, Flush, BackendFails, Emit
<1>3. ASSUME NEW t \in Callers, NEW op \in Ops, NEW n \in Names, NEW new \in Arguments(op),
             Call(t, op, n, new)
      PROVE  SubscriberInv'
  BY <1>1, <1>3 DEF Call
<1>4. ASSUME NEW c \in Conns, Accept(c)  PROVE SubscriberInv'
  BY <1>4 DEF Accept
<1>5. ASSUME NEW c \in Conns, SendInitial(c) \/ Reply(c)  PROVE SubscriberInv'
  BY <1>1, <1>5 DEF SendInitial, Reply, Abandon
<1>6. ASSUME NEW c \in Conns, ConnRequest(c)  PROVE SubscriberInv'
  <2>1. ASSUME NEW types \in SUBSET EventTypes, Subscribe(c, types)  PROVE SubscriberInv'
    BY <2>1 DEF Subscribe, Serving
  <2>2. ASSUME NEW types \in SUBSET EventTypes, Unsubscribe(c, types)  PROVE SubscriberInv'
    BY <2>2 DEF Unsubscribe, Unsubscribed, Serving
  <2> QED  BY <1>1, <1>6, <2>1, <2>2 DEF ConnRequest, ServiceAction, Query
<1>7. ASSUME NEW c \in Conns, Close(c)  PROVE SubscriberInv'
  BY <1>7 DEF Close, Unregistered
<1>8. BackgroundFlush \/ UNCHANGED vars => SubscriberInv'
  BY <1>1 DEF BackgroundFlush, vars
<1>9. Crash => SubscriberInv'
  BY DEF Crash
<1> QED
  BY <1>2, <1>3, <1>4, <1>5, <1>6, <1>7, <1>8, <1>9 DEF Next

\* A connection whose sends succeed leaves no subscription behind, whatever the
\* other connections and callers do.
THEOREM ReliableConnectionsCleanUp == Spec => []ReliableLeaveNothing
<1>1. Init => SubscriberInv
  BY DEF Init, SubscriberInv
<1>2. SubscriberInv => ReliableLeaveNothing
  BY DEF SubscriberInv, ReliableLeaveNothing
<1> QED
  BY <1>1, <1>2, InitTypeInv, TypeInvStep, SubscriberStep, PTL DEF Spec

\* And the registry's view of it never exceeds the handler's own.
THEOREM SubscriptionsStayLocal == Spec => []SubscribersAreLocal
<1>1. Init => SubscriberInv
  BY DEF Init, SubscriberInv
<1>2. SubscriberInv => SubscribersAreLocal
  BY DEF SubscriberInv, SubscribersAreLocal
<1> QED
  BY <1>1, <1>2, InitTypeInv, TypeInvStep, SubscriberStep, PTL DEF Spec
=============================================================================
