------------------------ MODULE ServiceManager_proofs ------------------------
(* Safety of ServiceManager for every set of services, connections and        *)
(* instances, every target kind and both schedulers.                          *)
EXTENDS ServiceManager, TLAPS

\* A tracked handle belongs to a process that was spawned.
TrackedBorn == \A i \in tracked : life[i] # "unborn"

\* No handler has a service no executor accepts, and none is active.
NoRemote == \A n \in Names : Kind[n] = "remote" => active[n] = None

\* Type correctness with what the handlers' labels say about their variables.
TypeInv == TypeOK /\ TaskOK /\ NoRemote

LEMMA InitTypeInv == Init => TypeInv
BY NamesAssumption, BoundsAssumption
   DEF Init, TypeInv, TypeOK, TaskOK, HandlerOK, NoRemote, IdleTask, Task, Labels, Answers,
       LifeStages, StartLabels, StopLabels

-----------------------------------------------------------------------------
(* What a handler's step does to task: a step only changes its own record. *)

OnlyTask(c) ==
  /\ task' \in [Clients -> Task]
  /\ \A e \in Clients \ {c} : task'[e] = task[e]
  /\ HandlerOK(task'[c])

LEMMA IdleIsTask == IdleTask \in Task /\ HandlerOK(IdleTask)
BY DEF IdleTask, Task, HandlerOK, Labels, Answers, StartLabels, StopLabels

LEMMA GotoType ==
  ASSUME NEW c \in Clients, NEW l \in Labels, task \in [Clients -> Task], Goto(c, l)
  PROVE  /\ task' \in [Clients -> Task]
         /\ task'[c] = [task[c] EXCEPT !.pc = l]
         /\ \A e \in Clients \ {c} : task'[e] = task[e]
BY DEF Goto, Task

LEMMA HoldType ==
  ASSUME NEW c \in Clients, NEW l \in Labels, NEW i \in Instances,
         task \in [Clients -> Task], Hold(c, i, l)
  PROVE  /\ task' \in [Clients -> Task]
         /\ task'[c] = [task[c] EXCEPT !.pc = l, !.inst = i]
         /\ \A e \in Clients \ {c} : task'[e] = task[e]
BY DEF Hold, Task

LEMMA AnswerType ==
  ASSUME NEW c \in Clients, NEW a \in Answers, task \in [Clients -> Task], Answer(c, a)
  PROVE  OnlyTask(c) /\ task'[c].pc = "idle"
BY DEF Answer, OnlyTask, HandlerOK, Task, IdleTask, Labels, Answers, StartLabels, StopLabels

LEMMA OnlyTaskOK ==
  ASSUME NEW c \in Clients, TaskOK, OnlyTask(c)
  PROVE  TaskOK'
BY DEF TaskOK, OnlyTask, HandlerOK

\* Goto of a label that asks nothing new of the record.
LEMMA GotoOK ==
  ASSUME NEW c \in Clients, NEW l \in Labels, TypeInv, Goto(c, l),
         HandlerOK([task[c] EXCEPT !.pc = l])
  PROVE  OnlyTask(c) /\ task'[c].pc = l
         /\ task'[c].svc = Svc(c) /\ task'[c].inst = Inst(c)
<1>1. task \in [Clients -> Task] /\ task[c] \in Task
  BY DEF TypeInv, TypeOK
<1>2. /\ task' \in [Clients -> Task]
      /\ task'[c] = [task[c] EXCEPT !.pc = l]
      /\ \A e \in Clients \ {c} : task'[e] = task[e]
  BY <1>1, GotoType
<1>3. OnlyTask(c)
  BY <1>2 DEF OnlyTask
<1>4. task'[c].pc = l /\ task'[c].svc = task[c].svc /\ task'[c].inst = task[c].inst
  BY <1>1, <1>2 DEF Task
<1> QED
  BY <1>3, <1>4 DEF Svc, Inst

LEMMA HoldOK ==
  ASSUME NEW c \in Clients, NEW l \in Labels, NEW i \in Instances, TypeInv, Hold(c, i, l),
         HandlerOK([task[c] EXCEPT !.pc = l, !.inst = i])
  PROVE  OnlyTask(c) /\ task'[c].pc = l
         /\ task'[c].svc = Svc(c) /\ task'[c].inst = i
<1>1. task \in [Clients -> Task] /\ task[c] \in Task
  BY DEF TypeInv, TypeOK
<1>2. /\ task' \in [Clients -> Task]
      /\ task'[c] = [task[c] EXCEPT !.pc = l, !.inst = i]
      /\ \A e \in Clients \ {c} : task'[e] = task[e]
  BY <1>1, HoldType
<1>3. OnlyTask(c)
  BY <1>2 DEF OnlyTask
<1>4. task'[c].pc = l /\ task'[c].svc = task[c].svc /\ task'[c].inst = i
  BY <1>1, <1>2 DEF Task
<1> QED
  BY <1>3, <1>4 DEF Svc, Inst

-----------------------------------------------------------------------------
(* Every step of a handler leaves its record well formed. *)

LEMMA StartTask ==
  ASSUME NEW c \in Clients, TypeInv, StartStep(c)
  PROVE  OnlyTask(c)
<1> USE DEF TypeInv, TypeOK, At, Svc, Inst, Labels, StartLabels, StopLabels
<1>0. HandlerOK(task[c]) /\ task[c] \in Task /\ task \in [Clients -> Task]
  BY DEF TaskOK
<1>1. CASE Launch(c)
  <2>1. CASE \E i \in Fresh : Hold(c, i, "monitor")
    <3>1. PICK i \in Fresh : Hold(c, i, "monitor")
      BY <2>1
    <3>2. i \in Instances
      BY DEF Fresh
    <3>3. HandlerOK([task[c] EXCEPT !.pc = "monitor", !.inst = i])
      BY <1>0, <1>1, <3>2 DEF Launch, HandlerOK, Task
    <3> QED  BY <3>1, <3>2, <3>3, HoldOK
  <2>2. CASE Answer(c, "error")
    BY <1>0, <2>2, AnswerType DEF Answers
  <2> QED  BY <1>1, <2>1, <2>2 DEF Launch
<1>2. CASE Detect(c)
  <2>1. CASE Goto(c, "run")
    <3>1. HandlerOK([task[c] EXCEPT !.pc = "run"])
      BY <1>0, <1>2 DEF Detect, HandlerOK, Task
    <3> QED  BY <2>1, <3>1, GotoOK
  <2>2. CASE \E i \in Detected(Svc(c)) : Hold(c, i, "netinfo")
    <3>1. PICK i \in Detected(Svc(c)) : Hold(c, i, "netinfo")
      BY <2>2
    <3>2. i \in Instances
      BY DEF Detected, ContainerOf
    <3>3. HandlerOK([task[c] EXCEPT !.pc = "netinfo", !.inst = i])
      BY <1>0, <1>2, <3>2 DEF Detect, HandlerOK, Task
    <3> QED  BY <3>1, <3>2, <3>3, HoldOK
  <2>3. CASE Answer(c, "error")
    BY <1>0, <2>3, AnswerType DEF Answers
  <2> QED  BY <1>2, <2>1, <2>2, <2>3 DEF Detect
<1>3. CASE DockerRun(c)
  <2>1. CASE \E i \in Fresh : Hold(c, i, "netinfo")
    <3>1. PICK i \in Fresh : Hold(c, i, "netinfo")
      BY <2>1
    <3>2. i \in Instances
      BY DEF Fresh
    <3>3. HandlerOK([task[c] EXCEPT !.pc = "netinfo", !.inst = i])
      BY <1>0, <1>3, <3>2 DEF DockerRun, HandlerOK, Task
    <3> QED  BY <3>1, <3>2, <3>3, HoldOK
  <2>2. CASE Answer(c, "error")
    BY <1>0, <2>2, AnswerType DEF Answers
  <2> QED  BY <1>3, <2>1, <2>2 DEF DockerRun
<1>4. CASE NetworkInfo(c)
  <2>1. HandlerOK([task[c] EXCEPT !.pc = "monitor"])
    BY <1>0, <1>4 DEF NetworkInfo, HandlerOK, Task
  <2> QED  BY <1>0, <1>4, <2>1, GotoOK, AnswerType DEF NetworkInfo, Answers
<1>5. CASE InstallMonitor(c)
  <2>1. HandlerOK([task[c] EXCEPT !.pc = "install"])
    BY <1>0, <1>5 DEF InstallMonitor, HandlerOK, Task
  <2> QED  BY <1>5, <2>1, GotoOK DEF InstallMonitor
<1>6. CASE InstallActive(c)
  <2>1. HandlerOK([task[c] EXCEPT !.pc = "lookup"])
    BY <1>0, <1>6 DEF InstallActive, HandlerOK, Task
  <2> QED  BY <1>6, <2>1, GotoOK DEF InstallActive
<1>7. CASE RegisterLookup(c)
  <2>1. HandlerOK([task[c] EXCEPT !.pc = "put"])
    BY <1>0, <1>7 DEF RegisterLookup, HandlerOK, Task
  <2> QED  BY <1>0, <1>7, <2>1, GotoOK, AnswerType DEF RegisterLookup, Answers
<1>8. CASE RegisterPut(c)
  <2>1. HandlerOK([task[c] EXCEPT !.pc = "flush"])
    BY <1>0, <1>8 DEF RegisterPut, HandlerOK, Task
  <2> QED  BY <1>8, <2>1, GotoOK DEF RegisterPut
<1>9. CASE RegisterFlush(c)
  BY <1>0, <1>9, AnswerType DEF RegisterFlush, Answers
<1> QED
  BY StartStep(c), <1>1, <1>2, <1>3, <1>4, <1>5, <1>6, <1>7, <1>8, <1>9 DEF StartStep

LEMMA StopTask ==
  ASSUME NEW c \in Clients, TypeInv, StopStep(c)
  PROVE  OnlyTask(c)
<1> USE DEF TypeInv, TypeOK, At, Svc, Inst, Labels, StartLabels, StopLabels
<1>0. HandlerOK(task[c]) /\ task[c] \in Task /\ task \in [Clients -> Task]
  BY DEF TaskOK
<1>1. task[c].pc \in StopLabels =>
        \A l \in {"unmonitor", "mark"} : HandlerOK([task[c] EXCEPT !.pc = l])
  BY <1>0 DEF HandlerOK, Task
<1>2. task[c].pc = "inspect" => HandlerOK([task[c] EXCEPT !.pc = "dstop"])
  BY <1>0 DEF HandlerOK, Task
<1>3. task[c].pc = "dstop" => HandlerOK([task[c] EXCEPT !.pc = "drm"])
  BY <1>0 DEF HandlerOK, Task
<1>4. CASE Kill(c)
  BY <1>1, <1>4, GotoOK DEF Kill
<1>5. CASE Inspect(c)
  BY <1>0, <1>1, <1>2, <1>5, GotoOK, AnswerType DEF Inspect, Answers
<1>6. CASE DockerStop(c)
  BY <1>0, <1>1, <1>3, <1>6, GotoOK, AnswerType DEF DockerStop, Answers
<1>7. CASE DockerRm(c)
  BY <1>0, <1>1, <1>7, GotoOK, AnswerType DEF DockerRm, Answers
<1>8. CASE Unmonitor(c)
  BY <1>1, <1>8, GotoOK DEF Unmonitor
<1>9. CASE MarkStopped(c)
  BY <1>0, <1>9, AnswerType DEF MarkStopped, Answers
<1> QED
  BY StopStep(c), <1>4, <1>5, <1>6, <1>7, <1>8, <1>9 DEF StopStep

LEMMA RequestTask ==
  ASSUME NEW c \in Clients, TypeInv, Request(c)
  PROVE  OnlyTask(c)
<1> USE DEF TypeInv, TypeOK
<1>0. task \in [Clients -> Task] /\ Kind \in [Names -> {"process", "docker", "remote"}]
  BY NamesAssumption
<1>1. ASSUME NEW n \in Names, BeginStart(c, n)  PROVE OnlyTask(c)
  <2>1. CASE Answer(c, "exists") \/ Answer(c, "error")
    BY <1>0, <2>1, AnswerType DEF Answers
  <2>2. CASE Kind[n] # "remote" /\ task' = [task EXCEPT ![c] = [IdleTask EXCEPT
                     !.pc = IF Kind[n] = "docker" THEN "detect" ELSE "launch", !.svc = n]]
    BY <1>0, <2>2 DEF OnlyTask, HandlerOK, Task, IdleTask, Labels, Answers, StartLabels, StopLabels
  <2> QED  BY <1>1, <2>1, <2>2 DEF BeginStart
<1>2. ASSUME NEW n \in Names, BeginStop(c, n)  PROVE OnlyTask(c)
  <2>1. CASE Answer(c, "notfound")
    BY <1>0, <2>1, AnswerType DEF Answers
  <2>2. CASE active[n] # None /\ task' = [task EXCEPT ![c] = [IdleTask EXCEPT
                     !.pc = IF Kind[n] = "docker" THEN "inspect" ELSE "kill",
                     !.svc = n, !.inst = active[n]]]
    <3>1. active[n] \in Instances /\ Kind[n] # "remote"
      BY <2>2 DEF NoRemote
    <3> QED
      BY <1>0, <2>2, <3>1 DEF OnlyTask, HandlerOK, Task, IdleTask, Labels, Answers, StartLabels, StopLabels
  <2> QED  BY <1>2, <2>1, <2>2 DEF BeginStop
<1>3. ASSUME NEW n \in Names, BeginStatus(c, n)  PROVE OnlyTask(c)
  <2>1. PICK q \in ServiceState \cup {None} :
          task' = [task EXCEPT ![c] = [IdleTask EXCEPT !.pc = "status", !.svc = n, !.seen = q]]
    <3>1. (IF registry[n] = None THEN None ELSE registry[n].state) \in ServiceState \cup {None}
      BY DEF Entry
    <3> QED  BY <1>3, <3>1 DEF BeginStatus
  <2> QED
    BY <1>0, <2>1 DEF OnlyTask, HandlerOK, Task, IdleTask, Labels, Answers, StartLabels, StopLabels
<1>4. ASSUME BeginHealthRun(c)  PROVE OnlyTask(c)
  BY <1>0, <1>4 DEF BeginHealthRun, OnlyTask, HandlerOK, Task, IdleTask, Labels, Answers, StartLabels, StopLabels
<1> QED
  BY <1>1, <1>2, <1>3, <1>4 DEF Request

LEMMA QueryTask ==
  ASSUME NEW c \in Clients, TypeInv, QueryStep(c) \/ HealthVerdict(c)
  PROVE  OnlyTask(c)
<1> USE DEF TypeInv, TypeOK, At, Svc, Inst, Labels, StartLabels, StopLabels
<1>0. HandlerOK(task[c]) /\ task[c] \in Task /\ task \in [Clients -> Task]
  BY DEF TaskOK
<1>1. CASE CheckActive(c)
  <2>1. HandlerOK([task[c] EXCEPT !.pc = "report"])
    BY <1>0, <1>1 DEF CheckActive, HandlerOK, Task
  <2>2. CASE Goto(c, "report")
    BY <2>1, <2>2, GotoOK
  <2>3. ASSUME NEW a \in Answers, Answer(c, a)  PROVE OnlyTask(c)
    BY <1>0, <2>3, AnswerType
  <2> QED  BY <1>1, <2>2, <2>3 DEF CheckActive, Answers
<1>2. CASE EndStatus(c)
  BY <1>0, <1>2, AnswerType DEF EndStatus, Answers
<1>3. CASE PollNext(c)
  <2>1. CASE Answer(c, "checked")
    BY <1>0, <2>1, AnswerType DEF Answers
  <2>2. ASSUME NEW n \in Names,
               \/ task' = [task EXCEPT ![c].todo = Remaining(c, n)]
               \/ /\ monitors[n] # None
                  /\ task' = [task EXCEPT ![c].todo = Remaining(c, n), ![c].pc = "health",
                                          ![c].svc = n, ![c].inst = monitors[n].of]
        PROVE  OnlyTask(c)
    <3>1. Remaining(c, n) \in SUBSET Names
      BY <1>0 DEF Remaining, Task
    <3>2. CASE task' = [task EXCEPT ![c].todo = Remaining(c, n)]
      <4>1. task'[c] \in Task /\ task'[c].pc = "poll"
        BY <1>0, <1>3, <3>1, <3>2 DEF PollNext, Task
      <4>2. HandlerOK(task'[c])
        BY <4>1 DEF HandlerOK
      <4> QED  BY <1>0, <3>2, <4>1, <4>2 DEF OnlyTask
    <3>3. CASE /\ monitors[n] # None
               /\ task' = [task EXCEPT ![c].todo = Remaining(c, n), ![c].pc = "health",
                                       ![c].svc = n, ![c].inst = monitors[n].of]
      <4>1. monitors[n].of \in Instances
        BY <3>3 DEF Monitor
      <4>2. /\ task' \in [Clients -> Task] /\ task'[c].pc = "health" /\ task'[c].svc = n
            /\ \A e \in Clients \ {c} : task'[e] = task[e]
        BY <1>0, <3>1, <3>3, <4>1 DEF Task
      <4>3. HandlerOK(task'[c])
        BY <4>2 DEF HandlerOK
      <4> QED  BY <4>2, <4>3 DEF OnlyTask
    <3> QED  BY <2>2, <3>2, <3>3
  <2> QED
    BY <1>0, <1>3, <2>1, <2>2 DEF PollNext, Task
<1>4. CASE HealthVerdict(c)
  <2>1. HandlerOK([task[c] EXCEPT !.pc = "poll"])
    BY <1>0, <1>4 DEF HealthVerdict, HandlerOK, Task
  <2> QED  BY <1>4, <2>1, GotoOK DEF HealthVerdict
<1> QED
  BY <1>1, <1>2, <1>3, <1>4 DEF QueryStep

-----------------------------------------------------------------------------
(* Every step keeps the types.  Rest is what TypeInv says of the variables    *)
(* other than task.                                                           *)

Rest ==
  /\ active \in [Names -> Instances \cup {None}]
  /\ monitors \in [Names -> Monitor \cup {None}]
  /\ registry \in [Names -> Entry \cup {None}]
  /\ tracked \subseteq Instances
  /\ life \in [Instances -> LifeStages]
  /\ owner \in [Instances -> Names \cup {None}]
  /\ forgotten \subseteq Instances
  /\ crashes \in 0 .. MaxCrashes
  /\ NoRemote

LEMMA TypeInvIsRest == TypeInv <=> Rest /\ task \in [Clients -> Task] /\ TaskOK
BY DEF TypeInv, TypeOK, Rest

LEMMA StartRest ==
  ASSUME NEW c \in Clients, TypeInv, StartStep(c)
  PROVE  Rest'
<1> USE DEF TypeInv, TypeOK, Rest, NoRemote, At, Svc, Inst
<1>0. HandlerOK(task[c])
  BY DEF TaskOK
<1>1. CASE Launch(c)
  BY <1>0, <1>1 DEF Launch, Spawn, Fresh, HandlerOK, LifeStages
<1>2. CASE Detect(c)
  BY <1>2 DEF Detect, Removed, LifeStages
<1>3. CASE DockerRun(c)
  BY <1>0, <1>3 DEF DockerRun, Spawn, Fresh, Forget, HandlerOK, LifeStages
<1>4. CASE NetworkInfo(c)
  <2>1. Inst(c) \in Instances
    BY <1>0, <1>4 DEF NetworkInfo, HandlerOK, StartLabels, StopLabels
  <2> QED  BY <1>4, <2>1 DEF NetworkInfo, Forget
<1>5. CASE InstallMonitor(c)
  <2>1. Inst(c) \in Instances /\ Svc(c) \in Names
    BY <1>0, <1>5 DEF InstallMonitor, HandlerOK, StartLabels, StopLabels
  <2>2. [failures |-> 0, last |-> "Unknown", of |-> Inst(c)] \in Monitor
    BY <2>1, BoundsAssumption DEF Monitor
  <2> QED  BY <1>5, <2>1, <2>2 DEF InstallMonitor
<1>6. CASE InstallActive(c)
  <2>1. Inst(c) \in Instances /\ Svc(c) \in Names /\ Kind[Svc(c)] # "remote"
    BY <1>0, <1>6 DEF InstallActive, HandlerOK, StartLabels, StopLabels
  <2>2. forgotten' \subseteq Instances
    BY <1>6, <2>1 DEF InstallActive, Forget
  <2> QED  BY <1>6, <2>1, <2>2 DEF InstallActive, StoreActive
<1>7. CASE RegisterLookup(c)
  BY <1>7 DEF RegisterLookup
<1>8. CASE RegisterPut(c)
  <2>1. Inst(c) \in Instances /\ Svc(c) \in Names
    BY <1>0, <1>8 DEF RegisterPut, HandlerOK, StartLabels, StopLabels
  <2>2. [state |-> "Registered", inst |-> Inst(c)] \in Entry
    BY <2>1 DEF Entry, ServiceState
  <2> QED  BY <1>8, <2>1, <2>2 DEF RegisterPut
<1>9. CASE RegisterFlush(c)
  BY <1>9 DEF RegisterFlush
<1> QED
  BY StartStep(c), <1>1, <1>2, <1>3, <1>4, <1>5, <1>6, <1>7, <1>8, <1>9 DEF StartStep

LEMMA StopRest ==
  ASSUME NEW c \in Clients, TypeInv, StopStep(c)
  PROVE  Rest'
<1> USE DEF TypeInv, TypeOK, Rest, NoRemote, At, Svc, Inst
<1>0. HandlerOK(task[c])
  BY DEF TaskOK
<1>1. task[c].pc \in StopLabels => Inst(c) \in Instances /\ Svc(c) \in Names
  BY <1>0 DEF HandlerOK, StopLabels
<1>2. CASE Kill(c)
  BY <1>1, <1>2 DEF Kill, Killed, LifeStages, StopLabels
<1>3. CASE Inspect(c)
  BY <1>1, <1>3 DEF Inspect, Removed, Forget, LifeStages, StopLabels
<1>4. CASE DockerStop(c)
  BY <1>1, <1>4 DEF DockerStop, Forget, LifeStages, StopLabels
<1>5. CASE DockerRm(c)
  BY <1>1, <1>5 DEF DockerRm, Removed, Forget, LifeStages, StopLabels
<1>6. CASE Unmonitor(c)
  BY <1>6 DEF Unmonitor, DropMonitor
<1>7. CASE MarkStopped(c)
  <2>1. \A e \in Entry : [e EXCEPT !.state = "Stopped"] \in Entry
    BY DEF Entry, ServiceState
  <2>2. registry' \in [Names -> Entry \cup {None}]
    <3>1. CASE registry[Svc(c)] # None /\ registry' = [registry EXCEPT ![Svc(c)].state = "Stopped"]
      <4>1. Svc(c) \in Names
        BY <1>1, <1>7 DEF MarkStopped, StopLabels
      <4>2. [registry[Svc(c)] EXCEPT !.state = "Stopped"] \in Entry
        BY <2>1, <3>1, <4>1
      <4> QED  BY <3>1, <4>1, <4>2
    <3> QED  BY <1>7, <3>1 DEF MarkStopped
  <2> QED  BY <1>7, <2>2 DEF MarkStopped
<1> QED
  BY StopStep(c), <1>2, <1>3, <1>4, <1>5, <1>6, <1>7 DEF StopStep

LEMMA RequestRest ==
  ASSUME NEW c \in Clients, TypeInv, Request(c)
  PROVE  Rest'
<1> USE DEF TypeInv, TypeOK, Rest, NoRemote
<1>1. ASSUME NEW n \in Names, BeginStop(c, n)  PROVE Rest'
  BY <1>1 DEF BeginStop, TakeActive
<1> QED
  BY <1>1 DEF Request, BeginStart, BeginStatus, BeginHealthRun

LEMMA RecordedMonitor ==
  ASSUME NEW m \in Monitor, NEW verdict \in Verdicts,
         verdict = "Unhealthy" => m.failures < MaxFailures
  PROVE  RecordVerdict(m, verdict) \in Monitor
<1>1. m.failures \in 0 .. MaxFailures /\ m.of \in Instances
  BY DEF Monitor
<1>2. (IF verdict = "Healthy" THEN 0 ELSE m.failures + 1) \in 0 .. MaxFailures
  BY <1>1, BoundsAssumption DEF Verdicts
<1> QED
  BY <1>1, <1>2 DEF RecordVerdict, Verdicts, Monitor

LEMMA VerdictRest ==
  ASSUME NEW c \in Clients, TypeInv, HealthVerdict(c)
  PROVE  Rest'
<1> USE DEF TypeInv, TypeOK, Rest, NoRemote, At, Svc
<1>0. HandlerOK(task[c])
  BY DEF TaskOK
<1>1. Svc(c) \in Names
  BY <1>0 DEF HealthVerdict, HandlerOK
<1>2. PICK verdict \in Verdicts :
        /\ (monitors[Svc(c)] # None /\ verdict = "Unhealthy") =>
             monitors[Svc(c)].failures < MaxFailures
        /\ monitors' = IF monitors[Svc(c)] = None THEN monitors
                       ELSE [monitors EXCEPT ![Svc(c)] = RecordVerdict(@, verdict)]
  BY DEF HealthVerdict
<1>3. CASE monitors[Svc(c)] = None
  BY <1>2, <1>3 DEF HealthVerdict
<1>4. CASE monitors[Svc(c)] # None
  <2>1. monitors[Svc(c)] \in Monitor
    BY <1>1, <1>4
  <2>2. RecordVerdict(monitors[Svc(c)], verdict) \in Monitor
    BY <1>2, <1>4, <2>1, RecordedMonitor
  <2> QED  BY <1>1, <1>2, <1>4, <2>2 DEF HealthVerdict
<1> QED  BY <1>3, <1>4

LEMMA TypeInvStep == TypeInv /\ [Next]_vars => TypeInv'
<1> SUFFICES ASSUME TypeInv, [Next]_vars  PROVE TypeInv'
  OBVIOUS
<1>1. ASSUME NEW c \in Clients, OnlyTask(c), Rest'  PROVE TypeInv'
  BY <1>1, OnlyTaskOK DEF TypeInv, TypeOK, Rest, OnlyTask
<1>2. ASSUME NEW c \in Clients, Request(c)  PROVE TypeInv'
  BY <1>1, <1>2, RequestTask, RequestRest
<1>3. ASSUME NEW c \in Clients, StartStep(c)  PROVE TypeInv'
  BY <1>1, <1>3, StartTask, StartRest
<1>4. ASSUME NEW c \in Clients, StopStep(c)  PROVE TypeInv'
  BY <1>1, <1>4, StopTask, StopRest
<1>5. ASSUME NEW c \in Clients, QueryStep(c)  PROVE TypeInv'
  <2>1. Rest'
    BY <1>5 DEF QueryStep, CheckActive, EndStatus, PollNext, TypeInv, TypeOK, Rest, NoRemote
  <2> QED  BY <1>1, <1>5, <2>1, QueryTask
<1>6. ASSUME NEW c \in Clients, HealthVerdict(c)  PROVE TypeInv'
  BY <1>1, <1>6, QueryTask, VerdictRest
<1>7. ASSUME NEW i \in Instances, Exit(i)  PROVE TypeInv'
  BY <1>7 DEF Exit, TypeInv, TypeOK, TaskOK, HandlerOK, NoRemote, LifeStages
<1>8. CASE Crash
  <2>1. task' \in [Clients -> Task] /\ TaskOK'
    BY <1>8, IdleIsTask DEF Crash, TaskOK, HandlerOK
  <2>2. crashes' \in 0 .. MaxCrashes
    BY <1>8, BoundsAssumption DEF Crash, TypeInv, TypeOK
  <2>3. registry' \in [Names -> Entry \cup {None}]
    BY <1>8 DEF Crash, TypeInv, TypeOK
  <2>4. forgotten' \subseteq Instances
    BY <1>8 DEF Crash, Forget, TypeInv, TypeOK
  <2> QED
    BY <1>8, <2>1, <2>2, <2>3, <2>4 DEF Crash, TypeInv, TypeOK, NoRemote
<1>9. CASE UNCHANGED vars
  BY <1>9 DEF vars, TypeInv, TypeOK, TaskOK, HandlerOK, NoRemote
<1> QED
  BY <1>2, <1>3, <1>4, <1>5, <1>6, <1>7, <1>8, <1>9 DEF Next

\* Type correctness: every variable of the manager, the executors and the
\* handlers keeps its type in every reachable state.
THEOREM TypeCorrect == Spec => []TypeOK
<1>1. TypeInv => TypeOK
  BY DEF TypeInv
<1> QED
  BY <1>1, InitTypeInv, TypeInvStep, PTL DEF Spec

-----------------------------------------------------------------------------
(* An instance never comes back: once spawned it is not unborn, once ended it *)
(* does not run again.                                                        *)

Ended(i) == life[i] \in {"exited", "gone"}

LifeForward ==
  \A i \in Instances : /\ life[i] # "unborn" => life'[i] # "unborn"
                       /\ Ended(i) => Ended(i)'

LEMMA LifeOnlyForward == TypeInv /\ [Next]_vars => LifeForward
<1> SUFFICES ASSUME TypeInv, [Next]_vars  PROVE LifeForward
  OBVIOUS
<1> USE DEF TypeInv, TypeOK, LifeForward, Ended
<1>1. ASSUME NEW c \in Clients, StartStep(c)  PROVE LifeForward
  <2>1. CASE Launch(c)
    BY <2>1 DEF Launch, Spawn, Fresh
  <2>2. CASE Detect(c)
    BY <2>2 DEF Detect, Removed
  <2>3. CASE DockerRun(c)
    BY <2>3 DEF DockerRun, Spawn, Fresh
  <2> QED
    BY <1>1, <2>1, <2>2, <2>3
       DEF StartStep, NetworkInfo, InstallMonitor, InstallActive, RegisterLookup, RegisterPut,
           RegisterFlush
<1>2. ASSUME NEW c \in Clients, StopStep(c)  PROVE LifeForward
  <2>1. CASE Kill(c)
    BY <2>1 DEF Kill, Killed
  <2>2. CASE Inspect(c)
    BY <2>2 DEF Inspect, Removed
  <2>3. CASE DockerStop(c)
    <3>1. CASE UNCHANGED life
      BY <3>1
    <3>2. CASE life[Inst(c)] # "gone" /\ life' = [life EXCEPT ![Inst(c)] = "exited"]
      BY <3>2
    <3> QED  BY <2>3, <3>1, <3>2 DEF DockerStop
  <2>4. CASE DockerRm(c)
    BY <2>4 DEF DockerRm, Removed
  <2> QED
    BY <1>2, <2>1, <2>2, <2>3, <2>4 DEF StopStep, Unmonitor, MarkStopped
<1>3. ASSUME NEW i \in Instances, Exit(i)  PROVE LifeForward
  BY <1>3 DEF Exit
<1>4. ASSUME UNCHANGED life  PROVE LifeForward
  BY <1>4
<1> QED
  BY <1>1, <1>2, <1>3, <1>4
     DEF Next, Request, BeginStart, BeginStop, BeginStatus, BeginHealthRun, QueryStep,
         CheckActive, EndStatus, PollNext, HealthVerdict, Crash, vars

-----------------------------------------------------------------------------
(* One owner for every process.                                               *)

OwnerInv == TypeInv /\ TrackedBorn /\ OneOwner

LEMMA InitOwnerInv == Init => OwnerInv
BY InitTypeInv DEF Init, OwnerInv, TrackedBorn, OneOwner, ProcessHolder, IdleTask

\* A step that neither touches active nor drops a handle, and after which c holds
\* a process only if it held the same one before, keeps OneOwner.
LEMMA OwnerKept ==
  ASSUME NEW c \in Clients, OwnerInv, OnlyTask(c), UNCHANGED <<active, tracked>>,
         \A j \in Instances : life[j] # "unborn" => owner'[j] = owner[j],
         ProcessHolder(c)' =>
           ProcessHolder(c) /\ task'[c].svc = task[c].svc /\ task'[c].inst = task[c].inst
  PROVE  OneOwner'
<1> USE DEF OwnerInv, Svc, Inst, TypeInv, TypeOK
<1>1. \A j \in tracked : owner'[j] = owner[j]
  BY DEF TrackedBorn
<1>2. \A e \in Clients \ {c} : task'[e] = task[e]
  BY DEF OnlyTask
<1>3. \A e \in Clients : ProcessHolder(e)' =>
        ProcessHolder(e) /\ task'[e].svc = task[e].svc /\ task'[e].inst = task[e].inst
  BY <1>2 DEF ProcessHolder
<1>4. ASSUME NEW n \in Names, Kind[n] = "process", active'[n] # None
      PROVE  active'[n] \in tracked' /\ owner'[active'[n]] = n
  BY <1>1, <1>4 DEF OneOwner
<1>5. ASSUME NEW e \in Clients, ProcessHolder(e)'
      PROVE  /\ task'[e].inst \in tracked' /\ owner'[task'[e].inst] = task'[e].svc
             /\ \A f \in Clients \ {e} : ProcessHolder(f)' => task'[f].inst # task'[e].inst
             /\ active'[task'[e].svc] # task'[e].inst
  BY <1>1, <1>3, <1>5 DEF OneOwner
<1> QED
  BY <1>4, <1>5 DEF OneOwner

LEMMA OwnerStart ==
  ASSUME NEW c \in Clients, OwnerInv, StartStep(c)
  PROVE  OneOwner'
<1> USE DEF OwnerInv, TypeInv, TypeOK, At, Svc, Inst
<1>0. OnlyTask(c) /\ HandlerOK(task[c])
  BY StartTask DEF TaskOK
<1>1. CASE Launch(c)
  <2>1. CASE Answer(c, "error") /\ UNCHANGED <<life, owner, tracked>>
    <3>1. task'[c].pc = "idle"
      BY <2>1, AnswerType DEF Answers
    <3> QED  BY <1>0, <1>1, <2>1, <3>1, OwnerKept DEF Launch, ProcessHolder
  <2>2. CASE \E i \in Fresh : /\ Spawn(c, i, "running") /\ tracked' = tracked \cup {i}
                             /\ Hold(c, i, "monitor")
    <3>1. PICK i \in Fresh : /\ Spawn(c, i, "running") /\ tracked' = tracked \cup {i}
                             /\ Hold(c, i, "monitor")
      BY <2>2
    <3>2. i \in Instances /\ i \notin tracked /\ i # None
      BY NamesAssumption DEF Fresh, TrackedBorn
    <3>3. task[c].svc \in Names /\ Kind[task[c].svc] = "process"
      BY <1>0, <1>1 DEF Launch, HandlerOK
    <3>4. /\ task'[c].svc = task[c].svc /\ task'[c].inst = i /\ task'[c].pc = "monitor"
          /\ \A e \in Clients \ {c} : task'[e] = task[e]
      <4>1. "monitor" \in Labels /\ task[c] \in Task /\ task \in [Clients -> Task]
        BY DEF Labels, StartLabels
      <4>2. /\ task'[c] = [task[c] EXCEPT !.pc = "monitor", !.inst = i]
            /\ \A e \in Clients \ {c} : task'[e] = task[e]
        BY <3>1, <3>2, <4>1 DEF Hold
      <4> QED  BY <4>1, <4>2 DEF Task
    <3>5. owner'[i] = task[c].svc /\ \A j \in tracked : owner'[j] = owner[j]
      BY <3>1, <3>2 DEF Spawn
    <3>6. UNCHANGED active
      BY <1>1 DEF Launch
    <3>7. \A n \in Names : (Kind[n] = "process" /\ active'[n] # None) =>
            active'[n] \in tracked' /\ owner'[active'[n]] = n
      BY <3>1, <3>5, <3>6 DEF OneOwner
    <3>8. ASSUME NEW e \in Clients, ProcessHolder(e)'
          PROVE  /\ task'[e].inst \in tracked' /\ owner'[task'[e].inst] = task'[e].svc
                 /\ \A f \in Clients \ {e} : ProcessHolder(f)' => task'[f].inst # task'[e].inst
                 /\ active'[task'[e].svc] # task'[e].inst
      <4>1. \A f \in Clients \ {c} : ProcessHolder(f)' =>
              ProcessHolder(f) /\ task'[f] = task[f] /\ task[f].inst \in tracked
        BY <3>4 DEF ProcessHolder, OneOwner
      <4>2. CASE e = c
        <5>1. active[task[c].svc] # i
          BY <3>2, <3>3 DEF OneOwner
        <5> QED  BY <3>1, <3>2, <3>4, <3>5, <3>6, <4>1, <4>2, <5>1
      <4>3. CASE e # c
        BY <3>1, <3>2, <3>4, <3>5, <3>6, <3>8, <4>1, <4>3 DEF OneOwner
      <4> QED  BY <4>2, <4>3
    <3> QED  BY <3>7, <3>8 DEF OneOwner
  <2> QED  BY <1>1, <2>1, <2>2 DEF Launch
<1>2. CASE InstallActive(c)
  <2>1. /\ task'[c].pc = "lookup"
        /\ \A e \in Clients \ {c} : task'[e] = task[e]
    BY <1>2, GotoType DEF InstallActive, Labels, StartLabels, Task
  <2>2. /\ task[c].svc \in Names /\ task[c].inst \in Instances /\ UNCHANGED <<tracked, owner>>
        /\ active' = [active EXCEPT ![task[c].svc] = task[c].inst]
    BY <1>0, <1>2 DEF InstallActive, StoreActive, HandlerOK, StartLabels, StopLabels
  <2>3. \A e \in Clients : ProcessHolder(e)' => e # c /\ ProcessHolder(e) /\ task'[e] = task[e]
    BY <2>1 DEF ProcessHolder
  <2>4. Kind[task[c].svc] = "process" => ProcessHolder(c)
    BY <1>2 DEF InstallActive, ProcessHolder
  <2>5. ASSUME NEW n \in Names, Kind[n] = "process", active'[n] # None
        PROVE  active'[n] \in tracked' /\ owner'[active'[n]] = n
    BY <2>2, <2>4, <2>5 DEF OneOwner
  <2>6. ASSUME NEW e \in Clients, ProcessHolder(e)'
        PROVE  /\ task'[e].inst \in tracked' /\ owner'[task'[e].inst] = task'[e].svc
               /\ \A f \in Clients \ {e} : ProcessHolder(f)' => task'[f].inst # task'[e].inst
               /\ active'[task'[e].svc] # task'[e].inst
    <3>1. ProcessHolder(e) /\ e # c /\ task'[e] = task[e]
      BY <2>3, <2>6
    <3>2. active'[task[e].svc] # task[e].inst
      <4>1. CASE task[e].svc = task[c].svc
        <5>1. ProcessHolder(c)
          BY <2>4, <3>1, <4>1 DEF ProcessHolder
        <5> QED  BY <2>2, <3>1, <4>1, <5>1 DEF OneOwner
      <4>2. CASE task[e].svc # task[c].svc
        BY <2>2, <3>1, <4>2 DEF OneOwner
      <4> QED  BY <4>1, <4>2
    <3> QED  BY <2>2, <2>3, <3>1, <3>2 DEF OneOwner
  <2> QED  BY <2>5, <2>6 DEF OneOwner
<1>3. CASE Detect(c) \/ DockerRun(c) \/ NetworkInfo(c)
  <2>1. Kind[task[c].svc] = "docker" /\ UNCHANGED <<active, tracked>>
    BY <1>0, <1>3 DEF Detect, DockerRun, NetworkInfo, HandlerOK
  <2>2. \A j \in Instances : life[j] # "unborn" => owner'[j] = owner[j]
    BY <1>3 DEF Detect, DockerRun, NetworkInfo, Spawn, Fresh
  <2>3. task'[c].pc = "idle" \/ task'[c].svc = task[c].svc
    <3>1. \A i \in Fresh \cup Detected(Svc(c)) : i \in Instances
      BY DEF Fresh, Detected, ContainerOf
    <3>2. ASSUME NEW l \in Labels, Goto(c, l)  PROVE task'[c].svc = task[c].svc
      BY <3>2, GotoType DEF Task
    <3>3. ASSUME NEW i \in Instances, Hold(c, i, "netinfo")  PROVE task'[c].svc = task[c].svc
      BY <3>3, HoldType DEF Labels, StartLabels, Task
    <3>4. ASSUME Answer(c, "error")  PROVE task'[c].pc = "idle"
      BY <3>4, AnswerType DEF Answers
    <3>5. {"run", "monitor"} \subseteq Labels
      BY DEF Labels, StartLabels
    <3> QED  BY <1>3, <3>1, <3>2, <3>3, <3>4, <3>5 DEF Detect, DockerRun, NetworkInfo
  <2>4. ~ ProcessHolder(c)'
    BY <2>1, <2>3 DEF ProcessHolder
  <2> QED  BY <1>0, <2>1, <2>2, <2>4, OwnerKept
<1>4. CASE InstallMonitor(c)
  <2>1. task'[c].svc = task[c].svc /\ task'[c].inst = task[c].inst
    BY <1>4, GotoType DEF InstallMonitor, Labels, StartLabels, Task
  <2>2. ProcessHolder(c)' => ProcessHolder(c)
    BY <1>4, <2>1 DEF InstallMonitor, ProcessHolder
  <2> QED  BY <1>0, <1>4, <2>1, <2>2, OwnerKept DEF InstallMonitor
<1>5. CASE RegisterLookup(c) \/ RegisterPut(c) \/ RegisterFlush(c)
  <2>1. task'[c].pc \in {"put", "flush", "idle"}
    <3>1. ASSUME NEW l \in {"put", "flush"}, Goto(c, l)  PROVE task'[c].pc = l
      <4>1. l \in Labels /\ task[c] \in Task
        BY DEF Labels, StartLabels
      <4> QED  BY <3>1, <4>1, GotoType DEF Task
    <3>2. ASSUME Answer(c, "started")  PROVE task'[c].pc = "idle"
      BY <3>2, AnswerType DEF Answers
    <3> QED  BY <1>5, <3>1, <3>2 DEF RegisterLookup, RegisterPut, RegisterFlush
  <2>2. ~ ProcessHolder(c)'
    BY <2>1 DEF ProcessHolder
  <2> QED
    BY <1>0, <1>5, <2>2, OwnerKept DEF RegisterLookup, RegisterPut, RegisterFlush
<1> QED
  BY StartStep(c), <1>1, <1>2, <1>3, <1>4, <1>5 DEF StartStep

LEMMA OwnerStop ==
  ASSUME NEW c \in Clients, OwnerInv, StopStep(c)
  PROVE  OneOwner'
<1> USE DEF OwnerInv, TypeInv, TypeOK, At, Svc, Inst
<1>0. OnlyTask(c) /\ HandlerOK(task[c])
  BY StopTask DEF TaskOK
<1>1. task'[c].pc \in {"unmonitor", "mark", "dstop", "drm", "idle"}
  <2>1. ASSUME NEW l \in {"unmonitor", "mark", "dstop", "drm"}, Goto(c, l)  PROVE task'[c].pc = l
    <3>1. l \in Labels /\ task[c] \in Task
      BY DEF Labels, StopLabels
    <3> QED  BY <2>1, <3>1, GotoType DEF Task
  <2>2. ASSUME NEW a \in {"error", "stopped"}, Answer(c, a)  PROVE task'[c].pc = "idle"
    BY <2>2, AnswerType DEF Answers
  <2> QED
    BY StopStep(c), <2>1, <2>2
       DEF StopStep, Kill, Inspect, DockerStop, DockerRm, Unmonitor, MarkStopped
<1>2. ~ ProcessHolder(c)'
  BY <1>1 DEF ProcessHolder
<1>3. CASE Kill(c)
  <2>1. ProcessHolder(c)
    BY <1>0, <1>3 DEF Kill, HandlerOK, ProcessHolder
  <2>2. UNCHANGED <<active, owner>> /\ tracked' = tracked \ {task[c].inst}
    BY <1>3 DEF Kill
  <2>3. \A e \in Clients : ProcessHolder(e)' => e # c /\ ProcessHolder(e) /\ task'[e] = task[e]
    BY <1>0, <1>2 DEF OnlyTask, ProcessHolder
  <2>4. \A n \in Names : (Kind[n] = "process" /\ active[n] # None) => active[n] # task[c].inst
    BY <2>1 DEF OneOwner
  <2> QED
    BY <2>1, <2>2, <2>3, <2>4 DEF OneOwner
<1>4. CASE ~ Kill(c)
  BY StopStep(c), <1>0, <1>2, <1>4, OwnerKept
     DEF StopStep, Inspect, DockerStop, DockerRm, Unmonitor, MarkStopped
<1> QED  BY <1>3, <1>4

LEMMA OwnerRequest ==
  ASSUME NEW c \in Clients, OwnerInv, Request(c)
  PROVE  OneOwner'
<1> USE DEF OwnerInv, TypeInv, TypeOK, Svc, Inst
<1>0. OnlyTask(c)
  BY RequestTask
<1>1. ASSUME NEW n \in Names, BeginStop(c, n), active[n] # None  PROVE OneOwner'
  <2>1. /\ active' = [active EXCEPT ![n] = None] /\ UNCHANGED <<tracked, owner>>
        /\ task'[c].svc = n /\ task'[c].inst = active[n]
        /\ \A e \in Clients \ {c} : task'[e] = task[e]
    <3>1. /\ active' = [active EXCEPT ![n] = None] /\ UNCHANGED <<tracked, owner>>
          /\ \A e \in Clients \ {c} : task'[e] = task[e]
      BY <1>1 DEF BeginStop, TakeActive
    <3> DEFINE r == [IdleTask EXCEPT !.pc = IF Kind[n] = "docker" THEN "inspect" ELSE "kill",
                                     !.svc = n, !.inst = active[n]]
    <3>2. task'[c] = r
      BY <1>1 DEF BeginStop
    <3>3. r.svc = n /\ r.inst = active[n]
      BY DEF IdleTask
    <3> HIDE DEF r
    <3> QED  BY <3>1, <3>2, <3>3
  <2>2. active[n] \in Instances
    BY <1>1
  <2>3. ProcessHolder(c)' => Kind[n] = "process"
    BY <2>1 DEF ProcessHolder
  <2>4. \A e \in Clients \ {c} : ProcessHolder(e)' => ProcessHolder(e) /\ task'[e] = task[e]
    BY <2>1 DEF ProcessHolder
  <2>5. Kind[n] = "process" =>
          /\ active[n] \in tracked /\ owner[active[n]] = n
          /\ \A e \in Clients : ProcessHolder(e) => task[e].inst # active[n]
    BY <1>1 DEF OneOwner
  <2>6. ASSUME NEW m \in Names, Kind[m] = "process", active'[m] # None
        PROVE  active'[m] \in tracked' /\ owner'[active'[m]] = m
    BY <2>1, <2>6 DEF OneOwner
  <2>7. ASSUME NEW e \in Clients, ProcessHolder(e)'
        PROVE  /\ task'[e].inst \in tracked' /\ owner'[task'[e].inst] = task'[e].svc
               /\ \A f \in Clients \ {e} : ProcessHolder(f)' => task'[f].inst # task'[e].inst
               /\ active'[task'[e].svc] # task'[e].inst
    <3>1. CASE e = c
      BY <2>1, <2>2, <2>3, <2>4, <2>5, <2>7, <3>1, NamesAssumption
    <3>2. CASE e # c
      <4>1. ProcessHolder(e) /\ task'[e] = task[e]
        BY <2>4, <2>7, <3>2
      <4>2. active'[task[e].svc] # task[e].inst
        <5>1. task[e].inst \in tracked /\ active[task[e].svc] # task[e].inst
          BY <4>1 DEF OneOwner
        <5>2. task[e].inst # None
          BY <5>1, NamesAssumption
        <5> QED  BY <2>1, <5>1, <5>2
      <4> QED  BY <2>1, <2>3, <2>4, <2>5, <4>1, <4>2 DEF OneOwner
    <3> QED  BY <3>1, <3>2
  <2> QED  BY <2>6, <2>7 DEF OneOwner
<1>2. CASE UNCHANGED <<active, tracked, owner>> /\ task'[c].pc \notin {"monitor", "install", "kill"}
  <2>1. ~ ProcessHolder(c)'
    BY <1>2 DEF ProcessHolder
  <2> QED  BY <1>0, <1>2, <2>1, OwnerKept
<1>3. ASSUME NEW a \in Answers, Answer(c, a)  PROVE task'[c].pc = "idle"
  BY <1>3, AnswerType
<1>4. ASSUME NEW n \in Names, BeginStart(c, n)  PROVE OneOwner'
  <2>1. UNCHANGED <<active, tracked, owner>>
    BY <1>4 DEF BeginStart
  <2>2. CASE AlreadyActive(n) \/ Kind[n] = "remote"
    <3>1. Answer(c, "exists") \/ Answer(c, "error")
      BY <1>4, <2>2 DEF BeginStart
    <3> QED  BY <1>2, <1>3, <2>1, <3>1 DEF Answers
  <2>3. CASE ~ AlreadyActive(n) /\ Kind[n] # "remote"
    <3>1. task'[c].pc \in {"detect", "launch"}
      BY <1>4, <2>3 DEF BeginStart, IdleTask
    <3> QED  BY <1>2, <2>1, <3>1
  <2> QED  BY <2>2, <2>3
<1>5. ASSUME NEW n \in Names, BeginStop(c, n), active[n] = None  PROVE OneOwner'
  BY <1>2, <1>3, <1>5 DEF BeginStop, Answers
<1>6. ASSUME NEW n \in Names, BeginStatus(c, n)  PROVE OneOwner'
  BY <1>2, <1>6 DEF BeginStatus, IdleTask
<1>7. CASE BeginHealthRun(c)
  BY <1>2, <1>7 DEF BeginHealthRun, IdleTask
<1> QED  BY Request(c), <1>1, <1>4, <1>5, <1>6, <1>7 DEF Request

LEMMA OwnerQuery ==
  ASSUME NEW c \in Clients, OwnerInv, QueryStep(c) \/ HealthVerdict(c)
  PROVE  OneOwner'
<1> USE DEF OwnerInv, TypeInv, TypeOK, At
<1>0. OnlyTask(c)
  BY QueryTask
<1>1. ASSUME NEW l \in {"report", "poll"}, Goto(c, l)  PROVE task'[c].pc = l
  <2>1. l \in Labels /\ task[c] \in Task
    BY DEF Labels
  <2> QED  BY <1>1, <2>1, GotoType DEF Task
<1>2. ASSUME NEW a \in Answers, Answer(c, a)  PROVE task'[c].pc = "idle"
  BY <1>2, AnswerType
<1>3. task'[c].pc \in {"idle", "report", "poll", "health"}
  <2>1. CASE CheckActive(c)
    BY <1>1, <1>2, <2>1 DEF CheckActive, Answers
  <2>2. CASE EndStatus(c)
    BY <1>2, <2>2 DEF EndStatus, Answers
  <2>3. CASE PollNext(c)
    <3>1. CASE Answer(c, "checked")
      BY <1>2, <3>1 DEF Answers
    <3>2. ASSUME NEW n \in task[c].todo,
                 \/ task' = [task EXCEPT ![c].todo = Remaining(c, n)]
                 \/ task' = [task EXCEPT ![c].todo = Remaining(c, n), ![c].pc = "health",
                                         ![c].svc = n, ![c].inst = monitors[n].of]
          PROVE  task'[c].pc \in {"poll", "health"}
      <4>1. task[c] \in Task /\ task[c].pc = "poll"
        BY <2>3 DEF PollNext
      <4> QED  BY <3>2, <4>1 DEF Task
    <3> QED  BY <2>3, <3>1, <3>2 DEF PollNext
  <2>4. CASE HealthVerdict(c)
    BY <1>1, <2>4 DEF HealthVerdict
  <2> QED  BY <2>1, <2>2, <2>3, <2>4 DEF QueryStep
<1>4. ~ ProcessHolder(c)'
  BY <1>3 DEF ProcessHolder
<1> QED
  BY <1>0, <1>4, OwnerKept DEF QueryStep, CheckActive, EndStatus, PollNext, HealthVerdict

LEMMA TrackedBornStep == OwnerInv /\ [Next]_vars => TrackedBorn'
<1> SUFFICES ASSUME OwnerInv, [Next]_vars  PROVE TrackedBorn'
  OBVIOUS
<1> USE DEF OwnerInv, TypeInv, TypeOK, TrackedBorn
<1>1. LifeForward
  BY LifeOnlyForward
<1>2. ASSUME tracked' \subseteq tracked  PROVE TrackedBorn'
  BY <1>1, <1>2 DEF LifeForward
<1>3. ASSUME NEW c \in Clients, Launch(c)  PROVE TrackedBorn'
  <2>1. CASE \E i \in Fresh : Spawn(c, i, "running") /\ tracked' = tracked \cup {i}
    BY <2>1 DEF Spawn, Fresh
  <2> QED  BY <1>2, <1>3, <2>1 DEF Launch
<1> QED
  BY <1>2, <1>3
     DEF Next, Request, BeginStart, BeginStop, BeginStatus, BeginHealthRun, StartStep, Detect,
         DockerRun, NetworkInfo, InstallMonitor, InstallActive, RegisterLookup, RegisterPut,
         RegisterFlush, StopStep, Kill, Inspect, DockerStop, DockerRm, Unmonitor, MarkStopped,
         QueryStep, CheckActive, EndStatus, PollNext, HealthVerdict, Exit, Crash, vars

LEMMA OwnerInvStep == OwnerInv /\ [Next]_vars => OwnerInv'
<1> SUFFICES ASSUME OwnerInv, [Next]_vars  PROVE OwnerInv'
  OBVIOUS
<1>1. TypeInv' /\ TrackedBorn'
  BY TypeInvStep, TrackedBornStep DEF OwnerInv
<1>2. ASSUME NEW c \in Clients,
             Request(c) \/ StartStep(c) \/ StopStep(c) \/ QueryStep(c) \/ HealthVerdict(c)
      PROVE  OneOwner'
  BY <1>2, OwnerRequest, OwnerStart, OwnerStop, OwnerQuery
<1>3. ASSUME UNCHANGED <<active, tracked, owner, task>>  PROVE OneOwner'
  <2>1. OneOwner
    BY DEF OwnerInv
  <2> QED  BY <1>3, <2>1 DEF OneOwner, ProcessHolder, Svc, Inst
<1>4. ASSUME Crash  PROVE OneOwner'
  <2>1. /\ \A n \in Names : active'[n] = None
        /\ \A c \in Clients : task'[c].pc = "idle"
    BY <1>4 DEF Crash, IdleTask
  <2> QED  BY <2>1 DEF OneOwner, ProcessHolder
<1>5. (\E i \in Instances : Exit(i)) \/ UNCHANGED vars => UNCHANGED <<active, tracked, owner, task>>
  BY DEF Exit, vars
<1>6. OneOwner'
  BY <1>2, <1>3, <1>4, <1>5 DEF Next
<1> QED  BY <1>1, <1>6 DEF OwnerInv

\* A process is owned by its name or by exactly one handler, for any number of
\* concurrent starts and stops.
THEOREM ProcessesHaveOneOwner == Spec => []OneOwner
<1>1. OwnerInv => OneOwner
  BY DEF OwnerInv
<1> QED
  BY <1>1, InitOwnerInv, OwnerInvStep, PTL DEF Spec

\* stop_service on a process always finds the handle that start_service tracked.
THEOREM KillFindsHandle == Spec => []KillHasHandle
<1>1. OwnerInv => KillHasHandle
  BY DEF OwnerInv, TypeInv, TaskOK, HandlerOK, OneOwner, ProcessHolder, KillHasHandle, Svc, Inst
<1> QED
  BY <1>1, InitOwnerInv, OwnerInvStep, PTL DEF Spec

-----------------------------------------------------------------------------
(* Nothing start_service created gets lost.                                   *)

AccountedInv == OwnerInv /\ Accounted

LEMMA InitAccountedInv == Init => AccountedInv
BY InitOwnerInv DEF Init, AccountedInv, Accounted, Present

\* A step of c that leaves active alone keeps Accounted if every instance that is
\* new, or that c lets go of, is dropped knowingly or still held by c.
LEMMA AccountedKept ==
  ASSUME NEW c \in Clients, Accounted, UNCHANGED active, forgotten \subseteq forgotten',
         \A e \in Clients \ {c} : task'[e] = task[e],
         \A i \in Instances : Present(i)' =>
           \/ i \in forgotten'
           \/ Holds(c, i)'
           \/ Present(i) /\ ~ Holds(c, i)
  PROVE  Accounted'
<1> SUFFICES ASSUME NEW i \in Instances, Present(i)'
             PROVE  i \in forgotten' \/ (\E n \in Names : active'[n] = i)
                                     \/ (\E e \in Clients : Holds(e, i)')
  BY DEF Accounted
<1>1. CASE Present(i) /\ ~ Holds(c, i)
  <2>1. \A e \in Clients \ {c} : Holds(e, i) => Holds(e, i)'
    BY DEF Holds, Inst
  <2> QED  BY <1>1, <2>1 DEF Accounted
<1> QED  BY <1>1

LEMMA AccountedStart ==
  ASSUME NEW c \in Clients, AccountedInv, StartStep(c)
  PROVE  Accounted'
<1> USE DEF AccountedInv, OwnerInv, TypeInv, TypeOK, At, Svc, Inst
<1>0. OnlyTask(c) /\ HandlerOK(task[c]) /\ task[c] \in Task /\ task \in [Clients -> Task]
  BY StartTask DEF TaskOK
<1>1. \A e \in Clients \ {c} : task'[e] = task[e]
  BY <1>0 DEF OnlyTask
<1>2. ASSUME NEW i \in Instances, NEW l \in {"monitor", "netinfo"}, Hold(c, i, l)
      PROVE  Holds(c, i)'
  BY <1>0, <1>2 DEF Hold, Holds, HoldingLabels, Task
<1>3. ASSUME NEW l \in {"monitor", "install"}, Goto(c, l)
      PROVE  \A i \in Instances : Holds(c, i) => Holds(c, i)'
  BY <1>0, <1>3 DEF Goto, Holds, HoldingLabels, Task
<1>4. ASSUME NEW i \in Fresh, NEW stage \in {"running", "exited"}, Spawn(c, i, stage)
      PROVE  i \in Instances /\ \A j \in Instances \ {i} : Present(j)' => Present(j)
  BY <1>4 DEF Spawn, Fresh, Present
<1>5. CASE Launch(c)
  <2>1. \A i \in Instances : ~ Holds(c, i)
    BY <1>5 DEF Launch, Holds, HoldingLabels
  <2>2. CASE UNCHANGED <<life, owner>>
    <3>1. \A i \in Instances : Present(i)' => Present(i)
      BY <2>2 DEF Present
    <3> QED  BY <1>1, <1>5, <2>1, <3>1, AccountedKept DEF Launch
  <2>3. CASE \E i \in Fresh : Spawn(c, i, "running") /\ Hold(c, i, "monitor")
    <3>1. PICK i \in Fresh : Spawn(c, i, "running") /\ Hold(c, i, "monitor")
      BY <2>3
    <3>2. Holds(c, i)' /\ \A j \in Instances \ {i} : Present(j)' => Present(j)
      BY <1>2, <1>4, <3>1
    <3> QED  BY <1>1, <1>5, <2>1, <3>2, AccountedKept DEF Launch
  <2> QED  BY <1>5, <2>2, <2>3 DEF Launch
<1>6. CASE Detect(c)
  <2>1. \A i \in Instances : ~ Holds(c, i)
    BY <1>6 DEF Detect, Holds, HoldingLabels
  <2>2. \A i \in Instances : Present(i)' => Present(i)
    BY <1>6 DEF Detect, Removed, Present
  <2> QED  BY <1>1, <1>6, <2>1, <2>2, AccountedKept DEF Detect
<1>7. CASE DockerRun(c)
  <2>1. \A i \in Instances : ~ Holds(c, i)
    BY <1>7 DEF DockerRun, Holds, HoldingLabels
  <2>2. CASE UNCHANGED <<life, owner, forgotten>>
    <3>1. \A i \in Instances : Present(i)' => Present(i)
      BY <2>2 DEF Present
    <3> QED  BY <1>1, <1>7, <2>1, <2>2, <3>1, AccountedKept DEF DockerRun
  <2>3. CASE \E i \in Fresh : Spawn(c, i, "running") /\ Hold(c, i, "netinfo") /\ UNCHANGED forgotten
    <3>1. PICK i \in Fresh : Spawn(c, i, "running") /\ Hold(c, i, "netinfo") /\ UNCHANGED forgotten
      BY <2>3
    <3>2. Holds(c, i)' /\ \A j \in Instances \ {i} : Present(j)' => Present(j)
      BY <1>2, <1>4, <3>1
    <3> QED  BY <1>1, <1>7, <2>1, <3>1, <3>2, AccountedKept DEF DockerRun
  <2>4. CASE \E i \in Fresh : Spawn(c, i, "exited") /\ Forget({i})
    <3>1. PICK i \in Fresh : Spawn(c, i, "exited") /\ Forget({i})
      BY <2>4
    <3>2. i \in forgotten' /\ forgotten \subseteq forgotten'
      BY <3>1 DEF Forget
    <3>3. \A j \in Instances \ {i} : Present(j)' => Present(j)
      BY <1>4, <3>1
    <3> QED  BY <1>1, <1>7, <2>1, <3>2, <3>3, AccountedKept DEF DockerRun
  <2> QED  BY <1>7, <2>2, <2>3, <2>4 DEF DockerRun
<1>8. CASE NetworkInfo(c)
  <2>1. \A i \in Instances : Present(i)' => Present(i)
    BY <1>8 DEF NetworkInfo, Present
  <2>2. CASE Goto(c, "monitor") /\ UNCHANGED forgotten
    BY <1>1, <1>3, <1>8, <2>1, <2>2, AccountedKept DEF NetworkInfo
  <2>3. CASE Forget({Inst(c)})
    <3>1. /\ forgotten \subseteq forgotten'
          /\ \A i \in Instances : Holds(c, i) => i \in forgotten'
      BY <2>3 DEF Forget, Holds
    <3> QED  BY <1>1, <1>8, <2>1, <3>1, AccountedKept DEF NetworkInfo
  <2> QED  BY <1>8, <2>2, <2>3 DEF NetworkInfo
<1>9. CASE InstallMonitor(c)
  <2>1. \A i \in Instances : Present(i)' => Present(i)
    BY <1>9 DEF InstallMonitor, Present
  <2> QED  BY <1>1, <1>3, <1>9, <2>1, AccountedKept DEF InstallMonitor
<1>10. CASE InstallActive(c)
  <2>1. /\ task[c].svc \in Names /\ active' = [active EXCEPT ![task[c].svc] = task[c].inst]
        /\ forgotten' = forgotten \cup ({active[task[c].svc]} \ {None, task[c].inst})
        /\ UNCHANGED <<life, owner>>
    BY <1>0, <1>10 DEF InstallActive, StoreActive, Forget, HandlerOK
  <2> SUFFICES ASSUME NEW i \in Instances, Present(i)'
               PROVE  i \in forgotten' \/ (\E n \in Names : active'[n] = i)
                                       \/ (\E e \in Clients : Holds(e, i)')
    BY DEF Accounted
  <2>2. Present(i)
    BY <2>1 DEF Present
  <2>3. CASE i \in forgotten
    BY <2>1, <2>3
  <2>4. ASSUME NEW n \in Names, active[n] = i
        PROVE  i \in forgotten' \/ (\E m \in Names : active'[m] = i)
    <3>1. CASE n = task[c].svc /\ task[c].inst # i
      BY <2>1, <2>4, <3>1, NamesAssumption
    <3>2. CASE n = task[c].svc /\ task[c].inst = i
      BY <2>1, <3>2
    <3>3. CASE n # task[c].svc
      BY <2>1, <2>4, <3>3
    <3> QED  BY <3>1, <3>2, <3>3
  <2>5. ASSUME NEW e \in Clients, Holds(e, i)
        PROVE  (\E m \in Names : active'[m] = i) \/ Holds(e, i)'
    <3>1. CASE e = c
      BY <2>1, <2>5, <3>1 DEF Holds
    <3>2. CASE e # c
      BY <1>1, <2>5, <3>2 DEF Holds
    <3> QED  BY <3>1, <3>2
  <2> QED  BY <2>2, <2>3, <2>4, <2>5 DEF Accounted
<1>11. CASE RegisterLookup(c) \/ RegisterPut(c) \/ RegisterFlush(c)
  <2>1. \A i \in Instances : ~ Holds(c, i) /\ (Present(i)' => Present(i))
    BY <1>11 DEF RegisterLookup, RegisterPut, RegisterFlush, Holds, HoldingLabels, Present
  <2> QED
    BY <1>1, <1>11, <2>1, AccountedKept DEF RegisterLookup, RegisterPut, RegisterFlush
<1> QED
  BY StartStep(c), <1>5, <1>6, <1>7, <1>8, <1>9, <1>10, <1>11 DEF StartStep

LEMMA AccountedStop ==
  ASSUME NEW c \in Clients, AccountedInv, StopStep(c)
  PROVE  Accounted'
<1> USE DEF AccountedInv, OwnerInv, TypeInv, TypeOK, At, Svc, Inst
<1>0. OnlyTask(c) /\ HandlerOK(task[c]) /\ task[c] \in Task /\ task \in [Clients -> Task]
  BY StopTask DEF TaskOK
<1>1. \A e \in Clients \ {c} : task'[e] = task[e]
  BY <1>0 DEF OnlyTask
<1>2. ASSUME NEW l \in {"dstop", "drm"}, Goto(c, l)
      PROVE  \A i \in Instances : Holds(c, i) => Holds(c, i)'
  BY <1>0, <1>2 DEF Goto, Holds, HoldingLabels, Task
<1>3. ASSUME task[c].inst \in forgotten', forgotten \subseteq forgotten'
      PROVE  \A i \in Instances : Holds(c, i) => i \in forgotten'
  BY <1>3 DEF Holds
<1>4. task[c].pc \in StopLabels => task[c].inst \in Instances
  BY <1>0 DEF HandlerOK, StopLabels
<1>5. ASSUME task[c].inst \in Instances, life' = Removed(task[c].inst), UNCHANGED owner
      PROVE  \A i \in Instances : Present(i)' => Present(i) /\ ~ Holds(c, i)
  BY <1>5 DEF Removed, Present, Holds
<1>6. ASSUME UNCHANGED <<life, owner>>
      PROVE  \A i \in Instances : Present(i)' => Present(i)
  BY <1>6 DEF Present
<1>7. ASSUME Forget({task[c].inst})
      PROVE  task[c].inst \in forgotten' /\ forgotten \subseteq forgotten'
  BY <1>7 DEF Forget
<1>8. CASE Kill(c)
  <2>1. ProcessHolder(c) /\ task[c].inst \in Instances
    BY <1>0, <1>4, <1>8 DEF Kill, HandlerOK, ProcessHolder, StopLabels
  <2>2. Kind[owner[task[c].inst]] = "process"
    BY <2>1 DEF OneOwner, ProcessHolder
  <2>3. \A i \in Instances : Present(i)' => Present(i) /\ ~ Holds(c, i)
    BY <1>8, <2>1, <2>2 DEF Kill, Killed, Present, Holds
  <2> QED  BY <1>1, <1>8, <2>3, AccountedKept DEF Kill
<1>9. CASE Inspect(c)
  <2>1. UNCHANGED <<active, owner>> /\ task[c].inst \in Instances
    BY <1>4, <1>9 DEF Inspect, StopLabels
  <2>2. CASE Forget({task[c].inst}) /\ UNCHANGED life
    BY <1>1, <1>3, <1>6, <1>7, <2>1, <2>2, AccountedKept
  <2>3. CASE life[task[c].inst] = "gone" /\ UNCHANGED <<forgotten, life>>
    <3>1. \A i \in Instances : Present(i)' => Present(i) /\ ~ Holds(c, i)
      BY <2>1, <2>3 DEF Present, Holds
    <3> QED  BY <1>1, <2>1, <2>3, <3>1, AccountedKept
  <2>4. CASE life' = Removed(task[c].inst) /\ UNCHANGED forgotten
    BY <1>1, <1>5, <2>1, <2>4, AccountedKept
  <2>5. CASE Goto(c, "dstop") /\ UNCHANGED <<forgotten, life>>
    BY <1>1, <1>2, <1>6, <2>1, <2>5, AccountedKept
  <2> QED  BY <1>9, <2>2, <2>3, <2>4, <2>5 DEF Inspect
<1>10. CASE DockerStop(c)
  <2>1. UNCHANGED <<active, owner>> /\ task[c].inst \in Instances /\ Kind[task[c].svc] = "docker"
    BY <1>0, <1>4, <1>10 DEF DockerStop, StopLabels, HandlerOK
  <2>2. CASE Forget({task[c].inst}) /\ UNCHANGED life
    BY <1>1, <1>3, <1>6, <1>7, <2>1, <2>2, AccountedKept
  <2>3. CASE /\ life[task[c].inst] # "gone" /\ life' = [life EXCEPT ![task[c].inst] = "exited"]
             /\ Goto(c, "drm") /\ UNCHANGED forgotten
    <3>1. \A i \in Instances : Holds(c, i) => Holds(c, i)'
      BY <1>2, <2>3
    <3>2. \A i \in Instances : Present(i)' => Present(i) \/ Holds(c, i)
      BY <1>10, <2>1, <2>3 DEF DockerStop, Present, Holds, HoldingLabels
    <3> QED  BY <1>1, <2>1, <2>3, <3>1, <3>2, AccountedKept
  <2> QED  BY <1>10, <2>2, <2>3 DEF DockerStop
<1>11. CASE DockerRm(c)
  <2>1. UNCHANGED <<active, owner>> /\ task[c].inst \in Instances
    BY <1>4, <1>11 DEF DockerRm, StopLabels
  <2>2. CASE Forget({task[c].inst}) /\ UNCHANGED life
    BY <1>1, <1>3, <1>6, <1>7, <2>1, <2>2, AccountedKept
  <2>3. CASE life' = Removed(task[c].inst) /\ UNCHANGED forgotten
    BY <1>1, <1>5, <2>1, <2>3, AccountedKept
  <2> QED  BY <1>11, <2>2, <2>3 DEF DockerRm
<1>12. CASE Unmonitor(c) \/ MarkStopped(c)
  <2>1. \A i \in Instances : ~ Holds(c, i) /\ (Present(i)' => Present(i))
    BY <1>12 DEF Unmonitor, MarkStopped, Holds, HoldingLabels, Present
  <2> QED  BY <1>1, <1>12, <2>1, AccountedKept DEF Unmonitor, MarkStopped
<1> QED
  BY StopStep(c), <1>8, <1>9, <1>10, <1>11, <1>12 DEF StopStep

LEMMA AccountedRequest ==
  ASSUME NEW c \in Clients, AccountedInv, Request(c)
  PROVE  Accounted'
<1> USE DEF AccountedInv, OwnerInv, TypeInv, TypeOK
<1>0. \A e \in Clients \ {c} : task'[e] = task[e]
  BY RequestTask DEF OnlyTask
<1>1. \A i \in Instances : ~ Holds(c, i)
  BY Request(c)
     DEF Request, BeginStart, BeginStop, BeginStatus, BeginHealthRun, At, Holds, HoldingLabels
<1>2. UNCHANGED <<life, owner, forgotten>>
  BY Request(c) DEF Request, BeginStart, BeginStop, BeginStatus, BeginHealthRun
<1>3. \A i \in Instances : Present(i)' => Present(i)
  BY <1>2 DEF Present
<1>4. CASE UNCHANGED active
  BY <1>0, <1>1, <1>2, <1>3, <1>4, AccountedKept
<1>5. ASSUME NEW n \in Names, BeginStop(c, n), active[n] # None  PROVE Accounted'
  <2>1. active' = [active EXCEPT ![n] = None]
    BY <1>5 DEF BeginStop, TakeActive
  <2>2. \A i \in Instances : active[n] = i => Holds(c, i)'
    BY <1>5 DEF BeginStop, Holds, HoldingLabels, Inst, IdleTask
  <2>3. \A e \in Clients \ {c}, i \in Instances : Holds(e, i) => Holds(e, i)'
    BY <1>0 DEF Holds, Inst
  <2>4. ASSUME NEW i \in Instances, Present(i)'
        PROVE  i \in forgotten' \/ (\E m \in Names : active'[m] = i)
                                \/ (\E e \in Clients : Holds(e, i)')
    <3>1. CASE i \in forgotten
      BY <1>2, <3>1
    <3>2. ASSUME NEW m \in Names, active[m] = i
          PROVE  (\E k \in Names : active'[k] = i) \/ Holds(c, i)'
      BY <2>1, <2>2, <3>2
    <3>3. ASSUME NEW e \in Clients, Holds(e, i)  PROVE Holds(e, i)'
      BY <1>1, <2>3, <3>3
    <3> QED  BY <1>3, <2>4, <3>1, <3>2, <3>3 DEF Accounted
  <2> QED  BY <2>4 DEF Accounted
<1> QED
  BY Request(c), <1>4, <1>5 DEF Request, BeginStart, BeginStop, BeginStatus, BeginHealthRun

LEMMA AccountedQuery ==
  ASSUME NEW c \in Clients, AccountedInv, QueryStep(c) \/ HealthVerdict(c)
  PROVE  Accounted'
<1> USE DEF AccountedInv, OwnerInv, TypeInv, TypeOK
<1>0. \A e \in Clients \ {c} : task'[e] = task[e]
  BY QueryTask DEF OnlyTask
<1>1. \A i \in Instances : ~ Holds(c, i)
  BY DEF QueryStep, CheckActive, EndStatus, PollNext, HealthVerdict, At, Holds, HoldingLabels
<1>2. UNCHANGED <<active, life, owner, forgotten>>
  BY DEF QueryStep, CheckActive, EndStatus, PollNext, HealthVerdict
<1>3. \A i \in Instances : Present(i)' => Present(i)
  BY <1>2 DEF Present
<1> QED
  BY <1>0, <1>1, <1>2, <1>3, AccountedKept

LEMMA AccountedInvStep == AccountedInv /\ [Next]_vars => AccountedInv'
<1> SUFFICES ASSUME AccountedInv, [Next]_vars  PROVE AccountedInv'
  OBVIOUS
<1>1. OwnerInv'
  BY OwnerInvStep DEF AccountedInv
<1>2. ASSUME NEW c \in Clients,
             Request(c) \/ StartStep(c) \/ StopStep(c) \/ QueryStep(c) \/ HealthVerdict(c)
      PROVE  Accounted'
  BY <1>2, AccountedRequest, AccountedStart, AccountedStop, AccountedQuery
<1>3. ASSUME UNCHANGED <<active, forgotten, owner, task>>,
             \A i \in Instances : Present(i)' => Present(i)
      PROVE  Accounted'
  BY <1>3 DEF AccountedInv, Accounted, Holds, Inst
<1>4. ASSUME NEW i \in Instances, Exit(i)  PROVE Accounted'
  <2>1. \A j \in Instances : Present(j)' => Present(j)
    BY <1>4 DEF Exit, Present, AccountedInv, OwnerInv, TypeInv, TypeOK
  <2> QED  BY <1>3, <1>4, <2>1 DEF Exit
<1>5. ASSUME Crash  PROVE Accounted'
  <2>1. \A i \in Instances : Present(i)' => i \in forgotten'
    BY <1>5 DEF Crash, Forget, Present
  <2> QED  BY <2>1 DEF Accounted
<1>6. ASSUME UNCHANGED vars  PROVE Accounted'
  <2>1. \A j \in Instances : Present(j)' => Present(j)
    BY <1>6 DEF vars, Present
  <2> QED  BY <1>3, <1>6, <2>1 DEF vars
<1>7. Accounted'
  BY <1>2, <1>4, <1>5, <1>6 DEF Next
<1> QED  BY <1>1, <1>7 DEF AccountedInv

\* Every process and container start_service ever created is stored, in a
\* handler's hands, or was let go of at one of the places that let instances go.
THEOREM NothingLost == Spec => []Accounted
<1>1. AccountedInv => Accounted
  BY DEF AccountedInv
<1> QED
  BY <1>1, InitAccountedInv, AccountedInvStep, PTL DEF Spec

-----------------------------------------------------------------------------
(* The two fields of a monitor.                                               *)

LEMMA CoherentStep == TypeInv /\ MonitorCoherent /\ [Next]_vars => MonitorCoherent'
<1> SUFFICES ASSUME TypeInv, MonitorCoherent, [Next]_vars  PROVE MonitorCoherent'
  OBVIOUS
<1> USE DEF TypeInv, TypeOK, MonitorCoherent
<1>1. ASSUME UNCHANGED monitors  PROVE MonitorCoherent'
  BY <1>1
<1>2. ASSUME NEW c \in Clients, InstallMonitor(c)  PROVE MonitorCoherent'
  BY <1>2 DEF InstallMonitor
<1>3. ASSUME NEW c \in Clients, Unmonitor(c)  PROVE MonitorCoherent'
  BY <1>3, NamesAssumption DEF Unmonitor, DropMonitor
<1>4. ASSUME NEW c \in Clients, HealthVerdict(c)  PROVE MonitorCoherent'
  <2>1. CASE monitors[Svc(c)] # None
    <3>1. PICK verdict \in {"Healthy", "Unhealthy"} :
            monitors' = [monitors EXCEPT ![Svc(c)] = RecordVerdict(@, verdict)]
      BY <1>4, <2>1 DEF HealthVerdict, Verdicts
    <3>2. Svc(c) \in Names
      BY <1>4 DEF HealthVerdict, At, TaskOK, HandlerOK, Svc
    <3>3. monitors[Svc(c)] \in Monitor
      BY <2>1, <3>2
    <3>4. monitors[Svc(c)].failures \in Nat
      BY <3>3, BoundsAssumption DEF Monitor
    <3>5. LET m == RecordVerdict(monitors[Svc(c)], verdict)
          IN  m.failures > 0 <=> m.last = "Unhealthy"
      BY <3>4 DEF RecordVerdict
    <3> QED  BY <3>1, <3>2, <3>5
  <2>2. CASE monitors[Svc(c)] = None
    BY <1>1, <1>4, <2>2 DEF HealthVerdict
  <2> QED  BY <2>1, <2>2
<1>5. ASSUME Crash  PROVE MonitorCoherent'
  BY <1>5 DEF Crash
<1> QED
  BY <1>1, <1>2, <1>3, <1>4, <1>5
     DEF Next, Request, BeginStart, BeginStop, BeginStatus, BeginHealthRun, StartStep, Launch,
         Detect, DockerRun, NetworkInfo, InstallActive, RegisterLookup, RegisterPut,
         RegisterFlush, StopStep, Kill, Inspect, DockerStop, DockerRm, MarkStopped,
         QueryStep, CheckActive, EndStatus, PollNext, Exit, vars

\* A monitor counts failures exactly while its last verdict is Unhealthy,
\* however the health runs of several connections interleave.
THEOREM MonitorsCoherent == Spec => []MonitorCoherent
<1>1. Init => MonitorCoherent
  BY DEF Init, MonitorCoherent
<1> QED
  BY <1>1, InitTypeInv, TypeInvStep, CoherentStep, PTL DEF Spec

-----------------------------------------------------------------------------
(* stop_service of a process ends it.                                         *)

StoppedEnded ==
  \A c \in Clients : task[c].pc \in {"unmonitor", "mark"} /\ Kind[task[c].svc] = "process" =>
    Ended(task[c].inst)

LEMMA StoppedEndedStep == TypeInv /\ StoppedEnded /\ [Next]_vars => StoppedEnded'
<1> SUFFICES ASSUME TypeInv, StoppedEnded, [Next]_vars,
                    NEW e \in Clients, task'[e].pc \in {"unmonitor", "mark"},
                    Kind[task'[e].svc] = "process"
             PROVE  life'[task'[e].inst] \in {"exited", "gone"}
  BY DEF StoppedEnded, Ended
<1> USE DEF TypeInv, TypeOK
<1>1. LifeForward
  BY LifeOnlyForward
<1>2. ASSUME task'[e] = task[e]  PROVE life'[task'[e].inst] \in {"exited", "gone"}
  <2>1. Ended(task[e].inst) /\ task[e].inst \in Instances
    BY <1>2 DEF StoppedEnded, TaskOK, HandlerOK, StopLabels
  <2> QED  BY <1>1, <1>2, <2>1 DEF LifeForward, Ended
<1>3. ASSUME NEW c \in Clients, OnlyTask(c), c # e  PROVE life'[task'[e].inst] \in {"exited", "gone"}
  BY <1>2, <1>3 DEF OnlyTask
<1>4. ASSUME Kill(e)  PROVE life'[task'[e].inst] \in {"exited", "gone"}
  <2>1. task'[e].inst = task[e].inst /\ task[e].inst \in Instances
    BY <1>4 DEF Kill, At, Goto, Inst, TaskOK, HandlerOK, StopLabels, Task
  <2> QED  BY <1>4, <2>1 DEF Kill, Killed, Inst, Ended
<1>5. ASSUME Unmonitor(e)  PROVE life'[task'[e].inst] \in {"exited", "gone"}
  <2>1. /\ task'[e].inst = task[e].inst /\ task'[e].svc = task[e].svc
        /\ task[e].pc = "unmonitor" /\ UNCHANGED life
    BY <1>5 DEF Unmonitor, At, Goto, Task
  <2> QED  BY <2>1 DEF StoppedEnded, Ended
<1>6. ASSUME Inspect(e) \/ DockerStop(e) \/ DockerRm(e)  PROVE life'[task'[e].inst] \in {"exited", "gone"}
  <2>1. Kind[task[e].svc] = "docker"
    BY <1>6 DEF Inspect, DockerStop, DockerRm, At, TaskOK, HandlerOK
  <2>2. task'[e].pc = "idle" \/ task'[e].svc = task[e].svc
    BY <1>6 DEF Inspect, DockerStop, DockerRm, Goto, Answer, IdleTask, Task
  <2> QED  BY <2>1, <2>2
<1>7. ASSUME Request(e) \/ StartStep(e) \/ MarkStopped(e) \/ QueryStep(e) \/ HealthVerdict(e)
      PROVE  FALSE
  <2> DEFINE Stopping == {"unmonitor", "mark"}
  <2>1. ASSUME NEW a \in Answers, Answer(e, a)  PROVE FALSE
    BY <2>1, AnswerType
  <2>2. ASSUME NEW l \in Labels \ Stopping, Goto(e, l)  PROVE FALSE
    BY <2>2 DEF Goto, Task
  <2>3. ASSUME NEW i \in Instances, NEW l \in Labels \ Stopping, Hold(e, i, l)  PROVE FALSE
    BY <2>3 DEF Hold, Task
  <2>4. ASSUME Request(e)  PROVE FALSE
    <3>1. ASSUME NEW n \in Names, BeginStart(e, n)  PROVE FALSE
      BY <2>1, <3>1 DEF BeginStart, Answers, IdleTask
    <3>2. ASSUME NEW n \in Names, BeginStop(e, n)  PROVE FALSE
      BY <2>1, <3>2 DEF BeginStop, Answers, IdleTask
    <3>3. ASSUME NEW n \in Names, BeginStatus(e, n)  PROVE FALSE
      BY <3>3 DEF BeginStatus, IdleTask
    <3>4. ASSUME BeginHealthRun(e)  PROVE FALSE
      BY <3>4 DEF BeginHealthRun, IdleTask
    <3> QED  BY <2>4, <3>1, <3>2, <3>3, <3>4 DEF Request
  <2>5. ASSUME StartStep(e)  PROVE FALSE
    <3>1. {"monitor", "netinfo", "run", "install", "lookup", "put", "flush"} \subseteq Labels \ Stopping
      BY DEF Labels, StartLabels
    <3>2. {"error", "started"} \subseteq Answers
      BY DEF Answers
    <3>3. Fresh \subseteq Instances /\ \A n \in Names : Detected(n) \subseteq Instances
      BY DEF Fresh, Detected, ContainerOf
    <3>4. Detect(e) => Svc(e) \in Names
      BY DEF Detect, At, Svc, TaskOK, HandlerOK
    <3> QED
      BY <2>1, <2>2, <2>3, <2>5, <3>1, <3>2, <3>3, <3>4
         DEF StartStep, Launch, Detect, DockerRun, NetworkInfo, InstallMonitor, InstallActive,
             RegisterLookup, RegisterPut, RegisterFlush
  <2>6. ASSUME MarkStopped(e) \/ CheckActive(e) \/ EndStatus(e) \/ HealthVerdict(e)  PROVE FALSE
    BY <2>1, <2>2, <2>6
       DEF MarkStopped, CheckActive, EndStatus, HealthVerdict, Answers, Labels
  <2>7. ASSUME PollNext(e)  PROVE FALSE
    <3>1. CASE Answer(e, "checked")
      BY <2>1, <3>1 DEF Answers
    <3>2. ASSUME NEW n \in task[e].todo,
                 \/ task' = [task EXCEPT ![e].todo = Remaining(e, n)]
                 \/ task' = [task EXCEPT ![e].todo = Remaining(e, n), ![e].pc = "health",
                                         ![e].svc = n, ![e].inst = monitors[n].of]
          PROVE  FALSE
      <4>1. task[e] \in Task /\ task[e].pc = "poll"
        BY <2>7 DEF PollNext, At
      <4> QED  BY <3>2, <4>1 DEF Task
    <3> QED  BY <2>7, <3>1, <3>2 DEF PollNext
  <2> QED  BY <1>7, <2>4, <2>5, <2>6, <2>7 DEF QueryStep
<1>8. ASSUME NEW c \in Clients,
             Request(c) \/ StartStep(c) \/ StopStep(c) \/ QueryStep(c) \/ HealthVerdict(c)
      PROVE  life'[task'[e].inst] \in {"exited", "gone"}
  <2>1. OnlyTask(c)
    BY <1>8, RequestTask, StartTask, StopTask, QueryTask
  <2> QED
    BY <1>3, <1>4, <1>5, <1>6, <1>7, <1>8, <2>1 DEF StopStep
<1>9. ASSUME Crash  PROVE FALSE
  BY <1>9 DEF Crash, IdleTask
<1> QED
  BY <1>2, <1>8, <1>9 DEF Next, Exit, vars

\* Only the last step of stop_service answers "stopped".
LEMMA StoppedIsMarked ==
  ASSUME TypeInv, [Next]_vars, NEW c \in Clients, Answered(c, "stopped")
  PROVE  MarkStopped(c)
<1> USE DEF TypeInv, TypeOK
<1>0. task[c].pc # "idle" /\ task'[c].pc = "idle" /\ task'[c].ans = "stopped" /\ task[c] \in Task
  BY DEF Answered
<1>1. ASSUME NEW a \in Answers, a # "stopped", Answer(c, a)  PROVE FALSE
  BY <1>0, <1>1 DEF Answer, IdleTask
<1>2. ASSUME NEW l \in Labels \ {"idle"}, Goto(c, l)  PROVE FALSE
  BY <1>0, <1>2 DEF Goto, Task
<1>3. ASSUME NEW i \in Instances, NEW l \in Labels \ {"idle"}, Hold(c, i, l)  PROVE FALSE
  BY <1>0, <1>3 DEF Hold, Task
<1>4. ASSUME Request(c)  PROVE FALSE
  BY <1>0, <1>4 DEF Request, BeginStart, BeginStop, BeginStatus, BeginHealthRun, At
<1>5. ASSUME StartStep(c)  PROVE FALSE
  <2>1. {"monitor", "netinfo", "run", "install", "lookup", "put", "flush"} \subseteq Labels \ {"idle"}
    BY DEF Labels, StartLabels
  <2>2. {"error", "started"} \subseteq Answers \ {"stopped"}
    BY DEF Answers
  <2>3. Fresh \subseteq Instances /\ \A n \in Names : Detected(n) \subseteq Instances
    BY DEF Fresh, Detected, ContainerOf
  <2>4. Detect(c) => Svc(c) \in Names
    BY DEF Detect, At, Svc, TaskOK, HandlerOK
  <2> QED
    BY <1>1, <1>2, <1>3, <1>5, <2>1, <2>2, <2>3, <2>4
       DEF StartStep, Launch, Detect, DockerRun, NetworkInfo, InstallMonitor, InstallActive,
           RegisterLookup, RegisterPut, RegisterFlush
<1>6. ASSUME Kill(c) \/ Inspect(c) \/ DockerStop(c) \/ DockerRm(c) \/ Unmonitor(c)  PROVE FALSE
  <2>1. StopLabels \subseteq Labels \ {"idle"} /\ "error" \in Answers
    BY DEF Labels, StopLabels, Answers
  <2> QED
    BY <1>1, <1>2, <1>6, <2>1
       DEF Kill, Inspect, DockerStop, DockerRm, Unmonitor, StopLabels
<1>7. ASSUME CheckActive(c) \/ EndStatus(c) \/ HealthVerdict(c)  PROVE FALSE
  BY <1>1, <1>2, <1>7 DEF CheckActive, EndStatus, HealthVerdict, Answers, Labels
<1>8. ASSUME PollNext(c)  PROVE FALSE
  <2>1. CASE Answer(c, "checked")
    BY <1>1, <2>1 DEF Answers
  <2>2. ASSUME NEW n \in task[c].todo,
               \/ task' = [task EXCEPT ![c].todo = Remaining(c, n)]
               \/ task' = [task EXCEPT ![c].todo = Remaining(c, n), ![c].pc = "health",
                                       ![c].svc = n, ![c].inst = monitors[n].of]
        PROVE  FALSE
    BY <1>0, <2>2 DEF Task
  <2> QED  BY <1>8, <2>1, <2>2 DEF PollNext
<1>9. ASSUME NEW e \in Clients,
             Request(e) \/ StartStep(e) \/ StopStep(e) \/ QueryStep(e) \/ HealthVerdict(e)
      PROVE  MarkStopped(c)
  <2>1. OnlyTask(e)
    BY <1>9, RequestTask, StartTask, StopTask, QueryTask
  <2>2. e = c
    BY <1>0, <2>1 DEF OnlyTask
  <2> QED
    BY <1>4, <1>5, <1>6, <1>7, <1>8, <1>9, <2>2 DEF StopStep, QueryStep
<1>10. ASSUME Crash  PROVE FALSE
  BY <1>0, <1>10 DEF Crash, IdleTask
<1> QED
  BY <1>0, <1>9, <1>10 DEF Next, Exit, vars

\* With no docker service, StopService answered with success means that the
\* instance no longer runs.
THEOREM StopEndsProcesses ==
  ASSUME \A n \in Names : Kind[n] # "docker"
  PROVE  Spec => StopTerminates
<1>1. TypeInv /\ StoppedEnded /\ [Next]_vars =>
        [\A c \in Clients : Answered(c, "stopped") => life'[Inst(c)] # "running"]_vars
  <2> SUFFICES ASSUME TypeInv, StoppedEnded, [Next]_vars, NEW c \in Clients,
                      Answered(c, "stopped")
               PROVE  life'[Inst(c)] # "running"
    OBVIOUS
  <2>1. task[c].pc = "mark" /\ UNCHANGED life
    BY StoppedIsMarked DEF MarkStopped, At
  <2>2. Kind[task[c].svc] = "process"
    BY <2>1, NamesAssumption DEF TypeInv, TaskOK, HandlerOK, StopLabels
  <2> QED  BY <2>1, <2>2 DEF StoppedEnded, Ended, Inst
<1>2. Init => StoppedEnded
  BY DEF Init, StoppedEnded, IdleTask
<1> QED
  BY <1>1, <1>2, InitTypeInv, TypeInvStep, StoppedEndedStep, PTL DEF Spec, StopTerminates

-----------------------------------------------------------------------------
(* One executor thread: what start and stop of a process service do to its    *)
(* entry and its monitor.                                                     *)

\* At most one handler is between two awaits.
OneAtATime == \A c, e \in Clients : c # e => Awaiting(c) \/ Awaiting(e)

\* c is at a label where n's entry and n's monitor may differ.
Working(c, n) ==
  Svc(c) = n /\ task[c].pc \in {"launch", "monitor", "install", "kill", "unmonitor", "mark"}

Match(n) ==
  /\ monitors[n] # None <=> (active[n] # None /\ n \in Monitored)
  /\ monitors[n] # None => monitors[n].of = active[n]

\* How far they differ there.
Place(c, n) ==
  /\ active[n] = None
  /\ task[c].pc \in {"launch", "monitor", "mark"} => monitors[n] = None
  /\ task[c].pc = "install" =>
       /\ monitors[n] # None <=> n \in Monitored
       /\ monitors[n] # None => monitors[n].of = Inst(c)

PlacesOK ==
  \A n \in Names : Kind[n] = "process" =>
    /\ (\A c \in Clients : ~ Working(c, n)) => Match(n)
    /\ \A c \in Clients : Working(c, n) => Place(c, n)

SoloInv == TypeInv /\ OneAtATime /\ PlacesOK

\* What the three ways to change a handler's record do to it.
LEMMA Moves ==
  ASSUME NEW c \in Clients, task \in [Clients -> Task]
  PROVE  /\ \A l : Goto(c, l) =>
              task'[c].pc = l /\ task'[c].svc = task[c].svc /\ task'[c].inst = task[c].inst
         /\ \A l, i : Hold(c, i, l) =>
              task'[c].pc = l /\ task'[c].svc = task[c].svc /\ task'[c].inst = i
         /\ \A a : Answer(c, a) => task'[c].pc = "idle"
<1>1. ASSUME NEW l, Goto(c, l)
      PROVE  task'[c].pc = l /\ task'[c].svc = task[c].svc /\ task'[c].inst = task[c].inst
  BY <1>1 DEF Goto, Task
<1>2. ASSUME NEW l, NEW i, Hold(c, i, l)
      PROVE  task'[c].pc = l /\ task'[c].svc = task[c].svc /\ task'[c].inst = i
  BY <1>2 DEF Hold, Task
<1>3. ASSUME NEW a, Answer(c, a)  PROVE task'[c].pc = "idle"
  BY <1>3 DEF Answer, IdleTask
<1> QED  BY <1>1, <1>2, <1>3

\* A handler's step is taken while all others wait.
LEMMA StepIsAllowed ==
  ASSUME NEW c \in Clients,
         Request(c) \/ StartStep(c) \/ StopStep(c) \/ QueryStep(c) \/ HealthVerdict(c)
  PROVE  MayRun(c)
BY DEF Request, BeginStart, BeginStop, BeginStatus, BeginHealthRun, StartStep, Launch, Detect,
       DockerRun, NetworkInfo, InstallMonitor, InstallActive, RegisterLookup, RegisterPut,
       RegisterFlush, StopStep, Kill, Inspect, DockerStop, DockerRm, Unmonitor, MarkStopped,
       QueryStep, CheckActive, EndStatus, PollNext, HealthVerdict, At

\* What a step of c does to the entry and the monitor of n, seen from c.
Local(c, n) == IF Working(c, n) THEN Place(c, n) ELSE Match(n)

LEMMA LocalStart ==
  ASSUME NEW c \in Clients, NEW n \in Names, Kind[n] = "process", TypeInv, Local(c, n),
         StartStep(c)
  PROVE  Local(c, n)'
<1> USE DEF TypeInv, TypeOK, At, Svc, Inst, Local, Working, Place, Match
<1>0. HandlerOK(task[c]) /\ task \in [Clients -> Task]
  BY DEF TaskOK
<1>1. CASE Launch(c)
  BY <1>0, <1>1, Moves DEF Launch
<1>2. CASE Detect(c) \/ DockerRun(c) \/ NetworkInfo(c)
  <2>1. Kind[task[c].svc] = "docker" /\ UNCHANGED <<active, monitors>>
    BY <1>0, <1>2 DEF Detect, DockerRun, NetworkInfo, HandlerOK
  <2>2. task'[c].pc = "idle" \/ task'[c].svc = task[c].svc
    BY <1>0, <1>2, Moves DEF Detect, DockerRun, NetworkInfo
  <2> QED  BY <2>1, <2>2
<1>3. CASE InstallMonitor(c)
  <2>1. task[c].svc \in Names /\ task[c].inst \in Instances
    BY <1>0, <1>3 DEF InstallMonitor, HandlerOK, StartLabels, StopLabels
  <2>2. task'[c].pc = "install" /\ task'[c].svc = task[c].svc /\ task'[c].inst = task[c].inst
    BY <1>0, <1>3, Moves DEF InstallMonitor
  <2> DEFINE m == [failures |-> 0, last |-> "Unknown", of |-> task[c].inst]
  <2>3. m \in Monitor /\ m.of = task[c].inst
    BY <2>1, BoundsAssumption DEF Monitor
  <2>4. m # None
    BY <2>3, NoneAssumption
  <2>5. monitors' = IF task[c].svc \in Monitored THEN [monitors EXCEPT ![task[c].svc] = m]
                    ELSE monitors
    BY <1>3 DEF InstallMonitor
  <2>6. UNCHANGED active /\ task[c].pc = "monitor"
    BY <1>3 DEF InstallMonitor
  <2> HIDE DEF m
  <2> QED  BY <2>1, <2>2, <2>3, <2>4, <2>5, <2>6
<1>4. CASE InstallActive(c)
  <2>1. task[c].svc \in Names /\ task[c].inst \in Instances
    BY <1>0, <1>4 DEF InstallActive, HandlerOK, StartLabels, StopLabels
  <2>2. task'[c].pc = "lookup"
    BY <1>0, <1>4, Moves DEF InstallActive
  <2> QED  BY <1>4, <2>1, <2>2, NamesAssumption DEF InstallActive, StoreActive
<1>5. CASE RegisterLookup(c) \/ RegisterPut(c) \/ RegisterFlush(c)
  <2>1. task'[c].pc \in {"put", "flush", "idle"}
    BY <1>0, <1>5, Moves DEF RegisterLookup, RegisterPut, RegisterFlush
  <2> QED  BY <1>5, <2>1 DEF RegisterLookup, RegisterPut, RegisterFlush
<1> QED
  BY StartStep(c), <1>1, <1>2, <1>3, <1>4, <1>5 DEF StartStep

LEMMA LocalStop ==
  ASSUME NEW c \in Clients, NEW n \in Names, Kind[n] = "process", TypeInv, Local(c, n),
         StopStep(c)
  PROVE  Local(c, n)'
<1> USE DEF TypeInv, TypeOK, At, Svc, Inst, Local, Working, Place, Match
<1>0. HandlerOK(task[c]) /\ task \in [Clients -> Task]
  BY DEF TaskOK
<1>1. CASE Kill(c)
  BY <1>0, <1>1, Moves DEF Kill
<1>2. CASE Inspect(c) \/ DockerStop(c) \/ DockerRm(c)
  <2>1. Kind[task[c].svc] = "docker" /\ UNCHANGED <<active, monitors>>
    BY <1>0, <1>2 DEF Inspect, DockerStop, DockerRm, HandlerOK
  <2>2. task'[c].pc = "idle" \/ task'[c].svc = task[c].svc
    BY <1>0, <1>2, Moves DEF Inspect, DockerStop, DockerRm
  <2> QED  BY <2>1, <2>2
<1>3. CASE Unmonitor(c)
  <2>1. task'[c].pc = "mark" /\ task'[c].svc = task[c].svc
    BY <1>0, <1>3, Moves DEF Unmonitor
  <2> QED  BY <1>3, <2>1 DEF Unmonitor, DropMonitor
<1>4. CASE MarkStopped(c)
  <2>1. task'[c].pc = "idle"
    BY <1>0, <1>4, Moves DEF MarkStopped
  <2> QED  BY <1>4, <2>1 DEF MarkStopped
<1> QED
  BY StopStep(c), <1>1, <1>2, <1>3, <1>4 DEF StopStep

LEMMA LocalRequest ==
  ASSUME NEW c \in Clients, NEW n \in Names, Kind[n] = "process", TypeInv, Local(c, n),
         Request(c)
  PROVE  Local(c, n)'
<1> USE DEF TypeInv, TypeOK, At, Svc, Inst, Local, Working, Place, Match
<1>1. ASSUME NEW m \in Names, BeginStart(c, m)  PROVE Local(c, n)'
  <2>1. UNCHANGED <<active, monitors>> /\ task[c].pc = "idle"
    BY <1>1 DEF BeginStart
  <2>2. CASE Answer(c, "exists") \/ Answer(c, "error")
    BY <2>1, <2>2, Moves
  <2>3. CASE ~ AlreadyActive(m) /\ Kind[m] # "remote"
    <3>1. task'[c].pc \in {"detect", "launch"} /\ task'[c].svc = m
      BY <1>1, <2>3 DEF BeginStart, IdleTask
    <3> QED  BY <2>1, <2>3, <3>1 DEF AlreadyActive
  <2> QED  BY <1>1, <2>2, <2>3 DEF BeginStart
<1>2. ASSUME NEW m \in Names, BeginStop(c, m)  PROVE Local(c, n)'
  <2>1. UNCHANGED monitors /\ task[c].pc = "idle"
    BY <1>2 DEF BeginStop
  <2>2. CASE active[m] = None
    BY <1>2, <2>1, <2>2, Moves DEF BeginStop
  <2>3. CASE active[m] # None
    <3>1. active' = [active EXCEPT ![m] = None] /\ task'[c].svc = m
          /\ task'[c].pc \in {"inspect", "kill"} /\ (Kind[m] = "process" => task'[c].pc = "kill")
      BY <1>2, <2>3 DEF BeginStop, TakeActive, IdleTask
    <3> QED  BY <2>1, <3>1
  <2> QED  BY <2>2, <2>3
<1>3. ASSUME NEW m \in Names, BeginStatus(c, m)  PROVE Local(c, n)'
  BY <1>3 DEF BeginStatus, IdleTask
<1>4. CASE BeginHealthRun(c)
  BY <1>4 DEF BeginHealthRun, IdleTask
<1> QED  BY Request(c), <1>1, <1>2, <1>3, <1>4 DEF Request

LEMMA LocalQuery ==
  ASSUME NEW c \in Clients, NEW n \in Names, Kind[n] = "process", TypeInv, Local(c, n),
         QueryStep(c) \/ HealthVerdict(c)
  PROVE  Local(c, n)'
<1> USE DEF TypeInv, TypeOK, At, Svc, Inst, Local, Working, Place, Match
<1>0. HandlerOK(task[c])
  BY DEF TaskOK
<1>1. CASE CheckActive(c) \/ EndStatus(c)
  <2>1. task'[c].pc \in {"report", "idle"}
    BY <1>1, Moves DEF CheckActive, EndStatus
  <2> QED  BY <1>1, <2>1 DEF CheckActive, EndStatus
<1>2. CASE PollNext(c)
  <2>1. task[c] \in Task /\ task[c].pc = "poll"
    BY <1>2 DEF PollNext
  <2>2. ASSUME NEW m \in task[c].todo,
               \/ task' = [task EXCEPT ![c].todo = Remaining(c, m)]
               \/ task' = [task EXCEPT ![c].todo = Remaining(c, m), ![c].pc = "health",
                                       ![c].svc = m, ![c].inst = monitors[m].of]
        PROVE  task'[c].pc \in {"poll", "health"}
    BY <2>1, <2>2 DEF Task
  <2>3. task'[c].pc \in {"poll", "health", "idle"}
    BY <1>2, <2>2, Moves DEF PollNext
  <2> QED  BY <1>2, <2>1, <2>3 DEF PollNext
<1>3. CASE HealthVerdict(c)
  <2>1. task'[c].pc = "poll" /\ task[c].pc = "health" /\ UNCHANGED active
    BY <1>3, Moves DEF HealthVerdict
  <2>2. (monitors'[n] # None <=> monitors[n] # None)
        /\ (monitors[n] # None => monitors'[n].of = monitors[n].of)
    <3>1. PICK verdict \in Verdicts :
            /\ (monitors[Svc(c)] # None /\ verdict = "Unhealthy") =>
                 monitors[Svc(c)].failures < MaxFailures
            /\ monitors' = IF monitors[Svc(c)] = None THEN monitors
                           ELSE [monitors EXCEPT ![Svc(c)] = RecordVerdict(@, verdict)]
      BY <1>3 DEF HealthVerdict
    <3>2. CASE monitors[Svc(c)] = None
      BY <3>1, <3>2
    <3>3. CASE monitors[Svc(c)] # None
      <4> DEFINE m == RecordVerdict(monitors[Svc(c)], verdict)
      <4>1. m.of = monitors[Svc(c)].of /\ monitors' = [monitors EXCEPT ![Svc(c)] = m]
        BY <3>1, <3>3 DEF RecordVerdict
      <4>0. task[c].svc \in Names
        BY <1>0, <1>3 DEF HealthVerdict, HandlerOK
      <4>2. m \in Monitor
        BY <3>1, <3>3, <4>0, RecordedMonitor
      <4> HIDE DEF m
      <4> QED  BY <3>3, <4>0, <4>1, <4>2, NoneAssumption
    <3> QED  BY <3>2, <3>3
  <2> QED  BY <2>1, <2>2
<1> QED  BY <1>1, <1>2, <1>3 DEF QueryStep

LEMMA HandlerStep ==
  ASSUME NEW c \in Clients, TypeInv,
         Request(c) \/ StartStep(c) \/ StopStep(c) \/ QueryStep(c) \/ HealthVerdict(c)
  PROVE  OnlyTask(c)
BY RequestTask, StartTask, StopTask, QueryTask

LEMMA LocalStep ==
  ASSUME NEW c \in Clients, NEW n \in Names, Kind[n] = "process", TypeInv, Local(c, n),
         Request(c) \/ StartStep(c) \/ StopStep(c) \/ QueryStep(c) \/ HealthVerdict(c)
  PROVE  Local(c, n)'
BY LocalRequest, LocalStart, LocalStop, LocalQuery

LEMMA InitSoloInv == Init => SoloInv
BY InitTypeInv
   DEF Init, SoloInv, OneAtATime, Awaiting, PlacesOK, Working, Match, IdleTask, Svc

LEMMA SoloInvStep ==
  ASSUME ~ Parallel
  PROVE  SoloInv /\ [Next]_vars => SoloInv'
<1> SUFFICES ASSUME SoloInv, [Next]_vars  PROVE SoloInv'
  OBVIOUS
<1>1. TypeInv'
  BY TypeInvStep DEF SoloInv
<1>2. ASSUME NEW c \in Clients,
             Request(c) \/ StartStep(c) \/ StopStep(c) \/ QueryStep(c) \/ HealthVerdict(c)
      PROVE  OneAtATime' /\ PlacesOK'
  <2>1. \A d \in Clients \ {c} : task'[d] = task[d] /\ Awaiting(d)
    BY <1>2, HandlerStep, StepIsAllowed DEF SoloInv, OnlyTask, MayRun
  <2>2. OneAtATime'
    BY <2>1 DEF OneAtATime, Awaiting
  <2>3. ASSUME NEW n \in Names, Kind[n] = "process", NEW d \in Clients \ {c}
        PROVE  ~ Working(d, n) /\ ~ Working(d, n)'
    BY <2>1, <2>3 DEF Awaiting, Working, Svc
  <2>4. ASSUME NEW n \in Names, Kind[n] = "process"  PROVE Local(c, n)'
    <3>1. Local(c, n)
      BY <2>3, <2>4 DEF SoloInv, PlacesOK, Local
    <3> QED  BY <1>2, <2>4, <3>1, LocalStep DEF SoloInv
  <2>5. PlacesOK'
    BY <2>3, <2>4 DEF PlacesOK, Local
  <2> QED  BY <2>2, <2>5
<1>3. ASSUME UNCHANGED <<active, monitors, task>>  PROVE OneAtATime' /\ PlacesOK'
  BY <1>3 DEF SoloInv, OneAtATime, Awaiting, PlacesOK, Working, Match, Place, Svc, Inst
<1>4. ASSUME Crash  PROVE OneAtATime' /\ PlacesOK'
  BY <1>4 DEF Crash, OneAtATime, Awaiting, PlacesOK, Working, Match, IdleTask, Svc
<1> QED
  BY <1>1, <1>2, <1>3, <1>4 DEF SoloInv, Next, Exit, vars

\* On one executor thread a process service has a health monitor exactly while
\* it is active and configured with a check, and the monitor is that of the
\* instance that is active: start_service and stop_service update the two maps
\* under separate locks, but no other handler runs between the two.
THEOREM MonitorsMatch ==
  ASSUME ~ Parallel
  PROVE  Spec => []MonitorsFollowActive
<1>1. SoloInv => MonitorsFollowActive
  BY DEF SoloInv, PlacesOK, MonitorsFollowActive, Working, Match, StartLabels, StopLabels
<1> QED
  BY <1>1, InitSoloInv, SoloInvStep, PTL DEF Spec

-----------------------------------------------------------------------------
(* No process is dropped.                                                     *)

DockerOwned(i) == life[i] # "unborn" /\ Kind[owner[i]] = "docker"

\* What docker services have, and what was dropped, were made by docker run.
DockerKept ==
  /\ \A n \in Names : Kind[n] = "docker" /\ active[n] # None => DockerOwned(active[n])
  /\ \A c \in Clients : task[c].pc \in HoldingLabels /\ Kind[Svc(c)] = "docker" =>
       DockerOwned(Inst(c))
  /\ crashes = 0 => \A i \in forgotten : DockerOwned(i)

KeptInv == SoloInv /\ DockerKept

\* DockerOwned after the step, of an instance named before or after it.
DockerAfter(i) == life'[i] # "unborn" /\ Kind[owner'[i]] = "docker"

\* An instance keeps the name it was spawned for.
LEMMA DockerOwnedStays ==
  ASSUME TypeInv, [Next]_vars
  PROVE  \A i \in Instances : DockerOwned(i) => DockerAfter(i)
<1> USE DEF TypeInv, TypeOK
<1>1. \A i \in Instances : life[i] # "unborn" => owner'[i] = owner[i]
  <2>1. ASSUME NEW c \in Clients, Launch(c) \/ DockerRun(c)
        PROVE  \A i \in Instances : life[i] # "unborn" => owner'[i] = owner[i]
    BY <2>1 DEF Launch, DockerRun, Spawn, Fresh
  <2> QED
    BY <2>1 DEF Next, Request, BeginStart, BeginStop, BeginStatus, BeginHealthRun, StartStep,
         Detect, NetworkInfo, InstallMonitor, InstallActive, RegisterLookup, RegisterPut,
         RegisterFlush, StopStep, Kill, Inspect, DockerStop, DockerRm, Unmonitor, MarkStopped,
         QueryStep, CheckActive, EndStatus, PollNext, HealthVerdict, Exit, Crash, vars
<1> QED
  BY <1>1, LifeOnlyForward DEF DockerOwned, DockerAfter, LifeForward

Held(c) ==
  task[c].pc \in HoldingLabels /\ Kind[Svc(c)] = "docker" => DockerOwned(Inst(c))

\* What is left to show of a handler's step.
LEMMA KeptBy ==
  ASSUME NEW c \in Clients, KeptInv, OnlyTask(c), [Next]_vars, crashes' = crashes,
         Held(c)',
         \A n \in Names : Kind[n] = "docker" /\ active'[n] # active[n] /\ active'[n] # None =>
           DockerAfter(active'[n]),
         crashes = 0 => \A i \in forgotten' \ forgotten : DockerAfter(i)
  PROVE  DockerKept'
<1> USE DEF KeptInv, SoloInv, TypeInv, TypeOK
<1>1. \A i \in Instances : DockerOwned(i) => DockerAfter(i)
  BY DockerOwnedStays
<1>2. \A n \in Names : Kind[n] = "docker" /\ active'[n] # None => DockerAfter(active'[n])
  BY <1>1 DEF DockerKept, DockerOwned, DockerAfter
<1>3. ASSUME NEW e \in Clients, task'[e].pc \in HoldingLabels, Kind[task'[e].svc] = "docker"
      PROVE  DockerAfter(task'[e].inst)
  <2>1. CASE e = c
    BY <1>3, <2>1 DEF Held, Svc, Inst, DockerOwned, DockerAfter
  <2>2. CASE e # c
    <3>1. task'[e] = task[e]
      BY <2>2 DEF OnlyTask
    <3>2. task[e].inst \in Instances
      BY <1>3, <3>1 DEF TaskOK, HandlerOK, HoldingLabels, StartLabels, StopLabels
    <3>3. DockerOwned(task[e].inst)
      BY <1>3, <3>1 DEF DockerKept, Svc, Inst, DockerOwned
    <3> QED  BY <1>1, <3>1, <3>2, <3>3 DEF DockerOwned, DockerAfter
  <2> QED  BY <2>1, <2>2
<1>4. crashes' = 0 => \A i \in forgotten' : DockerAfter(i)
  BY <1>1 DEF DockerKept, DockerOwned, DockerAfter
<1> QED
  BY <1>2, <1>3, <1>4 DEF DockerKept, Svc, Inst, DockerOwned, DockerAfter

LEMMA KeptStart ==
  ASSUME NEW c \in Clients, KeptInv, [Next]_vars, StartStep(c)
  PROVE  DockerKept'
<1> USE DEF KeptInv, SoloInv, TypeInv, TypeOK, At, Svc, Inst, Held
<1>0. HandlerOK(task[c]) /\ OnlyTask(c) /\ Held(c)
  BY StartTask DEF TaskOK, DockerKept
<1>1. \A i \in Instances : DockerOwned(i) => DockerAfter(i)
  BY DockerOwnedStays
<1>2. CASE Launch(c)
  <2>1. Kind[task[c].svc] = "process" /\ UNCHANGED <<active, forgotten, crashes>>
    BY <1>0, <1>2 DEF Launch, HandlerOK
  <2>2. task'[c].pc = "idle" \/ task'[c].svc = task[c].svc
    BY <1>2, Moves DEF Launch
  <2>3. Held(c)'
    BY <2>1, <2>2 DEF HoldingLabels
  <2> QED  BY <1>0, <2>1, <2>3, KeptBy
<1>3. CASE Detect(c)
  <2>1. UNCHANGED <<active, forgotten, crashes, owner>>
    BY <1>3 DEF Detect
  <2>2. task'[c].pc \in {"run", "idle"} \/ DockerOwned(task'[c].inst)
    <3>1. \A i \in Detected(task[c].svc) : DockerOwned(i)
      BY DEF Detected, ContainerOf, DockerOwned
    <3> QED  BY <1>3, <3>1, Moves DEF Detect
  <2>3. DockerOwned(task'[c].inst) /\ task'[c].inst \in Instances => DockerAfter(task'[c].inst)
    BY <1>1 DEF DockerOwned, DockerAfter
  <2>4. Held(c)'
    <3>1. task'[c].pc \in HoldingLabels => task'[c].inst \in Instances
      BY <1>0 DEF OnlyTask, HandlerOK, HoldingLabels, StartLabels, StopLabels
    <3> QED  BY <2>2, <2>3, <3>1 DEF HoldingLabels, DockerOwned, DockerAfter
  <2> QED  BY <1>0, <2>1, <2>4, KeptBy
<1>4. CASE DockerRun(c)
  <2>1. Kind[task[c].svc] = "docker" /\ UNCHANGED <<active, crashes>> /\ task[c].svc \in Names
    BY <1>0, <1>4 DEF DockerRun, HandlerOK
  <2>2. ASSUME NEW i \in Fresh, NEW s \in {"running", "exited"}, Spawn(c, i, s)
        PROVE  DockerAfter(i)
    BY <2>1, <2>2 DEF Spawn, DockerAfter, Fresh
  <2>3. Held(c)' /\ \A i \in forgotten' \ forgotten : DockerAfter(i)
    <3>1. CASE \E i \in Fresh : Spawn(c, i, "running") /\ Hold(c, i, "netinfo") /\ UNCHANGED forgotten
      BY <2>2, <3>1, Moves DEF DockerOwned, DockerAfter
    <3>2. CASE \E i \in Fresh : Spawn(c, i, "exited") /\ Forget({i}) /\ Answer(c, "error")
      BY <2>2, <3>2, Moves DEF Forget, HoldingLabels
    <3>3. CASE Answer(c, "error") /\ UNCHANGED forgotten
      BY <3>3, Moves DEF HoldingLabels
    <3> QED  BY <1>4, <3>1, <3>2, <3>3 DEF DockerRun
  <2> QED  BY <1>0, <2>1, <2>3, KeptBy
<1>5. CASE NetworkInfo(c)
  <2>1. DockerAfter(task[c].inst) /\ UNCHANGED <<active, crashes>>
    BY <1>0, <1>1, <1>5 DEF NetworkInfo, HandlerOK, HoldingLabels, StartLabels, StopLabels
  <2>2. task'[c].pc = "idle" \/ task'[c].inst = task[c].inst
    BY <1>5, Moves DEF NetworkInfo
  <2>3. Held(c)'
    BY <2>1, <2>2 DEF HoldingLabels, DockerOwned, DockerAfter
  <2>4. \A i \in forgotten' \ forgotten : i = task[c].inst
    BY <1>5 DEF NetworkInfo, Forget
  <2> QED  BY <1>0, <2>1, <2>3, <2>4, KeptBy
<1>6. CASE InstallMonitor(c)
  <2>1. UNCHANGED <<active, forgotten, crashes>> /\ task[c].inst \in Instances
    BY <1>0, <1>6 DEF InstallMonitor, HandlerOK, StartLabels, StopLabels
  <2>2. task'[c].inst = task[c].inst /\ task'[c].svc = task[c].svc
    BY <1>6, Moves DEF InstallMonitor
  <2>3. Held(c)'
    BY <1>0, <1>1, <1>6, <2>1, <2>2 DEF InstallMonitor, HoldingLabels, DockerOwned, DockerAfter
  <2> QED  BY <1>0, <2>1, <2>3, KeptBy
<1>7. CASE InstallActive(c)
  <2> DEFINE n == task[c].svc
  <2>1. /\ n \in Names /\ task[c].inst \in Instances /\ Kind[n] # "remote"
        /\ active' = [active EXCEPT ![n] = task[c].inst] /\ crashes' = crashes
    BY <1>0, <1>7 DEF InstallActive, StoreActive, HandlerOK, StartLabels, StopLabels
  <2>2. Held(c)'
    BY <1>7, Moves DEF InstallActive, HoldingLabels
  <2>3. Kind[n] = "docker" => DockerAfter(task[c].inst)
    BY <1>0, <1>1, <1>7, <2>1 DEF InstallActive, HoldingLabels
  <2>4. \A m \in Names : Kind[m] = "docker" /\ active'[m] # active[m] => DockerAfter(active'[m])
    BY <2>1, <2>3 DEF DockerOwned, DockerAfter
  <2>5. \A i \in forgotten' \ forgotten : DockerAfter(i)
    <3>1. \A i \in forgotten' \ forgotten : i = active[n] /\ active[n] # None
      BY <1>7 DEF InstallActive, Forget
    <3>2. CASE Kind[n] = "process"
      <4>1. active[n] = None
        BY <1>7, <2>1, <3>2 DEF InstallActive, PlacesOK, Working, Place
      <4> QED  BY <3>1, <4>1
    <3>3. CASE Kind[n] = "docker"
      BY <1>1, <2>1, <3>1, <3>3 DEF DockerKept
    <3> QED  BY <2>1, <3>2, <3>3, NamesAssumption
  <2> QED  BY <1>0, <2>1, <2>2, <2>4, <2>5, KeptBy
<1>8. CASE RegisterLookup(c) \/ RegisterPut(c) \/ RegisterFlush(c)
  <2>1. UNCHANGED <<active, forgotten, crashes>>
    BY <1>8 DEF RegisterLookup, RegisterPut, RegisterFlush
  <2>2. task'[c].pc \in {"put", "flush", "idle"}
    BY <1>8, Moves DEF RegisterLookup, RegisterPut, RegisterFlush
  <2>3. Held(c)'
    BY <2>2 DEF HoldingLabels
  <2> QED  BY <1>0, <2>1, <2>3, KeptBy
<1> QED
  BY StartStep(c), <1>2, <1>3, <1>4, <1>5, <1>6, <1>7, <1>8 DEF StartStep

LEMMA KeptStop ==
  ASSUME NEW c \in Clients, KeptInv, [Next]_vars, StopStep(c)
  PROVE  DockerKept'
<1> USE DEF KeptInv, SoloInv, TypeInv, TypeOK, At, Svc, Inst, Held
<1>0. HandlerOK(task[c]) /\ OnlyTask(c) /\ Held(c)
  BY StopTask DEF TaskOK, DockerKept
<1>1. \A i \in Instances : DockerOwned(i) => DockerAfter(i)
  BY DockerOwnedStays
<1>2. CASE Kill(c) \/ Unmonitor(c) \/ MarkStopped(c)
  <2>1. UNCHANGED <<active, forgotten, crashes>>
    BY <1>2 DEF Kill, Unmonitor, MarkStopped
  <2>2. task'[c].pc \in {"unmonitor", "mark", "idle"}
    BY <1>2, Moves DEF Kill, Unmonitor, MarkStopped
  <2>3. Held(c)'
    BY <2>2 DEF HoldingLabels
  <2> QED  BY <1>0, <2>1, <2>3, KeptBy
<1>3. CASE Inspect(c) \/ DockerStop(c) \/ DockerRm(c)
  <2>1. UNCHANGED <<active, crashes>> /\ task[c].inst \in Instances /\ DockerAfter(task[c].inst)
    BY <1>0, <1>1, <1>3
       DEF Inspect, DockerStop, DockerRm, HandlerOK, HoldingLabels, StartLabels, StopLabels
  <2>2. task'[c].pc \in {"unmonitor", "idle"} \/ task'[c].inst = task[c].inst
    BY <1>3, Moves DEF Inspect, DockerStop, DockerRm
  <2>3. Held(c)'
    BY <2>1, <2>2 DEF HoldingLabels, DockerOwned, DockerAfter
  <2>4. \A i \in forgotten' \ forgotten : i = task[c].inst
    BY <1>3 DEF Inspect, DockerStop, DockerRm, Forget
  <2> QED  BY <1>0, <2>1, <2>3, <2>4, KeptBy
<1> QED
  BY StopStep(c), <1>2, <1>3 DEF StopStep

LEMMA KeptRequest ==
  ASSUME NEW c \in Clients, KeptInv, [Next]_vars, Request(c)
  PROVE  DockerKept'
<1> USE DEF KeptInv, SoloInv, TypeInv, TypeOK, At, Svc, Inst, Held
<1>0. OnlyTask(c)
  BY RequestTask
<1>1. UNCHANGED <<forgotten, crashes>>
  BY DEF Request, BeginStart, BeginStop, BeginStatus, BeginHealthRun
<1>2. CASE UNCHANGED active /\ task'[c].pc \notin HoldingLabels
  BY <1>0, <1>1, <1>2, KeptBy
<1>3. ASSUME NEW n \in Names, BeginStop(c, n)  PROVE DockerKept'
  <2>1. CASE active[n] = None
    <3>1. UNCHANGED active /\ task'[c].pc = "idle"
      BY <1>3, <2>1, Moves DEF BeginStop
    <3> QED  BY <1>2, <3>1 DEF HoldingLabels
  <2>2. CASE active[n] # None
    <3>1. active' = [active EXCEPT ![n] = None] /\ task'[c].svc = n /\ task'[c].inst = active[n]
      BY <1>3, <2>2 DEF BeginStop, TakeActive, IdleTask
    <3>2. Kind[n] = "docker" => DockerAfter(active[n])
      BY <2>2, DockerOwnedStays DEF DockerKept
    <3>3. Held(c)'
      BY <3>1, <3>2 DEF DockerOwned, DockerAfter
    <3> QED  BY <1>0, <1>1, <3>1, <3>3, KeptBy
  <2> QED  BY <2>1, <2>2
<1>4. ASSUME NEW n \in Names, BeginStart(c, n)  PROVE DockerKept'
  <2>1. UNCHANGED active
    BY <1>4 DEF BeginStart
  <2>2. task'[c].pc \in {"idle", "detect", "launch"}
    <3>1. CASE Answer(c, "exists") \/ Answer(c, "error")
      BY <3>1, Moves
    <3>2. CASE ~ AlreadyActive(n) /\ Kind[n] # "remote"
      BY <1>4, <3>2 DEF BeginStart, IdleTask
    <3> QED  BY <1>4, <3>1, <3>2 DEF BeginStart
  <2> QED  BY <1>2, <2>1, <2>2 DEF HoldingLabels
<1>5. ASSUME NEW n \in Names, BeginStatus(c, n)  PROVE DockerKept'
  BY <1>2, <1>5 DEF BeginStatus, IdleTask, HoldingLabels
<1>6. CASE BeginHealthRun(c)
  BY <1>2, <1>6 DEF BeginHealthRun, IdleTask, HoldingLabels
<1> QED  BY Request(c), <1>3, <1>4, <1>5, <1>6 DEF Request

LEMMA KeptQuery ==
  ASSUME NEW c \in Clients, KeptInv, [Next]_vars, QueryStep(c) \/ HealthVerdict(c)
  PROVE  DockerKept'
<1> USE DEF KeptInv, SoloInv, TypeInv, TypeOK, At, Svc, Inst, Held
<1>0. OnlyTask(c)
  BY QueryTask
<1>1. UNCHANGED <<active, forgotten, crashes>>
  BY DEF QueryStep, CheckActive, EndStatus, PollNext, HealthVerdict
<1>2. task'[c].pc \in {"report", "idle", "poll", "health"}
  <2>1. CASE CheckActive(c) \/ EndStatus(c) \/ HealthVerdict(c)
    BY <2>1, Moves DEF CheckActive, EndStatus, HealthVerdict
  <2>2. CASE PollNext(c)
    <3>1. task[c] \in Task /\ task[c].pc = "poll"
      BY <2>2 DEF PollNext
    <3>2. ASSUME NEW m \in task[c].todo,
                 \/ task' = [task EXCEPT ![c].todo = Remaining(c, m)]
                 \/ task' = [task EXCEPT ![c].todo = Remaining(c, m), ![c].pc = "health",
                                         ![c].svc = m, ![c].inst = monitors[m].of]
          PROVE  task'[c].pc \in {"poll", "health"}
      BY <3>1, <3>2 DEF Task
    <3> QED  BY <2>2, <3>2, Moves DEF PollNext
  <2> QED  BY <2>1, <2>2 DEF QueryStep
<1>3. Held(c)'
  BY <1>2 DEF HoldingLabels
<1> QED  BY <1>0, <1>1, <1>3, KeptBy

LEMMA KeptInvStep ==
  ASSUME ~ Parallel
  PROVE  KeptInv /\ [Next]_vars => KeptInv'
<1> SUFFICES ASSUME KeptInv, [Next]_vars  PROVE KeptInv'
  OBVIOUS
<1>1. SoloInv'
  BY SoloInvStep DEF KeptInv
<1>2. ASSUME NEW c \in Clients,
             Request(c) \/ StartStep(c) \/ StopStep(c) \/ QueryStep(c) \/ HealthVerdict(c)
      PROVE  DockerKept'
  BY <1>2, KeptRequest, KeptStart, KeptStop, KeptQuery
<1>3. ASSUME UNCHANGED <<active, task, forgotten, crashes>>  PROVE DockerKept'
  <2>1. \A i \in Instances : DockerOwned(i) => DockerAfter(i)
    BY DockerOwnedStays DEF KeptInv, SoloInv
  <2>2. \A c \in Clients : task[c].pc \in HoldingLabels => task[c].inst \in Instances
    BY DEF KeptInv, SoloInv, TypeInv, TaskOK, HandlerOK, HoldingLabels, StartLabels, StopLabels
  <2> QED
    BY <1>3, <2>1, <2>2
       DEF KeptInv, SoloInv, TypeInv, TypeOK, DockerKept, DockerOwned, DockerAfter, Svc, Inst
<1>4. ASSUME Crash  PROVE DockerKept'
  <2>1. crashes' # 0
    BY <1>4, BoundsAssumption DEF Crash, KeptInv, SoloInv, TypeInv, TypeOK
  <2> QED  BY <1>4, <2>1 DEF Crash, DockerKept, IdleTask, HoldingLabels
<1> QED
  BY <1>1, <1>2, <1>3, <1>4 DEF KeptInv, Next, Exit, vars

\* On one executor thread, and as long as the daemon has not crashed, what the
\* manager lets go of are containers: start_service never stores a process over
\* another, and stop_service hands every process it takes to its end.
THEOREM NoProcessDropped ==
  ASSUME ~ Parallel
  PROVE  Spec => [](crashes = 0 => ProcessesKept)
<1>1. Init => KeptInv
  BY InitSoloInv DEF KeptInv, DockerKept, Init, IdleTask, HoldingLabels
<1>2. KeptInv => (crashes = 0 => ProcessesKept)
  BY DEF KeptInv, DockerKept, DockerOwned, ProcessesKept
<1> QED
  BY <1>1, <1>2, KeptInvStep, PTL DEF Spec
=============================================================================
