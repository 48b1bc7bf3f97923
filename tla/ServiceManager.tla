--------------------------- MODULE ServiceManager ---------------------------
(***************************************************************************)
(* service-orchestration's ServiceManager as the harness daemon drives it: *)
(* every client connection is a task that serves one request at a time,    *)
(* all tasks share one manager, and nothing serialises them but the        *)
(* manager's own short RwLock sections.  A request handler is cut at every *)
(* lock section and at every await.  The two executors (ProcessExecutor,   *)
(* DockerExecutor) are part of the handlers that call them; the operating  *)
(* system and Docker are the variables life and owner.                     *)
(*                                                                         *)
(* Two schedulers are covered.  With Parallel = TRUE any two handlers can  *)
(* interleave between any two steps (an executor with several threads).    *)
(* With Parallel = FALSE a handler only gives way where it really awaits   *)
(* something (smol's default single executor thread).                      *)
(***************************************************************************)
EXTENDS Naturals, FiniteSets

CONSTANTS
  Names,          \* service names
  Clients,        \* connections, one handler task each
  Instances,      \* processes and containers that can ever be created
  None,           \* no instance, no monitor, no registry entry
  Kind,           \* Names -> {"process", "docker", "remote"}: config.target
  Monitored,      \* the names whose config carries a health_check
  DetectMatches,  \* <<n, m>>: "orchestrator-m" contains "orchestrator-n-harness-test"
  Parallel,       \* TRUE: several executor threads
  MaxFailures,    \* bound on a monitor's consecutive_failures
  MaxCrashes      \* bound on daemon crashes

ASSUME NamesAssumption ==
  /\ None \notin Instances \cup Names
  /\ Kind \in [Names -> {"process", "docker", "remote"}]
  /\ Monitored \subseteq Names
  /\ DetectMatches \subseteq Names \X Names

ASSUME BoundsAssumption ==
  /\ Parallel \in BOOLEAN
  /\ MaxFailures \in Nat
  /\ MaxCrashes \in Nat

\* A detection filter is longer than the name docker run uses for the service.
ASSUME DetectAssumption == \A n \in Names : <<n, n>> \notin DetectMatches

VARIABLES
  active,     \* active_services: name -> instance
  monitors,   \* health_monitors: name -> HealthMonitor
  registry,   \* the persistent service registry: name -> entry
  tracked,    \* ProcessExecutor.running_processes, by instance
  life,       \* what the operating system and Docker know of an instance
  owner,      \* the name an instance was started for
  task,       \* each connection's handler: where it is and what it holds
  forgotten,  \* history: instances dropped without having been stopped
  crashes     \* history: how often the daemon has crashed

vars == <<active, monitors, registry, tracked, life, owner, task, forgotten, crashes>>

ServiceState == {"Registered", "Starting", "Running", "Stopping", "Stopped", "Failed"}
Monitor == [failures : 0 .. MaxFailures, last : {"Healthy", "Unhealthy", "Unknown"},
            of : Instances]
Entry == [state : ServiceState, inst : Instances]

ASSUME NoneAssumption == None \notin Monitor /\ None \notin Entry

StartLabels == {"launch", "detect", "run", "netinfo", "monitor", "install",
                "lookup", "put", "flush"}
StopLabels == {"kill", "inspect", "dstop", "drm", "unmonitor", "mark"}
Labels == {"idle", "status", "report", "poll", "health"} \cup StartLabels \cup StopLabels

Answers == {"none", "started", "exists", "error", "stopped", "notfound", "checked",
            "Running", "Stopped", "Unhealthy", "Failed"}

Task == [pc : Labels, svc : Names \cup {None}, inst : Instances \cup {None},
         seen : ServiceState \cup {None}, todo : SUBSET Names, ans : Answers]

IdleTask == [pc |-> "idle", svc |-> None, inst |-> None, seen |-> None,
             todo |-> {}, ans |-> "none"]

Init ==
  /\ active = [n \in Names |-> None]
  /\ monitors = [n \in Names |-> None]
  /\ registry = [n \in Names |-> None]
  /\ tracked = {}
  /\ life = [i \in Instances |-> "unborn"]
  /\ owner = [i \in Instances |-> None]
  /\ task = [c \in Clients |-> IdleTask]
  /\ forgotten = {}
  /\ crashes = 0

-----------------------------------------------------------------------------
(* Scheduling and the shape of a handler step *)

\* Where a handler really waits for something outside the executor thread: the
\* next request, a docker or health check command, the flush of the registry.  A
\* docker command has its effect while the handler still waits to be polled, so
\* the labels that follow the last command of start and stop count as waiting.
Awaiting(c) ==
  \/ task[c].pc \in {"idle", "detect", "run", "netinfo", "flush",
                     "inspect", "dstop", "drm", "health"}
  \/ task[c].pc \in {"monitor", "unmonitor"} /\ Kind[task[c].svc] = "docker"

MayRun(c) == Parallel \/ \A d \in Clients \ {c} : Awaiting(d)

At(c, label) == task[c].pc = label /\ MayRun(c)

Goto(c, label) == task' = [task EXCEPT ![c].pc = label]

Hold(c, i, label) == task' = [task EXCEPT ![c].pc = label, ![c].inst = i]

Answer(c, a) == task' = [task EXCEPT ![c] = [IdleTask EXCEPT !.ans = a]]

\* The service in c's hands and the instance it works on.
Svc(c) == task[c].svc
Inst(c) == task[c].inst

Fresh == {i \in Instances : life[i] = "unborn"}

Forget(S) == forgotten' = forgotten \cup S

\* A container keeps its name from docker run to docker rm.
ContainerOf(n) == {i \in Instances : owner[i] = n /\ life[i] \in {"running", "exited"}}

\* DockerExecutor::detect_existing_container, what its name filter can match.
Detected(n) == UNION {ContainerOf(m) : m \in {x \in Names : <<n, x>> \in DetectMatches
                                                           /\ Kind[x] = "docker"}}

\* What stopping a service has to make go away.
Present(i) == \/ life[i] = "running"
              \/ life[i] = "exited" /\ Kind[owner[i]] = "docker"

Spawn(c, i, stage) ==
  /\ life' = [life EXCEPT ![i] = stage]
  /\ owner' = [owner EXCEPT ![i] = Svc(c)]

\* Registry::is_valid_transition
ValidTransition(from, to) ==
  \/ to = "Failed"
  \/ from \in {"Registered", "Stopped", "Failed"} /\ to = "Starting"
  \/ from = "Starting" /\ to = "Running"
  \/ from \in {"Running", "Starting"} /\ to = "Stopping"
  \/ from = "Stopping" /\ to = "Stopped"

-----------------------------------------------------------------------------
(* The manager's and the executors' single effects.  An operator called M_... *)
(* is a plausible mistake in the operator after it; no specification uses it.  *)

\* active_services.contains_key under the read lock.
M_AlreadyActive(n) == FALSE
AlreadyActive(n) == active[n] # None

\* HashMap::insert: whatever was stored under the name is dropped.
M_StoreActive(n, i) == [active EXCEPT ![n] = IF @ = None THEN i ELSE @]
StoreActive(n, i) == [active EXCEPT ![n] = i]

\* HashMap::remove under the write lock.
M_TakeActive(n) == active
TakeActive(n) == [active EXCEPT ![n] = None]

\* terminate, then the dropped LocalProcessHandle kills.
M_Killed(i) == life
Killed(i) == [life EXCEPT ![i] = "exited"]

\* docker rm
Removed(i) == [life EXCEPT ![i] = "gone"]

\* health_monitors.remove
M_DropMonitor(n) == monitors
DropMonitor(n) == [monitors EXCEPT ![n] = None]

\* What run_health_checks writes back; config.retries is not consulted.
RecordVerdict(m, verdict) ==
  [failures |-> IF verdict = "Healthy" THEN 0 ELSE m.failures + 1,
   last |-> verdict, of |-> m.of]

\* The names a health run still has to visit.
M_Remaining(c, n) == task[c].todo
Remaining(c, n) == task[c].todo \ {n}

-----------------------------------------------------------------------------
(* start_service *)

\* The read-locked check, inject_network_config and find_executor: no await.
BeginStart(c, n) ==
  /\ At(c, "idle")
  /\ IF AlreadyActive(n) THEN Answer(c, "exists")
     ELSE IF Kind[n] = "remote" THEN Answer(c, "error")
     ELSE task' = [task EXCEPT ![c] = [IdleTask EXCEPT
                     !.pc = IF Kind[n] = "docker" THEN "detect" ELSE "launch",
                     !.svc = n]]
  /\ UNCHANGED <<active, monitors, registry, tracked, life, owner, forgotten, crashes>>

\* ProcessExecutor::start: spawn, then track the handle under a new instance id.
Launch(c) ==
  /\ At(c, "launch")
  /\ \/ \E i \in Fresh :
          /\ Spawn(c, i, "running")
          /\ tracked' = tracked \cup {i}
          /\ Hold(c, i, "monitor")
     \/ Answer(c, "error") /\ UNCHANGED <<life, owner, tracked>>
  /\ UNCHANGED <<active, monitors, registry, forgotten, crashes>>

\* DockerExecutor::start, first half: docker ps with the name filter; adopt a
\* running match, remove (or fail to remove) one that is not running.
Detect(c) ==
  /\ At(c, "detect")
  /\ \/ Goto(c, "run") /\ UNCHANGED life
     \/ \E i \in Detected(Svc(c)) :
          life[i] = "running" /\ Hold(c, i, "netinfo") /\ UNCHANGED life
     \/ \E i \in Detected(Svc(c)) :
          life[i] = "exited" /\ Goto(c, "run") /\ life' = Removed(i)
     \/ Answer(c, "error") /\ UNCHANGED life
  /\ UNCHANGED <<active, monitors, registry, tracked, owner, forgotten, crashes>>

\* docker run --name orchestrator-<name>: Docker refuses a name that is taken, and
\* leaves a container it created but could not start.
DockerRun(c) ==
  /\ At(c, "run")
  /\ \/ /\ ContainerOf(Svc(c)) = {}
        /\ \E i \in Fresh : Spawn(c, i, "running") /\ Hold(c, i, "netinfo")
        /\ UNCHANGED forgotten
     \/ /\ ContainerOf(Svc(c)) = {}
        /\ \E i \in Fresh : Spawn(c, i, "exited") /\ Forget({i})
        /\ Answer(c, "error")
     \/ Answer(c, "error") /\ UNCHANGED <<life, owner, forgotten>>
  /\ UNCHANGED <<active, monitors, registry, tracked, crashes>>

\* get_container_network_info: a failure leaves the container behind.
NetworkInfo(c) ==
  /\ At(c, "netinfo")
  /\ \/ life[Inst(c)] # "gone" /\ Goto(c, "monitor") /\ UNCHANGED forgotten
     \/ Answer(c, "error") /\ Forget({Inst(c)})
  /\ UNCHANGED <<active, monitors, registry, tracked, life, owner, crashes>>

InstallMonitor(c) ==
  /\ At(c, "monitor")
  /\ monitors' = IF Svc(c) \in Monitored
                 THEN [monitors EXCEPT ![Svc(c)] =
                         [failures |-> 0, last |-> "Unknown", of |-> Inst(c)]]
                 ELSE monitors
  /\ Goto(c, "install")
  /\ UNCHANGED <<active, registry, tracked, life, owner, forgotten, crashes>>

InstallActive(c) ==
  /\ At(c, "install")
  /\ active' = StoreActive(Svc(c), Inst(c))
  /\ Forget({active[Svc(c)]} \ {None, Inst(c)})
  /\ Goto(c, "lookup")
  /\ UNCHANGED <<monitors, registry, tracked, life, owner, crashes>>

\* Registry::register, the existence check; ServiceExists is only logged.
RegisterLookup(c) ==
  /\ At(c, "lookup")
  /\ IF registry[Svc(c)] = None THEN Goto(c, "put") ELSE Answer(c, "started")
  /\ UNCHANGED <<active, monitors, registry, tracked, life, owner, forgotten, crashes>>

\* put_service: the insert is visible at once, durable after the flush.
RegisterPut(c) ==
  /\ At(c, "put")
  /\ registry' = [registry EXCEPT ![Svc(c)] = [state |-> "Registered", inst |-> Inst(c)]]
  /\ Goto(c, "flush")
  /\ UNCHANGED <<active, monitors, tracked, life, owner, forgotten, crashes>>

RegisterFlush(c) ==
  /\ At(c, "flush")
  /\ Answer(c, "started")
  /\ UNCHANGED <<active, monitors, registry, tracked, life, owner, forgotten, crashes>>

-----------------------------------------------------------------------------
(* stop_service *)

\* The write-locked remove: the caller now owns the RunningService.
BeginStop(c, n) ==
  /\ At(c, "idle")
  /\ IF active[n] = None
     THEN Answer(c, "notfound") /\ UNCHANGED active
     ELSE /\ active' = TakeActive(n)
          /\ task' = [task EXCEPT ![c] = [IdleTask EXCEPT
                        !.pc = IF Kind[n] = "docker" THEN "inspect" ELSE "kill",
                        !.svc = n, !.inst = active[n]]]
  /\ UNCHANGED <<monitors, registry, tracked, life, owner, forgotten, crashes>>

\* ProcessExecutor::stop: SIGTERM, then the dropped handle sends SIGKILL.
Kill(c) ==
  /\ At(c, "kill")
  /\ tracked' = tracked \ {Inst(c)}
  /\ life' = Killed(Inst(c))
  /\ Goto(c, "unmonitor")
  /\ UNCHANGED <<active, monitors, registry, owner, forgotten, crashes>>

\* DockerExecutor::stop, docker inspect.  A container that does not exist, or
\* that inspect could not report on, counts as stopped; an exited one is
\* removed; if docker cannot be executed the error ends stop_service.
Inspect(c) ==
  LET i == Inst(c) IN
  /\ At(c, "inspect")
  /\ \/ life[i] # "gone" /\ Goto(c, "unmonitor") /\ Forget({i}) /\ UNCHANGED life
     \/ life[i] = "gone" /\ Goto(c, "unmonitor") /\ UNCHANGED <<forgotten, life>>
     \/ /\ life[i] = "exited"
        /\ Goto(c, "unmonitor")
        /\ life' = Removed(i)
        /\ UNCHANGED forgotten
     \/ life[i] = "running" /\ Goto(c, "dstop") /\ UNCHANGED <<forgotten, life>>
     \/ Answer(c, "error") /\ Forget({i}) /\ UNCHANGED life
  /\ UNCHANGED <<active, monitors, registry, tracked, owner, crashes>>

\* docker stop: a failure is logged and stop_service goes on as if it had worked.
DockerStop(c) ==
  LET i == Inst(c) IN
  /\ At(c, "dstop")
  /\ \/ /\ life[i] # "gone"
        /\ life' = [life EXCEPT ![i] = "exited"]
        /\ Goto(c, "drm")
        /\ UNCHANGED forgotten
     \/ Goto(c, "unmonitor") /\ Forget({i}) /\ UNCHANGED life
     \/ Answer(c, "error") /\ Forget({i}) /\ UNCHANGED life
  /\ UNCHANGED <<active, monitors, registry, tracked, owner, crashes>>

\* docker rm, whose exit status is ignored.
DockerRm(c) ==
  LET i == Inst(c) IN
  /\ At(c, "drm")
  /\ \/ life' = Removed(i) /\ Goto(c, "unmonitor") /\ UNCHANGED forgotten
     \/ Goto(c, "unmonitor") /\ Forget({i}) /\ UNCHANGED life
     \/ Answer(c, "error") /\ Forget({i}) /\ UNCHANGED life
  /\ UNCHANGED <<active, monitors, registry, tracked, owner, crashes>>

\* The monitor is removed by name, whoever installed it.
Unmonitor(c) ==
  /\ At(c, "unmonitor")
  /\ monitors' = DropMonitor(Svc(c))
  /\ Goto(c, "mark")
  /\ UNCHANGED <<active, registry, tracked, life, owner, forgotten, crashes>>

\* Registry::update_state(name, Stopped); an error is only logged.
MarkStopped(c) ==
  LET n == Svc(c) IN
  /\ At(c, "mark")
  /\ registry' = IF registry[n] # None /\ ValidTransition(registry[n].state, "Stopped")
                 THEN [registry EXCEPT ![n].state = "Stopped"]
                 ELSE registry
  /\ Answer(c, "stopped")
  /\ UNCHANGED <<active, monitors, tracked, life, owner, forgotten, crashes>>

-----------------------------------------------------------------------------
(* get_service_status and run_health_checks *)

\* The registry is asked first ...
BeginStatus(c, n) ==
  /\ At(c, "idle")
  /\ task' = [task EXCEPT ![c] = [IdleTask EXCEPT
                !.pc = "status", !.svc = n,
                !.seen = IF registry[n] = None THEN None ELSE registry[n].state]]
  /\ UNCHANGED <<active, monitors, registry, tracked, life, owner, forgotten, crashes>>

\* ... then, for a registered name, whether it is active: if not it must stem
\* from an earlier run of the daemon, and the registry's word is taken ...
CheckActive(c) ==
  /\ At(c, "status")
  /\ IF task[c].seen = None \/ active[Svc(c)] # None THEN Goto(c, "report")
     ELSE Answer(c, IF task[c].seen \in {"Running", "Failed"} THEN task[c].seen ELSE "Stopped")
  /\ UNCHANGED <<active, monitors, registry, tracked, life, owner, forgotten, crashes>>

\* ... and the active services once more, now together with the monitors.
EndStatus(c) ==
  LET n == Svc(c) IN
  /\ At(c, "report")
  /\ Answer(c, IF active[n] = None THEN "Stopped"
               ELSE IF monitors[n] # None /\ monitors[n].last = "Unhealthy" THEN "Unhealthy"
               ELSE "Running")
  /\ UNCHANGED <<active, monitors, registry, tracked, life, owner, forgotten, crashes>>

BeginHealthRun(c) ==
  /\ At(c, "idle")
  /\ task' = [task EXCEPT ![c] = [IdleTask EXCEPT
                !.pc = "poll", !.todo = {n \in Names : monitors[n] # None}]]
  /\ UNCHANGED <<active, monitors, registry, tracked, life, owner, forgotten, crashes>>

\* Read the next monitor's config and start its command, or skip the name.
PollNext(c) ==
  /\ At(c, "poll")
  /\ \/ task[c].todo = {} /\ Answer(c, "checked")
     \/ \E n \in task[c].todo :
          IF monitors[n] = None
          THEN task' = [task EXCEPT ![c].todo = Remaining(c, n)]
          ELSE task' = [task EXCEPT ![c].todo = Remaining(c, n), ![c].pc = "health",
                                    ![c].svc = n, ![c].inst = monitors[n].of]
  /\ UNCHANGED <<active, monitors, registry, tracked, life, owner, forgotten, crashes>>

\* HealthChecker::check_health: a command that fails or cannot be run is a verdict too.
Verdicts == {"Healthy", "Unhealthy"}

\* The verdict goes to whatever monitor the name has by now.
HealthVerdict(c) ==
  LET n == Svc(c) IN
  /\ At(c, "health")
  /\ \E verdict \in Verdicts :
       /\ (monitors[n] # None /\ verdict = "Unhealthy") => monitors[n].failures < MaxFailures
       /\ monitors' = IF monitors[n] = None THEN monitors
                      ELSE [monitors EXCEPT ![n] = RecordVerdict(@, verdict)]
  /\ Goto(c, "poll")
  /\ UNCHANGED <<active, registry, tracked, life, owner, forgotten, crashes>>

-----------------------------------------------------------------------------
(* The environment *)

\* A service ends by itself; the manager is not told.
Exit(i) ==
  /\ life[i] = "running"
  /\ life' = [life EXCEPT ![i] = "exited"]
  /\ UNCHANGED <<active, monitors, registry, tracked, owner, task, forgotten, crashes>>

\* The daemon is killed and started again.  No destructor runs, so children and
\* containers survive; an entry whose flush was pending may be lost.
Crash ==
  /\ crashes < MaxCrashes
  /\ crashes' = crashes + 1
  /\ active' = [n \in Names |-> None]
  /\ monitors' = [n \in Names |-> None]
  /\ \E lost \in SUBSET {n \in Names : \E c \in Clients : task[c].pc = "flush" /\ Svc(c) = n} :
       registry' = [n \in Names |-> IF n \in lost THEN None ELSE registry[n]]
  /\ tracked' = {}
  /\ task' = [c \in Clients |-> IdleTask]
  /\ Forget({i \in Instances : Present(i)})
  /\ UNCHANGED <<life, owner>>

StartStep(c) ==
  \/ Launch(c) \/ Detect(c) \/ DockerRun(c) \/ NetworkInfo(c) \/ InstallMonitor(c)
  \/ InstallActive(c) \/ RegisterLookup(c) \/ RegisterPut(c) \/ RegisterFlush(c)

StopStep(c) ==
  \/ Kill(c) \/ Inspect(c) \/ DockerStop(c) \/ DockerRm(c) \/ Unmonitor(c) \/ MarkStopped(c)

QueryStep(c) == CheckActive(c) \/ EndStatus(c) \/ PollNext(c)

Request(c) ==
  \/ \E n \in Names : BeginStart(c, n) \/ BeginStop(c, n) \/ BeginStatus(c, n)
  \/ BeginHealthRun(c)

Next ==
  \/ \E c \in Clients : \/ Request(c) \/ StartStep(c) \/ StopStep(c)
                        \/ QueryStep(c) \/ HealthVerdict(c)
  \/ \E i \in Instances : Exit(i)
  \/ Crash

Spec == Init /\ [][Next]_vars

\* A spawned handler is polled until it has answered, and the commands it waits
\* for return, the health check command among them.
FairSpec ==
  /\ Spec
  /\ \A c \in Clients : /\ WF_vars(StartStep(c) \/ StopStep(c) \/ QueryStep(c))
                        /\ WF_vars(HealthVerdict(c))

-----------------------------------------------------------------------------
(* Properties *)

LifeStages == {"unborn", "running", "exited", "gone"}

\* Every variable has its type: the manager's two maps, the registry, the
\* executor's handle map and the handlers' local variables.
TypeOK ==
  /\ active \in [Names -> Instances \cup {None}]
  /\ monitors \in [Names -> Monitor \cup {None}]
  /\ registry \in [Names -> Entry \cup {None}]
  /\ tracked \subseteq Instances
  /\ life \in [Instances -> LifeStages]
  /\ owner \in [Instances -> Names \cup {None}]
  /\ task \in [Clients -> Task]
  /\ forgotten \subseteq Instances
  /\ crashes \in 0 .. MaxCrashes

\* A handler that works on a service has its name, and from the moment an
\* instance exists the instance; which labels it visits depends on the target.
HandlerOK(t) ==
  /\ t.pc \notin {"idle", "poll"} => t.svc \in Names
  /\ t.pc \in (StartLabels \cup StopLabels) \ {"launch", "detect", "run"} => t.inst \in Instances
  /\ t.pc \in StartLabels \cup StopLabels => Kind[t.svc] # "remote"
  /\ t.pc \in {"launch", "kill"} => Kind[t.svc] = "process"
  /\ t.pc \in {"detect", "run", "netinfo", "inspect", "dstop", "drm"} => Kind[t.svc] = "docker"

TaskOK == \A c \in Clients : HandlerOK(task[c])

HoldingLabels == {"netinfo", "monitor", "install", "kill", "inspect", "dstop", "drm"}
Holds(c, i) == task[c].pc \in HoldingLabels /\ Inst(c) = i

\* Whatever start_service created is at all times reachable: stored under a
\* name, in the hands of a handler, or dropped at one of the places that drop an
\* instance (an insert over another, a failed docker run, network lookup or
\* inspect, a swallowed docker stop or rm failure, a crash).  Nothing gets lost anywhere else.
Accounted ==
  \A i \in Instances :
    Present(i) => \/ i \in forgotten
                  \/ \E n \in Names : active[n] = i
                  \/ \E c \in Clients : Holds(c, i)

\* start_service and stop_service never lose a process service they have started.
ProcessesKept == \A i \in forgotten : Kind[owner[i]] # "process"

\* ProcessExecutor::stop always finds the handle of the instance it is given, so
\* its fallback, kill by a process id that may since belong to another program,
\* is never taken; in particular no instance is stopped by two handlers.
KillHasHandle == \A c \in Clients : task[c].pc = "kill" => Inst(c) \in tracked

\* A process has one owner: the name it was started for, as long as it is active,
\* or else the one handler that starts or stops it; and its handle is tracked.
ProcessHolder(c) ==
  task[c].pc \in {"monitor", "install", "kill"} /\ Kind[Svc(c)] = "process"

OneOwner ==
  /\ \A n \in Names : (Kind[n] = "process" /\ active[n] # None) =>
       active[n] \in tracked /\ owner[active[n]] = n
  /\ \A c \in Clients : ProcessHolder(c) =>
       /\ Inst(c) \in tracked /\ owner[Inst(c)] = Svc(c)
       /\ \A e \in Clients \ {c} : ProcessHolder(e) => Inst(e) # Inst(c)
       /\ active[Svc(c)] # Inst(c)

\* The two fields run_health_checks writes agree in every monitor.
MonitorCoherent ==
  \A n \in Names : monitors[n] # None =>
    (monitors[n].failures > 0 <=> monitors[n].last = "Unhealthy")

\* With no start or stop of a process service n under way, n has a monitor exactly
\* when it is active and has a health check, and the monitor is the one of that
\* instance.  (A docker service whose stop fails keeps its monitor.)
MonitorsFollowActive ==
  \A n \in {m \in Names : Kind[m] = "process"} :
    (\A c \in Clients : task[c].pc \in StartLabels \cup StopLabels => Svc(c) # n) =>
      /\ monitors[n] # None <=> (active[n] # None /\ n \in Monitored)
      /\ monitors[n] # None => monitors[n].of = active[n]

\* Does not hold (docker.rs:43, the filter matches no name that start gives):
\* "Container is running - adopt it", docker run is not tried while the
\* service's own container is running.
OwnContainerAdopted ==
  \A c \in Clients : task[c].pc = "run" =>
    \A i \in ContainerOf(Svc(c)) : life[i] # "running"

Answered(c, a) == task[c].pc # "idle" /\ task'[c].pc = "idle" /\ task'[c].ans = a

\* When StopService is answered with success the instance that was active when
\* the request came in no longer runs.
StopTerminates ==
  [][\A c \in Clients : Answered(c, "stopped") => life'[Inst(c)] # "running"]_vars

\* Does not hold (manager.rs:201, the registry refuses Registered -> Stopped):
\* "Update service state in registry to stopped", it is when the answer is sent.
StopIsRecorded ==
  [][\A c \in Clients : (Answered(c, "stopped") /\ registry[Svc(c)] # None) =>
       registry'[Svc(c)].state = "Stopped"]_vars

\* Every request is answered.
RequestsAnswered == \A c \in Clients : task[c].pc # "idle" ~> task[c].pc = "idle"
=============================================================================
