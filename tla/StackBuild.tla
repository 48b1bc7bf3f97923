----------------------------- MODULE StackBuild -----------------------------
(***************************************************************************)
(* How a graph-test-daemon comes to be: the services of its configuration  *)
(* are registered in a service stack, two deployment tasks in a task stack *)
(* and two actions in an action registry (GraphTestDaemon::from_stack_     *)
(* config), and the builder checks the configuration against them          *)
(* (DaemonBuilder::build, harness-core/src/daemon.rs).                     *)
(***************************************************************************)
EXTENDS Naturals, Sequences, Functions

CONSTANT Configs    \* the configurations a daemon may be given

(* Services and tasks by name; a dependency is on a service or on a task.  *)
ASSUME ConfigsAssumption ==
    \A c \in Configs : \A part \in {c.services, c.tasks} : \A n \in DOMAIN part :
      \A d \in part[n].deps : d.kind \in {"service", "task"}

VARIABLES
    config,
    loading,        \* names of services still to be registered
    services,       \* service stack: instance name -> service type
    tasks,          \* task stack: instance name -> task type
    actions,        \* names in the action registry
    phase,          \* "register", "build", "built", "failed"
    running         \* the daemon's flag

daemon == <<config, loading, services, tasks, actions, phase, running>>

NoNames == [n \in {} |-> n]

DaemonInit ==
    /\ config \in Configs /\ loading = DOMAIN config.services
    /\ services = NoNames /\ tasks = NoNames /\ actions = {}
    /\ phase = "register" /\ running = FALSE

(* The types from_stack_config knows.  (The crate's ServiceRegistry also   *)
(* has "graph-contracts"; it is created there and never asked.)            *)
ServiceTypes == {"graph-node", "anvil", "postgres", "ipfs"}
TaskTypes == {"graph-contracts-deployment", "tap-contracts-deployment"}

With(stack, name, type) ==
    [n \in DOMAIN stack \cup {name} |-> IF n = name THEN type ELSE stack[n]]

(* One turn of the loop over the map of services; its keys differ, so the  *)
(* stack never holds the name already.                                     *)
RegisterService(n) ==
    /\ phase = "register" /\ n \in loading
    /\ config.services[n].type \in ServiceTypes
    /\ services' = With(services, n, config.services[n].type)
    /\ loading' = loading \ {n}
    /\ UNCHANGED <<config, tasks, actions, phase, running>>

UnknownType(n) ==
    /\ phase = "register" /\ n \in loading
    /\ config.services[n].type \notin ServiceTypes
    /\ phase' = "failed"
    /\ UNCHANGED <<config, loading, services, tasks, actions, running>>

(* Two tasks under fixed names, whatever the configuration calls its own. *)
RegisterTasksAndActions ==
    /\ phase = "register" /\ loading = {}
    /\ tasks' = With(With(tasks, "deploy-graph-contracts", "graph-contracts-deployment"),
                     "deploy-tap-contracts", "tap-contracts-deployment")
    /\ actions' = {"setup-test-stack", "health-check-stack"}
    /\ phase' = "build"
    /\ UNCHANGED <<config, loading, services, running>>

\* The mistake of looking only at dependencies on services.
M_Resolves(d) == d.kind = "service" => d.name \in DOMAIN config.services
Resolves(d) ==
    IF d.kind = "service" THEN d.name \in DOMAIN config.services
                          ELSE d.name \in DOMAIN config.tasks

(* validate_config: types against the stacks, dependencies against the     *)
(* configuration.                                                          *)
ConfigIsValid ==
    /\ \A n \in DOMAIN config.services :
         /\ config.services[n].type \in Range(services)
         /\ \A d \in config.services[n].deps : Resolves(d)
    /\ \A n \in DOMAIN config.tasks :
         /\ config.tasks[n].type \in Range(tasks)
         /\ \A d \in config.tasks[n].deps : Resolves(d)

(* After it the manager and the registry are created, which may fail. *)
Build ==
    /\ phase = "build"
    /\ phase' \in (IF ConfigIsValid THEN {"built"} ELSE {}) \cup {"failed"}
    /\ UNCHANGED <<config, loading, services, tasks, actions, running>>

Start ==
    /\ phase = "built" /\ running' = TRUE
    /\ UNCHANGED <<config, loading, services, tasks, actions, phase>>
Stop ==
    /\ phase = "built" /\ running' = FALSE
    /\ UNCHANGED <<config, loading, services, tasks, actions, phase>>

DaemonNext ==
    \/ \E n \in loading : RegisterService(n) \/ UnknownType(n)
    \/ RegisterTasksAndActions \/ Build \/ Start \/ Stop

----------------------------------------------------------------------------
(* A daemon that was built has exactly the services of its configuration,  *)
(* each of its type, and every service and task the configuration depends  *)
(* on is in it, in whatever order its maps were walked                     *)
(* (from_stack_config, validate_config, validate_dependency).              *)
BuiltIsValid ==
    phase = "built" =>
      /\ services = [n \in DOMAIN config.services |-> config.services[n].type]
      /\ \A part \in {config.services, config.tasks} : \A n \in DOMAIN part :
           \A d \in part[n].deps :
             \/ d.kind = "service" /\ d.name \in DOMAIN services
             \/ d.kind = "task" /\ d.name \in DOMAIN config.tasks

(* Does not hold: a task of a configuration that was found valid can be    *)
(* executed under its name (core task.rs, DeploymentTask::task_type).      *)
ConfiguredTasksExist == phase = "built" => DOMAIN config.tasks \subseteq DOMAIN tasks
=============================================================================
