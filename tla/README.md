# A formal model of graph-network-harness

This directory holds TLA+ specifications of the parts of the harness that keep
state and are shared by concurrent tasks, TLC configurations that check them on
small instances, and proofs, checked by TLAPS, that the main safety properties
hold for every instance. Paths below are relative to the repository's `crates/`.

## The system

The workspace is a set of crates that start, watch and stop the services of a
Graph network test set-up.

| Part | State it keeps | Operations | Talks to |
|---|---|---|---|
| Harness daemon (`harness/src/daemon`) | one shared `DaemonState` with a `ServiceManager` and a `Registry` of its own | one task per TLS WebSocket connection, one request at a time: start, stop, status, list, detailed list, health, environment, shutdown | service manager (calls), registry |
| Service manager (`service-orchestration/src/manager.rs`) | `active_services`, `health_monitors` (two `RwLock` maps), a persistent `Registry` | `start_service`, `stop_service`, `get_service_status`, `run_health_checks`, `deploy_package` | executors, health checker, registry |
| Executors (`service-orchestration/src/executors`) | handles of spawned processes; none for docker | `start`, `stop`, `health_check`, `stream_events` | operating system, `docker` commands |
| Health checker (`health.rs`) | `HealthMonitor`: consecutive failures, last status | `check_health`, `HealthMonitor::check` | command executor |
| Service registry (`service-registry/src/registry.rs`) | sled tree of entries, table of subscribers | `register`, `update_state`, `update_endpoints`, `deregister`, `add_or_update`, `subscribe`, `unsubscribe`, `remove_subscriber` | sled backend |
| Registry server and client (`websocket.rs`, `client.rs`) | per connection: its own subscription set; client: pending requests by id | requests, responses, events | registry |
| Network (`service-registry/src/network`) | allocated addresses, topology | `allocate`, `allocate_specific`, `release`, resolution of endpoints | — |
| Command executor (`command-executor`) | process handle, event stream, stdin channel, a list of layers | `launch`, `execute`, `wait`, `terminate`, `kill`, layering, attaching | operating system, ssh, docker, systemd |
| CLI (`harness/src/commands`) | per invocation: order, started services, failures, resolution context | start and stop services in dependency order, status, validate | daemon (one request after the other) |
| Configuration (`harness-config`) | resolution context | parse, validate, resolve references | CLI |
| `harness-core`, `graph-test-daemon` | stacks of services, tasks and actions; channels of events | build and validate, dispatch, execute, invoke | command executor (hardhat) |

The behaviours that are hard to get right are these.

* **Requests interleave.** A daemon connection is a task, the manager is shared
  without a lock around a request, and `start_service` looks at the map of active
  services long before it writes it.
* **Steps fail one by one.** A docker stop is an inspect, a stop and an rm, each of
  which may fail; a start is a detection, a run and a network lookup.
* **The daemon dies.** What it started runs on; what it knew is gone, except for
  the registry's disk.
* **The registry's operations are read, check, write, flush, emit**, in separate
  calls of the backend.
* **Subscriptions live in two places** and connections end in two ways.
* **A session ends while requests are pending**: the connection breaks, the client is
  closed, or either handler leaves on a failed send, at any moment of any request.
* **The allocator keeps three collections** and reserves an address under a name.
* **Sorting meets anything**: cycles, unknown names, several paths to one service.
* **A start or a stop fails in the middle**, or waits for a service that never answers
  the way it should.
* **Pipes are bounded, and two values share a process**: who reads which pipe, who holds
  the handle and who drops it decides whether a command's output is complete, whether
  it returns, and whether the process lives.
* **Commands are quoted once per layer**, and read back by one shell per layer.
* **Events of one action have several senders**, and the stream must end after the last.

`PROJECT.json` lists each of these, and the smaller ones, at the line where it
bites, with the properties aimed at it.

## Modules

| Module | What it is |
|---|---|
| `ServiceManager` | the manager, both managed executors and the daemon's connection tasks |
| `MCServiceManager` | instances: two process services, two docker services, one remote |
| `ServiceManager_proofs` | theorems about `ServiceManager` |
| `ServiceRegistry` | the registry, its sled backend and the WebSocket connections |
| `MCServiceRegistry`, `ServiceRegistry_proofs` | instances and theorems |
| `RequestReply` | what a caller of a request-reply service may rely on |
| `WsSession` | one session of the registry's client and server, which implements it |
| `MCWsSession`, `WsSession_proofs` | instances and theorems |
| `AddressPool` | what an allocator of addresses promises |
| `IpAllocator` | `network/ip_allocator.rs`, which implements it |
| `MCIpAllocator`, `IpAllocator_proofs` | instances and theorems |
| `DependencyGraph` | the dependency relation, and what a sort promises (`IsOrder`) |
| `DependencyOrder` | the two sorts of `harness/src/commands/dependencies.rs`, call by call |
| `MCDependencyOrder`, `DependencyOrder_proofs` | instances and theorems |
| `CommandLine` | an invocation of `harness start` or `harness stop`; it relies on `IsOrder` only |
| `MCCommandLine`, `CommandLine_proofs` | instances, and the theorems of `CommandLine` and `Templates` |
| `Templates`, `MCTemplates` | `harness-config/src/resolver.rs`: `${...}` in a service's environment |
| `LocalProcess` | a launched process, its pipes, event stream, handle and callers |
| `CommandLayers` | what execution layers make of a command, and the shells that undo it |
| `MCLocalProcess`, `MCCommandLayers`, `CommandExecutor_proofs` | instances, and theorems about both |
| `StackBuild` | how a `graph-test-daemon` is configured, validated and built |
| `Stacks` | calls on its stacks, hardhat and the tasks that pass events on; extends `StackBuild` |
| `MCStacks`, `Stacks_proofs` | instances and theorems |

Operators called `M_...` are plausible mistakes in the operator that follows them.
No specification uses them; they exist to show that each property notices one.

### ServiceManager

`active` and `monitors` are the two maps, `registry` the manager's registry,
`tracked` the process executor's handles. `life` and `owner` are what the operating
system and Docker know of every instance (a process or container, numbered by the
order of creation): it is *running*, *exited* or *gone*, and belongs to the service
it was started for. `task` is one record per connection: the label `pc` of the step
the handler is at, the service and the instance in its hands, and its last answer.
`forgotten` and `crashes` are history.

A handler is cut at every lock section and at every `await`; each piece is an action:

* `start_service`: `BeginStart` (the read-locked check, the network variables, the
  choice of an executor), then `Launch` for a process or `Detect`, `DockerRun` and
  `NetworkInfo` for a container, then `InstallMonitor`, `InstallActive`,
  `RegisterLookup`, `RegisterPut`, `RegisterFlush`.
* `stop_service`: `BeginStop` (the write-locked remove), then `Kill` or `Inspect`,
  `DockerStop`, `DockerRm`, then `Unmonitor` and `MarkStopped`.
* `get_service_status`: `BeginStatus`, `CheckActive`, `EndStatus`.
* `run_health_checks`: `BeginHealthRun`, then `PollNext` and `HealthVerdict` for
  each name of the copied list.
* The environment: `Exit` of an instance and `Crash` of the daemon. No destructor
  runs in a crash, so processes and containers survive it.

Each docker command may succeed, report failure or fail to run; what the code does
with each outcome is a disjunct. `DetectMatches` says which container names the
filter of `detect_existing_container` can match: it looks for
`orchestrator-<name>-harness-test` inside the name, and containers are called
`orchestrator-<name>`, so it never matches the service itself and matches a service
called `<name>-harness-test`.

Two schedulers are covered. The daemon runs under `smol::block_on` and spawns
connection tasks with `smol::spawn`, whose global executor has one thread unless
`SMOL_THREADS` says otherwise; `Parallel = FALSE` is that: a handler only gives way
where it waits for something outside (`Awaiting`). The library itself is
runtime-agnostic, and `Parallel = TRUE` lets handlers interleave between any two steps.

### ServiceRegistry

`store` is the sled tree, `durable` the part on disk, `subscribers` the registry's
table, `local` each connection handler's own set, `phase` whether a connection is
new, open or closed, `task` where a caller or connection is in its operation.
`Callers` are tasks that use the `Registry` directly, `Conns` the accepted
connections, identified by peer address (a new connection may bear an old address).
`writer` and `promised` are history: which task wrote an entry last and has not
answered yet, and what the last answered write of a name has promised.

An operation is `Read` (and the checks), `Write`, `Flush`, `Emit`, then for a
connection `Reply`. Only `Flush` and `Reply` wait for something. Each of the three
backend calls may fail (`BackendFails`); the operation then returns the error by `?`.
A flush that fails (`sled.rs:83`, `125`) leaves the tree changed, so the entry is read
and answered from although nobody has been told that it is on disk; a background flush
may still put it there, or a crash lose it. `Emit` has no
effect on the entries: `emit_event` returns the messages for the subscribers to its
caller, `handle_service_action` drops them, and `send_event` has no caller.
`Abandon` is the early return by `?` on a failed send; it happens to the
connections of `Unreliable`. An entry is its state and an abstract value for its
endpoints; the other fields are written once.

### WsSession

`call` says where each request is in its caller, `pending` is `pending_requests`,
`outbox` the unbounded channel from the handles to the client's handler, `up` and
`down` what is under way on the connection, `serving` the request the server's
handler works on. `handler` and `server` say whether the two handlers still run,
`handle` whether a clone of the handle is left, `link` whether the connection holds.
`served` is history.

* The handle: `Register` and `Submit` are the two halves of `request` (the lock of
  the map is released in between), `AskClose` is `close`, `DropHandle` the end of the
  last clone.
* The client's handler: `SendNext` and `HandleGone` are the `rx.next()` branch of its
  `select!`, `Receive` and `StreamEnds` the `ws.next()` branch. All its ends are
  `EndHandler`: it gives up its end of the channel and the socket, and nothing else.
* The server's handler: `SendInitial`, `TakeFrame`, `Respond`, `ServerStreamEnds`.
* The network: `Break` loses what was last in either direction.

A send to a peer that is gone may fail or be taken by the socket in vain; both are
modelled. Ping, pong and malformed frames are left out: neither end sends them.
What the requests do to the registry is `ServiceRegistry`'s subject; here a request
is carried out in one step. A request's future is awaited to its end, although a
caller could drop it.

`RequestReply` is the service a caller sees: a request is opened, carried out at most
once, returned after it was carried out, or failed and never carried out. The
refinement maps the caller's state (`StageOf`) and `served`.

### IpAllocator

`allocations`, `ip_to_service` and `allocated_ips` are the three collections. An
address is a number modulo `AddressCount`; a subnet is `SubnetSize` addresses from
`Base`. `find_next_available` scans upwards from the third address of the subnet,
wrapping at the end of the address space; `NextAvailable` says what that scan
returns: the free address at the least `ScanDistance`. IPv4 and IPv6 differ in
`AddressCount` only.

### DependencyGraph, DependencyOrder and CommandLine

`Dependencies` are all maps from names to sets of names; a name that is no service
depends on nothing. `Closure` is what `collect_dependencies` and `collect_dependents`
gather, `Dependents` the reversed map of `build_dependency_graph`.

`DependencyOrder` is `topological_sort` (`direction = "start"`) and
`reverse_topological_sort`. `collected` is the set the first phase fills (`Collect`,
`AllCollected`), `path` the stack of recursive calls, `visiting`, `visited` and `result`
the code's own. `Include` takes the next name of the request, `Root` is the outer loop, `Descend` a recursive call or the cycle error,
`Leave` a return, `Finish` the answer. Hash sets are walked in any order, so every choice
is an `\E`.

`CommandLine` takes any order a sort may answer with (`Orders`; there is none for a
cycle) and goes through it as `start.rs` and `stop.rs` do. `at` is where the invocation
is, `todo` what is left of the loop, `done` what the daemon said it has started or
stopped, `failures` the list of the same name, `context` what `add_service` has put into
the resolution context. A configuration also says whose environment names a variable
that is not set (`unset`), which fails the conversion like an unknown reference. The
daemon's answers are nondeterministic: it serves others too. `Connect`, `List` and `Ask`
are the first half, each of which may fail (`Unreachable`, an unreadable answer of the
user); `Send` sends the request for the current service, and at `sent` its answer is
awaited: `Succeeds`, `Refused` and `Unexpected` are the kinds of answer.

A wait for a health check, or for a service to stop, goes between `poll` and `status`. At
`poll` the clock is looked at: if it is late (`late`, set by `Deadline`) the wait ends
(`TimesOut`), otherwise a status is asked for (`AskStatus`). At `status` the answer is
awaited, by `send_request` and without a limit (`client/mod.rs:116`), whatever the clock
says; `Answered` ends the wait or goes back to `poll`. `Finish` is the summary and the exit
code. `OwnStep` are the steps the invocation takes by itself, `Outside` those that need
the daemon, the connection or the user.

### Templates

A string is a sequence of tokens; `template` is what its author meant, `input` the tokens
of it, `provided` what the `ResolutionContext` knows. `find_variables` and
`resolve_string` are run together, one variable per step: `Variable` (or the error of
`parse_variable_expr`), `NotClosed`, `Complete`. `Parse` is the grammar, with the dot
tested first as in the code.

### LocalProcess

`child`, `cause`, `termed`, `written`, `consumed` are the process; `read`, `open`, `started`,
`ended` the `ProcessEventStream`, `holders` who may poll it; `stdin`, `channel`, `sent`,
`forwarded` the way of input. `at` is where the caller is. Four callers are covered:
`Launcher::execute`, the same with a stdin channel, `ProcessExecutor` (start, events,
stop) and `stream_events` of the attached executors. `Poll` is `poll_next`: stdout is
tried first, a stream that ends or holds something that is no text is removed, and the
stream is over when both are gone. `DropHandle` is the destructor, which kills. Pipes hold
`Capacity` lines. The process is taken to have no children that inherit its pipes.

### CommandLayers

A word is a text of one of six kinds (`Texts`) or a *script*: the text of a whole command,
with the assignments and the `cd` an ssh layer puts before it. The kinds are what a shell
does to a text: nothing, split it, act on a character of `shell_escape`'s list, lose it
because it is empty, take it for a comment (`#`), expand it (`~`); the last three are the
ones `shell_escape` leaves unquoted (`Unquoted`, `layers.rs:369`). The program is never quoted
(`layers.rs:351`), so `CalledPrograms` holds a plain name and an `odd` one, which a shell
reads as something else (`Program`). Texts are UTF-8: others go through `to_string_lossy`,
which is left out. `Wrap` folds the layers over the
command in the order they were added; `WrapLocal`, `WrapSsh` and `WrapDocker` are the three
`wrap_command`s, `CommandToShellString` and `Special` the quoting. `RemoteShell` and
`DockerExec` undo one layer each, with the rules of a POSIX shell (`Shell`), until the
program runs (`Arrive`). The launch (`LaunchFails`), a connection or container (`EntryFails`)
and the inner attacher (`AttachFails`) may fail. `AttachInner`, `WrapHandle` and `Status` are
the attacher's side.

### StackBuild and Stacks

`RegisterService`, `UnknownType` and `RegisterTasksAndActions` are `from_stack_config`,
`ConfigIsValid` and `Build` are `DaemonBuilder::build`. `Stacks` adds one call on the built
daemon: the action sends its events (`GraphNode`, `Anvil`, ... list them) into `typed`, a
spawned converter moves them to `json`, the caller reads them there. `senders` counts the
senders of `typed`. `DeployAll` also launches hardhat (`Launch`), whose lines a spawned
follower translates (`Follow`) until its stream ends (`FollowerEnds`); `Return` drops the
handle. Calls share no state, so one stands for all.

## Runs

| Run | Checks | Shows |
|---|---|---|
| `manager_cooperative` | `ProcessesKept`, `MonitorsFollowActive` | one executor thread, two connections, one process and two docker services (and a remote one no executor takes): processes are never lost, and at rest a process service is active exactly when it is monitored |
| `manager_parallel` | `Accounted`, `OneOwner`, `StopTerminates`, `RequestsAnswered` | several threads and a crash: everything that runs is stored, held, or was dropped at one of the places that drop one; an answered stop has ended the process |
| `ip_allocation` | `Consistent`, `GatewayReserved`, `ImplementsPool` | three services in a /29 at the upper end of the address space |
| `registry_cooperative` | `ReadsAreCurrent`, `AnsweredIsDurable`, `SubscribersAreLocal`, `StatesFollowTransitions` | a caller, a reliable and an unreliable connection, failing backend calls and any number of crashes: no update is lost, what was answered with Ok is on disk until the name is written again, a reliable connection is registered for nothing its handler does not know of |
| `session` | `NothingLost`, `ImplementsService`, `AnsweredWhileOpen` | three tasks with one request each over a connection that may break or be closed: no request is lost while both ends are up, none is carried out twice, and a request is answered unless the session ends |
| `dependency_order` | `SortedIsOrder`, `CycleIsReal`, `Answers` | every configuration of three services and a name that is none, every request, both sorts |
| `command_line` | `DependenciesFirst`, `ReferencesResolve`, `DependentsFirst`, `OkMeansDone`, `CommandEnds` | start and stop with any answers, none, and failures: the order is kept where it must be, references have values when they are needed, exit code 0 means done, and an invocation ends or awaits one thing that never comes |
| `templates` | `ResolvedIsMeant`, `MissingIsMissing`, `WellFormedAccepted` | every template of up to four pieces in every context |
| `local_process` | `OutputIsComplete`, `InputIsComplete`, `Returns`, `DroppedEnds` | writers that fill either pipe, deaf ones, readers of stdin, output that is no text |
| `command_layers` | `ArgumentsArrive`, `LayersNested`, `SettingsHold`, `HandleNamesLayers`, `Arrives` | every stack of up to three of seven layers around twelve argument lists and two programs, with failing launches and connections |
| `stacks` | `BuiltIsValid`, `EventsArrive`, `CompletionAddsUp`, `StreamEnds` | seven configurations, twenty-three calls, three outputs of hardhat |
| `deployment_killed` | `CompletedMeansDeployed` (violated) | `execute` binds hardhat's handle to `_handle` and drops it on return, which kills hardhat; its stream ends and `DeploymentCompleted` ("All contracts deployed", `graph-test-daemon/src/tasks.rs:88`) is sent all the same |

### What does not hold

The modules keep the statements below, with the reason, because the code (or a comment or
document of it) suggests them; a reader can put each into a configuration and see it fail.

* `ProcessesKept` with `Parallel = TRUE`: two starts of one service pass the check
  (`manager.rs:107`) and the second insert drops the first process.
* `StopIsRecorded`: the registry refuses `Registered -> Stopped` (`registry.rs:320`), so a
  stopped service stays `Registered`.
* `OwnContainerAdopted`: `detect_existing_container` looks for
  `orchestrator-<name>-harness-test`, containers are called `orchestrator-<name>`.
* `StopTerminates` with a docker service: a failed `docker stop` is answered as success.
* `NothingPendingIsDurable`: a flush that fails leaves the tree changed
  (`sled.rs:83`, `125`), so an operation that answered an error may have taken effect, and
  others read an entry that a crash takes back.
* `NoStaleSubscribers`: a failed send leaves the handler by `?`, before its clean-up.
* `SubscriptionsAgree`: a second subscribe replaces the first in the registry only.
* `NobodyWaitsForever`: when the client's handler ends while a request is pending, its
  sender stays in the map and the caller waits for ever.
* `AnyDefaultAccepted`: a default with a dot (`${API_HOST:-0.0.0.0}`) is taken for a
  service reference and refused (`resolver.rs:143`).
* `CountIsTrue`: after an abort, `stop` counts the services it has not attempted as stopped
  (`stop.rs:173`).
* `WaitIsBounded`: `stop --timeout` looks at the clock between the daemon's answers only, and
  `send_request` awaits each without a limit (`stop.rs:126`, `client/mod.rs:116`), where
  `harness/README.md:29` has it wait "up to 30 seconds".
* `EnteredInOrder`: `with_layer(ssh).with_layer(docker)` runs ssh inside the container, since
  `try_fold` (`executor.rs:93`) wraps with the layer added first first; where
  `command-executor/README.md:86` has "SSH to remote-host, then docker exec", and a test
  comment (`executor.rs:278`) "first added = outermost". `LayersNested`, which holds, says
  what the code does, not what these two say.
* `ConfiguredTasksExist`: a task of a valid configuration is not found under its name; the
  stack has `deploy-graph-contracts` and `deploy-tap-contracts` whatever the configuration
  says.

Seen while modelling, and not stated as properties:

* Registry and manager: with two threads the registry loses updates (`ReadsAreCurrent`
  fails for `Parallel = TRUE`); `allocate_specific` leaves the reverse entry of a
  service's earlier address behind; a service called `gateway` can free the gateway's
  address (`GatewayReserved` needs that none is); the health check's `timeout` is not
  applied, and its `retries` (`config.rs:242`) are not read: one failed check makes a
  service unhealthy; after a restart of the daemon a service that still runs is reported as
  stopped (`CheckActive`), although its state "can survive orchestrator restarts"
  (`service-orchestration/README.md:81`); a request that meets an ended handler fails but
  leaves its entry in `pending_requests`.
* Network: `register_service` allocates a WireGuard address and does not put it into the
  service it stores, so such a service is never resolved; an address a service brings
  along is not reserved in the allocator.
* CLI and configuration: `validate_config` lets cycles pass, the sort finds them;
  `substitute_env_vars` and `process_service_env` of `parser.rs` are not used by the
  conversion.
* Processes: `execute` of a command that reads its input to the end never returns, because
  the handle `execute` holds keeps the pipe open (`Returns` leaves that case out); a
  service whose output nobody asks for blocks when its pipe is full; `stream_events` of the
  attached executors kills its own log process by dropping the handle; the exit of a
  process never appears on the stream; `poll_for_state` waits without sleeping.
* Layers: under a remote layer an empty argument and one that starts with `#` are lost, a
  leading `~` is expanded, and a program whose name is not plain is read as something else
  (`ArgumentsArrive` leaves these four out, by `Quotable`); an
  ssh layer with both an environment and a directory sets the former for the `cd` only
  (`layers.rs:150-170`); environment and directory of a local layer, or of the command, do
  not get through a remote layer added after it; neither does a stdin channel, which
  `command-executor/README.md:10` promises; the `ExecutionContext`'s own environment and
  directory are used by no layer; `transform_target` has no caller.
* Stacks: `completed` counts a contract deployed twice twice; `DeployAll` does not ask
  `is_completed`; `health-check-stack` always answers "healthy"; `graph-contracts` is a type
  of the crate's `ServiceRegistry` that `from_stack_config` refuses; a subgraph hash shorter
  than two bytes panics the action.

**Bounds.** Two connections are enough for every race of this code, which are all
between two requests; the proofs cover the rest. Two instances let a service be
started twice, the only way to lose one. `MaxFailures = 1` still lets a failure
count rise and be reset, and nothing compares the count with anything. One crash:
after a crash the daemon is in its initial state but for disk and environment, from
where a second one leads nowhere new. The allocator's subnet of eight addresses is
larger than what three services can hold at once, and small enough that
`allocate_specific` leaks fill it; it ends where the address space does, so the
wrap of the scan happens. One service suffices for the registry, whose operations
touch one entry each; all six states and five operations occur. Three tasks let a flush
of one fail, or be under way, while the others read, write and are answered; crashes are
not bounded. Three requests let one
be in the channel, one under way and one being served at once; a second `Close` in
the channel would never be read, since the first one ends the handler. Three
services are the least with a path of two dependencies, two paths to one service and a
cycle beside them; the theorems cover the rest. The five configurations of `command_line`
are a chain, the same with a variable that is not set, two services on one, references
without a dependency, and a cycle. Four pieces
put any two kinds of piece beside each other, with something before and after. Pipes of
two lines and programs of up to three fill either pipe. Three layers put a remote layer
inside another with a local one before, between or after. Hardhat's outputs announce,
deploy and redeploy, report an error, or stop at once.

**Fairness.** `RequestsAnswered` is checked under `FairSpec`: a handler that has
a next step takes it (an executor polls every task it was woken for; this is weak
fairness per connection), and a health check command returns. The second half is an
assumption about the command, which the code runs without its configured timeout.
The run uses `Parallel = TRUE`: with one thread, weak fairness per task would not
say that a woken task is reached. Nothing is assumed of `Exit`, `Crash` or of
clients sending requests. In `WsSession` the client's `select!` polls its branches in random
order, so each branch that stays ready is taken: weak fairness of `SendNext`, `Receive`
and `StreamEnds`; the server's handler is one task that is polled while it has something
to do. Nothing is assumed of callers and of `Break`.

In `DependencyOrder` and `CommandLine` the code is sequential and takes its next step.
`CommandLine` assumes weak fairness of `OwnStep`, and of `Deadline`: time passes. It assumes
nothing of the connection, of any answer of the daemon, or of the user, since the code has no
limit for any of them: `CommandEnds` says that the invocation ends or stays for ever at one of
the places in `Awaits`, where it awaits them; in particular no wait polls for ever. In `LocalProcess` a process that can
run does, a task that is woken is polled, and the destructor runs; nobody need send input,
close a channel, stop a service or follow its events. In `CommandLayers` every program
goes on until it, the launch or an entry fails, which may happen at any step (`Arrives` ends
in `arrived` or `failed`). In `Stacks` the action, the follower, the converter and a caller that keeps its
receiver go on; nothing is assumed of hardhat, whose end `StreamEnds` does not need, since
the dropped handle is what ends it.

Sessions, sorts, templates, invocations, processes, wrapped commands and calls really end,
and then nothing happens any more: their runs do not check for deadlock. In the manager's,
the registry's and the allocator's runs a client that waits without a request is a normal
state, not a deadlock, and they find none.

## Proofs

All theorems hold for any sets of services, connections, instances, subnets and
so on that satisfy the named assumptions of the modules, and for both schedulers
unless said otherwise.

* `ServiceManager_proofs`. `TypeInv` adds to the types what a label says about its
  task's variables (`HandlerOK`): which handlers have an instance, of which kind of
  service. `TypeCorrect` is its first half. `OwnerInv` adds `OneOwner` and that a
  tracked handle was spawned, so that a fresh instance cannot be one that is
  tracked: this is what makes ownership inductive. `ProcessesHaveOneOwner` and
  `KillFindsHandle` follow. `AccountedInv` adds `Accounted` (`NothingLost`);
  `MonitorsCoherent` needs the types only. `StopEndsProcesses` (assuming no docker
  service, for which it is false) strengthens the state with: after `Kill` the
  instance of the handler no longer runs. `MonitorsMatch` and `NoProcessDropped` assume
  one executor thread (`~ Parallel`); with several, two starts of one name break both, as
  *What does not hold* shows. `SoloInv` says that at most one handler is not waiting
  (`OneAtATime`), that a service nobody works on has the monitor of its instance, and, for
  each label between the writes of `active` and `monitors`, how far the two differ there
  (`PlacesOK`). `KeptInv` adds that what was dropped, while no crash has happened, came
  from `docker run` (`DockerKept`); `NoProcessDropped` says so with `crashes = 0`, since a
  crash of the daemon forgets its processes.
* `IpAllocator_proofs`. `Consistent` with the types is inductive; the single step
  behind it is that recording a free address, or one recorded under the same
  service, keeps the collections in step (`RecordKeeps`). `MapsAgree`,
  `AddressesAreExclusive` and the refinement `AllocatorIsPool` follow.
  `GatewayStaysReserved` assumes that no service is called `gateway`.
* `ServiceRegistry_proofs`. `TypeInv` adds that an operation about to write has
  passed its checks on what it read. `UpdatesAreAtomic` and `TransitionsAreFollowed`
  assume one executor thread (`~ Parallel`): while a task is about to write, no other
  task moves (`WriterRuns`). `AnswersAreDurable`, `ReliableConnectionsCleanUp` and
  `SubscriptionsStayLocal` hold under both schedulers. For the first, a task that has
  flushed and not answered yet, and is still the last writer of its entry, finds that entry in
  the store and on disk: a later write takes its place as writer, and a flush by anyone
  puts the whole tree on disk, so a failed flush of another cannot take back what was
  answered.

* `WsSession_proofs`. `NothingLost` and `ResponsesExpected` are not inductive: nothing
  in them keeps a request from being in two places. `PlaceInv` says, for each request,
  where it may be given its caller's state and `served`, and that no queue holds it
  twice; `served` (0 before the server takes it, 1 after) separates the way there from
  the way back. It rests on four lemmas about queues (`EmptyQueue`, `AppendQueue`,
  `TailQueue`, `PrefixQueue`). `ResponsesFindTheirRequest`, `RequestsAreNotLost` and the
  refinement `SessionIsService` follow, the last one step by step (`StepMaps`).

* `DependencyOrder_proofs`. `Inv` adds to the types that the path is a chain of distinct
  services, that the result is closed under edges from left to right, that no service is
  both under way and done, and that everything gathered so far lies in every closed set
  that holds the request (`Within`): this is what makes the answer exactly the closure and
  nothing more. It rests on facts about appending to and cutting a sequence
  (`AppendFacts`, `FrontFacts`). `SortIsRight` and `CycleReported` follow for every set of
  services, every configuration and every request.

* `CommandExecutor_proofs`, `LocalProcess`. `Inv` says where the caller is and what it holds there
  (`CallerInv`), that a stream given up has nothing more to give (`StreamInv`), that a
  process whose output is collected as text does not die of a signal (`ProcessInv`), and
  that stdin closes under a running process only when its channel is drained
  (`InputInv`). `PollEffect` first removes from a poll the order in which it looks at the
  streams. `TypeCorrect`, `OutputCollected` and `InputDelivered` follow for any programs,
  any capacity of the pipes and any number of lines.

* `CommandExecutor_proofs`, `CommandLayers`. `LayersInv` says that what runs is the command
  as some prefix of the layers made it, and that `path` names the remote layers after the
  prefix, the last one first (`RunsOK`). It keeps the whole chain of wrapped commands as a
  witness (`Wrapping`), so that a shell which unwraps one goes back a link and nothing is
  said by induction on how deep a script is nested. `LayersAssumption` has the name of a
  layer tell it from the others. That a shell reads back the words it was given is
  `ShellOfArguments`: arguments that are each one word, flattened, are themselves, shown by
  the least place at which they would not be (`FlattenSingles`). `ArgumentsSurvive`,
  `LayersAreNested`, `SettingsAreTheLayers` and `HandlesNameLayers` follow for any set of
  layers, any number of them and arguments of any length. `ArgumentsSurvive` is about commands
  whose arguments and program the code quotes or need no quoting (`Quotable`), and about every
  command as long as no remote layer was entered.

* `CommandLine_proofs`, `CommandLine`. `Inv` says that the order is one of the kept part of the closure,
  with everything below a service before it (`OrderOK`), that each service gone past is
  done or failed, and the addresses of those done are known (`LoopOK`), and what the place
  of the invocation says of its failures (`PlaceOK`). A closure is the least closed set
  (`ClosureFacts`), so nothing here goes by induction along an edge: each property shows
  that a set is closed and holds the request. `StartsDependenciesFirst`,
  `AddressesAreKnown`, `StopsDependentsFirst` and `OkIsComplete` follow for every
  finite configuration, every request and whatever the daemon answers. The sort is used
  through `IsOrder`, which `SortIsRight` above establishes.

* `CommandLine_proofs`, `Templates`. The string is written from pieces, and the scan only
  sees the string: `ScanInv` says that it stands between two pieces (`BetweenPieces`), with
  what the pieces before mean in the output and what they lack in `missing`, or that no `${`
  is left (`OnlyText`). What is left to scan is a sum of the pieces from the right (`R`),
  what is meant a sum of their meanings from the left (`G`); both exist and agree with
  `FlattenSeq` (`RightSumsExist`, `LeftSumsExist`, `SumsAgree`, `FlattenIsSum`). `NextPiece`
  finds what the scan meets next, `ParseReads` says for each kind of piece that what
  stands between its braces is read as that piece or refused, and `FoundBraces` and
  `FoundUnclosed` compute the offsets at which the string is cut. In place of induction
  over the pieces, `UpTo` carries what holds of a number of pieces from each to the next,
  by the least number of which it does not. `ResolvedValueIsMeant`,
  `MissingNamesAreMissing` and `GrammarIsAccepted` follow for templates of any length
  (`PiecesAssumption` says only that `MaxPieces` is a natural number). The words and the
  defaults a template may contain are those of the module: their classes, not the text of
  each word.

* `Stacks_proofs`. `Inv` says what is registered so far (`BuildOK`), that the events sent
  are those read, then those converted, then those in the first channel, and who can
  still send (`ChannelOK`), and that a deployment has reported just what its follower
  found and says so last (`DeployOK`). Every action moves events from the head of one of
  the three queues to the end of the next, which `MoveHead` and `AppendConcat` show to
  change nothing of the whole. `BuiltDaemonIsValid`, `AllEventsArrive` and
  `CompletionIsTrue` follow for every configuration and everything hardhat may print.

Model-checked only: all liveness (`RequestsAnswered`, `AnsweredWhileOpen`, `Answers`,
`CommandEnds`, `Returns`, `DroppedEnds`, `Arrives`, `StreamEnds`), which is beyond the
prover. Every invariant, action property and refinement that a passing run checks is
stated by a theorem.

## Not modelled, and what comes next

Left out of the modules above: the text of messages, TLS, logging, configuration syntax;
connecting and cancelled requests of the registry client; `deploy_package`; the
environment and shutdown requests; the executors' `health_check`, which the manager does
not call.

Not modelled at all, and why: the network's topology and resolver (one map, read and
written under `&mut self`, whose answer is a match on two locations), package manifests
and their validation (one file at a time), certificates and the client's connection (file
and TLS I/O), `async-runtime-compat` and `xtask` (adapters and build tasks), the
state-storing wrappers of `harness-core` (only its tests use them), the
commands that only print.

What comes next: a property for each of the five hazards that have none (they are listed
with the reason in `PROJECT.json`), where the code gives one to state.
