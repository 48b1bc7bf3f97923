------------------------------- MODULE Stacks -------------------------------
(***************************************************************************)
(* A call on a daemon's stacks (harness-core service.rs, task.rs, action   *)
(* .rs; graph-test-daemon services.rs, tasks.rs).  The action sends typed  *)
(* events into one channel, a spawned converter moves them as JSON into a  *)
(* second one, and the caller reads that.  Deploying contracts also starts *)
(* hardhat, whose lines a spawned follower turns into events.  Calls share *)
(* no state, so one of them stands for all.                                *)
(***************************************************************************)
EXTENDS StackBuild, SequencesExt

CONSTANTS
    Requests,       \* what is called: [on, name, action]
    Outputs         \* what hardhat prints: sequences of lines

Line == [says : {"compiling", "deploying", "deployed", "error", "other"}, contract : Nat]

ASSUME OutputsAssumption == Outputs \subseteq Seq(Line)

VARIABLES
    at,             \* "idle", "acting", "reading", "done", "gone",
                    \* "answered", "refused", "panicked"
    request,
    todo,           \* events the action has still to send
    sent,           \* all events sent, by whomever
    typed, senders, \* first channel and how many can send into it
    converter,      \* "none", "running", "done"
    json,           \* second channel
    got,            \* what the caller read
    hardhat,        \* "none", "running", "exited", "killed"
    output, pipe,   \* lines to come and lines not yet read
    follower,       \* "none", "running", "done"
    deployed, completed

action == <<at, request, todo>>
channels == <<sent, typed, senders, converter, json, got>>
deployment == <<hardhat, output, pipe, follower, deployed, completed>>
vars == <<daemon, action, channels, deployment>>

Init ==
    /\ DaemonInit
    /\ at = "idle" /\ request \in Requests /\ todo = <<>>
    /\ sent = <<>> /\ typed = <<>> /\ senders = 0
    /\ converter = "none" /\ json = <<>> /\ got = <<>>
    /\ hardhat = "none" /\ output = <<>> /\ pipe = <<>>
    /\ follower = "none" /\ deployed = {} /\ completed = 0

(***************************************************************************)
(* The actions of the services and tasks, as the events they send          *)
(***************************************************************************)
Event(name, of) == [event |-> name, of |-> of]
One(name) == <<Event(name, {})>>
Each(name, n) == [i \in 1..n |-> Event(name, {i})]
Contracts == 12
Total == 12

GraphNode == [
    DeploySubgraph |->
      One("DeploymentStarted")
      \o [i \in 1..6 |-> Event("DeploymentProgress", {20 * (i - 1)})]
      \o One("DeploymentCompleted"),
    QuerySubgraph |-> One("QueryResult"),
    RemoveSubgraph |-> One("DeploymentCompleted")]
Anvil == [
    MineBlocks |-> Each("BlockMined", 3), MineNone |-> <<>>,
    SetBalance |-> One("BalanceUpdated"), Fork |-> One("ForkCreated")]
Postgres == [
    CreateDatabase |-> One("DatabaseCreated"),
    ExecuteQuery |-> One("QueryExecuted"), Backup |-> One("BackupCompleted")]
Ipfs == [
    AddContent |-> One("ContentAdded"), Pin |-> One("Pinned"),
    Unpin |-> One("Unpinned"), Cat |-> One("ContentRetrieved")]
GraphContracts == [
    DeployContracts |->
      One("DeploymentStarted") \o Each("ContractDeployed", Contracts)
      \o <<Event("DeploymentCompleted", 1..Contracts)>> \o One("SubgraphDeployed"),
    VerifyAddresses |-> One("AddressesVerified"),
    GetStatus |-> <<>>]

Scripts == [type \in ServiceTypes \cup {"graph-contracts"} |->
    CASE type = "graph-node" -> GraphNode [] type = "anvil" -> Anvil
      [] type = "postgres" -> Postgres    [] type = "ipfs" -> Ipfs
      [] type = "graph-contracts" -> GraphContracts]

(* contracts.json may be there or not. *)
GraphContractsTask == [
    DeployAll |-> {<<Event("DeploymentStarted", {Total})>>},
    DeployContract |-> {One("Error")},
    VerifyDeployment |-> {<<Event("VerificationResult", {ok})>> : ok \in {0, 1}}]
TapContractsTask == [
    DeployAll |-> {One("DeploymentStarted")}, VerifyDeployment |-> {<<>>}]

TaskScripts == [type \in TaskTypes |->
    IF type = "graph-contracts-deployment" THEN GraphContractsTask ELSE TapContractsTask]

(***************************************************************************)
(* The call                                                                *)
(***************************************************************************)
Call(name) == phase = "built" /\ at = "idle" /\ request.on = name

Enter(events) ==
    /\ at' = "acting" /\ todo' = events /\ senders' = 1
    /\ UNCHANGED <<daemon, request, sent, typed, converter, json, got, deployment>>
Reply(with) ==
    /\ at' = with
    /\ UNCHANGED <<daemon, request, todo, channels, deployment>>

(* Input that is no action of the type is refused; the hash of a subgraph  *)
(* is cut at its third byte, which a shorter one does not have.            *)
Act(scripts) ==
    IF request.action \in DOMAIN scripts THEN Enter(scripts[request.action])
    ELSE Reply(IF request.action = "DeployShortHash" THEN "panicked" ELSE "refused")

(* ServiceStack::dispatch *)
Dispatch ==
    /\ Call("services")
    /\ IF request.name \in DOMAIN services THEN Act(Scripts[services[request.name]])
       ELSE Reply("refused")

(* ServiceRegistry::create_service, and the dispatch_json of the service it *)
(* creates, whose converter the caller spawns.                              *)
Create ==
    /\ Call("types")
    /\ IF request.name \in DOMAIN Scripts THEN Act(Scripts[request.name])
       ELSE Reply("refused")

(* TaskStack::execute *)
Execute ==
    /\ Call("tasks")
    /\ IF request.name \in DOMAIN tasks
            /\ request.action \in DOMAIN TaskScripts[tasks[request.name]]
       THEN \E events \in TaskScripts[tasks[request.name]][request.action] : Enter(events)
       ELSE Reply("refused")

(* TaskStack::is_completed and ActionRegistry::invoke, answered at once. *)
Ask ==
    \/ Call("completed") /\ Reply(IF request.name \in DOMAIN tasks THEN "answered" ELSE "refused")
    \/ Call("actions") /\ Reply(IF request.name \in actions THEN "answered" ELSE "refused")

Put(e) == typed' = Append(typed, e) /\ sent' = Append(sent, e)

(* The channel is unbounded: the action never waits for its reader. *)
Send ==
    /\ at = "acting" /\ todo # <<>>
    /\ Put(Head(todo)) /\ todo' = Tail(todo)
    /\ UNCHANGED <<daemon, at, request, senders, converter, json, got, deployment>>

Deploys == /\ request.on = "tasks" /\ request.action = "DeployAll"
           /\ request.name = "deploy-graph-contracts"

Launch ==
    /\ at = "acting" /\ todo = <<>> /\ Deploys /\ hardhat = "none"
    /\ hardhat' = "running" /\ output' \in Outputs
    /\ follower' = "running" /\ senders' = senders + 1
    /\ UNCHANGED <<daemon, action, sent, typed, converter, json, got, pipe,
                   deployed, completed>>

LaunchFails ==
    /\ at = "acting" /\ todo = <<>> /\ Deploys /\ hardhat = "none"
    /\ at' = "refused" /\ senders' = senders - 1
    /\ UNCHANGED <<daemon, request, todo, sent, typed, converter, json, got, deployment>>

(* The action's sender goes; the stack spawns the converter.  The handle   *)
(* of the process goes too, and ends it.                                   *)
Return ==
    /\ at = "acting" /\ todo = <<>> /\ (Deploys => hardhat # "none")
    /\ at' = "reading" /\ senders' = senders - 1 /\ converter' = "running"
    /\ hardhat' = IF hardhat = "running" THEN "killed" ELSE hardhat
    /\ UNCHANGED <<daemon, request, todo, sent, typed, json, got, output, pipe,
                   follower, deployed, completed>>

(***************************************************************************)
(* Hardhat and its follower                                                *)
(***************************************************************************)
Writes ==
    /\ hardhat = "running" /\ output # <<>>
    /\ pipe' = Append(pipe, Head(output)) /\ output' = Tail(output)
    /\ UNCHANGED <<daemon, action, channels, hardhat, follower, deployed, completed>>
Exit ==
    /\ hardhat = "running" /\ output = <<>> /\ hardhat' = "exited"
    /\ UNCHANGED <<daemon, action, channels, output, pipe, follower, deployed, completed>>

\* The mistake of noting a contract when its deployment is announced.
M_Noted(line) == IF line.says = "deploying" THEN {line.contract} ELSE {}
Noted(line) == IF line.says = "deployed" THEN {line.contract} ELSE {}

(* process_hardhat_event *)
Translated(line) ==
    CASE line.says = "compiling" -> <<Event("ContractCompiling", {line.contract})>>
      [] line.says = "deployed" -> <<Event("ContractDeployed", {line.contract})>>
      [] line.says = "deploying" -> <<Event("DeploymentProgress", {completed})>>
      [] line.says = "error" -> One("Error")
      [] OTHER -> <<>>

Follow ==
    /\ follower = "running" /\ pipe # <<>>
    /\ LET events == Translated(Head(pipe))
       IN typed' = typed \o events /\ sent' = sent \o events
    /\ deployed' = deployed \cup Noted(Head(pipe))
    /\ completed' = completed + (IF Head(pipe).says = "deployed" THEN 1 ELSE 0)
    /\ pipe' = Tail(pipe)
    /\ UNCHANGED <<daemon, action, senders, converter, json, got, hardhat, output, follower>>

\* The mistake of a sender that outlives the follower.
M_After(n) == n
After(n) == n - 1

(* The stream ends with the process, however that ended. *)
FollowerEnds ==
    /\ follower = "running" /\ pipe = <<>> /\ hardhat # "running"
    /\ Put(Event("DeploymentCompleted", deployed))
    /\ follower' = "done" /\ senders' = After(senders)
    /\ UNCHANGED <<daemon, action, converter, json, got, hardhat, output, pipe,
                   deployed, completed>>

(***************************************************************************)
(* Converter and caller                                                    *)
(***************************************************************************)
Convert ==
    /\ converter = "running" /\ typed # <<>>
    /\ typed' = Tail(typed)
    /\ json' = IF at = "gone" THEN json ELSE Append(json, Head(typed))
    /\ UNCHANGED <<daemon, action, sent, senders, converter, got, deployment>>

\* The mistake of ending on an empty channel, as with try_recv.
M_Closed == typed = <<>>
Closed == typed = <<>> /\ senders = 0

ConverterEnds ==
    /\ converter = "running" /\ Closed /\ converter' = "done"
    /\ UNCHANGED <<daemon, action, sent, typed, senders, json, got, deployment>>

Receive ==
    /\ at = "reading" /\ json # <<>>
    /\ got' = Append(got, Head(json)) /\ json' = Tail(json)
    /\ UNCHANGED <<daemon, action, sent, typed, senders, converter, deployment>>
SeeEnd ==
    /\ at = "reading" /\ json = <<>> /\ converter = "done" /\ at' = "done"
    /\ UNCHANGED <<daemon, request, todo, channels, deployment>>
DropReceiver ==
    /\ at = "reading" /\ at' = "gone" /\ json' = <<>>
    /\ UNCHANGED <<daemon, request, todo, sent, typed, senders, converter, got, deployment>>

BuildStep == DaemonNext /\ UNCHANGED <<action, channels, deployment>>
CallStep == Dispatch \/ Create \/ Execute \/ Ask \/ Send \/ Launch \/ LaunchFails \/ Return
ProcessStep == Writes \/ Exit
FollowerStep == Follow \/ FollowerEnds
ConverterStep == Convert \/ ConverterEnds
ReaderStep == Receive \/ SeeEnd

Next == BuildStep \/ CallStep \/ ProcessStep \/ FollowerStep \/ ConverterStep
        \/ ReaderStep \/ DropReceiver

Spec == Init /\ [][Next]_vars
(* Spawned tasks and the action run when they can; a caller that keeps the *)
(* receiver reads it.  Nothing is assumed of hardhat.                      *)
FairSpec == Spec /\ WF_vars(Send \/ Launch \/ Return) /\ WF_vars(FollowerStep)
                 /\ WF_vars(ConverterStep) /\ WF_vars(ReaderStep)

----------------------------------------------------------------------------
(* A caller that has read to the end has read every event that the action  *)
(* and its follower sent, in the order they were sent, and none is still   *)
(* to come (converter of dispatch_json and execute_json).                  *)
EventsArrive ==
    /\ IsPrefix(got, sent)
    /\ at = "done" => got = sent /\ follower # "running"

(* The reader of an action's events is not left waiting: the stream ends,  *)
(* whatever becomes of the process (the drop of every sender).             *)
StreamEnds == (at = "acting") ~> (at \in {"done", "gone", "refused"})

(* The addresses a deployment is completed with are those of the contracts *)
(* it has reported as deployed, and it reports nothing after it            *)
(* (GraphContractsTask::execute, process_hardhat_event).                   *)
CompletionAddsUp ==
    Deploys => \A i \in DOMAIN sent : sent[i].event = "DeploymentCompleted" =>
      /\ i = Len(sent)
      /\ sent[i].of = UNION {e.of : e \in {x \in Range(sent) : x.event = "ContractDeployed"}}

(* Does not hold: a deployment that is reported completed has run to its   *)
(* end (GraphContractsEvent::DeploymentCompleted, "All contracts           *)
(* deployed").  The handle goes with execute, and the process with it.     *)
CompletedMeansDeployed ==
    Deploys => (follower = "done" => hardhat = "exited")
=============================================================================
