---------------------------- MODULE Stacks_proofs ----------------------------
(***************************************************************************)
(* Safety of a graph-test-daemon's construction and of a call on it, for   *)
(* every configuration, every request and everything hardhat may print.    *)
(***************************************************************************)
EXTENDS Stacks, SequenceTheorems, TLAPS

EventNames == {
    "DeploymentStarted", "DeploymentProgress", "DeploymentCompleted", "ContractDeployed",
    "ContractCompiling", "SubgraphDeployed", "AddressesVerified", "VerificationResult",
    "QueryResult", "BlockMined", "BalanceUpdated", "ForkCreated", "DatabaseCreated",
    "QueryExecuted", "BackupCompleted", "ContentAdded", "Pinned", "Unpinned",
    "ContentRetrieved", "Error"}
EventSet == [event : EventNames, of : SUBSET Nat]

TypeOK ==
    /\ config \in Configs
    /\ phase \in {"register", "build", "built", "failed"}
    /\ at \in {"idle", "acting", "reading", "done", "gone", "answered", "refused", "panicked"}
    /\ todo \in Seq(EventSet) /\ sent \in Seq(EventSet) /\ typed \in Seq(EventSet)
    /\ json \in Seq(EventSet) /\ got \in Seq(EventSet)
    /\ converter \in {"none", "running", "done"} /\ follower \in {"none", "running", "done"}
    /\ hardhat \in {"none", "running", "exited", "killed"}
    /\ output \in Seq(Line) /\ pipe \in Seq(Line)
    /\ deployed \in SUBSET Nat /\ completed \in Nat

\* What from_stack_config has registered so far; what build has accepted.
FixedTasks ==
    [n \in {"deploy-graph-contracts", "deploy-tap-contracts"} |->
       IF n = "deploy-graph-contracts" THEN "graph-contracts-deployment"
                                       ELSE "tap-contracts-deployment"]
BuildOK ==
    /\ phase = "register" =>
         /\ loading \subseteq DOMAIN config.services
         /\ services = [n \in DOMAIN config.services \ loading |-> config.services[n].type]
         /\ tasks = NoNames
    /\ phase \in {"build", "built"} =>
         /\ services = [n \in DOMAIN config.services |-> config.services[n].type]
         /\ tasks = FixedTasks
    /\ phase = "built" => ConfigIsValid
    /\ \A n \in DOMAIN services : services[n] \in ServiceTypes
    /\ phase # "built" => at = "idle"

\* Where the events sent are, and who can still send.
Starts(s, t) == Len(s) <= Len(t) /\ \A i \in 1 .. Len(s) : s[i] = t[i]

ChannelOK ==
    /\ at = "idle" => /\ todo = <<>> /\ sent = <<>> /\ typed = <<>> /\ json = <<>> /\ got = <<>>
                      /\ hardhat = "none" /\ deployed = {}
    /\ at # "gone" => sent = got \o (json \o typed)
    /\ Starts(got, sent)
    /\ senders = (IF at = "acting" THEN 1 ELSE 0) + (IF follower = "running" THEN 1 ELSE 0)
    /\ converter = "done" => typed = <<>> /\ senders = 0
    /\ converter # "none" => at \in {"reading", "done", "gone"}
    /\ at = "done" => json = <<>> /\ converter = "done"
    /\ hardhat = "none" <=> follower = "none"

\* What the follower of a deployment has reported.
Reported(s) == {x \in Nat : \E i \in DOMAIN s : s[i].event = "ContractDeployed" /\ x \in s[i].of}

DeployOK ==
    /\ hardhat # "none" => Deploys /\ todo = <<>>
    /\ Deploys =>
         /\ \A i \in DOMAIN todo : todo[i].event \notin {"DeploymentCompleted", "ContractDeployed"}
         /\ deployed = Reported(sent)
         /\ \A i \in DOMAIN sent : sent[i].event = "DeploymentCompleted" =>
              i = Len(sent) /\ follower = "done" /\ sent[i].of = deployed

Inv == TypeOK /\ BuildOK /\ ChannelOK /\ DeployOK

-----------------------------------------------------------------------------
(* Sequences. *)

LEMMA AppendConcat ==
    ASSUME NEW S, NEW s \in Seq(S), NEW t \in Seq(S), NEW e \in S
    PROVE  Append(s \o t, e) = s \o Append(t, e)
<1>1. s \o t \in Seq(S) /\ <<e>> \in Seq(S)
  BY ConcatProperties
<1>2. Append(s \o t, e) = (s \o t) \o <<e>> /\ Append(t, e) = t \o <<e>>
  BY <1>1, AppendIsConcat
<1> QED  BY <1>1, <1>2, ConcatAssociative

\* Moving the head of one sequence to the end of the one before it.
LEMMA MoveHead ==
    ASSUME NEW S, NEW s \in Seq(S), NEW t \in Seq(S), t # <<>>
    PROVE  Append(s, Head(t)) \o Tail(t) = s \o t
<1>1. Head(t) \in S /\ Tail(t) \in Seq(S) /\ <<Head(t)>> \in Seq(S)
  BY HeadTailProperties
<1>2. t = <<Head(t)>> \o Tail(t)
  <2> DEFINE u == <<Head(t)>> \o Tail(t)
  <2>1. /\ u \in Seq(S) /\ Len(u) = Len(t)
        /\ \A i \in 1 .. Len(t) : u[i] = IF i <= 1 THEN Head(t) ELSE Tail(t)[i - 1]
    BY <1>1, ConcatProperties, HeadTailProperties
  <2>2. Head(t) = t[1] /\ \A i \in 2 .. Len(t) : Tail(t)[i - 1] = t[i]
    BY HeadTailProperties
  <2> HIDE DEF u
  <2>3. \A i \in 1 .. Len(u) : u[i] = t[i]
    BY <2>1, <2>2
  <2>4. u = t
    BY <2>1, <2>3, SeqEqual
  <2> QED  BY <2>4 DEF u
<1>3. Append(s, Head(t)) = s \o <<Head(t)>>
  BY <1>1, AppendIsConcat
<1>4. (s \o <<Head(t)>>) \o Tail(t) = s \o (<<Head(t)>> \o Tail(t))
  BY <1>1, ConcatAssociative
<1> QED  BY <1>2, <1>3, <1>4

LEMMA StartsConcat ==
    ASSUME NEW S, NEW s \in Seq(S), NEW t \in Seq(S), NEW u \in Seq(S)
    PROVE  Starts(s, s \o u) /\ (Starts(s, t) => Starts(s, t \o u))
BY ConcatProperties DEF Starts

LEMMA StartsIsPrefix ==
    ASSUME NEW S, NEW s \in Seq(S), NEW t \in Seq(S), Starts(s, t)
    PROVE  IsPrefix(s, t)
BY DEF Starts, IsPrefix

LEMMA ReportedAppend ==
    ASSUME NEW s \in Seq(EventSet), NEW e \in EventSet
    PROVE  Reported(Append(s, e)) =
             Reported(s) \cup (IF e.event = "ContractDeployed" THEN e.of ELSE {})
<1>1. /\ DOMAIN Append(s, e) = DOMAIN s \cup {Len(s) + 1} /\ Len(s) + 1 \notin DOMAIN s
      /\ Append(s, e)[Len(s) + 1] = e /\ \A i \in DOMAIN s : Append(s, e)[i] = s[i]
  OBVIOUS
<1>2. e.of \subseteq Nat
  BY DEF EventSet
<1> QED  BY <1>1, <1>2 DEF Reported

-----------------------------------------------------------------------------
(* What the services and tasks send. *)

LEMMA EventType ==
    ASSUME NEW name \in EventNames, NEW of \in SUBSET Nat
    PROVE  /\ Event(name, of) \in EventSet /\ <<Event(name, of)>> \in Seq(EventSet)
           /\ One(name) \in Seq(EventSet)
           /\ Event(name, of).event = name /\ Event(name, of).of = of
BY DEF Event, EventSet, One

LEMMA OneType ==
    ASSUME NEW name \in EventNames
    PROVE  One(name) \in Seq(EventSet)
BY EventType

LEMMA EachType ==
    ASSUME NEW name \in EventNames, NEW n \in Nat
    PROVE  Each(name, n) \in Seq(EventSet)
BY EventType DEF Each

LEMMA ScriptsType ==
    ASSUME NEW t \in DOMAIN Scripts, NEW a \in DOMAIN Scripts[t]
    PROVE  Scripts[t][a] \in Seq(EventSet)
<1>1. \A b \in DOMAIN Anvil : Anvil[b] \in Seq(EventSet)
  <2>1. /\ Each("BlockMined", 3) \in Seq(EventSet) /\ One("BalanceUpdated") \in Seq(EventSet)
        /\ One("ForkCreated") \in Seq(EventSet) /\ <<>> \in Seq(EventSet)
    BY OneType, EachType DEF EventNames
  <2>2. DOMAIN Anvil = {"MineBlocks", "MineNone", "SetBalance", "Fork"}
    BY DEF Anvil
  <2>3. Anvil["MineBlocks"] = Each("BlockMined", 3) /\ Anvil["MineNone"] = <<>>
        /\ Anvil["SetBalance"] = One("BalanceUpdated") /\ Anvil["Fork"] = One("ForkCreated")
    BY DEF Anvil
  <2> QED  BY <2>1, <2>2, <2>3
<1>2. \A b \in DOMAIN Ipfs : Ipfs[b] \in Seq(EventSet)
  <2>1. /\ One("ContentAdded") \in Seq(EventSet) /\ One("Pinned") \in Seq(EventSet)
        /\ One("Unpinned") \in Seq(EventSet) /\ One("ContentRetrieved") \in Seq(EventSet)
    BY OneType DEF EventNames
  <2> QED  BY <2>1 DEF Ipfs
<1>3. \A b \in DOMAIN Postgres : Postgres[b] \in Seq(EventSet)
  <2>1. /\ One("DatabaseCreated") \in Seq(EventSet) /\ One("QueryExecuted") \in Seq(EventSet)
        /\ One("BackupCompleted") \in Seq(EventSet)
    BY OneType DEF EventNames
  <2> QED  BY <2>1 DEF Postgres
<1>4. \A b \in DOMAIN GraphNode : GraphNode[b] \in Seq(EventSet)
  <2>1. [i \in 1 .. 6 |-> Event("DeploymentProgress", {20 * (i - 1)})] \in Seq(EventSet)
    BY EventType DEF EventNames
  <2>2. /\ One("DeploymentStarted") \in Seq(EventSet) /\ One("QueryResult") \in Seq(EventSet)
        /\ One("DeploymentCompleted") \in Seq(EventSet)
    BY OneType DEF EventNames
  <2> DEFINE Progress == [i \in 1 .. 6 |-> Event("DeploymentProgress", {20 * (i - 1)})]
  <2>3. DOMAIN GraphNode = {"DeploySubgraph", "QuerySubgraph", "RemoveSubgraph"}
    BY DEF GraphNode
  <2>4. /\ GraphNode["DeploySubgraph"] =
             (One("DeploymentStarted") \o Progress) \o One("DeploymentCompleted")
        /\ GraphNode["QuerySubgraph"] = One("QueryResult")
        /\ GraphNode["RemoveSubgraph"] = One("DeploymentCompleted")
    BY DEF GraphNode
  <2> HIDE DEF Progress
  <2>5. (One("DeploymentStarted") \o Progress) \o One("DeploymentCompleted") \in Seq(EventSet)
    BY <2>1, <2>2 DEF Progress
  <2> QED  BY <2>2, <2>3, <2>4, <2>5
<1>5. \A b \in DOMAIN GraphContracts : GraphContracts[b] \in Seq(EventSet)
  <2>1. Each("ContractDeployed", Contracts) \in Seq(EventSet)
    BY EachType DEF Contracts, EventNames
  <2>2. <<Event("DeploymentCompleted", 1 .. Contracts)>> \in Seq(EventSet)
    <3>1. "DeploymentCompleted" \in EventNames /\ 1 .. Contracts \in SUBSET Nat
      BY DEF Contracts, EventNames
    <3> QED  BY <3>1, EventType
  <2>3. /\ One("DeploymentStarted") \in Seq(EventSet) /\ One("SubgraphDeployed") \in Seq(EventSet)
        /\ One("AddressesVerified") \in Seq(EventSet) /\ <<>> \in Seq(EventSet)
    BY OneType DEF EventNames
  <2>4. DOMAIN GraphContracts = {"DeployContracts", "VerifyAddresses", "GetStatus"}
    BY DEF GraphContracts
  <2>5. /\ GraphContracts["DeployContracts"] =
             ((One("DeploymentStarted") \o Each("ContractDeployed", Contracts))
               \o <<Event("DeploymentCompleted", 1 .. Contracts)>>) \o One("SubgraphDeployed")
        /\ GraphContracts["VerifyAddresses"] = One("AddressesVerified")
        /\ GraphContracts["GetStatus"] = <<>>
    BY DEF GraphContracts
  <2>6. ((One("DeploymentStarted") \o Each("ContractDeployed", Contracts))
          \o <<Event("DeploymentCompleted", 1 .. Contracts)>>) \o One("SubgraphDeployed")
          \in Seq(EventSet)
    BY <2>1, <2>2, <2>3
  <2> QED  BY <2>3, <2>4, <2>5, <2>6
<1> QED
  BY <1>1, <1>2, <1>3, <1>4, <1>5 DEF Scripts, ServiceTypes

LEMMA TaskScriptsType ==
    ASSUME NEW t \in DOMAIN TaskScripts, NEW a \in DOMAIN TaskScripts[t],
           NEW events \in TaskScripts[t][a]
    PROVE  /\ events \in Seq(EventSet)
           /\ \A i \in DOMAIN events :
                events[i].event \notin {"DeploymentCompleted", "ContractDeployed"}
<1>1. ASSUME NEW b \in DOMAIN GraphContractsTask, NEW q \in GraphContractsTask[b]
      PROVE  \E name \in EventNames \ {"DeploymentCompleted", "ContractDeployed"},
                of \in SUBSET Nat : q = <<Event(name, of)>>
  BY <1>1 DEF GraphContractsTask, Total, One, EventNames
<1>2. ASSUME NEW b \in DOMAIN TapContractsTask, NEW q \in TapContractsTask[b]
      PROVE  q = <<>> \/ \E name \in EventNames \ {"DeploymentCompleted", "ContractDeployed"},
                            of \in SUBSET Nat : q = <<Event(name, of)>>
  BY <1>2 DEF TapContractsTask, One, EventNames
<1>3. events = <<>> \/ \E name \in EventNames \ {"DeploymentCompleted", "ContractDeployed"},
                          of \in SUBSET Nat : events = <<Event(name, of)>>
  BY <1>1, <1>2 DEF TaskScripts, TaskTypes
<1>4. CASE events = <<>>
  BY <1>4
<1>5. ASSUME NEW name \in EventNames \ {"DeploymentCompleted", "ContractDeployed"},
             NEW of \in SUBSET Nat, events = <<Event(name, of)>>
      PROVE  /\ events \in Seq(EventSet)
             /\ \A i \in DOMAIN events :
                  events[i].event \notin {"DeploymentCompleted", "ContractDeployed"}
  <2>1. Event(name, of) \in EventSet /\ Event(name, of).event = name
    BY EventType
  <2> QED  BY <1>5, <2>1
<1> QED  BY <1>3, <1>4, <1>5

LEMMA TranslatedType ==
    ASSUME NEW line \in Line, completed \in Nat
    PROVE  /\ Noted(line) \in SUBSET Nat
           /\ \/ Translated(line) = <<>> /\ Noted(line) = {}
              \/ \E e \in EventSet :
                   /\ Translated(line) = <<e>> /\ e.event # "DeploymentCompleted"
                   /\ Noted(line) = IF e.event = "ContractDeployed" THEN e.of ELSE {}
<1>1. line.contract \in Nat
      /\ line.says \in {"compiling", "deploying", "deployed", "error", "other"}
  BY DEF Line
<1>2. \A name \in EventNames, of \in SUBSET Nat :
        Event(name, of) \in EventSet /\ Event(name, of).event = name /\ Event(name, of).of = of
  BY EventType
<1>3. CASE line.says = "compiling"
  BY <1>1, <1>2, <1>3 DEF Translated, Noted, EventNames
<1>4. CASE line.says = "deployed"
  BY <1>1, <1>2, <1>4 DEF Translated, Noted, EventNames
<1>5. CASE line.says = "deploying"
  BY <1>1, <1>2, <1>5 DEF Translated, Noted, EventNames
<1>6. CASE line.says = "error"
  BY <1>1, <1>2, <1>6 DEF Translated, Noted, EventNames, One
<1>7. CASE line.says = "other"
  BY <1>1, <1>7 DEF Translated, Noted
<1> QED  BY <1>1, <1>3, <1>4, <1>5, <1>6, <1>7

-----------------------------------------------------------------------------
(* The construction of the daemon. *)

LEMMA BuildStepOK ==
    ASSUME Inv, BuildStep
    PROVE  BuildOK' /\ config' \in Configs /\ phase' \in {"register", "build", "built", "failed"}
<1> USE DEF Inv, TypeOK, BuildOK
<1>0. UNCHANGED <<at, config>>
  BY DEF BuildStep, action, DaemonNext, RegisterService, UnknownType, RegisterTasksAndActions,
         Build, Start, Stop
<1>1. ASSUME NEW n \in loading, RegisterService(n)
      PROVE  BuildOK' /\ phase' = phase
  <2>1. /\ phase = "register" /\ config.services[n].type \in ServiceTypes
        /\ services' = With(services, n, config.services[n].type)
        /\ loading' = loading \ {n} /\ UNCHANGED <<config, tasks, phase>>
    BY <1>1 DEF RegisterService
  <2>2. n \in DOMAIN config.services
    BY <2>1
  <2>3. services' = [m \in DOMAIN config.services \ loading' |-> config.services[m].type]
    BY <2>1, <2>2 DEF With
  <2>4. \A m \in DOMAIN services' : services'[m] \in ServiceTypes
    BY <2>1 DEF With
  <2> QED  BY <1>0, <2>1, <2>3, <2>4
<1>2. ASSUME NEW n \in loading, UnknownType(n)
      PROVE  BuildOK' /\ phase' = "failed"
  BY <1>0, <1>2 DEF UnknownType
<1>3. CASE RegisterTasksAndActions
  <2>1. /\ phase = "register" /\ loading = {} /\ phase' = "build"
        /\ tasks' = With(With(tasks, "deploy-graph-contracts", "graph-contracts-deployment"),
                         "deploy-tap-contracts", "tap-contracts-deployment")
        /\ UNCHANGED <<config, services>>
    BY <1>3 DEF RegisterTasksAndActions
  <2>2. tasks' = FixedTasks
    BY <2>1 DEF With, NoNames, FixedTasks
  <2> QED  BY <1>0, <2>1, <2>2
<1>4. CASE Build
  <2>1. /\ phase = "build" /\ phase' \in {"built", "failed"} /\ (phase' = "built" => ConfigIsValid)
        /\ UNCHANGED <<config, services, tasks>>
    BY <1>4 DEF Build
  <2>2. ConfigIsValid' <=> ConfigIsValid
    BY <2>1 DEF ConfigIsValid, Resolves
  <2> QED  BY <1>0, <2>1, <2>2
<1>5. CASE Start \/ Stop
  <2>1. UNCHANGED <<config, loading, services, tasks, phase>>
    BY <1>5 DEF Start, Stop
  <2> QED  BY <1>0, <2>1 DEF ConfigIsValid, Resolves
<1> QED
  BY <1>0, <1>1, <1>2, <1>3, <1>4, <1>5 DEF BuildStep, DaemonNext

\* Nothing but the construction touches the daemon, and a call needs one.
LEMMA DaemonKept ==
    ASSUME Inv, UNCHANGED daemon, at' # at => phase = "built"
    PROVE  BuildOK' /\ config' \in Configs /\ phase' \in {"register", "build", "built", "failed"}
BY DEF Inv, TypeOK, BuildOK, daemon, ConfigIsValid, Resolves

-----------------------------------------------------------------------------
(* The call. *)

\* What Inv says of a call, on its own.
CallType ==
    /\ at \in {"idle", "acting", "reading", "done", "gone", "answered", "refused", "panicked"}
    /\ todo \in Seq(EventSet) /\ sent \in Seq(EventSet) /\ typed \in Seq(EventSet)
    /\ json \in Seq(EventSet) /\ got \in Seq(EventSet)
    /\ converter \in {"none", "running", "done"} /\ follower \in {"none", "running", "done"}
    /\ hardhat \in {"none", "running", "exited", "killed"}
    /\ output \in Seq(Line) /\ pipe \in Seq(Line)
    /\ deployed \in SUBSET Nat /\ completed \in Nat

CallOK == CallType /\ ChannelOK /\ DeployOK

LEMMA CallKept ==
    ASSUME Inv, UNCHANGED <<action, channels, deployment>>
    PROVE  CallOK'
BY DEF Inv, TypeOK, CallOK, CallType, ChannelOK, DeployOK, Deploys, action, channels, deployment,
       Starts, Reported

LEMMA EnterOK ==
    ASSUME Inv, at = "idle", NEW events \in Seq(EventSet), Enter(events),
           Deploys => \A i \in DOMAIN events :
                        events[i].event \notin {"DeploymentCompleted", "ContractDeployed"}
    PROVE  CallOK'
<1> USE DEF Inv, TypeOK, CallOK, CallType, ChannelOK, DeployOK
<1>1. /\ at' = "acting" /\ todo' = events /\ senders' = 1
      /\ UNCHANGED <<request, sent, typed, converter, json, got, hardhat, output, pipe,
                     follower, deployed, completed>>
  BY DEF Enter, deployment
<1>2. CallType'
  BY <1>1
<1>3. ChannelOK'
  BY <1>1 DEF Starts
<1>4. DeployOK'
  BY <1>1 DEF Deploys, Reported
<1> QED  BY <1>2, <1>3, <1>4

LEMMA ReplyOK ==
    ASSUME Inv, at = "idle", NEW a \in {"answered", "refused", "panicked"}, Reply(a)
    PROVE  CallOK'
<1> USE DEF Inv, TypeOK, CallOK, CallType, ChannelOK, DeployOK
<1>1. /\ at' = a
      /\ UNCHANGED <<request, todo, sent, typed, senders, converter, json, got, hardhat, output,
                     pipe, follower, deployed, completed>>
  BY DEF Reply, channels, deployment
<1>2. CallType' /\ ChannelOK'
  BY <1>1 DEF Starts
<1>3. DeployOK'
  BY <1>1 DEF Deploys, Reported
<1> QED  BY <1>2, <1>3

LEMMA CallsOK ==
    ASSUME Inv, Dispatch \/ Create \/ Execute \/ Ask
    PROVE  CallOK' /\ UNCHANGED daemon /\ phase = "built"
<1>0. phase = "built" /\ at = "idle"
  BY DEF Dispatch, Create, Execute, Ask, Call
<1>1. UNCHANGED daemon
  BY DEF Dispatch, Create, Execute, Ask, Act, Enter, Reply
<1> SUFFICES CallOK'
  BY <1>0, <1>1
<1>2. ASSUME NEW t \in DOMAIN Scripts, Act(Scripts[t]), request.on # "tasks"
      PROVE  CallOK'
  <2>1. CASE request.action \in DOMAIN Scripts[t]
    BY <1>0, <1>2, <2>1, ScriptsType, EnterOK DEF Act, Deploys
  <2>2. CASE request.action \notin DOMAIN Scripts[t]
    BY <1>0, <1>2, <2>2, ReplyOK DEF Act
  <2> QED  BY <2>1, <2>2
<1>3. CASE Dispatch
  <2>1. CASE request.name \in DOMAIN services
    <3>1. services[request.name] \in DOMAIN Scripts
      BY <2>1 DEF Inv, BuildOK, Scripts
    <3>2. Act(Scripts[services[request.name]]) /\ request.on = "services"
      BY <1>3, <2>1 DEF Dispatch, Call
    <3> QED  BY <1>2, <3>1, <3>2
  <2>2. CASE request.name \notin DOMAIN services
    BY <1>0, <1>3, <2>2, ReplyOK DEF Dispatch
  <2> QED  BY <2>1, <2>2
<1>4. CASE Create
  BY <1>0, <1>2, <1>4, ReplyOK DEF Create, Call
<1>5. CASE Execute
  <2>1. ASSUME request.name \in DOMAIN tasks,
               request.action \in DOMAIN TaskScripts[tasks[request.name]],
               NEW events \in TaskScripts[tasks[request.name]][request.action], Enter(events)
        PROVE  CallOK'
    <3>1. tasks[request.name] \in DOMAIN TaskScripts
      BY <1>0, <2>1 DEF Inv, BuildOK, FixedTasks, TaskScripts, TaskTypes
    <3> QED  BY <1>0, <2>1, <3>1, TaskScriptsType, EnterOK
  <2> QED  BY <1>0, <1>5, <2>1, ReplyOK DEF Execute
<1>6. CASE Ask
  BY <1>0, <1>6, ReplyOK DEF Ask
<1> QED  BY <1>3, <1>4, <1>5, <1>6

-----------------------------------------------------------------------------
(* The action, hardhat, its follower, the converter and the caller. *)

LEMMA Associative ==
    \A s, t, u \in Seq(EventSet) : (s \o t) \o u = s \o (t \o u)
BY ConcatAssociative

\* Sending at the end, and reading at the front, of what is under way.  (Cat keeps
\* the provers from rewriting \o.)
Cat(s, t) == s \o t

LEMMA Regroup ==
    \A s, t, u, v \in Seq(EventSet) : Cat(Cat(s, Cat(t, u)), v) = Cat(s, Cat(t, Cat(u, v)))
<1> SUFFICES ASSUME NEW s \in Seq(EventSet), NEW t \in Seq(EventSet), NEW u \in Seq(EventSet),
                    NEW v \in Seq(EventSet)
             PROVE  (s \o (t \o u)) \o v = s \o (t \o (u \o v))
  BY DEF Cat
<1>1. t \o u \in Seq(EventSet)
  BY ConcatProperties
<1>2. (s \o (t \o u)) \o v = s \o ((t \o u) \o v)
  BY <1>1, Associative
<1>3. (t \o u) \o v = t \o (u \o v)
  BY Associative
<1> QED  BY <1>2, <1>3

LEMMA TakeHead ==
    ASSUME NEW s \in Seq(EventSet), NEW t \in Seq(EventSet), NEW u \in Seq(EventSet),
           t # <<>>
    PROVE  s \o (t \o u) = Append(s, Head(t)) \o (Tail(t) \o u)
<1>1. Append(s, Head(t)) \in Seq(EventSet) /\ Tail(t) \in Seq(EventSet)
  OBVIOUS
<1>2. Append(s, Head(t)) \o Tail(t) = s \o t
  BY MoveHead
<1>3. (Append(s, Head(t)) \o Tail(t)) \o u = Append(s, Head(t)) \o (Tail(t) \o u)
  BY <1>1, Associative
<1>4. (s \o t) \o u = s \o (t \o u)
  BY Associative
<1> QED  BY <1>2, <1>3, <1>4

\* Events are where they should be: read, converted or in the first channel.
InOrder == (at # "gone" => sent = got \o (json \o typed)) /\ Starts(got, sent)

LEMMA SendingOK ==
    ASSUME CallOK, NEW events \in Seq(EventSet), UNCHANGED <<at, json, got>>,
           typed' = typed \o events, sent' = sent \o events
    PROVE  typed' \in Seq(EventSet) /\ sent' \in Seq(EventSet) /\ InOrder'
<1> USE DEF CallOK, CallType, ChannelOK, InOrder
<1>1. typed' \in Seq(EventSet) /\ sent' \in Seq(EventSet) /\ json \o typed \in Seq(EventSet)
  BY ConcatProperties
<1>2. ASSUME at # "gone"  PROVE sent' = got \o (json \o typed')
  <2>1. sent = got \o (json \o typed)
    BY <1>2
  <2>2. (got \o (json \o typed)) \o events = got \o (json \o (typed \o events))
    <3>1. Cat(Cat(got, Cat(json, typed)), events) = Cat(got, Cat(json, Cat(typed, events)))
      BY Regroup
    <3> QED  BY <3>1 DEF Cat
  <2> QED  BY <2>1, <2>2
<1>3. Starts(got, sent \o events)
  BY StartsConcat
<1> QED  BY <1>1, <1>2, <1>3

LEMMA PutOK ==
    ASSUME CallOK, NEW e \in EventSet, UNCHANGED <<at, json, got>>, Put(e)
    PROVE  /\ typed' \in Seq(EventSet) /\ sent' \in Seq(EventSet) /\ InOrder'
           /\ DOMAIN sent' = 1 .. Len(sent) + 1 /\ Len(sent') = Len(sent) + 1
           /\ sent'[Len(sent) + 1] = e /\ \A i \in DOMAIN sent : sent'[i] = sent[i]
           /\ DOMAIN sent = 1 .. Len(sent) /\ Len(sent) \in Nat
           /\ Reported(sent') =
                Reported(sent) \cup (IF e.event = "ContractDeployed" THEN e.of ELSE {})
<1> USE DEF CallOK, CallType, Put
<1>1. typed' = typed \o <<e>> /\ sent' = sent \o <<e>>
  BY AppendIsConcat
<1>2. /\ DOMAIN sent' = 1 .. Len(sent) + 1 /\ Len(sent') = Len(sent) + 1
      /\ sent'[Len(sent) + 1] = e /\ \A i \in DOMAIN sent : sent'[i] = sent[i]
      /\ DOMAIN sent = 1 .. Len(sent) /\ Len(sent) \in Nat
  BY AppendProperties
<1>3. typed' \in Seq(EventSet) /\ sent' \in Seq(EventSet) /\ InOrder'
  <2>1. <<e>> \in Seq(EventSet)
    OBVIOUS
  <2> QED  BY <1>1, <2>1, SendingOK
<1>4. Reported(Append(sent, e)) =
        Reported(sent) \cup (IF e.event = "ContractDeployed" THEN e.of ELSE {})
  BY ReportedAppend
<1> QED  BY <1>2, <1>3, <1>4

LEMMA SendOK == CallOK /\ Send => CallOK'
<1> SUFFICES ASSUME CallOK, Send  PROVE CallOK'
  OBVIOUS
<1> USE DEF CallOK
<1>1. /\ at = "acting" /\ todo # <<>> /\ Put(Head(todo)) /\ todo' = Tail(todo)
      /\ UNCHANGED <<at, request, senders, converter, json, got, hardhat, output, pipe,
                     follower, deployed, completed>>
  BY DEF Send, deployment
<1>2. /\ Head(todo) \in EventSet /\ todo' \in Seq(EventSet) /\ Head(todo) = todo[1]
      /\ 1 \in DOMAIN todo /\ \A i \in DOMAIN todo' : i + 1 \in DOMAIN todo /\ todo'[i] = todo[i + 1]
  BY <1>1 DEF CallType
<1>3. /\ typed' \in Seq(EventSet) /\ sent' \in Seq(EventSet) /\ InOrder'
      /\ DOMAIN sent' = 1 .. Len(sent) + 1 /\ sent'[Len(sent) + 1] = Head(todo)
      /\ \A i \in DOMAIN sent : sent'[i] = sent[i]
      /\ DOMAIN sent = 1 .. Len(sent) /\ Len(sent) \in Nat
      /\ Reported(sent') = Reported(sent) \cup
           (IF Head(todo).event = "ContractDeployed" THEN Head(todo).of ELSE {})
  BY <1>1, <1>2, PutOK
<1>4. CallType'
  BY <1>1, <1>2, <1>3 DEF CallType
<1>5. hardhat = "none" /\ follower = "none"
  BY <1>1 DEF DeployOK, ChannelOK
<1>6. ChannelOK'
  BY <1>1, <1>3, <1>5 DEF ChannelOK, InOrder
<1>7. DeployOK'
  <2> SUFFICES ASSUME Deploys
               PROVE  /\ \A i \in DOMAIN todo' :
                           todo'[i].event \notin {"DeploymentCompleted", "ContractDeployed"}
                      /\ deployed' = Reported(sent')
                      /\ \A i \in DOMAIN sent' : sent'[i].event # "DeploymentCompleted"
    BY <1>1, <1>5 DEF DeployOK, Deploys
  <2>1. Head(todo).event \notin {"DeploymentCompleted", "ContractDeployed"}
    BY <1>2 DEF DeployOK
  <2>2. \A i \in DOMAIN sent : sent[i].event # "DeploymentCompleted"
    BY <1>5 DEF DeployOK
  <2>3. deployed' = Reported(sent')
    BY <1>1, <1>3, <2>1 DEF DeployOK
  <2>4. \A i \in DOMAIN sent' : sent'[i].event # "DeploymentCompleted"
    BY <1>3, <2>1, <2>2
  <2> QED  BY <1>2, <2>3, <2>4 DEF DeployOK
<1> QED  BY <1>4, <1>6, <1>7

LEMMA ProcessOK ==
    ASSUME CallOK, Launch \/ LaunchFails \/ Return \/ Writes \/ Exit
    PROVE  CallOK'
<1> USE DEF CallOK, CallType
<1>1. UNCHANGED <<request, todo, sent, typed, json, got, deployed, completed>>
  BY DEF Launch, LaunchFails, Return, Writes, Exit, action, channels, deployment
<1>2. CASE Launch
  <2>1. /\ at = "acting" /\ todo = <<>> /\ Deploys /\ hardhat = "none" /\ hardhat' = "running"
        /\ output' \in Outputs /\ follower' = "running" /\ senders' = senders + 1
        /\ UNCHANGED <<at, converter, pipe>>
    BY <1>2 DEF Launch, action
  <2>2. CallType'
    BY <1>1, <2>1, OutputsAssumption
  <2>3. ChannelOK'
    BY <1>1, <2>1 DEF ChannelOK, Starts
  <2>4. DeployOK'
    BY <1>1, <2>1 DEF DeployOK, ChannelOK, Deploys, Reported
  <2> QED  BY <2>2, <2>3, <2>4
<1>3. CASE LaunchFails
  <2>1. /\ at = "acting" /\ at' = "refused" /\ senders' = senders - 1 /\ hardhat = "none"
        /\ UNCHANGED <<converter, hardhat, output, pipe, follower>>
    BY <1>3 DEF LaunchFails, deployment
  <2>2. CallType' /\ ChannelOK'
    BY <1>1, <2>1 DEF ChannelOK, Starts
  <2>3. DeployOK'
    BY <1>1, <2>1 DEF DeployOK, Deploys, Reported
  <2> QED  BY <2>2, <2>3
<1>4. CASE Return
  <2>1. /\ at = "acting" /\ at' = "reading" /\ senders' = senders - 1 /\ converter' = "running"
        /\ hardhat' = (IF hardhat = "running" THEN "killed" ELSE hardhat)
        /\ UNCHANGED <<output, pipe, follower>>
    BY <1>4 DEF Return
  <2>2. CallType' /\ ChannelOK'
    BY <1>1, <2>1 DEF ChannelOK, Starts
  <2>3. DeployOK'
    BY <1>1, <2>1 DEF DeployOK, Deploys, Reported
  <2> QED  BY <2>2, <2>3
<1>5. CASE Writes \/ Exit
  <2>1. /\ hardhat = "running" /\ hardhat' \in {"running", "exited"}
        /\ UNCHANGED <<at, senders, converter, follower>>
    BY <1>5 DEF Writes, Exit, action, channels
  <2>2. output' \in Seq(Line) /\ pipe' \in Seq(Line)
    <3>1. CASE Writes
      <4>1. /\ output # <<>> /\ pipe' = Append(pipe, Head(output)) /\ output' = Tail(output)
        BY <3>1 DEF Writes
      <4> QED  BY <4>1, HeadTailProperties, AppendProperties
    <3>2. CASE Exit
      BY <3>2 DEF Exit
    <3> QED  BY <1>5, <3>1, <3>2
  <2>3. CallType' /\ ChannelOK'
    BY <1>1, <2>1, <2>2 DEF ChannelOK, Starts
  <2>4. DeployOK'
    BY <1>1, <2>1 DEF DeployOK, Deploys, Reported
  <2> QED  BY <2>3, <2>4
<1> QED  BY <1>2, <1>3, <1>4, <1>5

LEMMA FollowOK == CallOK /\ Follow => CallOK'
<1> SUFFICES ASSUME CallOK, Follow  PROVE CallOK'
  OBVIOUS
<1> USE DEF CallOK
<1> DEFINE line == Head(pipe)
<1>1. /\ follower = "running" /\ pipe # <<>>
      /\ typed' = typed \o Translated(line) /\ sent' = sent \o Translated(line)
      /\ deployed' = deployed \cup Noted(line)
      /\ completed' = completed + (IF line.says = "deployed" THEN 1 ELSE 0) /\ pipe' = Tail(pipe)
      /\ UNCHANGED <<at, request, todo, senders, converter, json, got, hardhat, output, follower>>
  BY DEF Follow, action
<1>2. line \in Line /\ pipe' \in Seq(Line) /\ completed' \in Nat
  BY <1>1 DEF CallType
<1>3. hardhat # "none" /\ Deploys /\ \A i \in DOMAIN sent : sent[i].event # "DeploymentCompleted"
  BY <1>1 DEF ChannelOK, DeployOK
<1>6. at \notin {"idle", "done"} /\ converter # "done"
  BY <1>1, <1>3 DEF ChannelOK, CallType
<1> HIDE DEF line
<1>4. CASE Translated(line) = <<>> /\ Noted(line) = {}
  <2>1. typed' = typed /\ sent' = sent /\ deployed' = deployed
    BY <1>1, <1>4, ConcatEmptySeq DEF CallType
  <2>2. CallType' /\ ChannelOK'
    BY <1>1, <1>2, <2>1 DEF CallType, ChannelOK, Starts
  <2>3. DeployOK'
    BY <1>1, <2>1 DEF DeployOK, Deploys, Reported
  <2> QED  BY <2>2, <2>3
<1>5. ASSUME NEW e \in EventSet, Translated(line) = <<e>>, e.event # "DeploymentCompleted",
             Noted(line) = IF e.event = "ContractDeployed" THEN e.of ELSE {}
      PROVE  CallOK'
  <2>1. Put(e)
    BY <1>1, <1>5, AppendIsConcat DEF Put, CallType
  <2>2. /\ typed' \in Seq(EventSet) /\ sent' \in Seq(EventSet) /\ InOrder'
        /\ DOMAIN sent' = 1 .. Len(sent) + 1 /\ sent'[Len(sent) + 1] = e
        /\ \A i \in DOMAIN sent : sent'[i] = sent[i]
        /\ DOMAIN sent = 1 .. Len(sent) /\ Len(sent) \in Nat
        /\ Reported(sent') = Reported(sent) \cup (IF e.event = "ContractDeployed" THEN e.of ELSE {})
    BY <1>1, <2>1, PutOK
  <2>3. CallType'
    <3>1. Noted(line) \in SUBSET Nat
      BY <1>2, TranslatedType DEF CallType
    <3> QED  BY <1>1, <1>2, <2>2, <3>1 DEF CallType
  <2>4. ChannelOK'
    BY <1>1, <1>3, <1>6, <2>2 DEF ChannelOK, InOrder
  <2>5. DeployOK'
    <3>1. \A i \in DOMAIN sent' : sent'[i].event # "DeploymentCompleted"
      BY <1>3, <1>5, <2>2
    <3>2. deployed' = Reported(sent')
      BY <1>1, <1>3, <1>5, <2>2 DEF DeployOK
    <3> QED  BY <1>1, <1>3, <3>1, <3>2 DEF DeployOK, Deploys
  <2> QED  BY <2>3, <2>4, <2>5
<1> QED  BY <1>2, <1>4, <1>5, TranslatedType DEF CallType

LEMMA FollowerEndsOK == CallOK /\ FollowerEnds => CallOK'
<1> SUFFICES ASSUME CallOK, FollowerEnds  PROVE CallOK'
  OBVIOUS
<1> USE DEF CallOK
<1> DEFINE e == Event("DeploymentCompleted", deployed)
<1>1. /\ follower = "running" /\ Put(e) /\ follower' = "done" /\ senders' = senders - 1
      /\ UNCHANGED <<at, request, todo, converter, json, got, hardhat, output, pipe,
                     deployed, completed>>
  BY DEF FollowerEnds, After, action
<1>2. e \in EventSet /\ e.event = "DeploymentCompleted" /\ e.of = deployed
  BY EventType DEF CallType, EventNames
<1>3. hardhat # "none" /\ Deploys /\ \A i \in DOMAIN sent : sent[i].event # "DeploymentCompleted"
  BY <1>1 DEF ChannelOK, DeployOK
<1>8. /\ at \notin {"idle", "done"} /\ converter # "done"
      /\ senders - 1 = IF at = "acting" THEN 1 ELSE 0
  BY <1>1, <1>3 DEF ChannelOK, CallType
<1> HIDE DEF e
<1>4. /\ typed' \in Seq(EventSet) /\ sent' \in Seq(EventSet) /\ InOrder'
      /\ DOMAIN sent' = 1 .. Len(sent) + 1 /\ Len(sent') = Len(sent) + 1
      /\ sent'[Len(sent) + 1] = e /\ \A i \in DOMAIN sent : sent'[i] = sent[i]
      /\ DOMAIN sent = 1 .. Len(sent) /\ Len(sent) \in Nat
      /\ Reported(sent') = Reported(sent)
  BY <1>1, <1>2, PutOK
<1>5. CallType'
  BY <1>1, <1>4 DEF CallType
<1>6. ChannelOK'
  <2>1. senders' = (IF at' = "acting" THEN 1 ELSE 0) + (IF follower' = "running" THEN 1 ELSE 0)
    BY <1>1, <1>8
  <2>2. converter' # "none" => at' \in {"reading", "done", "gone"}
    BY <1>1 DEF ChannelOK
  <2> QED  BY <1>1, <1>3, <1>4, <1>8, <2>1, <2>2 DEF ChannelOK, InOrder
<1>7. DeployOK'
  <2>1. \A i \in DOMAIN sent' : sent'[i].event = "DeploymentCompleted" =>
          i = Len(sent') /\ sent'[i].of = deployed
    BY <1>2, <1>3, <1>4
  <2> QED  BY <1>1, <1>3, <1>4, <2>1 DEF DeployOK, Deploys
<1> QED  BY <1>5, <1>6, <1>7

LEMMA ConverterOK ==
    ASSUME CallOK, ConverterStep
    PROVE  CallOK'
<1> USE DEF CallOK, CallType
<1>1. UNCHANGED <<at, request, todo, sent, senders, got, hardhat, output, pipe, follower,
                  deployed, completed>> /\ converter = "running"
  BY DEF ConverterStep, Convert, ConverterEnds, action, deployment
<1>2. DeployOK'
  BY <1>1 DEF DeployOK, Deploys, Reported
<1>3. CASE Convert
  <2>1. /\ typed # <<>> /\ typed' = Tail(typed) /\ converter' = converter
        /\ json' = (IF at = "gone" THEN json ELSE Append(json, Head(typed)))
    BY <1>3 DEF Convert
  <2>2. Head(typed) \in EventSet /\ typed' \in Seq(EventSet) /\ json' \in Seq(EventSet)
    BY <2>1
  <2>3. at # "gone" => json' \o typed' = json \o typed
    BY <2>1, MoveHead
  <2>4. ChannelOK'
    BY <1>1, <2>1, <2>3 DEF ChannelOK, Starts
  <2> QED  BY <1>1, <1>2, <2>1, <2>2, <2>4
<1>4. CASE ConverterEnds
  <2>1. typed = <<>> /\ senders = 0 /\ converter' = "done" /\ UNCHANGED <<typed, json>>
    BY <1>4 DEF ConverterEnds, Closed
  <2>2. ChannelOK'
    BY <1>1, <2>1 DEF ChannelOK, Starts
  <2> QED  BY <1>1, <1>2, <2>1, <2>2
<1> QED  BY <1>3, <1>4 DEF ConverterStep

LEMMA ReaderOK ==
    ASSUME CallOK, ReaderStep \/ DropReceiver
    PROVE  CallOK'
<1> USE DEF CallOK, CallType
<1>1. UNCHANGED <<request, todo, sent, typed, senders, converter, hardhat, output, pipe,
                  follower, deployed, completed>> /\ at = "reading"
  BY DEF ReaderStep, Receive, SeeEnd, DropReceiver, action, channels, deployment
<1>2. DeployOK'
  BY <1>1 DEF DeployOK, Deploys, Reported
<1>3. CASE Receive
  <2>1. /\ json # <<>> /\ got' = Append(got, Head(json)) /\ json' = Tail(json) /\ at' = at
    BY <1>3 DEF Receive, action
  <2>2. Head(json) \in EventSet /\ json' \in Seq(EventSet) /\ got' \in Seq(EventSet)
    BY <2>1
  <2>3. sent = got' \o (json' \o typed)
    BY <1>1, <2>1, TakeHead DEF ChannelOK
  <2>4. Starts(got', sent)
    BY <2>2, <2>3, StartsConcat, ConcatProperties
  <2>5. ChannelOK'
    BY <1>1, <2>1, <2>3, <2>4 DEF ChannelOK, Starts
  <2> QED  BY <1>1, <1>2, <2>1, <2>2, <2>5
<1>4. CASE SeeEnd
  <2>1. json = <<>> /\ converter = "done" /\ at' = "done" /\ UNCHANGED <<json, got>>
    BY <1>4 DEF SeeEnd, channels
  <2>2. ChannelOK'
    BY <1>1, <2>1 DEF ChannelOK, Starts
  <2> QED  BY <1>1, <1>2, <2>1, <2>2
<1>5. CASE DropReceiver
  <2>1. at' = "gone" /\ json' = <<>> /\ UNCHANGED got
    BY <1>5 DEF DropReceiver
  <2>2. ChannelOK'
    BY <1>1, <2>1 DEF ChannelOK, Starts
  <2> QED  BY <1>1, <1>2, <2>1, <2>2
<1> QED  BY <1>3, <1>4, <1>5 DEF ReaderStep

-----------------------------------------------------------------------------
(* The invariant and the properties. *)

LEMMA InitInv == Init => Inv
BY DEF Init, DaemonInit, NoNames, Inv, TypeOK, BuildOK, ChannelOK, DeployOK, Starts, Reported,
       Deploys

LEMMA NextInv == Inv /\ [Next]_vars => Inv'
<1> SUFFICES ASSUME Inv, [Next]_vars  PROVE Inv'
  OBVIOUS
<1>1. CallOK /\ (at # "idle" => phase = "built")
  BY DEF Inv, TypeOK, CallOK, CallType, BuildOK
<1>2. ASSUME CallOK', BuildOK', config' \in Configs,
             phase' \in {"register", "build", "built", "failed"}
      PROVE  Inv'
  BY <1>2 DEF Inv, TypeOK, CallOK, CallType
<1>3. ASSUME UNCHANGED daemon, CallOK', at' # at => phase = "built"  PROVE Inv'
  BY <1>2, <1>3, DaemonKept
<1>4. CASE BuildStep
  BY <1>2, <1>4, BuildStepOK, CallKept DEF BuildStep
<1>5. CASE Dispatch \/ Create \/ Execute \/ Ask
  BY <1>3, <1>5, CallsOK
<1>6. CASE Send
  BY <1>1, <1>3, <1>6, SendOK DEF Send
<1>7. CASE Launch \/ LaunchFails \/ Return \/ ProcessStep
  <2>1. UNCHANGED daemon /\ (at' # at => at = "acting")
    BY <1>7 DEF Launch, LaunchFails, Return, ProcessStep, Writes, Exit, action
  <2> QED  BY <1>1, <1>3, <1>7, <2>1, ProcessOK DEF ProcessStep
<1>8. CASE FollowerStep
  <2>1. UNCHANGED <<daemon, at>>
    BY <1>8 DEF FollowerStep, Follow, FollowerEnds, action
  <2> QED  BY <1>1, <1>3, <1>8, <2>1, FollowOK, FollowerEndsOK DEF FollowerStep
<1>9. CASE ConverterStep
  <2>1. UNCHANGED <<daemon, at>>
    BY <1>9 DEF ConverterStep, Convert, ConverterEnds, action
  <2> QED  BY <1>1, <1>3, <1>9, <2>1, ConverterOK
<1>10. CASE ReaderStep \/ DropReceiver
  <2>1. UNCHANGED daemon /\ at = "reading"
    BY <1>10 DEF ReaderStep, Receive, SeeEnd, DropReceiver
  <2> QED  BY <1>1, <1>3, <1>10, <2>1, ReaderOK
<1>11. CASE UNCHANGED vars
  BY <1>3, <1>11, CallKept DEF vars, action
<1> QED
  BY <1>4, <1>5, <1>6, <1>7, <1>8, <1>9, <1>10, <1>11 DEF Next, CallStep

LEMMA Invariance == Spec => []Inv
BY InitInv, NextInv, PTL DEF Spec

\* A daemon that was built has exactly the services of its configuration, each of
\* its type, and all that the configuration depends on is in it, in whatever order
\* from_stack_config walked its maps.
THEOREM BuiltDaemonIsValid == Spec => []BuiltIsValid
<1>1. Inv => BuiltIsValid
  <2> SUFFICES ASSUME Inv, phase = "built"
               PROVE  /\ services = [n \in DOMAIN config.services |-> config.services[n].type]
                      /\ \A part \in {config.services, config.tasks} : \A n \in DOMAIN part :
                           \A d \in part[n].deps :
                             \/ d.kind = "service" /\ d.name \in DOMAIN services
                             \/ d.kind = "task" /\ d.name \in DOMAIN config.tasks
    BY DEF BuiltIsValid
  <2>1. /\ services = [n \in DOMAIN config.services |-> config.services[n].type]
        /\ ConfigIsValid /\ config \in Configs
    BY DEF Inv, TypeOK, BuildOK
  <2>2. ASSUME NEW part \in {config.services, config.tasks}, NEW n \in DOMAIN part,
               NEW d \in part[n].deps
        PROVE  \/ d.kind = "service" /\ d.name \in DOMAIN services
               \/ d.kind = "task" /\ d.name \in DOMAIN config.tasks
    <3>1. d.kind \in {"service", "task"}
      BY <2>1, ConfigsAssumption
    <3>2. Resolves(d)
      BY <2>1 DEF ConfigIsValid
    <3> QED  BY <2>1, <3>1, <3>2 DEF Resolves
  <2> QED  BY <2>1, <2>2
<1> QED  BY <1>1, Invariance, PTL

\* Whoever reads to the end has read every event that the action and its follower
\* sent, in the order sent; the converter ends only when no one can send any more.
THEOREM AllEventsArrive == Spec => []EventsArrive
<1>1. Inv => EventsArrive
  <2> SUFFICES ASSUME Inv
               PROVE  IsPrefix(got, sent) /\ (at = "done" => got = sent /\ follower # "running")
    BY DEF EventsArrive
  <2>1. IsPrefix(got, sent)
    BY StartsIsPrefix DEF Inv, TypeOK, ChannelOK
  <2>2. ASSUME at = "done"  PROVE got = sent /\ follower # "running"
    <3>1. json = <<>> /\ typed = <<>> /\ senders = 0 /\ sent = got \o (json \o typed)
      BY <2>2 DEF Inv, ChannelOK
    <3>2. got \o (<<>> \o <<>>) = got
      BY ConcatEmptySeq DEF Inv, TypeOK
    <3> QED  BY <2>2, <3>1, <3>2 DEF Inv, TypeOK, ChannelOK
  <2> QED  BY <2>1, <2>2
<1> QED  BY <1>1, Invariance, PTL

\* The addresses a deployment of the graph contracts is completed with are those
\* of the contracts it has reported as deployed, and it reports nothing after it.
THEOREM CompletionIsTrue == Spec => []CompletionAddsUp
<1>1. Inv => CompletionAddsUp
  <2> SUFFICES ASSUME Inv, Deploys, NEW i \in DOMAIN sent, sent[i].event = "DeploymentCompleted"
               PROVE  /\ i = Len(sent)
                      /\ sent[i].of =
                           UNION {e.of : e \in {x \in Range(sent) : x.event = "ContractDeployed"}}
    BY DEF CompletionAddsUp
  <2>1. i = Len(sent) /\ sent[i].of = Reported(sent)
    BY DEF Inv, DeployOK
  <2>2. \A k \in DOMAIN sent : sent[k].of \subseteq Nat
    <3>1. \A k \in DOMAIN sent : sent[k] \in EventSet
      BY DEF Inv, TypeOK
    <3> QED  BY <3>1 DEF EventSet
  <2>3. Reported(sent) = UNION {e.of : e \in {x \in Range(sent) : x.event = "ContractDeployed"}}
    BY <2>2 DEF Reported, Range
  <2> QED  BY <2>1, <2>3
<1> QED  BY <1>1, Invariance, PTL
=============================================================================
