------------------------------ MODULE MCStacks ------------------------------
(* An instance of Stacks for TLC. *)
EXTENDS Stacks, TLC

On(kind, names) == {[kind |-> kind, name |-> n] : n \in names}
Part(type, deps) == [type |-> type, deps |-> deps]

(* All four types with a chain of dependencies and a task under a name of  *)
(* its own; and configurations that must fail, each for one reason.        *)
Full == "chain" :> Part("anvil", {}) @@ "db" :> Part("postgres", {})
        @@ "files" :> Part("ipfs", {})
        @@ "node" :> Part("graph-node", On("service", {"chain", "db"}) \cup On("task", {"deploy"}))
Deploy == "deploy" :> Part("graph-contracts-deployment", On("service", {"chain"}))
Chain(deps) == "chain" :> Part("anvil", deps)

MCConfigs == {
    [services |-> Full, tasks |-> Deploy],
    [services |-> Chain({}), tasks |-> NoNames],
    [services |-> Chain(On("service", {"db"})), tasks |-> NoNames],
    [services |-> Chain(On("task", {"deploy"})), tasks |-> NoNames],
    [services |-> Chain({}), tasks |-> "deploy" :> Part("other", {})],
    [services |-> Chain({}) @@ "deploy" :> Part("graph-contracts", {}), tasks |-> NoNames],
    [services |-> Chain({}), tasks |-> Deploy @@
        "tap" :> Part("tap-contracts-deployment", On("task", {"deploy", "gone"}))]}

R(on, name, act) == [on |-> on, name |-> name, action |-> act]
MCRequests == {
    R("services", "node", "DeploySubgraph"), R("services", "node", "QuerySubgraph"),
    R("services", "node", "RemoveSubgraph"), R("services", "node", "DeployShortHash"),
    R("services", "chain", "MineBlocks"), R("services", "chain", "MineNone"),
    R("services", "chain", "Pin"), R("services", "files", "Cat"),
    R("services", "db", "Backup"),
    R("types", "graph-contracts", "DeployContracts"),
    R("types", "graph-contracts", "GetStatus"), R("types", "redis", "Flush"),
    R("types", "anvil", "Pin"),
    R("tasks", "deploy-graph-contracts", "DeployAll"),
    R("tasks", "deploy-graph-contracts", "DeployContract"),
    R("tasks", "deploy-graph-contracts", "VerifyDeployment"),
    R("tasks", "deploy-tap-contracts", "DeployAll"),
    R("tasks", "deploy-tap-contracts", "VerifyDeployment"),
    R("tasks", "deploy", "DeployAll"),
    R("completed", "deploy-graph-contracts", ""), R("completed", "deploy", ""),
    R("actions", "health-check-stack", ""), R("actions", "reset", "")}

Prints(says, contract) == [says |-> says, contract |-> contract]
MCOutputs == {
    <<Prints("compiling", 1), Prints("deploying", 1), Prints("deployed", 1),
      Prints("deploying", 2), Prints("deployed", 2), Prints("deployed", 1)>>,
    <<Prints("other", 0), Prints("error", 0)>>, <<>>}
=============================================================================
