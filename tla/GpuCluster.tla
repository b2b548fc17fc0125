----------------------------- MODULE GpuCluster -----------------------------
(***************************************************************************)
(* sims gpu create, delete and monitoring enable|disable (pkg/cli) on one  *)
(* cluster name: a command is a sequence of calls to kind, the API server  *)
(* and Helm, it stops at the first that fails and undoes nothing.          *)
(*                                                                         *)
(* There are two stacks, each a Helm release in a namespace of its own:    *)
(* "gpu" (sims-nvidia or sims-amd in gpu-operator) and "mon"               *)
(* (sims-monitoring in monitoring).                                        *)
(***************************************************************************)
EXTENDS Integers, FiniteSets

CONSTANTS
    Shells,         \* where commands are run
    Workers,        \* the --workers flag
    MaxCommands,    \* bound: commands begun
    MaxFaults,      \* bound: calls that fail
    MaxKills        \* bound: commands killed

Stacks == {"gpu", "mon"}

ASSUME WorkersAssumption == Workers \in Int
ASSUME CommandsAssumption == {MaxCommands, MaxFaults, MaxKills} \subseteq Nat

VARIABLES
    nodes,      \* the worker nodes of the kind cluster; none when there is none
    exists,     \* the kind cluster exists
    capacity,   \* nodes that report the GPUs
    ns,         \* ns[k]: the namespace of stack k
    release,    \* release[k]: the status of its release
    grafana,    \* the Grafana Deployment is Available
    command,    \* command[s]: what runs in shell s
    temps,      \* temps[s]: kubeconfig files that the processes of s have made
    told,       \* what the last command said it did, until another begins; or
                \* "disturbed": the last commands have overlapped
    begun, faults, killed       \* budgets; killed: shells, with repetition

clusterVars == <<nodes, exists, capacity, ns, release, grafana>>
shellVars == <<temps, told, begun, killed>>
vars == <<clusterVars, command, shellVars, faults>>

Namespace == [phase: {"none", "active", "terminating"}, labels: BOOLEAN]

NoNamespace == [phase |-> "none", labels |-> FALSE]

NoCommand == [op |-> "none", pc |-> "idle", stack |-> "gpu", monitoring |-> FALSE,
              current |-> FALSE]

Command == [op: {"none", "create", "enable", "disable", "delete"},
            pc: {"idle", "kind", "get", "namespace", "get again", "label", "client",
                 "install", "installing", "wait", "uninstall", "namespace delete",
                 "kind delete", "lost"},
            stack: Stacks, monitoring: BOOLEAN, current: BOOLEAN]

\* config.Render: the default for a count that is not positive.
WorkerCount == IF Workers <= 0 THEN 2 ELSE Workers

TypeOK ==
    /\ nodes \in SUBSET (1..WorkerCount) /\ capacity \subseteq nodes
    /\ exists \in BOOLEAN /\ grafana \in BOOLEAN
    /\ ns \in [Stacks -> Namespace]
    /\ release \in [Stacks -> {"none", "pending", "deployed", "failed"}]
    /\ command \in [Shells -> Command]
    /\ temps \in [Shells -> SUBSET Stacks]
    /\ told \in {"nothing", "disturbed", "create", "create with monitoring", "enable",
                 "disable", "delete"}
    /\ begun \in 0..MaxCommands /\ faults \in 0..MaxFaults
    /\ killed \in [Shells -> 0..MaxKills]

NoCluster ==
    /\ nodes = {} /\ exists = FALSE /\ capacity = {}
    /\ ns = [k \in Stacks |-> NoNamespace]
    /\ release = [k \in Stacks |-> "none"]
    /\ grafana = FALSE

Init ==
    /\ NoCluster
    /\ command = [s \in Shells |-> NoCommand]
    /\ temps = [s \in Shells |-> {}]
    /\ told = "nothing"
    /\ begun = 0 /\ faults = 0 /\ killed = [s \in Shells |-> 0]

-----------------------------------------------------------------------------
(***************************************************************************)
(* Kubernetes and its users.                                               *)
(***************************************************************************)

\* Namespace k is written: an object of it that was read earlier is out of date.
Outdated(k, cmds) ==
    [s \in Shells |-> IF cmds[s].stack = k THEN [cmds[s] EXCEPT !.current = FALSE]
                      ELSE cmds[s]]

\* kubectl create namespace, before or after sims is run, not meanwhile
UserNamespace(k) ==
    /\ exists /\ ns[k].phase = "none"
    /\ \A s \in Shells : command[s].pc = "idle"
    /\ ns' = [ns EXCEPT ![k] = [phase |-> "active", labels |-> FALSE]]
    /\ command' = Outdated(k, command)
    /\ UNCHANGED <<nodes, exists, capacity, release, grafana, shellVars, faults>>

\* The last resources of a namespace are gone, and so is it.
NamespaceGone(k) ==
    /\ ns[k].phase = "terminating" /\ release[k] = "none"
    /\ ns' = [ns EXCEPT ![k] = NoNamespace]
    /\ command' = Outdated(k, command)
    /\ UNCHANGED <<nodes, exists, capacity, release, grafana, shellVars, faults>>

\* The release record is one of them.
ReleasePurged(k) ==
    /\ ns[k].phase = "terminating" /\ release[k] # "none"
    /\ release' = [release EXCEPT ![k] = "none"]
    /\ grafana' = (grafana /\ k # "mon")
    /\ UNCHANGED <<nodes, exists, capacity, ns, command, shellVars, faults>>

\* A device plugin has registered.
NodeReports(n) ==
    /\ release["gpu"] = "deployed"
    /\ n \in nodes \ capacity
    /\ capacity' = capacity \cup {n}
    /\ UNCHANGED <<nodes, exists, ns, release, grafana, command, shellVars, faults>>

GrafanaAvailable ==
    /\ release["mon"] = "deployed" /\ ~grafana
    /\ grafana' = TRUE
    /\ UNCHANGED <<nodes, exists, capacity, ns, release, command, shellVars, faults>>

-----------------------------------------------------------------------------
(***************************************************************************)
(* Commands: how they begin and end.                                       *)
(***************************************************************************)

\* create checks nothing beforehand; the others resolve the cluster's name (a
\* delete that finds none is done).
Begin(s, op) ==
    /\ command[s].pc = "idle"
    /\ op = "create" \/ exists
    /\ begun < MaxCommands
    /\ begun' = begun + 1
    /\ told' = IF \A t \in Shells : command[t].pc = "idle" THEN "nothing" ELSE "disturbed"
    /\ \E m \in BOOLEAN :
          /\ m => op = "create"
          /\ command' = [command EXCEPT ![s] =
                [NoCommand EXCEPT
                    !.op = op, !.monitoring = m,
                    !.stack = IF op \in {"enable", "disable"} THEN "mon" ELSE "gpu",
                    !.pc = CASE op = "create" -> "kind"
                             [] op = "enable" -> "get"
                             [] OTHER -> "client"]]
    /\ UNCHANGED <<clusterVars, temps, faults, killed>>

Goto(s, pc) == command' = [command EXCEPT ![s].pc = pc]

\* Mutant: create forgets to close its Helm client.
Close_LeavesClient(s) == temps' = [temps EXCEPT ![s] = @ \ {"mon"}]

\* The deferred Close calls remove the kubeconfig files.
Close(s) == temps' = [temps EXCEPT ![s] = {}]

Return(s) ==
    /\ command' = [command EXCEPT ![s] = NoCommand]
    /\ Close(s)
    /\ UNCHANGED <<begun, killed>>

\* The last line of output, of a command that has run alone.
Says(word) == told' = IF told = "disturbed" THEN told ELSE word

\* Mutant: the message is made after the command has been reset.
Succeed_Late(s) == Return(s) /\ Says(command'[s].op)

Succeed(s) ==
    /\ Return(s)
    /\ Says(IF command[s].monitoring THEN "create with monitoring" ELSE command[s].op)
Error(s)   == Return(s) /\ Says("nothing")

At(s, pc) == command[s].pc = pc

Stack(s) == command[s].stack

Fault == faults < MaxFaults /\ faults' = faults + 1

\* sims handles no signals: a killed command does not even return.
Kill(s) ==
    /\ ~At(s, "idle")
    /\ killed[s] < MaxKills
    /\ killed' = [killed EXCEPT ![s] = @ + 1]
    /\ command' = [command EXCEPT ![s] = NoCommand]
    /\ UNCHANGED <<clusterVars, temps, told, begun, faults>>

-----------------------------------------------------------------------------
(***************************************************************************)
(* The calls.                                                              *)
(***************************************************************************)

\* provider.Create, then provider.KubeConfig
KindCreate(s) ==
    /\ At(s, "kind") /\ ~exists
    /\ nodes' = 1..WorkerCount /\ exists' = TRUE
    /\ Goto(s, "get")
    /\ UNCHANGED <<capacity, ns, release, grafana, shellVars, faults>>

\* A cluster of that name exists; or the cluster that a command has been working
\* on has been deleted.
NotThere(s) ==
    /\ \/ At(s, "kind") /\ exists
       \/ At(s, "lost")
    /\ Error(s)
    /\ UNCHANGED <<clusterVars, faults>>

\* Mutant: a namespace that is there is taken as it is.
Checked_AsItIs(k) == "client"

\* What follows when the namespace is there: without a difference in the labels
\* nothing more has to be done to it.
Checked(k) == IF ns[k].labels THEN "client" ELSE "label"

\* ensureNamespace: Get
GetNamespace(s) ==
    /\ At(s, "get")
    /\ command' = [command EXCEPT
          ![s].pc = IF ns[Stack(s)].phase = "none" THEN "namespace"
                    ELSE Checked(Stack(s)),
          ![s].current = TRUE]
    /\ UNCHANGED <<clusterVars, shellVars, faults>>

\* Namespace k becomes obj, and s goes on with a Helm client.
Ensured(s, k, obj) ==
    /\ ns' = [ns EXCEPT ![k] = obj]
    /\ command' = Outdated(k, [command EXCEPT ![s].pc = "client"])

\* ensureNamespace: Create with the labels; who loses the race reads again.
CreateNamespace(s) ==
    /\ At(s, "namespace")
    /\ IF ns[Stack(s)].phase = "none"
       THEN Ensured(s, Stack(s), [phase |-> "active", labels |-> TRUE])
       ELSE Goto(s, "get again") /\ UNCHANGED ns
    /\ UNCHANGED <<nodes, exists, capacity, release, grafana, shellVars, faults>>

\* ensureNamespace: the second Get
GetAgain(s) ==
    /\ At(s, "get again")
    /\ IF ns[Stack(s)].phase = "none" THEN Error(s)
       ELSE /\ command' = [command EXCEPT ![s].pc = Checked(Stack(s)),
                                          ![s].current = TRUE]
            /\ UNCHANGED shellVars
    /\ UNCHANGED <<clusterVars, faults>>

\* ensureNamespace: Update of the object that was read, labels overwritten.
LabelNamespace(s) ==
    /\ At(s, "label")
    /\ IF command[s].current
       THEN /\ Ensured(s, Stack(s), [ns[Stack(s)] EXCEPT !.labels = TRUE])
            /\ UNCHANGED shellVars
       ELSE Error(s) /\ UNCHANGED ns
    /\ UNCHANGED <<nodes, exists, capacity, release, grafana, faults>>

\* helm.New writes the kubeconfig to a file.
NewClient(s) ==
    /\ At(s, "client")
    /\ temps' = [temps EXCEPT ![s] = @ \cup {Stack(s)}]
    /\ Goto(s, IF command[s].op \in {"disable", "delete"} THEN "uninstall" ELSE "install")
    /\ UNCHANGED <<clusterVars, told, begun, killed, faults>>

\* Helm refuses a name in use, whatever the status of that release, and cannot
\* store a record in a namespace that is going or gone.
InstallRefused(s) ==
    /\ At(s, "install")
    /\ release[Stack(s)] # "none" \/ ns[Stack(s)].phase # "active"
    /\ Error(s)
    /\ UNCHANGED <<clusterVars, faults>>

InstallBegins(s) ==
    /\ At(s, "install")
    /\ release[Stack(s)] = "none" /\ ns[Stack(s)].phase = "active"
    /\ release' = [release EXCEPT ![Stack(s)] = "pending"]
    /\ Goto(s, "installing")
    /\ UNCHANGED <<nodes, exists, capacity, ns, grafana, shellVars, faults>>

\* The resources are created (Helm does not wait for them).
InstallEnds(s) ==
    /\ At(s, "installing")
    /\ IF release[Stack(s)] = "pending" /\ ns[Stack(s)].phase = "active"
       THEN /\ release' = [release EXCEPT ![Stack(s)] = "deployed"]
            /\ Goto(s, "wait")
            /\ UNCHANGED shellVars
       ELSE Error(s) /\ UNCHANGED release
    /\ UNCHANGED <<nodes, exists, capacity, ns, grafana, faults>>

\* A resource cannot be created: Helm marks the release as failed.
InstallFails(s) ==
    /\ Fault
    /\ At(s, "installing") /\ release[Stack(s)] = "pending"
    /\ release' = [release EXCEPT ![Stack(s)] = "failed"]
    /\ Error(s)
    /\ UNCHANGED <<nodes, exists, capacity, ns, grafana>>

\* Mutant: one node that reports is enough.
Awaited_AnyNode(s) ==
    IF Stack(s) = "gpu" THEN capacity # {} ELSE grafana

\* WaitForResourceCapacity and WaitForDeploymentAvailable
Awaited(s) ==
    IF Stack(s) = "gpu" THEN Cardinality(capacity) >= Workers ELSE grafana

\* The poll succeeds: monitoring comes next, or success.
WaitEnds(s) ==
    /\ At(s, "wait")
    /\ Awaited(s)
    /\ IF Stack(s) = "gpu" /\ command[s].monitoring
       THEN /\ command' = [command EXCEPT ![s].stack = "mon", ![s].pc = "get"]
            /\ UNCHANGED shellVars
       ELSE Succeed(s)
    /\ UNCHANGED <<clusterVars, faults>>

\* The window of 2 or 4 minutes is over.
WaitTimesOut(s) ==
    /\ At(s, "wait")
    /\ ~Awaited(s)
    /\ Error(s)
    /\ UNCHANGED <<clusterVars, faults>>

\* After an Uninstall, whether it worked or not: delete goes on with the next
\* release (and closes its client), disable with the namespace.
AfterUninstall(s) ==
    IF command[s].op = "disable"
    THEN Goto(s, "namespace delete") /\ UNCHANGED shellVars
    ELSE /\ temps' = [temps EXCEPT ![s] = @ \ {Stack(s)}]
         /\ command' = [command EXCEPT
               ![s].stack = "mon",
               ![s].pc = IF Stack(s) = "gpu" THEN "client" ELSE "kind delete"]
         /\ UNCHANGED <<told, begun, killed>>

Uninstall(s) ==
    /\ At(s, "uninstall")
    /\ release' = [release EXCEPT ![Stack(s)] = "none"]
    /\ grafana' = (grafana /\ Stack(s) # "mon")
    /\ AfterUninstall(s)
    /\ UNCHANGED <<nodes, exists, capacity, ns, faults>>

\* The error is logged; so is, in delete, that of helm.New.
UninstallFails(s) ==
    /\ Fault
    /\ \/ At(s, "uninstall")
       \/ At(s, "client") /\ command[s].op = "delete"
    /\ AfterUninstall(s)
    /\ UNCHANGED clusterVars

\* deleteNamespace does not wait; NotFound is success.
DeleteNamespace(s) ==
    /\ At(s, "namespace delete")
    /\ LET k == Stack(s)
       IN  /\ ns' = IF ns[k].phase = "active"
                    THEN [ns EXCEPT ![k].phase = "terminating"] ELSE ns
           /\ command' = Outdated(k, [command EXCEPT ![s] = NoCommand])
    /\ Close(s)
    /\ Says("disable")
    /\ UNCHANGED <<nodes, exists, capacity, release, grafana, begun, killed, faults>>

\* provider.Delete: the calls of other commands find no API server from now on.
KindDelete(s) ==
    /\ At(s, "kind delete")
    /\ nodes' = {} /\ exists' = FALSE /\ capacity' = {}
    /\ ns' = [k \in Stacks |-> NoNamespace]
    /\ release' = [k \in Stacks |-> "none"]
    /\ grafana' = FALSE
    /\ command' = [t \in Shells |->
          IF t = s THEN NoCommand
          ELSE IF command[t].pc \in {"idle", "kind", "kind delete"} THEN command[t]
          ELSE [command[t] EXCEPT
                   !.pc = IF command[t].op = "delete" THEN "kind delete" ELSE "lost"]]
    /\ Close(s)
    /\ Says("delete")
    /\ UNCHANGED <<begun, killed, faults>>

\* Any other call fails, and with it the command.
CallFails(s) ==
    /\ Fault
    /\ command[s].pc \in {"kind", "get", "namespace", "get again", "label", "client",
                          "install", "wait", "namespace delete", "kind delete"}
    /\ At(s, "client") => command[s].op # "delete"
    /\ Error(s)
    /\ UNCHANGED clusterVars

Step(s) ==
    \/ KindCreate(s) \/ NotThere(s)
    \/ GetNamespace(s) \/ CreateNamespace(s) \/ GetAgain(s) \/ LabelNamespace(s)
    \/ NewClient(s) \/ InstallRefused(s) \/ InstallBegins(s) \/ InstallEnds(s)
    \/ InstallFails(s) \/ WaitEnds(s) \/ WaitTimesOut(s)
    \/ Uninstall(s) \/ UninstallFails(s) \/ DeleteNamespace(s) \/ KindDelete(s)
    \/ CallFails(s)

KubernetesNext ==
    \/ \E k \in Stacks : UserNamespace(k) \/ NamespaceGone(k) \/ ReleasePurged(k)
    \/ \E n \in nodes : NodeReports(n)
    \/ GrafanaAvailable

Next ==
    \/ KubernetesNext
    \/ \E s \in Shells, op \in {"create", "enable", "disable", "delete"} : Begin(s, op)
    \/ \E s \in Shells : Step(s) \/ Kill(s)

Spec == Init /\ [][Next]_vars

-----------------------------------------------------------------------------
(***************************************************************************)
(* Properties.                                                             *)
(***************************************************************************)

\* What a command says when it succeeds is so if no other has run meanwhile,
\* whatever earlier commands left half done: create has made a cluster whose
\* nodes all report GPUs, enable has installed monitoring and seen Grafana, and
\* create --monitoring both (when the GPU stack is late monitoring is left out,
\* but never with a message of success), disable has left nothing that will
\* stay, delete has left nothing.
SuccessIsTrue ==
    /\ told \in {"create", "create with monitoring"} =>
           /\ exists /\ capacity = nodes
           /\ release["gpu"] = "deployed"
    /\ told \in {"enable", "create with monitoring"} =>
           release["mon"] = "deployed" /\ ns["mon"].phase = "active" /\ grafana
    /\ told = "disable" => release["mon"] = "none" \/ ns["mon"].phase = "terminating"
    /\ told = "delete" => ~exists

\* Pod Security Admission needs the labels before any pod is created: nothing is
\* installed into a namespace without them, although users may have created the
\* namespace and commands run at the same time, one creating it, one deleting it.
LabelledBeforeInstall ==
    \A k \in Stacks : release[k] # "none" => ns[k].labels

\* A command that ends leaves no kubeconfig file, on any path.  (A killed one
\* does.)
NoKubeconfigLeft ==
    \A s \in Shells : At(s, "idle") /\ killed[s] = 0 => temps[s] = {}

(***************************************************************************)
(* What messages and documents say and the code does not do.               *)
(***************************************************************************)

\* docs/architecture.md: "Failures in one stack don't block the other."  A create
\* with --monitoring does not end in the GPU stack.
StacksAreIndependent ==
    [][\A s \in Shells :
          (/\ command[s].monitoring /\ Stack(s) = "gpu" /\ ~At(s, "kind")
           /\ killed' = killed)
              => ~At(s, "idle")']_vars
=============================================================================
