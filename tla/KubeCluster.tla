----------------------------- MODULE KubeCluster -----------------------------
(***************************************************************************)
(* The part of Kubernetes the fake AMD operator runs against: pod objects  *)
(* at the API server and each kubelet's device manager.  None of it is     *)
(* under src/; it is modelled from how the operator's code uses it: Get,   *)
(* List and Patch of pods by namespace/name, and the PodResources List of  *)
(* the node's kubelet.                                                     *)
(*                                                                         *)
(* A namespace/name pair is one natural number, so that the order in which *)
(* the API server lists pods is <.  A name may be created again after its  *)
(* pod was deleted (StatefulSets and bare pods do this): uid tells the     *)
(* incarnations apart, and the operator's code never looks at it.          *)
(***************************************************************************)
EXTENDS Naturals, FiniteSets

CONSTANTS
    Names,      \* namespace/name pairs, as ranks in list order
    Nodes,      \* worker nodes
    Gpus,       \* device IDs the device plugin of every node advertises
    Utils,      \* values of the sims.io/simulated-gpu-utilization annotation
    MaxUid,     \* bound: incarnations of one name
    MaxFaults,  \* bound: failed API calls of a behaviour
    MaxCrashes  \* bound: process restarts and ConfigMap deletions of a behaviour

ASSUME NamesAssumption  == Names \subseteq Nat \ {0}
ASSUME BoundsAssumption == {MaxUid, MaxFaults, MaxCrashes} \subseteq Nat

NoNode == "unscheduled"
NoUtil == "unset"       \* the pod has no utilization annotation

ASSUME NodesAssumption == NoNode \notin Nodes
ASSUME UtilsAssumption == NoUtil \in Utils

VARIABLES
    pods,       \* pods[n]: the pod object called n
    held,       \* device allocations in the kubelets' checkpoints
    granted,    \* every allocation ever made (history, read by properties only)
    faults,     \* failed API calls so far
    crashes     \* restarts and ConfigMap deletions so far

budgets     == <<faults, crashes>>
clusterVars == <<pods, held, granted, budgets>>

Phases == {"Absent", "Pending", "Running", "Finished"}

\* uid of an absent name is that of its last incarnation; ann = {} means that
\* the pod has no sims.io/assigned-gpus annotation.
Pod == [uid: 0..MaxUid, phase: Phases, node: Nodes \cup {NoNode},
        ann: SUBSET Gpus, util: Utils]

Allocation == [node: Nodes, gpu: Gpus, pod: Names, uid: 0..MaxUid]

ClusterTypeOK ==
    /\ pods \in [Names -> Pod]
    /\ held \subseteq Allocation
    /\ granted \subseteq Allocation
    /\ faults \in 0..MaxFaults
    /\ crashes \in 0..MaxCrashes

ClusterInit ==
    /\ pods = [n \in Names |-> [uid |-> 0, phase |-> "Absent", node |-> NoNode,
                                ann |-> {}, util |-> NoUtil]]
    /\ held = {}
    /\ granted = {}
    /\ faults = 0
    /\ crashes = 0

Exists(n) == pods[n].phase # "Absent"
Active(n) == pods[n].phase \in {"Pending", "Running"}

\* The devices a kubelet has checkpointed for the current pod called n.
DevicesOf(n) == {a.gpu : a \in {h \in held : h.pod = n /\ h.uid = pods[n].uid}}

CreatePod(n) ==
    /\ ~Exists(n)
    /\ pods[n].uid < MaxUid
    /\ \E u \in Utils :
          pods' = [pods EXCEPT ![n] = [uid |-> pods[n].uid + 1,
                                       phase |-> "Pending", node |-> NoNode,
                                       ann |-> {}, util |-> u]]
    /\ UNCHANGED <<held, granted, budgets>>

\* The scheduler binds the pod to node k and k's kubelet admits it, taking
\* free devices devs for it (none when the pod requests no GPU).
Bind(n, k, devs) ==
    /\ pods[n].phase = "Pending"
    /\ \A h \in held : h.node = k => h.gpu \notin devs
    /\ LET new == {[node |-> k, gpu |-> g, pod |-> n, uid |-> pods[n].uid] :
                      g \in devs}
       IN  /\ held' = held \cup new
           /\ granted' = granted \cup new
    /\ pods' = [pods EXCEPT ![n].phase = "Running", ![n].node = k]
    /\ UNCHANGED budgets

\* The pod's containers end (Succeeded or Failed); the object stays.
FinishPod(n) ==
    /\ pods[n].phase = "Running"
    /\ pods' = [pods EXCEPT ![n].phase = "Finished"]
    /\ UNCHANGED <<held, granted, budgets>>

DeletePod(n) ==
    /\ Exists(n)
    /\ pods' = [pods EXCEPT ![n].phase = "Absent", ![n].node = NoNode,
                            ![n].ann = {}, ![n].util = NoUtil]
    /\ UNCHANGED <<held, granted, budgets>>

\* A kubelet drops the devices of a pod that is no longer active, all at once.
Release(n, u) ==
    /\ \E h \in held : h.pod = n /\ h.uid = u
    /\ pods[n].uid # u \/ ~Active(n)
    /\ held' = {h \in held : h.pod # n \/ h.uid # u}
    /\ UNCHANGED <<pods, granted, budgets>>

\* kubectl annotate --overwrite pod n sims.io/simulated-gpu-utilization=u
SetUtil(n, u) ==
    /\ Exists(n)
    /\ pods[n].util # u
    /\ pods' = [pods EXCEPT ![n].util = u]
    /\ UNCHANGED <<held, granted, budgets>>

ClusterNext ==
    \/ \E n \in Names : CreatePod(n)
    \/ \E n \in Names, k \in Nodes, devs \in SUBSET Gpus : Bind(n, k, devs)
    \/ \E n \in Names : FinishPod(n)
    \/ \E n \in Names : DeletePod(n)
    \/ \E n \in Names, u \in 1..MaxUid : Release(n, u)
    \/ \E n \in Names, u \in Utils : SetUtil(n, u)

\* An API call of a component fails.
Fault ==
    /\ faults < MaxFaults
    /\ faults' = faults + 1
    /\ UNCHANGED <<pods, held, granted, crashes>>

\* A component's process restarts, or its ConfigMap is deleted.
Crash ==
    /\ crashes < MaxCrashes
    /\ crashes' = crashes + 1
    /\ UNCHANGED <<pods, held, granted, faults>>
=============================================================================
