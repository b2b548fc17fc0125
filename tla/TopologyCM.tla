----------------------------- MODULE TopologyCM -----------------------------
(***************************************************************************)
(* pkg/topology/configmap.go: the "topology" ConfigMap through which the   *)
(* status-updater tells every metrics-exporter which pod has which GPU.    *)
(*                                                                         *)
(* A topology is the set of its assignments.  The status-updater appends   *)
(* them in the order in which the API server lists pods, so the first      *)
(* assignment of a GPU in a node's slice is that of the least name.        *)
(***************************************************************************)
EXTENDS KubeCluster

VARIABLE cm     \* the ConfigMap: whether it exists, and its topology.yaml

Assignment == [node: Nodes, gpu: Gpus, pod: Names]

TopologyTypeOK == cm \in [exists: BOOLEAN, body: SUBSET Assignment]

NoCM == [exists |-> FALSE, body |-> {}]

TopologyInit == cm = NoCM

NoPod == 0

\* Load treats a missing ConfigMap, or an empty body, as an empty topology.
Load == IF cm.exists THEN cm.body ELSE {}

\* Mutant: the GPU is not looked at.
FindAssignment_AnyGpu(top, k, g) ==
    LET found == {a \in top : a.node = k}
        first == {a \in found : \A b \in found : a.pod <= b.pod}
    IN  IF first = {} THEN NoPod ELSE (CHOOSE a \in first : TRUE).pod

\* The pod of the first assignment of gpu g on node k, NoPod if g is idle.
FindAssignment(top, k, g) ==
    LET found == {a \in top : a.node = k /\ a.gpu = g}
        first == {a \in found : \A b \in found : a.pod <= b.pod}
    IN  IF first = {} THEN NoPod ELSE (CHOOSE a \in first : TRUE).pod

\* Somebody deletes the ConfigMap (kubectl, removal of the namespace).
DeleteCM ==
    /\ Crash
    /\ cm.exists
    /\ cm' = NoCM
=============================================================================
