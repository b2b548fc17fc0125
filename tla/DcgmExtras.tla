----------------------------- MODULE DcgmExtras -----------------------------
(***************************************************************************)
(* fake-dcgm-extras: on each node a cache of the pods that request         *)
(* nvidia.com/gpu, replaced by every Refresh and dealt out over the GPU    *)
(* slots by every scrape.                                                  *)
(*                                                                         *)
(* A Refresh is one List and one publication: nothing the exporter does    *)
(* depends on what happens between them, so they are one step.  When the   *)
(* List fails the cache is kept and nothing changes.                       *)
(***************************************************************************)
EXTENDS KubeCluster, Sequences

\* The API server lists finitely many pods, and a node has a number of slots.
ASSUME FiniteAssumption == IsFiniteSet(Names) /\ IsFiniteSet(Gpus)

VARIABLE assignments    \* assignments[k]: node k's list of nodeAssignment

dcgmVars == <<clusterVars, assignments>>

nodeAssignment == [pod: Names, util: Utils]

DcgmTypeOK ==
    /\ ClusterTypeOK
    /\ \A k \in Nodes : /\ assignments[k] \in Seq(nodeAssignment)
                        /\ Len(assignments[k]) <= Cardinality(Names)

DcgmInit ==
    /\ ClusterInit
    /\ assignments = [k \in Nodes |-> << >>]

\* firstGPUContainer finds a request: the pod was given devices when it was bound.
hasGPURequest(n) == \E a \in granted : a.pod = n /\ a.uid = pods[n].uid

\* The List's field selector spec.nodeName=hostname, whatever the pod's phase.
OnNode(n, k) == Exists(n) /\ pods[n].node = k

Consumers(k) == {n \in Names : OnNode(n, k) /\ hasGPURequest(n)}

\* The order of a List: the i-th name is the one with i - 1 before it.
Listed(S) == [i \in 1..Cardinality(S) |->
                CHOOSE n \in S : Cardinality({m \in S : m < n}) = i - 1]

Assigned(S) ==
    [i \in 1..Cardinality(S) |-> [pod |-> Listed(S)[i], util |-> pods[Listed(S)[i]].util]]

\* Mutant: an empty list is taken for a failed one.
Refresh_KeepsLast(k) ==
    /\ Consumers(k) # {}
    /\ assignments' = [assignments EXCEPT ![k] = Assigned(Consumers(k))]
    /\ UNCHANGED clusterVars

\* Mutant: the new list is appended to the old one.
Refresh_Appends(k) ==
    /\ Consumers(k) # {}
    /\ assignments' = [assignments EXCEPT ![k] = @ \o Assigned(Consumers(k))]
    /\ UNCHANGED clusterVars

\* cache.Refresh
Refresh(k) ==
    /\ assignments' = [assignments EXCEPT ![k] = Assigned(Consumers(k))]
    /\ UNCHANGED clusterVars

\* newCache
Restart(k) ==
    /\ Crash
    /\ assignments' = [assignments EXCEPT ![k] = << >>]

DcgmNext ==
    \/ ClusterNext /\ UNCHANGED assignments
    \/ \E k \in Nodes : Refresh(k) \/ Restart(k)

DcgmSpec == DcgmInit /\ [][DcgmNext]_dcgmVars

\* The Refresh ticker goes on; what users do need not happen.
DcgmFairSpec == DcgmSpec /\ \A k \in Nodes : WF_dcgmVars(Refresh(k))

-----------------------------------------------------------------------------
Slots == 1..Cardinality(Gpus)

\* Mutant: the last slot stays idle.
Dealt_OffByOne(k) == {i \in Slots : i < Len(assignments[k])}

\* buildSampler: slot i has assignments[i] if it exists, and is idle otherwise.
Dealt(k) == {i \in Slots : i <= Len(assignments[k])}

Labelled(k, n) == \E i \in Dealt(k) : assignments[k][i].pod = n

\* A series of k has n's name and is drawn from range u.
Reported(k, n, u) == \E i \in Dealt(k) : assignments[k][i] = [pod |-> n, util |-> u]

\* As long as the consumers of a node, finished ones included, are no more than
\* its slots, each gets a series with its name and the range it has settled on,
\* also when exporters restart and pods come and go.
EventuallyReported ==
    \A k \in Nodes, n \in Names, u \in Utils :
        <>[](/\ n \in Consumers(k) /\ pods[n].util = u
             /\ Cardinality(Consumers(k)) <= Cardinality(Gpus))
            => <>[]Reported(k, n, u)

\* A pod that is not on the node for good keeps no series there: the names of
\* deleted pods disappear, and no other node's pods appear.
EventuallyForgotten ==
    \A k \in Nodes, n \in Names :
        <>[](n \notin Consumers(k)) => <>[]~Labelled(k, n)

\* What a comment says and the code does not do.  The package's: "It walks pods
\* on this node that hold nvidia.com/gpu and translates each one's ...
\* annotation into per-GPU DCGM gauge values".  A pod that holds a GPU and runs
\* for good gets a series.
EveryHolderReported ==
    \A k \in Nodes, n \in Names, u \in Utils :
        <>[](/\ n \in Consumers(k) /\ pods[n].phase = "Running" /\ pods[n].util = u
             /\ \E h \in held : h.node = k /\ h.pod = n /\ h.uid = pods[n].uid)
            => <>[]Reported(k, n, u)
=============================================================================
