--------------------------- MODULE GpuAttribution ---------------------------
(***************************************************************************)
(* What the metrics pipeline promises to somebody who reads /metrics,      *)
(* whatever goes on inside it: a GPU is reported idle, or under a pod to   *)
(* which the kubelet of that very node has allocated that very GPU; and a  *)
(* node's GPUs change together, one published state after another.         *)
(***************************************************************************)
CONSTANTS Names, Nodes, Gpus, NoPod

VARIABLES
    owned,      \* <<k, g, n>>: node k's kubelet has given GPU g to pod n
    shown       \* shown[k][g]: the pod under which node k reports g

vars == <<owned, shown>>

Init ==
    /\ owned = {}
    /\ shown = [k \in Nodes |-> [g \in Gpus |-> NoPod]]

\* A kubelet admits a pod.
Allocate ==
    /\ \E k \in Nodes, n \in Names, devs \in SUBSET Gpus :
          owned' = owned \cup {<<k, g, n>> : g \in devs}
    /\ UNCHANGED shown

\* The exporter of node k publishes another state, or restarts with none.
Publish(k) ==
    /\ \E s \in [Gpus -> Names \cup {NoPod}] :
          /\ \A g \in Gpus : s[g] = NoPod \/ <<k, g, s[g]>> \in owned
          /\ shown' = [shown EXCEPT ![k] = s]
    /\ UNCHANGED owned

Next == Allocate \/ \E k \in Nodes : Publish(k)

Spec == Init /\ [][Next]_vars
=============================================================================
