---------------------------- MODULE PodAnnotator ----------------------------
(***************************************************************************)
(* pkg/deviceplugin/annotate.go: the PodResourcesAnnotator that runs in    *)
(* every device-plugin pod.  A reconcile lists the node's kubelet once and *)
(* then, pod by pod, Gets the pod and Patches its annotation when it       *)
(* differs.  Both calls address the pod by name.                           *)
(***************************************************************************)
EXTENDS KubeCluster

VARIABLE annotator  \* annotator[k]: the reconcile in progress on node k

\* What collectDevicesForResource yields for one pod of the listing: the
\* sorted, deduplicated device IDs, that is, a nonempty set.
Entry == [pod: Names, devs: SUBSET Gpus]

AnnotatorState ==
    [pc: {"idle", "get", "patch"}, work: SUBSET Entry, cur: SUBSET Entry]

AnnotatorTypeOK == annotator \in [Nodes -> AnnotatorState]

AnnotatorIdle == [pc |-> "idle", work |-> {}, cur |-> {}]

AnnotatorInit == annotator = [k \in Nodes |-> AnnotatorIdle]

\* Mutant: later devices overwrite earlier ones.
collectDevicesForResource_OnlyOne(k, n, u) ==
    LET all == {h.gpu : h \in {a \in held : a.node = k /\ a.pod = n /\ a.uid = u}}
    IN  IF all = {} THEN {} ELSE {CHOOSE g \in all : TRUE}

\* Mutant: the devices of every pod of the node are collected.
collectDevicesForResource_AnyPod(k, n, u) ==
    {h.gpu : h \in {a \in held : a.node = k}}

collectDevicesForResource(k, n, u) ==
    {h.gpu : h \in {a \in held : a.node = k /\ a.pod = n /\ a.uid = u}}

\* The PodResources response of node k, pods without devices skipped.
PodResources(k) ==
    {[pod |-> h.pod, devs |-> collectDevicesForResource(k, h.pod, h.uid)] :
        h \in {a \in held : a.node = k}}

\* The loop goes on with the entries that are left, or the reconcile ends.
Continue(work) ==
    IF work = {} THEN AnnotatorIdle
    ELSE [pc |-> "get", work |-> work, cur |-> {}]

AnnotatorList(k) ==
    /\ annotator[k].pc = "idle"
    /\ PodResources(k) # {}
    /\ annotator' = [annotator EXCEPT ![k] = Continue(PodResources(k))]
    /\ UNCHANGED clusterVars

\* Pods(namespace).Get: the pod is gone, or carries the value already, and
\* annotatePod returns; or the patch is sent next.
AnnotatorGet(k) ==
    /\ annotator[k].pc = "get"
    /\ \E e \in annotator[k].work :
          LET rest == annotator[k].work \ {e}
          IN  annotator' = [annotator EXCEPT ![k] =
                IF ~Exists(e.pod) \/ pods[e.pod].ann = e.devs
                THEN Continue(rest)
                ELSE [pc |-> "patch", work |-> rest, cur |-> {e}]]
    /\ UNCHANGED clusterVars

\* Pods(namespace).Patch by name: whatever pod has the name now is patched.
AnnotatorPatch(k) ==
    /\ annotator[k].pc = "patch"
    /\ \E e \in annotator[k].cur :
          pods' = IF Exists(e.pod)
                  THEN [pods EXCEPT ![e.pod].ann = e.devs] ELSE pods
    /\ annotator' = [annotator EXCEPT ![k] = Continue(annotator[k].work)]
    /\ UNCHANGED <<held, granted, budgets>>

\* Get or Patch fails: annotatePod's error is logged, the loop goes on.
AnnotatorFault(k) ==
    /\ Fault
    /\ \/ /\ annotator[k].pc = "get"
          /\ \E e \in annotator[k].work :
                annotator' = [annotator EXCEPT ![k] =
                                Continue(annotator[k].work \ {e})]
       \/ /\ annotator[k].pc = "patch"
          /\ annotator' = [annotator EXCEPT ![k] = Continue(annotator[k].work)]

\* The device-plugin pod is restarted in the middle of a reconcile.
AnnotatorCrash(k) ==
    /\ Crash
    /\ annotator[k].pc # "idle"
    /\ annotator' = [annotator EXCEPT ![k] = AnnotatorIdle]

\* What the process does when neither it nor its calls fail.
AnnotatorStep(k) == AnnotatorList(k) \/ AnnotatorGet(k) \/ AnnotatorPatch(k)

AnnotatorNext ==
    \E k \in Nodes : AnnotatorStep(k) \/ AnnotatorFault(k) \/ AnnotatorCrash(k)
=============================================================================
