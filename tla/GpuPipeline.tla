----------------------------- MODULE GpuPipeline -----------------------------
(***************************************************************************)
(* The AMD data flow from a device allocation to a metric label: kubelet,  *)
(* annotator, status-updater and metrics-exporter run concurrently, each   *)
(* on its own 5 s ticker, and share the pod objects and the ConfigMap.     *)
(***************************************************************************)
EXTENDS PodAnnotator, StatusUpdater, ExporterCache

vars == <<clusterVars, annotator, cm, updater, refresh, cache>>

TypeOK ==
    /\ ClusterTypeOK
    /\ AnnotatorTypeOK
    /\ TopologyTypeOK
    /\ UpdaterTypeOK
    /\ ExporterTypeOK

Init ==
    /\ ClusterInit
    /\ AnnotatorInit
    /\ TopologyInit
    /\ UpdaterInit
    /\ ExporterInit

ClusterActions ==
    /\ ClusterNext
    /\ UNCHANGED <<annotator, cm, updater, refresh, cache>>

CMActions ==
    /\ DeleteCM
    /\ UNCHANGED <<annotator, updater, refresh, cache>>

AnnotatorActions ==
    /\ AnnotatorNext
    /\ UNCHANGED <<cm, updater, refresh, cache>>

UpdaterActions ==
    /\ UpdaterNext
    /\ UNCHANGED <<annotator, refresh, cache>>

ExporterActions ==
    /\ ExporterNext
    /\ UNCHANGED <<annotator, updater>>

Next ==
    \/ ClusterActions
    \/ CMActions
    \/ AnnotatorActions
    \/ UpdaterActions
    \/ ExporterActions

Spec == Init /\ [][Next]_vars

-----------------------------------------------------------------------------
(***************************************************************************)
(* Fairness.  Every component runs a ticker whose reconcile consists of    *)
(* calls that return; the kubelet reclaims devices at its next admission   *)
(* or listing.  Users, the scheduler and faults get no fairness.           *)
(***************************************************************************)
AnnotatorTick(k) ==
    AnnotatorStep(k) /\ UNCHANGED <<cm, updater, refresh, cache>>

UpdaterTick == UpdaterStep /\ UNCHANGED <<annotator, refresh, cache>>

RefreshTick(k) == RefreshStep(k) /\ UNCHANGED <<annotator, updater>>

Reclaim(n, u) ==
    Release(n, u) /\ UNCHANGED <<annotator, cm, updater, refresh, cache>>

FairSpec ==
    /\ Spec
    /\ \A k \in Nodes : WF_vars(AnnotatorTick(k)) /\ WF_vars(RefreshTick(k))
    /\ WF_vars(UpdaterTick)
    /\ \A n \in Names, u \in 1..MaxUid : WF_vars(Reclaim(n, u))

\* A finished pod is deleted some time later: a Job's ttlSecondsAfterFinished,
\* the pod garbage collector or the user.
Reap(n) ==
    /\ pods[n].phase = "Finished"
    /\ DeletePod(n)
    /\ UNCHANGED <<annotator, cm, updater, refresh, cache>>

ReapedFairSpec == FairSpec /\ \A n \in Names : WF_vars(Reap(n))

-----------------------------------------------------------------------------
(***************************************************************************)
(* Safety for every use of names.                                          *)
(***************************************************************************)

Granted(n, g) == \E a \in granted : a.pod = n /\ a.gpu = g

\* Attribution is never invented: although the annotator, the status-updater
\* and the exporters each work from a copy that is stale by the time they use
\* it, and address pods by name, a GPU that an annotation, the ConfigMap or a
\* scrape gives to a pod was allocated to a pod of that name.
AttributionNotInvented ==
    /\ \A n \in Names : \A g \in pods[n].ann : Granted(n, g)
    /\ \A a \in cm.body : Granted(a.pod, a.gpu)
    /\ \A k \in Nodes, g \in Gpus :
          ScrapedPod(k, g) # NoPod => Granted(ScrapedPod(k, g), g)

\* A worldState is never torn: the ranges a scrape reads belong to pods of the
\* very topology it reads, though the two come from different API calls
\* (cache.Refresh publishes both under one lock).
WorldStateCoherent ==
    \A k \in Nodes : \A n \in Names :
        cache[k].ranges[n] # NoRange => n \in AssignedOn(cache[k].top, k)

(***************************************************************************)
(* Safety when no name is used twice (MaxUid = 1): pods of Deployments and *)
(* Jobs, whose names are generated.                                        *)
(***************************************************************************)

Charged(top, n) == {a.gpu : a \in {b \in top : b.pod = n}}

\* A pod's GPUs are charged to it together or not at all, in the annotation,
\* in the ConfigMap and in every exporter: no copy holds half an allocation.
AllOrNothing ==
    \A n \in Names : pods[n].phase = "Running" =>
        /\ pods[n].ann \in {{}, DevicesOf(n)}
        /\ Charged(cm.body, n) \in {{}, DevicesOf(n)}
        /\ \A k \in Nodes : Charged(cache[k].top, n) \in {{}, DevicesOf(n)}

\* A running pod is charged only for GPUs it holds, on the node that holds
\* them; so no running pod is ever charged for another running pod's GPU,
\* though its own may still be shown under the pod that had it before.
RunningPodChargedForItsOwn ==
    \A k \in Nodes, g \in Gpus :
        LET n == ScrapedPod(k, g)
        IN  n # NoPod /\ pods[n].phase = "Running" =>
                [node |-> k, gpu |-> g, pod |-> n, uid |-> pods[n].uid] \in held

\* Without restarts and ConfigMap deletions (MaxCrashes = 0) an assignment,
\* once saved or published, stays until its pod is deleted: no failed call and
\* no stale List makes the GPU of a pod that is still there go idle.
AttributionSticks ==
    [][/\ \A a \in cm.body \ cm'.body : ~Exists(a.pod)
       /\ \A k \in Nodes : \A a \in cache[k].top \ cache[k]'.top :
             ~Exists(a.pod)]_vars

\* The pipeline implements the abstract promise.
Abstract == INSTANCE GpuAttribution WITH
    owned <- {<<a.node, a.gpu, a.pod>> : a \in granted},
    shown <- [k \in Nodes |-> [g \in Gpus |-> ScrapedPod(k, g)]]

ImplementsAttribution == Abstract!Spec

-----------------------------------------------------------------------------
(***************************************************************************)
(* Liveness.                                                               *)
(***************************************************************************)

Holds(n, k, g) ==
    /\ pods[n].phase = "Running"
    /\ [node |-> k, gpu |-> g, pod |-> n, uid |-> pods[n].uid] \in held

\* A running pod's GPUs end up under its name in the metrics of its node.
EventuallyCharged ==
    \A n \in Names, k \in Nodes, g \in Gpus :
        Holds(n, k, g) ~> (~Holds(n, k, g) \/ ScrapedPod(k, g) = n)

\* A GPU no running pod holds ends up idle, unless it is allocated again.
EventuallyIdle ==
    \A k \in Nodes, g \in Gpus :
        (\A n \in Names : ~Holds(n, k, g)) ~>
            (ScrapedPod(k, g) = NoPod \/ \E n \in Names : Holds(n, k, g))

\* The utilization of a running pod's GPU ends up drawn from the range that
\* its annotation, or else the default, prescribes.
EventuallyInRange ==
    \A n \in Names, k \in Nodes, g \in Gpus, u \in Utils :
        (Holds(n, k, g) /\ pods[n].util = u) ~>
            \/ ~Holds(n, k, g)
            \/ pods[n].util # u
            \/ ScrapedRange(k, g) = ParseUtilizationWithDefault(u)

-----------------------------------------------------------------------------
(***************************************************************************)
(* What the code's comments say and the code does not do.                  *)
(***************************************************************************)

\* annotate.go: "reconciles pod annotations with kubelet's authoritative
\* pod <-> device mapping".  Pods without devices are not in the listing, so a
\* patch that reaches the next pod of the same name is never taken back.
AnnotationFollowsKubelet ==
    \A n \in Names :
        (pods[n].phase = "Running" /\ pods[n].ann # DevicesOf(n)) ~>
            (pods[n].phase # "Running" \/ pods[n].ann = DevicesOf(n))

\* cache.go: "the cache keeps serving the last good state so a transient
\* apiserver hiccup doesn't blank /metrics".  A pod that is still there and
\* still assigned should keep having a range when a Get fails (MaxCrashes = 0).
HiccupKeepsRange ==
    [][\A k \in Nodes, n \in Names :
          /\ cache[k].ranges[n] # NoRange
          /\ Exists(n)
          /\ n \in AssignedOn(cache[k]'.top, k)
          => cache[k]'.ranges[n] # NoRange]_vars
=============================================================================
