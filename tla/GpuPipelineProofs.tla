-------------------------- MODULE GpuPipelineProofs --------------------------
(***************************************************************************)
(* Proofs about GpuPipeline, for any sets of names, nodes, GPUs and ranges *)
(* and any bounds: first what holds of every behaviour, then what holds    *)
(* when no name is used twice (MaxUid = 1) and every copy of an            *)
(* attribution is exact, however stale.                                    *)
(***************************************************************************)
EXTENDS GpuPipeline, TLAPS

(***************************************************************************)
(* Type correctness.                                                       *)
(***************************************************************************)

\* Load, the updater's listing and the annotator's listing yield values of the
\* expected types, and ParseUtilizationWithDefault always yields a range.
LEMMA OperatorTypes ==
    ASSUME TypeOK
    PROVE  /\ Load \subseteq Assignment
           /\ TopologyOf(pods) \subseteq Assignment
           /\ \A k \in Nodes : PodResources(k) \subseteq Entry
           /\ \A u \in Utils : ParseUtilizationWithDefault(u) \in Ranges
           /\ EmptyState \in WorldState
           /\ \A k \in Nodes : AssignmentsOf(Load, k) \subseteq Assignment
<1> USE DEF TypeOK
<1>1. Load \subseteq Assignment
  BY DEF TopologyTypeOK, Load
<1>2. TopologyOf(pods) \subseteq Assignment
  BY DEF TopologyOf
<1>3. \A k \in Nodes : PodResources(k) \subseteq Entry
  BY DEF ClusterTypeOK, PodResources, collectDevicesForResource, Entry, Allocation
<1>4. \A u \in Utils : ParseUtilizationWithDefault(u) \in Ranges
  BY DEF ParseUtilizationWithDefault, Ranges
<1>5. EmptyState \in WorldState
  BY DEF EmptyState, WorldState, Ranges
<1>6. \A k \in Nodes : AssignmentsOf(Load, k) \subseteq Assignment
  BY <1>1 DEF AssignmentsOf
<1> QED BY <1>1, <1>2, <1>3, <1>4, <1>5, <1>6

\* Type correctness of every step, component by component.
LEMMA TypeStep == TypeOK /\ [Next]_vars => TypeOK'
<1> SUFFICES ASSUME TypeOK, [Next]_vars PROVE TypeOK'
  OBVIOUS
<1> USE DEF TypeOK, ClusterTypeOK, AnnotatorTypeOK, TopologyTypeOK,
            UpdaterTypeOK, ExporterTypeOK
<1>1. CASE ClusterActions
  <2>1. ASSUME NEW n \in Names, CreatePod(n) PROVE ClusterTypeOK'
    <3>1. pods[n].uid + 1 \in 0..MaxUid
      BY <2>1, BoundsAssumption DEF CreatePod, Pod
    <3> QED BY <2>1, <3>1 DEF CreatePod, Pod, Phases, budgets
  <2>2. ASSUME NEW n \in Names, NEW k \in Nodes, NEW devs \in SUBSET Gpus,
               Bind(n, k, devs)
        PROVE  ClusterTypeOK'
    <3> DEFINE new == {[node |-> k, gpu |-> g, pod |-> n, uid |-> pods[n].uid] :
                          g \in devs}
    <3>1. new \subseteq Allocation
      BY DEF Pod, Allocation
    <3>2. held' = held \cup new /\ granted' = granted \cup new
      BY <2>2 DEF Bind
    <3> DEFINE p == [pods[n] EXCEPT !.phase = "Running", !.node = k]
    <3>a. p \in Pod
      BY DEF Pod, Phases
    <3>b. pods' = [pods EXCEPT ![n] = p]
      BY <2>2 DEF Bind
    <3>3. pods' \in [Names -> Pod]
      <4> HIDE DEF p
      <4> QED BY <3>a, <3>b
    <3>4. UNCHANGED budgets
      BY <2>2 DEF Bind
    <3> HIDE DEF new
    <3> QED BY <3>1, <3>2, <3>3, <3>4 DEF budgets
  <2>3. ASSUME NEW n \in Names, FinishPod(n) PROVE ClusterTypeOK'
    BY <2>3 DEF FinishPod, Pod, Phases, budgets
  <2>4. ASSUME NEW n \in Names, DeletePod(n) PROVE ClusterTypeOK'
    <3>1. [pods[n] EXCEPT !.phase = "Absent", !.node = NoNode, !.ann = {},
                          !.util = NoUtil] \in Pod
      BY UtilsAssumption DEF Pod, Phases
    <3>2. pods' \in [Names -> Pod]
      BY <2>4, <3>1 DEF DeletePod
    <3> QED BY <2>4, <3>2 DEF DeletePod, budgets
  <2>5. ASSUME NEW n \in Names, NEW u \in 1..MaxUid, Release(n, u)
        PROVE  ClusterTypeOK'
    BY <2>5 DEF Release, budgets
  <2>6. ASSUME NEW n \in Names, NEW u \in Utils, SetUtil(n, u)
        PROVE  ClusterTypeOK'
    BY <2>6 DEF SetUtil, Pod, budgets
  <2>7. ClusterTypeOK'
    BY <1>1, <2>1, <2>2, <2>3, <2>4, <2>5, <2>6
    DEF ClusterActions, ClusterNext
  <2>8. UNCHANGED <<annotator, cm, updater, refresh, cache>>
    BY <1>1 DEF ClusterActions
  <2> HIDE DEF ClusterTypeOK
  <2> QED BY <2>7, <2>8
<1>2. CASE CMActions
  BY <1>2, BoundsAssumption DEF CMActions, DeleteCM, Crash, NoCM
<1>3. CASE AnnotatorActions
  <2> SUFFICES ASSUME NEW k \in Nodes,
                      AnnotatorStep(k) \/ AnnotatorFault(k) \/ AnnotatorCrash(k)
               PROVE  ClusterTypeOK' /\ AnnotatorTypeOK'
    BY <1>3 DEF AnnotatorActions, AnnotatorNext
  <2> DEFINE work == annotator[k].work
  <2>1. work \subseteq Entry /\ annotator[k].cur \subseteq Entry
    BY DEF AnnotatorState
  <2>2. \A w \in SUBSET Entry : Continue(w) \in AnnotatorState
    BY DEF Continue, AnnotatorIdle, AnnotatorState
  <2>3. CASE AnnotatorList(k)
    BY <2>2, <2>3, OperatorTypes DEF AnnotatorList, clusterVars, budgets
  <2>4. CASE AnnotatorGet(k)
    <3>1. PICK e \in work : annotator' = [annotator EXCEPT ![k] =
             IF ~Exists(e.pod) \/ pods[e.pod].ann = e.devs
             THEN Continue(work \ {e})
             ELSE [pc |-> "patch", work |-> work \ {e}, cur |-> {e}]]
      BY <2>4 DEF AnnotatorGet
    <3>2. annotator' \in [Nodes -> AnnotatorState]
      BY <2>1, <2>2, <3>1 DEF AnnotatorState
    <3> QED BY <2>4, <3>2 DEF AnnotatorGet, clusterVars, budgets
  <2>5. CASE AnnotatorPatch(k)
    <3>1. PICK e \in annotator[k].cur :
             pods' = IF Exists(e.pod)
                     THEN [pods EXCEPT ![e.pod].ann = e.devs] ELSE pods
      BY <2>5 DEF AnnotatorPatch
    <3>2. pods' \in [Names -> Pod]
      BY <2>1, <3>1 DEF Entry, Pod
    <3>3. annotator' \in [Nodes -> AnnotatorState]
      BY <2>1, <2>2, <2>5 DEF AnnotatorPatch
    <3> QED BY <2>5, <3>2, <3>3 DEF AnnotatorPatch, budgets
  <2>6. CASE AnnotatorFault(k)
    <3>1. \E w \in SUBSET Entry :
             annotator' = [annotator EXCEPT ![k] = Continue(w)]
      BY <2>1, <2>6 DEF AnnotatorFault
    <3>2. annotator' \in [Nodes -> AnnotatorState]
      BY <2>2, <3>1
    <3> QED BY <2>6, <3>2, BoundsAssumption DEF AnnotatorFault, Fault
  <2>7. CASE AnnotatorCrash(k)
    <3>1. annotator' \in [Nodes -> AnnotatorState]
      BY <2>7 DEF AnnotatorCrash, AnnotatorIdle, AnnotatorState
    <3> QED BY <2>7, <3>1, BoundsAssumption DEF AnnotatorCrash, Crash
  <2> QED BY <2>3, <2>4, <2>5, <2>6, <2>7 DEF AnnotatorStep
<1>4. CASE UpdaterActions
  <2>1. CASE UpdaterList
    BY <1>4, <2>1, OperatorTypes
    DEF UpdaterActions, UpdaterList, clusterVars, budgets
  <2>2. CASE UpdaterGet
    BY <1>4, <2>2 DEF UpdaterActions, UpdaterGet, UpdaterIdle, clusterVars, budgets
  <2>3. CASE UpdaterWrite
    BY <1>4, <2>3
    DEF UpdaterActions, UpdaterWrite, UpdaterIdle, clusterVars, budgets
  <2>4. CASE UpdaterFault
    BY <1>4, <2>4, BoundsAssumption
    DEF UpdaterActions, UpdaterFault, UpdaterIdle, Fault, Crash
  <2> QED BY <1>4, <2>1, <2>2, <2>3, <2>4
          DEF UpdaterActions, UpdaterNext, UpdaterStep
<1>5. CASE ExporterActions
  <2> SUFFICES ASSUME NEW k \in Nodes,
                      RefreshStep(k) \/ RefreshFault(k) \/ ExporterCrash(k)
               PROVE  ClusterTypeOK' /\ TopologyTypeOK' /\ ExporterTypeOK'
    BY <1>5 DEF ExporterActions, ExporterNext
  <2>1. CASE RefreshLoad(k)
    <3>1. [EmptyState EXCEPT !.top = Load] \in WorldState
      BY OperatorTypes DEF WorldState
    <3>2. refresh' \in [Nodes -> RefreshState]
      BY <2>1, <3>1, OperatorTypes DEF RefreshLoad, RefreshState
    <3> QED BY <2>1, <3>2 DEF RefreshLoad, clusterVars, budgets
  <2>2. CASE RefreshFetch(k)
    <3>1. PICK a \in refresh[k].todo : refresh' = [refresh EXCEPT
             ![k].todo = {b \in @ : b.pod # a.pod},
             ![k].state.ranges[a.pod] =
                 ParseUtilizationWithDefault(pods[a.pod].util)]
      BY <2>2 DEF RefreshFetch, NextAssignments
    <3> DEFINE n == a.pod
               r == ParseUtilizationWithDefault(pods[n].util)
               s == refresh[k].state
               t == {b \in refresh[k].todo : b.pod # n}
               v == [refresh[k] EXCEPT !.todo = t,
                                       !.state = [s EXCEPT !.ranges[n] = r]]
    <3>2. n \in Names
      BY DEF RefreshState, Assignment
    <3>3. r \in Ranges
      BY <3>2, OperatorTypes DEF Pod
    <3>4. [s EXCEPT !.ranges[n] = r] \in WorldState
      <4>1. s \in WorldState
        BY DEF RefreshState
      <4> HIDE DEF r, s, n
      <4>2. [s.ranges EXCEPT ![n] = r] \in [Names -> Ranges]
        BY <3>2, <3>3, <4>1 DEF WorldState
      <4> QED BY <4>1, <4>2 DEF WorldState
    <3>5. refresh' = [refresh EXCEPT ![k] = v]
      BY <3>1 DEF RefreshState
    <3>6. v \in RefreshState
      <4>1. t \subseteq Assignment
        BY DEF RefreshState
      <4> HIDE DEF t, r, s, n
      <4> QED BY <3>4, <4>1 DEF RefreshState
    <3>7. refresh' \in [Nodes -> RefreshState]
      <4> HIDE DEF v
      <4> QED BY <3>5, <3>6
    <3> QED BY <2>2, <3>7 DEF RefreshFetch, RefreshMiss, FetchFails, clusterVars, budgets
  <2>3. CASE RefreshPublish(k)
    BY <2>3, OperatorTypes
    DEF RefreshPublish, RefreshIdle, RefreshState, clusterVars, budgets
  <2>4. CASE RefreshFault(k)
    <3>1. refresh' \in [Nodes -> RefreshState]
      BY <2>4 DEF RefreshFault, FetchFails, RefreshState
    <3> QED BY <2>4, <3>1, BoundsAssumption DEF RefreshFault, FetchFails, Fault
  <2>6. CASE RefreshMiss(k)
    <3>1. refresh' \in [Nodes -> RefreshState]
      BY <2>6 DEF RefreshMiss, FetchFails, RefreshState
    <3> QED BY <2>6, <3>1 DEF RefreshMiss, FetchFails, clusterVars, budgets
  <2>5. CASE ExporterCrash(k)
    BY <2>5, OperatorTypes, BoundsAssumption
    DEF ExporterCrash, RefreshIdle, RefreshState, Crash
  <2> QED BY <2>1, <2>2, <2>3, <2>4, <2>5, <2>6 DEF RefreshStep
<1>6. CASE UNCHANGED vars
  BY <1>6 DEF vars, clusterVars, budgets
<1> QED BY <1>1, <1>2, <1>3, <1>4, <1>5, <1>6
        DEF Next, CMActions, AnnotatorActions, UpdaterActions, ExporterActions,
            DeleteCM, Crash

\* Every variable keeps its type, for any constants.
THEOREM TypeCorrect == Spec => []TypeOK
<1>1. Init => TypeOK
  BY BoundsAssumption, UtilsAssumption
  DEF Init, TypeOK, ClusterInit, ClusterTypeOK, Pod, Phases,
      AnnotatorInit, AnnotatorTypeOK, AnnotatorIdle, AnnotatorState,
      TopologyInit, TopologyTypeOK, NoCM, UpdaterInit, UpdaterTypeOK, UpdaterIdle,
      ExporterInit, ExporterTypeOK, RefreshIdle, RefreshState, EmptyState,
      WorldState, Ranges
<1> QED BY <1>1, TypeStep, PTL DEF Spec

-----------------------------------------------------------------------------
(***************************************************************************)
(* Attribution is not invented, names reused or not.  AttributionNot-      *)
(* Invented is not inductive: the annotator's listing, the updater's list  *)
(* and a refresh in progress are about to become what it speaks of.        *)
(***************************************************************************)
AllGranted(top) == \A a \in top : Granted(a.pod, a.gpu)

GrantedInv ==
    /\ held \subseteq granted
    /\ \A n \in Names : \A g \in pods[n].ann : Granted(n, g)
    /\ \A k \in Nodes : \A e \in annotator[k].work \cup annotator[k].cur :
          \A g \in e.devs : Granted(e.pod, g)
    /\ AllGranted(cm.body)
    /\ AllGranted(updater.top)
    /\ \A k \in Nodes : AllGranted(refresh[k].state.top) /\ AllGranted(cache[k].top)

\* FindAssignment returns a pod only for an assignment that is in the topology.
LEMMA FindAssignmentSound ==
    ASSUME NEW top \in SUBSET Assignment, NEW k \in Nodes, NEW g \in Gpus,
           FindAssignment(top, k, g) # NoPod
    PROVE  [node |-> k, gpu |-> g, pod |-> FindAssignment(top, k, g)] \in top
<1> DEFINE found == {a \in top : a.node = k /\ a.gpu = g}
           first == {a \in found : \A b \in found : a.pod <= b.pod}
           a == CHOOSE a \in first : TRUE
<1>1. first # {} /\ FindAssignment(top, k, g) = a.pod
  BY DEF FindAssignment
<1>2. a \in first
  BY <1>1
<1>3. a \in top /\ a.node = k /\ a.gpu = g /\ a \in Assignment
  BY <1>2
<1>4. a = [node |-> a.node, gpu |-> a.gpu, pod |-> a.pod]
  <2> HIDE DEF a
  <2> QED BY <1>3 DEF Assignment
<1> QED BY <1>1, <1>3, <1>4

\* The environment: a bind adds grants, nothing else touches what is granted.
LEMMA GrantedClusterStep ==
    ASSUME TypeOK, GrantedInv, ClusterActions
    PROVE  GrantedInv'
<1> USE DEF TypeOK, ClusterTypeOK, GrantedInv
<1>1. granted \subseteq granted' /\ held' \subseteq granted'
  BY DEF ClusterActions, ClusterNext, CreatePod, Bind, FinishPod, DeletePod,
         Release, SetUtil
<1>2. \A n, g : Granted(n, g) => Granted(n, g)'
  BY <1>1 DEF Granted
<1>3. \A n \in Names : pods'[n].ann \subseteq pods[n].ann
  <2>1. ASSUME NEW m \in Names, CreatePod(m)
        PROVE  \A n \in Names : pods'[n].ann \subseteq pods[n].ann
    BY <2>1 DEF CreatePod, Pod
  <2>2. ASSUME NEW m \in Names, NEW k \in Nodes, NEW devs \in SUBSET Gpus,
               Bind(m, k, devs)
        PROVE  \A n \in Names : pods'[n].ann \subseteq pods[n].ann
    BY <2>2 DEF Bind, Pod
  <2>3. ASSUME NEW m \in Names, FinishPod(m)
        PROVE  \A n \in Names : pods'[n].ann \subseteq pods[n].ann
    BY <2>3 DEF FinishPod, Pod
  <2>4. ASSUME NEW m \in Names, DeletePod(m)
        PROVE  \A n \in Names : pods'[n].ann \subseteq pods[n].ann
    BY <2>4 DEF DeletePod, Pod
  <2>5. ASSUME NEW m \in Names, NEW u \in Utils, SetUtil(m, u)
        PROVE  \A n \in Names : pods'[n].ann \subseteq pods[n].ann
    BY <2>5 DEF SetUtil, Pod
  <2> QED BY <2>1, <2>2, <2>3, <2>4, <2>5
          DEF ClusterActions, ClusterNext, Release
<1>4. UNCHANGED <<annotator, cm, updater, refresh, cache>>
  BY DEF ClusterActions
<1>5. AllGranted(cm.body)' /\ AllGranted(updater.top)'
  BY <1>2, <1>4 DEF AllGranted
<1>6. \A k \in Nodes : AllGranted(refresh[k].state.top)' /\ AllGranted(cache[k].top)'
  BY <1>2, <1>4 DEF AllGranted
<1> QED BY <1>1, <1>2, <1>3, <1>4, <1>5, <1>6

\* The annotator: a listing comes from the checkpoints, a patch from a listing.
LEMMA GrantedAnnotatorStep ==
    ASSUME TypeOK, GrantedInv, AnnotatorActions
    PROVE  GrantedInv'
<1> USE DEF GrantedInv
<1>1. PICK k \in Nodes : AnnotatorStep(k) \/ AnnotatorFault(k) \/ AnnotatorCrash(k)
  BY DEF AnnotatorActions, AnnotatorNext
<1>2. UNCHANGED <<held, granted, cm, updater, refresh, cache>>
  BY <1>1 DEF AnnotatorActions, AnnotatorStep, AnnotatorList, AnnotatorGet,
      AnnotatorPatch, AnnotatorFault, AnnotatorCrash, Fault, Crash, clusterVars
<1>3. \A n, g : Granted(n, g)' = Granted(n, g)
  BY <1>2 DEF Granted
<1> DEFINE Entries(a) == a.work \cup a.cur
           Sound(a) == \A e \in Entries(a) : \A g \in e.devs : Granted(e.pod, g)
<1>4. \A w : Entries(Continue(w)) \subseteq w
  BY DEF Continue, AnnotatorIdle
<1>5. annotator'[k] = annotator[k] \/ Sound(annotator'[k])
  <2>1. CASE AnnotatorList(k)
    <3>1. \A e \in PodResources(k) : \A g \in e.devs : Granted(e.pod, g)
      BY DEF PodResources, collectDevicesForResource, Granted
    <3> QED BY <2>1, <3>1, <1>4 DEF AnnotatorList, TypeOK, AnnotatorTypeOK
  <2>2. CASE AnnotatorGet(k)
    BY <2>2, <1>4 DEF AnnotatorGet, TypeOK, AnnotatorTypeOK
  <2>3. CASE AnnotatorPatch(k)
    BY <2>3, <1>4 DEF AnnotatorPatch, TypeOK, AnnotatorTypeOK
  <2>4. CASE AnnotatorFault(k)
    BY <2>4, <1>4 DEF AnnotatorFault, TypeOK, AnnotatorTypeOK
  <2>5. CASE AnnotatorCrash(k)
    BY <2>5 DEF AnnotatorCrash, AnnotatorIdle, TypeOK, AnnotatorTypeOK
  <2> QED BY <1>1, <2>1, <2>2, <2>3, <2>4, <2>5 DEF AnnotatorStep
<1>6. \A j \in Nodes \ {k} : annotator'[j] = annotator[j]
  BY <1>1 DEF AnnotatorStep, AnnotatorList, AnnotatorGet, AnnotatorPatch,
      AnnotatorFault, AnnotatorCrash, TypeOK, AnnotatorTypeOK
<1>7. \A n \in Names : \A g \in pods'[n].ann : Granted(n, g)
  <2>1. CASE AnnotatorPatch(k)
    <3>1. PICK e \in annotator[k].cur :
             pods' = IF Exists(e.pod)
                     THEN [pods EXCEPT ![e.pod].ann = e.devs] ELSE pods
      BY <2>1 DEF AnnotatorPatch
    <3>2. e \in Entry
      BY DEF TypeOK, AnnotatorTypeOK, AnnotatorState
    <3>3. \A n \in Names : \/ pods'[n].ann = pods[n].ann
                           \/ n = e.pod /\ pods'[n].ann = e.devs
      BY <3>1, <3>2 DEF TypeOK, ClusterTypeOK, Pod, Entry
    <3> QED BY <3>3
  <2>2. CASE UNCHANGED pods
    BY <2>2
  <2> QED BY <1>1, <2>1, <2>2
          DEF AnnotatorStep, AnnotatorList, AnnotatorGet, AnnotatorFault,
              AnnotatorCrash, Fault, Crash, clusterVars
<1>8. AllGranted(cm.body)' /\ AllGranted(updater.top)'
  BY <1>2, <1>3 DEF AllGranted
<1>9. \A j \in Nodes : AllGranted(refresh[j].state.top)' /\ AllGranted(cache[j].top)'
  BY <1>2, <1>3 DEF AllGranted
<1> QED BY <1>2, <1>3, <1>5, <1>6, <1>7, <1>8, <1>9

\* The updater, the exporters and the ConfigMap only pass topologies on.
LEMMA GrantedTopologyStep ==
    ASSUME TypeOK, GrantedInv, CMActions \/ UpdaterActions \/ ExporterActions
    PROVE  GrantedInv'
<1> USE DEF GrantedInv
<1>1. UNCHANGED <<pods, held, granted, annotator>>
  BY DEF CMActions, DeleteCM, UpdaterActions, UpdaterNext, UpdaterStep, UpdaterList,
      UpdaterGet, UpdaterWrite, UpdaterFault, ExporterActions, ExporterNext,
      RefreshStep, RefreshLoad, RefreshFetch, RefreshMiss, FetchFails, RefreshPublish, RefreshFault,
      ExporterCrash, Fault, Crash, clusterVars
<1>2. \A n, g : Granted(n, g)' = Granted(n, g)
  BY <1>1 DEF Granted
<1>3. \A top : AllGranted(top) => \A a \in top : Granted(a.pod, a.gpu)'
  BY <1>2 DEF AllGranted
<1>4. AllGranted({}) /\ AllGranted(Load)
  BY DEF AllGranted, Load
<1>5. AllGranted(cm'.body)
  BY <1>4 DEF CMActions, DeleteCM, NoCM, UpdaterActions, UpdaterNext, UpdaterStep,
      UpdaterList, UpdaterGet, UpdaterWrite, UpdaterFault, ExporterActions,
      ExporterNext, RefreshStep, RefreshLoad, RefreshFetch, RefreshMiss, FetchFails, RefreshPublish,
      RefreshFault, ExporterCrash
<1>6. AllGranted(updater'.top)
  <2>1. AllGranted(TopologyOf(pods))
    BY DEF AllGranted, TopologyOf, Assignment
  <2> QED BY <1>4, <2>1
          DEF CMActions, UpdaterActions, UpdaterNext, UpdaterStep, UpdaterList,
              UpdaterGet, UpdaterWrite, UpdaterFault, UpdaterIdle, ExporterActions,
              TypeOK, UpdaterTypeOK
<1>7. \A k \in Nodes : AllGranted(refresh'[k].state.top) /\ AllGranted(cache'[k].top)
  <2>1. CASE UNCHANGED <<refresh, cache>>
    BY <2>1
  <2>2. ASSUME NEW j \in Nodes,
               RefreshStep(j) \/ RefreshFault(j) \/ ExporterCrash(j)
        PROVE  \A k \in Nodes : AllGranted(refresh'[k].state.top)
                                /\ AllGranted(cache'[k].top)
    <3> USE DEF TypeOK, ExporterTypeOK, RefreshState, WorldState
    <3>1. CASE RefreshLoad(j)
      BY <1>4, <3>1 DEF RefreshLoad, EmptyState
    <3>2. CASE RefreshFetch(j)
      BY <3>2 DEF RefreshFetch
    <3>3. CASE RefreshPublish(j)
      BY <1>4, <3>3 DEF RefreshPublish, RefreshIdle, EmptyState
    <3>4. CASE RefreshFault(j)
      BY <3>4 DEF RefreshFault, FetchFails
    <3>5. CASE ExporterCrash(j)
      BY <1>4, <3>5 DEF ExporterCrash, RefreshIdle, EmptyState
    <3>6. CASE RefreshMiss(j)
      BY <3>6 DEF RefreshMiss, FetchFails
    <3> QED BY <2>2, <3>1, <3>2, <3>3, <3>4, <3>5, <3>6 DEF RefreshStep
  <2> QED BY <2>1, <2>2 DEF CMActions, UpdaterActions, ExporterActions, ExporterNext
<1> QED BY <1>1, <1>2, <1>3, <1>5, <1>6, <1>7 DEF AllGranted

\* Every GPU an annotation, the ConfigMap or a scrape gives to a pod name was
\* allocated to a pod of that name, however names are reused and calls fail.
THEOREM NotInvented == Spec => []AttributionNotInvented
<1>1. Init => GrantedInv
  BY DEF Init, ClusterInit, AnnotatorInit, AnnotatorIdle, TopologyInit, NoCM,
      UpdaterInit, UpdaterIdle, ExporterInit, RefreshIdle, EmptyState,
      GrantedInv, AllGranted
<1>2. TypeOK /\ GrantedInv /\ [Next]_vars => GrantedInv'
  <2> SUFFICES ASSUME TypeOK, GrantedInv, [Next]_vars PROVE GrantedInv'
    OBVIOUS
  <2>1. CASE Next
    BY <2>1, GrantedClusterStep, GrantedAnnotatorStep, GrantedTopologyStep DEF Next
  <2>2. CASE UNCHANGED vars
    BY <2>2 DEF vars, clusterVars, GrantedInv, AllGranted, Granted
  <2> QED BY <2>1, <2>2
<1>3. TypeOK /\ GrantedInv => AttributionNotInvented
  <2> SUFFICES ASSUME TypeOK, GrantedInv PROVE AttributionNotInvented
    OBVIOUS
  <2>1. ASSUME NEW k \in Nodes, NEW g \in Gpus, ScrapedPod(k, g) # NoPod
        PROVE  Granted(ScrapedPod(k, g), g)
    <3>1. [node |-> k, gpu |-> g, pod |-> ScrapedPod(k, g)] \in cache[k].top
      BY <2>1, FindAssignmentSound
      DEF ScrapedPod, TypeOK, ExporterTypeOK, WorldState
    <3> QED BY <3>1 DEF GrantedInv, AllGranted
  <2> QED BY <2>1 DEF AttributionNotInvented, GrantedInv, AllGranted
<1> QED BY <1>1, <1>2, <1>3, TypeCorrect, PTL DEF Spec

-----------------------------------------------------------------------------
(***************************************************************************)
(* A worldState is coherent, because the one being built is.               *)
(***************************************************************************)
Coherent(state, k) ==
    \A n \in Names : state.ranges[n] # NoRange => n \in AssignedOn(state.top, k)

CoherentInv ==
    \A k \in Nodes :
        /\ Coherent(cache[k], k)
        /\ Coherent(refresh[k].state, k)
        /\ refresh[k].todo \subseteq AssignmentsOf(refresh[k].state.top, k)

\* The exporter of node j keeps its own states coherent.
LEMMA CoherentExporterStep ==
    ASSUME TypeOK, CoherentInv, ExporterActions
    PROVE  CoherentInv'
<1> USE DEF CoherentInv
<1>1. PICK j \in Nodes : RefreshStep(j) \/ RefreshFault(j) \/ ExporterCrash(j)
  BY DEF ExporterActions, ExporterNext
<1> USE DEF TypeOK, ExporterTypeOK, RefreshState, WorldState
<1> DEFINE Good(r, c) == /\ Coherent(c, j)
                         /\ Coherent(r.state, j)
                         /\ r.todo \subseteq AssignmentsOf(r.state.top, j)
<1>2. \A k \in Nodes \ {j} : UNCHANGED <<refresh[k], cache[k]>>
  BY <1>1 DEF RefreshStep, RefreshLoad, RefreshFetch, RefreshMiss, FetchFails, RefreshPublish, RefreshFault,
      ExporterCrash
<1>3. Coherent(EmptyState, j)
  BY DEF Coherent, EmptyState
<1>4. Good(refresh'[j], cache'[j])
  <2>1. CASE RefreshLoad(j)
    BY <2>1 DEF RefreshLoad, Coherent, EmptyState
  <2>2. CASE RefreshFetch(j)
    BY <2>2 DEF RefreshFetch, NextAssignments, Coherent, AssignedOn, AssignmentsOf
  <2>3. CASE RefreshPublish(j)
    BY <1>3, <2>3 DEF RefreshPublish, RefreshIdle
  <2>4. CASE RefreshMiss(j) \/ RefreshFault(j)
    <3>1. PICK a \in refresh[j].todo :
             refresh' = [refresh EXCEPT ![j].todo = @ \ {a}]
      BY <2>4 DEF RefreshMiss, RefreshFault, FetchFails, NextAssignments
    <3>2. refresh'[j].state = refresh[j].state /\ refresh'[j].todo \subseteq refresh[j].todo
      BY <3>1
    <3>3. cache' = cache
      BY <2>4 DEF RefreshMiss, RefreshFault, FetchFails
    <3> QED BY <3>2, <3>3
  <2>5. CASE ExporterCrash(j)
    BY <1>3, <2>5 DEF ExporterCrash, RefreshIdle
  <2> QED BY <1>1, <2>1, <2>2, <2>3, <2>4, <2>5 DEF RefreshStep
<1> QED BY <1>2, <1>4

\* The ranges a scrape reads belong to the topology it reads.
THEOREM WorldStateNotTorn == Spec => []WorldStateCoherent
<1>1. Init => CoherentInv
  BY DEF Init, ExporterInit, RefreshIdle, EmptyState, CoherentInv, Coherent
<1>2. TypeOK /\ CoherentInv /\ [Next]_vars => CoherentInv'
  <2> SUFFICES ASSUME TypeOK, CoherentInv, [Next]_vars PROVE CoherentInv'
    OBVIOUS
  <2>1. CASE UNCHANGED <<refresh, cache>>
    BY <2>1 DEF CoherentInv, Coherent, AssignedOn, AssignmentsOf
  <2> QED BY <2>1, CoherentExporterStep
          DEF Next, ClusterActions, CMActions, AnnotatorActions, UpdaterActions, vars
<1>3. CoherentInv => WorldStateCoherent
  BY DEF CoherentInv, Coherent, WorldStateCoherent
<1> QED BY <1>1, <1>2, <1>3, TypeCorrect, PTL DEF Spec

-----------------------------------------------------------------------------
(***************************************************************************)
(* Without name reuse: every copy of an attribution is exact.              *)
(***************************************************************************)

\* The devices ever granted to pod n, and a topology seen as a set of grants.
GrantOf(n) == {a.gpu : a \in {b \in granted : b.pod = n}}

\* A copy of the topology has, of every pod it mentions, the whole grant.
Exact(top) ==
    /\ \A a \in top : [node |-> a.node, gpu |-> a.gpu, pod |-> a.pod, uid |-> 1]
                      \in granted
    /\ \A a \in top, b \in granted : b.pod = a.pod =>
          [node |-> b.node, gpu |-> b.gpu, pod |-> b.pod] \in top

\* A listing entry of the annotator is its pod's whole grant.
ExactEntry(e) == e.devs # {} /\ e.devs = GrantOf(e.pod)

\* A name that was granted devices names a pod that is past admission, and that
\* pod, while its object is there, is on the node of the grant.
GrantInv ==
    /\ held \subseteq granted
    /\ \A a \in granted :
          /\ a.uid = 1
          /\ pods[a.pod].uid = 1
          /\ pods[a.pod].phase # "Pending"
          /\ Exists(a.pod) => pods[a.pod].node = a.node
          /\ pods[a.pod].phase = "Running" => a \in held
    /\ \A a, b \in granted : a.pod = b.pod => a.node = b.node
    /\ \A a \in granted, b \in held : a.pod = b.pod => a \in held
    /\ \A n \in Names : pods[n].phase = "Pending" => pods[n].uid = 1
    /\ \A n \in Names : pods[n].phase = "Absent" => pods[n].ann = {}
    /\ \A n \in Names : pods[n].ann \in {{}, GrantOf(n)}

ExactInv ==
    /\ GrantInv
    /\ \A k \in Nodes : \A e \in annotator[k].work \cup annotator[k].cur :
          ExactEntry(e)
    /\ Exact(cm.body)
    /\ Exact(updater.top)
    /\ \A k \in Nodes : Exact(refresh[k].state.top) /\ Exact(cache[k].top)

\* A bind grants devices to a name that had none; other steps of the
\* environment grant nothing.
LEMMA GrantStep ==
    ASSUME TypeOK, MaxUid = 1, GrantInv, ClusterActions
    PROVE  /\ GrantInv'
           /\ \A a \in granted, b \in granted' : a.pod = b.pod => b \in granted
           /\ granted \subseteq granted'
<1> USE DEF TypeOK, ClusterTypeOK
<1> DEFINE Goal == /\ GrantInv'
                   /\ \A a \in granted, b \in granted' :
                         a.pod = b.pod => b \in granted
                   /\ granted \subseteq granted'
<1>1. ASSUME NEW n \in Names, CreatePod(n) PROVE Goal
  <2>1. pods[n].uid = 0
    BY <1>1 DEF CreatePod, Pod
  <2>2. pods' = [pods EXCEPT ![n] = pods'[n]]
        /\ pods'[n].uid = 1 /\ pods'[n].phase = "Pending" /\ pods'[n].ann = {}
    BY <1>1, <2>1 DEF CreatePod
  <2>3. UNCHANGED <<held, granted>>
    BY <1>1 DEF CreatePod
  <2>4. \A a \in granted : a.pod # n
    BY <2>1 DEF GrantInv
  <2> QED BY <2>2, <2>3, <2>4 DEF GrantInv, GrantOf, Exists, Allocation
<1>2. ASSUME NEW n \in Names, NEW k \in Nodes, NEW devs \in SUBSET Gpus,
             Bind(n, k, devs)
      PROVE  Goal
  <2> DEFINE new == {[node |-> k, gpu |-> g, pod |-> n, uid |-> 1] : g \in devs}
  <2>1. pods[n].phase = "Pending" /\ pods[n].uid = 1
    BY <1>2 DEF Bind, GrantInv
  <2>2. held' = held \cup new /\ granted' = granted \cup new
    BY <1>2, <2>1 DEF Bind
  <2>3. /\ pods'[n].phase = "Running" /\ pods'[n].node = k
        /\ pods'[n].uid = 1 /\ pods'[n].ann = pods[n].ann
        /\ \A m \in Names \ {n} : pods'[m] = pods[m]
    BY <1>2, <2>1 DEF Bind, Pod
  <2>4. \A a \in granted : a.pod # n
    BY <2>1 DEF GrantInv
  <2>5. \A a \in new : a.pod = n /\ a.node = k /\ a.uid = 1
    OBVIOUS
  <2>6. pods[n].ann = {}
    BY <2>4 DEF GrantInv, GrantOf
  <2> HIDE DEF new
  <2>7. \A m \in Names \ {n} : GrantOf(m)' = GrantOf(m)
    BY <2>2, <2>5 DEF GrantOf
  <2>8. \A m \in Names : pods'[m].ann \in {{}, GrantOf(m)'}
    BY <2>3, <2>6, <2>7 DEF GrantInv
  <2>9. \A m \in Names : /\ pods'[m].phase = "Pending" => pods'[m].uid = 1
                         /\ pods'[m].phase = "Absent" => pods'[m].ann = {}
    BY <2>3 DEF GrantInv
  <2>10. \A a \in granted' :
            /\ a.uid = 1
            /\ pods'[a.pod].uid = 1
            /\ pods'[a.pod].phase # "Pending"
            /\ pods'[a.pod].phase # "Absent" => pods'[a.pod].node = a.node
            /\ pods'[a.pod].phase = "Running" => a \in held'
    BY <2>2, <2>3, <2>4, <2>5 DEF GrantInv, Exists, Allocation
  <2>11. /\ \A a, b \in granted' : a.pod = b.pod => a.node = b.node
         /\ \A a \in granted', b \in held' : a.pod = b.pod => a \in held'
         /\ held' \subseteq granted'
    BY <2>2, <2>4, <2>5 DEF GrantInv
  <2>12. GrantInv'
    BY <2>8, <2>9, <2>10, <2>11 DEF GrantInv, Exists
  <2> QED BY <2>2, <2>4, <2>5, <2>12
<1>3. ASSUME NEW n \in Names, FinishPod(n) PROVE Goal
  BY <1>3 DEF FinishPod, GrantInv, GrantOf, Exists, Pod, Allocation
<1>4. ASSUME NEW n \in Names, DeletePod(n) PROVE Goal
  BY <1>4 DEF DeletePod, GrantInv, GrantOf, Exists, Pod, Allocation
<1>5. ASSUME NEW n \in Names, NEW u \in 1..MaxUid, Release(n, u) PROVE Goal
  BY <1>5 DEF Release, GrantInv, GrantOf, Exists, Active, Allocation
<1>6. ASSUME NEW n \in Names, NEW u \in Utils, SetUtil(n, u) PROVE Goal
  BY <1>6 DEF SetUtil, GrantInv, GrantOf, Exists, Pod, Allocation
<1> QED BY <1>1, <1>2, <1>3, <1>4, <1>5, <1>6 DEF ClusterActions, ClusterNext

\* Stale copies stay exact while the environment moves on.
LEMMA ExactClusterStep ==
    ASSUME TypeOK, MaxUid = 1, ExactInv, ClusterActions
    PROVE  ExactInv'
<1>1. /\ GrantInv'
      /\ \A a \in granted, b \in granted' : a.pod = b.pod => b \in granted
      /\ granted \subseteq granted'
  BY GrantStep DEF ExactInv
<1>2. UNCHANGED <<annotator, cm, updater, refresh, cache>>
  BY DEF ClusterActions
<1>3. ASSUME NEW e, ExactEntry(e) PROVE ExactEntry(e)'
  BY <1>1, <1>3 DEF ExactEntry, GrantOf
<1>4. ASSUME NEW top, Exact(top) PROVE Exact(top)'
  <2>1. \A a \in top, b \in granted' : b.pod = a.pod => b \in granted
    BY <1>1, <1>4 DEF Exact
  <2> QED BY <1>1, <1>4, <2>1 DEF Exact
<1>5. \A k \in Nodes : \A e \in annotator[k].work \cup annotator[k].cur :
          ExactEntry(e)'
  BY <1>3 DEF ExactInv
<1>6. Exact(cm.body)' /\ Exact(updater.top)'
  BY <1>2, <1>4 DEF ExactInv, Exact
<1>7. \A k \in Nodes : Exact(refresh[k].state.top)' /\ Exact(cache[k].top)'
  BY <1>2, <1>4 DEF ExactInv, Exact
<1> QED BY <1>1, <1>2, <1>5, <1>6, <1>7 DEF ExactInv, ExactEntry, GrantOf

\* What the annotator lists are whole grants, so what it patches in is one.
LEMMA ExactAnnotatorStep ==
    ASSUME TypeOK, MaxUid = 1, ExactInv, AnnotatorActions
    PROVE  ExactInv'
<1>1. PICK k \in Nodes : AnnotatorStep(k) \/ AnnotatorFault(k) \/ AnnotatorCrash(k)
  BY DEF AnnotatorActions, AnnotatorNext
<1>2. UNCHANGED <<held, granted, cm, updater, refresh, cache>>
  BY <1>1 DEF AnnotatorActions, AnnotatorStep, AnnotatorList, AnnotatorGet,
      AnnotatorPatch, AnnotatorFault, AnnotatorCrash, Fault, Crash, clusterVars
<1> DEFINE Entries(a) == a.work \cup a.cur
<1>3. \A w : Entries(Continue(w)) \subseteq w
  BY DEF Continue, AnnotatorIdle
<1>4. \A e \in Entries(annotator[k]) : ExactEntry(e)
  BY DEF ExactInv
<1>5. \A e \in PodResources(k) : ExactEntry(e)
  <2> SUFFICES ASSUME NEW h \in held, h.node = k
               PROVE  ExactEntry([pod |-> h.pod,
                        devs |-> collectDevicesForResource(k, h.pod, h.uid)])
    BY DEF PodResources
  <2>1. \A b \in granted : b.pod = h.pod => b \in held /\ b.node = k /\ b.uid = h.uid
    BY DEF ExactInv, GrantInv
  <2> QED BY <2>1 DEF ExactInv, GrantInv, ExactEntry, GrantOf, collectDevicesForResource
<1>6. \A e \in Entries(annotator'[k]) : ExactEntry(e)
  <2> USE DEF TypeOK, AnnotatorTypeOK
  <2>1. CASE AnnotatorList(k)
    BY <2>1, <1>3, <1>5 DEF AnnotatorList
  <2>2. CASE AnnotatorGet(k)
    BY <2>2, <1>3, <1>4 DEF AnnotatorGet
  <2>3. CASE AnnotatorPatch(k)
    BY <2>3, <1>3, <1>4 DEF AnnotatorPatch
  <2>4. CASE AnnotatorFault(k)
    BY <2>4, <1>3, <1>4 DEF AnnotatorFault
  <2>5. CASE AnnotatorCrash(k)
    BY <2>5 DEF AnnotatorCrash, AnnotatorIdle
  <2> QED BY <1>1, <2>1, <2>2, <2>3, <2>4, <2>5 DEF AnnotatorStep
<1>7. \A j \in Nodes \ {k} : annotator'[j] = annotator[j]
  BY <1>1 DEF AnnotatorStep, AnnotatorList, AnnotatorGet, AnnotatorPatch,
      AnnotatorFault, AnnotatorCrash, TypeOK, AnnotatorTypeOK
<1>8. GrantInv'
  <2>1. CASE AnnotatorPatch(k)
    <3>1. PICK e \in annotator[k].cur :
             pods' = IF Exists(e.pod)
                     THEN [pods EXCEPT ![e.pod].ann = e.devs] ELSE pods
      BY <2>1 DEF AnnotatorPatch
    <3>2. e \in Entry /\ ExactEntry(e)
      BY <1>4 DEF TypeOK, AnnotatorTypeOK, AnnotatorState
    <3>3. \A n \in Names :
             /\ pods'[n].uid = pods[n].uid
             /\ pods'[n].phase = pods[n].phase
             /\ pods'[n].node = pods[n].node
             /\ \/ pods'[n].ann = pods[n].ann
                \/ n = e.pod /\ Exists(n) /\ pods'[n].ann = e.devs
      BY <3>1, <3>2 DEF TypeOK, ClusterTypeOK, Pod, Entry
    <3>4. \A n \in Names : pods'[n].ann \in {{}, GrantOf(n)}
      BY <3>2, <3>3 DEF ExactEntry, ExactInv, GrantInv
    <3>5. \A n \in Names : pods'[n].phase = "Absent" => pods'[n].ann = {}
      BY <3>3 DEF ExactInv, GrantInv, Exists
    <3> QED BY <1>2, <3>3, <3>4, <3>5
            DEF ExactInv, GrantInv, GrantOf, Exists, TypeOK, ClusterTypeOK, Allocation
  <2>2. CASE UNCHANGED pods
    BY <1>2, <2>2 DEF ExactInv, GrantInv, GrantOf, Exists
  <2> QED BY <1>1, <2>1, <2>2
          DEF AnnotatorStep, AnnotatorList, AnnotatorGet, AnnotatorFault,
              AnnotatorCrash, Fault, Crash, clusterVars
<1>9. \A j \in Nodes : \A e \in Entries(annotator'[j]) : ExactEntry(e)
  BY <1>6, <1>7 DEF ExactInv
<1> QED BY <1>2, <1>8, <1>9 DEF ExactInv, Exact, ExactEntry, GrantOf

\* A listing of the pods is an exact topology.
LEMMA ExactListing ==
    ASSUME TypeOK, MaxUid = 1, GrantInv
    PROVE  Exact(TopologyOf(pods))
<1>1. ASSUME NEW a \in TopologyOf(pods)
      PROVE  /\ a \in Assignment /\ Exists(a.pod)
             /\ pods[a.pod].ann = GrantOf(a.pod) /\ a.gpu \in GrantOf(a.pod)
             /\ pods[a.pod].node = a.node
  BY DEF TopologyOf, GrantInv, Exists, Assignment
<1>2. ASSUME NEW a \in TopologyOf(pods), NEW b \in granted, b.pod = a.pod
      PROVE  b.node = a.node /\ b \in Allocation /\ b.uid = 1
  BY <1>1, <1>2 DEF GrantInv, TypeOK, ClusterTypeOK
<1>3. ASSUME NEW a \in TopologyOf(pods)
      PROVE  [node |-> a.node, gpu |-> a.gpu, pod |-> a.pod, uid |-> 1] \in granted
  <2>1. PICK b \in granted : b.pod = a.pod /\ b.gpu = a.gpu
    BY <1>1 DEF GrantOf
  <2>2. b = [node |-> a.node, gpu |-> a.gpu, pod |-> a.pod, uid |-> 1]
    BY <1>2, <2>1 DEF Allocation
  <2> QED BY <2>1, <2>2
<1>4. ASSUME NEW a \in TopologyOf(pods), NEW b \in granted, b.pod = a.pod
      PROVE  [node |-> b.node, gpu |-> b.gpu, pod |-> b.pod] \in TopologyOf(pods)
  BY <1>1, <1>2, <1>4 DEF TopologyOf, GrantOf, Assignment, Allocation
<1> QED BY <1>3, <1>4 DEF Exact

\* The updater, the exporters and the ConfigMap pass exact topologies on.
LEMMA ExactTopologyStep ==
    ASSUME TypeOK, MaxUid = 1, ExactInv,
           CMActions \/ UpdaterActions \/ ExporterActions
    PROVE  ExactInv'
<1>1. UNCHANGED <<pods, held, granted, annotator>>
  BY DEF CMActions, DeleteCM, UpdaterActions, UpdaterNext, UpdaterStep, UpdaterList,
      UpdaterGet, UpdaterWrite, UpdaterFault, ExporterActions, ExporterNext,
      RefreshStep, RefreshLoad, RefreshFetch, RefreshMiss, FetchFails, RefreshPublish, RefreshFault,
      ExporterCrash, Fault, Crash, clusterVars
<1>2. Exact({}) /\ Exact(Load) /\ Exact(TopologyOf(pods))
  BY ExactListing DEF Exact, Load, ExactInv
<1>3. Exact(cm'.body)
  <2>1. cm' = cm \/ cm'.body = {} \/ cm'.body = updater.top
    BY DEF CMActions, DeleteCM, NoCM, UpdaterActions, UpdaterNext, UpdaterStep,
        UpdaterList, UpdaterGet, UpdaterWrite, UpdaterFault, ExporterActions,
        ExporterNext, RefreshStep, RefreshLoad, RefreshFetch, RefreshMiss, FetchFails, RefreshPublish,
        RefreshFault, ExporterCrash
  <2> QED BY <1>2, <2>1 DEF ExactInv
<1>4. Exact(updater'.top)
  <2>1. updater'.top \in {updater.top, {}, TopologyOf(pods)}
    BY DEF CMActions, UpdaterActions, UpdaterNext, UpdaterStep, UpdaterList,
        UpdaterGet, UpdaterWrite, UpdaterFault, UpdaterIdle, ExporterActions,
        TypeOK, UpdaterTypeOK
  <2> QED BY <1>2, <2>1 DEF ExactInv
<1>5. \A k \in Nodes : Exact(refresh'[k].state.top) /\ Exact(cache'[k].top)
  <2>1. CASE UNCHANGED <<refresh, cache>>
    BY <2>1 DEF ExactInv
  <2>2. ASSUME NEW j \in Nodes,
               RefreshStep(j) \/ RefreshFault(j) \/ ExporterCrash(j)
        PROVE  \A k \in Nodes : Exact(refresh'[k].state.top) /\ Exact(cache'[k].top)
    <3> USE DEF TypeOK, ExporterTypeOK, RefreshState, WorldState, ExactInv
    <3>1. CASE RefreshLoad(j)
      BY <1>2, <3>1 DEF RefreshLoad, EmptyState
    <3>2. CASE RefreshFetch(j)
      BY <3>2 DEF RefreshFetch
    <3>3. CASE RefreshPublish(j)
      BY <1>2, <3>3 DEF RefreshPublish, RefreshIdle, EmptyState
    <3>4. CASE RefreshFault(j)
      BY <3>4 DEF RefreshFault, FetchFails
    <3>5. CASE ExporterCrash(j)
      BY <1>2, <3>5 DEF ExporterCrash, RefreshIdle, EmptyState
    <3>6. CASE RefreshMiss(j)
      BY <3>6 DEF RefreshMiss, FetchFails
    <3> QED BY <2>2, <3>1, <3>2, <3>3, <3>4, <3>5, <3>6 DEF RefreshStep
  <2> QED BY <2>1, <2>2 DEF CMActions, UpdaterActions, ExporterActions, ExporterNext
<1> QED BY <1>1, <1>3, <1>4, <1>5
        DEF ExactInv, Exact, ExactEntry, GrantInv, GrantOf, Exists

\* The inductive invariant of this module.
LEMMA ExactInvariant == (MaxUid = 1) => (Spec => []ExactInv)
<1> SUFFICES ASSUME MaxUid = 1 PROVE Spec => []ExactInv
  OBVIOUS
<1>1. Init => ExactInv
  BY DEF Init, ClusterInit, AnnotatorInit, AnnotatorIdle, TopologyInit, NoCM,
      UpdaterInit, UpdaterIdle, ExporterInit, RefreshIdle, EmptyState,
      ExactInv, GrantInv, Exact
<1>2. TypeOK /\ ExactInv /\ [Next]_vars => ExactInv'
  <2> SUFFICES ASSUME TypeOK, ExactInv, [Next]_vars PROVE ExactInv'
    OBVIOUS
  <2>1. CASE Next
    BY <2>1, ExactClusterStep, ExactAnnotatorStep, ExactTopologyStep DEF Next
  <2>2. CASE UNCHANGED vars
    BY <2>2 DEF vars, clusterVars, ExactInv, Exact, ExactEntry, GrantInv, GrantOf,
        Exists
  <2> QED BY <2>1, <2>2
<1> QED BY <1>1, <1>2, TypeCorrect, PTL DEF Spec

\* What a scrape shows was granted by the kubelet of the scraped node.
LEMMA ShownWasGranted ==
    ASSUME TypeOK, ExactInv, NEW k \in Nodes, NEW g \in Gpus,
           ScrapedPod(k, g) # NoPod
    PROVE  /\ [node |-> k, gpu |-> g, pod |-> ScrapedPod(k, g), uid |-> 1] \in granted
           /\ ScrapedPod(k, g) \in Names
<1>1. [node |-> k, gpu |-> g, pod |-> ScrapedPod(k, g)] \in cache[k].top
  BY FindAssignmentSound DEF ScrapedPod, TypeOK, ExporterTypeOK, WorldState
<1>2. cache[k].top \subseteq Assignment
  BY DEF TypeOK, ExporterTypeOK, WorldState
<1>3. ScrapedPod(k, g) \in Names
  BY <1>1, <1>2 DEF Assignment
<1> QED BY <1>1, <1>3 DEF ExactInv, Exact

\* Without name reuse a running pod is charged only for GPUs it holds.
THEOREM ChargedForItsOwn == (MaxUid = 1) => (Spec => []RunningPodChargedForItsOwn)
<1>1. TypeOK /\ ExactInv => RunningPodChargedForItsOwn
  BY ShownWasGranted DEF RunningPodChargedForItsOwn, ExactInv, GrantInv
<1> QED BY <1>1, TypeCorrect, ExactInvariant, PTL

\* Without name reuse no copy of a running pod's allocation is a part of it.
THEOREM WholeAllocations == (MaxUid = 1) => (Spec => []AllOrNothing)
<1>1. TypeOK /\ ExactInv => AllOrNothing
  <2> SUFFICES ASSUME TypeOK, ExactInv, NEW n \in Names, pods[n].phase = "Running"
               PROVE  /\ pods[n].ann \in {{}, DevicesOf(n)}
                      /\ Charged(cm.body, n) \in {{}, DevicesOf(n)}
                      /\ \A k \in Nodes : Charged(cache[k].top, n) \in {{}, DevicesOf(n)}
    BY DEF AllOrNothing
  <2>1. GrantOf(n) = DevicesOf(n)
    BY DEF GrantOf, DevicesOf, ExactInv, GrantInv
  <2>2. ASSUME NEW top, Exact(top) PROVE Charged(top, n) \in {{}, GrantOf(n)}
    <3>1. ASSUME NEW a \in top, a.pod = n PROVE a.gpu \in GrantOf(n)
      <4> DEFINE b == [node |-> a.node, gpu |-> a.gpu, pod |-> a.pod, uid |-> 1]
      <4>1. b \in granted /\ b.pod = n /\ b.gpu = a.gpu
        BY <2>2, <3>1 DEF Exact
      <4> HIDE DEF b
      <4> QED BY <4>1 DEF GrantOf
    <3>2. ASSUME NEW a \in top, a.pod = n, NEW b \in granted, b.pod = n
          PROVE  b.gpu \in Charged(top, n)
      <4> DEFINE c == [node |-> b.node, gpu |-> b.gpu, pod |-> b.pod]
      <4>1. c \in top /\ c.pod = n /\ c.gpu = b.gpu
        BY <2>2, <3>2 DEF Exact
      <4> HIDE DEF c
      <4> QED BY <4>1 DEF Charged
    <3> QED BY <3>1, <3>2 DEF Charged, GrantOf
  <2> QED BY <2>1, <2>2 DEF ExactInv, GrantInv
<1> QED BY <1>1, TypeCorrect, ExactInvariant, PTL

-----------------------------------------------------------------------------
(***************************************************************************)
(* Refinement: without name reuse the pipeline implements GpuAttribution.  *)
(***************************************************************************)
Owned == {<<a.node, a.gpu, a.pod>> : a \in granted}

\* A published state is one the abstract Publish allows.
Published ==
    \A k \in Nodes, g \in Gpus :
        ScrapedPod(k, g) # NoPod => /\ ScrapedPod(k, g) \in Names
                                    /\ <<k, g, ScrapedPod(k, g)>> \in Owned

LEMMA PublishedIsOwned == TypeOK /\ ExactInv => Published
<1> SUFFICES ASSUME TypeOK, ExactInv PROVE Published
  OBVIOUS
<1>1. ASSUME NEW k \in Nodes, NEW g \in Gpus, ScrapedPod(k, g) # NoPod
      PROVE  ScrapedPod(k, g) \in Names /\ <<k, g, ScrapedPod(k, g)>> \in Owned
  <2> DEFINE a == [node |-> k, gpu |-> g, pod |-> ScrapedPod(k, g), uid |-> 1]
  <2>1. a \in granted /\ <<a.node, a.gpu, a.pod>> = <<k, g, ScrapedPod(k, g)>>
    BY <1>1, ShownWasGranted
  <2>2. <<a.node, a.gpu, a.pod>> \in Owned
    <3> HIDE DEF a
    <3> QED BY <2>1 DEF Owned
  <2> QED BY <1>1, <2>1, <2>2, ShownWasGranted
<1> QED BY <1>1 DEF Published

\* A step of the pipeline is a step of the abstract specification or a stutter.
LEMMA AttributionStep ==
    ASSUME TypeOK, TypeOK', Published', [Next]_vars
    PROVE  [Abstract!Next]_(Abstract!vars)
<1> DEFINE Shown == [k \in Nodes |-> [g \in Gpus |-> ScrapedPod(k, g)]]
<1>1. \A k \in Nodes, g \in Gpus :
          ScrapedPod(k, g)' = FindAssignment(cache'[k].top, k, g)
  BY DEF ScrapedPod, FindAssignment
<1>2. cache' = cache => Shown' = Shown
  BY <1>1 DEF ScrapedPod
<1>3. granted' = granted => Owned' = Owned
  BY DEF Owned
<1>4. ASSUME NEW n \in Names, NEW k \in Nodes, NEW devs \in SUBSET Gpus,
             Bind(n, k, devs)
      PROVE  Owned' = Owned \cup {<<k, g, n>> : g \in devs}
  <2> DEFINE new == {[node |-> k, gpu |-> g, pod |-> n, uid |-> pods[n].uid] :
                        g \in devs}
  <2>1. granted' = granted \cup new
    BY <1>4 DEF Bind
  <2>2. ASSUME NEW x
        PROVE  x \in {<<a.node, a.gpu, a.pod>> : a \in new}
               <=> x \in {<<k, g, n>> : g \in devs}
    <3>1. ASSUME NEW a \in new, x = <<a.node, a.gpu, a.pod>>
          PROVE  \E g \in devs : x = <<k, g, n>>
      BY <3>1
    <3>2. ASSUME NEW g \in devs, x = <<k, g, n>>
          PROVE  \E a \in new : x = <<a.node, a.gpu, a.pod>>
      <4> DEFINE a == [node |-> k, gpu |-> g, pod |-> n, uid |-> pods[n].uid]
      <4>1. a \in new
        OBVIOUS
      <4>2. x = <<a.node, a.gpu, a.pod>>
        BY <3>2
      <4> QED BY <4>1, <4>2
    <3> QED BY <3>1, <3>2
  <2> HIDE DEF new
  <2> QED BY <2>1, <2>2 DEF Owned
<1>5. CASE ClusterActions
  <2>1. Shown' = Shown
    BY <1>2, <1>5 DEF ClusterActions
  <2>2. CASE \E n \in Names, k \in Nodes, devs \in SUBSET Gpus : Bind(n, k, devs)
    <3>1. \E k \in Nodes, n \in Names, devs \in SUBSET Gpus :
             Owned' = Owned \cup {<<k, g, n>> : g \in devs}
      BY <1>4, <2>2
    <3> QED BY <2>1, <3>1 DEF Abstract!Next, Abstract!Allocate, Owned
  <2>3. CASE granted' = granted
    BY <1>3, <2>1, <2>3 DEF Abstract!vars, Owned
  <2> QED BY <1>5, <2>2, <2>3
          DEF ClusterActions, ClusterNext, CreatePod, FinishPod, DeletePod, Release,
              SetUtil
<1>6. CASE granted' = granted /\ cache' = cache
  BY <1>2, <1>3, <1>6 DEF Abstract!vars, Owned
<1>7. CASE ExporterActions
  <2>1. PICK k \in Nodes : RefreshStep(k) \/ RefreshFault(k) \/ ExporterCrash(k)
    BY <1>7 DEF ExporterActions, ExporterNext
  <2>2. granted' = granted
    BY <2>1 DEF RefreshStep, RefreshLoad, RefreshFetch, RefreshMiss, FetchFails, RefreshPublish, RefreshFault,
        ExporterCrash, Fault, Crash, clusterVars
  <2>3. \A j \in Nodes \ {k} : cache'[j] = cache[j]
    BY <2>1 DEF RefreshStep, RefreshLoad, RefreshFetch, RefreshMiss, FetchFails, RefreshPublish, RefreshFault,
        ExporterCrash, TypeOK, ExporterTypeOK
  <2> DEFINE s == [g \in Gpus |-> ScrapedPod(k, g)']
  <2>4. Shown' = [Shown EXCEPT ![k] = s]
    BY <1>1, <2>3 DEF ScrapedPod
  <2>5. s \in [Gpus -> Names \cup {NoPod}]
        /\ \A g \in Gpus : s[g] = NoPod \/ <<k, g, s[g]>> \in Owned'
    BY DEF Published
  <2>6. Owned' = Owned
    BY <1>3, <2>2
  <2> HIDE DEF s
  <2>7. Abstract!Publish(k)
    BY <2>4, <2>5, <2>6 DEF Abstract!Publish, Owned
  <2> QED BY <2>7 DEF Abstract!Next
<1> QED BY <1>5, <1>6, <1>7
        DEF Next, CMActions, DeleteCM, AnnotatorActions, AnnotatorNext, AnnotatorStep,
            AnnotatorList, AnnotatorGet, AnnotatorPatch, AnnotatorFault,
            AnnotatorCrash, UpdaterActions, UpdaterNext, UpdaterStep, UpdaterList,
            UpdaterGet, UpdaterWrite, UpdaterFault, Fault, Crash, vars, clusterVars

\* Without name reuse every behaviour of the pipeline is, seen through /metrics,
\* a behaviour of GpuAttribution.
THEOREM ImplementsAbstract == (MaxUid = 1) => (Spec => ImplementsAttribution)
<1> SUFFICES ASSUME MaxUid = 1 PROVE Spec => ImplementsAttribution
  OBVIOUS
<1>1. Init => Abstract!Init
  <2> SUFFICES ASSUME Init PROVE Abstract!Init
    OBVIOUS
  <2>1. \A k \in Nodes, g \in Gpus : ScrapedPod(k, g) = NoPod
    BY DEF Init, ExporterInit, EmptyState, ScrapedPod, FindAssignment
  <2>2. granted = {}
    BY DEF Init, ClusterInit
  <2> QED BY <2>1, <2>2 DEF Abstract!Init
<1>2. TypeOK /\ TypeOK' /\ Published' /\ [Next]_vars
      => [Abstract!Next]_(Abstract!vars)
  BY AttributionStep
<1> QED BY <1>1, <1>2, PublishedIsOwned, TypeCorrect, ExactInvariant, PTL
        DEF Spec, ImplementsAttribution, Abstract!Spec
-----------------------------------------------------------------------------
(***************************************************************************)
(* Without name reuse, restarts and ConfigMap deletions every copy of the  *)
(* topology is older than the one it is made from, and what an older copy  *)
(* says of a pod that is still there, the newer ones say as well: pods,    *)
(* updater, ConfigMap, Refresh, worldState.                                *)
(***************************************************************************)
KeptIn(S, T) == \A a \in S \ T : ~Exists(a.pod)

OrderInv ==
    /\ ~cm.exists => cm.body = {}
    /\ KeptIn(cm.body, TopologyOf(pods)) /\ KeptIn(updater.top, TopologyOf(pods))
    /\ updater.pc # "idle" => KeptIn(cm.body, updater.top)
    /\ \A k \in Nodes :
          /\ KeptIn(cache[k].top, cm.body)
          /\ refresh[k].pc = "fetch" =>
                /\ KeptIn(cache[k].top, refresh[k].state.top)
                /\ KeptIn(refresh[k].state.top, cm.body)

\* What a step says of the assignments that are gone after it.
Sticks ==
    /\ \A a \in cm.body \ cm'.body : ~Exists(a.pod)
    /\ \A k \in Nodes : \A a \in cache[k].top \ cache[k]'.top : ~Exists(a.pod)

LEMMA OrderInit == Init => OrderInv
BY DEF Init, TopologyInit, NoCM, UpdaterInit, UpdaterIdle, ExporterInit, RefreshIdle,
       EmptyState, OrderInv, KeptIn

\* A pod that was granted devices is not created again, and what its annotation says
\* it says until the pod is deleted.
LEMMA PodsStep ==
    ASSUME TypeOK, MaxUid = 1, ExactInv, ClusterActions \/ AnnotatorActions
    PROVE  /\ \A a \in granted : Exists(a.pod)' => Exists(a.pod)
           /\ \A a \in TopologyOf(pods) : a \in TopologyOf(pods)' \/ ~Exists(a.pod)'
<1> DEFINE Same(n) ==
              /\ pods'[n].node = pods[n].node
              /\ pods[n].ann = {} \/ pods'[n].ann = pods[n].ann
              /\ pods'[n].phase # "Absent" => pods[n].phase # "Absent"
           Goal == \A n \in Names : \/ Same(n)
                                    \/ pods'[n].phase = "Absent"
                                    \/ GrantOf(n) = {}
<1>1. ASSUME ClusterActions PROVE Goal
  <2> USE DEF TypeOK, ClusterTypeOK, Pod
  <2>1. ASSUME NEW n \in Names, CreatePod(n) PROVE Goal
    <3>1. GrantOf(n) = {}
      <4>1. pods[n].uid # 1
        BY <2>1 DEF CreatePod
      <4> QED BY <4>1 DEF GrantOf, ExactInv, GrantInv
    <3>2. \A m \in Names \ {n} : pods'[m] = pods[m]
      BY <2>1 DEF CreatePod
    <3> QED BY <3>1, <3>2
  <2>2. ASSUME NEW n \in Names, NEW k \in Nodes, NEW devs \in SUBSET Gpus,
               Bind(n, k, devs)
        PROVE  Goal
    <3>1. GrantOf(n) = {}
      <4>1. pods[n].phase = "Pending"
        BY <2>2 DEF Bind
      <4> QED BY <4>1 DEF GrantOf, ExactInv, GrantInv
    <3>2. \A m \in Names \ {n} : pods'[m] = pods[m]
      BY <2>2 DEF Bind
    <3> QED BY <3>1, <3>2
  <2>3. ASSUME NEW n \in Names, FinishPod(n) PROVE Goal
    BY <2>3 DEF FinishPod
  <2>4. ASSUME NEW n \in Names, DeletePod(n) PROVE Goal
    BY <2>4 DEF DeletePod
  <2>5. ASSUME NEW n \in Names, NEW u \in 1..MaxUid, Release(n, u) PROVE Goal
    BY <2>5 DEF Release
  <2>6. ASSUME NEW n \in Names, NEW u \in Utils, SetUtil(n, u) PROVE Goal
    BY <2>6 DEF SetUtil
  <2> QED BY <1>1, <2>1, <2>2, <2>3, <2>4, <2>5, <2>6 DEF ClusterActions, ClusterNext
<1>2. ASSUME AnnotatorActions PROVE Goal
  <2>1. PICK k \in Nodes : AnnotatorStep(k) \/ AnnotatorFault(k) \/ AnnotatorCrash(k)
    BY <1>2 DEF AnnotatorActions, AnnotatorNext
  <2>2. ASSUME AnnotatorPatch(k) PROVE Goal
    <3>1. PICK e \in annotator[k].cur :
             pods' = IF Exists(e.pod)
                     THEN [pods EXCEPT ![e.pod].ann = e.devs] ELSE pods
      BY <2>2 DEF AnnotatorPatch
    <3>2. e.pod \in Names /\ e.devs = GrantOf(e.pod)
      BY DEF TypeOK, AnnotatorTypeOK, AnnotatorState, Entry, ExactInv, ExactEntry
    <3>3. \A n \in Names :
             /\ pods'[n].phase = pods[n].phase /\ pods'[n].node = pods[n].node
             /\ pods'[n].ann = pods[n].ann \/ (n = e.pod /\ pods'[n].ann = e.devs)
      BY <3>1, <3>2 DEF TypeOK, ClusterTypeOK, Pod
    <3>4. \A n \in Names : pods[n].ann \in {{}, GrantOf(n)}
      BY DEF ExactInv, GrantInv
    <3> QED BY <3>2, <3>3, <3>4
  <2>3. ASSUME UNCHANGED pods PROVE Goal
    BY <2>3
  <2> QED BY <2>1, <2>2, <2>3
          DEF AnnotatorStep, AnnotatorList, AnnotatorGet, AnnotatorFault,
              AnnotatorCrash, Fault, Crash, clusterVars
<1>g. Goal
  BY <1>1, <1>2
<1> HIDE DEF Same
<1>3. ASSUME NEW a \in granted
      PROVE  /\ a.pod \in Names /\ GrantOf(a.pod) # {}
             /\ Exists(a.pod)' => Exists(a.pod)
  <2>1. a.pod \in Names
    BY DEF TypeOK, ClusterTypeOK, Allocation
  <2>2. GrantOf(a.pod) # {}
    BY DEF GrantOf
  <2> QED BY <1>g, <2>1, <2>2 DEF Exists, Same
<1>4. ASSUME NEW a \in TopologyOf(pods)
      PROVE  a \in TopologyOf(pods)' \/ ~Exists(a.pod)'
  <2>1. a \in Assignment /\ pods[a.pod].node = a.node /\ a.gpu \in pods[a.pod].ann
    BY DEF TopologyOf
  <2>2. a.pod \in Names /\ pods[a.pod].ann # {}
    BY <2>1 DEF Assignment
  <2>3. GrantOf(a.pod) # {}
    BY <2>2 DEF ExactInv, GrantInv
  <2>4. Same(a.pod) \/ pods'[a.pod].phase = "Absent"
    BY <1>g, <2>2, <2>3
  <2> QED BY <2>1, <2>2, <2>4 DEF TopologyOf, Exists, Same
<1> QED BY <1>3, <1>4

LEMMA OrderPodsStep ==
    ASSUME TypeOK, MaxUid = 1, ExactInv, OrderInv, ClusterActions \/ AnnotatorActions
    PROVE  OrderInv' /\ Sticks
<1>1. UNCHANGED <<cm, updater, refresh, cache>>
  BY DEF ClusterActions, AnnotatorActions
<1>2. /\ \A a \in granted : Exists(a.pod)' => Exists(a.pod)
      /\ \A a \in TopologyOf(pods) : a \in TopologyOf(pods)' \/ ~Exists(a.pod)'
  BY PodsStep
<1>3. ASSUME NEW S, Exact(S), NEW a \in S PROVE Exists(a.pod)' => Exists(a.pod)
  <2>1. [node |-> a.node, gpu |-> a.gpu, pod |-> a.pod, uid |-> 1] \in granted
    BY <1>3 DEF Exact
  <2> QED BY <1>2, <2>1
<1>4. ASSUME NEW S, Exact(S), NEW T, KeptIn(S, T)
      PROVE  \A a \in S \ T : ~Exists(a.pod)'
  BY <1>3, <1>4 DEF KeptIn
<1>5. ASSUME NEW S, Exact(S), KeptIn(S, TopologyOf(pods))
      PROVE  \A a \in S : a \in TopologyOf(pods)' \/ ~Exists(a.pod)'
  BY <1>2, <1>3, <1>5 DEF KeptIn
<1>6. /\ Exact(cm.body) /\ Exact(updater.top)
      /\ \A k \in Nodes : Exact(refresh[k].state.top) /\ Exact(cache[k].top)
  BY DEF ExactInv
<1>7. /\ \A a \in cm.body : a \in TopologyOf(pods)' \/ ~Exists(a.pod)'
      /\ \A a \in updater.top : a \in TopologyOf(pods)' \/ ~Exists(a.pod)'
  BY <1>5, <1>6 DEF OrderInv
<1>8. updater.pc # "idle" => \A a \in cm.body \ updater.top : ~Exists(a.pod)'
  BY <1>4, <1>6 DEF OrderInv
<1>9. ASSUME NEW k \in Nodes
      PROVE  /\ \A a \in cache[k].top \ cm.body : ~Exists(a.pod)'
             /\ refresh[k].pc = "fetch" =>
                   /\ \A a \in cache[k].top \ refresh[k].state.top : ~Exists(a.pod)'
                   /\ \A a \in refresh[k].state.top \ cm.body : ~Exists(a.pod)'
  BY <1>4, <1>6 DEF OrderInv
<1>10. OrderInv'
  BY <1>1, <1>7, <1>8, <1>9 DEF OrderInv, KeptIn
<1> QED BY <1>1, <1>10 DEF Sticks

LEMMA NoCrash == ASSUME TypeOK, MaxCrashes = 0 PROVE ~Crash
BY DEF Crash, TypeOK, ClusterTypeOK

LEMMA OrderUpdaterStep ==
    ASSUME TypeOK, MaxCrashes = 0, OrderInv, UpdaterActions
    PROVE  OrderInv' /\ Sticks
<1>1. UNCHANGED <<pods, refresh, cache>>
  BY DEF UpdaterActions, UpdaterNext, UpdaterStep, UpdaterList, UpdaterGet, UpdaterWrite,
         UpdaterFault, Fault, Crash, clusterVars
<1>2. \A S : KeptIn(S, S)
  BY DEF KeptIn
<1>3. CASE UpdaterList
  <2>1. updater'.top = TopologyOf(pods) /\ cm' = cm
    BY <1>3 DEF UpdaterList
  <2> QED BY <1>1, <1>2, <2>1 DEF OrderInv, KeptIn, Exists, TopologyOf, Sticks
<1>4. CASE UpdaterGet \/ UpdaterFault
  <2>1. /\ cm' = cm
        /\ updater'.pc # "idle" => updater.pc # "idle"
        /\ updater'.top \in {updater.top, {}}
        /\ updater'.pc # "idle" => updater'.top = updater.top
    BY <1>4 DEF UpdaterGet, UpdaterFault, UpdaterIdle, TypeOK, UpdaterTypeOK
  <2> QED BY <1>1, <2>1 DEF OrderInv, KeptIn, Exists, TopologyOf, Sticks
<1>5. CASE UpdaterWrite
  <2>1. /\ updater.pc # "idle" /\ updater' = UpdaterIdle
        /\ cm' = cm \/ (cm'.exists /\ cm'.body = updater.top)
    BY <1>5 DEF UpdaterWrite
  <2>2. CASE cm' = cm
    BY <1>1, <2>1, <2>2 DEF OrderInv, KeptIn, Exists, TopologyOf, Sticks, UpdaterIdle
  <2>3. CASE cm'.exists /\ cm'.body = updater.top
    BY <1>1, <2>1, <2>3 DEF OrderInv, KeptIn, Exists, TopologyOf, Sticks, UpdaterIdle
  <2> QED BY <2>1, <2>2, <2>3
<1> QED BY <1>3, <1>4, <1>5 DEF UpdaterActions, UpdaterNext, UpdaterStep

LEMMA OrderExporterStep ==
    ASSUME TypeOK, MaxCrashes = 0, OrderInv, ExporterActions
    PROVE  OrderInv' /\ Sticks
<1>1. PICK j \in Nodes : RefreshStep(j) \/ RefreshFault(j)
  BY NoCrash DEF ExporterActions, ExporterNext, ExporterCrash
<1>2. UNCHANGED <<pods, cm, updater>>
  BY <1>1 DEF ExporterActions, RefreshStep, RefreshLoad, RefreshFetch, RefreshMiss,
      FetchFails, RefreshPublish, RefreshFault, Fault, clusterVars
<1> DEFINE Kept(k) == /\ KeptIn(cache[k].top, cm.body)
                      /\ refresh[k].pc = "fetch" =>
                            /\ KeptIn(cache[k].top, refresh[k].state.top)
                            /\ KeptIn(refresh[k].state.top, cm.body)
           Still(k) == \A a \in cache[k].top \ cache'[k].top : ~Exists(a.pod)
<1> USE DEF TypeOK, ExporterTypeOK, RefreshState, WorldState
<1>3. \A k \in Nodes \ {j} : refresh'[k] = refresh[k] /\ cache'[k] = cache[k]
  BY <1>1 DEF RefreshStep, RefreshLoad, RefreshFetch, RefreshMiss, FetchFails,
      RefreshPublish, RefreshFault
<1>4. \A k \in Nodes : Kept(k)
  BY DEF OrderInv
<1>5. Kept(j)' /\ Still(j)
  <2>1. CASE RefreshLoad(j)
    <3>1. /\ cache' = cache /\ refresh'[j].state.top = Load
      BY <2>1 DEF RefreshLoad, EmptyState
    <3>2. Load = cm.body
      BY DEF Load, OrderInv
    <3> QED BY <1>2, <1>4, <3>1, <3>2 DEF KeptIn, Exists
  <2>2. CASE RefreshFetch(j) \/ FetchFails(j)
    <3>1. /\ cache' = cache /\ refresh'[j].state.top = refresh[j].state.top
          /\ refresh'[j].pc = refresh[j].pc
      BY <2>2 DEF RefreshFetch, FetchFails
    <3> QED BY <1>2, <1>4, <3>1 DEF KeptIn, Exists
  <2>3. CASE RefreshPublish(j)
    <3>1. /\ refresh[j].pc = "fetch" /\ cache'[j].top = refresh[j].state.top
          /\ refresh'[j].pc = "idle"
      BY <2>3 DEF RefreshPublish, RefreshIdle
    <3> QED BY <1>2, <1>4, <3>1 DEF KeptIn, Exists
  <2> QED BY <1>1, <2>1, <2>2, <2>3 DEF RefreshStep, RefreshMiss, RefreshFault
<1>6. \A k \in Nodes : Kept(k)' /\ Still(k)
  BY <1>2, <1>3, <1>4, <1>5 DEF KeptIn, Exists
<1> QED BY <1>2, <1>6 DEF OrderInv, KeptIn, Exists, TopologyOf, Sticks

\* Without name reuse, restarts and ConfigMap deletions, an assignment that was saved or
\* published stays until its pod is deleted: no failed call and no stale List, Get or
\* Load makes the GPU of a pod that is still there go idle (run.go:49, cache.go:51).
THEOREM AttributionAlwaysSticks ==
    (MaxUid = 1 /\ MaxCrashes = 0) => (Spec => AttributionSticks)
<1> SUFFICES ASSUME MaxUid = 1, MaxCrashes = 0 PROVE Spec => AttributionSticks
  OBVIOUS
<1>1. ASSUME TypeOK, ExactInv, OrderInv, [Next]_vars
      PROVE  OrderInv' /\ [Sticks]_vars
  <2>1. CASE UNCHANGED vars
    BY <1>1, <2>1 DEF vars, clusterVars, OrderInv, KeptIn, Exists, TopologyOf
  <2>2. ~CMActions
    BY <1>1, NoCrash DEF CMActions, DeleteCM
  <2> QED BY <1>1, <2>1, <2>2, OrderPodsStep, OrderUpdaterStep, OrderExporterStep DEF Next
<1>2. ExactInv /\ TypeOK /\ OrderInv /\ [Next]_vars => OrderInv' /\ [Sticks]_vars
  BY <1>1
<1> QED BY <1>2, OrderInit, TypeCorrect, ExactInvariant, PTL
        DEF Spec, AttributionSticks, Sticks
=============================================================================
