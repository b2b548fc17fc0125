---------------------------- MODULE ExporterCache ----------------------------
(***************************************************************************)
(* internal/exporter: each node's metrics-exporter keeps a worldState that *)
(* Refresh rebuilds every tick - Load of the ConfigMap, then a Get of each *)
(* pod assigned to this node, then one publication under the lock - and    *)
(* that every scrape reads.                                                *)
(***************************************************************************)
EXTENDS TopologyCM

CONSTANT DefaultUtil    \* the --default-utilization flag

BadUtil   == "malformed"    \* an annotation or flag that does not parse
ZeroRange == "0-0"          \* Go's zero value of annotations.Range
NoRange   == "missing"      \* the map has no entry for the pod

ASSUME DefaultUtilAssumption ==
    /\ DefaultUtil # NoUtil
    /\ {NoRange, ZeroRange} \cap (Utils \cup {DefaultUtil}) = {}

VARIABLES
    refresh,    \* refresh[k]: the Refresh in progress on node k
    cache       \* cache[k]: the worldState that node k publishes

Ranges == Utils \cup {DefaultUtil, ZeroRange, NoRange}

\* worldState: a topology, and podRanges, a map from pod names to ranges.
WorldState == [top: SUBSET Assignment, ranges: [Names -> Ranges]]

EmptyState == [top |-> {}, ranges |-> [n \in Names |-> NoRange]]

RefreshState ==
    [pc: {"idle", "fetch"}, todo: SUBSET Assignment, state: WorldState]

RefreshIdle == [pc |-> "idle", todo |-> {}, state |-> EmptyState]

ExporterTypeOK ==
    /\ refresh \in [Nodes -> RefreshState]
    /\ cache \in [Nodes -> WorldState]

ExporterInit ==
    /\ refresh = [k \in Nodes |-> RefreshIdle]
    /\ cache = [k \in Nodes |-> EmptyState]

\* The range of annotation u, the default's when u is absent or malformed, and
\* the zero Range (the error is dropped) when the default is malformed too.
ParseUtilizationWithDefault(u) ==
    IF u \notin {NoUtil, BadUtil} THEN u
    ELSE IF DefaultUtil # BadUtil THEN DefaultUtil
    ELSE ZeroRange

AssignmentsOf(top, k) == {a \in top : a.node = k}

AssignedOn(top, k) == {a.pod : a \in AssignmentsOf(top, k)}

\* Load succeeds.  When it fails Refresh returns and nothing changes.
RefreshLoad(k) ==
    /\ refresh[k].pc = "idle"
    /\ refresh' = [refresh EXCEPT ![k] =
          [pc |-> "fetch", todo |-> AssignmentsOf(Load, k),
           state |-> [EmptyState EXCEPT !.top = Load]]]
    /\ UNCHANGED <<clusterVars, cm, cache>>

\* The loop runs over the assignments, pod by pod.
NextAssignments(k) ==
    {a \in refresh[k].todo : \A b \in refresh[k].todo : a.pod <= b.pod}

\* Mutant: a range that is known is not parsed again.
RefreshFetch_KeepsKnown(k) ==
    /\ \E a \in NextAssignments(k) :
          /\ Exists(a.pod)
          /\ refresh' = [refresh EXCEPT
                ![k].todo = {b \in @ : b.pod # a.pod},
                ![k].state.ranges[a.pod] =
                    IF cache[k].ranges[a.pod] # NoRange
                    THEN cache[k].ranges[a.pod]
                    ELSE ParseUtilizationWithDefault(pods[a.pod].util)]
    /\ UNCHANGED <<clusterVars, cm, cache>>

\* Get of the next pod gives its range, and the pod's further assignments are
\* passed over.
RefreshFetch(k) ==
    /\ \E a \in NextAssignments(k) :
          /\ Exists(a.pod)
          /\ refresh' = [refresh EXCEPT
                ![k].todo = {b \in @ : b.pod # a.pod},
                ![k].state.ranges[a.pod] =
                    ParseUtilizationWithDefault(pods[a.pod].util)]
    /\ UNCHANGED <<clusterVars, cm, cache>>

\* Mutant: the assignment of a pod that cannot be fetched is dropped.
FetchFails_DropsAssignment(k) ==
    /\ \E a \in NextAssignments(k) :
          refresh' = [refresh EXCEPT ![k].todo = @ \ {a},
                                     ![k].state.top = @ \ {a}]
    /\ UNCHANGED <<cm, cache>>

\* The Get fails: no range, and a pod with another GPU is asked for again.
FetchFails(k) ==
    /\ \E a \in NextAssignments(k) :
          refresh' = [refresh EXCEPT ![k].todo = @ \ {a}]
    /\ UNCHANGED <<cm, cache>>

\* The next pod is gone.
RefreshMiss(k) ==
    /\ \A a \in NextAssignments(k) : ~Exists(a.pod)
    /\ FetchFails(k)
    /\ UNCHANGED clusterVars

\* The Get of the next pod fails for another reason.
RefreshFault(k) == Fault /\ FetchFails(k)

\* Mutant: the new ranges are merged into the old map.
RefreshPublish_MergesRanges(k) ==
    /\ refresh[k].pc = "fetch"
    /\ refresh[k].todo = {}
    /\ cache' = [cache EXCEPT ![k] =
          [top |-> refresh[k].state.top,
           ranges |-> [n \in Names |-> IF refresh[k].state.ranges[n] # NoRange
                                       THEN refresh[k].state.ranges[n]
                                       ELSE cache[k].ranges[n]]]]
    /\ refresh' = [refresh EXCEPT ![k] = RefreshIdle]
    /\ UNCHANGED <<clusterVars, cm>>

\* The fresh topology and ranges replace the state that scrapes read.
RefreshPublish(k) ==
    /\ refresh[k].pc = "fetch"
    /\ refresh[k].todo = {}
    /\ cache' = [cache EXCEPT ![k] = refresh[k].state]
    /\ refresh' = [refresh EXCEPT ![k] = RefreshIdle]
    /\ UNCHANGED <<clusterVars, cm>>

\* The exporter restarts with newCache's empty state.
ExporterCrash(k) ==
    /\ Crash
    /\ refresh' = [refresh EXCEPT ![k] = RefreshIdle]
    /\ cache' = [cache EXCEPT ![k] = EmptyState]
    /\ UNCHANGED cm

RefreshStep(k) ==
    RefreshLoad(k) \/ RefreshFetch(k) \/ RefreshMiss(k) \/ RefreshPublish(k)

ExporterNext ==
    \E k \in Nodes : RefreshStep(k) \/ RefreshFault(k) \/ ExporterCrash(k)

\* What a scrape of node k reports for GPU g: the pod in its labels, NoPod for
\* the idle baseline, and the range its utilization is drawn from (a Go map
\* without the key yields the zero Range).
ScrapedPod(k, g) == FindAssignment(cache[k].top, k, g)

ScrapedRange(k, g) ==
    LET n == ScrapedPod(k, g)
    IN  IF n = NoPod \/ cache[k].ranges[n] = NoRange THEN ZeroRange
        ELSE cache[k].ranges[n]
=============================================================================
