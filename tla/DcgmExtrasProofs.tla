-------------------------- MODULE DcgmExtrasProofs --------------------------
(***************************************************************************)
(* Proofs about DcgmExtras, for any finite sets of names and slots, any    *)
(* nodes and any bounds: a listing is a bijection from positions to pods,  *)
(* so a Refresh gives each consumer one slot, as far as there are slots.   *)
(***************************************************************************)
EXTENDS DcgmExtras, FiniteSetTheorems, FunctionTheorems, TLAPS

(***************************************************************************)
(* A listing puts every member of a set of names at one position.          *)
(***************************************************************************)

Below(S, n) == {m \in S : m < n}

LEMMA NamesAreFinite ==
    ASSUME NEW S \in SUBSET Names
    PROVE  IsFiniteSet(S) /\ Cardinality(S) \in Nat /\ S \subseteq Nat
BY FiniteAssumption, NamesAssumption, FS_Subset, FS_CardinalityType

\* Fewer names come before an earlier one, and never all of them.
LEMMA RankGrows ==
    ASSUME NEW S \in SUBSET Names, NEW n \in S
    PROVE  /\ Cardinality(Below(S, n)) \in 0..(Cardinality(S) - 1)
           /\ \A m \in S : m < n => Cardinality(Below(S, m)) # Cardinality(Below(S, n))
<1>1. IsFiniteSet(S) /\ Cardinality(S) \in Nat /\ S \subseteq Nat
  BY NamesAreFinite
<1>2. IsFiniteSet(S \ {n}) /\ Cardinality(S \ {n}) = Cardinality(S) - 1
  BY <1>1, FS_RemoveElement
<1>3. Below(S, n) \in SUBSET (S \ {n})
  BY <1>1 DEF Below
<1>4. /\ IsFiniteSet(Below(S, n))
      /\ Cardinality(Below(S, n)) <= Cardinality(S) - 1
      /\ Cardinality(Below(S, n)) \in Nat
  BY <1>2, <1>3, FS_Subset, FS_CardinalityType
<1>5. ASSUME NEW m \in S, m < n
      PROVE  Cardinality(Below(S, m)) # Cardinality(Below(S, n))
  <2>1. Below(S, m) \in SUBSET Below(S, n)
    <3>1. \A l, a, b \in Nat : (l < a /\ a < b) => l < b
      OBVIOUS
    <3>2. \A l \in S : l < m => l < n
      BY <1>1, <1>5, <3>1
    <3> QED BY <3>2 DEF Below
  <2>2. m \in Below(S, n) /\ m \notin Below(S, m)
    BY <1>1, <1>5 DEF Below
  <2> QED BY <1>4, <2>1, <2>2, FS_Subset
<1> QED BY <1>1, <1>4, <1>5

\* Ranks are distinct, and there are as many as names: each is somebody's.
LEMMA RankTaken ==
    ASSUME NEW S \in SUBSET Names, NEW i \in 1..Cardinality(S)
    PROVE  \E n \in S : Cardinality(Below(S, n)) = i - 1
<1> DEFINE T == 1..Cardinality(S)
           rank == [n \in S |-> Cardinality(Below(S, n)) + 1]
<1>1. IsFiniteSet(S) /\ Cardinality(S) \in Nat /\ S \subseteq Nat
  BY NamesAreFinite
<1>2. \A n \in S : Cardinality(Below(S, n)) \in 0..(Cardinality(S) - 1)
  BY RankGrows
<1>3. \A m, n \in S : m < n => Cardinality(Below(S, m)) # Cardinality(Below(S, n))
  BY RankGrows
<1>4. rank \in [S -> T]
  BY <1>1, <1>2
<1>5. ASSUME NEW m \in S, NEW n \in S, rank[m] = rank[n] PROVE m = n
  <2>1. Cardinality(Below(S, m)) = Cardinality(Below(S, n))
    BY <1>1, <1>2, <1>5
  <2>2. ~(m < n) /\ ~(n < m)
    BY <1>3, <2>1
  <2>3. m \in Nat /\ n \in Nat
    BY <1>1
  <2> QED BY <2>2, <2>3
<1>6. IsFiniteSet(T) /\ Cardinality(T) = Cardinality(S)
  <2>1. IsFiniteSet(1..Cardinality(S))
        /\ Cardinality(1..Cardinality(S))
              = IF 1 > Cardinality(S) THEN 0 ELSE Cardinality(S) - 1 + 1
    BY <1>1, FS_Interval
  <2> QED BY <1>1, <2>1
<1> HIDE DEF rank, T
<1>7. rank \in Injection(S, T)
  BY <1>4, <1>5, Fun_IsInj
<1>8. rank \in Surjection(S, T)
  BY <1>6, <1>7, FS_Injection
<1>9. PICK n \in S : rank[n] = i
  BY <1>8 DEF Surjection, T
<1>10. Cardinality(Below(S, n)) + 1 = i
  BY <1>9 DEF rank
<1> QED BY <1>1, <1>2, <1>10

\* Listed(S) is a bijection from positions to S.
THEOREM ListedOnce ==
    ASSUME NEW S \in SUBSET Names
    PROVE  /\ \A i \in 1..Cardinality(S) : Listed(S)[i] \in S
           /\ \A i, j \in 1..Cardinality(S) : Listed(S)[i] = Listed(S)[j] => i = j
           /\ \A n \in S : \E i \in 1..Cardinality(S) : Listed(S)[i] = n
<1>1. IsFiniteSet(S) /\ Cardinality(S) \in Nat /\ S \subseteq Nat
  BY NamesAreFinite
<1>2. ASSUME NEW i \in 1..Cardinality(S)
      PROVE  Listed(S)[i] \in S /\ Cardinality(Below(S, Listed(S)[i])) = i - 1
  <2>1. Listed(S)[i] = CHOOSE n \in S : Cardinality(Below(S, n)) = i - 1
    BY <1>2 DEF Listed, Below
  <2> QED BY <2>1, RankTaken
<1>3. ASSUME NEW i \in 1..Cardinality(S), NEW j \in 1..Cardinality(S),
             Listed(S)[i] = Listed(S)[j]
      PROVE  i = j
  <2>1. i - 1 = j - 1
    BY <1>2, <1>3
  <2> QED BY <2>1
<1>4. ASSUME NEW n \in S PROVE \E i \in 1..Cardinality(S) : Listed(S)[i] = n
  <2> DEFINE i == Cardinality(Below(S, n)) + 1
             l == Listed(S)[i]
  <2>1. Cardinality(Below(S, n)) \in 0..(Cardinality(S) - 1)
    BY RankGrows
  <2>2. i \in 1..Cardinality(S)
    BY <1>1, <2>1
  <2>3. l \in S /\ Cardinality(Below(S, l)) = i - 1
    BY <1>2, <2>2
  <2> HIDE DEF l
  <2>4. Cardinality(Below(S, l)) = Cardinality(Below(S, n))
    BY <2>1, <2>3
  <2>5. ~(l < n) /\ ~(n < l)
    BY <2>3, <2>4, RankGrows
  <2>6. l = n
    BY <1>1, <2>3, <2>5
  <2> QED BY <2>2, <2>6 DEF l
<1> QED BY <1>2, <1>3, <1>4

-----------------------------------------------------------------------------
(***************************************************************************)
(* Type correctness.                                                       *)
(***************************************************************************)

\* What users, scheduler and kubelets do to the cluster keeps its types.
LEMMA ClusterTypeStep ==
    ASSUME ClusterTypeOK, ClusterNext
    PROVE  ClusterTypeOK'
<1> USE DEF ClusterTypeOK
<1>1. ASSUME NEW n \in Names, CreatePod(n) PROVE ClusterTypeOK'
  <2>1. pods[n].uid + 1 \in 0..MaxUid
    BY <1>1, BoundsAssumption DEF CreatePod, Pod
  <2> QED BY <1>1, <2>1 DEF CreatePod, Pod, Phases, budgets
<1>2. ASSUME NEW n \in Names, NEW k \in Nodes, NEW devs \in SUBSET Gpus, Bind(n, k, devs)
      PROVE  ClusterTypeOK'
  <2> DEFINE new == {[node |-> k, gpu |-> g, pod |-> n, uid |-> pods[n].uid] : g \in devs}
             bound == [pods[n] EXCEPT !.phase = "Running", !.node = k]
  <2>1. new \subseteq Allocation
    BY DEF Pod, Allocation
  <2>2. bound \in Pod
    BY DEF Pod, Phases
  <2>3. /\ held' = held \cup new /\ granted' = granted \cup new
        /\ pods' = [pods EXCEPT ![n] = bound]
        /\ UNCHANGED <<faults, crashes>>
    BY <1>2 DEF Bind, budgets
  <2> HIDE DEF new, bound
  <2> QED BY <2>1, <2>2, <2>3
<1>3. ASSUME NEW n \in Names, FinishPod(n) PROVE ClusterTypeOK'
  BY <1>3 DEF FinishPod, Pod, Phases, budgets
<1>4. ASSUME NEW n \in Names, DeletePod(n) PROVE ClusterTypeOK'
  <2>1. [pods[n] EXCEPT !.phase = "Absent", !.node = NoNode, !.ann = {}, !.util = NoUtil]
            \in Pod
    BY UtilsAssumption DEF Pod, Phases
  <2>2. pods' \in [Names -> Pod]
    BY <1>4, <2>1 DEF DeletePod
  <2> QED BY <1>4, <2>2 DEF DeletePod, budgets
<1>5. ASSUME NEW n \in Names, NEW u \in 1..MaxUid, Release(n, u) PROVE ClusterTypeOK'
  BY <1>5 DEF Release, budgets
<1>6. ASSUME NEW n \in Names, NEW u \in Utils, SetUtil(n, u) PROVE ClusterTypeOK'
  BY <1>6 DEF SetUtil, Pod, budgets
<1> QED BY <1>1, <1>2, <1>3, <1>4, <1>5, <1>6 DEF ClusterNext

LEMMA ConsumersAreNames ==
    ASSUME NEW k
    PROVE  /\ Consumers(k) \in SUBSET Names
           /\ Cardinality(Consumers(k)) \in Nat
           /\ Cardinality(Consumers(k)) <= Cardinality(Names)
BY FiniteAssumption, FS_Subset, FS_CardinalityType DEF Consumers

\* What a Refresh publishes: position by position a consumer and its range.
LEMMA AssignedType ==
    ASSUME ClusterTypeOK, NEW S \in SUBSET Names
    PROVE  /\ Assigned(S) \in Seq(nodeAssignment)
           /\ Len(Assigned(S)) = Cardinality(S)
           /\ \A i \in 1..Cardinality(S) :
                 Assigned(S)[i] = [pod |-> Listed(S)[i], util |-> pods[Listed(S)[i]].util]
<1>1. Cardinality(S) \in Nat
  BY NamesAreFinite
<1>2. ASSUME NEW i \in 1..Cardinality(S)
      PROVE  [pod |-> Listed(S)[i], util |-> pods[Listed(S)[i]].util] \in nodeAssignment
  <2>1. Listed(S)[i] \in Names
    BY ListedOnce
  <2>2. pods[Listed(S)[i]].util \in Utils
    BY <2>1 DEF ClusterTypeOK, Pod
  <2> QED BY <2>1, <2>2 DEF nodeAssignment
<1>3. Assigned(S) \in [1..Cardinality(S) -> nodeAssignment]
  BY <1>2 DEF Assigned
<1>4. Assigned(S) \in Seq(nodeAssignment) /\ Len(Assigned(S)) = Cardinality(S)
  BY <1>1, <1>3
<1> QED BY <1>4 DEF Assigned

\* The cache is a function of the nodes, which DcgmTypeOK leaves open.
TypeInv == DcgmTypeOK /\ DOMAIN assignments = Nodes

LEMMA TypeInit == DcgmInit => TypeInv
<1> SUFFICES ASSUME DcgmInit PROVE TypeInv
  OBVIOUS
<1>1. ClusterTypeOK
  BY BoundsAssumption, UtilsAssumption
  DEF DcgmInit, ClusterInit, ClusterTypeOK, Pod, Phases
<1>2. Cardinality(Names) \in Nat
  BY FiniteAssumption, FS_CardinalityType
<1>3. << >> \in Seq(nodeAssignment) /\ Len(<< >>) = 0
  OBVIOUS
<1> QED BY <1>1, <1>2, <1>3 DEF DcgmInit, TypeInv, DcgmTypeOK

LEMMA TypeStep == ASSUME TypeInv, DcgmNext PROVE TypeInv'
<1> USE DEF TypeInv, DcgmTypeOK
<1>1. CASE ClusterNext /\ UNCHANGED assignments
  BY <1>1, ClusterTypeStep
<1>2. ASSUME NEW k \in Nodes, Refresh(k) PROVE TypeInv'
  <2> DEFINE new == Assigned(Consumers(k))
  <2>1. new \in Seq(nodeAssignment) /\ Len(new) <= Cardinality(Names)
    BY ConsumersAreNames, AssignedType
  <2>2. assignments' = [assignments EXCEPT ![k] = new] /\ UNCHANGED clusterVars
    BY <1>2 DEF Refresh
  <2>3. ClusterTypeOK'
    BY <2>2 DEF ClusterTypeOK, clusterVars, budgets
  <2> HIDE DEF new
  <2> QED BY <2>1, <2>2, <2>3
<1>3. ASSUME NEW k \in Nodes, Restart(k) PROVE TypeInv'
  <2>1. ClusterTypeOK'
    BY <1>3, BoundsAssumption DEF Restart, Crash, ClusterTypeOK
  <2>2. << >> \in Seq(nodeAssignment) /\ Len(<< >>) = 0 /\ Cardinality(Names) \in Nat
    BY FiniteAssumption, FS_CardinalityType
  <2> QED BY <1>3, <2>1, <2>2 DEF Restart
<1> QED BY <1>1, <1>2, <1>3 DEF DcgmNext

LEMMA TypeInvariant == DcgmSpec => []TypeInv
<1>1. TypeInv /\ UNCHANGED dcgmVars => TypeInv'
  BY DEF TypeInv, DcgmTypeOK, ClusterTypeOK, dcgmVars, clusterVars, budgets
<1>2. TypeInv /\ [DcgmNext]_dcgmVars => TypeInv'
  BY <1>1, TypeStep
<1> QED BY <1>2, TypeInit, PTL DEF DcgmSpec

\* Every node's cache is a list of pods with their annotation, no longer than
\* the pods there are names for, whatever is listed when.
THEOREM TypeCorrect == DcgmSpec => []DcgmTypeOK
<1>1. TypeInv => DcgmTypeOK
  BY DEF TypeInv
<1> QED BY <1>1, TypeInvariant, PTL

-----------------------------------------------------------------------------
(***************************************************************************)
(* A Refresh deals the slots out: the safety half of EventuallyReported    *)
(* and EventuallyForgotten, which need it to happen again and again.       *)
(***************************************************************************)

\* The consumers of node k for whom there is a slot, in list order.
Served(k) ==
    {n \in Consumers(k) : Cardinality(Below(Consumers(k), n)) < Cardinality(Gpus)}

\* As long as there are enough slots, every consumer is served.
LEMMA EnoughSlots ==
    ASSUME NEW k, Cardinality(Consumers(k)) <= Cardinality(Gpus)
    PROVE  Served(k) = Consumers(k)
<1>1. Cardinality(Consumers(k)) \in Nat /\ Cardinality(Gpus) \in Nat
  BY ConsumersAreNames, FiniteAssumption, FS_CardinalityType
<1>2. ASSUME NEW n \in Consumers(k)
      PROVE  Cardinality(Below(Consumers(k), n)) < Cardinality(Gpus)
  <2>1. Cardinality(Below(Consumers(k), n)) \in 0..(Cardinality(Consumers(k)) - 1)
    BY ConsumersAreNames, RankGrows
  <2> QED BY <1>1, <2>1
<1> QED BY <1>2 DEF Served

\* The position of a name in a listing is one more than its rank.
LEMMA ListedAtRank ==
    ASSUME NEW S \in SUBSET Names, NEW n \in S
    PROVE  /\ Cardinality(Below(S, n)) + 1 \in 1..Cardinality(S)
           /\ \A i \in 1..Cardinality(S) :
                 Listed(S)[i] = n <=> i = Cardinality(Below(S, n)) + 1
<1>1. Cardinality(S) \in Nat
  BY NamesAreFinite
<1>2. \A i \in 1..Cardinality(S) : Cardinality(Below(S, Listed(S)[i])) = i - 1
  <2> SUFFICES ASSUME NEW i \in 1..Cardinality(S)
               PROVE  Cardinality(Below(S, Listed(S)[i])) = i - 1
    OBVIOUS
  <2>1. Listed(S)[i] = CHOOSE m \in S : Cardinality(Below(S, m)) = i - 1
    BY DEF Listed, Below
  <2> QED BY <2>1, RankTaken
<1>3. PICK j \in 1..Cardinality(S) : Listed(S)[j] = n
  BY ListedOnce
<1>4. j = Cardinality(Below(S, n)) + 1
  <2>1. Cardinality(Below(S, n)) = j - 1
    BY <1>2, <1>3
  <2> QED BY <1>1, <2>1
<1>5. \A i \in 1..Cardinality(S) : Listed(S)[i] = n => i = j
  BY <1>3, ListedOnce
<1> QED BY <1>3, <1>4, <1>5

DealsOut(k) ==
    \A n \in Names :
        /\ Labelled(k, n)' <=> n \in Served(k)
        /\ n \in Served(k) => Reported(k, n, pods[n].util)'

LEMMA RefreshDealsOut ==
    ASSUME TypeInv, NEW k \in Nodes, Refresh(k)
    PROVE  DealsOut(k)
<1> DEFINE S == Consumers(k)
           new == Assigned(S)
<1>1. S \in SUBSET Names /\ Cardinality(S) \in Nat /\ Cardinality(Gpus) \in Nat
  BY ConsumersAreNames, FiniteAssumption, FS_CardinalityType
<1>2. /\ Len(new) = Cardinality(S)
      /\ \A i \in 1..Cardinality(S) :
            new[i] = [pod |-> Listed(S)[i], util |-> pods[Listed(S)[i]].util]
  BY <1>1, AssignedType DEF TypeInv, DcgmTypeOK
<1>3. assignments'[k] = new
  BY DEF Refresh, TypeInv
<1> HIDE DEF new, S
<1>4. Dealt(k)' = {i \in 1..Cardinality(S) : i <= Cardinality(Gpus)}
  <2>1. Dealt(k)' = {i \in 1..Cardinality(Gpus) : i <= Cardinality(S)}
    BY <1>2, <1>3 DEF Dealt, Slots
  <2> QED BY <1>1, <2>1
<1> SUFFICES ASSUME NEW n \in Names
             PROVE  /\ Labelled(k, n)' <=> n \in Served(k)
                    /\ n \in Served(k) => Reported(k, n, pods[n].util)'
  BY DEF DealsOut
<1>5. Labelled(k, n)' => n \in Served(k)
  <2> SUFFICES ASSUME NEW i \in Dealt(k)', assignments'[k][i].pod = n
               PROVE  n \in Served(k)
    BY DEF Labelled
  <2>1. i \in 1..Cardinality(S) /\ i <= Cardinality(Gpus) /\ Listed(S)[i] = n
    BY <1>2, <1>3, <1>4
  <2>2. n \in S
    BY <1>1, <2>1, ListedOnce
  <2>3. i = Cardinality(Below(S, n)) + 1
    BY <1>1, <2>1, <2>2, ListedAtRank
  <2>4. Cardinality(Below(S, n)) \in Nat
    BY <1>1, <2>2, RankGrows
  <2>5. Cardinality(Below(S, n)) < Cardinality(Gpus)
    BY <1>1, <2>1, <2>3, <2>4
  <2> QED BY <2>2, <2>5 DEF Served, S
<1>6. n \in Served(k) => Reported(k, n, pods[n].util)'
  <2> SUFFICES ASSUME n \in Served(k) PROVE Reported(k, n, pods[n].util)'
    OBVIOUS
  <2> DEFINE i == Cardinality(Below(S, n)) + 1
  <2>1. n \in S /\ Cardinality(Below(S, n)) < Cardinality(Gpus)
    BY DEF Served, S
  <2>2. i \in 1..Cardinality(S) /\ Listed(S)[i] = n
    BY <1>1, <2>1, ListedAtRank
  <2>3. Cardinality(Below(S, n)) \in Nat
    BY <1>1, <2>1, RankGrows
  <2>4. i \in Dealt(k)'
    BY <1>1, <1>4, <2>1, <2>2, <2>3
  <2> HIDE DEF i
  <2>5. assignments'[k][i] = [pod |-> n, util |-> pods[n].util]
    BY <1>2, <1>3, <2>2
  <2>6. pods' = pods
    BY DEF Refresh, clusterVars
  <2> QED BY <2>4, <2>5, <2>6 DEF Reported
<1>7. n \in Served(k) => Labelled(k, n)'
  <2> SUFFICES ASSUME n \in Served(k) PROVE Labelled(k, n)'
    OBVIOUS
  <2>1. PICK i \in Dealt(k)' : assignments'[k][i] = [pod |-> n, util |-> pods'[n].util]
    BY <1>6 DEF Reported
  <2>2. assignments'[k][i].pod = n
    BY <2>1
  <2> QED BY <2>2 DEF Labelled
<1> QED BY <1>5, <1>6, <1>7

\* After a Refresh the pods that requested a GPU have a series with their name
\* and their annotation, in list order and as far as there are slots, and
\* nobody else has: a pod that is gone, or on another node, keeps none.
THEOREM RefreshServes ==
    DcgmSpec => [][\A k \in Nodes : Refresh(k) => DealsOut(k)]_dcgmVars
<1>1. TypeInv /\ [DcgmNext]_dcgmVars =>
          [\A k \in Nodes : Refresh(k) => DealsOut(k)]_dcgmVars
  BY RefreshDealsOut
<1>2. DcgmSpec => []TypeInv
  BY TypeInvariant
<1> QED BY <1>1, <1>2, PTL DEF DcgmSpec

\* Two slots of a node never show the same pod: Refresh replaces the list, it
\* does not add to it.
OneSlotEach ==
    \A k \in Nodes : \A i, j \in 1..Len(assignments[k]) :
        assignments[k][i].pod = assignments[k][j].pod => i = j

\* No pod is ever reported twice on a node, whatever the order of listings,
\* restarts and pods that come back under their name.
THEOREM NoPodTwice == DcgmSpec => []OneSlotEach
<1>1. DcgmInit => OneSlotEach
  BY DEF DcgmInit, OneSlotEach
<1>2. ASSUME TypeInv, OneSlotEach, DcgmNext PROVE OneSlotEach'
  <2>1. CASE UNCHANGED assignments
    BY <1>2, <2>1 DEF OneSlotEach
  <2>2. ASSUME NEW k \in Nodes, Refresh(k) PROVE OneSlotEach'
    <3> DEFINE S == Consumers(k)
               new == Assigned(S)
    <3>1. S \in SUBSET Names
      BY ConsumersAreNames
    <3>2. /\ Len(new) = Cardinality(S)
          /\ \A i \in 1..Cardinality(S) :
                new[i] = [pod |-> Listed(S)[i], util |-> pods[Listed(S)[i]].util]
      BY <1>2, <3>1, AssignedType DEF TypeInv, DcgmTypeOK
    <3>3. assignments' = [assignments EXCEPT ![k] = new]
      BY <2>2 DEF Refresh
    <3> HIDE DEF new
    <3>4. \A i, j \in 1..Len(new) : new[i].pod = new[j].pod => i = j
      <4>1. \A i, j \in 1..Cardinality(S) : Listed(S)[i] = Listed(S)[j] => i = j
        BY <3>1, ListedOnce
      <4> HIDE DEF S
      <4> QED BY <3>2, <4>1
    <3> QED BY <1>2, <3>3, <3>4 DEF OneSlotEach, TypeInv
  <2>3. ASSUME NEW k \in Nodes, Restart(k) PROVE OneSlotEach'
    BY <1>2, <2>3 DEF Restart, OneSlotEach, TypeInv
  <2> QED BY <1>2, <2>1, <2>2, <2>3 DEF DcgmNext
<1>3. OneSlotEach /\ UNCHANGED dcgmVars => OneSlotEach'
  BY DEF OneSlotEach, dcgmVars
<1>4. TypeInv /\ OneSlotEach /\ [DcgmNext]_dcgmVars => OneSlotEach'
  BY <1>2, <1>3
<1>5. DcgmSpec => []TypeInv
  BY TypeInvariant
<1> QED BY <1>1, <1>4, <1>5, PTL DEF DcgmSpec
=============================================================================
