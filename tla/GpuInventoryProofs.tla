------------------------- MODULE GpuInventoryProofs -------------------------
(***************************************************************************)
(* The exporter's GPUs are the plugin's devices, for every number of cards *)
(* and every partitioning: card and partition are quotient and remainder   *)
(* of the device id.                                                       *)
(***************************************************************************)
EXTENDS GpuInventory, TLAPS

\* A partition count is positive whatever the flags say.
LEMMA PartitionCountPositive ==
    ASSUME NEW mode, NEW count \in Int
    PROVE  PartitionCount(mode, count) \in Nat \ {0}
BY DEF PartitionCount

\* Every number is a multiple of a positive one plus a remainder.
LEMMA DivMod ==
    ASSUME NEW i \in Nat, NEW c \in Nat \ {0}
    PROVE  \E q \in Nat, r \in 0..(c - 1) : i = q * c + r
<1>1. i \div c \in Nat /\ i % c \in 0..(c - 1) /\ i = (i \div c) * c + (i % c)
  OBVIOUS
<1> QED BY <1>1

\* A product grows with its first factor.
LEMMA ProductMonotone ==
    ASSUME NEW a \in Nat, NEW b \in Nat, NEW c \in Nat, a <= b
    PROVE  a * c <= b * c
OBVIOUS

\* Every device that the plugin advertises has a series of its own in the
\* exporter, and no other series: BuildGPUs enumerates exactly the ids of
\* buildDevices for the product of cards and partitions.
THEOREM SeriesAreDevices ==
    ASSUME NEW physical \in Nat, NEW mode, NEW count \in Int
    PROVE  GpuIds(BuildGPUs(physical, mode, count))
             = buildDevices(physical * PartitionCount(mode, count))
<1> DEFINE c == PartitionCount(mode, count)
           gpu(card, part) ==
               [id |-> card * c + part, card |-> card, partition |-> part]
<1>1. c \in Nat \ {0}
  BY PartitionCountPositive
<1>2. BuildGPUs(physical, mode, count) =
          {gpu(card, part) : card \in 0..(physical - 1), part \in 0..(c - 1)}
  BY DEF BuildGPUs
<1> HIDE DEF c
<1>3. physical * c \in Nat
  BY <1>1
<1>4. buildDevices(physical * c) = 0..(physical * c - 1)
  BY <1>3 DEF buildDevices
<1>5. ASSUME NEW card \in 0..(physical - 1), NEW part \in 0..(c - 1)
      PROVE  card * c + part \in 0..(physical * c - 1)
  <2>1. (card + 1) * c <= physical * c
    BY <1>1, ProductMonotone
  <2>2. (card + 1) * c = card * c + c /\ card * c \in Nat
    BY <1>1
  <2> QED BY <1>1, <1>3, <2>1, <2>2
<1>6. ASSUME NEW i \in 0..(physical * c - 1)
      PROVE  \E card \in 0..(physical - 1), part \in 0..(c - 1) : i = card * c + part
  <2> i \in Nat
    BY <1>3
  <2>1. PICK card \in Nat, part \in 0..(c - 1) : i = card * c + part
    BY <1>1, DivMod, Zenon
  <2>2. card < physical
    <3> SUFFICES ASSUME physical <= card PROVE FALSE
      BY <2>1
    <3>1. physical * c <= card * c
      BY <1>1, <2>1, ProductMonotone
    <3>2. card * c \in Nat
      BY <1>1, <2>1
    <3> QED BY <1>1, <1>3, <2>1, <3>1, <3>2
  <2> QED BY <2>1, <2>2
<1>7. ASSUME NEW x \in GpuIds(BuildGPUs(physical, mode, count))
      PROVE  x \in 0..(physical * c - 1)
  <2>1. PICK g \in BuildGPUs(physical, mode, count) : x = g.id
    BY DEF GpuIds
  <2> HIDE DEF gpu
  <2>2. PICK card \in 0..(physical - 1), part \in 0..(c - 1) : g = gpu(card, part)
    BY <1>2
  <2>3. x = card * c + part
    BY <2>1, <2>2 DEF gpu
  <2> QED BY <1>5, <2>3
<1>8. ASSUME NEW i \in 0..(physical * c - 1)
      PROVE  i \in GpuIds(BuildGPUs(physical, mode, count))
  <2>1. PICK card \in 0..(physical - 1), part \in 0..(c - 1) : i = card * c + part
    BY <1>6
  <2>2. gpu(card, part) \in BuildGPUs(physical, mode, count)
    BY <1>2
  <2>3. gpu(card, part).id = i
    BY <2>1
  <2> HIDE DEF gpu
  <2> QED BY <2>2, <2>3 DEF GpuIds
<1>9. GpuIds(BuildGPUs(physical, mode, count)) = 0..(physical * c - 1)
  BY <1>7, <1>8
<1> QED BY <1>4, <1>9 DEF c

\* No two partitions share an id, so no two series share their gpu_id label.
THEOREM SeriesAreDistinct ==
    ASSUME NEW physical \in Nat, NEW mode, NEW count \in Int,
           NEW g \in BuildGPUs(physical, mode, count),
           NEW h \in BuildGPUs(physical, mode, count),
           g.id = h.id
    PROVE  g = h
<1> DEFINE c == PartitionCount(mode, count)
<1>1. c \in Nat \ {0}
  BY PartitionCountPositive
<1>2. /\ g = [id |-> g.card * c + g.partition, card |-> g.card, partition |-> g.partition]
      /\ h = [id |-> h.card * c + h.partition, card |-> h.card, partition |-> h.partition]
      /\ g.card \in Nat /\ h.card \in Nat
      /\ g.partition \in 0..(c - 1) /\ h.partition \in 0..(c - 1)
  BY DEF BuildGPUs
<1> HIDE DEF c
<1>3. ASSUME NEW a \in Nat, NEW b \in Nat, NEW p \in 0..(c - 1), NEW q \in 0..(c - 1),
             a * c + p = b * c + q, a < b
      PROVE  FALSE
  <2>1. (a + 1) * c <= b * c
    BY <1>1, <1>3, ProductMonotone
  <2>2. (a + 1) * c = a * c + c /\ a * c \in Nat /\ b * c \in Nat
    BY <1>1
  <2> QED BY <1>1, <1>3, <2>1, <2>2
<1>4. g.card * c + g.partition = h.card * c + h.partition
  BY <1>2
<1>5. ~(g.card < h.card) /\ ~(h.card < g.card)
  BY <1>2, <1>3, <1>4
<1>6. g.card = h.card
  BY <1>2, <1>5
<1>7. g.partition = h.partition
  <2> DEFINE m == g.card * c
  <2>1. m \in Nat
    BY <1>1, <1>2
  <2>2. m + g.partition = m + h.partition
    BY <1>4, <1>6
  <2> HIDE DEF m
  <2> QED BY <1>1, <1>2, <2>1, <2>2
<1> QED BY <1>2, <1>6, <1>7
=============================================================================
