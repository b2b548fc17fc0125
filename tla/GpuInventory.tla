---------------------------- MODULE GpuInventory ----------------------------
(***************************************************************************)
(* The devices of a node, counted three times over: by the device plugin,  *)
(* which advertises buildDevices; by the metrics-exporter, which publishes *)
(* a series per element of BuildGPUs; by rocm-smi, which lists buildCards. *)
(* An allocation reaches a metric label only where their ids agree.        *)
(*                                                                         *)
(* Device "gpu-i" is the number i.  Counts are mathematical integers: the  *)
(* CRD bounds a partition count by 8, and a node's capacity an int32.      *)
(***************************************************************************)
EXTENDS Integers

\* deviceplugin.New takes a negative count for none.
buildDevices(n) == 0..((IF n < 0 THEN 0 ELSE n) - 1)

\* BuildGPUs and buildCards coerce the flags they are given once more.
PartitionCount(mode, count) ==
    IF mode # "cpx" \/ count < 1 THEN 1 ELSE count

\* One GPU for every partition of every physical card.
BuildGPUs(physical, mode, count) ==
    LET c == PartitionCount(mode, count)
    IN  {[id |-> card * c + part, card |-> card, partition |-> part] :
            card \in 0..(physical - 1), part \in 0..(c - 1)}

\* The memory of one GPU of a card with memoryBytes (memoryBytes >= 0).
PartitionMemory(memoryBytes, mode, count) ==
    memoryBytes \div PartitionCount(mode, count)

GpuIds(gpus) == {g.id : g \in gpus}
=============================================================================
