---------------------------- MODULE MCGpuCluster ----------------------------
(* Clusters of two worker nodes. *)
EXTENDS GpuCluster
=============================================================================
