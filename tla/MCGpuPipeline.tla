---- MODULE MCGpuPipeline ----
EXTENDS GpuPipeline
====
