----------------------------- MODULE SimsConfig -----------------------------
(***************************************************************************)
(* What becomes of the flags and the --config file of `sims gpu create`:   *)
(* the loader checks and completes the file (pkg/simsconfig), applyConfig  *)
(* lays the flags over it, Render and the values builders hand parts of    *)
(* the result to kind and to the charts, the API server admits the         *)
(* DeviceConfig, the controller passes flags to its children, each child   *)
(* checks its own once more, and the command waits for the nodes to report *)
(* what comes out at the end.  GpuCluster has the calls that fail on the   *)
(* way; here none does, and two minutes are enough for what can start.     *)
(*                                                                         *)
(* Products go by the name of their family, memory is in GiB.  Left out:   *)
(* flags that take the same way (name, k8s-version, monitoring).           *)
(***************************************************************************)
EXTENDS GpuInventory, FiniteSets

CONSTANTS
    Families,   \* the catalog: family -> [vendor, memory]
    FlagSets,   \* command lines: [vendor, workers, gpus, taint]
    Files,      \* what --config may name; NoFile if it is not given
    Texts,      \* utilization annotations: [lo, hi], or NoText
    None, Unset, NoFile, NoText, NaN, Junk

Vendors == {"nvidia", "amd"}

\* What a range "lo-hi" may be read as: numbers, NaN, or Junk that is neither.
Bands == [lo : Int \cup {NaN, Junk}, hi : Int \cup {NaN, Junk}]

ASSUME CatalogAssumption ==
    /\ \A f \in DOMAIN Families : Families[f].vendor \in Vendors /\ Families[f].memory \in Int
    /\ "" \notin DOMAIN Families /\ {"MI300X", "T4"} \subseteq DOMAIN Families
    /\ Families["MI300X"].vendor = "amd" /\ Families["MI300X"].memory = 192
    /\ Families["T4"].vendor = "nvidia" /\ Families["T4"].memory = 16
ASSUME FlagsAssumption ==
    FlagSets \subseteq [vendor : STRING \cup {Unset}, workers : Int \cup {Unset},
                       gpus : Int \cup {Unset}, taint : BOOLEAN \cup {Unset}]
ASSUME FilesAssumption ==
    Files \ {NoFile} \subseteq
        [vendor : STRING, workers : Int, perWorker : Int, taint : BOOLEAN,
         family : STRING, memory : Int, mig : BOOLEAN, mode : STRING,
         count : Int, util : Bands \cup {NoText}]

\* The values of the GPU chart, of either vendor.
Models == [product : DOMAIN Families, memory : Int]
Releases ==
    [gpus : Int, model : Models,
     extras : [product : DOMAIN Families, mig : BOOLEAN, gpus : Int]]
    \cup [gpus : Int, model : Models, mode : {"spx", "cpx"}, count : 1..8, util : Bands]

ASSUME ValuesAssumption ==
    /\ {NaN, Junk} \cap Int = {} /\ Unset \notin Int /\ None \notin Releases
    /\ NoText \in Texts /\ NoText \notin Bands /\ Texts \ {NoText} \subseteq Bands

VARIABLES
    flags, file,    \* the input
    pc,             \* how far the command is
    opts,           \* createOpts
    nodes,          \* workers of the kind cluster
    release,        \* the values of the GPU chart, its defaults merged in
    up,             \* processes of the GPU stack that run
    capacity,       \* capacity[n]: what node n reports, or NotReported
    said,           \* the line that the command ends with
    text            \* the annotation of a pod with a GPU

vars == <<flags, file, pc, opts, nodes, release, up, capacity, said, text>>

\* createOpts, the parts of it that have a way of their own.
Options ==
    [vendor : STRING, workers : Int, gpus : Int, taint : BOOLEAN,
     product : DOMAIN Families \cup {""}, memory : Int,
     mig : BOOLEAN, mode : {"", "spx", "cpx"}, count : Int, util : Bands \cup {NoText}]

NotReported == -1

-----------------------------------------------------------------------------
(***************************************************************************)
(* Ranges "lo-hi".  Comparisons with NaN are false.                        *)
(***************************************************************************)
Below(x, y)  == NaN \notin {x, y} /\ x < y
AtMost(x, y) == NaN \notin {x, y} /\ x <= y

UtilRange(lo, hi) == [lo |-> lo, hi |-> hi]
DefaultUtilizationRange == UtilRange(5, 15)

\* Mutant: a range may be inverted.
validateUtilRange_Inverted(t) ==
    /\ {t.lo, t.hi} \cap {NaN, Junk} = {}
    /\ {t.lo, t.hi} \subseteq 0..100

\* The loader reads integers.
validateUtilRange(t) ==
    /\ {t.lo, t.hi} \cap {NaN, Junk} = {}
    /\ {t.lo, t.hi} \subseteq 0..100
    /\ t.lo <= t.hi

\* Mutant: the upper bound is not checked.
ParseUtilizationWithDefault_NoBound(s, fallback) ==
    LET t == IF s = NoText THEN fallback ELSE s
    IN  IF Junk \in {t.lo, t.hi} \/ Below(t.lo, 0) \/ Below(t.hi, t.lo)
        THEN NoText
        ELSE t

\* The AMD exporter reads floating-point numbers; NoText stands for an error.
ParseUtilizationWithDefault(s, fallback) ==
    LET t == IF s = NoText THEN fallback ELSE s
    IN  IF \/ Junk \in {t.lo, t.hi}
           \/ Below(t.lo, 0) \/ Below(100, t.hi) \/ Below(t.hi, t.lo)
        THEN NoText
        ELSE t

\* fake-dcgm-extras: what is not a range within 0..100 counts as the default.
sampleUtil(s) ==
    IF /\ s # NoText /\ Junk \notin {s.lo, s.hi}
       /\ AtMost(0, s.lo) /\ AtMost(s.hi, 100) /\ AtMost(s.lo, s.hi)
    THEN s
    ELSE DefaultUtilizationRange

-----------------------------------------------------------------------------
(***************************************************************************)
(* The file.                                                               *)
(***************************************************************************)
\* What the loader refuses.
validate(f) ==
    /\ f.vendor \in Vendors
    /\ f.family # "" => /\ f.family \in DOMAIN Families
                        /\ Families[f.family].vendor = f.vendor
    /\ f.mig => f.vendor = "nvidia"
    /\ f.mode # "" \/ f.count # 0 => f.vendor = "amd"
    /\ f.mode \in {"", "spx", "cpx"}
    /\ f.count # 0 => f.count \in 1..8
    /\ f.util # NoText => validateUtilRange(f.util)

\* Mutant: a negative number is taken as it is.
PositiveOr2_ZeroOnly(n) == IF n = 0 THEN 2 ELSE n

\* The default that the loader and Render both have.
PositiveOr2(n) == IF n <= 0 THEN 2 ELSE n

ApplyFamilyDefaults(f) ==
    [f EXCEPT !.workers = PositiveOr2(@),
              !.perWorker = PositiveOr2(@),
              !.memory = IF f.family # "" /\ @ = 0
                         THEN Families[f.family].memory ELSE @]

Given(flag, otherwise) == IF flag # Unset THEN flag ELSE otherwise

\* createOpts when no file is given.
FlagOpts(fl) ==
    [vendor |-> fl.vendor, workers |-> Given(fl.workers, 2),
     gpus |-> Given(fl.gpus, 2), taint |-> Given(fl.taint, FALSE),
     product |-> "", memory |-> 0,
     mig |-> FALSE, mode |-> "", count |-> 0, util |-> NoText]

\* Mutant: the file goes before the flag.
FileOpts_FileWins(fl, f) ==
    [vendor |-> Given(fl.vendor, f.vendor), workers |-> f.workers,
     gpus |-> f.perWorker, taint |-> Given(fl.taint, f.taint),
     product |-> f.family, memory |-> IF f.family # "" THEN f.memory ELSE 0,
     mig |-> f.mig, mode |-> f.mode, count |-> f.count, util |-> f.util]

\* applyConfig: a flag that was given goes before the file; the rest of the
\* file has no flag.  Memory counts only beside a family.
FileOpts(fl, f) ==
    [vendor |-> Given(fl.vendor, f.vendor), workers |-> Given(fl.workers, f.workers),
     gpus |-> Given(fl.gpus, f.perWorker), taint |-> Given(fl.taint, f.taint),
     product |-> f.family, memory |-> IF f.family # "" THEN f.memory ELSE 0,
     mig |-> f.mig, mode |-> f.mode, count |-> f.count, util |-> f.util]

-----------------------------------------------------------------------------
(***************************************************************************)
(* The values, with the defaults of the charts where none is given.        *)
(***************************************************************************)
Model(o, product, memory) ==
    IF o.product # "" THEN [product |-> o.product, memory |-> o.memory]
                      ELSE [product |-> product, memory |-> memory]

\* Mutant: fake-dcgm-extras is told the product and not the number.
buildNVIDIAValues_ProductOnly(o) ==
    LET model == Model(o, "T4", 16)
    IN  [gpus |-> o.gpus, model |-> model,
         extras |-> [product |-> model.product, mig |-> o.mig, gpus |-> 2]]

\* model: product and memory; extras: what fake-dcgm-extras is told.
buildNVIDIAValues(o) ==
    LET model == Model(o, "T4", 16)
    IN  [gpus |-> o.gpus, model |-> model,
         extras |-> [product |-> model.product, mig |-> o.mig,
                     gpus |-> IF o.product # "" THEN o.gpus ELSE 2]]

buildAMDValues(o) ==
    [gpus  |-> o.gpus,
     model |-> Model(o, "MI300X", 192),
     mode  |-> IF o.mode # "" THEN o.mode ELSE "spx",
     count |-> IF o.mode # "" THEN o.count ELSE 1,
     util  |-> IF o.util # NoText THEN o.util ELSE DefaultUtilizationRange]

\* Mutant: the schema ends at 7.
Admitted_OffByOne(v) == v.mode \in {"spx", "cpx"} /\ v.count \in 1..7

\* The schema of the DeviceConfig.
Admitted(v) == v.mode \in {"spx", "cpx"} /\ v.count \in 1..8

-----------------------------------------------------------------------------
(***************************************************************************)
(* The command.                                                            *)
(***************************************************************************)
Init ==
    /\ flags \in FlagSets /\ file \in Files
    /\ pc = "load"
    /\ opts = None /\ nodes = 0 /\ release = None
    /\ up = {} /\ capacity = <<>> /\ said = None /\ text = NoText

clusterVars == <<nodes, release, up, capacity, text>>

Refuse ==
    /\ pc' = "refused"
    /\ UNCHANGED <<flags, file, opts, said, clusterVars>>

applyConfig ==
    /\ pc = "load"
    /\ IF file = NoFile
       THEN /\ flags.vendor # Unset
            /\ opts' = FlagOpts(flags)
       ELSE /\ validate(file)
            /\ opts' = FileOpts(flags, ApplyFamilyDefaults(file))
    /\ pc' = "configured"
    /\ UNCHANGED <<flags, file, said, clusterVars>>

ConfigRefused ==
    /\ pc = "load"
    /\ IF file = NoFile THEN flags.vendor = Unset ELSE ~validate(file)
    /\ Refuse

validateVendor == opts.vendor \in Vendors

\* Render and the kind cluster made from it.
Create ==
    /\ pc = "configured" /\ validateVendor
    /\ nodes' = PositiveOr2(opts.workers)
    /\ capacity' = [n \in 1..nodes' |-> NotReported]
    /\ pc' = "created"
    /\ UNCHANGED <<flags, file, opts, said, release, up, text>>

VendorRefused ==
    /\ pc = "configured" /\ ~validateVendor
    /\ Refuse

Install ==
    /\ pc = "created"
    /\ LET v == IF opts.vendor = "amd" THEN buildAMDValues(opts)
                                       ELSE buildNVIDIAValues(opts)
       IN  IF opts.vendor = "amd" => Admitted(v)
           THEN release' = v /\ pc' = "waiting"
           ELSE pc' = "failed" /\ UNCHANGED release
    /\ UNCHANGED <<flags, file, opts, said, nodes, up, capacity, text>>

Processes ==
    IF release = None THEN {}
    ELSE IF opts.vendor = "amd" THEN {"controller", "plugin", "exporter", "labeller"}
    ELSE {"operator", "extras"}

\* The counts that the processes are started with (buildDevicePluginDS,
\* buildMetricsExporterDS and the DaemonSet of fake-dcgm-extras).
GpusPerNode(k) ==
    CASE k = "plugin"   -> release.gpus * PartitionCount(release.mode, release.count)
      [] k = "exporter" -> release.gpus
      [] k = "extras"   -> release.extras.gpus
      [] OTHER          -> 0

\* No pod of the charts or of the controller tolerates the taint, the control
\* plane has its own, and a process told of fewer than 0 GPUs ends.  The
\* DaemonSets exist once the controller runs.
Startable(k) ==
    /\ ~opts.taint
    /\ GpusPerNode(k) >= 0
    /\ k \in {"plugin", "exporter", "labeller"} => "controller" \in up

\* Pods start in any order.  Whether fake-gpu-operator tolerates the taint is
\* not known here.
Start(k) ==
    /\ k \in Processes \ up
    /\ Startable(k) \/ k = "operator"
    /\ up' = up \cup {k}
    /\ UNCHANGED <<flags, file, pc, opts, said, nodes, release, capacity, text>>

\* What a node gets to report from the plugin or from fake-gpu-operator.
Advertised ==
    IF "plugin" \in up THEN Cardinality(buildDevices(GpusPerNode("plugin")))
    ELSE IF "operator" \in up THEN release.gpus
    ELSE NotReported

NodeReports(n) ==
    /\ n \in DOMAIN capacity
    /\ capacity[n] = NotReported /\ Advertised >= 0
    /\ capacity' = [capacity EXCEPT ![n] = Advertised]
    /\ UNCHANGED <<flags, file, pc, opts, said, nodes, release, up, text>>

ReadyWorkers ==
    {n \in DOMAIN capacity :
        capacity[n] # NotReported /\ capacity[n] >= opts.gpus}

\* waitForCapacity has seen enough.
Succeed ==
    /\ pc = "waiting"
    /\ Cardinality(ReadyWorkers) >= opts.workers
    /\ said' = [workers |-> opts.workers, gpus |-> opts.gpus]
    /\ pc' = "ready"
    /\ UNCHANGED <<flags, file, opts, clusterVars>>

\* It gives up when nothing is left that starts or reports.
TimesOut ==
    /\ pc = "waiting"
    /\ Cardinality(ReadyWorkers) < opts.workers
    /\ \A k \in Processes \ up : ~Startable(k)
    /\ Advertised >= 0 => \A n \in DOMAIN capacity : capacity[n] # NotReported
    /\ pc' = "failed"
    /\ UNCHANGED <<flags, file, opts, said, clusterVars>>

\* A user annotates a pod that holds a GPU.
Annotate(t) ==
    /\ pc = "ready" /\ text = NoText /\ t # NoText
    /\ text' = t
    /\ UNCHANGED <<flags, file, pc, opts, said, nodes, release, up, capacity>>

\* The range that a scrape draws the load of the pod's GPU from: the AMD
\* exporter falls back to its own default, and to Range{} if that is malformed.
Drawn ==
    IF opts.vendor = "nvidia" THEN sampleUtil(text)
    ELSE LET Parsed(t) == ParseUtilizationWithDefault(t, release.util)
         IN  IF Parsed(text) # NoText THEN Parsed(text)
             ELSE IF Parsed(NoText) # NoText THEN Parsed(NoText)
             ELSE UtilRange(0, 0)

Command == \/ applyConfig \/ ConfigRefused \/ Create \/ VendorRefused
           \/ Install \/ Succeed \/ TimesOut

Cluster ==
    \/ \E k \in Processes : Start(k)
    \/ \E n \in DOMAIN capacity : NodeReports(n)

Next == Command \/ Cluster \/ \E t \in Texts : Annotate(t)

Spec == Init /\ [][Next]_vars

\* The command and Kubernetes go on.  Nothing is asked of fake-gpu-operator
\* behind a taint.
FairSpec ==
    /\ Spec
    /\ WF_vars(Command)
    /\ WF_vars(\E k \in Processes : Startable(k) /\ Start(k))
    /\ WF_vars(\E n \in DOMAIN capacity : NodeReports(n))

-----------------------------------------------------------------------------
(***************************************************************************)
(* Properties.                                                             *)
(***************************************************************************)
TypeOK ==
    /\ flags \in FlagSets /\ file \in Files /\ text \in Texts
    /\ pc \in {"load", "configured", "created", "waiting",
              "ready", "refused", "failed"}
    /\ pc \notin {"load", "refused"} => opts \in Options
    /\ release \in Releases \cup {None}
    /\ nodes \in Nat /\ DOMAIN capacity = 1..nodes
    /\ \A n \in 1..nodes : capacity[n] = NotReported \/ capacity[n] >= 0
    /\ up \subseteq Processes

\* A file without a word, for a command without one.
NothingSaid ==
    [vendor |-> "", workers |-> 0, perWorker |-> 0, taint |-> FALSE, family |-> "",
     memory |-> 0, mig |-> FALSE, mode |-> "", count |-> 0, util |-> NoText]
File == IF file = NoFile THEN NothingSaid ELSE file

\* What the user asked for, by the documentation: the flag, else the file, else 2.
Asked(flag, n) == IF flag # Unset THEN flag ELSE IF n > 0 THEN n ELSE 2
AskedWorkers == Asked(flags.workers, File.workers)
AskedGpus    == Asked(flags.gpus, File.perWorker)
AskedVendor  == Given(flags.vendor, File.vendor)
AskedDevices ==
    AskedGpus * (IF AskedVendor = "amd" /\ File.mode = "cpx" THEN File.count ELSE 1)

\* "ready -- %d workers x %d" (gpu_create.go:200): it names what the flags, and
\* where there is none the file, asked for (README.md:89), the cluster has as
\* many workers, and as many report exactly that, times the partitions.
ReadyAsAsked ==
    pc = "ready" =>
        /\ said = [workers |-> AskedWorkers, gpus |-> AskedGpus]
        /\ AskedWorkers > 0 => nodes = AskedWorkers
        /\ Cardinality({n \in 1..nodes : capacity[n] = AskedDevices}) >= AskedWorkers

\* The parts of a stack, told by different ways, mean the same GPUs: AMD's
\* plugin and exporter the same devices (gpu_create.go:334), NVIDIA's operator
\* and exporter the same number and product when the file names a family
\* (gpu_create.go:308).  The product is one of the vendor's, unless --vendor was
\* given, and the memory is the product's, unless the file sets it beside a family.
StackAgrees ==
    release # None =>
        /\ flags.vendor = Unset => Families[release.model.product].vendor = opts.vendor
        /\ release.model.memory =
              IF File.family # "" /\ File.memory # 0 THEN File.memory
                                                   ELSE Families[release.model.product].memory
        /\ opts.vendor = "amd" =>
              GpuIds(BuildGPUs(GpusPerNode("exporter"), release.mode, release.count))
                  = buildDevices(GpusPerNode("plugin"))
        /\ opts.vendor = "nvidia" /\ File.family # "" =>
              /\ release.extras.gpus = release.gpus
              /\ release.extras.product = release.model.product

Scraped == pc = "ready" /\ up \cap {"exporter", "extras"} # {}

\* The load of a pod is drawn from a band within 0..100, whatever its
\* annotation says (parse.go:26-30, sample.go:112), on either vendor.
DrawnInBounds ==
    Scraped =>
        AtMost(0, Drawn.lo) /\ AtMost(Drawn.lo, Drawn.hi) /\ AtMost(Drawn.hi, 100)

\* An AMD pod whose annotation is missing or malformed is loaded with the
\* defaultUtilization of the file, or with 5-15 if there is none: what the
\* loader (load.go:83) lets through, the exporter (parse.go:37) can read.
DefaultApplies ==
    (Scraped /\ opts.vendor = "amd" /\ (text = NoText \/ Junk \in {text.lo, text.hi})) =>
        Drawn = IF File.util = NoText THEN DefaultUtilizationRange ELSE File.util

\* Input that does not run into one of the gaps the README lists: a partition
\* mode without a count, a taint, a negative number of GPUs.
Sound ==
    /\ AskedVendor \in Vendors
    /\ file # NoFile => validate(file)
    /\ AskedVendor = "amd" /\ File.mode # "" => File.count # 0
    /\ ~Given(flags.taint, File.taint)
    /\ AskedGpus >= 0

\* Sound input makes a cluster: no later stage refuses what an earlier one lets
\* through (load.go:66-72, the CRD, the flag checks of the processes).
SoundIsReady == (pc = "load" /\ Sound) ~> (pc = "ready")

-----------------------------------------------------------------------------
(***************************************************************************)
(* What the documentation says and the code does not do.                   *)
(***************************************************************************)
\* gpu_create.go:78 and docs/quickstart.md:44 offer tainted workers, and
\* docs/quickstart.md:49 a partition mode: a configuration that is accepted
\* makes a cluster.
AcceptedIsReady == (pc = "created") ~> (pc = "ready")

\* fake-dcgm-extras/chart/values.yaml:1: the CLI sets gpusPerNode "from
\* --gpus-per-worker".
ExtrasFollowFlags ==
    (release # None /\ opts.vendor = "nvidia") => release.extras.gpus = AskedGpus
=============================================================================
