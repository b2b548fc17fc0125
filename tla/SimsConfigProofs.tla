-------------------------- MODULE SimsConfigProofs --------------------------
(***************************************************************************)
(* Proofs about SimsConfig, for every catalog, every set of flags, files   *)
(* and annotations.  The invariant says of each variable which function of *)
(* the input it is: opts is the merger of flags and file, release what the *)
(* values builders make of opts, a report what the plugin makes of that.   *)
(***************************************************************************)
EXTENDS SimsConfig, GpuInventoryProofs, FiniteSetTheorems, TLAPS

OptsAreMerged ==
    IF file = NoFile
    THEN flags.vendor # Unset /\ opts = FlagOpts(flags)
    ELSE validate(file) /\ opts = FileOpts(flags, ApplyFamilyDefaults(file))

ReleaseIsBuilt ==
    IF opts.vendor = "amd"
    THEN release = buildAMDValues(opts) /\ Admitted(release)
    ELSE release = buildNVIDIAValues(opts)

Flow ==
    /\ flags \in FlagSets /\ file \in Files
    /\ pc \in {"load", "configured", "created", "waiting",
              "ready", "refused", "failed"}
    /\ up \subseteq Processes
    /\ pc \notin {"load", "refused"} => OptsAreMerged
    /\ pc \notin {"load", "refused", "configured"} => validateVendor
    /\ release # None =>
          pc \notin {"load", "refused", "configured", "created"} /\ ReleaseIsBuilt

-----------------------------------------------------------------------------
\* The invariant holds at first, and every step keeps it.
LEMMA FlowInit == Init => Flow
BY DEF Init, Flow, Processes

LEMMA FlowNext == Flow /\ [Next]_vars => Flow'
<1> SUFFICES ASSUME Flow, [Next]_vars PROVE Flow'
  OBVIOUS
<1> USE DEF Flow
<1>1. CASE applyConfig
  BY <1>1 DEF applyConfig, OptsAreMerged, Processes, clusterVars
<1>2. CASE ConfigRefused
  BY <1>2 DEF ConfigRefused, Refuse, Processes, clusterVars
<1>3. CASE Create
  BY <1>3 DEF Create, OptsAreMerged, Processes, validateVendor
<1>4. CASE VendorRefused
  BY <1>4 DEF VendorRefused, Refuse, Processes, clusterVars
<1>5. CASE Install
  <2>1. release = None /\ up = {}
    BY <1>5 DEF Install, Processes
  <2>2. OptsAreMerged' /\ validateVendor'
    BY <1>5 DEF Install, OptsAreMerged, validateVendor
  <2>3. pc' \in {"waiting", "failed"} /\ up' = {}
    BY <1>5, <2>1 DEF Install
  <2>4. release' # None => pc' = "waiting" /\ ReleaseIsBuilt'
    BY <1>5, <2>1 DEF Install, ReleaseIsBuilt
  <2> QED BY <1>5, <2>2, <2>3, <2>4 DEF Install
<1>6. CASE Succeed
  BY <1>6 DEF Succeed, OptsAreMerged, ReleaseIsBuilt, Processes, validateVendor, clusterVars
<1>7. CASE TimesOut
  BY <1>7 DEF TimesOut, OptsAreMerged, ReleaseIsBuilt, Processes, validateVendor, clusterVars
<1>8. ASSUME NEW k \in Processes, Start(k) PROVE Flow'
  BY <1>8 DEF Start, OptsAreMerged, ReleaseIsBuilt, Processes, validateVendor
<1>9. ASSUME NEW n \in DOMAIN capacity, NodeReports(n) PROVE Flow'
  BY <1>9 DEF NodeReports, OptsAreMerged, ReleaseIsBuilt, Processes, validateVendor
<1>10. ASSUME NEW t \in Texts, Annotate(t) PROVE Flow'
  BY <1>10 DEF Annotate, OptsAreMerged, ReleaseIsBuilt, Processes, validateVendor
<1>11. CASE UNCHANGED vars
  BY <1>11 DEF vars, OptsAreMerged, ReleaseIsBuilt, Processes, validateVendor
<1> QED
  BY <1>1, <1>2, <1>3, <1>4, <1>5, <1>6, <1>7, <1>8, <1>9, <1>10, <1>11
     DEF Next, Command, Cluster

LEMMA FlowAlways == Spec => []Flow
BY FlowInit, FlowNext, PTL DEF Spec

-----------------------------------------------------------------------------
LEMMA PositiveOr2Int == ASSUME NEW n \in Int PROVE PositiveOr2(n) \in Int
BY DEF PositiveOr2

LEMMA GivenInt ==
    ASSUME NEW x, x \in Int \/ x = Unset, NEW y \in Int PROVE Given(x, y) \in Int
BY DEF Given

\* What the merger makes of each flag and each field of the file.
LEMMA Merged ==
    ASSUME Flow, OptsAreMerged
    PROVE  /\ flags.vendor = Unset => file # NoFile /\ opts.vendor = File.vendor
           /\ opts.product = File.family
           /\ opts.memory = IF File.family = "" THEN 0
                            ELSE IF File.memory # 0 THEN File.memory
                            ELSE Families[File.family].memory
           /\ opts.gpus \in Int
           /\ opts.mode = File.mode /\ opts.util = File.util
<1>1. flags.gpus \in Int \/ flags.gpus = Unset
  BY FlagsAssumption DEF Flow
<1>2. CASE file = NoFile
  <2>1. /\ File.family = "" /\ File.mode = "" /\ File.util = NoText
        /\ flags.vendor # Unset /\ opts = FlagOpts(flags)
    BY <1>2 DEF OptsAreMerged, File, NothingSaid
  <2>2. /\ opts.product = "" /\ opts.memory = 0 /\ opts.mode = "" /\ opts.util = NoText
        /\ opts.gpus = Given(flags.gpus, 2)
    BY <2>1 DEF FlagOpts
  <2>3. opts.gpus \in Int
    <3>1. 2 \in Int
      OBVIOUS
    <3>2. Given(flags.gpus, 2) \in Int
      BY ONLY <1>1, <3>1, GivenInt
    <3> QED BY <3>2, <2>2
  <2> QED BY <2>1, <2>2, <2>3
<1>3. CASE file # NoFile
  <2> DEFINE f == ApplyFamilyDefaults(file)
  <2>1. /\ File = file
        /\ file \in [vendor : STRING, workers : Int, perWorker : Int, taint : BOOLEAN,
                      family : STRING, memory : Int, mig : BOOLEAN, mode : STRING,
                      count : Int, util : Bands \cup {NoText}]
    BY <1>3, FilesAssumption DEF Flow, File
  <2>2. /\ f.vendor = file.vendor /\ f.family = file.family
        /\ f.perWorker = PositiveOr2(file.perWorker)
        /\ f.mode = file.mode /\ f.util = file.util
        /\ f.memory = IF file.family # "" /\ file.memory = 0
                      THEN Families[file.family].memory ELSE file.memory
    BY <2>1 DEF ApplyFamilyDefaults
  <2>3. f.perWorker \in Int
    <3>1. file.perWorker \in Int
      BY <2>1
    <3> QED BY <3>1, <2>2, PositiveOr2Int
  <2>4. opts = FileOpts(flags, f)
    BY <1>3 DEF OptsAreMerged
  <2> HIDE DEF f
  <2>5. /\ opts.vendor = Given(flags.vendor, f.vendor)
        /\ opts.gpus = Given(flags.gpus, f.perWorker)
        /\ opts.product = f.family /\ opts.mode = f.mode /\ opts.util = f.util
        /\ opts.memory = IF f.family # "" THEN f.memory ELSE 0
    BY <2>4 DEF FileOpts
  <2>6. opts.gpus \in Int
    BY <1>1, <2>3, <2>5, GivenInt
  <2>7. flags.vendor = Unset => opts.vendor = File.vendor
    BY <2>1, <2>2, <2>5 DEF Given
  <2>8. opts.memory = IF File.family = "" THEN 0
                      ELSE IF File.memory # 0 THEN File.memory
                      ELSE Families[File.family].memory
    BY <2>1, <2>2, <2>5
  <2> QED BY <1>3, <2>1, <2>2, <2>5, <2>6, <2>7, <2>8
<1> QED BY <1>2, <1>3

-----------------------------------------------------------------------------
(***************************************************************************)
(* Ranges.                                                                 *)
(***************************************************************************)

\* What the loader lets through, the exporter reads as it is.
LEMMA LoaderIsStricter ==
    ASSUME NEW t, t # NoText, validateUtilRange(t)
    PROVE  /\ ParseUtilizationWithDefault(NoText, t) = t
           /\ \A s : (s = NoText \/ Junk \in {s.lo, s.hi}) =>
                 ParseUtilizationWithDefault(s, t) \in {t, NoText}
<1>1. t.lo \in 0..100 /\ t.hi \in 0..100 /\ t.lo <= t.hi /\ Junk \notin {t.lo, t.hi}
  BY DEF validateUtilRange
<1>2. ParseUtilizationWithDefault(NoText, t) = t
  BY <1>1 DEF ParseUtilizationWithDefault, Below
<1>3. ASSUME NEW s, s # NoText, Junk \in {s.lo, s.hi}
      PROVE  ParseUtilizationWithDefault(s, t) = NoText
  BY <1>3 DEF ParseUtilizationWithDefault
<1>4. ASSUME NEW s, s = NoText PROVE ParseUtilizationWithDefault(s, t) = t
  BY <1>2, <1>4
<1> QED BY <1>2, <1>3, <1>4

LEMMA DefaultIsValid == DefaultUtilizationRange # NoText /\ validateUtilRange(DefaultUtilizationRange)
BY ValuesAssumption DEF DefaultUtilizationRange, UtilRange, Bands, validateUtilRange

\* The default that applies on AMD is the file's, and valid.
LEMMA ReleaseDefault ==
    ASSUME Flow, release # None, opts.vendor = "amd"
    PROVE  /\ release.util = IF File.util = NoText THEN DefaultUtilizationRange ELSE File.util
           /\ release.util # NoText /\ validateUtilRange(release.util)
<1>1. OptsAreMerged /\ release = buildAMDValues(opts)
  BY DEF Flow, ReleaseIsBuilt
<1>2. opts.util = File.util
  BY <1>1, Merged
<1>3. release.util = IF File.util = NoText THEN DefaultUtilizationRange ELSE File.util
  BY <1>1, <1>2 DEF buildAMDValues
<1>4. File.util # NoText => validateUtilRange(File.util)
  BY <1>1 DEF OptsAreMerged, validate, File, NothingSaid
<1> QED BY <1>3, <1>4, DefaultIsValid

\* On AMD, a pod whose annotation is missing or malformed is loaded from the
\* file's default range, or 5-15 (load.go:83, exporter/cache.go:79): the two
\* parsers never disagree about a default.
THEOREM DefaultAlwaysApplies == Spec => []DefaultApplies
<1>1. Flow => DefaultApplies
  <2> SUFFICES ASSUME Flow, Scraped, opts.vendor = "amd",
                      text = NoText \/ Junk \in {text.lo, text.hi}
               PROVE  Drawn = IF File.util = NoText THEN DefaultUtilizationRange
                                                    ELSE File.util
    BY DEF DefaultApplies
  <2>1. release # None
    BY DEF Flow, Scraped, Processes
  <2>2. /\ ParseUtilizationWithDefault(NoText, release.util) = release.util
        /\ ParseUtilizationWithDefault(text, release.util) \in {release.util, NoText}
        /\ release.util # NoText
    BY <2>1, ReleaseDefault, LoaderIsStricter
  <2>3. Drawn = release.util
    BY <2>2 DEF Drawn
  <2> QED BY <2>1, <2>3, ReleaseDefault
<1> QED BY <1>1, FlowAlways, PTL
-----------------------------------------------------------------------------
(***************************************************************************)
(* The parts of a stack.                                                   *)
(***************************************************************************)
\* A negative number of GPUs is none, for either.
LEMMA SeriesAreDevicesOfAny ==
    ASSUME NEW gpus \in Int, NEW mode, NEW count \in Int
    PROVE  GpuIds(BuildGPUs(gpus, mode, count))
             = buildDevices(gpus * PartitionCount(mode, count))
<1>1. CASE gpus \in Nat
  BY <1>1, SeriesAreDevices
<1>2. CASE gpus < 0
  <2>1. PICK c \in Nat \ {0} : c = PartitionCount(mode, count)
    BY PartitionCountPositive
  <2>2. 0..(gpus - 1) = {} /\ gpus * c < 0
    BY <1>2, <2>1
  <2>3. BuildGPUs(gpus, mode, count) = {}
    BY <2>2 DEF BuildGPUs
  <2>4. GpuIds(BuildGPUs(gpus, mode, count)) = {}
    BY <2>3 DEF GpuIds
  <2>5. buildDevices(gpus * c) = {}
    BY <2>1, <2>2 DEF buildDevices
  <2> QED BY <2>1, <2>4, <2>5
<1> QED BY <1>1, <1>2

\* The model of the cards: the file's family, or the first of the vendor.
LEMMA ReleaseModel ==
    ASSUME Flow, release # None
    PROVE  /\ release.model =
                IF opts.vendor = "amd" THEN Model(opts, "MI300X", 192)
                                       ELSE Model(opts, "T4", 16)
           /\ opts.vendor \in Vendors /\ OptsAreMerged
<1>1. ReleaseIsBuilt /\ opts.vendor \in Vendors /\ OptsAreMerged
  BY DEF Flow, validateVendor
<1>2. CASE opts.vendor = "amd"
  <2>1. release = buildAMDValues(opts)
    BY <1>1, <1>2 DEF ReleaseIsBuilt
  <2>2. release.model = Model(opts, "MI300X", 192)
    BY <2>1, Zenon DEF buildAMDValues
  <2> QED BY <1>1, <1>2, <2>2
<1>3. CASE opts.vendor # "amd"
  <2>1. release = buildNVIDIAValues(opts)
    BY <1>1, <1>3 DEF ReleaseIsBuilt
  <2>2. release.model = Model(opts, "T4", 16)
    BY <2>1, Zenon DEF buildNVIDIAValues
  <2> QED BY <1>1, <1>3, <2>2
<1> QED BY <1>1, <1>2, <1>3

LEMMA ModelAgrees ==
    ASSUME Flow, release # None
    PROVE  /\ flags.vendor = Unset => Families[release.model.product].vendor = opts.vendor
           /\ release.model.memory =
                 IF File.family # "" /\ File.memory # 0
                 THEN File.memory ELSE Families[release.model.product].memory
<1>1. /\ OptsAreMerged /\ opts.vendor \in {"nvidia", "amd"}
      /\ release.model = IF opts.vendor = "amd" THEN Model(opts, "MI300X", 192)
                                                ELSE Model(opts, "T4", 16)
  BY ReleaseModel DEF Vendors
<1>2. CASE File.family = ""
  <2>1. opts.product = ""
    BY <1>1, <1>2, Merged
  <2>2. /\ opts.vendor = "amd" => release.model = [product |-> "MI300X", memory |-> 192]
        /\ opts.vendor = "nvidia" => release.model = [product |-> "T4", memory |-> 16]
    BY <1>1, <2>1 DEF Model
  <2>3. /\ Families["MI300X"].vendor = "amd" /\ Families["MI300X"].memory = 192
        /\ Families["T4"].vendor = "nvidia" /\ Families["T4"].memory = 16
    BY CatalogAssumption
  <2>4. CASE opts.vendor = "amd"
    <3>1. release.model.product = "MI300X" /\ release.model.memory = 192
      BY <2>2, <2>4
    <3> QED BY <1>2, <2>3, <2>4, <3>1, Zenon
  <2>5. CASE opts.vendor = "nvidia"
    <3>1. release.model.product = "T4" /\ release.model.memory = 16
      BY <2>2, <2>5
    <3> QED BY <1>2, <2>3, <2>5, <3>1, Zenon
  <2> QED BY <1>1, <2>4, <2>5
<1>3. CASE File.family # ""
  <2>1. /\ opts.product = File.family
        /\ opts.memory = IF File.memory # 0 THEN File.memory
                                            ELSE Families[File.family].memory
        /\ flags.vendor = Unset => opts.vendor = File.vendor
    BY <1>1, <1>3, Merged
  <2>2. release.model = [product |-> opts.product, memory |-> opts.memory]
    BY <1>1, <1>3, <2>1 DEF Model
  <2>3. file # NoFile /\ validate(File)
    BY <1>1, <1>3 DEF OptsAreMerged, File, NothingSaid
  <2>4. Families[File.family].vendor = File.vendor
    BY <1>3, <2>3 DEF validate
  <2>5. release.model.product = File.family /\ release.model.memory = opts.memory
    BY <2>1, <2>2
  <2> QED BY <1>3, <2>1, <2>4, <2>5, Zenon
<1> QED BY <1>2, <1>3

\* The parts of a stack, told by different ways (gpu_create.go:290-349), mean
\* the same GPUs, of a model of the vendor and with the memory of the model,
\* for every file and every combination of flags.
THEOREM StackAlwaysAgrees == Spec => []StackAgrees
<1>1. Flow => StackAgrees
  <2> SUFFICES ASSUME Flow, release # None
               PROVE  StackAgrees
    BY DEF StackAgrees
  <2>1. OptsAreMerged /\ ReleaseIsBuilt
    BY DEF Flow
  <2>2. opts.gpus \in Int /\ opts.product = File.family
    BY <2>1, Merged
  <2>3. ASSUME opts.vendor = "amd"
        PROVE  GpuIds(BuildGPUs(GpusPerNode("exporter"), release.mode, release.count))
                 = buildDevices(GpusPerNode("plugin"))
    <3>1. release = buildAMDValues(opts) /\ Admitted(release)
      BY <2>1, <2>3 DEF ReleaseIsBuilt
    <3>2. release.gpus \in Int /\ release.count \in Int
      <4>1. release.gpus = opts.gpus
        BY <3>1, Zenon DEF buildAMDValues
      <4>2. release.count \in 1..8
        BY <3>1 DEF Admitted
      <4> QED BY <2>2, <4>1, <4>2
    <3>3. /\ GpusPerNode("exporter") = release.gpus
          /\ GpusPerNode("plugin")
               = release.gpus * PartitionCount(release.mode, release.count)
      BY DEF GpusPerNode
    <3> QED BY <3>2, <3>3, SeriesAreDevicesOfAny
  <2>4. ASSUME opts.vendor = "nvidia", File.family # ""
        PROVE  /\ release.extras.gpus = release.gpus
               /\ release.extras.product = release.model.product
    <3>1. release = buildNVIDIAValues(opts) /\ opts.product # ""
      BY <2>1, <2>2, <2>4 DEF ReleaseIsBuilt
    <3> QED BY <3>1 DEF buildNVIDIAValues
  <2> QED BY <2>3, <2>4, ModelAgrees DEF StackAgrees
<1> QED BY <1>1, FlowAlways, PTL
-----------------------------------------------------------------------------
(***************************************************************************)
(* What the nodes report.                                                  *)
(***************************************************************************)
LEMMA AskedIsGiven ==
    ASSUME NEW flag, NEW n \in Int PROVE Asked(flag, n) = Given(flag, PositiveOr2(n))
<1>1. CASE n > 0
  <2>1. PositiveOr2(n) = n
    BY <1>1 DEF PositiveOr2
  <2> QED BY <1>1, <2>1, Zenon DEF Asked, Given
<1>2. CASE ~(n > 0)
  <2>1. PositiveOr2(n) = 2
    BY <1>2 DEF PositiveOr2
  <2> QED BY <1>2, <2>1, Zenon DEF Asked, Given
<1> QED BY <1>1, <1>2

\* createOpts is what was asked for.
LEMMA AsAsked ==
    ASSUME Flow, OptsAreMerged
    PROVE  /\ opts.vendor = AskedVendor
           /\ opts.workers = AskedWorkers /\ opts.workers \in Int
           /\ opts.gpus = AskedGpus /\ opts.gpus \in Int
           /\ opts.mode = File.mode /\ opts.count = File.count
<1>1. opts.gpus \in Int /\ opts.mode = File.mode
  BY Merged
<1>2. flags.workers \in Int \/ flags.workers = Unset
  BY FlagsAssumption DEF Flow
<1>3. CASE file = NoFile
  <2>1. /\ File.vendor = "" /\ File.workers = 0 /\ File.perWorker = 0 /\ File.count = 0
        /\ flags.vendor # Unset /\ opts = FlagOpts(flags)
    BY <1>3 DEF OptsAreMerged, File, NothingSaid
  <2>2. /\ opts.vendor = flags.vendor /\ opts.count = 0
        /\ opts.workers = Given(flags.workers, 2) /\ opts.gpus = Given(flags.gpus, 2)
    BY <2>1 DEF FlagOpts
  <2>3. 2 \in Int
    OBVIOUS
  <2>4. Given(flags.workers, 2) \in Int
    BY ONLY <1>2, <2>3, GivenInt
  <2>5. opts.workers = AskedWorkers /\ opts.gpus = AskedGpus
    <3>1. PositiveOr2(0) = 2 /\ 0 \in Int
      BY DEF PositiveOr2
    <3>2. \A flag : Asked(flag, 0) = Given(flag, 2)
      BY <3>1, AskedIsGiven
    <3> QED BY <2>1, <2>2, <3>2, Zenon DEF AskedWorkers, AskedGpus
  <2> QED BY <1>1, <2>1, <2>2, <2>4, <2>5 DEF AskedVendor, Given
<1>4. CASE file # NoFile
  <2> DEFINE f == ApplyFamilyDefaults(file)
  <2>1. /\ File = file
        /\ file \in [vendor : STRING, workers : Int, perWorker : Int, taint : BOOLEAN,
                      family : STRING, memory : Int, mig : BOOLEAN, mode : STRING,
                      count : Int, util : Bands \cup {NoText}]
    BY <1>4, FilesAssumption DEF Flow, File
  <2>2. /\ f.vendor = file.vendor /\ f.count = file.count
        /\ f.workers = PositiveOr2(file.workers)
        /\ f.perWorker = PositiveOr2(file.perWorker)
    BY <2>1 DEF ApplyFamilyDefaults
  <2>3. f.workers \in Int
    <3>1. file.workers \in Int
      BY <2>1
    <3> QED BY <3>1, <2>2, PositiveOr2Int
  <2>4. opts = FileOpts(flags, f)
    BY <1>4 DEF OptsAreMerged
  <2> HIDE DEF f
  <2>5. /\ opts.vendor = Given(flags.vendor, f.vendor) /\ opts.count = f.count
        /\ opts.workers = Given(flags.workers, f.workers)
        /\ opts.gpus = Given(flags.gpus, f.perWorker)
    BY <2>4 DEF FileOpts
  <2>6. Given(flags.workers, f.workers) \in Int
    BY ONLY <1>2, <2>3, GivenInt
  <2>7. file.workers \in Int /\ file.perWorker \in Int
    BY <2>1
  <2>8. opts.workers = AskedWorkers /\ opts.gpus = AskedGpus
    BY <2>1, <2>2, <2>5, <2>7, AskedIsGiven, Zenon DEF AskedWorkers, AskedGpus
  <2> QED BY <1>1, <2>1, <2>2, <2>5, <2>6, <2>8 DEF AskedVendor
<1> QED BY <1>3, <1>4

\* The product that the plugin is started with is the one that was asked for.
LEMMA PluginAsAsked ==
    ASSUME Flow, release # None, opts.vendor = "amd"
    PROVE  GpusPerNode("plugin") = AskedDevices /\ AskedDevices \in Int
<1>1. OptsAreMerged /\ release = buildAMDValues(opts) /\ Admitted(release)
  BY DEF Flow, ReleaseIsBuilt
<1>2. /\ release.gpus = opts.gpus
      /\ release.mode = IF opts.mode # "" THEN opts.mode ELSE "spx"
      /\ release.count = IF opts.mode # "" THEN opts.count ELSE 1
  BY <1>1, Zenon DEF buildAMDValues
<1>3. release.count \in 1..8
  BY <1>1 DEF Admitted
<1>4. /\ AskedVendor = "amd" /\ opts.gpus = AskedGpus /\ opts.gpus \in Int
      /\ opts.mode = File.mode /\ opts.count = File.count
  BY <1>1, AsAsked
<1> DEFINE c == PartitionCount(release.mode, release.count)
<1>5. c = (IF AskedVendor = "amd" /\ File.mode = "cpx" THEN File.count ELSE 1) /\ c \in Int
  <2>1. CASE File.mode = "cpx"
    BY <1>2, <1>3, <1>4, <2>1 DEF PartitionCount
  <2>2. CASE File.mode # "cpx"
    <3>1. release.mode # "cpx"
      BY <1>2, <1>4, <2>2
    <3>2. c = 1
      BY <3>1, Zenon DEF PartitionCount
    <3> QED BY <2>2, <3>2
  <2> QED BY <2>1, <2>2
<1>6. GpusPerNode("plugin") = release.gpus * c
  BY DEF GpusPerNode
<1> HIDE DEF c
<1>7. AskedDevices = AskedGpus * c
  BY <1>5, Zenon DEF AskedDevices
<1>8. AskedGpus * c \in Int
  BY <1>4, <1>5
<1> QED BY <1>2, <1>4, <1>6, <1>7, <1>8

LEMMA AdvertisedAsAsked ==
    ASSUME Flow, release # None, Advertised >= 0,
           "plugin" \in up => GpusPerNode("plugin") >= 0
    PROVE  Advertised = AskedDevices
<1>1. OptsAreMerged /\ opts.vendor \in {"nvidia", "amd"} /\ ReleaseIsBuilt
  BY ReleaseModel DEF Flow, Vendors
<1>2. /\ opts.vendor = AskedVendor /\ opts.gpus = AskedGpus /\ opts.gpus \in Int
  BY <1>1, AsAsked
<1>3. CASE opts.vendor = "amd"
  <2>1. "operator" \notin up
    BY <1>3 DEF Flow, Processes
  <2>2. "plugin" \in up
    BY <2>1 DEF Advertised, NotReported
  <2>3. GpusPerNode("plugin") = AskedDevices /\ AskedDevices \in Nat
    BY <1>3, <2>2, PluginAsAsked
  <2>4. Advertised = Cardinality(buildDevices(AskedDevices))
    BY <2>2, <2>3 DEF Advertised
  <2>5. buildDevices(AskedDevices) = 0..(AskedDevices - 1)
    BY <2>3 DEF buildDevices
  <2> QED BY <2>3, <2>4, <2>5, FS_Interval
<1>4. CASE opts.vendor = "nvidia"
  <2>1. "plugin" \notin up
    BY <1>4 DEF Flow, Processes
  <2>2. "operator" \in up /\ Advertised = release.gpus
    BY <2>1 DEF Advertised, NotReported
  <2>3. release = buildNVIDIAValues(opts)
    BY <1>1, <1>4 DEF ReleaseIsBuilt
  <2>4. release.gpus = opts.gpus
    BY <2>3, Zenon DEF buildNVIDIAValues
  <2>5. AskedDevices = AskedGpus * 1
    BY <1>2, <1>4 DEF AskedDevices
  <2> QED BY <1>2, <2>2, <2>4, <2>5
<1> QED BY <1>1, <1>3, <1>4
\* What a node has reported is what was asked for, and the line the command
\* ends with was printed over enough of such nodes.
Counts ==
    /\ release = None => \A n \in DOMAIN capacity : capacity[n] = NotReported
    /\ pc \notin {"load", "refused", "configured"} =>
          nodes = PositiveOr2(opts.workers) /\ DOMAIN capacity = 1..nodes
    /\ \A n \in DOMAIN capacity : capacity[n] \in {NotReported, AskedDevices}
    /\ "plugin" \in up => GpusPerNode("plugin") >= 0
    /\ pc = "ready" => /\ said = [workers |-> opts.workers, gpus |-> opts.gpus]
                      /\ Cardinality(ReadyWorkers) >= opts.workers

LEMMA CountsInit == Init => Counts
BY DEF Init, Counts

LEMMA Smaller ==
    ASSUME NEW S, IsFiniteSet(S), NEW T \in SUBSET S
    PROVE  /\ Cardinality(T) \in Nat /\ Cardinality(S) \in Nat
           /\ Cardinality(T) <= Cardinality(S)
<1>1. IsFiniteSet(T) /\ Cardinality(T) <= Cardinality(S)
  BY FS_Subset
<1>2. Cardinality(S) \in Nat
  BY FS_CardinalityType, Zenon
<1>3. Cardinality(T) \in Nat
  BY <1>1, FS_CardinalityType, Zenon
<1> QED BY <1>1, <1>2, <1>3

\* The nodes that have reported enough stay so.
LEMMA ReadyWorkersGrow ==
    ASSUME Flow, Counts, pc = "ready", NEW n \in DOMAIN capacity, NodeReports(n)
    PROVE  Cardinality(ReadyWorkers') >= opts.workers
<1>1. opts.workers \in Int /\ nodes \in Int /\ DOMAIN capacity = 1..nodes
  <2>1. OptsAreMerged
    BY DEF Flow
  <2>2. opts.workers \in Int
    BY <2>1, AsAsked
  <2> QED BY <2>2, PositiveOr2Int DEF Counts
<1>2. ReadyWorkers \subseteq ReadyWorkers' /\ ReadyWorkers' \subseteq 1..nodes
  BY <1>1 DEF NodeReports, ReadyWorkers
<1>3. IsFiniteSet(ReadyWorkers')
  <2>1. IsFiniteSet(1..nodes)
    BY <1>1, FS_Interval
  <2> QED BY <1>2, <2>1, FS_Subset
<1>4. /\ Cardinality(ReadyWorkers) \in Nat /\ Cardinality(ReadyWorkers') \in Nat
      /\ Cardinality(ReadyWorkers) <= Cardinality(ReadyWorkers')
  BY <1>2, <1>3, Smaller
<1> QED BY <1>1, <1>4 DEF Counts

LEMMA CountsNext == Flow /\ Counts /\ [Next]_vars => Counts'
<1> SUFFICES ASSUME Flow, Counts, [Next]_vars PROVE Counts'
  OBVIOUS
<1>1. ASSUME UNCHANGED <<flags, file>> PROVE AskedDevices' = AskedDevices
  BY <1>1 DEF AskedDevices, AskedGpus, AskedVendor, Asked, Given, File
<1>2. ASSUME UNCHANGED <<flags, file, opts, release, up, capacity, nodes>>,
             pc' \notin {"load", "refused", "configured", "ready"} =>
                pc \notin {"load", "refused", "configured"},
             pc' # "ready"
      PROVE  Counts'
  BY <1>1, <1>2 DEF Counts, GpusPerNode
<1>3. CASE applyConfig \/ ConfigRefused \/ VendorRefused
  <2>1. UNCHANGED <<flags, file, clusterVars>> /\ pc' \in {"configured", "refused"}
    BY <1>3 DEF applyConfig, ConfigRefused, VendorRefused, Refuse
  <2>2. "plugin" \notin up
    BY <1>3 DEF applyConfig, ConfigRefused, VendorRefused, Flow, Processes
  <2> QED BY <1>1, <2>1, <2>2 DEF Counts, clusterVars
<1>4. CASE Create
  <2>1. /\ capacity' = [n \in 1..nodes' |-> NotReported]
        /\ nodes' = PositiveOr2(opts.workers) /\ pc' = "created"
        /\ UNCHANGED <<flags, file, opts, release, up>>
    BY <1>4 DEF Create
  <2>2. "plugin" \notin up
    BY <1>4 DEF Create, Flow, Processes
  <2> QED BY <1>1, <2>1, <2>2 DEF Counts
<1>5. CASE Install
  <2>1. /\ \A n \in DOMAIN capacity : capacity[n] = NotReported
        /\ "plugin" \notin up
    BY <1>5 DEF Install, Flow, Processes, Counts
  <2>2. /\ UNCHANGED <<flags, file, opts, nodes, up, capacity>>
        /\ pc = "created" /\ pc' \in {"waiting", "failed"}
    BY <1>5 DEF Install
  <2> QED BY <1>1, <2>1, <2>2 DEF Counts
<1>6. CASE Succeed
  <2>1. /\ UNCHANGED <<flags, file, opts, nodes, release, up, capacity>>
        /\ pc = "waiting" /\ pc' = "ready"
        /\ said' = [workers |-> opts.workers, gpus |-> opts.gpus]
        /\ Cardinality(ReadyWorkers) >= opts.workers
    BY <1>6 DEF Succeed, clusterVars
  <2>2. ReadyWorkers' = ReadyWorkers /\ GpusPerNode("plugin")' = GpusPerNode("plugin")
    BY <2>1 DEF ReadyWorkers, GpusPerNode
  <2> QED BY <1>1, <2>1, <2>2 DEF Counts
<1>7. CASE TimesOut
  BY <1>2, <1>7 DEF TimesOut, clusterVars
<1>8. ASSUME NEW k \in Processes, Start(k) PROVE Counts'
  <2>1. /\ UNCHANGED <<flags, file, opts, pc, said, nodes, release, capacity>>
        /\ up' = up \cup {k}
        /\ k = "plugin" => GpusPerNode(k) >= 0
    BY <1>8 DEF Start, Startable
  <2>2. ReadyWorkers' = ReadyWorkers /\ GpusPerNode("plugin")' = GpusPerNode("plugin")
    BY <2>1 DEF ReadyWorkers, GpusPerNode
  <2> QED BY <1>1, <2>1, <2>2 DEF Counts
<1>9. ASSUME NEW n \in DOMAIN capacity, NodeReports(n) PROVE Counts'
  <2>1. /\ UNCHANGED <<flags, file, pc, opts, said, nodes, release, up>>
        /\ capacity' = [capacity EXCEPT ![n] = Advertised]
        /\ Advertised >= 0
    BY <1>9 DEF NodeReports
  <2>2. release # None
    BY <2>1 DEF Advertised, NotReported, Flow, Processes
  <2>3. Advertised = AskedDevices
    BY <2>1, <2>2, AdvertisedAsAsked DEF Counts
  <2>4. GpusPerNode("plugin")' = GpusPerNode("plugin")
    BY <2>1 DEF GpusPerNode
  <2>5. pc' = "ready" => Cardinality(ReadyWorkers') >= opts'.workers
    BY <1>9, <2>1, ReadyWorkersGrow
  <2> QED BY <1>1, <2>1, <2>2, <2>3, <2>4, <2>5 DEF Counts
<1>10. ASSUME NEW t \in Texts, Annotate(t) PROVE Counts'
  <2>1. UNCHANGED <<flags, file, pc, opts, said, nodes, release, up, capacity>>
    BY <1>10 DEF Annotate
  <2>2. ReadyWorkers' = ReadyWorkers /\ GpusPerNode("plugin")' = GpusPerNode("plugin")
    BY <2>1 DEF ReadyWorkers, GpusPerNode
  <2> QED BY <1>1, <2>1, <2>2 DEF Counts
<1>11. CASE UNCHANGED vars
  <2>1. UNCHANGED <<flags, file, pc, opts, said, nodes, release, up, capacity>>
    BY <1>11 DEF vars
  <2>2. ReadyWorkers' = ReadyWorkers /\ GpusPerNode("plugin")' = GpusPerNode("plugin")
    BY <2>1 DEF ReadyWorkers, GpusPerNode
  <2> QED BY <1>1, <2>1, <2>2 DEF Counts
<1> QED
  BY <1>3, <1>4, <1>5, <1>6, <1>7, <1>8, <1>9, <1>10, <1>11
     DEF Next, Command, Cluster

\* "ready -- %d workers x %d" (gpu_create.go:200) is said of what the flags, or
\* else the file, asked for, when the cluster has as many workers and as many
\* report that number, for every file and every combination of flags.
THEOREM ReadyIsAsAsked == Spec => []ReadyAsAsked
<1>1. Flow /\ Counts => ReadyAsAsked
  <2> SUFFICES ASSUME Flow, Counts, pc = "ready"
               PROVE  /\ said = [workers |-> AskedWorkers, gpus |-> AskedGpus]
                      /\ AskedWorkers > 0 => nodes = AskedWorkers
                      /\ Cardinality({n \in 1..nodes : capacity[n] = AskedDevices})
                            >= AskedWorkers
    BY DEF ReadyAsAsked
  <2>1. OptsAreMerged
    BY DEF Flow
  <2>2. /\ opts.workers = AskedWorkers /\ opts.workers \in Int
        /\ opts.gpus = AskedGpus
    BY <2>1, AsAsked
  <2>3. said = [workers |-> AskedWorkers, gpus |-> AskedGpus]
    BY <2>2 DEF Counts
  <2>4. /\ nodes = PositiveOr2(opts.workers) /\ DOMAIN capacity = 1..nodes
        /\ Cardinality(ReadyWorkers) >= opts.workers
    BY DEF Counts
  <2>5. AskedWorkers > 0 => nodes = AskedWorkers
    BY <2>2, <2>4 DEF PositiveOr2
  <2> DEFINE S == {n \in 1..nodes : capacity[n] = AskedDevices}
  <2>6. ReadyWorkers \subseteq S /\ S \subseteq 1..nodes
    BY <2>4 DEF ReadyWorkers, Counts
  <2>7. IsFiniteSet(S)
    <3>1. IsFiniteSet(1..nodes)
      BY <2>2, <2>4, PositiveOr2Int, FS_Interval
    <3> QED BY <2>6, <3>1, FS_Subset
  <2> HIDE DEF S
  <2>8. /\ Cardinality(ReadyWorkers) \in Nat /\ Cardinality(S) \in Nat
        /\ Cardinality(ReadyWorkers) <= Cardinality(S)
    BY <2>6, <2>7, Smaller
  <2>9. Cardinality(S) >= AskedWorkers
    BY <2>2, <2>4, <2>8
  <2> QED BY <2>3, <2>5, <2>9 DEF S
<1> QED BY <1>1, FlowInit, FlowNext, CountsInit, CountsNext, PTL DEF Spec

-----------------------------------------------------------------------------
(***************************************************************************)
(* Types, and the bounds of what is drawn.                                 *)
(***************************************************************************)
FileType ==
    [vendor : STRING, workers : Int, perWorker : Int, taint : BOOLEAN,
     family : STRING, memory : Int, mig : BOOLEAN, mode : STRING,
     count : Int, util : Bands \cup {NoText}]

LEMMA ApplyFamilyDefaultsType ==
    ASSUME NEW f \in FileType, validate(f)
    PROVE  /\ ApplyFamilyDefaults(f) \in FileType
           /\ ApplyFamilyDefaults(f).family \in DOMAIN Families \cup {""}
           /\ ApplyFamilyDefaults(f).mode \in {"", "spx", "cpx"}
<1>1. PositiveOr2(f.workers) \in Int /\ PositiveOr2(f.perWorker) \in Int
  BY PositiveOr2Int DEF FileType
<1>2. f.family # "" => Families[f.family].memory \in Int
  BY CatalogAssumption DEF validate
<1>3. f.family \in DOMAIN Families \cup {""} /\ f.mode \in {"", "spx", "cpx"}
  BY DEF validate
<1> QED BY <1>1, <1>2, <1>3 DEF ApplyFamilyDefaults, FileType

LEMMA GivenIn ==
    ASSUME NEW S, NEW x, x \in S \/ x = Unset, NEW y \in S PROVE Given(x, y) \in S
BY DEF Given

\* createOpts holds strings, numbers and switches, whichever way it was filled.
LEMMA OptionsType == ASSUME Flow, OptsAreMerged PROVE opts \in Options
<1>1. /\ flags.vendor \in STRING \/ flags.vendor = Unset
      /\ flags.workers \in Int \/ flags.workers = Unset
      /\ flags.gpus \in Int \/ flags.gpus = Unset
      /\ flags.taint \in BOOLEAN \/ flags.taint = Unset
  BY FlagsAssumption DEF Flow
<1>2. CASE file = NoFile
  <2>1. flags.vendor # Unset /\ opts = FlagOpts(flags)
    BY <1>2 DEF OptsAreMerged
  <2>2. Given(flags.workers, 2) \in Int /\ Given(flags.gpus, 2) \in Int
    <3>1. 2 \in Int
      OBVIOUS
    <3> QED BY ONLY <1>1, <3>1, GivenIn
  <2>3. Given(flags.taint, FALSE) \in BOOLEAN
    <3>1. FALSE \in BOOLEAN
      OBVIOUS
    <3> QED BY ONLY <1>1, <3>1, GivenIn
  <2>4. /\ flags.vendor \in STRING /\ 0 \in Int
        /\ NoText \in Bands \cup {NoText}
    <3>1. flags.vendor \in STRING
      BY <1>1, <2>1, Zenon
    <3>2. 0 \in Int
      OBVIOUS
    <3>3. NoText \in Bands \cup {NoText}
      BY Zenon
    <3> QED BY <3>1, <3>2, <3>3, Zenon
  <2>5. FlagOpts(flags) \in Options
    BY <2>2, <2>3, <2>4 DEF FlagOpts, Options
  <2> QED BY <2>1, <2>5
<1>3. CASE file # NoFile
  <2> DEFINE f == ApplyFamilyDefaults(file)
  <2>1. /\ f \in FileType
        /\ f.family \in DOMAIN Families \cup {""} /\ f.mode \in {"", "spx", "cpx"}
    BY <1>3, ApplyFamilyDefaultsType, FilesAssumption DEF Flow, OptsAreMerged, FileType
  <2>2. opts = FileOpts(flags, f)
    BY <1>3 DEF OptsAreMerged
  <2> HIDE DEF f
  <2>3. Given(flags.vendor, f.vendor) \in STRING
    BY <1>1, <2>1, GivenIn DEF FileType
  <2>4. Given(flags.workers, f.workers) \in Int
    BY <1>1, <2>1, GivenIn DEF FileType
  <2>5. Given(flags.gpus, f.perWorker) \in Int
    BY <1>1, <2>1, GivenIn DEF FileType
  <2>6. Given(flags.taint, f.taint) \in BOOLEAN
    BY <1>1, <2>1, GivenIn DEF FileType
  <2>7. (IF f.family # "" THEN f.memory ELSE 0) \in Int
    <3>1. f.memory \in Int
      BY <2>1 DEF FileType
    <3>2. 0 \in Int
      OBVIOUS
    <3> QED BY <3>1, <3>2, Zenon
  <2>8. f.mig \in BOOLEAN /\ f.count \in Int /\ f.util \in Bands \cup {NoText}
    BY <2>1 DEF FileType
  <2> QED BY <2>1, <2>2, <2>3, <2>4, <2>5, <2>6, <2>7, <2>8 DEF FileOpts, Options
<1> QED BY <1>2, <1>3

LEMMA ModelType ==
    ASSUME opts \in Options, NEW product \in DOMAIN Families, NEW memory \in Int
    PROVE  Model(opts, product, memory) \in Models
BY DEF Model, Models, Options

LEMMA AMDRecord ==
    ASSUME NEW g \in Int, NEW model \in Models, NEW mode \in {"spx", "cpx"},
           NEW count \in 1..8, NEW util \in Bands
    PROVE  [gpus |-> g, model |-> model, mode |-> mode, count |-> count, util |-> util]
              \in Releases
BY DEF Releases

LEMMA NVIDIARecord ==
    ASSUME NEW g \in Int, NEW model \in Models, NEW mig \in BOOLEAN, NEW n \in Int
    PROVE  [gpus |-> g, model |-> model,
            extras |-> [product |-> model.product, mig |-> mig, gpus |-> n]] \in Releases
BY DEF Releases, Models

\* What a release holds, on either vendor.
LEMMA ReleaseType ==
    ASSUME Flow, OptsAreMerged
    PROVE  /\ Admitted(buildAMDValues(opts)) => buildAMDValues(opts) \in Releases
           /\ buildNVIDIAValues(opts) \in Releases
<1>1. opts \in Options
  BY OptionsType
<1>2. ASSUME Admitted(buildAMDValues(opts)) PROVE buildAMDValues(opts) \in Releases
  <2> DEFINE v == buildAMDValues(opts)
  <2>1. v = [gpus |-> v.gpus, model |-> v.model, mode |-> v.mode, count |-> v.count,
             util |-> v.util]
    BY DEF buildAMDValues
  <2>2. v.gpus = opts.gpus /\ v.model = Model(opts, "MI300X", 192)
        /\ v.util = IF opts.util # NoText THEN opts.util ELSE DefaultUtilizationRange
    BY Zenon DEF buildAMDValues
  <2>3. v.gpus \in Int
    BY <1>1, <2>2 DEF Options
  <2>4. v.model \in Models
    <3>1. "MI300X" \in DOMAIN Families /\ 192 \in Int
      BY CatalogAssumption
    <3> QED BY <1>1, <2>2, <3>1, ModelType
  <2>5. v.util \in Bands
    <3>1. DefaultUtilizationRange \in Bands
      BY DEF Bands, DefaultUtilizationRange, UtilRange
    <3>2. opts.util \in Bands \cup {NoText}
      BY <1>1 DEF Options
    <3> QED BY <2>2, <3>1, <3>2
  <2>6. v.mode \in {"spx", "cpx"} /\ v.count \in 1..8
    BY <1>2 DEF Admitted
  <2> HIDE DEF v
  <2>7. v \in Releases
    BY <2>1, <2>3, <2>4, <2>5, <2>6, AMDRecord
  <2> QED BY <2>7 DEF v
<1>3. buildNVIDIAValues(opts) \in Releases
  <2> DEFINE model == Model(opts, "T4", 16)
             n == IF opts.product # "" THEN opts.gpus ELSE 2
  <2>1. model \in Models
    <3>1. "T4" \in DOMAIN Families /\ 16 \in Int
      BY CatalogAssumption
    <3> QED BY <1>1, <3>1, ModelType
  <2>2. opts.gpus \in Int /\ opts.mig \in BOOLEAN
    BY <1>1 DEF Options
  <2>n. n \in Int
    <3>1. 2 \in Int
      OBVIOUS
    <3> QED BY <2>2, <3>1, Zenon
  <2>3. buildNVIDIAValues(opts) =
           [gpus |-> opts.gpus, model |-> model,
            extras |-> [product |-> model.product, mig |-> opts.mig, gpus |-> n]]
    BY DEF buildNVIDIAValues
  <2> HIDE DEF model, n
  <2> QED BY <2>1, <2>2, <2>n, <2>3, NVIDIARecord
<1> QED BY <1>2, <1>3

LEMMA ReleaseTyped == Flow => release \in Releases \cup {None}
<1> SUFFICES ASSUME Flow, release # None PROVE release \in Releases
  OBVIOUS
<1>1. ReleaseIsBuilt /\ OptsAreMerged
  BY DEF Flow
<1> QED BY <1>1, ReleaseType DEF ReleaseIsBuilt

\* Nodes are numbered, and report nothing or a number of devices.
Reports ==
    /\ text \in Texts
    /\ nodes \in Nat /\ DOMAIN capacity = 1..nodes
    /\ \A n \in 1..nodes : capacity[n] = NotReported \/ capacity[n] >= 0

LEMMA ReportsInit == Init => Reports
BY ValuesAssumption DEF Init, Reports

LEMMA ReportsNext == Flow /\ Reports /\ [Next]_vars => Reports'
<1> SUFFICES ASSUME Flow, Reports, [Next]_vars PROVE Reports'
  OBVIOUS
<1>1. CASE Create
  <2>1. OptsAreMerged
    BY <1>1 DEF Create, Flow
  <2>2. opts.workers \in Int
    BY <2>1, OptionsType DEF Options
  <2>3. nodes' \in Nat
    BY <1>1, <2>2 DEF Create, PositiveOr2
  <2>4. /\ capacity' = [n \in 1..nodes' |-> NotReported] /\ text' = text
    BY <1>1 DEF Create
  <2> QED BY <2>3, <2>4 DEF Reports
<1>2. ASSUME NEW n \in DOMAIN capacity, NodeReports(n) PROVE Reports'
  BY <1>2 DEF NodeReports, Reports
<1>3. ASSUME NEW t \in Texts, Annotate(t) PROVE Reports'
  BY <1>3 DEF Annotate, Reports
<1>4. CASE UNCHANGED <<nodes, capacity, text>>
  BY <1>4 DEF Reports
<1>5. \/ UNCHANGED <<nodes, capacity, text>> \/ Create
      \/ \E n \in DOMAIN capacity : NodeReports(n)
      \/ \E t \in Texts : Annotate(t)
  BY DEF Next, Command, Cluster, applyConfig, ConfigRefused, VendorRefused, Refuse, Install,
         Succeed, TimesOut, Start, clusterVars, vars
<1> QED BY <1>1, <1>2, <1>3, <1>4, <1>5

LEMMA ReportsAlways == Spec => [](Flow /\ Reports)
BY FlowInit, FlowNext, ReportsInit, ReportsNext, PTL DEF Spec

\* The command's, the cluster's and the chart's variables keep their types, for every
\* catalog, file and command line (gpu_create.go:40, wait.go:71).
THEOREM TypeCorrect == Spec => []TypeOK
<1>1. Flow /\ Reports => TypeOK
  BY OptionsType, ReleaseTyped DEF Flow, Reports, TypeOK
<1> QED BY <1>1, ReportsAlways, PTL

\* Annotations that have no NaN in them.
NoNaN == \A t \in Texts \ {NoText} : NaN \notin {t.lo, t.hi}

\* What the AMD exporter parses lies within 0..100, but for NaN.
LEMMA ParsedInBounds ==
    ASSUME NEW t \in Bands, t # NoText, NaN \notin {t.lo, t.hi}, NEW d,
           ParseUtilizationWithDefault(t, d) # NoText
    PROVE  /\ ParseUtilizationWithDefault(t, d) = t
           /\ t.lo \in 0..100 /\ t.hi \in 0..100 /\ t.lo <= t.hi
<1>1. ParseUtilizationWithDefault(t, d) = t
  BY DEF ParseUtilizationWithDefault
<1>2. Junk \notin {t.lo, t.hi}
  BY DEF ParseUtilizationWithDefault
<1>3. t.lo \in Int /\ t.hi \in Int
  BY <1>2 DEF Bands
<1>4. ~Below(t.lo, 0) /\ ~Below(100, t.hi) /\ ~Below(t.hi, t.lo)
  BY DEF ParseUtilizationWithDefault
<1>5. NaN # 0 /\ NaN # 100
  BY ValuesAssumption
<1> QED BY <1>1, <1>3, <1>4, <1>5 DEF Below

\* When no annotation has NaN in it, the load of a pod is drawn from a band within
\* 0..100, for every file and every other annotation, on either vendor (parse.go:26-30,
\* sample.go:112).
THEOREM DrawnInBoundsWithoutNaN == NoNaN /\ Spec => []DrawnInBounds
<1> SUFFICES ASSUME NoNaN PROVE Spec => []DrawnInBounds
  OBVIOUS
<1>1. ASSUME Flow, Reports PROVE DrawnInBounds
  <2> SUFFICES ASSUME Scraped
               PROVE  /\ AtMost(0, Drawn.lo) /\ AtMost(Drawn.lo, Drawn.hi)
                      /\ AtMost(Drawn.hi, 100)
    BY DEF DrawnInBounds
  <2>0. NaN \notin Int
    BY ValuesAssumption
  <2>1. release # None /\ OptsAreMerged /\ opts.vendor \in Vendors
    BY <1>1 DEF Flow, Scraped, Processes, validateVendor
  <2>2. ASSUME NEW t, Drawn = t, t.lo \in 0..100, t.hi \in 0..100, t.lo <= t.hi
        PROVE  /\ AtMost(0, Drawn.lo) /\ AtMost(Drawn.lo, Drawn.hi)
               /\ AtMost(Drawn.hi, 100)
    BY <2>0, <2>2 DEF AtMost
  <2>3. CASE opts.vendor = "nvidia"
    <3>1. Drawn = sampleUtil(text)
      BY <2>3 DEF Drawn
    <3>2. CASE sampleUtil(text) = DefaultUtilizationRange
      BY <2>2, <3>1, <3>2 DEF DefaultUtilizationRange, UtilRange
    <3>3. CASE sampleUtil(text) # DefaultUtilizationRange
      BY <3>1, <3>3 DEF sampleUtil
    <3> QED BY <3>2, <3>3
  <2>4. CASE opts.vendor = "amd"
    <3> DEFINE d == release.util
               Read(t) == ParseUtilizationWithDefault(t, d)
    <3>1. /\ Read(NoText) = d /\ d # NoText /\ validateUtilRange(d)
      BY <1>1, <2>1, <2>4, ReleaseDefault, LoaderIsStricter
    <3>2. d.lo \in 0..100 /\ d.hi \in 0..100 /\ d.lo <= d.hi
      BY <3>1 DEF validateUtilRange
    <3>3. Drawn = IF Read(text) # NoText THEN Read(text) ELSE d
      <4>1. opts.vendor # "nvidia"
        BY <2>4
      <4>2. ASSUME Read(text) # NoText PROVE Drawn = Read(text)
        BY <4>1, <4>2 DEF Drawn
      <4>3. ASSUME Read(text) = NoText PROVE Drawn = Read(NoText)
        BY <3>1, <4>1, <4>3 DEF Drawn
      <4> QED BY <3>1, <4>2, <4>3, Zenon
    <3> HIDE DEF d
    <3>4. CASE Read(text) = NoText \/ text = NoText
      BY <2>2, <3>1, <3>2, <3>3, <3>4
    <3>5. CASE Read(text) # NoText /\ text # NoText
      <4>1. text \in Bands /\ NaN \notin {text.lo, text.hi}
        BY <1>1, <3>5, ValuesAssumption DEF Reports, NoNaN
      <4>2. Read(text) = text /\ text.lo \in 0..100 /\ text.hi \in 0..100 /\ text.lo <= text.hi
        BY <3>5, <4>1, ParsedInBounds
      <4> QED BY <2>2, <3>3, <3>5, <4>2
    <3> QED BY <3>4, <3>5
  <2> QED BY <2>1, <2>3, <2>4 DEF Vendors
<1> QED BY <1>1, ReportsAlways, PTL
-----------------------------------------------------------------------------
(***************************************************************************)
(* Sound input.                                                            *)
(***************************************************************************)
\* The safety half of SoundIsReady: no stage of the way refuses sound input.
SoundIsNotRefused == Sound => pc \notin {"refused", "failed"}

Installed == pc \in {"waiting", "ready"} => release # None

\* The number of partitions that was asked for is at least one.
LEMMA SoundPartitions ==
    ASSUME Flow, Sound, AskedVendor = "amd", File.mode # ""
    PROVE  file # NoFile /\ File.mode \in {"spx", "cpx"} /\ File.count \in 1..8
<1>1. file # NoFile
  BY DEF File, NothingSaid
<1>2. File = file /\ validate(file) /\ File.count # 0
  BY <1>1 DEF Sound, File
<1> QED BY <1>1, <1>2 DEF validate

LEMMA SoundDevices ==
    ASSUME Flow, Sound, OptsAreMerged
    PROVE  AskedDevices \in Nat /\ AskedDevices >= opts.gpus /\ opts.gpus \in Nat
<1>1. opts.gpus = AskedGpus /\ AskedGpus \in Nat
  <2>1. opts.gpus = AskedGpus /\ opts.gpus \in Int
    BY AsAsked
  <2>2. AskedGpus >= 0
    BY Zenon DEF Sound
  <2> QED BY <2>1, <2>2
<1> DEFINE c == IF AskedVendor = "amd" /\ File.mode = "cpx" THEN File.count ELSE 1
<1>2. c \in 1..8
  <2>1. CASE AskedVendor = "amd" /\ File.mode = "cpx"
    BY <2>1, SoundPartitions
  <2>2. CASE ~(AskedVendor = "amd" /\ File.mode = "cpx")
    <3>1. c = 1
      BY <2>2, Zenon
    <3> QED BY <3>1
  <2> QED BY <2>1, <2>2
<1>3. AskedDevices = AskedGpus * c
  BY DEF AskedDevices
<1> HIDE DEF c
<1>4. AskedGpus * c \in Nat /\ AskedGpus * c >= AskedGpus
  <2>1. c \in {1, 2, 3, 4, 5, 6, 7, 8}
    BY <1>2
  <2> QED BY <1>1, <2>1
<1> QED BY <1>1, <1>3, <1>4

LEMMA SoundOpts ==
    ASSUME Flow, Sound, OptsAreMerged
    PROVE  /\ opts.vendor \in Vendors /\ opts.taint = FALSE
           /\ opts.vendor = "amd" => Admitted(buildAMDValues(opts))
<1>1. /\ opts.vendor = AskedVendor /\ opts.mode = File.mode /\ opts.count = File.count
  BY AsAsked
<1>2. opts.taint = Given(flags.taint, File.taint)
  <2>1. CASE file = NoFile
    <3>1. opts = FlagOpts(flags)
      BY <2>1, Zenon DEF OptsAreMerged
    <3>2. opts.taint = Given(flags.taint, FALSE)
      BY <3>1 DEF FlagOpts
    <3>3. File.taint = FALSE
      BY <2>1 DEF File, NothingSaid
    <3> QED BY <3>2, <3>3, Zenon
  <2>2. CASE file # NoFile
    <3>1. file \in FileType
      BY <2>2, FilesAssumption DEF Flow, FileType
    <3>2. ApplyFamilyDefaults(file).taint = file.taint
      BY <3>1 DEF ApplyFamilyDefaults, FileType
    <3>3. opts = FileOpts(flags, ApplyFamilyDefaults(file))
      BY <2>2, Zenon DEF OptsAreMerged
    <3>4. opts.taint = Given(flags.taint, file.taint)
      BY <3>2, <3>3 DEF FileOpts
    <3>5. File = file
      BY <2>2, Zenon DEF File
    <3> QED BY <3>4, <3>5, Zenon
  <2> QED BY <2>1, <2>2
<1>3. opts.taint \in BOOLEAN
  BY OptionsType DEF Options
<1>4. ASSUME opts.vendor = "amd" PROVE Admitted(buildAMDValues(opts))
  <2>1. /\ buildAMDValues(opts).mode = IF opts.mode # "" THEN opts.mode ELSE "spx"
        /\ buildAMDValues(opts).count = IF opts.mode # "" THEN opts.count ELSE 1
    BY Zenon DEF buildAMDValues
  <2>2. CASE opts.mode = ""
    <3>1. buildAMDValues(opts).mode = "spx" /\ buildAMDValues(opts).count = 1
      BY <2>1, <2>2, Zenon
    <3> QED BY <3>1 DEF Admitted
  <2>3. CASE opts.mode # ""
    <3>1. opts.mode \in {"spx", "cpx"} /\ opts.count \in 1..8
      BY <1>1, <1>4, <2>3, SoundPartitions
    <3>2. /\ buildAMDValues(opts).mode = opts.mode
          /\ buildAMDValues(opts).count = opts.count
      BY <2>1, <2>3, Zenon
    <3> QED BY <3>1, <3>2 DEF Admitted
  <2> QED BY <2>2, <2>3
<1> QED BY <1>1, <1>2, <1>3, <1>4 DEF Sound

\* Once nothing is left that starts, what advertises runs.
LEMMA SoundAdvertised ==
    ASSUME Flow, Sound, release # None, \A k \in Processes \ up : ~Startable(k)
    PROVE  Advertised >= 0
<1>1. /\ OptsAreMerged /\ ReleaseIsBuilt /\ opts.vendor \in {"nvidia", "amd"}
      /\ opts.taint = FALSE
  BY SoundOpts DEF Flow, Vendors
<1>2. AskedDevices \in Nat /\ opts.gpus \in Nat
  BY <1>1, SoundDevices
<1>3. CASE opts.vendor = "amd"
  <2>1. Processes = {"controller", "plugin", "exporter", "labeller"}
    BY <1>3 DEF Processes
  <2>2. GpusPerNode("controller") = 0
    BY DEF GpusPerNode
  <2>3. "controller" \in up
    BY <1>1, <2>1, <2>2 DEF Startable
  <2>4. GpusPerNode("plugin") = AskedDevices
    BY <1>3, PluginAsAsked
  <2>5. "plugin" \in up
    BY <1>1, <1>2, <2>1, <2>3, <2>4 DEF Startable
  <2>6. buildDevices(AskedDevices) = 0..(AskedDevices - 1)
    BY <1>2 DEF buildDevices
  <2>7. Cardinality(0..(AskedDevices - 1)) \in Nat
    <3>1. IsFiniteSet(0..(AskedDevices - 1))
      BY <1>2, FS_Interval
    <3> QED BY <3>1, FS_CardinalityType, Zenon
  <2>8. Advertised = Cardinality(0..(AskedDevices - 1))
    BY <2>4, <2>5, <2>6 DEF Advertised
  <2> QED BY <2>7, <2>8
<1>4. CASE opts.vendor = "nvidia"
  <2>1. Processes = {"operator", "extras"}
    BY <1>4 DEF Processes
  <2>2. GpusPerNode("operator") = 0
    BY DEF GpusPerNode
  <2>3. "operator" \in up
    BY <1>1, <2>1, <2>2 DEF Startable
  <2>4. "plugin" \notin up
    BY <2>1 DEF Flow
  <2>5. release = buildNVIDIAValues(opts)
    BY <1>1, <1>4 DEF ReleaseIsBuilt
  <2>6. release.gpus = opts.gpus
    BY <2>5, Zenon DEF buildNVIDIAValues
  <2>7. Advertised = opts.gpus
    BY <2>3, <2>4, <2>6 DEF Advertised
  <2> QED BY <1>2, <2>7
<1> QED BY <1>1, <1>3, <1>4

\* waitForCapacity does not time out: all nodes report enough before it could.
LEMMA SoundDoesNotTimeOut ==
    ASSUME Flow, Counts, Installed, Sound, TimesOut
    PROVE  FALSE
<1>1. /\ pc = "waiting" /\ release # None /\ OptsAreMerged
      /\ Cardinality(ReadyWorkers) < opts.workers
      /\ \A k \in Processes \ up : ~Startable(k)
  BY DEF TimesOut, Installed, Flow
<1>2. \A n \in DOMAIN capacity : capacity[n] # NotReported
  BY <1>1, SoundAdvertised DEF TimesOut
<1>3. AskedDevices >= opts.gpus
  BY <1>1, SoundDevices
<1>4. ReadyWorkers = 1..nodes /\ nodes = PositiveOr2(opts.workers)
  BY <1>1, <1>2, <1>3 DEF Counts, ReadyWorkers
<1>5. opts.workers \in Int
  BY <1>1, AsAsked
<1>6. nodes \in Nat /\ nodes >= opts.workers
  BY <1>4, <1>5 DEF PositiveOr2
<1>7. Cardinality(1..nodes) = nodes
  BY <1>6, FS_Interval
<1> QED BY <1>1, <1>4, <1>5, <1>6, <1>7

LEMMA SoundNext ==
    Flow /\ Counts /\ Installed /\ SoundIsNotRefused /\ [Next]_vars
        => Installed' /\ SoundIsNotRefused'
<1> SUFFICES ASSUME Flow, Counts, Installed, SoundIsNotRefused, [Next]_vars
             PROVE  Installed' /\ SoundIsNotRefused'
  OBVIOUS
<1>1. UNCHANGED <<flags, file>>
  BY DEF Next, Command, Cluster, applyConfig, ConfigRefused, Create, VendorRefused, Refuse,
         Install, Succeed, TimesOut, Start, NodeReports, Annotate, vars
<1>2. Sound' => Sound
  BY <1>1 DEF Sound, AskedVendor, AskedGpus, Asked, Given, File, validate, validateUtilRange
<1>3. ASSUME pc' \notin {"waiting", "ready", "refused", "failed"}
      PROVE  Installed' /\ SoundIsNotRefused'
  BY <1>3 DEF Installed, SoundIsNotRefused
<1>4. CASE applyConfig \/ Create
  BY <1>3, <1>4 DEF applyConfig, Create
<1>5. CASE ConfigRefused
  <2>1. ~Sound
    <3>1. CASE file = NoFile
      BY <1>5, <3>1 DEF ConfigRefused, Sound, AskedVendor, Given, File, NothingSaid, Vendors
    <3>2. CASE file # NoFile
      BY <1>5, <3>2 DEF ConfigRefused, Sound
    <3> QED BY <3>1, <3>2
  <2>2. pc' = "refused"
    BY <1>5 DEF ConfigRefused, Refuse
  <2> QED BY <1>2, <2>1, <2>2 DEF Installed, SoundIsNotRefused
<1>6. CASE VendorRefused
  <2>1. OptsAreMerged /\ ~validateVendor /\ pc' = "refused"
    BY <1>6 DEF VendorRefused, Refuse, Flow
  <2>2. ~Sound
    BY <2>1, SoundOpts DEF validateVendor
  <2> QED BY <1>2, <2>1, <2>2 DEF Installed, SoundIsNotRefused
<1>7. CASE Install
  <2>1. OptsAreMerged /\ validateVendor
    BY <1>7 DEF Install, Flow
  <2> DEFINE v == IF opts.vendor = "amd" THEN buildAMDValues(opts)
                                         ELSE buildNVIDIAValues(opts)
  <2>2. IF opts.vendor = "amd" => Admitted(v)
        THEN release' = v /\ pc' = "waiting" ELSE pc' = "failed"
    BY <1>7 DEF Install
  <2>3. (opts.vendor = "amd" => Admitted(v)) => v # None
    BY <2>1, ReleaseType, ValuesAssumption
  <2>4. Sound => (opts.vendor = "amd" => Admitted(v))
    BY <2>1, SoundOpts
  <2> HIDE DEF v
  <2> QED BY <1>2, <2>2, <2>3, <2>4 DEF Installed, SoundIsNotRefused
<1>8. CASE Succeed
  BY <1>8 DEF Succeed, clusterVars, Installed, SoundIsNotRefused
<1>9. CASE TimesOut
  <2>1. ~Sound /\ pc' = "failed"
    BY <1>9, SoundDoesNotTimeOut DEF TimesOut
  <2> QED BY <1>2, <2>1 DEF Installed, SoundIsNotRefused
<1>10. CASE UNCHANGED <<pc, release>>
  BY <1>2, <1>10 DEF Installed, SoundIsNotRefused
<1> QED
  BY <1>4, <1>5, <1>6, <1>7, <1>8, <1>9, <1>10
     DEF Next, Command, Cluster, Start, NodeReports, Annotate, vars

\* Whatever passes the loader, outside the gaps the README lists, is admitted by the
\* API server and started by every process, and all nodes report it before
\* waitForCapacity can give up (load.go:66-72, gpu_create.go:134, wait.go:71).
THEOREM SoundIsNeverRefused == Spec => []SoundIsNotRefused
<1>1. Init => Installed /\ SoundIsNotRefused
  BY DEF Init, Installed, SoundIsNotRefused
<1> QED BY <1>1, FlowInit, FlowNext, CountsInit, CountsNext, SoundNext, PTL DEF Spec
=============================================================================
