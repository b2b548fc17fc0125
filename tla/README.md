# A TLA+ model of sims

`sims` is a command line tool that makes [kind](https://kind.sigs.k8s.io)
clusters with simulated GPUs, and the small operators that run in them. This
directory holds TLA+ modules that model it, TLC configurations that check them,
and proofs that TLAPS checks. `PROJECT.json` says which definition models which
lines, which run checks which property, and which mutation of which definition
breaks it.

Paths below are relative to the repository; `rocm/` stands for
`operators/fake-rocm-gpu-operator/` and `dcgm/` for `operators/fake-dcgm-extras/`.

## The system

| Component | Keeps | Operations | Talks to |
|---|---|---|---|
| kubelet, API server, scheduler (external) | pods, device allocations, ConfigMaps, namespaces | bind, run, finish, reclaim | everything |
| annotator (`rocm/pkg/deviceplugin/annotate.go`) | nothing between ticks | every 5 s: list PodResources; Get and Patch each pod that has devices | kubelet, API server |
| status-updater (`rocm/internal/statusupdater`) | nothing between ticks | every 5 s: list pods, Save the topology | API server |
| topology ConfigMap (`rocm/pkg/topology`) | assignments node → GPU → pod | Load, Save, FindAssignment | updater writes, exporters read |
| metrics-exporter (`rocm/internal/exporter`) | a `worldState` under a lock | every 5 s: Load, Get each assigned pod, publish; every scrape: label and range per GPU | API server, Prometheus |
| device-plugin server (`rocm/pkg/deviceplugin/server.go`) | gRPC server, socket, `stopUpdates` | start, register, ListAndWatch, stop | kubelet, through two sockets |
| DeviceConfig controller (`rocm/pkg/controller`) | work queue, cached reads | reconcile five children, write the status | API server, garbage collector |
| node-labeller (`rocm/internal/nodelabeller`) | nothing | one patch at start-up | API server |
| GPU inventory (`rocm/pkg/simulate`, `cmd/rocm-smi-mock`) | nothing | compute device and partition identifiers from flags | exporter, kubelet |
| fake-dcgm-extras (`dcgm/internal/exporter`) | GPU pods of its node in list order | every 5 s: list; every scrape: one slot per pod | API server, Prometheus |
| `sims gpu create`, `monitoring`, `delete` (`pkg/cli`, `pkg/kube`, `pkg/helm`, `pkg/cluster`) | temporary kubeconfig files | kind create/delete, ensure namespace, Helm install/uninstall, wait | kind, API server |
| `sims gpu dashboard` (`pkg/cli/gpu_dashboard.go`) | a PID file per cluster | start and stop a detached `kubectl port-forward` | processes of the host |
| configuration flow (`pkg/simsconfig`, `applyConfig`, `vendorWiring`, the CRD, the flags of each process) | nothing but copies | check, complete, merge, render, check again | kind, charts, controller, exporters |
| `status`, `list`, `sample`, `doctor` | nothing | read and print | |

What is hard in it is not any one function:

- **Stale copies in a row.** An allocation travels kubelet → annotation →
  ConfigMap → exporter cache → metric label, each hop on its own ticker, each
  a read followed by a write that names pods by name and not by UID. A pod may
  end, be deleted or be replaced by one of its name between any two steps.
- **Partial failure.** Every loop logs a failing call and goes on with the rest.
- **A reconciler with unwatched state**: what raises no event is never repaired.
- **One value, five readers.** A worker or GPU count, a range, a partition mode is
  checked by the loader, the CRD and the process that is started with it, each by
  rules of its own, and defaulted in between by each that finds none.
- **Two processes, one path.** Two device-plugin pods of a node share a socket
  file, two shells a PID file, two commands a namespace.
- **Restarts**: of the components, of the kubelet, of a killed command.

The properties that make each part correct are those of the next section; every
hazard is listed at its line in `PROJECT.json`, with a note where its properties
cover it in part only.

## Modules

```
KubeCluster      pods, kubelet allocations, users, faults            (external)
  PodAnnotator   annotate.go                       EXTENDS KubeCluster
  TopologyCM     topology/configmap.go: Load, FindAssignment
  StatusUpdater  statusupdater/run.go, Save
  ExporterCache  exporter/cache.go, the sampler of exporter/run.go
  GpuPipeline    all of them together; the properties of the data flow
GpuAttribution   what the pipeline promises; GpuPipeline implements it
GpuPipelineProofs                                  theorems about GpuPipeline
GpuInventory, GpuInventoryProofs                   device and partition ids
DevicePlugin     server.go, registration.go        EXTENDS GpuInventory
DevicePluginProofs                                 theorems about DevicePlugin
DeviceConfigController   deviceconfig_controller.go, with queue, watches, GC
Reconciliation   what the controller promises; DeviceConfigController implements it
DeviceConfigProofs      theorems about DeviceConfigController and Reconciliation
DcgmExtras       dcgm/internal/exporter            EXTENDS KubeCluster
DcgmExtrasProofs                                   theorems about DcgmExtras
Dashboard        gpu_dashboard.go
DashboardProofs                                    theorems about Dashboard
GpuCluster       create, monitoring enable/disable, delete
GpuClusterProofs                                   theorems about GpuCluster
SimsConfig       file and flags -> what nodes report       EXTENDS GpuInventory
SimsConfigProofs                                   theorems about SimsConfig
MC*              instances for TLC
```

### The AMD data flow: `GpuPipeline`

A pod is a name with an incarnation number, the state of the Pod object (phase,
node, the two `sims.io` annotations). `held` is what the kubelets have allocated
now, `granted` what they ever have. Each API call of a reconcile is one action
(`AnnotatorList`, `AnnotatorGet`, `AnnotatorPatch`; `UpdaterList`, `UpdaterGet`,
`UpdaterWrite`; `RefreshLoad`, one `RefreshFetch` per pod, `RefreshPublish`) and
between any two of them anything may happen. A failing call takes the code's
error path and spends the `MaxFaults` budget; restarts and deletions of the
ConfigMap spend `MaxCrashes`.

Pod names are numbers because `FindAssignment` returns the first match and the
API server lists by name, so the order matters. Container labels, namespaces and
numbers drawn from ranges are left out. A malformed range falls back to the
default as `ParseUtilizationWithDefault` and `Refresh` do.

Properties: `AttributionNotInvented`, `WorldStateCoherent`, `AllOrNothing`,
`RunningPodChargedForItsOwn`, `AttributionSticks`; the refinement
`ImplementsAttribution`; `EventuallyCharged`, `EventuallyIdle`,
`EventuallyInRange`. `AllOrNothing`, `RunningPodChargedForItsOwn`,
`AttributionSticks` and `ImplementsAttribution` need pods whose names are not
used twice (`MaxUid = 1`), as those of Deployments and Jobs: with StatefulSets
the code breaks them, since it patches by name.

### `DeviceConfigController`

Owned objects, the reconciler's possibly stale copies of them (`seen`,
`unseen` and `news` stand for the informer caches), the work queue and the
`worker`, which stands at one call of `Reconcile` at a time. `Call` is the Get
and the Create or Update of `CreateOrUpdate`; an error abandons the rest of the
children and queues the DeviceConfig again. `SetControllerReference` refuses a
child of another owner. The garbage collector deletes children whose owner is
gone. Of a child only the node selector and the GPU counts it is started with
are kept. The controller runs one reconcile at a time, controller-runtime's
default. `MaxGen` DeviceConfigs are created in all, under any name, so a name may
be used again while the children of its predecessor wait to be collected.
`Resync` is the informers' periodic resync: the manager sets no `SyncPeriod`, so
it is controller-runtime's of ten hours. Only `FairSpec` has it; safety is
checked without, since rest is what is there until it comes.

Properties:

- `RestMeansReconciled`: no wakeup is lost. When queue, caches and worker are
  idle, every child is there as the latest spec wants it, and none that it does
  not want, whatever edits, deletions, tampering, stale reads, failures and
  restarts came before.
- `ImplementsReconciliation`: the same while it is busy. `Reconciliation` knows only
  what somebody outside sees, the DeviceConfigs (`demand`), the children (`objects`)
  and who still has something to do (`todo`: in the queue, in an informer's way or
  being reconciled). A name leaves `todo` only when its children are right, a child
  is written only for a name in it and from a version that name has had, and
  whoever loses a child it asks for enters it.
- `StatusTruthful`: at rest, and if no call has failed, the status tells the
  truth about spec and readiness.
- `InventoriesAgree`: the device plugin's and the exporter's flags make the same
  GPUs, CPX included. `NoTakeover`: with two DeviceConfigs, one never takes over
  what the other controls.
- `WritesDieOut`: the reconciler does not chase its own events, not even when the
  resync goes on for ever. `EventuallyRight`: what is not watched or not retried
  (the Service, a failed status update) is right after a resync.
  `NothingLeftBehind`: a deleted DeviceConfig leaves no child, also when a
  reconcile was creating them.

### `DevicePlugin`

Pods `Plugins` of one node, in turn or overlapping; the socket file (which
process's listener it leads to), the kubelet (up, stream, the devices it knows),
and `Server.Run` as a program counter: remove, listen, register, serve, drain,
unlink. `GracefulStop` waits for `ListAndWatch` handlers (`Drained`). The kubelet
dials back inside `Register`: it starts the stream when it answers, and the
kubelet's own retries of that dial are left out. A restarted kubelet empties its
socket directory.

Properties: `AloneUndisturbed` (nobody takes the path, the socket or the stream
of a pod that is alone on its node), `EventuallyAdvertised` (of pods that overlap
too; its premise wants a kubelet and a listener that stay, and no other pod that
starts over this one, `StartsLast`), `EventuallyServes` and `StopCompletes` (of all
behaviours). What a stop does to the socket of a newer pod is harmless: before
`Register` it makes that fail, and the process starts again; after it the kubelet
has its stream. What a start does to it is not: the pod whose socket was replaced
registers, and the kubelet's stream goes to the other one (`MCOverlap`).

### `DcgmExtras`, `Dashboard`, `GpuCluster`

`DcgmExtras` reuses the pods of `KubeCluster`: `granted` tells which pods request
a GPU, and list order is name order. `EventuallyReported`, `EventuallyForgotten`.

`Dashboard` has the processes of the host by PID (a PID may be given again), the
holder of local port 3000, the PID files, and commands call by call in several
shells. `overlaps` counts the commands that begin while another one for their
cluster runs, `MaxOverlaps` bounds them. `OrphansAreAccountedFor`: a forward that
no command can stop any more has cost a failed write of the PID file or such an
overlap, one each. `StopLeavesNothing` says the same of what a `--stop` leaves.

`GpuCluster` has one cluster, its two namespaces and releases, the nodes that
report capacity, and commands call by call in several shells, which may fail or
be killed. `current` says whether the namespace object a command has read is
still the newest, as the API server's optimistic locking asks. A user creates
namespaces only between commands. `told` is the last line a command has printed,
for commands that have run alone. `SuccessIsTrue` (of the GPU stack and of the
monitoring stack), `LabelledBeforeInstall`, `NoKubeconfigLeft`.

### `SimsConfig`

Follows one `sims gpu create` through `pc`: `applyConfig` (load, `validate`,
`ApplyFamilyDefaults`, and the flags laid over the file), `Create` (`Render`
and kind), `Install` (the values of both charts, merged with the charts' own
defaults, and the schema of the DeviceConfig), then the cluster: processes that
`Start` if their own checks let them, nodes that report what these processes
`Advertised`, and the capacity wait that ends in `Succeed` or `TimesOut`. At last a
user annotates a pod and a scrape draws from the range that comes out (`Drawn`,
the exporters' two parsers, default and fallback included). `opts` is
`createOpts`, `release` the chart values; both are copies, and what can go wrong
is that copies taken by different ways differ.

Data: products go by their family, memory is in GiB, a bound of a range is a
number, `NaN` or `Junk`. Calls do not fail (they do in `GpuCluster`), and two
minutes are enough for what can start at all, so `TimesOut` means that nothing is
left to wait for. fake-gpu-operator is not part of the repository: whether it
tolerates the taint is left open (its `Start` is possible then, and not fair).

Properties: `ReadyAsAsked` (the line "ready -- N workers x M" names what flags
or file asked for, and that many nodes report exactly that, partitions
included), `StackAgrees` (the processes of a stack mean the same GPUs, of one
product of the vendor, with its memory), `DrawnInBounds`, `DefaultApplies` (what
the loader lets through as a default range the exporter can read), and
`SoundIsReady`: input of which nothing falls into a named gap makes a cluster.
The gaps are the conjuncts of `Sound`: a partition mode without a count, a
taint, a negative number of GPUs.

## Runs

`tlc -config <cfg> <module>`; each of them ends without an error.

| Run | Module | Bounds | Shows |
|---|---|---|---|
| `MCUniqueNames` | MCGpuPipeline | 2 pods, 1 node, 2 GPUs, 1 fault | types, the safety of attribution and the refinement when names are not reused |
| `MCLiveness` | | 2 pods, 1 GPU, 1 fault, 1 restart | allocations reach the scrape, and freed GPUs go idle |
| `MCRanges` | | 1 name used for 2 pods, ranges unset, malformed and set, 1 fault, 1 restart | ranges reach the scrape |
| `MCConfigs` | MCDeviceConfig | 2 names, 2 specs, 2 DeviceConfigs created, no tampering | the first owner keeps the children; names used again; reconciliation and inventories |
| `MCConfigLiveness` | | 1 DeviceConfig, 2 specs, 1 edit, tampering or change of readiness, 1 fault or restart, resyncs | the refinement of `Reconciliation`, truthful status, writes die out, everything is right in the end, deletion is complete |
| `MCPlugin` | MCDevicePlugin | 2 pods, in turn or overlapping, 1 kubelet stop, 1 listener failure, 2 faults | registration after crashes and stale sockets; pods one after another do not disturb each other; one that starts after the others is advertised though they overlap; the last pod serves; stops end |
| `MCDcgm` | MCDcgmExtras | 2 pods, 2 nodes, 2 slots, 1 restart | slots follow pods |
| `MCShells` | MCDashboard | 2 shells, 2 clusters, 3 PIDs, 1 foreign process, 1 deletion, 1 fault, 1 overlap | only failed writes and overlaps lose a forward |
| `MCCluster` | MCGpuCluster | 2 shells, 2 workers, 4 commands, 1 fault, 1 kill | success is true, no kubeconfig is left, namespaces are labelled before installs |
| `MCConfigFlow` | MCSimsConfig | 96 command lines x some 100 files, 13 annotations | what is asked for is what is there, and later stages refuse nothing else |

Two larger instances of the controller are there to run by hand with
`MCDeviceConfig`; each takes a few minutes. `MCOneConfig` has 3 specs, 2 changes,
and all watched children tampered with. `MCReconciliation` checks the refinement
with two DeviceConfigs that compete for the children.

Two pods and one or two GPUs are enough for each race of the pipeline: it takes a
pod that had a GPU and one that has it now, and a pod with two GPUs to see half
an allocation. Names that are used again and several nodes with equally named
GPUs are in `MCRanges` and `MCDcgm`. For the safety of attribution the theorems
cover several nodes, and of names used again only `NotInvented` speaks: the rest
does not hold of them, as a Patch may reach the pod that has taken the name.
`MCConfigLiveness` creates one DeviceConfig; one created again under its name is in
`MCConfigs` (safety) and in the theorem `ImplementsPromise`. Reconciliation needs one child that fails with
another after it, and the second change to happen while the first is handled.
Two processes are what overlap takes. The files of `MCConfigFlow` vary together
what is checked or merged together: counts with families and vendors, features
with vendors, ranges on AMD, taint and memory; numbers lie below, at, and beyond
their limits. All budgets (`MaxUid`, `MaxFaults`, `MaxCrashes`,
`MaxChanges`, `MaxGen`, `MaxKubeletStops`, `MaxListenerFailures`, `MaxForeign`,
`MaxDeletes`, `MaxOverlaps`, `MaxCommands`, `MaxKills`) are guards of named actions. Deadlock is
not checked: when its budgets are spent a model may stop, as may the system.

### Where code and documentation differ

Each of these sentences of the repository can be refuted by what the code does.
Two are runs of the project, `MCFinishedPods` and `MCOverlap`: the first because
it is the reason for the premise of the liveness properties, the second because
what is lost stays lost. For those with another configuration TLC gives a
counterexample in the same way, with the property the configuration names:
`tlc -config <cfg> <module>`.

| Configuration | Module | Sentence | What happens |
|---|---|---|---|
| `MCFinishedPods` | MCGpuPipeline | the topology maps GPUs to the pods consuming them (`configmap.go:1-6`) | a finished pod keeps its assignment and hides the pod that has its GPU |
| `MCOverlap` | MCDevicePlugin | a plugin pod on every node serves its devices (`server.go:3-6`) | a starting pod removes the socket of one that is about to register; the kubelet's stream goes to the pod that leaves, and the one that stays does not register again |
| `MCKubeletRestart` | | the keepalive catches kubelet restarts (`server.go:189-191`) | the plugin does not register again |
| `MCStaleAnnotation` | MCGpuPipeline | annotations are reconciled with the kubelet (`annotate.go:29-30`) | a wrong annotation on a pod without devices is never withdrawn |
| `MCHiccup` | | the cache serves the last good state (`cache.go:59-62`) | a failed Get of one pod makes its load 0 |
| `MCServiceDrift` | MCDeviceConfig | any owned-resource event reconciles (`deviceconfig_controller.go:80-83`) | the Service is not watched: its drift stays until the next event or resync |
| `MCStatusRetry` | | "status update failed (will retry)" (`deviceconfig_controller.go:151`) | it is not retried before the next event or resync |
| `MCDcgmFinished` | MCDcgmExtras | pods that hold a GPU are reported (`dcgm/internal/exporter/cache.go:1-4`) | finished pods use up the slots |
| `MCRecycledPid` | MCDashboard | `--stop` kills the forward (`docs/architecture.md:100`) | it signals whoever has the PID |
| `MCTwoShells` | | the PID of the forward is stored (`docs/architecture.md:100`) | a second shell overwrites it |
| `MCStacks` | MCGpuCluster | failures in one stack don't block the other (`docs/architecture.md:96`) | a late GPU stack leaves monitoring out |
| | | the node selector restricts every child (`deviceconfig_types.go:31`) | the status-updater ignores it (`Desired` of `"su"`) |
| | | the reconciler sets a Ready condition (`deviceconfig_types.go:108`) | it sets none (`UpdateStatus`) |
| | | Run ends when the listener fails (`server.go:118`) | it waits for its context (`ListenerFails` leaves `server` alone) |
| `MCTaint` | MCSimsConfig | `--taint` taints GPU workers (`gpu_create.go:78`, `docs/quickstart.md:44`) | no pod of the AMD stack tolerates the taint: the command times out |
| `MCPartitionMode` | | `features.partition.mode` is valid on its own (`docs/quickstart.md:49-51`, `load.go:63-72`) | the chart is told a count of 0, which the CRD refuses after the cluster was made |
| `MCExtrasCount` | | `gpusPerNode` is set from `--gpus-per-worker` (`dcgm/chart/values.yaml:1-3`) | only when the file names a family |
| `MCNaNRange` | | a range is within 0..100 or an error (`parse.go:24-36`) | `NaN-NaN` passes, and the gauges are NaN |
| | | "ready — %d workers" (`gpu_create.go:200`) | `--workers 0` makes two and waits for none (`WorkerCount`, `Awaited`) |
| | | a family must be the vendor's (`load.go:52`) | `--vendor` replaces the vendor after that check (`FileOpts`) |
| | | `gpu.memoryBytes` (`docs/quickstart.md:48`) | it counts only beside a family (`FileOpts`) |

Smaller differences without a configuration: `configmap.go:85-87` speaks of an empty
ConfigMap in the chart, which has none; `docs/architecture.md` lets Allocate
patch the pod, which the annotator does; `exporter/cache.go:92-94` promises useful
values from the first scrape, but the first refresh runs beside the server.

## Fairness

- Every component of the pipeline and fake-dcgm-extras runs a ticker loop, so its
  next step is weakly fair (`FairSpec`, `DcgmFairSpec`). Failing calls and
  restarts are bounded, which stands for "not for ever". The kubelet gives back
  devices of pods that have ended (weak fairness of `Reclaim`).
- `ReapedFairSpec` adds that pods that have ended are deleted some time, as Job
  controllers and the pod garbage collector do. Without it `EventuallyCharged`
  fails: that is `MCFinishedPods`. The DCGM properties state the same as a
  premise.
- The controller's queue, watches and garbage collection are weakly fair:
  controller-runtime's worker takes queued items, informers deliver events and
  resync periodically (that one only `EventuallyRight` needs, and `WritesDieOut`
  must stand).
- In `SimsConfig` the command goes on, processes that can start do, and nodes
  report: the DaemonSet controller and the kubelet. Nothing is asked of
  fake-gpu-operator behind a taint.
- In `DevicePlugin` goroutines make progress, the DaemonSet controller starts the
  next pod and the kubelet comes back after a stop.
- Users, faults, crashes, tampering and readiness are never fair.

## Proofs

For every set of names, nodes and GPUs and all bounds (`GpuPipeline`'s named
assumptions on its constants):

- `TypeCorrect`: `Spec => []TypeOK`.
- `NotInvented`: `AttributionNotInvented`. It is not inductive: the copies the
  components work on may hold anything as far as it is concerned. `GrantedInv`
  adds that the annotator's listing, the updater's and the exporters' pending
  topologies hold granted GPUs only. Names suffice since `granted` only grows.
- `WorldStateNotTorn`: `WorldStateCoherent`, with `CoherentInv` adding the same of
  a refresh in progress.
- With `MaxUid = 1`: `ChargedForItsOwn`, `WholeAllocations` and
  `ImplementsAbstract`, from `ExactInv`: each copy of a pod's GPUs, in a listing,
  an annotation, a topology being built, the ConfigMap or a cache, is the whole
  set the pod was granted, on its own node, or none of it; and a pod is granted
  devices once, when it is bound. Without the bound a patch may reach the next pod of the
  name, and the claim is false. For the refinement every step is mapped: `Bind`
  to a grant, the end of a refresh to a step of `GpuAttribution` that shows the
  GPUs of granted owners only, all others to a stutter.
- With `MaxUid = 1` and `MaxCrashes = 0` (no restart, no deletion of the ConfigMap):
  `AttributionAlwaysSticks`. Each copy of the topology is made from the next newer
  one: worldState, Refresh, ConfigMap, updater, pods. `OrderInv` says that what an
  older one holds of a pod that still exists the newer one holds too, so that
  replacing the older by the newer loses nothing; `ExactInv` is what makes an
  annotation, once written, the last word.
- `SeriesAreDevices`, `SeriesAreDistinct`: for all counts, the identifiers of the
  exporter's partitions are those of the plugin's devices, without a repetition.
  (Integers are unbounded here; the code multiplies in 32 bits.)

For every catalog, set of files, of command lines and of annotations
(`SimsConfig`'s assumptions on them; the arithmetic is of integers):

- `Flow` is the invariant: `opts` is the merger of flags and file, `release` the
  values built from it, and a process runs only if its vendor has it. From it,
  `DefaultAlwaysApplies`: `[]DefaultApplies`, with the lemma that what
  `validateUtilRange` lets through `ParseUtilizationWithDefault` returns as it is;
  and `StackAlwaysAgrees`: `[]StackAgrees`, with `SeriesAreDevices` for the counts
  of plugin and exporter, negative ones included.
- `TypeCorrect`: `[]TypeOK`. The assumptions say that a family and a file may give
  any number as the memory of a card, as the code does.
- `DrawnInBoundsWithoutNaN`: `[]DrawnInBounds` if no annotation has a `NaN` in it
  (with one it is false, see the divergences).
- `ReadyIsAsAsked`: `[]ReadyAsAsked`, with the invariant `Counts`: what a node has
  reported is the number asked for times the partitions, or nothing yet, and the
  ready nodes that the command has counted stay ready.

- `SoundIsNeverRefused`: the safety half of `SoundIsReady`. What the loader accepts,
  outside the gaps that `Sound` names, is refused by no later stage, and the
  capacity wait does not time out on it: when nothing is left that starts, every
  node reports at least what the command waits for.

For any DeviceConfigs, specs, edits and faults (`DeviceConfigController`), with and
without resync; `ResyncSpec` is what `Spec` and `FairSpec` have in common:

- `TypeCorrect`: `[]TypeOK`.
- `NoTakeoverAlways`: `NoTakeover`. `GenInv` orders the generations of a name: the
  informer is behind the API server, the worker behind the informer, and what the
  worker wrote behind the worker; so a child that the worker may write is its own
  or garbage.
- `RestMeansReconciledAlways`: `[]RestMeansReconciled`. `CopyInv`: the informer's copy
  is old only while news is to come, the worker's only if its name is to be
  reconciled again. `SettledInv`: for each child that an existing DeviceConfig
  wants, the child is right, or the name is in a queue or an informer's way, or
  the worker has still to come to it.
- `InventoriesAlwaysAgree`: `[]InventoriesAgree`, from the former and
  `SeriesAreDevices`.
- `StatusTruthfulAlways`: `[]StatusTruthful`, with the same case distinction for the
  status: `HeardInv` (readiness that the informer does not know has raised an
  event), `ToldInv` and `TruthInv`.
- `QuietStaysQuiet`: the safety half of `WritesDieOut`. In a `Quiet` state all is
  right, nothing is undelivered, and a reconcile under way has read nothing else;
  from there every step of controller, informers and garbage collector, failed
  calls and restarts included, leaves children and status as they are and the
  state quiet, until users or the pods' readiness move. `PlainInv` adds that
  conditions stay empty: a status update that filled one in would write for ever.
  `RestIsQuiet`: where users touch no Service, that state is where a controller
  rests that had no failed call.
- `ImplementsPromise`: `ImplementsReconciliation`. Creating, editing and deleting
  map to `Demand`, `Apply` to `Write` (or a stutter, if the child is as it should
  be), `deleteIfExists` to `Remove`, `Tamper` and `Collect` to their namesakes,
  all else to `Settle` or a stutter. `GenInv` bounds the version that is written,
  `CopyInv` and `SettledInv` give that who leaves `todo` is right.
- `PromiseIsKept`: what implements `Reconciliation` is `Reconciled`, every name
  outside `todo` has the children it asks for and no others. The invariant
  (`PromiseInv`) adds the types and that there is one object of a name.
  `AlwaysReconciled` puts the two together: so is the controller, at every moment.

For any plugin pods of a node, overlapping or not, and any faults (`DevicePlugin`):

- `TypeCorrect`: `[]TypeOK`; `--gpus-per-node` may be negative.
- `StopCanAlwaysEnd`: the safety half of `StopCompletes`. While `GracefulStop` waits,
  the calls it waits for have been told to return, and no listener is left
  through which a new one could come (`StopCanEnd`, with `ListeningInv`).
- `AlonePodUndisturbed`: `AloneUndisturbed`, for pods that follow one another.
  `AloneInv` adds that `stopUpdates` is open until stop, so
  that neither side of the stream ends it. `WithoutOverlapOnePod`: its premise
  holds if a pod is only created when its predecessor has gone.
- `LaterPodKeepsStream`: the safety half of `EventuallyAdvertised`, for pods that
  overlap: from the answer to its `Register` on, a pod over which no other starts
  keeps the kubelet's stream. Its socket may be unlinked, but the path never leads
  to another pod, so that a `Register` of another pod goes through it (`LaterInv`).

For any shells, clusters and PIDs (`Dashboard`):

- `TypeCorrect`: `[]TypeOK`.
- `OrphansAlwaysAccountedFor`: `[]OrphansAreAccountedFor`, by counting. `Lost` are the
  forwards that no command can stop, or that a command under way may cut loose;
  `LostInv` says that they and the busy shells are no more than the failed writes,
  the overlaps and the clusters with a command: of the commands that run for one
  cluster each but the first holds the price of what it may lose.
- `StopAlwaysLeavesNothing`: `[]StopLeavesNothing`, with `StoppedInv`, which counts the
  forwards of a stopped cluster together with those yet to be started.

For any shells, commands, failing calls and kills (`GpuCluster`):

- `TypeCorrect`: `[]TypeOK`. `Placed`, which says at which calls which command
  can be, makes the word that a command ends with one it may say.
- `NoKubeconfigLeftAlways`: `[]NoKubeconfigLeft`, inductive with the types.
- `LabelledBeforeInstallAlways`: `[]LabelledBeforeInstall`. It is not inductive;
  `LabelInv` adds `LabelsSeen`, that the namespace a command is about to install
  into is labelled or gone, and that a namespace outlives its release.
- `SuccessIsTrueAlways`: `[]SuccessIsTrue` for `Workers > 0` (with `--workers 0`
  it is false, see the divergences). `SuccessInv` adds what a command that runs
  alone has achieved at the call where it stands (`Sound`): create has a cluster,
  the wait a release deployed in a namespace that stays, monitoring a GPU stack
  that all nodes report. `EnoughIsAll` counts the nodes.

For any pods, nodes, slots and restarts (`DcgmExtras`), where names are finitely many:

- `ListedOnce`: the list of a set of pods in name order has each of them once. The
  i-th pod is the one with i - 1 names below it, so the proof counts instead of
  ordering the set by induction.
- `TypeCorrect`: `[]DcgmTypeOK`.
- `RefreshServes`: the safety half of `EventuallyReported` and `EventuallyForgotten`.
  After a Refresh the GPU pods of the node have a series each, with their
  annotation, in list order and as far as there are slots, and nobody else has one.
- `NoPodTwice`: no two slots of a node are dealt to one pod.

The provers handle neither liveness under fairness nor induction over data, so
the liveness properties (those named `Eventually...`, `WritesDieOut`,
`NothingLeftBehind`, `StopCompletes`, `SoundIsReady`) rest on TLC; of most the safety
half is proved. Every invariant and action property that a run checks, and both
refinements, are proved, each under the premises named above, if any.

## Not modelled

The node-labeller's patch (unconditional; the labels `gpu.vram` and `gpu.family`
are constants of the code and ignore the file), the reading commands (no state),
YAML decoding and the rendering of the kind configuration, the metric registries (they copy a snapshot),
formatting of tables and JSON, sampled values, Helm's own charts and
dependencies (a failing install stands for them), charts, dashboards, CI.

## Plan

Done first, because it is what the project is for: the path from an allocation
to a metric label, and its theorems. Then the processes around it: controller,
plugin, DCGM exporter, commands; then the configuration that all of them are
started with. What is left, in order:

1. An abstract specification of the socket handover that `DevicePlugin`
   implements, with a proof of the refinement.
2. `SimsConfig` composed with `GpuCluster`, so that calls fail along the way;
   container labels of the status-updater, and `sims gpu status` as a reader of a
   moving cluster.
