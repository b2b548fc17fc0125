----------------------- MODULE DeviceConfigController -----------------------
(***************************************************************************)
(* pkg/controller/deviceconfig_controller.go under controller-runtime: one *)
(* worker takes DeviceConfig names from a queue and brings five child      *)
(* objects, call by call, to what the spec asks for.                       *)
(*                                                                         *)
(* Reads (Get of the DeviceConfig, the read of CreateOrUpdate, dsReady) go *)
(* to informer caches that lag behind the API server; writes go to the     *)
(* server.  CreateOrUpdate replaces the whole spec, and with it what the   *)
(* server has defaulted, so it always has something to send: when its read *)
(* was out of date the server answers AlreadyExists, Conflict or NotFound. *)
(***************************************************************************)
EXTENDS GpuInventory, FiniteSets

CONSTANTS
    Configs,        \* names of DeviceConfig objects
    Specs,          \* the specs users give them
    Default,        \* Cfg.DefaultNodeSelector
    GPUsPerNode,    \* Cfg.GPUsPerNode
    Tamperable,     \* children that users touch behind the controller's back
    MaxGen,         \* bound: DeviceConfigs created, under any name
    MaxChanges,     \* bound: spec edits, tampering and changes of readiness
    MaxFaults       \* bound: failed API calls and controller restarts

Daemons  == {"dp", "me"}                        \* DaemonSets dsReady looks at
Watched  == Daemons \cup {"su", "nl"}           \* Owns(DaemonSet), Owns(Deployment)
Children == Watched \cup {"svc"}

NoSelector == "any node"

ASSUME SpecsAssumption ==
    /\ Specs # {}
    /\ \A s \in Specs : /\ s.plugin \in BOOLEAN
                        /\ s.exporter \in BOOLEAN
                        /\ s.mode \in {"spx", "cpx"}
                        /\ s.count \in Nat
ASSUME GPUsAssumption == GPUsPerNode \in Nat
ASSUME ControllerBoundsAssumption == {MaxGen, MaxChanges, MaxFaults} \subseteq Nat
ASSUME TamperableAssumption == Tamperable \subseteq Children

VARIABLES
    configs,    \* configs[c]: the DeviceConfig at the API server
    seen,       \* seen[c]: the informer's copy
    news,       \* DeviceConfigs whose last change the informer has not got
    children,   \* children[k]: the child object at the API server
    unseen,     \* unseen[k]: owners of the versions of k still to be delivered
    seenReady,  \* seenReady[k]: the informer's copy says that k is ready
    queue,      \* the workqueue
    worker,     \* the reconcile in progress
    changes, faults     \* spent budgets

configVars == <<configs, seen, news>>
childVars  == <<children, unseen, seenReady>>
vars == <<configVars, childVars, queue, worker, changes, faults>>

-----------------------------------------------------------------------------
(***************************************************************************)
(* What a spec asks for.                                                   *)
(***************************************************************************)
Selector(s) == IF s.selector = NoSelector THEN Default ELSE s.selector

\* The effective partition mode and count: 1 unless mode is cpx.
normalizePartition(s) ==
    [mode  |-> s.mode,
     count |-> IF s.mode = "cpx" /\ s.count >= 1 THEN s.count ELSE 1]

Wanted(k, s) ==
    CASE k = "dp" -> s.plugin
      [] k \in {"me", "svc"} -> s.exporter
      [] OTHER -> TRUE

\* Mutant: the exporter is told the number of devices, not of cards.
Desired_MultipliesTwice(k, s) ==
    LET p == normalizePartition(s)
        Conf(sel, gpus, mode, count) ==
            [selector |-> sel, gpus |-> gpus, mode |-> mode, count |-> count]
    IN  CASE k \in {"dp", "me"} ->
                 Conf(Selector(s), GPUsPerNode * p.count, p.mode, p.count)
          [] k = "nl" -> Conf(Selector(s), 0, "spx", 1)
          [] OTHER -> Conf(NoSelector, 0, "spx", 1)

\* The parts of the child's spec that depend on the DeviceConfig: the node
\* selector, --gpus-per-node and the --partition flags.
Desired(k, s) ==
    LET p == normalizePartition(s)
        Conf(sel, gpus, mode, count) ==
            [selector |-> sel, gpus |-> gpus, mode |-> mode, count |-> count]
    IN  CASE k = "dp" -> Conf(Selector(s), GPUsPerNode * p.count, "spx", 1)
          [] k = "me" -> Conf(Selector(s), GPUsPerNode, p.mode, p.count)
          [] k = "nl" -> Conf(Selector(s), 0, "spx", 1)
          [] OTHER -> Conf(NoSelector, 0, "spx", 1)

-----------------------------------------------------------------------------
Conditions == {"Ready"}

NoStatus == [plugin |-> FALSE, exporter |-> FALSE, conditions |-> {}]

Status == [plugin: BOOLEAN, exporter: BOOLEAN, conditions: SUBSET Conditions]

AnySpec == CHOOSE s \in Specs : TRUE

Confs == {Desired(k, s) : k \in Children, s \in Specs}

Owner == [name: Configs, gen: 0..MaxGen]

NoOwner == [name |-> "nobody", gen |-> 0]

NoChild == [exists |-> FALSE]

Child == [exists: {TRUE}, owner: Owner, conf: Confs, ready: BOOLEAN]

Steps == Children \cup {"idle", "status"}

\* The order of the calls of Reconcile.
After == [dp |-> "me", me |-> "svc", svc |-> "su", su |-> "nl", nl |-> "status"]

TypeOK ==
    /\ configs \in [Configs -> [exists: BOOLEAN, gen: 0..MaxGen, spec: Specs,
                                status: Status]]
    /\ seen \in [Configs -> [exists: BOOLEAN, gen: 0..MaxGen, spec: Specs]]
    /\ news \subseteq Configs
    /\ children \in [Children -> Child \cup {NoChild}]
    /\ unseen \in [Children -> SUBSET Configs]
    /\ seenReady \in [Children -> BOOLEAN]
    /\ queue \subseteq Configs
    /\ worker \in [pc: Steps, owner: Owner \cup {NoOwner}, spec: Specs, current: BOOLEAN,
                   status: Status]
    /\ changes \in 0..MaxChanges
    /\ faults \in 0..MaxFaults

Idle == [pc |-> "idle", owner |-> NoOwner, spec |-> AnySpec, current |-> FALSE,
         status |-> NoStatus]

Init ==
    /\ configs = [c \in Configs |-> [exists |-> FALSE, gen |-> 0, spec |-> AnySpec,
                                     status |-> NoStatus]]
    /\ seen = [c \in Configs |-> [exists |-> FALSE, gen |-> 0, spec |-> AnySpec]]
    /\ news = {}
    /\ children = [k \in Children |-> NoChild]
    /\ unseen = [k \in Children |-> {}]
    /\ seenReady = [k \in Children |-> FALSE]
    /\ queue = {}
    /\ worker = Idle
    /\ changes = 0
    /\ faults = 0

-----------------------------------------------------------------------------
(***************************************************************************)
(* Users.                                                                  *)
(***************************************************************************)

\* DeviceConfig c becomes cfg; a reconcile of c now works from an old version.
WriteConfig(c, cfg) ==
    /\ configs' = [configs EXCEPT ![c] = cfg]
    /\ news' = news \cup {c}
    /\ worker' = IF worker.owner.name = c THEN [worker EXCEPT !.current = FALSE]
                 ELSE worker
    /\ UNCHANGED <<seen, childVars, queue, faults>>

\* DeviceConfigs created so far: each is given the next generation.
Created == CHOOSE n \in 0..MaxGen :
              /\ \A c \in Configs : configs[c].gen <= n
              /\ n = 0 \/ \E c \in Configs : configs[c].gen = n

CreateConfig(c) ==
    /\ ~configs[c].exists
    /\ Created < MaxGen
    /\ \E s \in Specs :
          WriteConfig(c, [exists |-> TRUE, gen |-> Created + 1, spec |-> s,
                          status |-> NoStatus])
    /\ UNCHANGED changes

Change == changes < MaxChanges /\ changes' = changes + 1

EditConfig(c) ==
    /\ Change
    /\ configs[c].exists
    /\ \E s \in Specs \ {configs[c].spec} :
          WriteConfig(c, [configs[c] EXCEPT !.spec = s])

DeleteConfig(c) ==
    /\ configs[c].exists
    /\ WriteConfig(c, [configs[c] EXCEPT !.exists = FALSE, !.spec = AnySpec,
                                        !.status = NoStatus])
    /\ UNCHANGED changes

\* The owners that hear of a change of child k to obj.
Hear(k, obj) ==
    {o.owner.name : o \in {x \in {children[k], obj} : x.exists}}

\* Child k becomes obj; the informer hears of it later.
WriteChild(k, obj) ==
    /\ children' = [children EXCEPT ![k] = obj]
    /\ unseen' = IF obj = children[k] THEN unseen
                 ELSE [unseen EXCEPT ![k] = @ \cup Hear(k, obj)]
    /\ UNCHANGED seenReady

Tamper(k) ==
    /\ Change
    /\ k \in Tamperable
    /\ children[k].exists
    /\ \/ WriteChild(k, NoChild)
       \/ \E s \in Specs :
             /\ Desired(k, s) # children[k].conf
             /\ WriteChild(k, [children[k] EXCEPT !.conf = Desired(k, s)])
    /\ UNCHANGED <<configVars, queue, worker, faults>>

-----------------------------------------------------------------------------
(***************************************************************************)
(* Kubernetes.                                                             *)
(***************************************************************************)

\* The pods of a DaemonSet become ready or stop being ready.
Readiness(k) ==
    /\ Change
    /\ k \in Daemons
    /\ children[k].exists
    /\ WriteChild(k, [children[k] EXCEPT !.ready = ~@])
    /\ UNCHANGED <<configVars, queue, worker, faults>>

Garbage(k) ==
    /\ children[k].exists
    /\ LET o == children[k].owner
       IN  ~configs[o.name].exists \/ configs[o.name].gen # o.gen

\* The garbage collector deletes a child whose owner is gone.
Collect(k) ==
    /\ Garbage(k)
    /\ WriteChild(k, NoChild)
    /\ UNCHANGED <<configVars, queue, worker, changes, faults>>

\* The DeviceConfig informer catches up: For(&DeviceConfig{}) enqueues c.
Deliver(c) ==
    /\ c \in news
    /\ seen' = [seen EXCEPT ![c] = [exists |-> configs[c].exists,
                                    gen |-> configs[c].gen,
                                    spec |-> configs[c].spec]]
    /\ news' = news \ {c}
    /\ queue' = queue \cup {c}
    /\ UNCHANGED <<configs, childVars, worker, changes, faults>>

Ready(k) == children[k].exists /\ children[k].ready

\* Mutant: a predicate drops the events of a child that is ready, or not, anew.
DeliverChild_SpecOnly(k) ==
    /\ unseen[k] # {}
    /\ unseen' = [unseen EXCEPT ![k] = {}]
    /\ seenReady' = [seenReady EXCEPT ![k] = Ready(k)]
    /\ queue' = IF k \in Watched /\ seenReady[k] = Ready(k)
                THEN queue \cup unseen[k] ELSE queue
    /\ UNCHANGED <<configVars, children, worker, changes, faults>>

\* The informer of child k catches up: for the watched kinds, old and new
\* owners are enqueued.
DeliverChild(k) ==
    /\ unseen[k] # {}
    /\ unseen' = [unseen EXCEPT ![k] = {}]
    /\ seenReady' = [seenReady EXCEPT ![k] = Ready(k)]
    /\ queue' = IF k \in Watched THEN queue \cup unseen[k] ELSE queue
    /\ UNCHANGED <<configVars, children, worker, changes, faults>>

-----------------------------------------------------------------------------
(***************************************************************************)
(* The reconciler.                                                         *)
(***************************************************************************)

\* Mutant: NotFound does not end the reconcile.
Start_IgnoresNotFound(c) ==
    /\ worker.pc = "idle"
    /\ c \in queue
    /\ queue' = queue \ {c}
    /\ worker' = [pc |-> "dp", owner |-> [name |-> c, gen |-> seen[c].gen],
                  spec |-> seen[c].spec, current |-> c \notin news,
                  status |-> NoStatus]
    /\ UNCHANGED <<configVars, childVars, changes, faults>>

\* Reconcile begins: Get of the DeviceConfig; if it is not found, the end.
Start(c) ==
    /\ worker.pc = "idle"
    /\ c \in queue
    /\ queue' = queue \ {c}
    /\ worker' = IF ~seen[c].exists THEN Idle
                 ELSE [pc |-> "dp", owner |-> [name |-> c, gen |-> seen[c].gen],
                       spec |-> seen[c].spec, current |-> c \notin news,
                       status |-> NoStatus]
    /\ UNCHANGED <<configVars, childVars, changes, faults>>

\* Mutant: the error is logged and not returned.
Fail_Logged ==
    /\ worker' = Idle
    /\ UNCHANGED <<configVars, childVars, queue, changes>>

\* Reconcile returns an error: the name is queued again.
Fail ==
    /\ queue' = queue \cup {worker.owner.name}
    /\ worker' = Idle
    /\ UNCHANGED <<configVars, childVars, changes>>

\* dsReady is asked between the calls for one child and those for the next.
Observed ==
    [worker.status EXCEPT
        !.plugin = IF worker.pc = "me" /\ Wanted("dp", worker.spec)
                   THEN seenReady["dp"] ELSE @,
        !.exporter = IF worker.pc = "su" /\ Wanted("me", worker.spec)
                     THEN seenReady["me"] ELSE @]

\* A call for child k succeeds and leaves obj.
Call(k, obj) ==
    /\ WriteChild(k, obj)
    /\ worker' = [worker EXCEPT !.pc = After[k], !.status = Observed]
    /\ UNCHANGED <<configVars, queue, changes, faults>>

\* Mutant: the owner reference is set without looking at the old one.
Refused_NotByOwner(k) == unseen[k] # {}

\* CreateOrUpdate would find another name as controller of the child, which
\* SetControllerReference refuses, or its read is out of date.
Refused(k) ==
    \/ unseen[k] # {}
    \/ children[k].exists /\ children[k].owner.name # worker.owner.name

\* applyDaemonSet, applyDeployment, applyService
Apply(k) ==
    /\ worker.pc = k
    /\ Wanted(k, worker.spec)
    /\ ~Refused(k)
    /\ Call(k, [exists |-> TRUE, owner |-> worker.owner,
                conf |-> Desired(k, worker.spec), ready |-> Ready(k)])

ApplyRefused(k) ==
    /\ worker.pc = k
    /\ Wanted(k, worker.spec)
    /\ Refused(k)
    /\ Fail
    /\ UNCHANGED faults

\* The child of a disabled feature is deleted by name, whoever owns it.
deleteIfExists(k) ==
    /\ worker.pc = k
    /\ ~Wanted(k, worker.spec)
    /\ Call(k, NoChild)

Fault == faults < MaxFaults /\ faults' = faults + 1

\* A call fails: the children after it are left as they are.
CallFails ==
    /\ Fault
    /\ worker.pc \in Children
    /\ Fail

\* Mutant: an unknown condition is filled in.
UpdateStatus_OtherCondition ==
    /\ worker.pc = "status"
    /\ LET c == worker.owner.name
           status == [worker.status EXCEPT !.conditions = {"Available"}]
           changed == worker.current /\ configs[c].status # status
       IN  /\ configs' = IF changed THEN [configs EXCEPT ![c].status = status]
                         ELSE configs
           /\ news' = IF changed THEN news \cup {c} ELSE news
    /\ worker' = Idle
    /\ UNCHANGED <<seen, childVars, queue, changes, faults>>

\* Mutant: every update writes, as one with a time stamp would.
UpdateStatus_AlwaysWrites ==
    /\ worker.pc = "status"
    /\ LET c == worker.owner.name
       IN  /\ configs' = IF worker.current
                         THEN [configs EXCEPT ![c].status = worker.status]
                         ELSE configs
           /\ news' = IF worker.current THEN news \cup {c} ELSE news
    /\ worker' = Idle
    /\ UNCHANGED <<seen, childVars, queue, changes, faults>>

\* Status().Update: the status of the version that was read is replaced; the
\* conditions are not filled in.  When the object has changed since, the
\* conflict is logged.
UpdateStatus ==
    /\ worker.pc = "status"
    /\ LET c == worker.owner.name
           changed == worker.current /\ configs[c].status # worker.status
       IN  /\ configs' = IF changed
                         THEN [configs EXCEPT ![c].status = worker.status]
                         ELSE configs
           /\ news' = IF changed THEN news \cup {c} ELSE news
    /\ worker' = Idle
    /\ UNCHANGED <<seen, childVars, queue, changes, faults>>

\* Any other failure of that call is logged as well, and nothing is requeued.
StatusFails ==
    /\ Fault
    /\ worker.pc = "status"
    /\ worker' = Idle
    /\ UNCHANGED <<configVars, childVars, queue, changes>>

\* Mutant: an event filter lets only changes through.
Resync_Filtered(c) ==
    /\ c \in news
    /\ queue' = queue \cup {c}
    /\ UNCHANGED <<configVars, childVars, worker, changes, faults>>

\* The periodic resync of the informers (every ten hours; the manager sets no
\* other period) enqueues what is in the cache.
Resync(c) ==
    /\ seen[c].exists
    /\ c \notin queue
    /\ queue' = queue \cup {c}
    /\ UNCHANGED <<configVars, childVars, worker, changes, faults>>

\* The controller restarts: the informers list everything and enqueue it.
Restart ==
    /\ Fault
    /\ seen' = [c \in Configs |-> [exists |-> configs[c].exists,
                                   gen |-> configs[c].gen,
                                   spec |-> configs[c].spec]]
    /\ news' = {}
    /\ unseen' = [k \in Children |-> {}]
    /\ seenReady' = [k \in Children |-> Ready(k)]
    /\ queue' = {c \in Configs : configs[c].exists}
    /\ worker' = Idle
    /\ UNCHANGED <<configs, children, changes>>

UserNext ==
    \/ \E c \in Configs : CreateConfig(c) \/ EditConfig(c) \/ DeleteConfig(c)
    \/ \E k \in Children : Tamper(k)

KubernetesNext ==
    \/ \E k \in Children : Readiness(k) \/ Collect(k) \/ DeliverChild(k)
    \/ \E c \in Configs : Deliver(c)

ReconcileStep ==
    \/ \E k \in Children : Apply(k) \/ ApplyRefused(k) \/ deleteIfExists(k)
    \/ UpdateStatus

ControllerNext ==
    \/ \E c \in Configs : Start(c)
    \/ ReconcileStep
    \/ CallFails
    \/ StatusFails
    \/ Restart

Next == UserNext \/ KubernetesNext \/ ControllerNext

Spec == Init /\ [][Next]_vars

ResyncNext == Next \/ \E c \in Configs : Resync(c)

\* Informers, garbage collector and worker go on; users and faults do not.
FairSpec ==
    /\ Init /\ [][ResyncNext]_vars
    /\ \A c \in Configs : WF_vars(Deliver(c)) /\ WF_vars(Resync(c)) /\ WF_vars(Start(c))
    /\ \A k \in Children : WF_vars(DeliverChild(k)) /\ WF_vars(Collect(k))
    /\ WF_vars(ReconcileStep)

-----------------------------------------------------------------------------
(***************************************************************************)
(* Properties.                                                             *)
(***************************************************************************)

\* Nothing is left to do: nobody has been told anything he has not acted on.
AtRest ==
    /\ queue = {} /\ worker.pc = "idle"
    /\ news = {} /\ \A k \in Children : unseen[k] = {}
    /\ \A k \in Children : ~Garbage(k)

\* Children whose drift comes to the controller's notice: the Service is not
\* watched, so it is left out where users tamper with it.
Kept == Watched \cup (Children \ Tamperable)

\* c is in the queue, or will be when the informers have caught up.
Pending(c) == c \in news \cup queue \/ \E k \in Watched : c \in unseen[k]

Correct(k, c) ==
    IF Wanted(k, configs[c].spec)
    THEN /\ children[k].exists
         /\ children[k].owner = [name |-> c, gen |-> configs[c].gen]
         /\ children[k].conf = Desired(k, configs[c].spec)
    ELSE ~children[k].exists

\* No wakeup is lost: when the controller comes to rest, the children are what
\* the latest spec asks for, whatever edits, deletions, tampering, failed calls,
\* stale reads and restarts came between.
RestMeansReconciled ==
    AtRest => \A c \in Configs : configs[c].exists => \A k \in Kept : Correct(k, c)

\* What the controller promises, in terms of what somebody sees who knows neither
\* its caches nor its queue: DeviceConfigs, children, and whether there is still
\* something to be done for a DeviceConfig.
Demand ==
    [c \in Configs |-> [exists |-> configs[c].exists, gen |-> configs[c].gen,
                        spec |-> configs[c].spec]]

Objects ==
    [k \in Children |->
        IF children[k].exists
        THEN {[owner |-> children[k].owner, conf |-> children[k].conf]} ELSE {}]

Todo == {c \in Configs : Pending(c) \/ (worker.pc # "idle" /\ worker.owner.name = c)}

AsksFor ==
    [s \in Specs |-> [k \in Children |-> IF Wanted(k, s) THEN {Desired(k, s)} ELSE {}]]

Promise == INSTANCE Reconciliation WITH
               Contents <- Confs, Asks <- AsksFor,
               demand <- Demand, objects <- Objects, todo <- Todo

\* The controller keeps the promise of Reconciliation, not only at rest: however
\* many other DeviceConfigs keep it busy, one for which neither queue, informer
\* nor worker has anything left to do has its children; a write for it is a write
\* that it, or an older version of it, asked for; and no step takes a child from
\* a DeviceConfig without leaving that one something to do.
ImplementsReconciliation == Promise!Spec

\* The device plugin and the exporter are started with different flags (the
\* product, and its two factors).  At rest they agree on the devices of a node:
\* every device that a pod can be given has a series, and no series is idle for
\* want of a device.
InventoriesAgree ==
    (AtRest /\ children["dp"].exists /\ children["me"].exists) =>
        LET me == children["me"].conf
        IN  GpuIds(BuildGPUs(me.gpus, me.mode, me.count))
              = buildDevices(children["dp"].conf.gpus)

\* A controller restart or a recreated DeviceConfig never makes one existing
\* DeviceConfig take over a child that another existing one controls.
NoTakeover ==
    [][\A k \in Children :
          (children[k].exists /\ children[k]'.exists /\ ~Garbage(k))
              => children[k].owner = children[k]'.owner]_vars

StatusRight(c) ==
    /\ configs[c].status.plugin = (configs[c].spec.plugin /\ Ready("dp"))
    /\ configs[c].status.exporter = (configs[c].spec.exporter /\ Ready("me"))

\* As long as no call has failed, a status at rest tells the truth: a readiness
\* read before the informer heard of a change is corrected by a later reconcile.
StatusTruthful ==
    (AtRest /\ faults = 0) => \A c \in Configs : configs[c].exists => StatusRight(c)

\* With one DeviceConfig the reconciler does not chase its own writes: when
\* users are quiet it stops writing, although the resync never stops.
WritesDieOut ==
    <>[][children' = children /\ configs' = configs /\ news' \subseteq news]_vars

\* Drift of the Service, which is not watched, and a failed status update, which
\* is not retried, wake nobody; the next resync repairs both.
EventuallyRight ==
    \A c \in Configs : <>[](configs[c].exists =>
        /\ \A k \in Children : Correct(k, c)
        /\ StatusRight(c))

\* A DeviceConfig that stays deleted leaves no child, although the reconcile
\* that was running may have gone on creating them.
NothingLeftBehind ==
    \A c \in Configs : <>[](~configs[c].exists) =>
        <>[](\A k \in Children :
                ~children[k].exists \/ children[k].owner.name # c)

(***************************************************************************)
(* What comments say and the code does not do.                             *)
(***************************************************************************)

\* Reconcile's comment: "On every DeviceConfig event (and any owned-resource
\* event) we: ... Create-or-update each child".  The Service is owned as well.
ServiceReconciled ==
    AtRest => \A c \in Configs : configs[c].exists => Correct("svc", c)

\* Reconcile's comment on a failed status update: "will retry".
StatusRetried ==
    AtRest => \A c \in Configs : configs[c].exists => StatusRight(c)
=============================================================================
