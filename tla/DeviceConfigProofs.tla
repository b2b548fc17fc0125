------------------------- MODULE DeviceConfigProofs -------------------------
(***************************************************************************)
(* Proofs of the safety properties of DeviceConfigController, for any set  *)
(* of DeviceConfigs and specs, any tampering and any number of faults.     *)
(* They hold with the periodic resync and without it: the step lemmas are  *)
(* about ResyncNext, which Next implies.                                   *)
(***************************************************************************)
EXTENDS DeviceConfigController, GpuInventoryProofs, WellFoundedInduction

Working == worker.pc # "idle"

\* A worker that is not idle works for a name of its own.
TypeInv ==
    /\ TypeOK
    /\ Working => worker.owner.name \in Configs

-----------------------------------------------------------------------------
(***************************************************************************)
(* Type correctness.                                                       *)
(***************************************************************************)

LEMMA Bounds == MaxGen \in Nat /\ MaxChanges \in Nat /\ MaxFaults \in Nat
BY ControllerBoundsAssumption

LEMMA AnySpecIsSpec == AnySpec \in Specs
BY SpecsAssumption DEF AnySpec

\* Every nonempty set of numbers has a least element.
LEMMA LeastElement ==
    ASSUME NEW T, T \subseteq Nat, T # {}
    PROVE  \E x \in T : \A y \in T : x <= y
<1> DEFINE Less == OpToRel(<, Nat)
<1>1. IsWellFoundedOn(Less, Nat)
  BY NatLessThanWellFounded, Zenon
<1>2. \A x, y \in Nat : y < x => <<y, x>> \in Less
  BY DEF OpToRel
<1> HIDE DEF Less
<1>3. PICK x \in T : \A y \in T : <<y, x>> \notin Less
  BY <1>1, WFMin, Zenon
<1>4. \A y \in T : ~(y < x)
  BY <1>2, <1>3
<1>5. \A y \in T : x <= y
  BY <1>4
<1> QED BY <1>5

\* Created is the greatest generation in use.
LEMMA CreatedIsBound ==
    ASSUME TypeOK
    PROVE  /\ Created \in 0..MaxGen
           /\ \A c \in Configs : configs[c].gen <= Created
<1> DEFINE T == {n \in 0..MaxGen : \A c \in Configs : configs[c].gen <= n}
<1>1. \A c \in Configs : configs[c].gen \in 0..MaxGen
  BY DEF TypeOK
<1>2. MaxGen \in T
  BY <1>1, Bounds
<1>3. T \subseteq Nat /\ T # {}
  BY <1>2, Bounds
<1>4. PICK n \in T : \A y \in T : n <= y
  <2> HIDE DEF T
  <2> QED BY <1>3, LeastElement, Zenon
<1>5. n = 0 \/ \E c \in Configs : configs[c].gen = n
  <2> SUFFICES ASSUME n # 0, \A c \in Configs : configs[c].gen # n PROVE FALSE
    OBVIOUS
  <2>1. n - 1 \in 0..MaxGen /\ \A c \in Configs : configs[c].gen <= n - 1
    BY <1>1, Bounds
  <2> QED BY <1>4, <2>1, Bounds
<1>6. \E m \in 0..MaxGen : /\ \A c \in Configs : configs[c].gen <= m
                           /\ m = 0 \/ \E c \in Configs : configs[c].gen = m
  BY <1>5
<1> QED BY <1>6 DEF Created

\* Writing a DeviceConfig touches it, its version in the worker, and news.
LEMMA WriteConfigType ==
    ASSUME TypeInv, NEW c \in Configs,
           NEW cfg \in [exists: BOOLEAN, gen: 0..MaxGen, spec: Specs, status: Status],
           WriteConfig(c, cfg), changes' \in 0..MaxChanges
    PROVE  TypeInv'
<1>1. worker' \in [pc: Steps, owner: Owner \cup {NoOwner}, spec: Specs,
                   current: BOOLEAN, status: Status]
  BY DEF WriteConfig, TypeInv, TypeOK
<1>2. worker'.pc = worker.pc /\ worker'.owner = worker.owner
  BY DEF WriteConfig, TypeInv, TypeOK
<1>3. configs' \in [Configs -> [exists: BOOLEAN, gen: 0..MaxGen, spec: Specs,
                                status: Status]]
  BY DEF WriteConfig, TypeInv, TypeOK
<1>4. news' \subseteq Configs
  BY DEF WriteConfig, TypeInv, TypeOK
<1>5. /\ seen' = seen /\ children' = children /\ unseen' = unseen
      /\ seenReady' = seenReady /\ queue' = queue /\ faults' = faults
  BY DEF WriteConfig, childVars
<1>6. TypeOK'
  BY <1>1, <1>3, <1>4, <1>5 DEF TypeInv, TypeOK
<1> QED BY <1>2, <1>6 DEF TypeInv, Working

LEMMA ExistingChild ==
    ASSUME TypeOK, NEW k \in Children
    PROVE  /\ children[k].exists \in BOOLEAN
           /\ children[k].exists => children[k] \in Child
           /\ ~children[k].exists => children[k] = NoChild
<1>1. children[k] \in Child \/ children[k] = NoChild
  BY DEF TypeOK
<1>2. \A x \in Child : x.exists = TRUE
  BY DEF Child
<1>3. NoChild.exists = FALSE
  BY DEF NoChild
<1> QED BY <1>1, <1>2, <1>3

\* Writing child k keeps the children's variables in type.
LEMMA WriteChildType ==
    ASSUME TypeOK, NEW k \in Children, NEW obj \in Child \cup {NoChild},
           WriteChild(k, obj)
    PROVE  /\ children' \in [Children -> Child \cup {NoChild}]
           /\ unseen' \in [Children -> SUBSET Configs]
           /\ seenReady' \in [Children -> BOOLEAN]
<1>1. Hear(k, obj) \subseteq Configs
  <2>1. \A x \in Child : x.owner.name \in Configs
    BY DEF Child, Owner
  <2>2. \A x \in Child \cup {NoChild} : x.exists => x \in Child
    BY DEF NoChild
  <2>3. children[k] \in Child \cup {NoChild}
    BY DEF TypeOK
  <2> QED BY <2>1, <2>2, <2>3 DEF Hear
<1> QED BY <1>1 DEF WriteChild, TypeOK

LEMMA TypeInit == Init => TypeInv
<1> SUFFICES ASSUME Init PROVE TypeInv
  OBVIOUS
<1>1. NoStatus \in Status
  BY DEF NoStatus, Status
<1>2. Idle \in [pc: Steps, owner: Owner \cup {NoOwner}, spec: Specs, current: BOOLEAN,
                status: Status]
  BY <1>1, AnySpecIsSpec DEF Idle, Steps
<1>3. worker.pc = "idle"
  BY DEF Init, Idle
<1> QED BY <1>1, <1>2, <1>3, AnySpecIsSpec, Bounds DEF Init, TypeInv, TypeOK, Working

\* What a reconcile that ends leaves in the worker.
LEMMA IdleType == Idle \in [pc: Steps, owner: Owner \cup {NoOwner}, spec: Specs,
                            current: BOOLEAN, status: Status]
BY AnySpecIsSpec DEF Idle, Steps, NoStatus, Status

\* The worker owns what it writes in the name of a DeviceConfig.
LEMMA WorkerOwner ==
    ASSUME TypeInv, Working
    PROVE  worker.owner \in Owner
<1>1. worker.owner \in Owner \/ worker.owner = NoOwner
  BY DEF TypeInv, TypeOK
<1>2. worker.owner = NoOwner => worker.owner.name = "nobody"
  BY DEF NoOwner
<1>3. "nobody" \in Configs => NoOwner \in Owner
  BY Bounds DEF NoOwner, Owner
<1>4. worker.owner.name \in Configs
  BY DEF TypeInv
<1> QED BY <1>1, <1>2, <1>3, <1>4

\* A child that is created or updated is a child.
LEMMA AppliedType ==
    ASSUME TypeInv, NEW k \in Children, worker.pc = k
    PROVE  [exists |-> TRUE, owner |-> worker.owner, conf |-> Desired(k, worker.spec),
            ready |-> Ready(k)] \in Child
<1>1. worker.owner \in Owner
  BY WorkerOwner DEF Working, Children, Watched, Daemons
<1>2. Desired(k, worker.spec) \in Confs
  BY DEF TypeInv, TypeOK, Confs
<1>3. Ready(k) \in BOOLEAN
  BY DEF Ready
<1> QED BY <1>1, <1>2, <1>3 DEF Child

\* What the worker carries on with after a call.
LEMMA CallWorker ==
    ASSUME TypeInv, NEW k \in Children, NEW obj, worker.pc = k, Call(k, obj)
    PROVE  /\ worker' \in [pc: Steps, owner: Owner \cup {NoOwner}, spec: Specs,
                           current: BOOLEAN, status: Status]
           /\ worker'.pc = After[k]
           /\ worker'.owner = worker.owner
           /\ worker'.spec = worker.spec
           /\ worker'.current = worker.current
           /\ worker'.status = Observed
<1> DEFINE Worker == [pc: Steps, owner: Owner \cup {NoOwner}, spec: Specs,
                      current: BOOLEAN, status: Status]
<1>1. worker \in Worker
  BY DEF TypeInv, TypeOK
<1>2. After[k] \in Steps
  BY DEF After, Steps, Children, Watched, Daemons
<1>3. Observed \in Status
  <2>1. worker.status \in Status /\ seenReady["dp"] \in BOOLEAN /\ seenReady["me"] \in BOOLEAN
    BY DEF TypeInv, TypeOK, Children, Watched, Daemons
  <2> QED BY <2>1 DEF Observed, Status
<1>4. worker' = [worker EXCEPT !.pc = After[k], !.status = Observed]
  BY DEF Call
<1> HIDE DEF Observed
<1> QED BY <1>1, <1>2, <1>3, <1>4

LEMMA CallType ==
    ASSUME TypeInv, NEW k \in Children, NEW obj \in Child \cup {NoChild},
           worker.pc = k, Call(k, obj)
    PROVE  TypeInv'
<1>1. WriteChild(k, obj) /\ UNCHANGED <<configVars, queue, changes, faults>>
  BY DEF Call
<1>2. TypeOK'
  BY <1>1, CallWorker, WriteChildType DEF TypeInv, TypeOK, configVars
<1>3. worker'.owner.name \in Configs
  BY CallWorker DEF TypeInv, Working, Children, Watched, Daemons
<1> QED BY <1>2, <1>3 DEF TypeInv

\* A reconcile that ends in an error is put back into the queue.
LEMMA FailType ==
    ASSUME TypeInv, Working, Fail, faults' \in 0..MaxFaults
    PROVE  TypeInv'
BY IdleType DEF TypeInv, TypeOK, Working, Fail, Idle, configVars, childVars

\* Steps that touch a child and neither the worker nor the queue.
LEMMA TouchType ==
    ASSUME TypeInv, NEW k \in Children, NEW obj \in Child \cup {NoChild},
           WriteChild(k, obj), UNCHANGED <<configVars, queue, worker, faults>>,
           changes' \in 0..MaxChanges
    PROVE  TypeInv'
<1>1. TypeOK
  BY DEF TypeInv
<1> QED BY <1>1, WriteChildType DEF TypeInv, TypeOK, Working, configVars

LEMMA ChangeType == ASSUME TypeOK, Change PROVE changes' \in 0..MaxChanges
BY Bounds DEF TypeOK, Change

LEMMA FaultType == ASSUME TypeOK, Fault PROVE faults' \in 0..MaxFaults
BY Bounds DEF TypeOK, Fault

LEMMA TypeStep == ASSUME TypeInv, ResyncNext PROVE TypeInv'
<1>t. TypeOK
  BY DEF TypeInv
<1> DEFINE Config == [exists: BOOLEAN, gen: 0..MaxGen, spec: Specs, status: Status]
<1>c. \A c \in Configs : configs[c] \in Config
  BY <1>t DEF TypeOK
<1>n. NoStatus \in Status
  BY DEF NoStatus, Status
<1>1. ASSUME NEW c \in Configs, CreateConfig(c) PROVE TypeInv'
  <2>1. PICK s \in Specs : WriteConfig(c, [exists |-> TRUE, gen |-> Created + 1,
                                           spec |-> s, status |-> NoStatus])
    BY <1>1 DEF CreateConfig
  <2>2. Created + 1 \in 0..MaxGen
    BY <1>1, <1>t, CreatedIsBound, Bounds DEF CreateConfig
  <2>3. changes' \in 0..MaxChanges
    BY <1>1, <1>t DEF CreateConfig, TypeOK
  <2>4. [exists |-> TRUE, gen |-> Created + 1, spec |-> s, status |-> NoStatus] \in Config
    BY <1>n, <2>2
  <2> QED BY <2>1, <2>3, <2>4, WriteConfigType
<1>2. ASSUME NEW c \in Configs, EditConfig(c) PROVE TypeInv'
  <2>1. PICK s \in Specs : WriteConfig(c, [configs[c] EXCEPT !.spec = s])
    BY <1>2 DEF EditConfig
  <2>2. changes' \in 0..MaxChanges
    BY <1>2, <1>t, ChangeType DEF EditConfig
  <2>3. [configs[c] EXCEPT !.spec = s] \in Config
    BY <1>c
  <2> QED BY <2>1, <2>2, <2>3, WriteConfigType
<1>3. ASSUME NEW c \in Configs, DeleteConfig(c) PROVE TypeInv'
  <2>1. [configs[c] EXCEPT !.exists = FALSE, !.spec = AnySpec, !.status = NoStatus]
            \in Config
    BY <1>c, <1>n, AnySpecIsSpec
  <2>2. changes' \in 0..MaxChanges
    BY <1>3, <1>t DEF DeleteConfig, TypeOK
  <2> QED BY <1>3, <2>1, <2>2, WriteConfigType DEF DeleteConfig
<1>4. ASSUME NEW k \in Children, Tamper(k) PROVE TypeInv'
  <2>1. changes' \in 0..MaxChanges
    BY <1>4, <1>t, ChangeType DEF Tamper
  <2>2. CASE WriteChild(k, NoChild)
    BY <1>4, <2>1, <2>2, TouchType DEF Tamper
  <2>3. ASSUME NEW s \in Specs,
               WriteChild(k, [children[k] EXCEPT !.conf = Desired(k, s)])
        PROVE  TypeInv'
    <3>1. children[k] \in Child
      BY <1>4, <1>t, ExistingChild DEF Tamper
    <3>2. Desired(k, s) \in Confs
      BY DEF Confs
    <3>3. [children[k] EXCEPT !.conf = Desired(k, s)] \in Child
      BY <3>1, <3>2 DEF Child
    <3> QED BY <1>4, <2>1, <2>3, <3>3, TouchType DEF Tamper
  <2> QED BY <1>4, <2>2, <2>3 DEF Tamper
<1>5. ASSUME NEW k \in Children, Readiness(k) PROVE TypeInv'
  <2>1. changes' \in 0..MaxChanges
    BY <1>5, <1>t, ChangeType DEF Readiness
  <2>2. children[k] \in Child
    BY <1>5, <1>t, ExistingChild DEF Readiness
  <2>3. [children[k] EXCEPT !.ready = ~@] \in Child
    BY <2>2 DEF Child
  <2> QED BY <1>5, <2>1, <2>3, TouchType DEF Readiness
<1>6. ASSUME NEW k \in Children, Collect(k) PROVE TypeInv'
  BY <1>6, <1>t, TouchType DEF Collect, TypeOK
<1>7. ASSUME NEW k \in Children, DeliverChild(k) PROVE TypeInv'
  <2>1. Ready(k) \in BOOLEAN
    BY DEF Ready
  <2>2. seenReady' \in [Children -> BOOLEAN]
    BY <1>7, <1>t, <2>1 DEF DeliverChild, TypeOK
  <2>3. unseen' \in [Children -> SUBSET Configs] /\ queue' \subseteq Configs
    BY <1>7, <1>t DEF DeliverChild, TypeOK
  <2> QED BY <1>7, <2>2, <2>3 DEF DeliverChild, TypeInv, TypeOK, Working, configVars
<1>8. ASSUME NEW c \in Configs, Deliver(c) PROVE TypeInv'
  <2>1. [exists |-> configs[c].exists, gen |-> configs[c].gen, spec |-> configs[c].spec]
            \in [exists: BOOLEAN, gen: 0..MaxGen, spec: Specs]
    BY <1>c
  <2> QED BY <1>8, <2>1 DEF Deliver, TypeInv, TypeOK, Working, childVars
<1>9. ASSUME NEW k \in Children, Apply(k) PROVE TypeInv'
  <2> DEFINE obj == [exists |-> TRUE, owner |-> worker.owner,
                     conf |-> Desired(k, worker.spec), ready |-> Ready(k)]
  <2>1. worker.pc = k /\ Call(k, obj)
    BY <1>9 DEF Apply
  <2>2. obj \in Child
    BY <2>1, AppliedType
  <2> HIDE DEF obj
  <2> QED BY <2>1, <2>2, CallType
<1>10. ASSUME NEW k \in Children, ApplyRefused(k) PROVE TypeInv'
  BY <1>10, <1>t, FailType
  DEF ApplyRefused, Working, Children, Watched, Daemons, TypeOK
<1>11. ASSUME NEW k \in Children, deleteIfExists(k) PROVE TypeInv'
  BY <1>11, CallType DEF deleteIfExists
<1>12. CASE UpdateStatus
  <2>1. worker.owner.name \in Configs /\ worker.status \in Status
    BY <1>12, <1>t DEF UpdateStatus, TypeInv, TypeOK, Working
  <2>2. [configs[worker.owner.name] EXCEPT !.status = worker.status] \in Config
    BY <1>c, <2>1
  <2>3. configs' \in [Configs -> Config] /\ news' \subseteq Configs
    BY <1>12, <1>t, <2>1, <2>2 DEF UpdateStatus, TypeOK
  <2>4. worker' = Idle /\ Idle.pc = "idle"
    BY <1>12 DEF UpdateStatus, Idle
  <2> QED BY <1>12, <1>t, <2>3, <2>4, IdleType
          DEF UpdateStatus, TypeInv, TypeOK, Working, childVars
<1>13. ASSUME NEW c \in Configs, Start(c) PROVE TypeInv'
  <2> DEFINE begun == [pc |-> "dp", owner |-> [name |-> c, gen |-> seen[c].gen],
                       spec |-> seen[c].spec, current |-> c \notin news,
                       status |-> NoStatus]
  <2>1. begun \in [pc: Steps, owner: Owner \cup {NoOwner}, spec: Specs, current: BOOLEAN,
                   status: Status]
    BY <1>t, <1>n DEF TypeOK, Steps, Children, Watched, Daemons, Owner
  <2>2. begun.owner.name = c /\ Idle.pc = "idle"
    BY DEF Idle
  <2>3. worker' = Idle \/ worker' = begun
    BY <1>13 DEF Start
  <2> HIDE DEF begun
  <2> QED BY <1>13, <1>t, <2>1, <2>2, <2>3, IdleType
          DEF Start, TypeInv, TypeOK, Working, configVars, childVars
<1>14. CASE CallFails
  BY <1>14, <1>t, FaultType, FailType
  DEF CallFails, Working, Children, Watched, Daemons
<1>15. CASE StatusFails
  BY <1>15, <1>t, FaultType, IdleType
  DEF StatusFails, TypeInv, TypeOK, Working, Idle, configVars, childVars
<1>16. CASE Restart
  <2>1. seen' \in [Configs -> [exists: BOOLEAN, gen: 0..MaxGen, spec: Specs]]
    BY <1>16, <1>c DEF Restart
  <2>2. seenReady' \in [Children -> BOOLEAN] /\ unseen' \in [Children -> SUBSET Configs]
    <3>1. \A k \in Children : Ready(k) \in BOOLEAN
      BY DEF Ready
    <3> QED BY <1>16, <3>1 DEF Restart
  <2>3. worker' = Idle /\ Idle.pc = "idle"
    BY <1>16 DEF Restart, Idle
  <2>4. faults' \in 0..MaxFaults
    BY <1>16, <1>t, FaultType DEF Restart
  <2>5. queue' \subseteq Configs /\ news' = {} /\ UNCHANGED <<configs, children, changes>>
    BY <1>16 DEF Restart
  <2> QED BY <1>t, <2>1, <2>2, <2>3, <2>4, <2>5, IdleType DEF TypeInv, TypeOK, Working
<1>17. ASSUME NEW c \in Configs, Resync(c) PROVE TypeInv'
  BY <1>17 DEF Resync, TypeInv, TypeOK, Working, configVars, childVars
<1> QED
  BY <1>1, <1>2, <1>3, <1>4, <1>5, <1>6, <1>7, <1>8, <1>9, <1>10, <1>11, <1>12, <1>13,
     <1>14, <1>15, <1>16, <1>17
  DEF ResyncNext, Next, UserNext, KubernetesNext, ControllerNext, ReconcileStep

LEMMA TypeStutter == ASSUME TypeInv, UNCHANGED vars PROVE TypeInv'
BY DEF vars, configVars, childVars, TypeInv, TypeOK, Working

\* What the two specifications have in common: a behaviour of Spec is one that
\* never resyncs.
ResyncSpec == Init /\ [][ResyncNext]_vars

LEMMA SpecsResync == Spec \/ FairSpec => ResyncSpec
<1>1. [Next]_vars => [ResyncNext]_vars
  BY DEF ResyncNext
<1> QED BY <1>1, PTL DEF Spec, FairSpec, ResyncSpec

LEMMA TypeAlways == ResyncSpec => []TypeInv
<1>1. TypeInv /\ [ResyncNext]_vars => TypeInv'
  BY TypeStep, TypeStutter
<1> QED BY <1>1, TypeInit, PTL DEF ResyncSpec

\* The controller's variables keep their types, whatever users do.
THEOREM TypeCorrect == Spec \/ FairSpec => []TypeOK
<1>1. TypeInv => TypeOK
  BY DEF TypeInv
<1> QED BY <1>1, TypeAlways, SpecsResync, PTL

-----------------------------------------------------------------------------
(***************************************************************************)
(* What the steps do, in the terms of the invariants below.                *)
(***************************************************************************)

Config == [exists: BOOLEAN, gen: 0..MaxGen, spec: Specs, status: Status]

\* Users write one DeviceConfig, and its generation never goes back.
LEMMA UserWrites ==
    ASSUME TypeInv, NEW c \in Configs, CreateConfig(c) \/ EditConfig(c) \/ DeleteConfig(c)
    PROVE  \E cfg \in Config : WriteConfig(c, cfg) /\ configs[c].gen <= cfg.gen
<1>c. TypeOK /\ configs[c] \in Config
  BY DEF TypeInv, TypeOK, Config
<1>n. NoStatus \in Status
  BY DEF NoStatus, Status
<1>1. CASE CreateConfig(c)
  <2> DEFINE new(s) == [exists |-> TRUE, gen |-> Created + 1, spec |-> s,
                        status |-> NoStatus]
  <2>1. PICK s \in Specs : WriteConfig(c, new(s))
    BY <1>1 DEF CreateConfig
  <2>2. Created + 1 \in 0..MaxGen /\ configs[c].gen <= Created + 1
    BY <1>1, <1>c, CreatedIsBound, Bounds DEF CreateConfig, Config
  <2>3. new(s) \in Config /\ configs[c].gen <= new(s).gen
    BY <1>n, <2>2 DEF Config
  <2> QED BY <2>1, <2>3
<1>2. CASE EditConfig(c)
  <2>1. PICK s \in Specs : WriteConfig(c, [configs[c] EXCEPT !.spec = s])
    BY <1>2 DEF EditConfig
  <2> DEFINE cfg == [configs[c] EXCEPT !.spec = s]
  <2>2. cfg \in Config /\ configs[c].gen <= cfg.gen
    BY <1>c DEF Config
  <2> QED BY <2>1, <2>2
<1>3. CASE DeleteConfig(c)
  <2> DEFINE cfg == [configs[c] EXCEPT !.exists = FALSE, !.spec = AnySpec,
                                       !.status = NoStatus]
  <2>1. cfg \in Config /\ cfg.gen = configs[c].gen
    BY <1>c, <1>n, AnySpecIsSpec DEF Config
  <2>2. WriteConfig(c, cfg)
    BY <1>3 DEF DeleteConfig
  <2> HIDE DEF cfg
  <2>3. cfg.gen <= cfg.gen
    BY <2>1, Bounds DEF Config
  <2> QED BY <2>1, <2>2, <2>3
<1> QED BY <1>1, <1>2, <1>3

\* A write of DeviceConfig c makes the worker's copy of c an old one.
LEMMA ConfigWritten ==
    ASSUME TypeInv, NEW c \in Configs, NEW cfg \in Config, WriteConfig(c, cfg)
    PROVE  /\ configs'[c] = cfg
           /\ \A d \in Configs \ {c} : configs'[d] = configs[d]
           /\ news' = news \cup {c}
           /\ worker'.pc = worker.pc
           /\ worker'.owner = worker.owner
           /\ worker'.spec = worker.spec
           /\ worker'.status = worker.status
           /\ worker'.current = (worker.current /\ worker.owner.name # c)
           /\ UNCHANGED <<seen, childVars, queue, faults>>
<1>1. worker \in [pc: Steps, owner: Owner \cup {NoOwner}, spec: Specs, current: BOOLEAN,
                 status: Status]
  BY DEF TypeInv, TypeOK
<1>2. /\ worker'.pc = worker.pc
      /\ worker'.owner = worker.owner
      /\ worker'.spec = worker.spec
      /\ worker'.status = worker.status
      /\ worker'.current = (worker.current /\ worker.owner.name # c)
  BY <1>1 DEF WriteConfig
<1>3. configs' = [configs EXCEPT ![c] = cfg] /\ configs \in [Configs -> Config]
  BY DEF WriteConfig, TypeInv, TypeOK, Config
<1> QED BY <1>2, <1>3 DEF WriteConfig

\* Both owners hear of a child that has changed.
LEMMA ChildWritten ==
    ASSUME TypeInv, NEW k \in Children, NEW obj, WriteChild(k, obj)
    PROVE  /\ children'[k] = obj
           /\ \A j \in Children \ {k} : children'[j] = children[j]
           /\ \A j \in Children : unseen[j] \subseteq unseen'[j]
           /\ obj # children[k] =>
                 /\ children[k].exists => children[k].owner.name \in unseen'[k]
                 /\ obj.exists => obj.owner.name \in unseen'[k]
           /\ seenReady' = seenReady
<1>1. /\ children' = [children EXCEPT ![k] = obj]
      /\ unseen' = IF obj = children[k] THEN unseen
                   ELSE [unseen EXCEPT ![k] = @ \cup Hear(k, obj)]
      /\ DOMAIN children = Children /\ DOMAIN unseen = Children
  BY DEF WriteChild, TypeInv, TypeOK
<1>2. /\ children[k].exists => children[k].owner.name \in Hear(k, obj)
      /\ obj.exists => obj.owner.name \in Hear(k, obj)
  BY DEF Hear
<1> HIDE DEF Hear
<1>3. seenReady' = seenReady
  BY DEF WriteChild
<1>4. /\ \A j \in Children : unseen[j] \subseteq unseen'[j]
      /\ obj # children[k] => unseen'[k] = unseen[k] \cup Hear(k, obj)
  BY <1>1
<1> QED BY <1>1, <1>2, <1>3, <1>4

\* Users, kubelets and the garbage collector change a child that is there, never
\* its owner.
LEMMA Disturbed ==
    ASSUME TypeInv, NEW k \in Children, Tamper(k) \/ Readiness(k) \/ Collect(k)
    PROVE  \E obj \in Child \cup {NoChild} :
              /\ WriteChild(k, obj)
              /\ obj # children[k]
              /\ children[k].exists
              /\ obj.exists => obj.owner = children[k].owner
              /\ \/ k \in Tamperable
                 \/ Garbage(k) /\ ~obj.exists
                 \/ k \in Daemons /\ obj.exists /\ obj.conf = children[k].conf
              /\ UNCHANGED <<configVars, queue, worker, faults>>
<1>1. children[k].exists /\ children[k] \in Child
  BY ExistingChild DEF TypeInv, Tamper, Readiness, Collect, Garbage
<1>2. NoChild # children[k] /\ ~NoChild.exists
  BY <1>1 DEF NoChild
<1>3. CASE Tamper(k)
  <2>1. k \in Tamperable /\ UNCHANGED <<configVars, queue, worker, faults>>
    BY <1>3 DEF Tamper
  <2>2. CASE WriteChild(k, NoChild)
    BY <1>1, <1>2, <2>1, <2>2
  <2>3. ASSUME NEW s \in Specs, Desired(k, s) # children[k].conf,
               WriteChild(k, [children[k] EXCEPT !.conf = Desired(k, s)])
        PROVE  \E obj \in Child : /\ WriteChild(k, obj)
                                  /\ obj # children[k]
                                  /\ obj.owner = children[k].owner
    <3> DEFINE obj == [children[k] EXCEPT !.conf = Desired(k, s)]
    <3>1. Desired(k, s) \in Confs
      BY DEF Confs
    <3>2. obj \in Child /\ obj # children[k] /\ obj.owner = children[k].owner
      BY <1>1, <2>3, <3>1 DEF Child
    <3> QED BY <2>3, <3>2
  <2> QED BY <1>1, <1>3, <2>1, <2>2, <2>3 DEF Tamper
<1>4. CASE Readiness(k)
  <2> DEFINE obj == [children[k] EXCEPT !.ready = ~@]
  <2>1. /\ obj \in Child /\ obj # children[k] /\ obj.owner = children[k].owner
        /\ obj.conf = children[k].conf /\ obj.exists
    BY <1>1 DEF Child
  <2>2. WriteChild(k, obj) /\ k \in Daemons /\ UNCHANGED <<configVars, queue, worker, faults>>
    BY <1>4 DEF Readiness
  <2> HIDE DEF obj
  <2> QED BY <1>1, <2>1, <2>2
<1>5. CASE Collect(k)
  BY <1>1, <1>2, <1>5 DEF Collect
<1> QED BY <1>3, <1>4, <1>5

-----------------------------------------------------------------------------
(***************************************************************************)
(* Generations.  The informer is behind the API server, the worker behind  *)
(* the informer, and what the worker wrote before behind the worker: so a  *)
(* child whose owner is not gone has the generation the worker works for.  *)
(***************************************************************************)

GenInv ==
    /\ \A c \in Configs : seen[c].gen <= configs[c].gen
    /\ Working => worker.owner.gen <= seen[worker.owner.name].gen
    /\ \A k \in Children : children[k].exists =>
          /\ children[k].owner.gen <= seen[children[k].owner.name].gen
          /\ (Working /\ children[k].owner.name = worker.owner.name)
                => children[k].owner.gen <= worker.owner.gen

LEMMA Gens ==
    ASSUME TypeInv
    PROVE  /\ \A c \in Configs : configs[c].gen \in Nat /\ seen[c].gen \in Nat
           /\ worker.owner.gen \in Nat
           /\ \A k \in Children : children[k].exists =>
                 children[k].owner.name \in Configs /\ children[k].owner.gen \in Nat
<1>1. \A c \in Configs : configs[c].gen \in Nat /\ seen[c].gen \in Nat
  BY Bounds DEF TypeInv, TypeOK
<1>2. worker.owner.gen \in Nat
  BY Bounds DEF TypeInv, TypeOK, Owner, NoOwner
<1>3. \A x \in Child : x.owner.name \in Configs /\ x.owner.gen \in Nat
  BY Bounds DEF Child, Owner
<1> QED BY <1>1, <1>2, <1>3, ExistingChild DEF TypeInv

LEMMA GenInit == Init => GenInv
<1> SUFFICES ASSUME Init PROVE GenInv
  OBVIOUS
<1>1. worker.pc = "idle" /\ \A k \in Children : children[k].exists = FALSE
  BY DEF Init, Idle, NoChild
<1> QED BY <1>1 DEF Init, GenInv, Working

\* Steps that create no child, change no owner and let no worker begin.
LEMMA GenKept ==
    ASSUME TypeInv, TypeInv', GenInv,
           \A c \in Configs : /\ configs[c].gen <= configs'[c].gen
                              /\ seen[c].gen <= seen'[c].gen
                              /\ seen'[c].gen <= configs'[c].gen,
           worker'.pc = "idle" \/ (Working /\ worker'.owner = worker.owner),
           \A k \in Children : children'[k].exists =>
              children[k].exists /\ children'[k].owner = children[k].owner
    PROVE  GenInv'
<1>1. \A c \in Configs : /\ seen[c].gen \in Nat /\ seen'[c].gen \in Nat
                         /\ configs'[c].gen \in Nat
  BY Gens, Bounds DEF TypeInv, TypeOK
<1>2. Working' => /\ Working /\ worker'.owner = worker.owner
                  /\ worker.owner.name \in Configs /\ worker.owner.gen \in Nat
  BY Gens DEF TypeInv, Working
<1>3. Working' => worker'.owner.gen <= seen'[worker'.owner.name].gen
  BY <1>1, <1>2 DEF GenInv
<1>4. ASSUME NEW k \in Children, children'[k].exists
      PROVE  /\ children'[k].owner.gen <= seen'[children'[k].owner.name].gen
             /\ (Working' /\ children'[k].owner.name = worker'.owner.name)
                   => children'[k].owner.gen <= worker'.owner.gen
  <2>1. /\ children[k].exists /\ children'[k].owner = children[k].owner
        /\ children[k].owner.name \in Configs /\ children[k].owner.gen \in Nat
    BY <1>4, Gens
  <2> QED BY <1>1, <1>2, <2>1 DEF GenInv
<1> QED BY <1>3, <1>4 DEF GenInv

LEMMA GenStep ==
    ASSUME TypeInv, TypeInv', GenInv, ResyncNext
    PROVE  GenInv'
<1>g. \A c \in Configs : /\ configs[c].gen \in Nat /\ seen[c].gen \in Nat
                         /\ seen[c].gen <= configs[c].gen
  BY Gens DEF GenInv
<1>1. ASSUME NEW c \in Configs, CreateConfig(c) \/ EditConfig(c) \/ DeleteConfig(c)
      PROVE GenInv'
  <2>1. PICK cfg \in Config : WriteConfig(c, cfg) /\ configs[c].gen <= cfg.gen
    BY <1>1, UserWrites
  <2>2. /\ configs'[c] = cfg
        /\ \A d \in Configs \ {c} : configs'[d] = configs[d]
        /\ worker'.pc = worker.pc
        /\ worker'.owner = worker.owner
        /\ UNCHANGED <<seen, childVars, queue, faults>>
    BY <2>1, ConfigWritten
  <2>3. cfg.gen \in Nat
    BY Bounds DEF Config
  <2>4. \A d \in Configs : /\ configs[d].gen <= configs'[d].gen
                           /\ seen[d].gen <= seen'[d].gen
                           /\ seen'[d].gen <= configs'[d].gen
    BY <1>g, <2>1, <2>2, <2>3
  <2>5. worker'.pc = "idle" \/ (Working /\ worker'.owner = worker.owner)
    BY <2>2 DEF Working
  <2>6. children' = children
    BY <2>2 DEF childVars
  <2> QED BY <2>4, <2>5, <2>6, GenKept
<1>2. ASSUME NEW k \in Children, Tamper(k) \/ Readiness(k) \/ Collect(k)
      PROVE  GenInv'
  <2>1. PICK obj \in Child \cup {NoChild} :
           /\ WriteChild(k, obj)
           /\ children[k].exists
           /\ obj.exists => obj.owner = children[k].owner
           /\ UNCHANGED <<configVars, queue, worker, faults>>
    BY <1>2, Disturbed
  <2>2. \A j \in Children : children'[j].exists =>
           children[j].exists /\ children'[j].owner = children[j].owner
    BY <2>1, ChildWritten
  <2>3. UNCHANGED <<configs, seen, worker>>
    BY <2>1 DEF configVars
  <2> QED BY <1>g, <2>2, <2>3, GenKept DEF Working
<1>3. ASSUME NEW k \in Children, DeliverChild(k) PROVE GenInv'
  <2>1. UNCHANGED <<configs, seen, children, worker>>
    BY <1>3 DEF DeliverChild, configVars
  <2> QED BY <1>g, <2>1, GenKept DEF Working
<1>4. ASSUME NEW c \in Configs, Deliver(c) PROVE GenInv'
  <2>1. UNCHANGED <<configs, children, worker>>
    BY <1>4 DEF Deliver, childVars
  <2>2. seen'[c].gen = configs[c].gen /\ \A d \in Configs \ {c} : seen'[d] = seen[d]
    BY <1>4 DEF Deliver, TypeInv, TypeOK
  <2> QED BY <1>g, <2>1, <2>2, GenKept DEF Working
<1>5. ASSUME NEW k \in Children, Apply(k) PROVE GenInv'
  <2> DEFINE obj == [exists |-> TRUE, owner |-> worker.owner,
                     conf |-> Desired(k, worker.spec), ready |-> Ready(k)]
  <2>1. worker.pc = k /\ Call(k, obj) /\ obj.owner = worker.owner
    BY <1>5 DEF Apply
  <2> HIDE DEF obj
  <2>2. /\ children'[k] = obj
        /\ \A j \in Children \ {k} : children'[j] = children[j]
    BY <2>1, ChildWritten DEF Call
  <2>3. Working /\ worker'.owner = worker.owner /\ UNCHANGED <<configs, seen>>
    BY <2>1, CallWorker DEF Call, Working, configVars, Children, Watched, Daemons
  <2>4. worker.owner.gen \in Nat /\ worker.owner.gen <= seen[worker.owner.name].gen
    BY <2>3, Gens DEF GenInv
  <2>5. ASSUME NEW j \in Children, children'[j].exists
        PROVE  /\ children'[j].owner.gen <= seen'[children'[j].owner.name].gen
               /\ children'[j].owner.name = worker'.owner.name
                     => children'[j].owner.gen <= worker'.owner.gen
    BY <2>1, <2>2, <2>3, <2>4, <2>5 DEF GenInv
  <2> QED BY <1>g, <2>3, <2>4, <2>5 DEF GenInv
<1>6. ASSUME NEW k \in Children, ApplyRefused(k) PROVE GenInv'
  <2>1. UNCHANGED <<configs, seen, children>> /\ worker'.pc = "idle"
    BY <1>6 DEF ApplyRefused, Fail, Idle, configVars, childVars
  <2> QED BY <1>g, <2>1, GenKept
<1>7. ASSUME NEW k \in Children, deleteIfExists(k) PROVE GenInv'
  <2>1. worker.pc = k /\ Call(k, NoChild) /\ ~NoChild.exists
    BY <1>7 DEF deleteIfExists, NoChild
  <2>2. /\ children'[k] = NoChild
        /\ \A j \in Children \ {k} : children'[j] = children[j]
    BY <2>1, ChildWritten DEF Call
  <2>3. Working /\ worker'.owner = worker.owner /\ UNCHANGED <<configs, seen>>
    BY <2>1, CallWorker DEF Call, Working, configVars, Children, Watched, Daemons
  <2> QED BY <1>g, <2>1, <2>2, <2>3, GenKept
<1>8. CASE UpdateStatus
  <2>1. UNCHANGED <<seen, children>> /\ worker'.pc = "idle"
    BY <1>8 DEF UpdateStatus, Idle, childVars
  <2>2. \A c \in Configs : configs'[c].gen = configs[c].gen
    BY <1>8 DEF UpdateStatus, TypeInv, TypeOK
  <2> QED BY <1>g, <2>1, <2>2, GenKept
<1>9. ASSUME NEW c \in Configs, Start(c) PROVE GenInv'
  <2>1. UNCHANGED <<configs, seen, children>>
    BY <1>9 DEF Start, configVars, childVars
  <2>2. \/ worker'.pc = "idle"
        \/ worker'.owner.name = c /\ worker'.owner.gen = seen[c].gen
    BY <1>9 DEF Start, Idle
  <2>3. CASE worker'.pc = "idle"
    BY <1>g, <2>1, <2>3, GenKept
  <2>4. CASE worker'.owner.name = c /\ worker'.owner.gen = seen[c].gen
    BY <1>g, <2>1, <2>4 DEF GenInv
  <2> QED BY <2>2, <2>3, <2>4
<1>10. CASE CallFails \/ StatusFails
  <2>1. UNCHANGED <<configs, seen, children>> /\ worker'.pc = "idle"
    BY <1>10 DEF CallFails, StatusFails, Fail, Idle, configVars, childVars
  <2> QED BY <1>g, <2>1, GenKept
<1>11. CASE Restart
  <2>1. UNCHANGED <<configs, children>> /\ worker'.pc = "idle"
    BY <1>11 DEF Restart, Idle
  <2>2. \A c \in Configs : seen'[c].gen = configs[c].gen
    BY <1>11 DEF Restart
  <2> QED BY <1>g, <2>1, <2>2, GenKept
<1>12. ASSUME NEW c \in Configs, Resync(c) PROVE GenInv'
  <2>1. UNCHANGED <<configs, seen, children, worker>>
    BY <1>12 DEF Resync, configVars, childVars
  <2> QED BY <1>g, <2>1, GenKept DEF Working
<1> QED
  BY <1>1, <1>2, <1>3, <1>4, <1>5, <1>6, <1>7, <1>8, <1>9, <1>10, <1>11, <1>12
  DEF ResyncNext, Next, UserNext, KubernetesNext, ControllerNext, ReconcileStep

LEMMA GenStutter == ASSUME GenInv, UNCHANGED vars PROVE GenInv'
BY DEF vars, configVars, childVars, GenInv, Working

LEMMA GenAlways == ResyncSpec => []GenInv
<1>1. TypeInv /\ TypeInv' /\ GenInv /\ [ResyncNext]_vars => GenInv'
  BY GenStep, GenStutter
<1> QED BY <1>1, GenInit, TypeAlways, PTL DEF ResyncSpec

\* A child that stays is never handed from one owner to another while the first
\* one exists: a name that no longer controls it is refused, and the controller
\* has no older generation of its own name to write.
LEMMA OwnerKept ==
    ASSUME TypeInv, GenInv, ResyncNext
    PROVE  \A j \in Children :
              (children[j].exists /\ children'[j].exists /\ ~Garbage(j))
                  => children[j].owner = children'[j].owner
<1> DEFINE Keeps == \A j \in Children :
              (children[j].exists /\ children'[j].exists /\ ~Garbage(j))
                  => children[j].owner = children'[j].owner
<1>1. ASSUME children' = children PROVE Keeps
  BY <1>1
<1>2. ASSUME NEW k \in Children, Tamper(k) \/ Readiness(k) \/ Collect(k) PROVE Keeps
  <2>1. PICK obj \in Child \cup {NoChild} :
           WriteChild(k, obj) /\ (obj.exists => obj.owner = children[k].owner)
    BY <1>2, Disturbed
  <2> QED BY <2>1, ChildWritten
<1>3. ASSUME NEW k \in Children, Apply(k) PROVE Keeps
  <2> DEFINE obj == [exists |-> TRUE, owner |-> worker.owner,
                     conf |-> Desired(k, worker.spec), ready |-> Ready(k)]
  <2>1. /\ worker.pc = k /\ Call(k, obj) /\ obj.owner = worker.owner
        /\ children[k].exists => children[k].owner.name = worker.owner.name
    BY <1>3 DEF Apply, Refused
  <2> HIDE DEF obj
  <2>2. children'[k] = obj /\ \A j \in Children \ {k} : children'[j] = children[j]
    BY <2>1, ChildWritten DEF Call
  <2>3. Working
    BY <2>1 DEF Working, Children, Watched, Daemons
  <2>4. ASSUME children[k].exists, ~Garbage(k) PROVE children[k].owner = worker.owner
    <3> DEFINE n == worker.owner.name
    <3>1. children[k].owner.name = n /\ children[k].owner.gen = configs[n].gen
      BY <2>1, <2>4 DEF Garbage
    <3>2. /\ n \in Configs /\ configs[n].gen \in Nat /\ seen[n].gen \in Nat
          /\ worker.owner.gen \in Nat
      BY <2>3, Gens DEF TypeInv
    <3>3. /\ children[k].owner.gen <= worker.owner.gen
          /\ worker.owner.gen <= seen[n].gen
          /\ seen[n].gen <= configs[n].gen
      BY <2>3, <2>4, <3>1, <3>2 DEF GenInv
    <3>4. children[k].owner.gen = worker.owner.gen
      BY <3>1, <3>2, <3>3
    <3>5. children[k].owner \in Owner /\ worker.owner \in Owner
      BY <2>3, <2>4, ExistingChild, WorkerOwner DEF TypeInv, Child
    <3> QED BY <3>1, <3>4, <3>5 DEF Owner
  <2> QED BY <2>1, <2>2, <2>4
<1>4. ASSUME NEW k \in Children, deleteIfExists(k) PROVE Keeps
  <2>1. WriteChild(k, NoChild) /\ ~NoChild.exists
    BY <1>4 DEF deleteIfExists, Call, NoChild
  <2> QED BY <2>1, ChildWritten
<1>5. ASSUME NEW c \in Configs, CreateConfig(c) \/ EditConfig(c) \/ DeleteConfig(c)
      PROVE  children' = children
  <2>1. PICK cfg \in Config : WriteConfig(c, cfg)
    BY <1>5, UserWrites
  <2> QED BY <2>1 DEF WriteConfig, childVars
<1>6. ASSUME \/ \E k \in Children : DeliverChild(k) \/ ApplyRefused(k)
             \/ \E c \in Configs : Deliver(c) \/ Start(c) \/ Resync(c)
             \/ UpdateStatus \/ CallFails \/ StatusFails \/ Restart
      PROVE  children' = children
  BY <1>6
  DEF DeliverChild, ApplyRefused, Deliver, Start, Resync, UpdateStatus, CallFails,
      StatusFails, Restart, Fail, childVars
<1> HIDE DEF Keeps
<1>7. Keeps
  BY <1>1, <1>2, <1>3, <1>4, <1>5, <1>6
  DEF ResyncNext, Next, UserNext, KubernetesNext, ControllerNext, ReconcileStep
<1> QED BY <1>7 DEF Keeps

\* A restart or a recreated DeviceConfig never makes one existing DeviceConfig
\* take over a child that another existing one controls.
THEOREM NoTakeoverAlways == Spec \/ FairSpec => NoTakeover
<1>1. TypeInv /\ GenInv /\ [ResyncNext]_vars =>
          [\A k \in Children :
              (children[k].exists /\ children[k]'.exists /\ ~Garbage(k))
                  => children[k].owner = children[k]'.owner]_vars
  <2> SUFFICES ASSUME TypeInv, GenInv, ResyncNext
               PROVE  \A k \in Children :
                         (children[k].exists /\ children[k]'.exists /\ ~Garbage(k))
                             => children[k].owner = children[k]'.owner
    OBVIOUS
  <2> QED BY OwnerKept
<1> QED BY <1>1, TypeAlways, GenAlways, SpecsResync, PTL DEF ResyncSpec, NoTakeover

-----------------------------------------------------------------------------
(***************************************************************************)
(* Old copies.  The informer's copy of a DeviceConfig is old only while    *)
(* news of it is to come; the worker's is old only when the name is to be  *)
(* reconciled again.                                                       *)
(***************************************************************************)

SeenAgrees(c) ==
    /\ seen[c].exists = configs[c].exists
    /\ seen[c].gen = configs[c].gen
    /\ seen[c].spec = configs[c].spec

WorkerAgrees ==
    LET c == configs[worker.owner.name]
    IN  c.exists /\ c.gen = worker.owner.gen /\ c.spec = worker.spec

\* The Service of a disabled exporter is deleted after the exporter.
ServiceLast ==
    (worker.pc = "svc" /\ ~worker.spec.exporter) => ~children["me"].exists

CopyInv ==
    /\ \A c \in Configs : c \notin news => SeenAgrees(c)
    /\ (Working /\ worker.current) => WorkerAgrees
    /\ (Working /\ ~worker.current /\ configs[worker.owner.name].exists)
           => worker.owner.name \in news \cup queue
    /\ ServiceLast

LEMMA CopyInit == Init => CopyInv
<1> SUFFICES ASSUME Init PROVE CopyInv
  OBVIOUS
<1>1. worker.pc = "idle"
  BY DEF Init, Idle
<1>2. \A c \in Configs : SeenAgrees(c)
  BY DEF Init, SeenAgrees
<1> QED BY <1>1, <1>2 DEF CopyInv, Working, ServiceLast

\* Steps that change no spec, deliver none and let no worker begin.
LEMMA CopyKept ==
    ASSUME TypeInv, CopyInv, ServiceLast', seen' = seen,
           \A c \in Configs : /\ configs'[c].exists = configs[c].exists
                              /\ configs'[c].gen = configs[c].gen
                              /\ configs'[c].spec = configs[c].spec,
           news \subseteq news', queue \subseteq queue',
           \/ worker'.pc = "idle"
           \/ /\ Working /\ worker'.owner = worker.owner /\ worker'.spec = worker.spec
              /\ worker'.current = worker.current
    PROVE  CopyInv'
<1>1. \A c \in Configs : c \notin news' => SeenAgrees(c)'
  BY DEF CopyInv, SeenAgrees
<1>2. Working' => /\ worker.owner.name \in Configs /\ Working
                  /\ worker'.owner = worker.owner /\ worker'.spec = worker.spec
                  /\ worker'.current = worker.current
  BY DEF TypeInv, Working
<1>3. (Working' /\ worker'.current) => WorkerAgrees'
  BY <1>2 DEF CopyInv, WorkerAgrees
<1>4. (Working' /\ ~worker'.current /\ configs'[worker'.owner.name].exists)
         => worker'.owner.name \in news' \cup queue'
  BY <1>2 DEF CopyInv
<1> QED BY <1>1, <1>3, <1>4 DEF CopyInv

LEMMA CopyStep == ASSUME TypeInv, CopyInv, ResyncNext PROVE CopyInv'
<1>1. ASSUME NEW c \in Configs, CreateConfig(c) \/ EditConfig(c) \/ DeleteConfig(c)
      PROVE CopyInv'
  <2>1. PICK cfg \in Config : WriteConfig(c, cfg)
    BY <1>1, UserWrites
  <2>2. /\ \A d \in Configs \ {c} : configs'[d] = configs[d]
        /\ news' = news \cup {c}
        /\ worker'.pc = worker.pc
        /\ worker'.owner = worker.owner
        /\ worker'.spec = worker.spec
        /\ worker'.current = (worker.current /\ worker.owner.name # c)
        /\ UNCHANGED <<seen, childVars, queue, faults>>
    BY <2>1, ConfigWritten
  <2>3. \A d \in Configs : d \notin news' => SeenAgrees(d)'
    BY <2>2 DEF CopyInv, SeenAgrees
  <2>4. Working' => worker.owner.name \in Configs /\ Working
    BY <2>2 DEF TypeInv, Working
  <2>5. (Working' /\ worker'.current) => WorkerAgrees'
    BY <2>2, <2>4 DEF CopyInv, WorkerAgrees
  <2>6. (Working' /\ ~worker'.current /\ configs'[worker'.owner.name].exists)
           => worker'.owner.name \in news' \cup queue'
    BY <2>2, <2>4 DEF CopyInv
  <2>7. ServiceLast'
    BY <2>2 DEF CopyInv, ServiceLast, childVars
  <2> QED BY <2>3, <2>5, <2>6, <2>7 DEF CopyInv
<1>2. ASSUME NEW k \in Children, Tamper(k) \/ Readiness(k) \/ Collect(k)
      PROVE  CopyInv'
  <2>1. PICK obj \in Child \cup {NoChild} :
           /\ WriteChild(k, obj)
           /\ children[k].exists
           /\ UNCHANGED <<configVars, queue, worker, faults>>
    BY <1>2, Disturbed
  <2>2. \A j \in Children : ~children[j].exists => ~children'[j].exists
    BY <2>1, ChildWritten
  <2>3. ServiceLast'
    BY <2>1, <2>2 DEF CopyInv, ServiceLast, Children, Watched, Daemons
  <2> QED BY <2>1, <2>3, CopyKept DEF configVars, Working
<1>3. ASSUME NEW k \in Children, DeliverChild(k) PROVE CopyInv'
  <2>1. UNCHANGED <<configs, seen, news, children, worker>> /\ queue \subseteq queue'
    BY <1>3 DEF DeliverChild, configVars
  <2>2. ServiceLast'
    BY <2>1 DEF CopyInv, ServiceLast
  <2> QED BY <2>1, <2>2, CopyKept DEF Working
<1>4. ASSUME NEW c \in Configs, Deliver(c) PROVE CopyInv'
  <2>1. /\ UNCHANGED <<configs, children, worker>>
        /\ news' = news \ {c} /\ queue' = queue \cup {c}
    BY <1>4 DEF Deliver, childVars
  <2>2. /\ seen'[c] = [exists |-> configs[c].exists, gen |-> configs[c].gen,
                       spec |-> configs[c].spec]
        /\ \A d \in Configs \ {c} : seen'[d] = seen[d]
    BY <1>4 DEF Deliver, TypeInv, TypeOK
  <2>3. \A d \in Configs : d \notin news' => SeenAgrees(d)'
    BY <2>1, <2>2 DEF CopyInv, SeenAgrees
  <2> QED BY <2>1, <2>3 DEF CopyInv, WorkerAgrees, ServiceLast, Working
<1>5. ASSUME NEW k \in Children, Apply(k) PROVE CopyInv'
  <2> DEFINE obj == [exists |-> TRUE, owner |-> worker.owner,
                     conf |-> Desired(k, worker.spec), ready |-> Ready(k)]
  <2>1. worker.pc = k /\ Call(k, obj) /\ Wanted(k, worker.spec)
    BY <1>5 DEF Apply
  <2> HIDE DEF obj
  <2>2. /\ worker'.pc = After[k] /\ worker'.owner = worker.owner
        /\ worker'.spec = worker.spec /\ worker'.current = worker.current
    BY <2>1, CallWorker
  <2>3. UNCHANGED <<configs, seen, news, queue>> /\ Working
    BY <2>1 DEF Call, configVars, Working, Children, Watched, Daemons
  <2>4. ServiceLast'
    <3>1. After[k] = "svc" => k = "me"
      BY DEF After, Children, Watched, Daemons
    <3> QED BY <2>1, <2>2, <3>1 DEF ServiceLast, Wanted
  <2> QED BY <2>2, <2>3, <2>4, CopyKept
<1>6. ASSUME NEW k \in Children, ApplyRefused(k) PROVE CopyInv'
  <2>1. UNCHANGED <<configs, seen, news>> /\ queue \subseteq queue' /\ worker'.pc = "idle"
    BY <1>6 DEF ApplyRefused, Fail, Idle, configVars
  <2> QED BY <2>1, CopyKept DEF ServiceLast
<1>7. ASSUME NEW k \in Children, deleteIfExists(k) PROVE CopyInv'
  <2>1. worker.pc = k /\ Call(k, NoChild)
    BY <1>7 DEF deleteIfExists
  <2>2. /\ worker'.pc = After[k] /\ worker'.owner = worker.owner
        /\ worker'.spec = worker.spec /\ worker'.current = worker.current
    BY <2>1, CallWorker
  <2>3. UNCHANGED <<configs, seen, news, queue>> /\ Working
    BY <2>1 DEF Call, configVars, Working, Children, Watched, Daemons
  <2>4. ServiceLast'
    <3>1. After[k] = "svc" => k = "me"
      BY DEF After, Children, Watched, Daemons
    <3>2. children'[k] = NoChild
      BY <2>1, ChildWritten DEF Call
    <3>3. ~NoChild.exists
      BY DEF NoChild
    <3> QED BY <2>2, <3>1, <3>2, <3>3 DEF ServiceLast
  <2> QED BY <2>2, <2>3, <2>4, CopyKept
<1>8. CASE UpdateStatus
  <2>1. /\ seen' = seen /\ queue' = queue /\ news \subseteq news'
        /\ worker'.pc = "idle"
    BY <1>8 DEF UpdateStatus, Idle
  <2>2. \A c \in Configs : /\ configs'[c].exists = configs[c].exists
                           /\ configs'[c].gen = configs[c].gen
                           /\ configs'[c].spec = configs[c].spec
    BY <1>8 DEF UpdateStatus, TypeInv, TypeOK
  <2> QED BY <2>1, <2>2, CopyKept DEF ServiceLast
<1>9. ASSUME NEW c \in Configs, Start(c) PROVE CopyInv'
  <2>1. UNCHANGED <<configs, seen, news, children>>
    BY <1>9 DEF Start, configVars, childVars
  <2>2. \A d \in Configs : d \notin news' => SeenAgrees(d)'
    BY <2>1 DEF CopyInv, SeenAgrees
  <2>3. CASE ~seen[c].exists
    BY <1>9, <2>2, <2>3 DEF Start, Idle, CopyInv, Working, ServiceLast
  <2>4. CASE seen[c].exists
    <3>1. /\ worker'.pc = "dp" /\ worker'.owner.name = c
          /\ worker'.owner.gen = seen[c].gen /\ worker'.spec = seen[c].spec
          /\ worker'.current = (c \notin news)
      BY <1>9, <2>4 DEF Start
    <3>2. worker'.current => WorkerAgrees'
      BY <2>1, <2>4, <3>1 DEF CopyInv, SeenAgrees, WorkerAgrees
    <3> QED BY <2>1, <2>2, <3>1, <3>2 DEF CopyInv, ServiceLast
  <2> QED BY <2>3, <2>4
<1>10. CASE CallFails \/ StatusFails
  <2>1. UNCHANGED <<configs, seen, news>> /\ queue \subseteq queue' /\ worker'.pc = "idle"
    BY <1>10 DEF CallFails, StatusFails, Fail, Idle, configVars
  <2> QED BY <2>1, CopyKept DEF ServiceLast
<1>11. CASE Restart
  <2>1. worker'.pc = "idle"
    BY <1>11 DEF Restart, Idle
  <2>2. \A c \in Configs : SeenAgrees(c)'
    BY <1>11 DEF Restart, SeenAgrees
  <2> QED BY <2>1, <2>2 DEF CopyInv, Working, ServiceLast
<1>12. ASSUME NEW c \in Configs, Resync(c) PROVE CopyInv'
  <2>1. UNCHANGED <<configs, seen, news, children, worker>> /\ queue \subseteq queue'
    BY <1>12 DEF Resync, configVars, childVars
  <2>2. ServiceLast'
    BY <2>1 DEF CopyInv, ServiceLast
  <2> QED BY <2>1, <2>2, CopyKept DEF Working
<1> QED
  BY <1>1, <1>2, <1>3, <1>4, <1>5, <1>6, <1>7, <1>8, <1>9, <1>10, <1>11, <1>12
  DEF ResyncNext, Next, UserNext, KubernetesNext, ControllerNext, ReconcileStep

LEMMA CopyStutter == ASSUME CopyInv, UNCHANGED vars PROVE CopyInv'
BY DEF vars, configVars, childVars, CopyInv, SeenAgrees, WorkerAgrees, ServiceLast, Working

LEMMA CopyAlways == ResyncSpec => []CopyInv
<1>1. TypeInv /\ CopyInv /\ [ResyncNext]_vars => CopyInv'
  BY CopyStep, CopyStutter
<1> QED BY <1>1, CopyInit, TypeAlways, PTL DEF ResyncSpec

-----------------------------------------------------------------------------
(***************************************************************************)
(* No wakeup is lost: every kept child of an existing DeviceConfig is as   *)
(* its spec asks, or the name is to be reconciled again, or the worker     *)
(* still has the child before it.                                          *)
(***************************************************************************)

\* The calls of a reconcile up to the one for child k.
UpTo(k) ==
    CASE k = "dp"  -> {"dp"}
      [] k = "me"  -> {"dp", "me"}
      [] k = "svc" -> {"dp", "me", "svc"}
      [] k = "su"  -> {"dp", "me", "svc", "su"}
      [] OTHER     -> Children

WorksFor(c, steps) ==
    worker.owner.name = c /\ worker.current /\ worker.pc \in steps

\* Correct, but for a child of somebody else where c wants none.
Fine(k, c) ==
    IF Wanted(k, configs[c].spec)
    THEN /\ children[k].exists
         /\ children[k].owner.name = c
         /\ children[k].owner.gen = configs[c].gen
         /\ children[k].conf = Desired(k, configs[c].spec)
    ELSE ~children[k].exists \/ children[k].owner.name # c

SettledInv ==
    \A c \in Configs : configs[c].exists => \A k \in Kept :
        Pending(c) \/ WorksFor(c, UpTo(k)) \/ Fine(k, c)

LEMMA UpToFacts ==
    /\ \A k \in Children : "dp" \in UpTo(k) /\ UpTo(k) \subseteq Children
    /\ \A k, j \in Children : j \in UpTo(k) => j = k \/ After[j] \in UpTo(k)
BY DEF UpTo, After, Children, Watched, Daemons

LEMMA WorkIsWorking ==
    ASSUME NEW c, NEW k \in Children, WorksFor(c, UpTo(k))
    PROVE  WorksFor(c, Children)
BY UpToFacts DEF WorksFor

\* Steps that leave specs and children alone lose no wakeup unless they take one
\* from the worker.
LEMMA SettledKept ==
    ASSUME TypeInv, SettledInv, children' = children,
           \A c \in Configs : /\ configs'[c].exists = configs[c].exists
                              /\ configs'[c].gen = configs[c].gen
                              /\ configs'[c].spec = configs[c].spec,
           \A c \in Configs : (configs[c].exists /\ Pending(c))
                                 => Pending(c)' \/ WorksFor(c, {"dp"})',
           \A c \in Configs : WorksFor(c, Children) => worker' = worker \/ Pending(c)'
    PROVE  SettledInv'
<1> SUFFICES ASSUME NEW c \in Configs, configs'[c].exists, NEW k \in Kept
             PROVE  Pending(c)' \/ WorksFor(c, UpTo(k))' \/ Fine(k, c)'
  BY DEF SettledInv, Kept
<1>1. k \in Children /\ configs[c].exists
  BY DEF Kept, Children
<1>2. CASE Pending(c)
  BY <1>1, <1>2, UpToFacts DEF WorksFor
<1>3. CASE WorksFor(c, UpTo(k))
  <2>1. worker' = worker \/ Pending(c)'
    BY <1>1, <1>3, WorkIsWorking
  <2> QED BY <1>3, <2>1 DEF WorksFor
<1>4. CASE Fine(k, c)
  BY <1>4 DEF Fine
<1> QED BY <1>1, <1>2, <1>3, <1>4 DEF SettledInv

LEMMA SettledInit == Init => SettledInv
BY DEF Init, SettledInv

LEMMA WriteConfigSettled ==
    ASSUME TypeInv, SettledInv, NEW c \in Configs, NEW cfg \in Config, WriteConfig(c, cfg)
    PROVE  SettledInv'
<1>1. /\ \A d \in Configs \ {c} : configs'[d] = configs[d]
      /\ news' = news \cup {c}
      /\ worker'.pc = worker.pc
      /\ worker'.owner = worker.owner
      /\ worker'.current = (worker.current /\ worker.owner.name # c)
      /\ UNCHANGED <<children, unseen, queue>>
  BY ConfigWritten DEF childVars
<1> SUFFICES ASSUME NEW d \in Configs, configs'[d].exists, NEW k \in Kept
             PROVE  Pending(d)' \/ WorksFor(d, UpTo(k))' \/ Fine(k, d)'
  BY DEF SettledInv, Kept
<1>2. CASE d = c
  BY <1>1, <1>2 DEF Pending
<1>3. CASE d # c
  <2>1. Pending(d) => Pending(d)'
    BY <1>1 DEF Pending
  <2>2. WorksFor(d, UpTo(k)) => WorksFor(d, UpTo(k))'
    BY <1>1, <1>3 DEF WorksFor
  <2>3. Fine(k, d) => Fine(k, d)'
    BY <1>1, <1>3 DEF Fine
  <2> QED BY <1>1, <1>3, <2>1, <2>2, <2>3 DEF SettledInv
<1> QED BY <1>2, <1>3

LEMMA DisturbedSettled ==
    ASSUME TypeInv, SettledInv, NEW k \in Children, Tamper(k) \/ Readiness(k) \/ Collect(k)
    PROVE  SettledInv'
<1>1. PICK obj \in Child \cup {NoChild} :
         /\ WriteChild(k, obj)
         /\ obj # children[k]
         /\ children[k].exists
         /\ obj.exists => obj.owner = children[k].owner
         /\ \/ k \in Tamperable
            \/ Garbage(k) /\ ~obj.exists
            \/ k \in Daemons /\ obj.exists /\ obj.conf = children[k].conf
         /\ UNCHANGED <<configVars, queue, worker, faults>>
  BY Disturbed
<1>2. /\ children'[k] = obj
      /\ \A j \in Children \ {k} : children'[j] = children[j]
      /\ \A j \in Children : unseen[j] \subseteq unseen'[j]
      /\ children[k].owner.name \in unseen'[k]
  BY <1>1, ChildWritten
<1>3. UNCHANGED <<configs, news, queue, worker>>
  BY <1>1 DEF configVars
<1> SUFFICES ASSUME NEW c \in Configs, configs'[c].exists, NEW j \in Kept
             PROVE  Pending(c)' \/ WorksFor(c, UpTo(j))' \/ Fine(j, c)'
  BY DEF SettledInv, Kept
<1>4. Pending(c) => Pending(c)'
  BY <1>2, <1>3 DEF Pending, Children
<1>5. WorksFor(c, UpTo(j)) => WorksFor(c, UpTo(j))'
  BY <1>3 DEF WorksFor
<1>6. Fine(j, c) => Fine(j, c)' \/ Pending(c)'
  <2>1. CASE j # k
    BY <1>2, <1>3, <2>1 DEF Fine, Kept, Children
  <2>2. CASE j = k /\ Wanted(k, configs[c].spec)
    <3> SUFFICES ASSUME Fine(k, c) PROVE Pending(c)'
      BY <2>2
    <3>1. children[k].owner.name = c /\ children[k].owner.gen = configs[c].gen
      BY <2>2 DEF Fine
    <3>2. ~Garbage(k)
      BY <1>3, <3>1 DEF Garbage
    <3>3. k \in Watched
      BY <1>1, <2>2, <3>2 DEF Kept, Watched
    <3> QED BY <1>2, <3>1, <3>3 DEF Pending
  <2>3. CASE j = k /\ ~Wanted(k, configs[c].spec)
    BY <1>1, <1>2, <1>3, <2>3 DEF Fine
  <2> QED BY <2>1, <2>2, <2>3
<1> QED BY <1>3, <1>4, <1>5, <1>6 DEF SettledInv

\* The call for child k, when it succeeds: k is settled for the DeviceConfig of
\* the worker, and whoever loses k by it hears of it.
LEMMA CallSettled ==
    ASSUME TypeInv, CopyInv, SettledInv, NEW k \in Children, NEW obj,
           worker.pc = k, Call(k, obj),
           worker.current => Fine(k, worker.owner.name)',
           \A c \in Configs : (configs[c].exists /\ c # worker.owner.name /\ Fine(k, c))
                                 => Fine(k, c)' \/ Pending(c)'
    PROVE  SettledInv'
<1>1. /\ \A j \in Children \ {k} : children'[j] = children[j]
      /\ \A j \in Children : unseen[j] \subseteq unseen'[j]
  BY ChildWritten DEF Call
<1>2. UNCHANGED <<configs, news, queue>>
  BY DEF Call, configVars
<1>3. /\ worker'.pc = After[k] /\ worker'.owner = worker.owner
      /\ worker'.current = worker.current
  BY CallWorker
<1>4. Working
  BY DEF Working, Children, Watched, Daemons
<1> SUFFICES ASSUME NEW c \in Configs, configs'[c].exists, NEW j \in Kept
             PROVE  Pending(c)' \/ WorksFor(c, UpTo(j))' \/ Fine(j, c)'
  BY DEF SettledInv, Kept
<1> j \in Children /\ configs[c].exists
  BY <1>2 DEF Kept, Children
<1>5. Pending(c) => Pending(c)'
  BY <1>1, <1>2 DEF Pending, Children
<1>6. CASE c = worker.owner.name /\ ~worker.current
  BY <1>2, <1>4, <1>5, <1>6 DEF CopyInv, Pending
<1>7. CASE c = worker.owner.name /\ worker.current
  <2>1. CASE j = k
    BY <1>3, <1>7, <2>1 DEF Fine
  <2>2. CASE j # k
    <3>1. WorksFor(c, UpTo(j)) => WorksFor(c, UpTo(j))'
      BY <1>3, <2>2, UpToFacts DEF WorksFor
    <3>2. Fine(j, c) => Fine(j, c)'
      BY <1>1, <1>2, <2>2 DEF Fine
    <3> QED BY <1>5, <3>1, <3>2 DEF SettledInv
  <2> QED BY <2>1, <2>2
<1>8. CASE c # worker.owner.name
  <2>1. ~WorksFor(c, UpTo(j))
    BY <1>8 DEF WorksFor
  <2>2. CASE j = k
    BY <1>5, <1>8, <2>1, <2>2 DEF SettledInv
  <2>3. CASE j # k
    <3>1. Fine(j, c) => Fine(j, c)'
      BY <1>1, <1>2, <2>3 DEF Fine
    <3> QED BY <1>5, <2>1, <3>1 DEF SettledInv
  <2> QED BY <2>2, <2>3
<1> QED BY <1>6, <1>7, <1>8

LEMMA ApplySettled ==
    ASSUME TypeInv, CopyInv, SettledInv, NEW k \in Children, Apply(k)
    PROVE  SettledInv'
<1> DEFINE obj == [exists |-> TRUE, owner |-> worker.owner,
                   conf |-> Desired(k, worker.spec), ready |-> Ready(k)]
           n == worker.owner.name
<1>1. /\ worker.pc = k /\ Call(k, obj) /\ Wanted(k, worker.spec)
      /\ children[k].exists => children[k].owner.name = n
      /\ obj.exists /\ obj.owner = worker.owner /\ obj.conf = Desired(k, worker.spec)
  BY DEF Apply, Refused
<1> HIDE DEF obj
<1>2. children'[k] = obj /\ configs' = configs /\ Working
  BY <1>1, ChildWritten DEF Call, configVars, Working, Children, Watched, Daemons
<1>3. worker.current => Fine(k, n)'
  <2> SUFFICES ASSUME worker.current PROVE Fine(k, n)'
    OBVIOUS
  <2>1. configs[n].gen = worker.owner.gen /\ configs[n].spec = worker.spec
    BY <1>2 DEF CopyInv, WorkerAgrees
  <2>2. worker'.owner = worker.owner
    BY <1>1, CallWorker
  <2> QED BY <1>1, <1>2, <2>1, <2>2 DEF Fine
<1>4. ASSUME NEW c \in Configs, c # n, Fine(k, c) PROVE Fine(k, c)'
  <2>1. ~Wanted(k, configs[c].spec)
    BY <1>1, <1>4 DEF Fine
  <2> QED BY <1>1, <1>2, <1>4, <2>1 DEF Fine
<1> QED BY <1>1, <1>3, <1>4, CallSettled

\* Deleting the child of another DeviceConfig wakes that one.  The Service wakes
\* nobody: its owner has lost the exporter already.
LEMMA DeleteSettled ==
    ASSUME TypeInv, CopyInv, SettledInv, NEW k \in Children, deleteIfExists(k)
    PROVE  SettledInv'
<1> DEFINE n == worker.owner.name
<1>1. /\ worker.pc = k /\ Call(k, NoChild) /\ ~Wanted(k, worker.spec)
      /\ ~NoChild.exists
  BY DEF deleteIfExists, NoChild
<1>2. children'[k] = NoChild /\ configs' = configs /\ Working
  BY <1>1, ChildWritten DEF Call, configVars, Working, Children, Watched, Daemons
<1>3. worker.current => Fine(k, n)'
  <2> SUFFICES ASSUME worker.current PROVE Fine(k, n)'
    OBVIOUS
  <2>1. configs[n].spec = worker.spec /\ worker'.owner = worker.owner
    BY <1>1, <1>2, CallWorker DEF CopyInv, WorkerAgrees
  <2> QED BY <1>1, <1>2, <2>1 DEF Fine
<1>4. ASSUME NEW c \in Configs, configs[c].exists, c # n, Fine(k, c)
      PROVE  Fine(k, c)' \/ Pending(c)'
  <2>1. CASE ~Wanted(k, configs[c].spec)
    BY <1>1, <1>2, <2>1 DEF Fine
  <2>2. CASE Wanted(k, configs[c].spec) /\ k \in Watched
    <3>1. children[k].exists /\ children[k].owner.name = c
      BY <1>4, <2>2 DEF Fine
    <3>2. c \in unseen'[k]
      BY <1>1, <3>1, ChildWritten DEF Call
    <3> QED BY <2>2, <3>2 DEF Pending
  <2>3. CASE Wanted(k, configs[c].spec) /\ k = "svc"
    <3>1. ~children["me"].exists
      BY <1>1, <2>3 DEF CopyInv, ServiceLast, Wanted
    <3>2. "me" \in Kept /\ Wanted("me", configs[c].spec)
      BY <2>3 DEF Kept, Watched, Daemons, Wanted
    <3>3. ~Fine("me", c) /\ ~WorksFor(c, UpTo("me"))
      BY <1>4, <3>1, <3>2 DEF Fine, WorksFor
    <3>4. Pending(c)
      BY <1>4, <3>2, <3>3 DEF SettledInv
    <3>5. UNCHANGED <<news, queue>> /\ \A j \in Children : unseen[j] \subseteq unseen'[j]
      BY <1>1, ChildWritten DEF Call, configVars
    <3> QED BY <3>4, <3>5 DEF Pending, Children
  <2> QED BY <2>1, <2>2, <2>3 DEF Children
<1> QED BY <1>1, <1>3, <1>4, CallSettled

LEMMA SettledStep ==
    ASSUME TypeInv, CopyInv, SettledInv, ResyncNext
    PROVE  SettledInv'
<1> DEFINE SpecsKept == \A c \in Configs : /\ configs'[c].exists = configs[c].exists
                                          /\ configs'[c].gen = configs[c].gen
                                          /\ configs'[c].spec = configs[c].spec
<1>1. ASSUME NEW c \in Configs, CreateConfig(c) \/ EditConfig(c) \/ DeleteConfig(c)
      PROVE SettledInv'
  BY <1>1, UserWrites, WriteConfigSettled
<1>2. ASSUME NEW k \in Children, DeliverChild(k) PROVE SettledInv'
  <2>1. /\ UNCHANGED <<configs, news, children, worker>> /\ queue \subseteq queue'
        /\ k \in Watched => unseen[k] \subseteq queue'
        /\ \A j \in Children \ {k} : unseen'[j] = unseen[j]
    BY <1>2 DEF DeliverChild, configVars, TypeInv, TypeOK
  <2>2. \A c \in Configs : Pending(c) => Pending(c)'
    BY <2>1 DEF Pending, Children
  <2> QED BY <2>1, <2>2, SettledKept
<1>3. ASSUME NEW c \in Configs, Deliver(c) PROVE SettledInv'
  <2>1. /\ UNCHANGED <<configs, children, unseen, worker>>
        /\ news' = news \ {c} /\ queue' = queue \cup {c}
    BY <1>3 DEF Deliver, childVars
  <2>2. \A d \in Configs : Pending(d) => Pending(d)'
    BY <2>1 DEF Pending
  <2> QED BY <2>1, <2>2, SettledKept
<1>4. ASSUME NEW c \in Configs, Start(c) PROVE SettledInv'
  <2>1. /\ UNCHANGED <<configs, children, unseen, news>>
        /\ queue' = queue \ {c} /\ worker.pc = "idle"
    BY <1>4 DEF Start, configVars, childVars
  <2>2. \A d \in Configs : ~WorksFor(d, Children)
    BY <2>1 DEF WorksFor, Children, Watched, Daemons
  <2>3. ASSUME NEW d \in Configs, configs[d].exists, Pending(d)
        PROVE  Pending(d)' \/ WorksFor(d, {"dp"})'
    <3>1. CASE d # c \/ c \in news
      BY <2>1, <2>3, <3>1 DEF Pending
    <3>2. CASE d = c /\ c \notin news
      <4>1. seen[c].exists
        BY <2>3, <3>2 DEF CopyInv, SeenAgrees
      <4> QED BY <1>4, <3>2, <4>1 DEF Start, WorksFor
    <3> QED BY <3>1, <3>2
  <2> QED BY <2>1, <2>2, <2>3, SettledKept
<1>5. ASSUME \/ \E k \in Children : ApplyRefused(k)
             \/ CallFails
      PROVE  SettledInv'
  <2>1. UNCHANGED <<configs, news, children, unseen>> /\ queue' = queue \cup {worker.owner.name}
    BY <1>5 DEF ApplyRefused, CallFails, Fail, configVars, childVars
  <2>2. \A c \in Configs : Pending(c) => Pending(c)'
    BY <2>1 DEF Pending
  <2>3. \A c \in Configs : WorksFor(c, Children) => Pending(c)'
    BY <2>1 DEF WorksFor, Pending
  <2> QED BY <2>1, <2>2, <2>3, SettledKept
<1>6. CASE UpdateStatus \/ StatusFails
  <2>1. /\ UNCHANGED <<children, unseen, queue>> /\ news \subseteq news'
        /\ worker.pc = "status"
    BY <1>6 DEF UpdateStatus, StatusFails, configVars, childVars
  <2>2. SpecsKept
    BY <1>6 DEF UpdateStatus, StatusFails, configVars, TypeInv, TypeOK
  <2>3. \A c \in Configs : Pending(c) => Pending(c)'
    BY <2>1 DEF Pending
  <2>4. \A c \in Configs : ~WorksFor(c, Children)
    BY <2>1 DEF WorksFor, Children, Watched, Daemons
  <2> QED BY <2>1, <2>2, <2>3, <2>4, SettledKept
<1>7. CASE Restart
  <2>1. UNCHANGED <<configs, children>> /\ queue' = {c \in Configs : configs[c].exists}
    BY <1>7 DEF Restart
  <2> QED BY <2>1 DEF SettledInv, Pending
<1>8. ASSUME NEW c \in Configs, Resync(c) PROVE SettledInv'
  <2>1. UNCHANGED <<configs, news, children, unseen, worker>> /\ queue \subseteq queue'
    BY <1>8 DEF Resync, configVars, childVars
  <2>2. \A d \in Configs : Pending(d) => Pending(d)'
    BY <2>1 DEF Pending
  <2> QED BY <2>1, <2>2, SettledKept
<1> QED
  BY <1>1, <1>2, <1>3, <1>4, <1>5, <1>6, <1>7, <1>8, DisturbedSettled, ApplySettled,
     DeleteSettled
  DEF ResyncNext, Next, UserNext, KubernetesNext, ControllerNext, ReconcileStep

LEMMA SettledStutter == ASSUME SettledInv, UNCHANGED vars PROVE SettledInv'
BY DEF vars, configVars, childVars, SettledInv, Pending, WorksFor, Fine

LEMMA SettledAlways == ResyncSpec => []SettledInv
<1>1. TypeInv /\ CopyInv /\ SettledInv /\ [ResyncNext]_vars => SettledInv'
  BY SettledStep, SettledStutter
<1> QED BY <1>1, SettledInit, TypeAlways, CopyAlways, PTL DEF ResyncSpec

\* At rest every child is owned by the one DeviceConfig there is: the
\* status-updater, which every spec wants, has one owner.
LEMMA RestIsSettled ==
    ASSUME TypeInv, SettledInv, AtRest,
           NEW c \in Configs, configs[c].exists, NEW k \in Kept
    PROVE  Fine(k, c)
<1>1. ~Pending(c)
  BY DEF AtRest, Pending, Children
<1>2. ~WorksFor(c, UpTo(k))
  BY UpToFacts DEF AtRest, WorksFor, Kept, Children, Watched, Daemons
<1> QED BY <1>1, <1>2 DEF SettledInv

LEMMA OneOwner ==
    ASSUME TypeInv, SettledInv, AtRest, NEW c \in Configs, configs[c].exists
    PROVE  \A k \in Children : children[k].exists =>
               children[k].owner = [name |-> c, gen |-> configs[c].gen]
<1> SUFFICES ASSUME NEW k \in Children, children[k].exists
             PROVE  children[k].owner = [name |-> c, gen |-> configs[c].gen]
  OBVIOUS
<1> DEFINE d == children[k].owner.name
<1>1. ~Garbage(k) /\ d \in Configs
  BY Gens DEF AtRest
<1>2. configs[d].exists /\ configs[d].gen = children[k].owner.gen
  BY <1>1 DEF Garbage
<1>3. "su" \in Kept /\ \A s \in Specs : Wanted("su", s)
  BY DEF Kept, Watched, Wanted
<1>4. configs[c].spec \in Specs /\ configs[d].spec \in Specs
  BY <1>1 DEF TypeInv, TypeOK
<1>5. Fine("su", c) /\ Fine("su", d)
  BY <1>1, <1>2, <1>3, RestIsSettled
<1>6. c = d
  BY <1>3, <1>4, <1>5 DEF Fine
<1>7. children[k].owner \in Owner
  BY ExistingChild DEF TypeInv, Child
<1> QED BY <1>2, <1>6, <1>7 DEF Owner

LEMMA RestIsReconciled ==
    ASSUME TypeInv, SettledInv
    PROVE  RestMeansReconciled
<1> SUFFICES ASSUME AtRest, NEW c \in Configs, configs[c].exists, NEW k \in Kept
             PROVE  Correct(k, c)
  BY DEF RestMeansReconciled, Kept
<1>1. Fine(k, c)
  BY RestIsSettled
<1>2. k \in Children
  BY DEF Kept, Children
<1>3. children[k].exists => children[k].owner = [name |-> c, gen |-> configs[c].gen]
  BY <1>2, OneOwner
<1> QED BY <1>1, <1>3 DEF Fine, Correct

\* No wakeup is lost: when the controller comes to rest, every kept child is what
\* the latest spec asks for.
THEOREM RestMeansReconciledAlways == Spec \/ FairSpec => []RestMeansReconciled
<1>1. TypeInv /\ SettledInv => RestMeansReconciled
  BY RestIsReconciled
<1> QED BY <1>1, TypeAlways, SettledAlways, SpecsResync, PTL

LEMMA RestInventories ==
    ASSUME TypeInv, SettledInv
    PROVE  InventoriesAgree
<1> SUFFICES ASSUME AtRest, children["dp"].exists, children["me"].exists
             PROVE  GpuIds(BuildGPUs(children["me"].conf.gpus, children["me"].conf.mode,
                                     children["me"].conf.count))
                      = buildDevices(children["dp"].conf.gpus)
  BY DEF InventoriesAgree
<1> DEFINE c == children["dp"].owner.name
           s == configs[c].spec
           p == normalizePartition(s)
<1>1. "dp" \in Children /\ "me" \in Children /\ "dp" \in Kept /\ "me" \in Kept
  BY DEF Children, Watched, Daemons, Kept
<1>2. c \in Configs /\ configs[c].exists
  BY <1>1, Gens DEF AtRest, Garbage
<1>3. /\ children["dp"].owner.name = c /\ children["me"].owner.name = c
      /\ Fine("dp", c) /\ Fine("me", c)
  BY <1>1, <1>2, OneOwner, RestIsSettled
<1>4. children["dp"].conf = Desired("dp", s) /\ children["me"].conf = Desired("me", s)
  BY <1>3 DEF Fine
<1>5. s \in Specs /\ s.mode \in {"spx", "cpx"} /\ s.count \in Nat
  BY <1>2, SpecsAssumption DEF TypeInv, TypeOK
<1> HIDE DEF s
<1>6. p.mode = s.mode /\ p.count = PartitionCount(s.mode, s.count)
  BY <1>5 DEF normalizePartition, PartitionCount
<1>7. PartitionCount(p.mode, p.count) = p.count /\ p.count \in Int
  BY <1>5, <1>6 DEF PartitionCount
<1> HIDE DEF p
<1>8. children["dp"].conf.gpus = GPUsPerNode * p.count
  BY <1>4 DEF Desired, p
<1>9. /\ children["me"].conf.gpus = GPUsPerNode
      /\ children["me"].conf.mode = p.mode
      /\ children["me"].conf.count = p.count
  BY <1>4 DEF Desired, p
<1> QED BY <1>7, <1>8, <1>9, GPUsAssumption, SeriesAreDevices

\* At rest the device plugin advertises exactly the devices that the exporter
\* publishes, for any number of GPUs and any partitioning.
THEOREM InventoriesAlwaysAgree == Spec \/ FairSpec => []InventoriesAgree
<1>1. TypeInv /\ SettledInv => InventoriesAgree
  BY RestInventories
<1> QED BY <1>1, TypeAlways, SettledAlways, SpecsResync, PTL

-----------------------------------------------------------------------------
(***************************************************************************)
(* The status.  While no call has failed, an existing DeviceConfig tells   *)
(* of a DaemonSet what is true, or is to be reconciled again, or the       *)
(* worker has yet to look, or has looked and has yet to write.             *)
(***************************************************************************)

Told(status, k) == IF k = "dp" THEN status.plugin ELSE status.exporter

\* The steps at which the readiness of DaemonSet k has yet to be asked for.
BeforeObserved(k) ==
    IF k = "dp" THEN {"dp", "me"} ELSE {"dp", "me", "svc", "su"}

Asked == Children \cup {"status"}

Right(status, k, c) == Told(status, k) = (Wanted(k, configs[c].spec) /\ Ready(k))

\* Whoever owns a DaemonSet whose readiness is not yet known is to be told.
HeardInv ==
    \A k \in Daemons : (children[k].exists /\ seenReady[k] # Ready(k))
        => children[k].owner.name \in unseen[k]

\* Nothing is said of a DaemonSet before it is asked for, or when it is not wanted.
ToldInv ==
    \A k \in Daemons : (worker.pc \in BeforeObserved(k) \/ ~Wanted(k, worker.spec))
        => ~Told(worker.status, k)

Truth(k, c) ==
    \/ Pending(c)
    \/ WorksFor(c, BeforeObserved(k))
    \/ WorksFor(c, Asked) /\ Right(worker.status, k, c)
    \/ Right(configs[c].status, k, c)

TruthInv ==
    faults = 0 => \A c \in Configs : configs[c].exists => \A k \in Daemons : Truth(k, c)

LEMMA BeforeObservedFacts ==
    \A k \in Daemons :
        /\ k \in Children /\ k \in Watched /\ k \in Kept
        /\ UpTo(k) \subseteq BeforeObserved(k)
        /\ BeforeObserved(k) \subseteq Asked
        /\ \A j \in Children : /\ After[j] \in BeforeObserved(k) => j \in BeforeObserved(k)
                               /\ After[j] \in Asked
BY DEF Daemons, Watched, Children, Kept, UpTo, BeforeObserved, Asked, After

LEMMA ReadyBoolean == ASSUME TypeInv, NEW k \in Daemons
                      PROVE  Ready(k) \in BOOLEAN /\ seenReady[k] \in BOOLEAN
BY DEF Ready, TypeInv, TypeOK, Children, Watched

\* What a call tells the status of the worker.
LEMMA ObservedFacts ==
    ASSUME TypeInv, NEW k \in Daemons
    PROVE  /\ Told(Observed, k) \in BOOLEAN
           /\ Told(Observed, k) = Told(worker.status, k)
              \/ /\ worker.pc = IF k = "dp" THEN "me" ELSE "su"
                 /\ Wanted(k, worker.spec)
                 /\ Told(Observed, k) = seenReady[k]
           /\ (worker.pc = (IF k = "dp" THEN "me" ELSE "su") /\ Wanted(k, worker.spec))
                => Told(Observed, k) = seenReady[k]
<1>1. /\ worker.status \in [plugin: BOOLEAN, exporter: BOOLEAN, conditions: SUBSET Conditions]
      /\ seenReady["dp"] \in BOOLEAN /\ seenReady["me"] \in BOOLEAN
  BY DEF TypeInv, TypeOK, Status, Children, Watched, Daemons
<1>2. /\ Observed.plugin = IF worker.pc = "me" /\ Wanted("dp", worker.spec)
                           THEN seenReady["dp"] ELSE worker.status.plugin
      /\ Observed.exporter = IF worker.pc = "su" /\ Wanted("me", worker.spec)
                             THEN seenReady["me"] ELSE worker.status.exporter
  BY <1>1 DEF Observed
<1> HIDE DEF Observed
<1>3. CASE k = "dp"
  BY <1>1, <1>2, <1>3 DEF Told
<1>4. CASE k = "me"
  BY <1>1, <1>2, <1>4 DEF Told
<1> QED BY <1>3, <1>4 DEF Daemons

LEMMA WriteChildHeard ==
    ASSUME TypeInv, HeardInv, NEW k \in Children, NEW obj, WriteChild(k, obj)
    PROVE  HeardInv'
<1>1. /\ children'[k] = obj
      /\ \A j \in Children \ {k} : children'[j] = children[j]
      /\ \A j \in Children : unseen[j] \subseteq unseen'[j]
      /\ obj # children[k] => (obj.exists => obj.owner.name \in unseen'[k])
      /\ seenReady' = seenReady
  BY ChildWritten
<1> SUFFICES ASSUME NEW j \in Daemons, children'[j].exists, seenReady'[j] # Ready(j)'
             PROVE  children'[j].owner.name \in unseen'[j]
  BY DEF HeardInv
<1>2. CASE children'[j] = children[j]
  <2>1. children[j].exists /\ seenReady[j] # Ready(j)
    BY <1>1, <1>2 DEF Ready
  <2> QED BY <1>1, <1>2, <2>1 DEF HeardInv, Children, Watched
<1>3. CASE children'[j] # children[j]
  BY <1>1, <1>3 DEF Children, Watched
<1> QED BY <1>2, <1>3

LEMMA HeardStep == ASSUME TypeInv, HeardInv, ResyncNext PROVE HeardInv'
<1>1. ASSUME UNCHANGED childVars PROVE HeardInv'
  BY <1>1 DEF childVars, HeardInv, Ready
<1>2. ASSUME NEW c \in Configs, CreateConfig(c) \/ EditConfig(c) \/ DeleteConfig(c)
      PROVE  HeardInv'
  BY <1>1, <1>2, UserWrites, ConfigWritten
<1>3. ASSUME NEW k \in Children, Tamper(k) \/ Readiness(k) \/ Collect(k)
      PROVE  HeardInv'
  BY <1>3, Disturbed, WriteChildHeard
<1>4. ASSUME NEW k \in Children, DeliverChild(k) PROVE HeardInv'
  <2>1. /\ children' = children
        /\ \A j \in Children \ {k} : seenReady'[j] = seenReady[j] /\ unseen'[j] = unseen[j]
        /\ seenReady'[k] = Ready(k)
    BY <1>4 DEF DeliverChild, TypeInv, TypeOK
  <2>2. \A j \in Daemons : Ready(j)' = Ready(j)
    BY <2>1 DEF Ready
  <2> QED BY <2>1, <2>2 DEF HeardInv, Children, Watched
<1>5. ASSUME NEW k \in Children, Apply(k) \/ deleteIfExists(k) PROVE HeardInv'
  <2>1. PICK obj : WriteChild(k, obj)
    BY <1>5 DEF Apply, deleteIfExists, Call
  <2> QED BY <2>1, WriteChildHeard
<1>6. CASE Restart
  <2>1. children' = children /\ \A k \in Children : seenReady'[k] = Ready(k)
    BY <1>6 DEF Restart
  <2>2. \A k \in Daemons : Ready(k)' = Ready(k)
    BY <2>1 DEF Ready
  <2> QED BY <2>1, <2>2 DEF HeardInv, Children, Watched
<1>7. ASSUME \/ \E c \in Configs : Deliver(c) \/ Start(c) \/ Resync(c)
             \/ \E k \in Children : ApplyRefused(k)
             \/ UpdateStatus \/ CallFails \/ StatusFails
      PROVE  HeardInv'
  BY <1>1, <1>7
  DEF Deliver, Start, Resync, ApplyRefused, UpdateStatus, CallFails, StatusFails, Fail
<1> QED
  BY <1>2, <1>3, <1>4, <1>5, <1>6, <1>7
  DEF ResyncNext, Next, UserNext, KubernetesNext, ControllerNext, ReconcileStep

LEMMA ToldIdle == \A k \in Daemons : ~Told(NoStatus, k)
BY DEF Told, NoStatus

LEMMA ToldStep == ASSUME TypeInv, ToldInv, ResyncNext PROVE ToldInv'
<1>1. ASSUME worker'.status = NoStatus PROVE ToldInv'
  BY <1>1, ToldIdle DEF ToldInv
<1>2. ASSUME worker'.pc = worker.pc, worker'.spec = worker.spec,
             worker'.status = worker.status
      PROVE  ToldInv'
  BY <1>2 DEF ToldInv
<1>3. ASSUME NEW c \in Configs, CreateConfig(c) \/ EditConfig(c) \/ DeleteConfig(c)
      PROVE  ToldInv'
  BY <1>2, <1>3, UserWrites, ConfigWritten
<1>4. ASSUME NEW j \in Children, NEW obj, worker.pc = j, Call(j, obj) PROVE ToldInv'
  <2>1. /\ worker'.pc = After[j] /\ worker'.spec = worker.spec
        /\ worker'.status = Observed
    BY <1>4, CallWorker
  <2>2. ASSUME NEW k \in Daemons, After[j] \in BeforeObserved(k) \/ ~Wanted(k, worker.spec)
        PROVE  ~Told(Observed, k)
    <3>1. ~(worker.pc = (IF k = "dp" THEN "me" ELSE "su") /\ Wanted(k, worker.spec))
      BY <1>4, <2>2 DEF After, BeforeObserved
    <3>2. Told(Observed, k) = Told(worker.status, k)
      BY <3>1, ObservedFacts
    <3>3. worker.pc \in BeforeObserved(k) \/ ~Wanted(k, worker.spec)
      BY <1>4, <2>2, BeforeObservedFacts
    <3> QED BY <3>2, <3>3 DEF ToldInv
  <2> QED BY <2>1, <2>2 DEF ToldInv
<1>5. ASSUME NEW k \in Children, Apply(k) \/ deleteIfExists(k) PROVE ToldInv'
  BY <1>4, <1>5 DEF Apply, deleteIfExists
<1>6. ASSUME \/ \E k \in Children : ApplyRefused(k)
             \/ \E c \in Configs : Start(c)
             \/ UpdateStatus \/ CallFails \/ StatusFails \/ Restart
      PROVE  worker'.status = NoStatus
  BY <1>6 DEF ApplyRefused, Start, UpdateStatus, CallFails, StatusFails, Restart, Fail, Idle
<1>7. ASSUME \/ \E k \in Children : Tamper(k) \/ Readiness(k) \/ Collect(k) \/ DeliverChild(k)
             \/ \E c \in Configs : Deliver(c) \/ Resync(c)
      PROVE  worker' = worker
  BY <1>7 DEF Tamper, Readiness, Collect, DeliverChild, Deliver, Resync
<1> QED
  BY <1>1, <1>2, <1>3, <1>5, <1>6, <1>7
  DEF ResyncNext, Next, UserNext, KubernetesNext, ControllerNext, ReconcileStep

LEMMA StatusInit == Init => HeardInv /\ ToldInv /\ TruthInv
<1> SUFFICES ASSUME Init PROVE HeardInv /\ ToldInv /\ TruthInv
  OBVIOUS
<1>1. /\ \A k \in Children : children[k].exists = FALSE
      /\ \A c \in Configs : configs[c].exists = FALSE
      /\ worker.status = NoStatus
  BY DEF Init, NoChild, Idle
<1> QED BY <1>1, ToldIdle DEF HeardInv, ToldInv, TruthInv, Children, Watched

\* Steps that leave the DeviceConfigs and the children alone.
LEMMA TruthKept ==
    ASSUME TypeInv, TruthInv, UNCHANGED <<configs, children>>, faults' = faults,
           \A c \in Configs : (configs[c].exists /\ Pending(c))
                                 => Pending(c)' \/ WorksFor(c, {"dp"})',
           \A c \in Configs : WorksFor(c, Asked) => worker' = worker \/ Pending(c)'
    PROVE  TruthInv'
<1> SUFFICES ASSUME faults = 0, NEW c \in Configs, configs[c].exists, NEW k \in Daemons
             PROVE  Truth(k, c)'
  BY DEF TruthInv
<1>1. Truth(k, c)
  BY DEF TruthInv
<1>2. "dp" \in BeforeObserved(k) /\ Ready(k)' = Ready(k)
  BY DEF BeforeObserved, Ready
<1>3. CASE Pending(c)
  BY <1>2, <1>3 DEF Truth, WorksFor
<1>4. CASE WorksFor(c, BeforeObserved(k))
  <2>1. WorksFor(c, Asked)
    BY <1>4, BeforeObservedFacts DEF WorksFor
  <2> QED BY <1>4, <2>1 DEF Truth, WorksFor
<1>5. CASE WorksFor(c, Asked) /\ Right(worker.status, k, c)
  BY <1>2, <1>5 DEF Truth, WorksFor, Right
<1>6. CASE Right(configs[c].status, k, c)
  BY <1>2, <1>6 DEF Truth, Right
<1> QED BY <1>1, <1>3, <1>4, <1>5, <1>6 DEF Truth

LEMMA WriteConfigTruth ==
    ASSUME TypeInv, TruthInv, NEW c \in Configs, NEW cfg \in Config, WriteConfig(c, cfg)
    PROVE  TruthInv'
<1>1. /\ \A d \in Configs \ {c} : configs'[d] = configs[d]
      /\ news' = news \cup {c}
      /\ worker'.pc = worker.pc
      /\ worker'.owner = worker.owner
      /\ worker'.status = worker.status
      /\ worker'.current = (worker.current /\ worker.owner.name # c)
      /\ UNCHANGED <<children, unseen, queue, faults>>
  BY ConfigWritten DEF childVars
<1> SUFFICES ASSUME faults = 0, NEW d \in Configs, configs'[d].exists, NEW k \in Daemons
             PROVE  Truth(k, d)'
  BY <1>1 DEF TruthInv
<1>2. CASE d = c
  BY <1>1, <1>2 DEF Truth, Pending
<1>3. CASE d # c
  <2>1. Pending(d) => Pending(d)'
    BY <1>1 DEF Pending
  <2>2. WorksFor(d, BeforeObserved(k)) => WorksFor(d, BeforeObserved(k))'
    BY <1>1, <1>3 DEF WorksFor
  <2>3. WorksFor(d, Asked) => WorksFor(d, Asked)'
    BY <1>1, <1>3 DEF WorksFor
  <2>4. /\ Right(worker.status, k, d) => Right(worker.status, k, d)'
        /\ Right(configs[d].status, k, d) => Right(configs[d].status, k, d)'
    BY <1>1, <1>3 DEF Right, Ready
  <2>5. Truth(k, d)
    BY <1>1, <1>3 DEF TruthInv
  <2> QED BY <2>1, <2>2, <2>3, <2>4, <2>5 DEF Truth
<1> QED BY <1>2, <1>3

\* A DaemonSet changes: the one it is news for is told.
LEMMA ReadinessTold ==
    ASSUME TypeInv, SettledInv, NEW k \in Children, NEW obj, WriteChild(k, obj),
           configs' = configs,
           NEW c \in Configs, configs[c].exists, NEW j \in Daemons,
           ~WorksFor(c, UpTo(j)), ~Pending(c)
    PROVE  Pending(c)' \/ ((Wanted(j, configs[c].spec) /\ Ready(j))
                               = (Wanted(j, configs[c].spec) /\ Ready(j)'))
<1>1. /\ \A i \in Children \ {k} : children'[i] = children[i]
      /\ children'[k] = obj
      /\ obj # children[k] => (children[k].exists => children[k].owner.name \in unseen'[k])
  BY ChildWritten
<1>2. j \in Children /\ j \in Kept /\ j \in Watched
  BY BeforeObservedFacts
<1>3. CASE children'[j] = children[j]
  BY <1>3 DEF Ready
<1>4. CASE children'[j] # children[j] /\ Wanted(j, configs[c].spec)
  <2>1. Fine(j, c)
    BY <1>2 DEF SettledInv
  <2>2. c \in unseen'[j]
    BY <1>1, <1>2, <1>4, <2>1 DEF Fine
  <2> QED BY <1>2, <2>2 DEF Pending
<1>5. CASE ~Wanted(j, configs[c].spec)
  BY <1>5
<1> QED BY <1>3, <1>4, <1>5

LEMMA DisturbedTruth ==
    ASSUME TypeInv, SettledInv, TruthInv, NEW k \in Children,
           Tamper(k) \/ Readiness(k) \/ Collect(k)
    PROVE  TruthInv'
<1>1. PICK obj \in Child \cup {NoChild} :
         WriteChild(k, obj) /\ UNCHANGED <<configVars, queue, worker, faults>>
  BY Disturbed
<1>2. UNCHANGED <<configs, news>> /\ \A j \in Children : unseen[j] \subseteq unseen'[j]
  BY <1>1, ChildWritten DEF configVars
<1> SUFFICES ASSUME faults = 0, NEW c \in Configs, configs[c].exists, NEW j \in Daemons
             PROVE  Truth(j, c)'
  BY <1>1, <1>2 DEF TruthInv
<1>3. Truth(j, c)
  BY DEF TruthInv
<1>4. CASE Pending(c)
  BY <1>1, <1>2, <1>4 DEF Truth, Pending, Children
<1>5. CASE WorksFor(c, BeforeObserved(j))
  BY <1>1, <1>5 DEF Truth, WorksFor
<1>6. CASE ~Pending(c) /\ ~WorksFor(c, BeforeObserved(j))
  <2>1. ~WorksFor(c, UpTo(j))
    BY <1>6, BeforeObservedFacts DEF WorksFor
  <2>2. Pending(c)' \/ ((Wanted(j, configs[c].spec) /\ Ready(j))
                            = (Wanted(j, configs[c].spec) /\ Ready(j)'))
    BY <1>1, <1>2, <1>6, <2>1, ReadinessTold
  <2>3. WorksFor(c, Asked) => WorksFor(c, Asked)'
    BY <1>1 DEF WorksFor
  <2>4. \/ Pending(c)'
        \/ /\ Right(worker.status, j, c) => Right(worker.status, j, c)'
           /\ Right(configs[c].status, j, c) => Right(configs[c].status, j, c)'
    BY <1>1, <1>2, <2>2 DEF Right
  <2> QED BY <1>3, <1>6, <2>3, <2>4 DEF Truth
<1> QED BY <1>4, <1>5, <1>6

LEMMA CallTruth ==
    ASSUME TypeInv, CopyInv, SettledInv, HeardInv, ToldInv, TruthInv,
           NEW k \in Children, NEW obj, worker.pc = k, Call(k, obj)
    PROVE  TruthInv'
<1>1. WriteChild(k, obj) /\ UNCHANGED <<configs, news, queue, faults>>
  BY DEF Call, configVars
<1>2. /\ \A j \in Children \ {k} : children'[j] = children[j]
      /\ \A j \in Children : unseen[j] \subseteq unseen'[j]
  BY <1>1, ChildWritten
<1>3. /\ worker'.pc = After[k] /\ worker'.owner = worker.owner
      /\ worker'.current = worker.current /\ worker'.status = Observed
  BY CallWorker
<1>4. Working
  BY DEF Working, Children, Watched, Daemons
<1> SUFFICES ASSUME faults = 0, NEW c \in Configs, configs[c].exists, NEW j \in Daemons
             PROVE  Truth(j, c)'
  BY <1>1 DEF TruthInv
<1>5. Truth(j, c) /\ j \in Kept /\ j \in Children /\ j \in Watched
  BY BeforeObservedFacts DEF TruthInv
<1>6. Pending(c) => Pending(c)'
  BY <1>1, <1>2 DEF Pending, Children
<1> DEFINE asks == IF j = "dp" THEN "me" ELSE "su"
<1>7. CASE c # worker.owner.name
  <2>1. ~WorksFor(c, UpTo(j)) /\ ~WorksFor(c, BeforeObserved(j)) /\ ~WorksFor(c, Asked)
    BY <1>7 DEF WorksFor
  <2>2. Pending(c) \/ Right(configs[c].status, j, c)
    BY <1>5, <2>1 DEF Truth
  <2>3. Pending(c)' \/ ((Wanted(j, configs[c].spec) /\ Ready(j))
                            = (Wanted(j, configs[c].spec) /\ Ready(j)'))
    BY <1>1, <1>6, <2>1, ReadinessTold
  <2> QED BY <1>1, <1>6, <2>2, <2>3 DEF Right, Truth
<1>8. CASE c = worker.owner.name /\ ~worker.current
  BY <1>4, <1>6, <1>8 DEF CopyInv, Pending, Truth
<1>9. CASE c = worker.owner.name /\ worker.current /\ After[k] \in BeforeObserved(j)
  BY <1>3, <1>9 DEF WorksFor, Truth
<1>10. CASE c = worker.owner.name /\ worker.current /\ k = asks
  <2>1. j # k /\ k \notin UpTo(j) /\ After[k] \in Asked
    BY <1>10, BeforeObservedFacts DEF Daemons, UpTo
  <2>2. Ready(j)' = Ready(j)
    BY <1>2, <1>5, <2>1 DEF Ready
  <2>3. WorksFor(c, Asked)'
    BY <1>3, <1>10, <2>1 DEF WorksFor
  <2>4. configs[c].spec = worker.spec
    BY <1>4, <1>10 DEF CopyInv, WorkerAgrees
  <2>5. CASE ~Wanted(j, worker.spec)
    <3>1. ~Told(Observed, j)
      BY <2>5, ObservedFacts DEF ToldInv
    <3>2. Right(worker.status, j, c)'
      BY <1>1, <1>3, <2>4, <2>5, <3>1, ObservedFacts DEF Right
    <3> QED BY <2>3, <3>2 DEF Truth
  <2>6. CASE Wanted(j, worker.spec) /\ seenReady[j] = Ready(j)
    <3>1. Told(Observed, j) = seenReady[j]
      BY <1>10, <2>6, ObservedFacts
    <3>2. Told(worker'.status, j) = Ready(j) /\ Ready(j) \in BOOLEAN
      BY <1>3, <2>6, <3>1, ReadyBoolean
    <3>3. (Wanted(j, worker.spec) /\ Ready(j)) = Ready(j)
      BY <2>6, <3>2
    <3>4. Right(worker.status, j, c)'
      BY <1>1, <2>2, <2>4, <3>2, <3>3 DEF Right
    <3> QED BY <2>3, <3>4 DEF Truth
  <2>7. CASE Wanted(j, worker.spec) /\ seenReady[j] # Ready(j)
    <3>1. Pending(c) \/ Fine(j, c)
      BY <1>5, <2>1 DEF SettledInv, WorksFor
    <3>2. Fine(j, c) => children[j].exists /\ children[j].owner.name = c
      BY <2>4, <2>7 DEF Fine
    <3>3. Fine(j, c) => Pending(c)
      BY <1>5, <2>7, <3>2 DEF HeardInv, Pending
    <3> QED BY <1>6, <3>1, <3>3 DEF Truth
  <2> QED BY <2>5, <2>6, <2>7
<1>11. CASE /\ c = worker.owner.name /\ worker.current
            /\ k # asks /\ After[k] \notin BeforeObserved(j)
  <2>1. k \notin BeforeObserved(j) /\ j # k /\ After[k] \in Asked
    BY <1>11, BeforeObservedFacts DEF Daemons, BeforeObserved, After, Children, Watched
  <2>2. Ready(j)' = Ready(j)
    BY <1>2, <1>5, <2>1 DEF Ready
  <2>3. Told(Observed, j) = Told(worker.status, j)
    BY <1>11, ObservedFacts
  <2>4. WorksFor(c, Asked)' /\ ~WorksFor(c, BeforeObserved(j))
    BY <1>3, <1>11, <2>1 DEF WorksFor
  <2>5. /\ Right(worker.status, j, c) => Right(worker.status, j, c)'
        /\ Right(configs[c].status, j, c) => Right(configs[c].status, j, c)'
    BY <1>1, <1>3, <2>2, <2>3 DEF Right
  <2> QED BY <1>5, <1>6, <2>4, <2>5 DEF Truth
<1> QED BY <1>7, <1>8, <1>9, <1>10, <1>11

\* Writing the status that was observed, or finding it written.
LEMMA UpdateStatusTruth ==
    ASSUME TypeInv, CopyInv, TruthInv, UpdateStatus
    PROVE  TruthInv'
<1> DEFINE n == worker.owner.name
           changed == worker.current /\ configs[n].status # worker.status
<1>1. /\ UNCHANGED <<children, unseen, queue, faults>>
      /\ worker.pc = "status" /\ Working /\ n \in Configs
      /\ news' = IF changed THEN news \cup {n} ELSE news
      /\ \A c \in Configs : /\ configs'[c].exists = configs[c].exists
                            /\ configs'[c].spec = configs[c].spec
                            /\ c # n \/ ~changed => configs'[c] = configs[c]
  BY DEF UpdateStatus, childVars, TypeInv, TypeOK, Working
<1> HIDE DEF changed
<1> SUFFICES ASSUME faults = 0, NEW c \in Configs, configs[c].exists, NEW k \in Daemons
             PROVE  Truth(k, c)'
  BY <1>1 DEF TruthInv
<1>2. Truth(k, c)
  BY DEF TruthInv
<1>3. Pending(c) => Pending(c)'
  BY <1>1 DEF Pending
<1>4. ~WorksFor(c, BeforeObserved(k))
  BY <1>1 DEF WorksFor, BeforeObserved
<1>5. CASE c = n /\ changed
  BY <1>1, <1>5 DEF Truth, Pending
<1>6. CASE c = n /\ ~worker.current
  BY <1>1, <1>3, <1>6 DEF CopyInv, Pending, Truth
<1>7. CASE c # n \/ (worker.current /\ ~changed)
  <2>1. WorksFor(c, Asked) => configs[c].status = worker.status
    BY <1>7 DEF WorksFor, changed
  <2>2. Pending(c) \/ Right(configs[c].status, k, c)
    BY <1>2, <1>4, <2>1 DEF Truth
  <2>3. configs'[c] = configs[c]
    BY <1>1, <1>7
  <2>4. Right(configs[c].status, k, c) => Right(configs[c].status, k, c)'
    BY <1>1, <2>3 DEF Right, Ready
  <2> QED BY <1>3, <2>2, <2>4 DEF Truth
<1> QED BY <1>5, <1>6, <1>7 DEF changed

LEMMA TruthStep ==
    ASSUME TypeInv, CopyInv, SettledInv, HeardInv, ToldInv, TruthInv, ResyncNext
    PROVE  TruthInv'
<1>1. ASSUME NEW c \in Configs, CreateConfig(c) \/ EditConfig(c) \/ DeleteConfig(c)
      PROVE TruthInv'
  BY <1>1, UserWrites, WriteConfigTruth
<1>2. ASSUME NEW k \in Children, DeliverChild(k) PROVE TruthInv'
  <2>1. /\ UNCHANGED <<configs, news, children, worker, faults>> /\ queue \subseteq queue'
        /\ k \in Watched => unseen[k] \subseteq queue'
        /\ \A j \in Children \ {k} : unseen'[j] = unseen[j]
    BY <1>2 DEF DeliverChild, configVars, TypeInv, TypeOK
  <2>2. \A c \in Configs : Pending(c) => Pending(c)'
    BY <2>1 DEF Pending, Children
  <2> QED BY <2>1, <2>2, TruthKept
<1>3. ASSUME NEW c \in Configs, Deliver(c) PROVE TruthInv'
  <2>1. /\ UNCHANGED <<configs, children, unseen, worker, faults>>
        /\ news' = news \ {c} /\ queue' = queue \cup {c}
    BY <1>3 DEF Deliver, childVars
  <2>2. \A d \in Configs : Pending(d) => Pending(d)'
    BY <2>1 DEF Pending
  <2> QED BY <2>1, <2>2, TruthKept
<1>4. ASSUME NEW c \in Configs, Start(c) PROVE TruthInv'
  <2>1. /\ UNCHANGED <<configs, children, unseen, news, faults>>
        /\ queue' = queue \ {c} /\ worker.pc = "idle"
    BY <1>4 DEF Start, configVars, childVars
  <2>2. \A d \in Configs : ~WorksFor(d, Asked)
    BY <2>1 DEF WorksFor, Asked, Children, Watched, Daemons
  <2>3. ASSUME NEW d \in Configs, configs[d].exists, Pending(d)
        PROVE  Pending(d)' \/ WorksFor(d, {"dp"})'
    <3>1. CASE d # c \/ c \in news
      BY <2>1, <2>3, <3>1 DEF Pending
    <3>2. CASE d = c /\ c \notin news
      <4>1. seen[c].exists
        BY <2>3, <3>2 DEF CopyInv, SeenAgrees
      <4> QED BY <1>4, <3>2, <4>1 DEF Start, WorksFor
    <3> QED BY <3>1, <3>2
  <2> QED BY <2>1, <2>2, <2>3, TruthKept
<1>5. ASSUME NEW k \in Children, ApplyRefused(k) PROVE TruthInv'
  <2>1. /\ UNCHANGED <<configs, news, children, unseen, faults>>
        /\ queue' = queue \cup {worker.owner.name}
    BY <1>5 DEF ApplyRefused, Fail, configVars, childVars
  <2>2. \A c \in Configs : Pending(c) => Pending(c)'
    BY <2>1 DEF Pending
  <2>3. \A c \in Configs : WorksFor(c, Asked) => Pending(c)'
    BY <2>1 DEF WorksFor, Pending
  <2> QED BY <2>1, <2>2, <2>3, TruthKept
<1>6. ASSUME NEW k \in Children, Apply(k) \/ deleteIfExists(k) PROVE TruthInv'
  BY <1>6, CallTruth DEF Apply, deleteIfExists
<1>7. CASE CallFails \/ StatusFails \/ Restart
  <2>1. faults' # 0
    BY <1>7 DEF CallFails, StatusFails, Restart, Fault, TypeInv, TypeOK
  <2> QED BY <2>1 DEF TruthInv
<1>8. ASSUME NEW c \in Configs, Resync(c) PROVE TruthInv'
  <2>1. /\ UNCHANGED <<configs, news, children, unseen, worker, faults>>
        /\ queue \subseteq queue'
    BY <1>8 DEF Resync, configVars, childVars
  <2>2. \A d \in Configs : Pending(d) => Pending(d)'
    BY <2>1 DEF Pending
  <2> QED BY <2>1, <2>2, TruthKept
<1> QED
  BY <1>1, <1>2, <1>3, <1>4, <1>5, <1>6, <1>7, <1>8, DisturbedTruth, UpdateStatusTruth
  DEF ResyncNext, Next, UserNext, KubernetesNext, ControllerNext, ReconcileStep

StatusInv == HeardInv /\ ToldInv /\ TruthInv

LEMMA StatusStutter == ASSUME StatusInv, UNCHANGED vars PROVE StatusInv'
<1>1. /\ UNCHANGED <<configs, news, children, unseen, seenReady, queue, worker, faults>>
      /\ \A k \in Children : Ready(k)' = Ready(k)
  BY DEF vars, configVars, childVars, Ready
<1>2. HeardInv'
  BY <1>1 DEF StatusInv, HeardInv, Children, Watched
<1>3. ToldInv'
  BY <1>1 DEF StatusInv, ToldInv
<1>4. TruthInv'
  BY <1>1 DEF StatusInv, TruthInv, Truth, Pending, WorksFor, Right, Ready
<1> QED BY <1>2, <1>3, <1>4 DEF StatusInv

LEMMA StatusAlways == ResyncSpec => []StatusInv
<1>1. Init => StatusInv
  BY StatusInit DEF StatusInv
<1>2. TypeInv /\ CopyInv /\ SettledInv /\ StatusInv /\ [ResyncNext]_vars => StatusInv'
  <2> SUFFICES ASSUME TypeInv, CopyInv, SettledInv, StatusInv, ResyncNext
               PROVE  StatusInv'
    BY StatusStutter
  <2> QED BY HeardStep, ToldStep, TruthStep DEF StatusInv
<1> QED BY <1>1, <1>2, TypeAlways, CopyAlways, SettledAlways, PTL DEF ResyncSpec

LEMMA RestIsTrue ==
    ASSUME TypeInv, StatusInv
    PROVE  StatusTruthful
<1> SUFFICES ASSUME AtRest, faults = 0, NEW c \in Configs, configs[c].exists
             PROVE  StatusRight(c)
  BY DEF StatusTruthful
<1>1. ~Pending(c)
  BY DEF AtRest, Pending, Children
<1>2. \A steps : WorksFor(c, steps) => "idle" \in steps
  BY DEF AtRest, WorksFor
<1>3. "idle" \notin Asked /\ \A k \in Daemons : "idle" \notin BeforeObserved(k)
  BY DEF Asked, Children, Watched, Daemons, BeforeObserved
<1>4. \A k \in Daemons : Truth(k, c)
  BY DEF StatusInv, TruthInv
<1>5. \A k \in Daemons : Right(configs[c].status, k, c)
  BY <1>1, <1>2, <1>3, <1>4 DEF Truth
<1> QED BY <1>5 DEF Right, Told, Wanted, StatusRight, Daemons

\* As long as no call has failed and the controller has not restarted, a status
\* at rest tells the truth about both DaemonSets.
THEOREM StatusTruthfulAlways == Spec \/ FairSpec => []StatusTruthful
<1>1. TypeInv /\ StatusInv => StatusTruthful
  BY RestIsTrue
<1> QED BY <1>1, TypeAlways, StatusAlways, SpecsResync, PTL
-----------------------------------------------------------------------------
(***************************************************************************)
(* Quiet.  When everything is right and everybody has been told, what the  *)
(* controller still does, a reconcile after a resync, a restart or a late  *)
(* event, changes nothing: the safety half of WritesDieOut.                *)
(***************************************************************************)

\* A reconcile in progress works for c, from what c asks for now, and has read
\* nothing that is not so.
QuietWorker(c) ==
    Working => /\ worker.owner.name = c /\ worker.current
               /\ \A k \in Daemons :
                     worker.pc \in BeforeObserved(k) \/ Right(worker.status, k, c)

Quiet(c) ==
    /\ configs[c].exists /\ \A d \in Configs \ {c} : ~configs[d].exists
    /\ news = {} /\ \A k \in Children : unseen[k] = {}
    /\ \A k \in Children : Correct(k, c)
    /\ StatusRight(c)
    /\ QuietWorker(c)

\* Users, and nodes on which pods become ready or stop being ready.
Outside == UserNext \/ \E k \in Children : Readiness(k)

\* The conditions of a status are never filled in.
PlainInv ==
    /\ worker.status.conditions = {}
    /\ \A c \in Configs : configs[c].status.conditions = {}

LEMMA PlainInit == Init => PlainInv
BY DEF Init, PlainInv, Idle, NoStatus

LEMMA PlainObserved ==
    ASSUME TypeInv, PlainInv
    PROVE  Observed.conditions = {}
<1>1. worker.status \in [plugin: BOOLEAN, exporter: BOOLEAN, conditions: SUBSET Conditions]
  BY DEF TypeInv, TypeOK, Status
<1> QED BY <1>1 DEF PlainInv, Observed

LEMMA PlainWritten ==
    ASSUME TypeInv, PlainInv, NEW c \in Configs, NEW cfg, WriteConfig(c, cfg),
           cfg.status.conditions = {}
    PROVE  PlainInv'
<1>1. worker'.status = worker.status
  BY DEF WriteConfig, TypeInv, TypeOK
<1>2. configs'[c] = cfg /\ \A d \in Configs \ {c} : configs'[d] = configs[d]
  BY DEF WriteConfig, TypeInv, TypeOK
<1> QED BY <1>1, <1>2 DEF PlainInv

LEMMA PlainStep == ASSUME TypeInv, PlainInv, ResyncNext PROVE PlainInv'
<1>1. NoStatus.conditions = {} /\ Idle.status = NoStatus
  BY DEF NoStatus, Idle
<1>2. ASSUME NEW c \in Configs, CreateConfig(c) \/ EditConfig(c) \/ DeleteConfig(c)
      PROVE  PlainInv'
  <2>1. CASE CreateConfig(c)
    BY <1>1, <2>1, PlainWritten DEF CreateConfig
  <2>2. CASE EditConfig(c)
    <3>1. PICK s \in Specs : WriteConfig(c, [configs[c] EXCEPT !.spec = s])
      BY <2>2 DEF EditConfig
    <3>2. [configs[c] EXCEPT !.spec = s].status.conditions = {}
      BY DEF PlainInv, TypeInv, TypeOK
    <3> QED BY <3>1, <3>2, PlainWritten
  <2>3. CASE DeleteConfig(c)
    <3>1. [configs[c] EXCEPT !.exists = FALSE, !.spec = AnySpec,
                             !.status = NoStatus].status.conditions = {}
      BY <1>1 DEF TypeInv, TypeOK
    <3> QED BY <2>3, <3>1, PlainWritten DEF DeleteConfig
  <2> QED BY <1>2, <2>1, <2>2, <2>3
<1>3. ASSUME configs' = configs, worker' = worker \/ worker' = Idle PROVE PlainInv'
  BY <1>1, <1>3 DEF PlainInv
<1>4. ASSUME NEW k \in Children, Apply(k) \/ deleteIfExists(k) PROVE PlainInv'
  <2>1. PICK obj : worker.pc = k /\ Call(k, obj)
    BY <1>4 DEF Apply, deleteIfExists
  <2>2. worker'.status = Observed /\ configs' = configs
    BY <2>1, CallWorker DEF Call, configVars
  <2> QED BY <2>2, PlainObserved DEF PlainInv
<1>5. ASSUME NEW c \in Configs, Start(c) PROVE PlainInv'
  <2>1. worker' = Idle \/ worker'.status = NoStatus
    BY <1>5 DEF Start
  <2>2. configs' = configs
    BY <1>5 DEF Start, configVars
  <2> QED BY <1>1, <2>1, <2>2 DEF PlainInv
<1>6. ASSUME UpdateStatus PROVE PlainInv'
  <2> DEFINE n == worker.owner.name
  <2>1. worker' = Idle
    BY <1>6 DEF UpdateStatus
  <2>2. configs' = configs \/ configs' = [configs EXCEPT ![n].status = worker.status]
    BY <1>6 DEF UpdateStatus
  <2>3. \A c \in Configs : configs'[c].status \in {configs[c].status, worker.status}
    BY <2>2 DEF TypeInv, TypeOK
  <2> QED BY <1>1, <2>1, <2>3 DEF PlainInv
<1>7. ASSUME \/ \E k \in Children : \/ Tamper(k) \/ Readiness(k) \/ Collect(k)
                                    \/ DeliverChild(k) \/ ApplyRefused(k)
             \/ \E c \in Configs : Deliver(c) \/ Resync(c)
             \/ CallFails \/ StatusFails \/ Restart
      PROVE  configs' = configs /\ (worker' = worker \/ worker' = Idle)
  BY <1>7
  DEF Tamper, Readiness, Collect, DeliverChild, ApplyRefused, Deliver, Resync,
      CallFails, StatusFails, Restart, Fail, configVars
<1> QED
  BY <1>2, <1>3, <1>4, <1>5, <1>6, <1>7
  DEF ResyncNext, Next, UserNext, KubernetesNext, ControllerNext, ReconcileStep

LEMMA PlainAlways == ResyncSpec => []PlainInv
<1>1. ASSUME PlainInv, UNCHANGED vars PROVE PlainInv'
  BY <1>1 DEF PlainInv, vars, configVars
<1>2. TypeInv /\ PlainInv /\ [ResyncNext]_vars => PlainInv'
  BY <1>1, PlainStep
<1> QED BY <1>2, PlainInit, TypeAlways, PTL DEF ResyncSpec

\* A worker that is not idle while it is quiet has read what there is.
LEMMA QuietWorking ==
    ASSUME TypeInv, CopyInv, HeardInv, NEW c \in Configs, Quiet(c), Working
    PROVE  /\ worker.owner = [name |-> c, gen |-> configs[c].gen]
           /\ worker.spec = configs[c].spec
           /\ \A k \in Daemons : Wanted(k, worker.spec) => seenReady[k] = Ready(k)
<1>1. worker.owner.name = c /\ worker.current
  BY DEF Quiet, QuietWorker
<1>2. worker.owner.gen = configs[c].gen /\ worker.spec = configs[c].spec
  BY <1>1 DEF CopyInv, WorkerAgrees
<1>3. worker.owner = [name |-> c, gen |-> configs[c].gen]
  BY <1>1, <1>2, WorkerOwner DEF Owner
<1>4. ASSUME NEW k \in Daemons, Wanted(k, worker.spec) PROVE seenReady[k] = Ready(k)
  <2>1. k \in Children
    BY BeforeObservedFacts
  <2>2. children[k].exists
    BY <1>2, <1>4, <2>1 DEF Quiet, Correct
  <2>3. unseen[k] = {}
    BY <2>1 DEF Quiet
  <2> QED BY <2>2, <2>3 DEF HeardInv
<1> QED BY <1>2, <1>3, <1>4

\* The world does not move, and the worker knows it.
LEMMA QuietKept ==
    ASSUME NEW c \in Configs, Quiet(c), QuietWorker(c)',
           UNCHANGED <<configs, news, children, unseen>>
    PROVE  Quiet(c)'
<1>1. \A k \in Children : Correct(k, c)' = Correct(k, c)
  BY DEF Correct
<1>2. StatusRight(c)' = StatusRight(c)
  BY DEF StatusRight, Ready
<1> QED BY <1>1, <1>2 DEF Quiet

\* A call that leaves the child as it is.
LEMMA QuietCall ==
    ASSUME TypeInv, CopyInv, HeardInv, ToldInv, NEW c \in Configs, Quiet(c),
           NEW k \in Children, worker.pc = k, NEW obj, obj = children[k], Call(k, obj)
    PROVE  Quiet(c)' /\ UNCHANGED <<configs, news, children>>
<1>1. UNCHANGED <<configs, news, children, unseen>>
  <2>1. WriteChild(k, obj) /\ UNCHANGED <<configs, news>>
    BY DEF Call, configVars
  <2>2. children' = children
    BY <2>1 DEF WriteChild, TypeInv, TypeOK
  <2>3. unseen' = unseen
    BY <2>1 DEF WriteChild
  <2> QED BY <2>1, <2>2, <2>3
<1>2. Working
  BY DEF Working, Children, Watched, Daemons
<1>3. /\ worker'.pc = After[k] /\ worker'.owner = worker.owner
      /\ worker'.current = worker.current /\ worker'.status = Observed
  BY CallWorker
<1>4. worker.owner.name = c /\ worker.current
  BY <1>2 DEF Quiet, QuietWorker
<1>5. ASSUME NEW j \in Daemons
      PROVE  After[k] \in BeforeObserved(j) \/ Right(Observed, j, c)
  <2> DEFINE at == IF j = "dp" THEN "me" ELSE "su"
  <2>1. worker.spec = configs[c].spec /\ (Wanted(j, worker.spec) => seenReady[j] = Ready(j))
    BY <1>2, QuietWorking
  <2>2. CASE worker.pc \in BeforeObserved(j) /\ worker.pc # at
    BY <2>2 DEF BeforeObserved, After, Daemons
  <2>3. CASE worker.pc = at /\ Wanted(j, worker.spec)
    <3>1. Told(Observed, j) = seenReady[j]
      BY <2>3, ObservedFacts
    <3> QED BY <2>1, <2>3, <3>1, ReadyBoolean DEF Right
  <2>4. CASE worker.pc = at /\ ~Wanted(j, worker.spec)
    <3>1. Told(Observed, j) = Told(worker.status, j)
      BY <2>4, ObservedFacts
    <3>2. ~Told(worker.status, j)
      BY <2>4 DEF ToldInv
    <3> QED BY <2>1, <2>4, <3>1, <3>2, ObservedFacts DEF Right
  <2>5. CASE worker.pc \notin BeforeObserved(j)
    <3>1. Right(worker.status, j, c)
      BY <1>2, <2>5 DEF Quiet, QuietWorker
    <3>2. at \in BeforeObserved(j)
      BY DEF BeforeObserved
    <3>3. Told(Observed, j) = Told(worker.status, j)
      BY <2>5, <3>2, ObservedFacts
    <3> QED BY <3>1, <3>3 DEF Right
  <2> QED BY <2>2, <2>3, <2>4, <2>5
<1>6. QuietWorker(c)'
  <2>1. \A j \in Daemons : Right(worker.status, j, c)' = Right(Observed, j, c)
    BY <1>1, <1>3 DEF Right, Ready
  <2> QED BY <1>3, <1>4, <1>5, <2>1 DEF QuietWorker
<1> QED BY <1>1, <1>6, QuietKept

\* Every call of the reconciler finds what it would make.
LEMMA QuietReconcile ==
    ASSUME TypeInv, CopyInv, HeardInv, ToldInv, NEW c \in Configs, Quiet(c),
           NEW k \in Children, Apply(k) \/ deleteIfExists(k)
    PROVE  Quiet(c)' /\ UNCHANGED <<configs, news, children>>
<1>1. worker.pc = k
  BY DEF Apply, deleteIfExists
<1>2. /\ worker.owner = [name |-> c, gen |-> configs[c].gen]
      /\ worker.spec = configs[c].spec
  BY <1>1, QuietWorking DEF Working, Children, Watched, Daemons
<1>3. Correct(k, c) /\ children[k] \in Child \cup {NoChild} /\ ~NoChild.exists
  BY DEF Quiet, TypeInv, TypeOK, NoChild
<1>4. CASE Apply(k)
  <2> DEFINE obj == [exists |-> TRUE, owner |-> worker.owner,
                     conf |-> Desired(k, worker.spec), ready |-> Ready(k)]
  <2>1. Wanted(k, worker.spec) /\ Call(k, obj)
    BY <1>4 DEF Apply
  <2>2. /\ children[k].exists /\ children[k].owner = worker.owner
        /\ children[k].conf = Desired(k, worker.spec)
    BY <1>2, <1>3, <2>1 DEF Correct
  <2>3. children[k] \in Child
    BY <1>3, <2>2
  <2>4. children[k] = obj
    BY <2>2, <2>3 DEF Child, Ready
  <2> HIDE DEF obj
  <2> QED BY <1>1, <2>1, <2>4, QuietCall
<1>5. CASE deleteIfExists(k)
  <2>1. ~Wanted(k, worker.spec) /\ Call(k, NoChild)
    BY <1>5 DEF deleteIfExists
  <2>2. children[k] = NoChild
    BY <1>2, <1>3, <2>1 DEF Correct, Child
  <2> QED BY <1>1, <2>1, <2>2, QuietCall
<1> QED BY <1>4, <1>5

\* Status().Update would write what is there.
LEMMA QuietUpdateStatus ==
    ASSUME TypeInv, PlainInv, NEW c \in Configs, Quiet(c), UpdateStatus
    PROVE  Quiet(c)' /\ UNCHANGED <<configs, news, children>>
<1>1. worker.pc = "status" /\ Working
  BY DEF UpdateStatus, Working
<1>2. worker.owner.name = c /\ \A k \in Daemons : Right(worker.status, k, c)
  BY <1>1 DEF Quiet, QuietWorker, BeforeObserved
<1>3. worker.status \in Status /\ configs[c].status \in Status
  BY DEF TypeInv, TypeOK
<1>4. /\ worker.status.plugin = configs[c].status.plugin
      /\ worker.status.exporter = configs[c].status.exporter
  BY <1>2 DEF Quiet, StatusRight, Right, Told, Wanted, Daemons
<1>5. worker.status = configs[c].status
  <2>1. worker.status.conditions = configs[c].status.conditions
    BY DEF PlainInv
  <2> QED BY <1>3, <1>4, <2>1 DEF Status
<1>6. configs' = configs /\ news' = news
  BY <1>2, <1>5 DEF UpdateStatus
<1>7. worker' = Idle /\ children' = children /\ unseen' = unseen
  BY DEF UpdateStatus, childVars
<1>8. QuietWorker(c)'
  BY <1>7 DEF QuietWorker, Working, Idle
<1> QED BY <1>6, <1>7, <1>8, QuietKept

\* Whatever the controller, the informers and the garbage collector do, and
\* whichever call fails: nothing moves until somebody outside does something.
LEMMA QuietStep ==
    ASSUME TypeInv, CopyInv, HeardInv, ToldInv, PlainInv, ResyncNext,
           NEW c \in Configs, Quiet(c), ~Outside
    PROVE  Quiet(c)' /\ UNCHANGED <<configs, news, children>>
<1> DEFINE Goal == Quiet(c)' /\ UNCHANGED <<configs, news, children>>
<1>1. ASSUME UNCHANGED <<configs, news, children, unseen>>, worker' = worker \/ worker' = Idle
      PROVE  Goal
  <2>1. \A k \in Daemons : Right(worker.status, k, c)' = Right(worker'.status, k, c)
    BY <1>1 DEF Right, Ready
  <2>2. QuietWorker(c)'
    BY <1>1, <2>1 DEF Quiet, QuietWorker, Working, Idle
  <2> QED BY <1>1, <2>2, QuietKept
<1>2. ASSUME NEW k \in Children, Collect(k) PROVE FALSE
  <2>1. children[k].exists /\ Correct(k, c) /\ configs[c].exists
    BY <1>2 DEF Collect, Garbage, Quiet
  <2>2. children[k].owner = [name |-> c, gen |-> configs[c].gen]
    BY <2>1 DEF Correct
  <2> QED BY <1>2, <2>1, <2>2 DEF Collect, Garbage
<1>3. ASSUME NEW k \in Children, DeliverChild(k) PROVE FALSE
  BY <1>3 DEF DeliverChild, Quiet
<1>4. ASSUME NEW d \in Configs, Deliver(d) PROVE FALSE
  BY <1>4 DEF Deliver, Quiet
<1>5. ASSUME NEW d \in Configs, Start(d) PROVE Goal
  <2>1. UNCHANGED <<configs, news, children, unseen>>
    BY <1>5 DEF Start, configVars, childVars
  <2>2. news = {} /\ SeenAgrees(d)
    BY DEF Quiet, CopyInv
  <2>3. CASE d = c
    <3>1. seen[c].exists
      BY <2>2, <2>3 DEF SeenAgrees, Quiet
    <3>2. worker'.pc = "dp" /\ worker'.owner.name = c /\ worker'.current
      BY <1>5, <2>2, <2>3, <3>1 DEF Start
    <3>3. QuietWorker(c)'
      BY <3>2 DEF QuietWorker, BeforeObserved
    <3> QED BY <2>1, <3>3, QuietKept
  <2>4. CASE d # c
    <3>1. ~seen[d].exists
      BY <2>2, <2>4 DEF SeenAgrees, Quiet
    <3>2. worker' = Idle
      BY <1>5, <3>1 DEF Start
    <3> QED BY <1>1, <2>1, <3>2
  <2> QED BY <2>3, <2>4
<1>6. ASSUME NEW d \in Configs, Resync(d) PROVE Goal
  BY <1>1, <1>6 DEF Resync, configVars, childVars
<1>7. ASSUME \/ \E k \in Children : ApplyRefused(k)
             \/ CallFails \/ StatusFails
      PROVE  Goal
  BY <1>1, <1>7 DEF ApplyRefused, CallFails, StatusFails, Fail, configVars, childVars
<1>8. ASSUME Restart PROVE Goal
  <2>1. worker' = Idle /\ configs' = configs /\ children' = children
    BY <1>8 DEF Restart
  <2>2. news' = news
    BY <1>8 DEF Restart, Quiet
  <2>3. unseen' = unseen
    BY <1>8 DEF Restart, Quiet, TypeInv, TypeOK
  <2> QED BY <1>1, <2>1, <2>2, <2>3
<1>9. ASSUME NEW k \in Children, Apply(k) \/ deleteIfExists(k) PROVE Goal
  BY <1>9, QuietReconcile
<1>10. ASSUME UpdateStatus PROVE Goal
  BY <1>10, QuietUpdateStatus
<1> HIDE DEF Goal
<1>11. Goal
  BY <1>2, <1>3, <1>4, <1>5, <1>6, <1>7, <1>8, <1>9, <1>10
  DEF Outside, ResyncNext, Next, KubernetesNext, ControllerNext, ReconcileStep
<1> QED BY <1>11 DEF Goal

\* Once quiet, the controller stays quiet: it goes on reconciling after resyncs,
\* restarts and failed calls, and writes neither a child nor a status until users
\* or the pods' readiness change something.
THEOREM QuietStaysQuiet ==
    Spec \/ FairSpec =>
        [][\A c \in Configs : Quiet(c) =>
              Outside \/ (Quiet(c)' /\ UNCHANGED <<configs, news, children>>)]_vars
<1>1. TypeInv /\ CopyInv /\ StatusInv /\ PlainInv /\ [ResyncNext]_vars =>
        [\A c \in Configs : Quiet(c) =>
              Outside \/ (Quiet(c)' /\ UNCHANGED <<configs, news, children>>)]_vars
  <2> SUFFICES ASSUME TypeInv, CopyInv, StatusInv, PlainInv, ResyncNext
               PROVE  \A c \in Configs : Quiet(c) =>
                         Outside \/ (Quiet(c)' /\ UNCHANGED <<configs, news, children>>)
    OBVIOUS
  <2> QED BY QuietStep DEF StatusInv
<1> QED BY <1>1, TypeAlways, CopyAlways, StatusAlways, PlainAlways, SpecsResync, PTL
        DEF ResyncSpec

\* It gets there: where users touch no Service, a controller that comes to rest
\* without a failed call is quiet.
THEOREM RestIsQuiet ==
    ASSUME Tamperable \subseteq Watched
    PROVE  Spec \/ FairSpec =>
              [](AtRest /\ faults = 0 =>
                    \A c \in Configs : configs[c].exists => Quiet(c))
<1>1. ASSUME TypeInv, SettledInv, StatusInv, AtRest, faults = 0,
             NEW c \in Configs, configs[c].exists
      PROVE  Quiet(c)
  <2>1. \A d \in Configs : configs[d].exists => \A k \in Children : Correct(k, d)
    BY <1>1, RestIsReconciled DEF RestMeansReconciled, Kept
  <2>2. StatusRight(c)
    BY <1>1, RestIsTrue DEF StatusTruthful
  <2>3. ASSUME NEW d \in Configs \ {c}, configs[d].exists PROVE FALSE
    <3>1. "su" \in Children /\ \A s \in Specs : Wanted("su", s)
      BY DEF Children, Watched, Wanted
    <3>2. configs[c].spec \in Specs /\ configs[d].spec \in Specs
      BY <1>1 DEF TypeInv, TypeOK
    <3>3. /\ children["su"].owner = [name |-> c, gen |-> configs[c].gen]
          /\ children["su"].owner = [name |-> d, gen |-> configs[d].gen]
      BY <1>1, <2>1, <2>3, <3>1, <3>2 DEF Correct
    <3>4. children["su"].owner.name = c /\ children["su"].owner.name = d
      BY <3>3
    <3> QED BY <3>4
  <2> QED BY <1>1, <2>1, <2>2, <2>3 DEF Quiet, QuietWorker, Working, AtRest
<1>2. TypeInv /\ SettledInv /\ StatusInv =>
          (AtRest /\ faults = 0 => \A c \in Configs : configs[c].exists => Quiet(c))
  BY <1>1
<1> QED BY <1>2, TypeAlways, SettledAlways, StatusAlways, SpecsResync, PTL

-----------------------------------------------------------------------------
(***************************************************************************)
(* Refinement: the controller implements Reconciliation.  What somebody    *)
(* sees who knows neither caches nor queue is Demand, Objects and Todo.    *)
(***************************************************************************)
LEMMA DemandFacts ==
    ASSUME NEW c \in Configs
    PROVE  /\ Demand[c].exists = configs[c].exists
           /\ Demand[c].gen = configs[c].gen
           /\ Demand[c].spec = configs[c].spec
BY DEF Demand

Same(c) == /\ configs'[c].exists = configs[c].exists
           /\ configs'[c].gen = configs[c].gen
           /\ configs'[c].spec = configs[c].spec

LEMMA DemandSame == (\A c \in Configs : Same(c)) => Demand' = Demand
BY DEF Demand, Same

\* The object that a child is.
ObjectOf(x) == IF x.exists THEN {[owner |-> x.owner, conf |-> x.conf]} ELSE {}

LEMMA ObjectsAre == Objects = [k \in Children |-> ObjectOf(children[k])]
BY DEF Objects, ObjectOf

\* Who writes one child changes one object.
LEMMA ObjectsWritten ==
    ASSUME TypeInv, NEW k \in Children, NEW obj, WriteChild(k, obj)
    PROVE  Objects' = [Objects EXCEPT ![k] = ObjectOf(obj)]
<1>1. children'[k] = obj /\ \A j \in Children \ {k} : children'[j] = children[j]
  BY ChildWritten
<1>2. Objects' = [j \in Children |-> ObjectOf(children'[j])]
  BY ObjectsAre DEF ObjectOf, Objects
<1>3. \A j \in Children : ObjectOf(children'[j]) =
                             IF j = k THEN ObjectOf(obj) ELSE ObjectOf(children[j])
  BY <1>1
<1> QED BY <1>2, <1>3, ObjectsAre

LEMMA AskedFor ==
    ASSUME NEW s \in Specs, NEW k \in Children
    PROVE  AsksFor[s][k] = IF Wanted(k, s) THEN {Desired(k, s)} ELSE {}
BY DEF AsksFor

\* A child that is fine is the object that is asked for, and no other.
LEMMA FineIsAsked ==
    ASSUME TypeInv, NEW c \in Configs, NEW k \in Children, Fine(k, c)
    PROVE  Promise!Mine(k, c) = Promise!Asked(k, c)
<1> DEFINE s == configs[c].spec
<1>1. /\ s \in Specs /\ Demand[c].spec = s /\ Demand[c].gen = configs[c].gen
      /\ Objects[k] = ObjectOf(children[k])
  BY DemandFacts, ObjectsAre DEF TypeInv, TypeOK
<1>2. AsksFor[s][k] = IF Wanted(k, s) THEN {Desired(k, s)} ELSE {}
  BY <1>1, AskedFor
<1>3. CASE Wanted(k, s)
  <2> DEFINE x == Promise!Object(c, configs[c].gen, Desired(k, s))
  <2>1. /\ children[k].exists /\ children[k].conf = Desired(k, s)
        /\ children[k].owner.name = c /\ children[k].owner.gen = configs[c].gen
    BY <1>3 DEF Fine
  <2>2. children[k].owner \in Owner
    BY <2>1, ExistingChild DEF TypeInv, Child
  <2>3. children[k].owner = [name |-> c, gen |-> configs[c].gen]
    BY <2>1, <2>2 DEF Owner
  <2>4. ObjectOf(children[k]) = {x} /\ x.owner.name = c
    BY <2>1, <2>3 DEF ObjectOf, Promise!Object
  <2>5. Promise!Mine(k, c) = {x}
    BY <1>1, <2>4 DEF Promise!Mine
  <2>6. Promise!Asked(k, c) = {x}
    BY <1>1, <1>2, <1>3 DEF Promise!Asked
  <2> QED BY <2>5, <2>6
<1>4. CASE ~Wanted(k, s)
  <2>1. Promise!Asked(k, c) = {}
    BY <1>1, <1>2, <1>4 DEF Promise!Asked
  <2>2. ~children[k].exists \/ children[k].owner.name # c
    BY <1>4 DEF Fine
  <2>3. Promise!Mine(k, c) = {}
    BY <1>1, <2>2 DEF Promise!Mine, ObjectOf
  <2> QED BY <2>1, <2>3
<1> QED BY <1>3, <1>4

\* A DeviceConfig that nobody has anything to do for, but perhaps to write its
\* status, is right.
LEMMA SettledIsRight ==
    ASSUME TypeInv, SettledInv, NEW c \in Configs, ~Pending(c), ~WorksFor(c, Children)
    PROVE  Promise!Right(c)
<1> SUFFICES ASSUME configs[c].exists, NEW k \in Kept
             PROVE  Promise!Mine(k, c) = Promise!Asked(k, c)
  BY DemandFacts DEF Promise!Right
<1>1. k \in Children
  BY DEF Kept, Children
<1>2. Fine(k, c)
  BY <1>1, WorkIsWorking DEF SettledInv
<1> QED BY <1>1, <1>2, FineIsAsked

LEMMA GoneIsRight ==
    ASSUME NEW c \in Configs, ~configs[c].exists
    PROVE  Promise!Right(c)
BY DemandFacts DEF Promise!Right

\* The worker has a name of its own, and that one has something to be done.
LEMMA WorkerIsTodo == TypeInv /\ Working => worker.owner.name \in Todo
BY DEF TypeInv, Working, Todo

\* Whoever has something to be done keeps it, or was right: that is a Settle.
LEMMA Settles ==
    ASSUME \A c \in Configs : Same(c), Objects' = Objects,
           \A c \in Configs : c \in Todo => c \in Todo' \/ Promise!Right(c)
    PROVE  Promise!Settle
<1>1. Demand' = Demand
  BY DemandSame
<1>2. Todo' \in SUBSET Configs /\ Todo \subseteq Configs
  BY DEF Todo
<1> QED BY <1>1, <1>2 DEF Promise!Settle

\* What is to be done after a child was written: those who hear of it are added.
LEMMA TodoWritten ==
    ASSUME TypeInv, NEW k \in Children, NEW obj, WriteChild(k, obj),
           UNCHANGED <<news, queue>>, worker'.owner = worker.owner,
           (worker'.pc # "idle") <=> (worker.pc # "idle")
    PROVE  Todo' = IF k \in Watched /\ obj # children[k]
                   THEN Todo \cup (Hear(k, obj) \cap Configs) ELSE Todo
<1>1. \A j \in Children : unseen'[j] = IF j = k /\ obj # children[k]
                                       THEN unseen[j] \cup Hear(k, obj) ELSE unseen[j]
  BY DEF WriteChild, TypeInv, TypeOK
<1>2. Watched \subseteq Children
  BY DEF Children
<1> HIDE DEF Hear
<1>3. ASSUME NEW c
      PROVE  Pending(c)' <=> \/ Pending(c)
                             \/ k \in Watched /\ obj # children[k] /\ c \in Hear(k, obj)
  BY <1>1, <1>2 DEF Pending
<1>4. Todo' = {c \in Configs : Pending(c)' \/ (worker'.pc # "idle" /\ worker'.owner.name = c)}
  BY DEF Todo, Pending
<1> QED BY <1>3, <1>4 DEF Todo

\* Only the owner hears of a child that stays with him or goes.
LEMMA OwnerHears ==
    ASSUME NEW k \in Children, NEW obj, children[k].exists,
           obj.exists => obj.owner.name = children[k].owner.name
    PROVE  Hear(k, obj) = {children[k].owner.name}
BY DEF Hear

\* Child k is there, and changes: the owner it has had has something to be done,
\* if k is watched.
LEMMA Changes ==
    ASSUME TypeInv, NEW k \in Children, NEW obj, WriteChild(k, obj),
           children[k].exists, obj # children[k],
           obj.exists => obj.owner.name = children[k].owner.name,
           UNCHANGED <<configs, news, queue>>, worker'.owner = worker.owner,
           (worker'.pc # "idle") <=> (worker.pc # "idle"),
           NEW x, x = [owner |-> children[k].owner, conf |-> children[k].conf],
           \/ k \in Watched
           \/ k \notin Kept
           \/ ~Promise!Lives(x.owner)
           \/ AsksFor[Demand[x.owner.name].spec][k] = {}
           \/ x.owner.name \in Todo
    PROVE  /\ x \in Objects[k]
           /\ Promise!Change(k, x, ObjectOf(obj))
<1> DEFINE n == children[k].owner.name
<1>1. n \in Configs /\ x.owner.name = n
  BY Gens
<1>2. Hear(k, obj) \cap Configs = {n}
  BY <1>1, OwnerHears
<1>3. Todo' = IF k \in Watched THEN Todo \cup {n} ELSE Todo
  BY <1>2, TodoWritten
<1>4. Demand' = Demand
  BY DemandSame DEF Same
<1>5. Objects' = [Objects EXCEPT ![k] = ObjectOf(obj)]
  BY ObjectsWritten
<1>6. x \in Objects[k]
  BY ObjectsAre DEF ObjectOf
<1>7. x.owner.name \in Todo' \/ ~(k \in Kept /\ Promise!Lives(x.owner)
                                   /\ AsksFor[Demand[x.owner.name].spec][k] # {})
  BY <1>1, <1>3
<1> QED BY <1>1, <1>3, <1>4, <1>5, <1>6, <1>7 DEF Promise!Change

LEMMA UserStep ==
    ASSUME TypeInv, NEW c \in Configs, CreateConfig(c) \/ EditConfig(c) \/ DeleteConfig(c)
    PROVE  Promise!Demand(c)
<1>1. PICK cfg \in Config : WriteConfig(c, cfg) /\ configs[c].gen <= cfg.gen
  BY UserWrites
<1>2. /\ configs'[c] = cfg
      /\ \A d \in Configs \ {c} : configs'[d] = configs[d]
      /\ news' = news \cup {c}
      /\ worker'.pc = worker.pc
      /\ worker'.owner = worker.owner
      /\ UNCHANGED <<children, unseen, queue>>
  BY <1>1, ConfigWritten DEF childVars
<1>3. Objects' = Objects
  BY <1>2 DEF Objects
<1>4. Todo' = Todo \cup {c}
  BY <1>2 DEF Todo, Pending
<1> DEFINE new == [exists |-> cfg.exists, gen |-> cfg.gen, spec |-> cfg.spec]
<1>5. Demand' = [Demand EXCEPT ![c] = new]
  <2>1. \A d \in Configs : Demand'[d] = IF d = c THEN new ELSE Demand[d]
    BY <1>2 DEF Demand
  <2>2. Demand' = [d \in Configs |-> Demand'[d]] /\ Demand = [d \in Configs |-> Demand[d]]
    BY DEF Demand
  <2> HIDE DEF new
  <2> QED BY <2>1, <2>2
<1>6. cfg.exists \in BOOLEAN /\ cfg.gen \in Demand[c].gen..MaxGen /\ cfg.spec \in Specs
  BY <1>1, DemandFacts, Bounds DEF Config, TypeInv, TypeOK
<1> QED BY <1>3, <1>4, <1>5, <1>6 DEF Promise!Demand

LEMMA DisturbedStep ==
    ASSUME TypeInv, NEW k \in Children, Tamper(k) \/ Readiness(k) \/ Collect(k)
    PROVE  Promise!Tamper(k) \/ Promise!Collect(k) \/ Promise!Settle
<1>1. PICK obj \in Child \cup {NoChild} :
         /\ WriteChild(k, obj)
         /\ obj # children[k]
         /\ children[k].exists
         /\ obj.exists => obj.owner = children[k].owner
         /\ \/ k \in Tamperable
            \/ Garbage(k) /\ ~obj.exists
            \/ k \in Daemons /\ obj.exists /\ obj.conf = children[k].conf
         /\ UNCHANGED <<configVars, queue, worker, faults>>
  BY Disturbed
<1>2. UNCHANGED <<configs, news, queue, worker>>
  BY <1>1 DEF configVars
<1> DEFINE x == [owner |-> children[k].owner, conf |-> children[k].conf]
<1>3. CASE k \in Tamperable
  <2>1. k \in Watched \/ k \notin Kept
    BY <1>3 DEF Kept
  <2>2. x \in Objects[k] /\ Promise!Change(k, x, ObjectOf(obj))
    BY <1>1, <1>2, <2>1, Changes
  <2>3. CASE ~obj.exists
    BY <1>3, <2>2, <2>3 DEF Promise!Tamper, ObjectOf
  <2>4. CASE obj.exists
    <3>1. obj.conf \in Confs
      <4>1. \A y \in Child : y.conf \in Confs
        BY DEF Child
      <4>2. obj # NoChild
        BY <2>4 DEF NoChild
      <4> QED BY <4>1, <4>2
    <3>2. ObjectOf(obj) = {[x EXCEPT !.conf = obj.conf]}
      BY <1>1, <2>4 DEF ObjectOf
    <3> QED BY <1>3, <2>2, <3>1, <3>2 DEF Promise!Tamper
  <2> QED BY <2>3, <2>4
<1>4. CASE Garbage(k) /\ ~obj.exists
  <2>1. children[k].owner.name \in Configs
    BY <1>1, Gens
  <2>2. ~Promise!Lives(x.owner)
    BY <1>4, <2>1, DemandFacts DEF Garbage, Promise!Lives
  <2>3. x \in Objects[k] /\ Promise!Change(k, x, ObjectOf(obj))
    BY <1>1, <1>2, <2>2, Changes
  <2> HIDE DEF x
  <2> QED BY <1>4, <2>2, <2>3 DEF Promise!Collect, ObjectOf
<1>5. CASE k \in Daemons /\ obj.exists /\ obj.conf = children[k].conf
  <2>1. ObjectOf(obj) = Objects[k]
    BY <1>1, <1>5, ObjectsAre DEF ObjectOf
  <2>2. Objects' = Objects
    BY <1>1, <2>1, ObjectsWritten, ObjectsAre
  <2>3. Todo \subseteq Todo'
    BY <1>1, <1>2, TodoWritten
  <2> QED BY <1>2, <2>2, <2>3, Settles DEF Same
<1> QED BY <1>1, <1>3, <1>4, <1>5

LEMMA ApplyStep ==
    ASSUME TypeInv, GenInv, NEW k \in Children, Apply(k)
    PROVE  \E c \in Configs : Promise!Write(k, c)
<1> DEFINE obj == [exists |-> TRUE, owner |-> worker.owner,
                   conf |-> Desired(k, worker.spec), ready |-> Ready(k)]
           n == worker.owner.name
           g == worker.owner.gen
           s == worker.spec
<1>1. /\ worker.pc = k /\ Call(k, obj) /\ Wanted(k, s)
      /\ children[k].exists => children[k].owner.name = n
      /\ obj.owner = worker.owner /\ obj.exists
      /\ ObjectOf(obj) = {[owner |-> worker.owner, conf |-> Desired(k, s)]}
  BY DEF Apply, Refused, ObjectOf
<1> HIDE DEF obj
<1>2. Working /\ n \in Todo /\ n \in Configs /\ s \in Specs
  BY <1>1, WorkerIsTodo DEF TypeInv, TypeOK, Working, Children, Watched, Daemons
<1>3. WriteChild(k, obj) /\ UNCHANGED <<configs, news, queue>>
  BY <1>1 DEF Call, configVars
<1>4. Demand' = Demand /\ Objects' = [Objects EXCEPT ![k] = ObjectOf(obj)]
  BY <1>3, DemandSame, ObjectsWritten DEF Same
<1>5. Todo' = Todo
  <2>1. Hear(k, obj) \subseteq {n}
    BY <1>1 DEF Hear
  <2>2. worker'.pc # "idle" /\ worker.pc # "idle" /\ worker'.owner = worker.owner
    BY <1>1, CallWorker DEF After, Children, Watched, Daemons
  <2> QED BY <1>2, <1>3, <2>1, <2>2, TodoWritten
<1>6. /\ g \in 0..Demand[n].gen
      /\ children[k].exists => children[k].owner.gen <= g
  <2>1. g \in Nat /\ configs[n].gen \in Nat /\ seen[n].gen \in Nat
    BY <1>2, Gens
  <2>2. g <= seen[n].gen /\ seen[n].gen <= configs[n].gen
    BY <1>2 DEF GenInv
  <2> QED BY <1>1, <1>2, <2>1, <2>2, DemandFacts DEF GenInv
<1>7. \A x \in Objects[k] : x.owner.name = n /\ x.owner.gen <= g
  BY <1>1, <1>6, ObjectsAre DEF ObjectOf
<1>8. worker.owner = [name |-> n, gen |-> g]
  <2>1. worker.owner \in Owner
    BY <1>2, WorkerOwner
  <2> QED BY <2>1 DEF Owner
<1>9. AsksFor[s][k] = {Desired(k, s)}
  BY <1>1, <1>2, AskedFor
<1>10. ObjectOf(obj) = {Promise!Object(n, g, a) : a \in AsksFor[s][k]}
  BY <1>1, <1>8, <1>9 DEF Promise!Object
<1>11. Promise!Write(k, n)
  BY <1>2, <1>4, <1>5, <1>6, <1>7, <1>9, <1>10 DEF Promise!Write
<1> QED BY <1>2, <1>11

\* The Service of another DeviceConfig goes with nobody hearing of it: that one has
\* lost the exporter before.
LEMMA DeleteStep ==
    ASSUME TypeInv, CopyInv, SettledInv, NEW k \in Children, deleteIfExists(k)
    PROVE  Promise!Remove(k) \/ Promise!Settle
<1>1. /\ worker.pc = k /\ Call(k, NoChild) /\ ~Wanted(k, worker.spec)
      /\ ~NoChild.exists /\ ObjectOf(NoChild) = {}
  BY DEF deleteIfExists, NoChild, ObjectOf
<1>2. WriteChild(k, NoChild) /\ UNCHANGED <<configs, news, queue>>
  BY <1>1 DEF Call, configVars
<1>3. worker'.pc # "idle" /\ worker.pc # "idle" /\ worker'.owner = worker.owner
  BY <1>1, CallWorker DEF After, Children, Watched, Daemons
<1>4. Working /\ worker.owner.name \in Todo /\ worker.spec \in Specs
  BY <1>3, WorkerIsTodo DEF TypeInv, TypeOK, Working
<1>5. CASE ~children[k].exists
  <2>1. NoChild = children[k]
    BY <1>5, ExistingChild DEF TypeInv
  <2>2. Objects' = Objects
    BY <1>2, <2>1, ObjectsWritten, ObjectsAre
  <2>3. Todo' = Todo
    BY <1>2, <1>3, <2>1, TodoWritten
  <2> QED BY <1>2, <2>2, <2>3, Settles DEF Same
<1>6. CASE children[k].exists
  <2> DEFINE n == children[k].owner.name
             x == [owner |-> children[k].owner, conf |-> children[k].conf]
  <2>1. n \in Configs /\ NoChild # children[k]
    BY <1>1, <1>6, Gens
  <2>2. \/ k \in Watched
        \/ ~Promise!Lives(x.owner)
        \/ AsksFor[Demand[x.owner.name].spec][k] = {}
        \/ x.owner.name \in Todo
    <3> SUFFICES ASSUME k \notin Watched, Promise!Lives(x.owner),
                        AsksFor[Demand[n].spec][k] # {}
                 PROVE  n \in Todo
      OBVIOUS
    <3>1. k = "svc"
      BY DEF Children
    <3>2. configs[n].exists /\ Demand[n].spec = configs[n].spec /\ configs[n].spec \in Specs
      BY <2>1, DemandFacts DEF Promise!Lives, TypeInv, TypeOK
    <3>3. Wanted("me", configs[n].spec)
      BY <3>1, <3>2, AskedFor DEF Wanted
    <3>4. ~children["me"].exists
      BY <1>1, <3>1 DEF CopyInv, ServiceLast, Wanted
    <3>5. "me" \in Kept /\ ~Fine("me", n) /\ ~WorksFor(n, UpTo("me"))
      BY <1>1, <3>1, <3>3, <3>4 DEF Kept, Watched, Daemons, Fine, WorksFor, UpTo
    <3>6. Pending(n)
      BY <2>1, <3>2, <3>5 DEF SettledInv
    <3> QED BY <2>1, <3>6 DEF Todo
  <2>3. x \in Objects[k] /\ Promise!Change(k, x, ObjectOf(NoChild))
    BY <1>1, <1>2, <1>3, <1>6, <2>1, <2>2, Changes
  <2>4. AsksFor[worker.spec][k] = {}
    BY <1>1, <1>4, AskedFor
  <2> HIDE DEF x
  <2> QED BY <1>1, <1>4, <2>3, <2>4 DEF Promise!Remove
<1> QED BY <1>5, <1>6

LEMMA ReconciliationStep ==
    ASSUME TypeInv, GenInv, CopyInv, SettledInv, [ResyncNext]_vars
    PROVE  [Promise!Next]_(Promise!vars)
<1> DEFINE Step == Promise!Next \/ UNCHANGED Promise!vars
<1>s. Promise!Settle => Step
  BY DEF Promise!Next
<1>1. ASSUME NEW c \in Configs, CreateConfig(c) \/ EditConfig(c) \/ DeleteConfig(c)
      PROVE  Step
  BY <1>1, UserStep DEF Promise!Next
<1>2. ASSUME NEW k \in Children, Tamper(k) \/ Readiness(k) \/ Collect(k) PROVE Step
  BY <1>2, DisturbedStep DEF Promise!Next
<1>3. ASSUME NEW k \in Children, DeliverChild(k) PROVE Step
  <2>1. /\ UNCHANGED <<configs, news, children, worker>> /\ queue \subseteq queue'
        /\ k \in Watched => unseen[k] \subseteq queue'
        /\ \A j \in Children \ {k} : unseen'[j] = unseen[j]
    BY <1>3 DEF DeliverChild, configVars, TypeInv, TypeOK
  <2>2. \A c \in Configs : Pending(c) => Pending(c)'
    BY <2>1 DEF Pending, Children
  <2>3. \A c \in Configs : c \in Todo => c \in Todo'
    BY <2>1, <2>2 DEF Todo, Pending
  <2>4. Objects' = Objects
    BY <2>1 DEF Objects
  <2> HIDE DEF Step
  <2> QED BY <1>s, <2>1, <2>3, <2>4, Settles DEF Same
<1>4. ASSUME NEW c \in Configs, Deliver(c) PROVE Step
  <2>1. /\ UNCHANGED <<configs, children, unseen, worker>>
        /\ news' = news \ {c} /\ queue' = queue \cup {c}
    BY <1>4 DEF Deliver, childVars
  <2>2. \A d \in Configs : d \in Todo => d \in Todo'
    BY <2>1 DEF Todo, Pending
  <2>3. Objects' = Objects
    BY <2>1 DEF Objects
  <2> HIDE DEF Step
  <2> QED BY <1>s, <2>1, <2>2, <2>3, Settles DEF Same
<1>5. ASSUME NEW c \in Configs, Start(c) PROVE Step
  <2>1. /\ UNCHANGED <<configs, children, unseen, news>>
        /\ queue' = queue \ {c} /\ worker.pc = "idle"
    BY <1>5 DEF Start, configVars, childVars
  <2>2. Objects' = Objects
    BY <2>1 DEF Objects
  <2>3. \A d \in Configs : d # c /\ d \in Todo => d \in Todo'
    BY <2>1 DEF Todo, Pending
  <2>4. c \in Todo' \/ Promise!Right(c)
    <3>1. CASE seen[c].exists
      <4>1. worker'.pc = "dp" /\ worker'.owner.name = c
        BY <1>5, <3>1 DEF Start
      <4> QED BY <4>1 DEF Todo
    <3>2. CASE c \in news
      BY <2>1, <3>2 DEF Todo, Pending
    <3>3. CASE ~seen[c].exists /\ c \notin news
      BY <3>3, GoneIsRight DEF CopyInv, SeenAgrees
    <3> QED BY <3>1, <3>2, <3>3
  <2> HIDE DEF Step
  <2> QED BY <1>s, <2>1, <2>2, <2>3, <2>4, Settles DEF Same
<1>6. ASSUME NEW k \in Children, Apply(k) PROVE Step
  BY <1>6, ApplyStep DEF Promise!Next
<1>7. ASSUME NEW k \in Children, deleteIfExists(k) PROVE Step
  BY <1>7, DeleteStep DEF Promise!Next
<1>8. ASSUME \/ \E k \in Children : ApplyRefused(k)
             \/ CallFails
      PROVE  Step
  <2>1. UNCHANGED <<configs, news, children, unseen>> /\ queue' = queue \cup {worker.owner.name}
    BY <1>8 DEF ApplyRefused, CallFails, Fail, configVars, childVars
  <2>2. \A c \in Configs : c \in Todo => c \in Todo'
    BY <2>1 DEF Todo, Pending
  <2>3. Objects' = Objects
    BY <2>1 DEF Objects
  <2> HIDE DEF Step
  <2> QED BY <1>s, <2>1, <2>2, <2>3, Settles DEF Same
<1>9. ASSUME UpdateStatus \/ StatusFails PROVE Step
  <2>1. /\ UNCHANGED <<children, unseen, queue>> /\ news \subseteq news'
        /\ worker.pc = "status"
    BY <1>9 DEF UpdateStatus, StatusFails, configVars, childVars
  <2>2. \A c \in Configs : Same(c)
    BY <1>9 DEF UpdateStatus, StatusFails, configVars, TypeInv, TypeOK, Same
  <2>3. Objects' = Objects
    BY <2>1 DEF Objects
  <2>4. ASSUME NEW c \in Configs PROVE c \in Todo' \/ Promise!Right(c)
    <3>1. CASE Pending(c)
      BY <2>1, <3>1 DEF Todo, Pending
    <3>2. CASE ~Pending(c)
      <4>1. ~WorksFor(c, Children)
        BY <2>1 DEF WorksFor, Children, Watched, Daemons
      <4> QED BY <3>2, <4>1, SettledIsRight
    <3> QED BY <3>1, <3>2
  <2> HIDE DEF Step
  <2> QED BY <1>s, <2>2, <2>3, <2>4, Settles
<1>10. ASSUME Restart PROVE Step
  <2>1. UNCHANGED <<configs, children>> /\ queue' = {c \in Configs : configs[c].exists}
    BY <1>10 DEF Restart
  <2>2. Objects' = Objects
    BY <2>1 DEF Objects
  <2>3. ASSUME NEW c \in Configs PROVE c \in Todo' \/ Promise!Right(c)
    BY <2>1, GoneIsRight DEF Todo, Pending
  <2> HIDE DEF Step
  <2> QED BY <1>s, <2>1, <2>2, <2>3, Settles DEF Same
<1>11. ASSUME NEW c \in Configs, Resync(c) PROVE Step
  <2>1. /\ UNCHANGED <<configs, news, children, unseen, worker>> /\ queue \subseteq queue'
    BY <1>11 DEF Resync, configVars, childVars
  <2>2. \A d \in Configs : d \in Todo => d \in Todo'
    BY <2>1 DEF Todo, Pending
  <2>3. Objects' = Objects
    BY <2>1 DEF Objects
  <2> HIDE DEF Step
  <2> QED BY <1>s, <2>1, <2>2, <2>3, Settles DEF Same
<1>12. ASSUME UNCHANGED vars PROVE Step
  <2>1. UNCHANGED <<configs, news, children, unseen, queue, worker>>
    BY <1>12 DEF vars, configVars, childVars
  <2>2. \A d \in Configs : d \in Todo => d \in Todo'
    BY <2>1 DEF Todo, Pending
  <2>3. Objects' = Objects
    BY <2>1 DEF Objects
  <2> HIDE DEF Step
  <2> QED BY <1>s, <2>1, <2>2, <2>3, Settles DEF Same
<1> HIDE DEF Step
<1>13. Step
  BY <1>1, <1>2, <1>3, <1>4, <1>5, <1>6, <1>7, <1>8, <1>9, <1>10, <1>11, <1>12
  DEF ResyncNext, Next, UserNext, KubernetesNext, ControllerNext, ReconcileStep
<1> QED BY <1>13 DEF Step

\* Every behaviour of the controller, with resync or without, is seen from outside
\* a behaviour of Reconciliation.
THEOREM ImplementsPromise == Spec \/ FairSpec => ImplementsReconciliation
<1>1. Init => Promise!Init
  <2> SUFFICES ASSUME Init PROVE Promise!Init
    OBVIOUS
  <2>1. Demand \in [Configs -> [exists: {FALSE}, gen: {0}, spec: Specs]]
    BY AnySpecIsSpec DEF Init, Demand
  <2>2. Objects = [k \in Children |-> {}]
    BY DEF Init, Objects, NoChild
  <2>3. Todo = {}
    BY DEF Init, Todo, Pending, Idle, Children
  <2> QED BY <2>1, <2>2, <2>3 DEF Promise!Init
<1>2. TypeInv /\ GenInv /\ CopyInv /\ SettledInv /\ [ResyncNext]_vars
      => [Promise!Next]_(Promise!vars)
  BY ReconciliationStep
<1> QED BY <1>1, <1>2, TypeAlways, GenAlways, CopyAlways, SettledAlways, SpecsResync, PTL
        DEF ResyncSpec, ImplementsReconciliation, Promise!Spec

-----------------------------------------------------------------------------
(***************************************************************************)
(* What Reconciliation promises, proved from its own steps: in this part   *)
(* nothing of the controller is used but what its specs ask for.           *)
(***************************************************************************)
PromiseInv == Promise!TypeOK /\ Promise!OneObject /\ Promise!Reconciled

ObjectType == [owner: [name: Configs, gen: 0..MaxGen], conf: Confs]

\* A spec asks for one content of a child, or none.
LEMMA AsksOne ==
    ASSUME NEW s \in Specs, NEW k \in Children
    PROVE  AsksFor[s][k] \subseteq Confs /\ \A a, b \in AsksFor[s][k] : a = b
<1>1. Desired(k, s) \in Confs
  BY DEF Confs
<1>2. AsksFor[s][k] = {Desired(k, s)} \/ AsksFor[s][k] = {}
  BY AskedFor
<1> QED BY <1>1, <1>2

LEMMA PromiseInit == Promise!Init => PromiseInv
<1> SUFFICES ASSUME Promise!Init PROVE PromiseInv
  OBVIOUS
<1>1. Promise!TypeOK
  <2>1. [exists: {FALSE}, gen: {0}, spec: Specs]
           \subseteq [exists: BOOLEAN, gen: 0..MaxGen, spec: Specs]
    <3>1. {0} \subseteq 0..MaxGen /\ {FALSE} \subseteq BOOLEAN
      BY Bounds
    <3>2. \A E, G : {0} \subseteq G /\ {FALSE} \subseteq E =>
             [exists: {FALSE}, gen: {0}, spec: Specs] \subseteq [exists: E, gen: G, spec: Specs]
      OBVIOUS
    <3> QED BY <3>1, <3>2
  <2>2. Demand \in [Configs -> [exists: BOOLEAN, gen: 0..MaxGen, spec: Specs]]
    BY <2>1 DEF Promise!Init
  <2> QED BY <2>2 DEF Promise!Init, Promise!TypeOK
<1>2. Promise!OneObject
  BY DEF Promise!Init, Promise!OneObject
<1>3. Promise!Reconciled
  BY DEF Promise!Init, Promise!Reconciled, Promise!Right
<1> QED BY <1>1, <1>2, <1>3 DEF PromiseInv

\* Right looks at one DeviceConfig and its children.
LEMMA RightKept ==
    ASSUME NEW c \in Configs, Promise!Right(c), Demand'[c] = Demand[c],
           \A k \in Kept : Promise!Mine(k, c)' = Promise!Mine(k, c)
    PROVE  Promise!Right(c)'
<1>1. \A k \in Kept : Promise!Asked(k, c)' = Promise!Asked(k, c)
  BY DEF Promise!Asked
<1> QED BY <1>1 DEF Promise!Right

LEMMA PromiseDemand ==
    ASSUME PromiseInv, NEW c \in Configs, Promise!Demand(c)
    PROVE  PromiseInv'
<1>1. PICK e \in BOOLEAN, g \in Demand[c].gen..MaxGen, s \in Specs :
         Demand' = [Demand EXCEPT ![c] = [exists |-> e, gen |-> g, spec |-> s]]
  BY DEF Promise!Demand
<1>2. Todo' = Todo \cup {c} /\ Objects' = Objects
  BY DEF Promise!Demand
<1>3. Demand \in [Configs -> [exists: BOOLEAN, gen: 0..MaxGen, spec: Specs]]
  BY DEF PromiseInv, Promise!TypeOK
<1>4. [exists |-> e, gen |-> g, spec |-> s]
         \in [exists: BOOLEAN, gen: 0..MaxGen, spec: Specs]
  BY <1>3, Bounds
<1>5. Promise!TypeOK'
  BY <1>1, <1>2, <1>3, <1>4 DEF PromiseInv, Promise!TypeOK
<1>6. Promise!OneObject'
  BY <1>2 DEF PromiseInv, Promise!OneObject
<1>7. ASSUME NEW d \in Configs, d \notin Todo' PROVE Promise!Right(d)'
  <2>1. d # c /\ Promise!Right(d)
    BY <1>2, <1>7 DEF PromiseInv, Promise!Reconciled
  <2>2. Demand'[d] = Demand[d]
    BY <1>1, <1>3, <2>1
  <2>3. \A k \in Kept : Promise!Mine(k, d)' = Promise!Mine(k, d)
    BY <1>2 DEF Promise!Mine
  <2> QED BY <2>1, <2>2, <2>3, RightKept
<1>8. Promise!Reconciled'
  BY <1>7 DEF Promise!Reconciled
<1> QED BY <1>5, <1>6, <1>8 DEF PromiseInv

\* One object of a name at most, before and after.
LEMMA PromiseObjects ==
    ASSUME PromiseInv, NEW k \in Children, NEW new \in SUBSET ObjectType,
           \A x, y \in new : x = y,
           Objects' = [Objects EXCEPT ![k] = new],
           Demand' = Demand, Todo' \subseteq Configs
    PROVE  /\ Promise!TypeOK'
           /\ Promise!OneObject'
           /\ Objects'[k] = new
           /\ \A j \in Children \ {k} : Objects'[j] = Objects[j]
<1>1. Objects \in [Children -> SUBSET ObjectType]
  BY DEF PromiseInv, Promise!TypeOK, ObjectType
<1>2. Objects'[k] = new /\ \A j \in Children \ {k} : Objects'[j] = Objects[j]
  BY <1>1
<1>3. Objects' \in [Children -> SUBSET ObjectType]
  BY <1>1
<1>4. Promise!TypeOK'
  BY <1>3 DEF PromiseInv, Promise!TypeOK, ObjectType
<1>5. Promise!OneObject'
  BY <1>2 DEF PromiseInv, Promise!OneObject
<1> QED BY <1>2, <1>4, <1>5

\* A write for c takes nothing from anybody else, and c has something to be done.
LEMMA PromiseWrite ==
    ASSUME PromiseInv, NEW k \in Children, NEW c \in Configs, Promise!Write(k, c)
    PROVE  PromiseInv'
<1>1. PICK g \in 0..Demand[c].gen, s \in Specs :
         /\ \A x \in Objects[k] : x.owner.name = c
         /\ Objects' = [Objects EXCEPT ![k] =
                           {Promise!Object(c, g, a) : a \in AsksFor[s][k]}]
  BY DEF Promise!Write
<1> DEFINE new == {Promise!Object(c, g, a) : a \in AsksFor[s][k]}
<1>2. c \in Todo /\ Demand' = Demand /\ Todo' = Todo /\ Todo \subseteq Configs
  BY DEF Promise!Write, PromiseInv, Promise!TypeOK
<1>3. /\ new \in SUBSET ObjectType
      /\ \A x, y \in new : x = y
      /\ \A x \in new : x.owner.name = c
  <2>1. Demand[c].gen \in 0..MaxGen
    BY DEF PromiseInv, Promise!TypeOK
  <2>2. g \in 0..MaxGen
    BY <2>1, Bounds
  <2> QED BY <2>2, AsksOne DEF Promise!Object, ObjectType
<1>4. Objects' = [Objects EXCEPT ![k] = new]
  BY <1>1
<1> HIDE DEF new
<1>5. /\ Promise!TypeOK' /\ Promise!OneObject' /\ Objects'[k] = new
      /\ \A j \in Children \ {k} : Objects'[j] = Objects[j]
  BY <1>2, <1>3, <1>4, PromiseObjects
<1>6. ASSUME NEW d \in Configs, d \notin Todo' PROVE Promise!Right(d)'
  <2>1. d # c /\ Promise!Right(d)
    BY <1>2, <1>6 DEF PromiseInv, Promise!Reconciled
  <2>2. ASSUME NEW j \in Kept PROVE Promise!Mine(j, d)' = Promise!Mine(j, d)
    <3>1. j # k => Objects'[j] = Objects[j]
      BY <1>5 DEF Kept, Children
    <3>2. j = k => Promise!Mine(j, d) = {} /\ Promise!Mine(j, d)' = {}
      BY <1>1, <1>3, <1>5, <2>1 DEF Promise!Mine
    <3> QED BY <3>1, <3>2 DEF Promise!Mine
  <2> QED BY <1>2, <2>1, <2>2, RightKept
<1>7. Promise!Reconciled'
  BY <1>6 DEF Promise!Reconciled
<1> QED BY <1>5, <1>7 DEF PromiseInv

\* A change of child k leaves its owner right, or with something to be done: what
\* is right has no child without asking for it, and none of an older incarnation.
LEMMA PromiseChange ==
    ASSUME PromiseInv, NEW k \in Children, NEW x \in Objects[k],
           NEW new \in SUBSET ObjectType,
           \A y, z \in new : y = z, \A y \in new : y.owner = x.owner,
           Promise!Change(k, x, new)
    PROVE  PromiseInv'
<1> DEFINE n == x.owner.name
<1>1. x \in ObjectType /\ n \in Configs
  BY DEF PromiseInv, Promise!TypeOK, ObjectType
<1>2. /\ Objects' = [Objects EXCEPT ![k] = new] /\ Demand' = Demand
      /\ Todo \subseteq Todo' /\ Todo' \subseteq Configs
      /\ (k \in Kept /\ Promise!Lives(x.owner) /\ AsksFor[Demand[n].spec][k] # {})
            => n \in Todo'
  BY <1>1 DEF Promise!Change, PromiseInv, Promise!TypeOK
<1>3. /\ Promise!TypeOK' /\ Promise!OneObject' /\ Objects'[k] = new
      /\ \A j \in Children \ {k} : Objects'[j] = Objects[j]
  BY <1>2, PromiseObjects
<1>4. Objects[k] = {x}
  BY DEF PromiseInv, Promise!OneObject
<1>5. ASSUME NEW d \in Configs, d \notin Todo' PROVE Promise!Right(d)'
  <2>1. Promise!Right(d)
    BY <1>2, <1>5 DEF PromiseInv, Promise!Reconciled
  <2>2. CASE d # n \/ k \notin Kept
    <3>1. ASSUME NEW j \in Kept PROVE Promise!Mine(j, d)' = Promise!Mine(j, d)
      <4>1. j # k => Objects'[j] = Objects[j]
        BY <1>3 DEF Kept, Children
      <4>2. j = k => Promise!Mine(j, d) = {} /\ Promise!Mine(j, d)' = {}
        BY <1>3, <1>4, <2>2 DEF Promise!Mine
      <4> QED BY <4>1, <4>2 DEF Promise!Mine
    <3> QED BY <1>2, <2>1, <3>1, RightKept
  <2>3. CASE d = n /\ k \in Kept /\ ~Demand[n].exists
    BY <1>2, <2>3 DEF Promise!Right
  <2>4. CASE d = n /\ k \in Kept /\ Demand[n].exists
    <3>1. x \in Promise!Asked(k, n)
      BY <1>4, <2>1, <2>4 DEF Promise!Right, Promise!Mine
    <3>2. x.owner.gen = Demand[n].gen /\ AsksFor[Demand[n].spec][k] # {}
      BY <3>1 DEF Promise!Asked, Promise!Object
    <3> QED BY <1>2, <1>5, <2>4, <3>2 DEF Promise!Lives
  <2> QED BY <2>2, <2>3, <2>4
<1>6. Promise!Reconciled'
  BY <1>5 DEF Promise!Reconciled
<1> QED BY <1>3, <1>6 DEF PromiseInv

LEMMA PromiseSettle ==
    ASSUME PromiseInv, Promise!Settle
    PROVE  PromiseInv'
<1>1. /\ Demand' = Demand /\ Objects' = Objects /\ Todo' \subseteq Configs
      /\ \A c \in Todo \ Todo' : Promise!Right(c)
  BY DEF Promise!Settle
<1>2. \A c \in Configs : c \notin Todo' => Promise!Right(c)
  BY <1>1 DEF PromiseInv, Promise!Reconciled
<1>3. \A c \in Configs : Promise!Right(c) => Promise!Right(c)'
  BY <1>1, RightKept DEF Promise!Mine
<1>4. Promise!Reconciled'
  BY <1>2, <1>3 DEF Promise!Reconciled
<1> QED BY <1>1, <1>4 DEF PromiseInv, Promise!TypeOK, Promise!OneObject

LEMMA PromiseStep ==
    ASSUME PromiseInv, [Promise!Next]_(Promise!vars)
    PROVE  PromiseInv'
<1>t. \A k \in Children : Objects[k] \subseteq ObjectType
  BY DEF PromiseInv, Promise!TypeOK, ObjectType
<1>1. ASSUME NEW k \in Children, NEW x \in Objects[k], Promise!Change(k, x, {})
      PROVE  PromiseInv'
  BY <1>1, PromiseChange
<1>2. ASSUME NEW k \in Children, NEW x \in Objects[k], NEW a \in Confs,
             Promise!Change(k, x, {[x EXCEPT !.conf = a]})
      PROVE  PromiseInv'
  <2> DEFINE y == [x EXCEPT !.conf = a]
  <2>1. x \in ObjectType
    BY <1>t
  <2>2. y \in ObjectType /\ y.owner = x.owner
    BY <2>1 DEF ObjectType
  <2> HIDE DEF y
  <2>3. {y} \in SUBSET ObjectType /\ (\A u, v \in {y} : u = v)
        /\ \A u \in {y} : u.owner = x.owner
    BY <2>2
  <2>4. Promise!Change(k, x, {y})
    BY <1>2 DEF y
  <2> QED BY <2>3, <2>4, PromiseChange
<1>3. ASSUME NEW k \in Children,
             Promise!Remove(k) \/ Promise!Tamper(k) \/ Promise!Collect(k)
      PROVE  PromiseInv'
  BY <1>1, <1>2, <1>3 DEF Promise!Remove, Promise!Tamper, Promise!Collect
<1>4. CASE UNCHANGED Promise!vars
  <2>1. Demand' = Demand /\ Objects' = Objects /\ Todo' = Todo
    BY <1>4 DEF Promise!vars
  <2>2. Promise!Settle
    BY <2>1 DEF Promise!Settle, PromiseInv, Promise!TypeOK
  <2> QED BY <2>2, PromiseSettle
<1> QED BY <1>3, <1>4, PromiseDemand, PromiseWrite, PromiseSettle DEF Promise!Next

\* The abstract specification keeps its word: whatever it does, a DeviceConfig for
\* which nothing is to be done has the children it asks for, and no others.
THEOREM PromiseIsKept == ImplementsReconciliation => []Promise!Reconciled
<1>1. PromiseInv /\ [Promise!Next]_(Promise!vars) => PromiseInv'
  BY PromiseStep
<1>2. PromiseInv => Promise!Reconciled
  BY DEF PromiseInv
<1> QED BY <1>1, <1>2, PromiseInit, PTL DEF ImplementsReconciliation, Promise!Spec

\* So does the controller, not only at rest: while it is busy with others, a
\* DeviceConfig that is in no queue and that no informer has news of is right.
THEOREM AlwaysReconciled == Spec \/ FairSpec => []Promise!Reconciled
BY ImplementsPromise, PromiseIsKept, PTL
=============================================================================
