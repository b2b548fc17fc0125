------------------------- MODULE DevicePluginProofs -------------------------
(***************************************************************************)
(* Proofs about the device-plugin server, for any number of plugin pods on *)
(* the node, overlapping or not, and any bounds on what stops and fails:   *)
(* type correctness, that stop() waits for nothing that cannot come, that  *)
(* pods which follow one another do not disturb each other, and that one   *)
(* which starts after all others keeps the kubelet's stream.               *)
(***************************************************************************)
EXTENDS DevicePlugin, TLAPS

\* A listener is open from Listen to Stop and no longer.
ListeningInv ==
    \A p \in listening : server[p] \in {"register", "called", "serve"}

\* What stop waits for does come: no ListAndWatch call runs outside a serving or
\* draining server, and while GracefulStop waits for the calls that run, each has
\* been told to return and no listener is left through which the kubelet, or
\* another pod's Register over the shared socket, could start a new one.
StopCanEnd ==
    \A p \in Plugins :
        /\ p \in handlers => server[p] \in {"register", "called", "serve", "drain"}
        /\ server[p] \in Stopping => p \in closed /\ p \notin listening

StopInv == TypeOK /\ ListeningInv /\ StopCanEnd

-----------------------------------------------------------------------------
(***************************************************************************)
(* Helpers.                                                                *)
(***************************************************************************)

LEMMA BudgetNat ==
    /\ DOMAIN Budget = {"stops", "listeners", "faults"}
    /\ \A b \in DOMAIN Budget : Budget[b] \in Nat
BY PluginAssumption DEF Budget

\* The list that ListAndWatch sends.
LEMMA DevicesType == Devices \subseteq {g \in Nat : g < GPUCount}
BY PluginAssumption DEF Devices, buildDevices

LEMMA SpendType ==
    ASSUME TypeOK, NEW b \in DOMAIN Budget, Spend(b)
    PROVE  (DOMAIN spent = DOMAIN Budget /\ \A c \in DOMAIN spent : spent[c] \in 0..Budget[c])'
<1>1. /\ DOMAIN spent' = DOMAIN Budget
      /\ \A c \in DOMAIN Budget : spent'[c] = IF c = b THEN spent[b] + 1 ELSE spent[c]
  BY DEF TypeOK, Spend
<1>2. spent[b] \in 0..Budget[b] /\ spent[b] < Budget[b]
  BY DEF TypeOK, Spend
<1>3. spent[b] + 1 \in 0..Budget[b]
  BY <1>2, BudgetNat
<1>4. \A c \in DOMAIN Budget : spent[c] \in 0..Budget[c]
  BY DEF TypeOK
<1> QED BY <1>1, <1>3, <1>4

-----------------------------------------------------------------------------
(***************************************************************************)
(* The invariant holds initially and every action preserves it.            *)
(***************************************************************************)

LEMMA StopInit == Init => StopInv
<1> SUFFICES ASSUME Init PROVE StopInv
  OBVIOUS
<1>1. /\ server \in [Plugins -> Outside \cup Running]
      /\ \A p \in Plugins : server[p] = "absent"
      /\ cancelled = {} /\ listening = {} /\ closed = {} /\ handlers = {}
      /\ socket \in Plugins \cup {Nobody}
  BY DEF Init, Outside
<1>2. kubelet \in [up: BOOLEAN, stream: Plugins \cup {Nobody},
                   devices: SUBSET {g \in Nat : g < GPUCount}]
  BY DEF Init, NoStream
<1>3. DOMAIN spent = DOMAIN Budget /\ \A b \in DOMAIN spent : spent[b] \in 0..Budget[b]
  <2>1. DOMAIN spent = DOMAIN Budget /\ \A b \in DOMAIN Budget : spent[b] = 0
    BY DEF Init
  <2> QED BY <2>1, BudgetNat
<1>4. TypeOK
  BY <1>1, <1>2, <1>3 DEF TypeOK
<1> QED BY <1>1, <1>4 DEF StopInv, ListeningInv, StopCanEnd, Stopping

\* A server goroutine that moves leaves the others where they are.
LEMMA GotoOne ==
    ASSUME StopInv, NEW p \in Plugins, NEW pc \in Outside \cup Running, Goto(p, pc)
    PROVE  /\ server' \in [Plugins -> Outside \cup Running]
           /\ server'[p] = pc
           /\ \A q \in Plugins \ {p} : server'[q] = server[q]
BY DEF StopInv, TypeOK, Goto

LEMMA PodStep ==
    ASSUME StopInv, NEW p \in Plugins,
           Boot(p) \/ Cancel(p) \/ Exit(p) \/ Crash(p) \/ StartFails(p)
    PROVE  StopInv'
<1> USE DEF StopInv, ListeningInv, StopCanEnd, Stopping
<1>1. CASE Boot(p)
  <2>1. /\ server[p] \in {"absent", "exited"}
        /\ Goto(p, "remove") /\ closed' = closed \ {p}
        /\ UNCHANGED <<cancelled, listening, handlers, socket, kubelet, spent>>
    BY <1>1 DEF Boot
  <2>2. /\ server' \in [Plugins -> Outside \cup Running] /\ server'[p] = "remove"
        /\ \A q \in Plugins \ {p} : server'[q] = server[q]
    BY <2>1, GotoOne DEF Running
  <2>3. TypeOK'
    BY <2>1, <2>2 DEF TypeOK
  <2>4. p \notin listening /\ p \notin handlers
    BY <2>1
  <2>5. listening \subseteq Plugins
    BY DEF TypeOK
  <2> QED BY <2>1, <2>2, <2>3, <2>4, <2>5
<1>2. CASE Cancel(p)
  BY <1>2 DEF Cancel, TypeOK, processVars
<1>3. ASSUME NEW pc \in {"gone", "exited"}, Die(p, pc),
             UNCHANGED spent \/ Spend("faults"), UNCHANGED <<cancelled, kubelet>>
      PROVE  StopInv'
  <2>1. /\ listening' = listening \ {p} /\ handlers' = handlers \ {p}
        /\ UNCHANGED <<closed, socket>> /\ Goto(p, pc)
    BY <1>3 DEF Die
  <2>2. /\ server' \in [Plugins -> Outside \cup Running] /\ server'[p] = pc
        /\ \A q \in Plugins \ {p} : server'[q] = server[q]
    BY <2>1, GotoOne DEF Outside
  <2>3. (DOMAIN spent = DOMAIN Budget /\ \A b \in DOMAIN spent : spent[b] \in 0..Budget[b])'
    <3>1. CASE UNCHANGED spent
      BY <3>1 DEF TypeOK, Budget
    <3>2. CASE Spend("faults")
      BY <3>2, BudgetNat, SpendType
    <3> QED BY <1>3, <3>1, <3>2
  <2>4. TypeOK'
    BY <1>3, <2>1, <2>2, <2>3 DEF TypeOK
  <2>5. listening \subseteq Plugins
    BY DEF TypeOK
  <2> QED BY <1>3, <2>1, <2>2, <2>4, <2>5
<1>4. CASE Exit(p)
  BY <1>3, <1>4 DEF Exit
<1>5. CASE Crash(p)
  BY <1>3, <1>5 DEF Crash
<1>6. CASE StartFails(p)
  BY <1>3, <1>6 DEF StartFails
<1> QED BY <1>1, <1>2, <1>4, <1>5, <1>6

\* stop(), from a failed register or a cancelled context.
LEMMA StopStep ==
    ASSUME StopInv, NEW p \in Plugins, Stop(p), UNCHANGED spent \/ Spend("faults")
    PROVE  StopInv'
<1> USE DEF StopInv, ListeningInv, StopCanEnd, Stopping
<1>1. /\ closed' = closed \cup {p} /\ listening' = listening \ {p}
      /\ socket' \in {socket, Nobody}
      /\ UNCHANGED <<cancelled, handlers, kubelet>> /\ Goto(p, "drain")
  BY DEF Stop
<1>2. /\ server' \in [Plugins -> Outside \cup Running] /\ server'[p] = "drain"
      /\ \A q \in Plugins \ {p} : server'[q] = server[q]
  BY <1>1, GotoOne DEF Running
<1>3. (DOMAIN spent = DOMAIN Budget /\ \A b \in DOMAIN spent : spent[b] \in 0..Budget[b])'
  <2>1. CASE UNCHANGED spent
    BY <2>1 DEF TypeOK, Budget
  <2>2. CASE Spend("faults")
    BY <2>2, BudgetNat, SpendType
  <2> QED BY <2>1, <2>2
<1>4. TypeOK'
  BY <1>1, <1>2, <1>3 DEF TypeOK
<1>5. listening \subseteq Plugins
  BY DEF TypeOK
<1> QED BY <1>1, <1>2, <1>4, <1>5

LEMMA ServerStepInv ==
    ASSUME StopInv, NEW p \in Plugins, ServerStep(p)
    PROVE  StopInv'
<1> USE DEF StopInv, ListeningInv, StopCanEnd, Stopping
<1>0. listening \subseteq Plugins /\ handlers \subseteq Plugins
  BY DEF TypeOK
<1>1. ASSUME NEW pc \in Running, Goto(p, pc), server[p] \notin Stopping,
             UNCHANGED <<cancelled, closed, spent>>,
             socket' \in Plugins \cup {Nobody},
             listening' \in SUBSET Plugins, handlers' \in SUBSET Plugins,
             kubelet' \in [up: BOOLEAN, stream: Plugins \cup {Nobody},
                           devices: SUBSET {g \in Nat : g < GPUCount}]
      PROVE  TypeOK'
  BY <1>1, GotoOne DEF TypeOK
<1>2. CASE RemoveStale(p)
  <2>1. /\ server[p] = "remove" /\ Goto(p, "listen") /\ socket' = Nobody
        /\ UNCHANGED <<cancelled, listening, closed, handlers, kubelet, spent>>
    BY <1>2 DEF RemoveStale, processVars
  <2>2. TypeOK'
    BY <1>1, <2>1 DEF TypeOK, Running
  <2>3. server'[p] = "listen" /\ \A q \in Plugins \ {p} : server'[q] = server[q]
    BY <2>1, GotoOne DEF Running
  <2> QED BY <1>0, <2>1, <2>2, <2>3
<1>3. CASE Listen(p)
  <2>1. /\ server[p] = "listen" /\ Goto(p, "register") /\ socket' = p
        /\ listening' = listening \cup {p}
        /\ UNCHANGED <<cancelled, closed, handlers, kubelet, spent>>
    BY <1>3 DEF Listen
  <2>2. TypeOK'
    BY <1>1, <2>1 DEF TypeOK, Running
  <2>3. server'[p] = "register" /\ \A q \in Plugins \ {p} : server'[q] = server[q]
    BY <2>1, GotoOne DEF Running
  <2> QED BY <1>0, <2>1, <2>2, <2>3
<1>4. CASE StartFails(p)
  BY <1>4, PodStep
<1>5. CASE Register(p)
  <2>1. /\ server[p] = "register" /\ Goto(p, "called")
        /\ socket \in listening /\ handlers' = handlers \cup {socket}
        /\ kubelet' = [kubelet EXCEPT !.stream = socket, !.devices = {}]
        /\ UNCHANGED <<cancelled, listening, closed, socket, spent>>
    BY <1>5 DEF Register, Live
  <2>2. TypeOK'
    BY <1>0, <1>1, <2>1 DEF TypeOK, Running
  <2>3. server'[p] = "called" /\ \A q \in Plugins \ {p} : server'[q] = server[q]
    BY <2>1, GotoOne DEF Running
  <2> QED BY <1>0, <2>1, <2>2, <2>3
<1>6. CASE Registered(p)
  <2>1. /\ server[p] = "called" /\ Goto(p, "serve")
        /\ UNCHANGED <<cancelled, listening, closed, handlers, socket, kubelet, spent>>
    BY <1>6 DEF Registered, processVars
  <2>2. TypeOK'
    BY <1>1, <2>1 DEF TypeOK, Running
  <2>3. server'[p] = "serve" /\ \A q \in Plugins \ {p} : server'[q] = server[q]
    BY <2>1, GotoOne DEF Running
  <2> QED BY <1>0, <2>1, <2>2, <2>3
<1>7. CASE RegisterFails(p) \/ StopOnCancel(p)
  BY <1>7, StopStep DEF RegisterFails, StopOnCancel
<1>8. CASE Drained(p)
  <2>1. /\ server[p] = "drain" /\ Goto(p, "unlink") /\ p \notin handlers
        /\ UNCHANGED <<cancelled, listening, closed, handlers, socket, kubelet, spent>>
    BY <1>8 DEF Drained, processVars
  <2>2. server'[p] = "unlink" /\ \A q \in Plugins \ {p} : server'[q] = server[q]
    BY <2>1, GotoOne DEF Running
  <2>3. TypeOK'
    BY <2>1, GotoOne DEF TypeOK, Running
  <2> QED BY <1>0, <2>1, <2>2, <2>3
<1>9. CASE Unlink(p)
  <2>1. /\ server[p] = "unlink" /\ Goto(p, "exited") /\ socket' = Nobody
        /\ UNCHANGED <<cancelled, listening, closed, handlers, kubelet, spent>>
    BY <1>9 DEF Unlink, processVars
  <2>2. server'[p] = "exited" /\ \A q \in Plugins \ {p} : server'[q] = server[q]
    BY <2>1, GotoOne DEF Outside
  <2>3. TypeOK'
    BY <2>1, GotoOne DEF TypeOK, Outside
  <2>4. p \notin handlers /\ p \notin listening
    BY <2>1
  <2> QED BY <1>0, <2>1, <2>2, <2>3, <2>4
<1> QED BY <1>2, <1>3, <1>4, <1>5, <1>6, <1>7, <1>8, <1>9 DEF ServerStep

\* The calls, the listener and the kubelet move; no server goroutine does.
LEMMA OtherStep ==
    ASSUME StopInv,
           \/ \E p \in Plugins : ListenerFails(p) \/ Send(p) \/ HandlerReturns(p)
           \/ StreamEnds \/ KubeletStops \/ KubeletStarts
    PROVE  StopInv'
<1> USE DEF StopInv, ListeningInv, StopCanEnd, Stopping
<1>1. ASSUME UNCHANGED <<server, cancelled, closed>>,
             listening' \subseteq listening, handlers' \subseteq handlers,
             socket' \in {socket, Nobody},
             kubelet' \in [up: BOOLEAN, stream: Plugins \cup {Nobody},
                           devices: SUBSET {g \in Nat : g < GPUCount}],
             \/ UNCHANGED spent
             \/ Spend("stops") \/ Spend("listeners")
      PROVE  StopInv'
  <2>1. (DOMAIN spent = DOMAIN Budget /\ \A b \in DOMAIN spent : spent[b] \in 0..Budget[b])'
    <3>1. CASE UNCHANGED spent
      BY <3>1 DEF TypeOK, Budget
    <3>2. CASE Spend("stops")
      BY <3>2, BudgetNat, SpendType
    <3>3. CASE Spend("listeners")
      BY <3>3, BudgetNat, SpendType
    <3> QED BY <1>1, <3>1, <3>2, <3>3
  <2>2. TypeOK'
    BY <1>1, <2>1 DEF TypeOK
  <2> QED BY <1>1, <2>2
<1>2. kubelet \in [up: BOOLEAN, stream: Plugins \cup {Nobody},
                   devices: SUBSET {g \in Nat : g < GPUCount}]
  BY DEF TypeOK
<1>3. ASSUME NEW p \in Plugins, ListenerFails(p) PROVE StopInv'
  BY <1>1, <1>2, <1>3 DEF ListenerFails
<1>4. ASSUME NEW p \in Plugins, Send(p) PROVE StopInv'
  <2>1. kubelet' \in [up: BOOLEAN, stream: Plugins \cup {Nobody},
                      devices: SUBSET {g \in Nat : g < GPUCount}]
    BY <1>2, <1>4, DevicesType DEF Send
  <2> QED BY <1>1, <1>4, <2>1 DEF Send, processVars
<1>5. ASSUME NEW p \in Plugins, HandlerReturns(p) PROVE StopInv'
  BY <1>1, <1>2, <1>5 DEF HandlerReturns
<1>6. CASE StreamEnds
  <2>1. kubelet' \in [up: BOOLEAN, stream: Plugins \cup {Nobody},
                      devices: SUBSET {g \in Nat : g < GPUCount}]
    BY <1>2, <1>6 DEF StreamEnds
  <2> QED BY <1>1, <1>6, <2>1 DEF StreamEnds, processVars
<1>7. CASE KubeletStops
  <2>1. kubelet' \in [up: BOOLEAN, stream: Plugins \cup {Nobody},
                      devices: SUBSET {g \in Nat : g < GPUCount}]
    BY <1>7 DEF KubeletStops, NoStream
  <2> QED BY <1>1, <1>7, <2>1 DEF KubeletStops, processVars
<1>8. CASE KubeletStarts
  <2>1. kubelet' \in [up: BOOLEAN, stream: Plugins \cup {Nobody},
                      devices: SUBSET {g \in Nat : g < GPUCount}]
    BY <1>8 DEF KubeletStarts, NoStream
  <2> QED BY <1>1, <1>8, <2>1 DEF KubeletStarts, processVars
<1> QED BY <1>3, <1>4, <1>5, <1>6, <1>7, <1>8

LEMMA StopNext == StopInv /\ [Next]_vars => StopInv'
<1> SUFFICES ASSUME StopInv, [Next]_vars PROVE StopInv'
  OBVIOUS
<1>1. CASE UNCHANGED vars
  BY <1>1 DEF vars, processVars, StopInv, TypeOK, Budget, ListeningInv, StopCanEnd
<1>2. CASE Next
  BY <1>2, PodStep, ServerStepInv, OtherStep DEF Next
<1> QED BY <1>1, <1>2

-----------------------------------------------------------------------------
(***************************************************************************)
(* A pod that is alone on its node.                                        *)
(***************************************************************************)

\* What a step preserves as long as OnePod holds.  stopUpdates stays open until
\* stop, so that a call whose stream the kubelet keeps goes on.
AloneInv ==
    /\ Quiet => kubelet.up
    /\ \A p \in Plugins :
          /\ server[p] \in Running \ Stopping => p \notin closed
          /\ server[p] = "listen" => socket = Nobody
          /\ Quiet /\ server[p] \in {"register", "called", "serve"} =>
                socket = p /\ p \in listening
          /\ Quiet /\ server[p] \in {"called", "serve"} =>
                kubelet.stream = p /\ p \in handlers

LEMMA AloneInit == Init => AloneInv
<1> SUFFICES ASSUME Init PROVE AloneInv
  OBVIOUS
<1>1. \A p \in Plugins : server[p] = "absent"
  BY DEF Init
<1>2. kubelet.up
  BY DEF Init, NoStream
<1> QED BY <1>1, <1>2 DEF AloneInv, Running, Stopping

\* No step makes up for a kubelet that has stopped or a listener that failed.
LEMMA SpendCounts ==
    ASSUME TypeOK, NEW b \in DOMAIN Budget, Spend(b)
    PROVE  /\ Quiet' => Quiet
           /\ b \in {"stops", "listeners"} => ~Quiet'
<1>1. \A c \in DOMAIN Budget : spent'[c] = IF c = b THEN spent[b] + 1 ELSE spent[c]
  BY DEF TypeOK, Spend
<1>2. \A c \in DOMAIN Budget : spent[c] \in Nat
  <2>1. \A c \in DOMAIN Budget : spent[c] \in 0..Budget[c] /\ Budget[c] \in Nat
    BY BudgetNat DEF TypeOK
  <2> QED BY <2>1
<1>3. /\ spent'["stops"] = IF "stops" = b THEN spent[b] + 1 ELSE spent["stops"]
      /\ spent'["listeners"] = IF "listeners" = b THEN spent[b] + 1 ELSE spent["listeners"]
      /\ spent["stops"] \in Nat /\ spent["listeners"] \in Nat
  BY <1>1, <1>2, BudgetNat
<1> QED BY <1>3 DEF Quiet

\* While one pod is alone, each of its steps finds the others out of the way.
LEMMA AloneServerStep ==
    ASSUME StopInv, AloneInv, OnePod, OnePod', NEW p \in Plugins,
           Boot(p) \/ Cancel(p) \/ Exit(p) \/ Crash(p) \/ ServerStep(p)
    PROVE  AloneInv'
\* p moves to a place where AloneInv asks nothing of the socket or the stream.
<1>1. ASSUME NEW pc \in {"remove", "drain", "unlink", "exited", "gone"}, Goto(p, pc),
             Quiet' => Quiet, kubelet'.up = kubelet.up,
             pc = "remove" => p \notin closed',
             \A q \in Plugins \ {p} : server[q] \in {"absent", "gone"}
      PROVE  AloneInv'
  <2>1. /\ server'[p] = pc
        /\ \A q \in Plugins \ {p} : server'[q] \in {"absent", "gone"}
    BY <1>1, GotoOne DEF Outside, Running, Stopping
  <2> QED BY <1>1, <2>1 DEF AloneInv, Running, Stopping
<1>2. ASSUME server[p] \notin {"absent", "gone"}
      PROVE  \A q \in Plugins \ {p} : server[q] \in {"absent", "gone"}
  BY <1>2 DEF OnePod
<1>3. CASE Boot(p)
  <2>1. /\ Goto(p, "remove") /\ closed' = closed \ {p}
        /\ UNCHANGED <<kubelet, spent>>
    BY <1>3 DEF Boot
  <2>2. server'[p] = "remove" /\ \A q \in Plugins \ {p} : server'[q] = server[q]
    BY <2>1, GotoOne DEF Running
  <2>3. \A q \in Plugins \ {p} : server[q] \in {"absent", "gone"}
    BY <2>2 DEF OnePod
  <2>4. Quiet' => Quiet
    BY <2>1 DEF Quiet
  <2> QED BY <1>1, <2>1, <2>3, <2>4
<1>4. CASE Cancel(p)
  <2>1. UNCHANGED <<server, listening, closed, handlers, socket, kubelet, spent>>
    BY <1>4 DEF Cancel, processVars
  <2> QED BY <2>1 DEF AloneInv, Quiet
<1>5. ASSUME NEW pc \in {"gone", "exited"}, Die(p, pc),
             UNCHANGED spent \/ Spend("faults"), UNCHANGED kubelet
      PROVE  AloneInv'
  <2>1. Quiet' => Quiet
    BY <1>5, SpendCounts, BudgetNat DEF Quiet, StopInv
  <2>2. /\ Goto(p, pc) /\ listening' = listening \ {p} /\ handlers' = handlers \ {p}
        /\ UNCHANGED <<closed, socket>>
    BY <1>5 DEF Die
  <2>3. server'[p] = pc /\ \A q \in Plugins \ {p} : server'[q] = server[q]
    BY <2>2, GotoOne DEF Outside
  <2>4. \A q \in Plugins \ {p} : q \in listening => q \in listening'
    BY <2>2
  <2>5. \A q \in Plugins \ {p} : q \in handlers => q \in handlers'
    BY <2>2
  <2> QED BY <1>5, <2>1, <2>2, <2>3, <2>4, <2>5 DEF AloneInv, Running, Stopping
<1>6. CASE Exit(p)
  BY <1>5, <1>6 DEF Exit
<1>7. CASE Crash(p)
  BY <1>5, <1>7 DEF Crash
<1>8. CASE StartFails(p)
  BY <1>5, <1>8 DEF StartFails
<1>9. CASE RemoveStale(p)
  <2>1. /\ server[p] = "remove" /\ Goto(p, "listen") /\ socket' = Nobody
        /\ UNCHANGED <<listening, closed, handlers, kubelet, spent>>
    BY <1>9 DEF RemoveStale, processVars
  <2>2. /\ server'[p] = "listen"
        /\ \A q \in Plugins \ {p} : server'[q] \in {"absent", "gone"}
    BY <1>2, <2>1, GotoOne DEF Running
  <2>3. p \notin closed
    BY <2>1 DEF AloneInv, Running, Stopping
  <2> QED BY <2>1, <2>2, <2>3 DEF AloneInv, Quiet, Running, Stopping
<1>10. CASE Listen(p)
  <2>1. /\ server[p] = "listen" /\ Goto(p, "register") /\ socket' = p
        /\ listening' = listening \cup {p}
        /\ UNCHANGED <<closed, handlers, kubelet, spent>>
    BY <1>10 DEF Listen
  <2>2. /\ server'[p] = "register"
        /\ \A q \in Plugins \ {p} : server'[q] \in {"absent", "gone"}
    BY <1>2, <2>1, GotoOne DEF Running
  <2>3. p \notin closed
    BY <2>1 DEF AloneInv, Running, Stopping
  <2> QED BY <2>1, <2>2, <2>3 DEF AloneInv, Quiet, Running, Stopping
<1>11. CASE Register(p)
  <2>1. /\ server[p] = "register" /\ Goto(p, "called")
        /\ kubelet' = [kubelet EXCEPT !.stream = socket, !.devices = {}]
        /\ handlers' = handlers \cup {socket}
        /\ UNCHANGED <<listening, closed, socket, spent>>
    BY <1>11 DEF Register
  <2>2. /\ server'[p] = "called"
        /\ \A q \in Plugins \ {p} : server'[q] \in {"absent", "gone"}
    BY <1>2, <2>1, GotoOne DEF Running
  <2>3. kubelet'.up = kubelet.up /\ kubelet'.stream = socket
    BY <2>1 DEF StopInv, TypeOK
  <2>4. p \notin closed /\ (Quiet => socket = p /\ p \in listening)
    BY <2>1 DEF AloneInv, Running, Stopping
  <2> QED BY <2>1, <2>2, <2>3, <2>4 DEF AloneInv, Quiet, Running, Stopping
<1>12. CASE Registered(p)
  <2>1. /\ server[p] = "called" /\ Goto(p, "serve")
        /\ UNCHANGED <<listening, closed, handlers, socket, kubelet, spent>>
    BY <1>12 DEF Registered, processVars
  <2>2. /\ server'[p] = "serve"
        /\ \A q \in Plugins \ {p} : server'[q] \in {"absent", "gone"}
    BY <1>2, <2>1, GotoOne DEF Running
  <2> QED BY <2>1, <2>2 DEF AloneInv, Quiet, Running, Stopping
<1>13. ASSUME Stop(p), UNCHANGED spent \/ Spend("faults"),
              server[p] \in {"register", "called", "serve"}
       PROVE  AloneInv'
  <2>1. Goto(p, "drain") /\ UNCHANGED kubelet
    BY <1>13 DEF Stop
  <2>2. Quiet' => Quiet
    BY <1>13, SpendCounts, BudgetNat DEF Quiet, StopInv
  <2> QED BY <1>1, <1>2, <1>13, <2>1, <2>2
<1>14. CASE RegisterFails(p) \/ StopOnCancel(p)
  BY <1>13, <1>14 DEF RegisterFails, StopOnCancel
<1>15. CASE Drained(p)
  <2>1. /\ server[p] = "drain" /\ Goto(p, "unlink") /\ UNCHANGED <<kubelet, spent>>
    BY <1>15 DEF Drained
  <2> QED BY <1>1, <1>2, <2>1 DEF Quiet
<1>16. CASE Unlink(p)
  <2>1. /\ server[p] = "unlink" /\ Goto(p, "exited") /\ UNCHANGED <<kubelet, spent>>
    BY <1>16 DEF Unlink
  <2> QED BY <1>1, <1>2, <2>1 DEF Quiet
<1> QED BY <1>3, <1>4, <1>6, <1>7, <1>8, <1>9, <1>10, <1>11, <1>12, <1>14, <1>15,
           <1>16 DEF ServerStep

\* The kubelet's stream to a pod that serves cannot end, nor its call return.
LEMMA AloneOtherStep ==
    ASSUME StopInv, AloneInv,
           \/ \E p \in Plugins : ListenerFails(p) \/ Send(p) \/ HandlerReturns(p)
           \/ StreamEnds \/ KubeletStops \/ KubeletStarts
    PROVE  AloneInv'
<1>1. UNCHANGED <<server, closed>> /\ socket' \in {socket, Nobody}
  BY DEF ListenerFails, Send, HandlerReturns, StreamEnds, KubeletStops,
         KubeletStarts, processVars
<1>2. ASSUME ~Quiet' PROVE AloneInv'
  BY <1>1, <1>2 DEF AloneInv
<1>3. ASSUME NEW p \in Plugins, ListenerFails(p) PROVE AloneInv'
  <2>1. Spend("listeners")
    BY <1>3 DEF ListenerFails
  <2> QED BY <1>2, <2>1, SpendCounts, BudgetNat DEF StopInv
<1>4. ASSUME NEW p \in Plugins, Send(p) PROVE AloneInv'
  <2>1. /\ kubelet' = [kubelet EXCEPT !.devices = Devices]
        /\ UNCHANGED <<server, listening, closed, handlers, socket, spent>>
    BY <1>4 DEF Send, processVars
  <2>2. kubelet'.up = kubelet.up /\ kubelet'.stream = kubelet.stream
    BY <2>1 DEF StopInv, TypeOK
  <2> QED BY <2>1, <2>2 DEF AloneInv, Quiet
<1>5. ASSUME NEW p \in Plugins, HandlerReturns(p) PROVE AloneInv'
  <2>1. /\ p \in closed \/ kubelet.stream # p
        /\ handlers' = handlers \ {p}
        /\ UNCHANGED <<server, listening, closed, socket, kubelet, spent>>
    BY <1>5 DEF HandlerReturns
  <2>2. ~(Quiet /\ server[p] \in {"called", "serve"})
    BY <2>1 DEF AloneInv, Running, Stopping
  <2> QED BY <2>1, <2>2 DEF AloneInv, Quiet
<1>6. CASE StreamEnds
  <2>1. /\ kubelet.stream \notin handlers \cup {Nobody}
        /\ kubelet' = [kubelet EXCEPT !.stream = Nobody, !.devices = {}]
        /\ UNCHANGED <<server, listening, closed, handlers, socket, spent>>
    BY <1>6 DEF StreamEnds, processVars
  <2>2. kubelet'.up = kubelet.up
    BY <2>1 DEF StopInv, TypeOK
  <2>3. \A p \in Plugins : ~(Quiet /\ server[p] \in {"called", "serve"})
    BY <2>1 DEF AloneInv
  <2> QED BY <2>1, <2>2, <2>3 DEF AloneInv, Quiet
<1>7. CASE KubeletStops
  <2>1. Spend("stops")
    BY <1>7 DEF KubeletStops
  <2> QED BY <1>2, <2>1, SpendCounts, BudgetNat DEF StopInv
<1>8. CASE KubeletStarts
  <2>1. ~Quiet /\ UNCHANGED spent
    BY <1>8 DEF KubeletStarts, AloneInv
  <2> QED BY <1>2, <2>1 DEF Quiet
<1> QED BY <1>3, <1>4, <1>5, <1>6, <1>7, <1>8

LEMMA AloneNext ==
    StopInv /\ AloneInv /\ OnePod /\ OnePod' /\ [Next]_vars => AloneInv'
<1> SUFFICES ASSUME StopInv, AloneInv, OnePod, OnePod', [Next]_vars PROVE AloneInv'
  OBVIOUS
<1>1. CASE UNCHANGED vars
  BY <1>1 DEF vars, processVars, AloneInv, Quiet
<1>2. CASE Next
  BY <1>2, AloneServerStep, AloneOtherStep DEF Next
<1> QED BY <1>1, <1>2

-----------------------------------------------------------------------------
(***************************************************************************)
(* A pod over which no other pod starts.                                   *)
(***************************************************************************)

\* What a step preserves as long as StartsLast(p) holds.  The socket file may be
\* gone, which makes p's Register fail, but it never leads to another pod.
LaterInv(p) ==
    /\ Quiet => kubelet.up
    /\ server[p] \in Running \ Stopping => p \notin closed
    /\ server[p] = "listen" => socket = Nobody
    /\ Quiet /\ server[p] \in {"register", "called", "serve"} =>
          socket \in {p, Nobody} /\ p \in listening
    /\ Quiet /\ server[p] \in {"called", "serve"} =>
          kubelet.stream = p /\ p \in handlers

\* Steps of any pod that leave p where it is and at most unlink the socket.
LEMMA LaterStays ==
    ASSUME StopInv, NEW p \in Plugins, LaterInv(p),
           server'[p] = server[p], p \in closed' => p \in closed, Quiet' => Quiet,
           socket' \in {socket, Nobody}, p \in listening => p \in listening',
           p \in handlers => p \in handlers', kubelet'.up = kubelet.up,
           Quiet /\ server[p] \in {"called", "serve"} => kubelet'.stream = p
    PROVE  LaterInv(p)'
BY DEF LaterInv

\* Steps after which p is at none of the places that LaterInv speaks of.
LEMMA LaterOut ==
    ASSUME NEW p \in Plugins, LaterInv(p),
           server'[p] \notin {"listen", "register", "called", "serve"},
           server'[p] = "remove" => p \notin closed', Quiet' => Quiet,
           kubelet'.up = kubelet.up
    PROVE  LaterInv(p)'
BY DEF LaterInv, Running, Stopping

LEMMA LaterServerStep ==
    ASSUME StopInv, NEW p \in Plugins, LaterInv(p),
           Boot(p) \/ Cancel(p) \/ Exit(p) \/ Crash(p) \/ ServerStep(p)
    PROVE  LaterInv(p)'
<1>1. CASE Boot(p)
  <2>1. /\ Goto(p, "remove") /\ closed' = closed \ {p} /\ UNCHANGED <<kubelet, spent>>
    BY <1>1 DEF Boot
  <2>2. server'[p] = "remove"
    BY <2>1, GotoOne DEF Running
  <2> QED BY <2>1, <2>2, LaterOut DEF Quiet
<1>2. CASE Cancel(p)
  <2>1. UNCHANGED <<server, listening, closed, handlers, socket, kubelet, spent>>
    BY <1>2 DEF Cancel, processVars
  <2> QED BY <2>1 DEF LaterInv, Quiet
<1>3. ASSUME NEW pc \in {"drain", "unlink", "exited", "gone"}, Goto(p, pc),
             UNCHANGED spent \/ Spend("faults"), UNCHANGED kubelet
      PROVE  LaterInv(p)'
  <2>1. server'[p] = pc
    BY <1>3, GotoOne DEF Outside, Running, Stopping
  <2>2. Quiet' => Quiet
    BY <1>3, SpendCounts, BudgetNat DEF Quiet, StopInv
  <2> QED BY <1>3, <2>1, <2>2, LaterOut
<1>4. CASE Exit(p) \/ Crash(p) \/ StartFails(p)
  BY <1>3, <1>4 DEF Exit, Crash, StartFails, Die
<1>5. CASE RegisterFails(p) \/ StopOnCancel(p)
  BY <1>3, <1>5 DEF RegisterFails, StopOnCancel, Stop
<1>6. CASE Drained(p) \/ Unlink(p)
  BY <1>3, <1>6 DEF Drained, Unlink
<1>7. CASE RemoveStale(p)
  <2>1. /\ server[p] = "remove" /\ Goto(p, "listen") /\ socket' = Nobody
        /\ UNCHANGED <<listening, closed, handlers, kubelet, spent>>
    BY <1>7 DEF RemoveStale, processVars
  <2>2. server'[p] = "listen"
    BY <2>1, GotoOne DEF Running
  <2> QED BY <2>1, <2>2 DEF LaterInv, Quiet, Running, Stopping
<1>8. CASE Listen(p)
  <2>1. /\ server[p] = "listen" /\ Goto(p, "register") /\ socket' = p
        /\ listening' = listening \cup {p}
        /\ UNCHANGED <<closed, handlers, kubelet, spent>>
    BY <1>8 DEF Listen
  <2>2. server'[p] = "register"
    BY <2>1, GotoOne DEF Running
  <2> QED BY <2>1, <2>2 DEF LaterInv, Quiet, Running, Stopping
<1>9. CASE Register(p)
  <2>1. /\ server[p] = "register" /\ Goto(p, "called") /\ Live
        /\ kubelet' = [kubelet EXCEPT !.stream = socket, !.devices = {}]
        /\ handlers' = handlers \cup {socket}
        /\ UNCHANGED <<listening, closed, socket, spent>>
    BY <1>9 DEF Register
  <2>2. server'[p] = "called"
    BY <2>1, GotoOne DEF Running
  <2>3. kubelet'.up = kubelet.up /\ kubelet'.stream = socket
    BY <2>1 DEF StopInv, TypeOK
  <2>4. p \notin closed /\ (Quiet => socket = p /\ p \in listening)
    BY <2>1, PluginsAssumption DEF LaterInv, Live, StopInv, TypeOK, Running, Stopping
  <2> QED BY <2>1, <2>2, <2>3, <2>4 DEF LaterInv, Quiet, Running, Stopping
<1>10. CASE Registered(p)
  <2>1. /\ server[p] = "called" /\ Goto(p, "serve")
        /\ UNCHANGED <<listening, closed, handlers, socket, kubelet, spent>>
    BY <1>10 DEF Registered, processVars
  <2>2. server'[p] = "serve"
    BY <2>1, GotoOne DEF Running
  <2> QED BY <2>1, <2>2 DEF LaterInv, Quiet, Running, Stopping
<1> QED BY <1>1, <1>2, <1>4, <1>5, <1>6, <1>7, <1>8, <1>9, <1>10 DEF ServerStep

\* A Register of another pod goes through p's socket, if p is registered, and so
\* leaves the stream with p; a stop only unlinks the file.
LEMMA LaterOtherPod ==
    ASSUME StopInv, NEW p \in Plugins, LaterInv(p), StartsLast(p), StartsLast(p)',
           NEW q \in Plugins \ {p},
           Boot(q) \/ Cancel(q) \/ Exit(q) \/ Crash(q) \/ ServerStep(q)
    PROVE  LaterInv(p)'
<1>1. ASSUME NEW pc \in Outside \cup Running, Goto(q, pc)
      PROVE  server'[q] = pc /\ server'[p] = server[p]
  BY <1>1, GotoOne
\* A start that LaterInv(p) has nothing to fear from: p is not past its own.
<1>2. ASSUME NEW pc \in {"remove", "listen", "register"}, Goto(q, pc),
             {server[q], pc} \cap {"remove", "listen"} # {},
             closed' \subseteq closed, UNCHANGED <<kubelet, spent>>
      PROVE  LaterInv(p)'
  <2>1. server'[q] = pc /\ server'[p] = server[p]
    BY <1>1, <1>2 DEF Running
  <2>2. server[p] \notin {"listen", "register", "called", "serve"}
    BY <1>2, <2>1 DEF StartsLast
  <2>3. server[p] = "remove" => p \notin closed'
    BY <1>2 DEF LaterInv, Running, Stopping
  <2> QED BY <1>2, <2>1, <2>2, <2>3, LaterOut DEF Quiet
<1>3. CASE Boot(q) \/ RemoveStale(q) \/ Listen(q)
  <2>1. CASE Boot(q)
    BY <1>2, <2>1 DEF Boot
  <2>2. CASE RemoveStale(q)
    BY <1>2, <2>2 DEF RemoveStale, processVars
  <2>3. CASE Listen(q)
    BY <1>2, <2>3 DEF Listen
  <2> QED BY <1>3, <2>1, <2>2, <2>3
\* The other steps leave the kubelet and p's own files alone.
<1>4. ASSUME NEW pc \in Outside \cup Running, Goto(q, pc),
             closed' \subseteq closed \cup {q}, UNCHANGED spent \/ Spend("faults"),
             socket' \in {socket, Nobody}, listening \subseteq listening' \cup {q},
             handlers \subseteq handlers' \cup {q}, UNCHANGED kubelet
      PROVE  LaterInv(p)'
  <2>1. server'[p] = server[p]
    BY <1>1, <1>4
  <2>2. Quiet' => Quiet
    BY <1>4, SpendCounts, BudgetNat DEF Quiet, StopInv
  <2>3. Quiet /\ server[p] \in {"called", "serve"} => kubelet'.stream = p
    BY <1>4 DEF LaterInv
  <2> QED BY <1>4, <2>1, <2>2, <2>3, LaterStays
<1>5. CASE Cancel(q)
  <2>1. UNCHANGED <<server, listening, closed, handlers, socket, kubelet, spent>>
    BY <1>5 DEF Cancel, processVars
  <2> QED BY <2>1 DEF LaterInv, Quiet
<1>6. CASE Exit(q) \/ Crash(q) \/ StartFails(q)
  <2>1. CASE Exit(q)
    BY <1>4, <2>1 DEF Exit, Die, Outside
  <2>2. CASE Crash(q)
    BY <1>4, <2>2 DEF Crash, Die, Outside
  <2>3. CASE StartFails(q)
    BY <1>4, <2>3 DEF StartFails, Die, Outside
  <2> QED BY <1>6, <2>1, <2>2, <2>3
<1>7. CASE RegisterFails(q) \/ StopOnCancel(q)
  <2>1. Stop(q) /\ (UNCHANGED spent \/ Spend("faults"))
    BY <1>7 DEF RegisterFails, StopOnCancel
  <2>2. /\ closed' = closed \cup {q} /\ listening' = listening \ {q}
        /\ socket' \in {socket, Nobody} /\ Goto(q, "drain")
        /\ UNCHANGED <<handlers, kubelet>>
    BY <2>1 DEF Stop
  <2> QED BY <1>4, <2>1, <2>2 DEF Running, Stopping
<1>8. CASE Registered(q) \/ Drained(q) \/ Unlink(q)
  <2>1. CASE Registered(q)
    BY <1>4, <2>1 DEF Registered, processVars, Running
  <2>2. CASE Drained(q)
    BY <1>4, <2>2 DEF Drained, processVars, Running, Stopping
  <2>3. CASE Unlink(q)
    BY <1>4, <2>3 DEF Unlink, processVars, Outside
  <2> QED BY <1>8, <2>1, <2>2, <2>3
<1>9. CASE Register(q)
  <2>1. /\ Goto(q, "called") /\ Live
        /\ kubelet' = [kubelet EXCEPT !.stream = socket, !.devices = {}]
        /\ handlers' = handlers \cup {socket}
        /\ UNCHANGED <<listening, closed, socket, spent>>
    BY <1>9 DEF Register
  <2>2. server'[p] = server[p]
    BY <1>1, <2>1 DEF Running
  <2>3. kubelet'.up = kubelet.up /\ kubelet'.stream = socket
    BY <2>1 DEF StopInv, TypeOK
  <2>4. Quiet /\ server[p] \in {"called", "serve"} => socket = p
    BY <2>1, PluginsAssumption DEF LaterInv, Live, StopInv, TypeOK
  <2> QED BY <2>1, <2>2, <2>3, <2>4, LaterStays DEF Quiet
<1> QED BY <1>3, <1>5, <1>6, <1>7, <1>8, <1>9 DEF ServerStep

LEMMA LaterOtherStep ==
    ASSUME StopInv, NEW p \in Plugins, LaterInv(p),
           \/ \E q \in Plugins : ListenerFails(q) \/ Send(q) \/ HandlerReturns(q)
           \/ StreamEnds \/ KubeletStops \/ KubeletStarts
    PROVE  LaterInv(p)'
<1>1. UNCHANGED <<server, closed>> /\ socket' \in {socket, Nobody}
  BY DEF ListenerFails, Send, HandlerReturns, StreamEnds, KubeletStops,
         KubeletStarts, processVars
<1>2. ASSUME ~Quiet' PROVE LaterInv(p)'
  BY <1>1, <1>2 DEF LaterInv
<1>3. ASSUME NEW q \in Plugins, ListenerFails(q) PROVE LaterInv(p)'
  <2>1. Spend("listeners")
    BY <1>3 DEF ListenerFails
  <2> QED BY <1>2, <2>1, SpendCounts, BudgetNat DEF StopInv
<1>4. ASSUME NEW q \in Plugins, Send(q) PROVE LaterInv(p)'
  <2>1. /\ kubelet' = [kubelet EXCEPT !.devices = Devices]
        /\ UNCHANGED <<server, listening, closed, handlers, socket, spent>>
    BY <1>4 DEF Send, processVars
  <2>2. kubelet'.up = kubelet.up /\ kubelet'.stream = kubelet.stream
    BY <2>1 DEF StopInv, TypeOK
  <2> QED BY <2>1, <2>2 DEF LaterInv, Quiet
<1>5. ASSUME NEW q \in Plugins, HandlerReturns(q) PROVE LaterInv(p)'
  <2>1. /\ q \in closed \/ kubelet.stream # q
        /\ handlers' = handlers \ {q}
        /\ UNCHANGED <<server, listening, closed, socket, kubelet, spent>>
    BY <1>5 DEF HandlerReturns
  <2>2. Quiet /\ server[p] \in {"called", "serve"} => p # q
    BY <2>1 DEF LaterInv, Running, Stopping
  <2> QED BY <2>1, <2>2 DEF LaterInv, Quiet
<1>6. CASE StreamEnds
  <2>1. /\ kubelet.stream \notin handlers \cup {Nobody}
        /\ kubelet' = [kubelet EXCEPT !.stream = Nobody, !.devices = {}]
        /\ UNCHANGED <<server, listening, closed, handlers, socket, spent>>
    BY <1>6 DEF StreamEnds, processVars
  <2>2. kubelet'.up = kubelet.up
    BY <2>1 DEF StopInv, TypeOK
  <2>3. ~(Quiet /\ server[p] \in {"called", "serve"})
    BY <2>1 DEF LaterInv
  <2> QED BY <2>1, <2>2, <2>3 DEF LaterInv, Quiet
<1>7. CASE KubeletStops
  <2>1. Spend("stops")
    BY <1>7 DEF KubeletStops
  <2> QED BY <1>2, <2>1, SpendCounts, BudgetNat DEF StopInv
<1>8. CASE KubeletStarts
  <2>1. ~Quiet /\ UNCHANGED spent
    BY <1>8 DEF KubeletStarts, LaterInv
  <2> QED BY <1>2, <2>1 DEF Quiet
<1> QED BY <1>3, <1>4, <1>5, <1>6, <1>7, <1>8

LEMMA LaterNext ==
    ASSUME NEW p \in Plugins
    PROVE  /\ Init => LaterInv(p)
           /\ StopInv /\ LaterInv(p) /\ StartsLast(p) /\ StartsLast(p)' /\ [Next]_vars
                 => LaterInv(p)'
<1>1. ASSUME Init PROVE LaterInv(p)
  <2>1. server[p] = "absent" /\ kubelet.up
    BY <1>1 DEF Init, NoStream
  <2> QED BY <2>1 DEF LaterInv, Running, Stopping
<1>2. ASSUME StopInv, LaterInv(p), StartsLast(p), StartsLast(p)', [Next]_vars
      PROVE  LaterInv(p)'
  <2>1. CASE UNCHANGED vars
    BY <1>2, <2>1 DEF vars, processVars, LaterInv, Quiet
  <2>2. CASE Next
    BY <1>2, <2>2, LaterServerStep, LaterOtherPod, LaterOtherStep DEF Next
  <2> QED BY <1>2, <2>1, <2>2
<1> QED BY <1>1, <1>2

-----------------------------------------------------------------------------
(***************************************************************************)
(* The theorems.                                                           *)
(***************************************************************************)

LEMMA StopAlways == Spec \/ FairSpec => []StopInv
<1>1. Spec => []StopInv
  BY StopInit, StopNext, PTL DEF Spec
<1>2. FairSpec => Spec
  BY PTL DEF FairSpec
<1> QED BY <1>1, <1>2, PTL

\* Type correctness: for any plugin pods and any --gpus-per-node, a negative one
\* included, what the kubelet has received are ids of the node's devices.
THEOREM TypeCorrect == Spec \/ FairSpec => []TypeOK
BY StopAlways, PTL DEF StopInv

\* stop() can end: for any number of overlapping pods that take each other's
\* socket, the calls GracefulStop waits for have been told to return, and none
\* can start any more.
THEOREM StopCanAlwaysEnd == Spec \/ FairSpec => []StopCanEnd
BY StopAlways, PTL DEF StopInv

\* Pods that follow one another on a node do not disturb each other: whatever the
\* earlier ones left behind, a pod that is alone always finds its path free, keeps
\* its socket, and keeps the kubelet's stream until it is told to stop or dies.
THEOREM AlonePodUndisturbed == Spec \/ FairSpec => AloneUndisturbed
<1> DEFINE Safe == \A p \in Plugins :
              /\ server[p] = "listen" => socket = Nobody
              /\ Quiet /\ server[p] \in {"register", "called", "serve"} =>
                    socket = p /\ p \in listening
              /\ Quiet /\ server[p] \in {"called", "serve"} =>
                    kubelet.stream = p /\ p \in handlers
<1>1. AloneInv => Safe
  BY DEF AloneInv
<1>2. AloneUndisturbed <=> ([]OnePod => []Safe)
  BY DEF AloneUndisturbed
<1> HIDE DEF Safe
<1>3. Spec => ([]OnePod => []Safe)
  BY <1>1, StopInit, StopNext, AloneInit, AloneNext, PTL DEF Spec
<1>4. FairSpec => Spec
  BY PTL DEF FairSpec
<1> QED BY <1>2, <1>3, <1>4, PTL

\* The same holds of pods that overlap, as long as none starts over a later one:
\* stops that unlink the socket, and Registers of pods that go, never take the
\* kubelet's stream from a pod once its Register has been answered.
THEOREM LaterPodKeepsStream ==
    \A p \in Plugins : Spec \/ FairSpec =>
        ([]StartsLast(p) => [](Quiet /\ server[p] \in {"called", "serve"} =>
                                  kubelet.stream = p /\ p \in handlers))
<1> SUFFICES ASSUME NEW p \in Plugins
             PROVE  Spec \/ FairSpec =>
                       ([]StartsLast(p) =>
                           [](Quiet /\ server[p] \in {"called", "serve"} =>
                                 kubelet.stream = p /\ p \in handlers))
  OBVIOUS
<1> DEFINE Last == StartsLast(p)
           Inv == LaterInv(p)
           Kept == Quiet /\ server[p] \in {"called", "serve"} =>
                      kubelet.stream = p /\ p \in handlers
<1>1. Init => Inv
  BY LaterNext
<1>2. StopInv /\ Inv /\ Last /\ Last' /\ [Next]_vars => Inv'
  BY LaterNext
<1>3. Inv => Kept
  BY DEF LaterInv
<1> HIDE DEF Last, Inv, Kept
<1>4. Spec => ([]Last => []Kept)
  BY <1>1, <1>2, <1>3, StopInit, StopNext, PTL DEF Spec
<1>5. FairSpec => Spec
  BY PTL DEF FairSpec
<1>6. Spec \/ FairSpec => ([]Last => []Kept)
  BY <1>4, <1>5, PTL
<1> QED BY <1>6 DEF Last, Kept

\* A DaemonSet that replaces a pod only when it has gone never runs two.
THEOREM WithoutOverlapOnePod == ~Overlap => (Spec \/ FairSpec => []OnePod)
<1> SUFFICES ASSUME ~Overlap PROVE Spec \/ FairSpec => []OnePod
  OBVIOUS
<1>1. Init => OnePod
  BY DEF Init, OnePod
<1>2. StopInv /\ OnePod /\ [Next]_vars => OnePod'
  <2> SUFFICES ASSUME StopInv, OnePod, [Next]_vars PROVE OnePod'
    OBVIOUS
  <2>1. CASE UNCHANGED server
    BY <2>1 DEF OnePod
  <2>2. ASSUME NEW p \in Plugins, NEW pc \in Outside \cup Running, Goto(p, pc),
               \/ server[p] \notin {"absent", "gone"}
               \/ pc = "gone"
               \/ \A q \in Plugins : server[q] \in {"absent", "gone"}
        PROVE  OnePod'
    <3>1. server'[p] = pc /\ \A q \in Plugins \ {p} : server'[q] = server[q]
      BY <2>2, GotoOne
    <3> QED BY <2>2, <3>1 DEF OnePod
  <2>3. ASSUME NEW p \in Plugins, Boot(p) \/ Exit(p) \/ Crash(p) \/ ServerStep(p)
        PROVE  OnePod'
    <3> USE <2>2, <2>3 DEF Outside, Running, Stopping
    <3>1. CASE Boot(p)
      BY <3>1 DEF Boot
    <3>2. CASE Exit(p)
      BY <3>2 DEF Exit, Die
    <3>3. CASE Crash(p)
      BY <3>3 DEF Crash, Die
    <3>4. CASE StartFails(p)
      BY <3>4 DEF StartFails, Die
    <3>5. CASE RemoveStale(p) \/ Listen(p)
      BY <3>5 DEF RemoveStale, Listen
    <3>6. CASE Register(p) \/ Registered(p)
      BY <3>6 DEF Register, Registered
    <3>7. CASE RegisterFails(p) \/ StopOnCancel(p)
      BY <3>7 DEF RegisterFails, StopOnCancel, Stop
    <3>8. CASE Drained(p) \/ Unlink(p)
      BY <3>8 DEF Drained, Unlink
    <3> QED BY <3>1, <3>2, <3>3, <3>4, <3>5, <3>6, <3>7, <3>8 DEF ServerStep
  <2>4. ASSUME NEW p \in Plugins,
               Cancel(p) \/ ListenerFails(p) \/ Send(p) \/ HandlerReturns(p)
        PROVE  OnePod'
    BY <2>1, <2>4 DEF Cancel, ListenerFails, Send, HandlerReturns
  <2>5. CASE StreamEnds \/ KubeletStops \/ KubeletStarts
    BY <2>1, <2>5 DEF StreamEnds, KubeletStops, KubeletStarts
  <2>6. CASE UNCHANGED vars
    BY <2>1, <2>6 DEF vars
  <2> QED BY <2>3, <2>4, <2>5, <2>6 DEF Next
<1>3. Spec => []OnePod
  BY <1>1, <1>2, StopInit, StopNext, PTL DEF Spec
<1>4. FairSpec => Spec
  BY PTL DEF FairSpec
<1> QED BY <1>3, <1>4, PTL
=============================================================================
