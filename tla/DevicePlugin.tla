---------------------------- MODULE DevicePlugin ----------------------------
(***************************************************************************)
(* pkg/deviceplugin/server.go and registration.go on one node: the pods    *)
(* that run the plugin, the socket file they share in the kubelet's plugin *)
(* directory, and the kubelet that dials it.                               *)
(*                                                                         *)
(* Run has two goroutines.  The server's goes through start, register, the *)
(* wait for ctx, and stop; main returns as soon as ctx is cancelled, and   *)
(* the process dies with the server goroutine wherever it is.              *)
(***************************************************************************)
EXTENDS GpuInventory, FiniteSets

CONSTANTS
    Plugins,            \* device-plugin pods of the node, over time
    GPUCount,           \* --gpus-per-node
    Overlap,            \* a DaemonSet may be recreated while old pods terminate
    MaxKubeletStops,    \* bound: stops of the kubelet
    MaxListenerFailures,    \* bound: listeners that fail under a server
    MaxFaults           \* bound: crashes and failed calls

ASSUME PluginAssumption ==
    /\ GPUCount \in Int
    /\ Overlap \in BOOLEAN
    /\ {MaxKubeletStops, MaxListenerFailures, MaxFaults} \subseteq Nat

Nobody == "nobody"

ASSUME PluginsAssumption == Nobody \notin Plugins

VARIABLES
    server,     \* server[p]: where p's server goroutine is
    cancelled,  \* plugins whose ctx is done (SIGTERM)
    listening,  \* plugins whose listener is open
    closed,     \* plugins whose stopUpdates is closed
    handlers,   \* plugins in which a ListAndWatch call is running
    socket,     \* the plugin whose listener made the socket file, if it is there
    kubelet,    \* up; stream: the plugin it has a ListAndWatch stream to;
                \* devices: what it last received
    spent       \* spent budgets

processVars == <<listening, closed, handlers>>
vars == <<server, cancelled, processVars, socket, kubelet, spent>>

Outside == {"absent", "exited", "gone"}                \* no process
Stopping == {"drain", "unlink"}                        \* in stop()
Running == {"remove", "listen", "register", "called", "serve"} \cup Stopping

Budget == [stops |-> MaxKubeletStops, listeners |-> MaxListenerFailures,
           faults |-> MaxFaults]

Spend(b) == spent[b] < Budget[b] /\ spent' = [spent EXCEPT ![b] = @ + 1]

NoStream == [up |-> TRUE, stream |-> Nobody, devices |-> {}]

TypeOK ==
    /\ server \in [Plugins -> Outside \cup Running]
    /\ cancelled \subseteq Plugins
    /\ listening \subseteq Plugins
    /\ closed \subseteq Plugins
    /\ handlers \subseteq Plugins
    /\ socket \in Plugins \cup {Nobody}
    /\ kubelet \in [up: BOOLEAN, stream: Plugins \cup {Nobody},
                    devices: SUBSET {g \in Nat : g < GPUCount}]
    /\ DOMAIN spent = DOMAIN Budget
    /\ \A b \in DOMAIN spent : spent[b] \in 0..Budget[b]

Init ==
    /\ server = [p \in Plugins |-> "absent"]
    /\ cancelled = {}
    /\ listening = {} /\ closed = {} /\ handlers = {}
    /\ socket = Nobody
    /\ kubelet = NoStream
    /\ spent = [b \in DOMAIN Budget |-> 0]

Goto(p, pc) == server' = [server EXCEPT ![p] = pc]

\* p's process ends; the kernel closes its files and leaves the socket's.
Die(p, pc) ==
    /\ Goto(p, pc)
    /\ listening' = listening \ {p}
    /\ handlers' = handlers \ {p}
    /\ UNCHANGED <<closed, socket>>

-----------------------------------------------------------------------------
(***************************************************************************)
(* The pod and its container.                                              *)
(***************************************************************************)

\* New and Run in a fresh process.
Boot(p) ==
    /\ kubelet.up
    /\ \/ /\ server[p] = "absent"
          /\ Overlap \/ \A q \in Plugins : server[q] \in {"absent", "gone"}
       \/ server[p] = "exited" /\ p \notin cancelled
    /\ Goto(p, "remove")
    /\ closed' = closed \ {p}
    /\ UNCHANGED <<cancelled, listening, handlers, socket, kubelet, spent>>

\* The pod is deleted.
Cancel(p) ==
    /\ server[p] # "absent"
    /\ p \notin cancelled
    /\ cancelled' = cancelled \cup {p}
    /\ UNCHANGED <<server, processVars, socket, kubelet, spent>>

\* main sees ctx.Done() and returns, whatever the server is doing.
Exit(p) ==
    /\ p \in cancelled
    /\ server[p] # "gone"
    /\ Die(p, "gone")
    /\ UNCHANGED <<cancelled, kubelet, spent>>

Crash(p) ==
    /\ Spend("faults")
    /\ server[p] \in Running
    /\ Die(p, "exited")
    /\ UNCHANGED <<cancelled, kubelet>>

-----------------------------------------------------------------------------
(***************************************************************************)
(* The server goroutine.                                                   *)
(***************************************************************************)

\* Mutant: the stale socket is left where it is.
RemoveStale_Skipped(p) ==
    /\ server[p] = "remove"
    /\ Goto(p, "listen")
    /\ UNCHANGED <<cancelled, processVars, socket, kubelet, spent>>

\* start: os.Remove of the socket file of an earlier process.
RemoveStale(p) ==
    /\ server[p] = "remove"
    /\ socket' = Nobody
    /\ Goto(p, "listen")
    /\ UNCHANGED <<cancelled, processVars, kubelet, spent>>

\* start: net.Listen makes the file, and a goroutine serves.
Listen(p) ==
    /\ server[p] = "listen"
    /\ socket = Nobody
    /\ socket' = p
    /\ listening' = listening \cup {p}
    /\ Goto(p, "register")
    /\ UNCHANGED <<cancelled, closed, handlers, kubelet, spent>>

\* start fails: the file is there (again), or the call failed.  Run returns
\* the error and the process exits.
StartFails(p) ==
    /\ \/ server[p] = "listen" /\ socket # Nobody /\ UNCHANGED spent
       \/ server[p] \in {"remove", "listen"} /\ Spend("faults")
    /\ Die(p, "exited")
    /\ UNCHANGED <<cancelled, kubelet>>

Live == socket \in listening

\* Mutant: devices are numbered from 1.
Devices_FromOne == {g + 1 : g \in buildDevices(GPUCount)}

Devices == buildDevices(GPUCount)

\* register: the kubelet gets the request and connects back through the socket
\* file; ListAndWatch starts in the plugin that listens there.  A stream to an
\* earlier plugin is given up.
Register(p) ==
    /\ server[p] = "register"
    /\ p \notin cancelled
    /\ kubelet.up /\ Live
    /\ kubelet' = [kubelet EXCEPT !.stream = socket, !.devices = {}]
    /\ handlers' = handlers \cup {socket}
    /\ Goto(p, "called")
    /\ UNCHANGED <<cancelled, listening, closed, socket, spent>>

\* The kubelet answers.
Registered(p) ==
    /\ server[p] = "called"
    /\ Goto(p, "serve")
    /\ UNCHANGED <<cancelled, processVars, socket, kubelet, spent>>

\* Mutant: stop leaves stopUpdates open.
Stop_KeepsUpdates(p) ==
    /\ listening' = listening \ {p}
    /\ socket' = IF p \in listening THEN Nobody ELSE socket
    /\ Goto(p, "drain")
    /\ UNCHANGED <<cancelled, closed, handlers, kubelet>>

\* stop closes stopUpdates; GracefulStop closes the listener, which unlinks the
\* file at its path whoever made it, and then waits for the running calls.
Stop(p) ==
    /\ closed' = closed \cup {p}
    /\ listening' = listening \ {p}
    /\ socket' = IF p \in listening THEN Nobody ELSE socket
    /\ Goto(p, "drain")
    /\ UNCHANGED <<cancelled, handlers, kubelet>>

\* Mutant: Run drops the error of register.
RegisterFails_Ignored(p) ==
    /\ server[p] \in {"register", "called"}
    /\ Spend("faults")
    /\ Goto(p, "serve")
    /\ UNCHANGED <<cancelled, processVars, socket, kubelet>>

\* register fails: the kubelet is down or cannot connect back, ctx is done, or
\* the answer is lost or later than the deadline of 10 s.
RegisterFails(p) ==
    /\ \/ /\ server[p] = "register"
          /\ ~kubelet.up \/ ~Live \/ p \in cancelled
          /\ UNCHANGED spent
       \/ server[p] = "called" /\ (~kubelet.up \/ p \in cancelled) /\ UNCHANGED spent
       \/ server[p] \in {"register", "called"} /\ Spend("faults")
    /\ Stop(p)

\* <-ctx.Done() in Run
StopOnCancel(p) ==
    /\ server[p] = "serve"
    /\ p \in cancelled
    /\ Stop(p)
    /\ UNCHANGED spent

\* GracefulStop returns.
Drained(p) ==
    /\ server[p] = "drain"
    /\ p \notin handlers
    /\ Goto(p, "unlink")
    /\ UNCHANGED <<cancelled, processVars, socket, kubelet, spent>>

\* stop's os.Remove; Run returns and the process exits.
Unlink(p) ==
    /\ server[p] = "unlink"
    /\ socket' = Nobody
    /\ Goto(p, "exited")
    /\ UNCHANGED <<cancelled, processVars, kubelet, spent>>

\* Serve returns: start's goroutine drops the error.
ListenerFails(p) ==
    /\ Spend("listeners")
    /\ p \in listening
    /\ listening' = listening \ {p}
    /\ socket' = Nobody
    /\ UNCHANGED <<server, cancelled, closed, handlers, kubelet>>

\* ListAndWatch sends the list, at once and then on every tick.
Send(p) ==
    /\ p \in handlers
    /\ kubelet.stream = p
    /\ kubelet' = [kubelet EXCEPT !.devices = Devices]
    /\ UNCHANGED <<server, cancelled, processVars, socket, spent>>

\* ListAndWatch returns: stopUpdates is closed, or the stream has ended.
HandlerReturns(p) ==
    /\ p \in handlers
    /\ p \in closed \/ kubelet.stream # p
    /\ handlers' = handlers \ {p}
    /\ UNCHANGED <<server, cancelled, listening, closed, socket, kubelet, spent>>

-----------------------------------------------------------------------------
(***************************************************************************)
(* The kubelet.                                                            *)
(***************************************************************************)

\* The stream ends and the devices go with it.
StreamEnds ==
    /\ kubelet.stream \notin handlers \cup {Nobody}
    /\ kubelet' = [kubelet EXCEPT !.stream = Nobody, !.devices = {}]
    /\ UNCHANGED <<server, cancelled, processVars, socket, spent>>

KubeletStops ==
    /\ Spend("stops")
    /\ kubelet.up
    /\ kubelet' = [NoStream EXCEPT !.up = FALSE]
    /\ UNCHANGED <<server, cancelled, processVars, socket>>

\* The kubelet starts with no registration and empties the plugin directory.
KubeletStarts ==
    /\ ~kubelet.up
    /\ kubelet' = NoStream
    /\ socket' = Nobody
    /\ UNCHANGED <<server, cancelled, processVars, spent>>

-----------------------------------------------------------------------------
ServerStep(p) ==
    \/ RemoveStale(p) \/ Listen(p) \/ StartFails(p)
    \/ Register(p) \/ Registered(p) \/ RegisterFails(p)
    \/ StopOnCancel(p) \/ Drained(p) \/ Unlink(p)

Next ==
    \/ \E p \in Plugins : \/ Boot(p) \/ Cancel(p) \/ Exit(p) \/ Crash(p)
                          \/ ServerStep(p) \/ ListenerFails(p)
                          \/ Send(p) \/ HandlerReturns(p)
    \/ StreamEnds \/ KubeletStops \/ KubeletStarts

Spec == Init /\ [][Next]_vars

\* Goroutines run, containers are restarted, a ticker ticks and the kubelet
\* comes back.  Pods need not be deleted, and nothing has to fail.
FairSpec ==
    /\ Spec
    /\ \A p \in Plugins : /\ WF_vars(Boot(p)) /\ WF_vars(Exit(p))
                          /\ WF_vars(ServerStep(p))
                          /\ WF_vars(Send(p)) /\ WF_vars(HandlerReturns(p))
    /\ WF_vars(StreamEnds) /\ WF_vars(KubeletStarts)

-----------------------------------------------------------------------------
(***************************************************************************)
(* Properties.                                                             *)
(***************************************************************************)

\* p has been created, and nobody has deleted it.
Stays(p) == server[p] \in Running \cup {"exited"} /\ p \notin cancelled

\* p is the only pod there is.
Left(p) == Stays(p) /\ \A q \in Plugins \ {p} : server[q] \in {"absent", "gone"}

\* At most one plugin pod of the node has not gone yet.
OnePod ==
    \A p, q \in Plugins : {server[p], server[q]} \cap {"absent", "gone"} = {} => p = q

\* The kubelet has not stopped and no listener has failed.
Quiet == spent.stops = 0 /\ spent.listeners = 0

\* Nobody interferes with a plugin pod that is alone on its node, whatever stale
\* socket, stream or half-stopped server its predecessors left: start finds the
\* path free; and as long as all is quiet, from start on the socket file leads to
\* this pod's listener, and once register has returned nil the kubelet keeps
\* its stream to this pod's ListAndWatch.
AloneUndisturbed ==
    []OnePod => [](\A p \in Plugins :
        /\ server[p] = "listen" => socket = Nobody
        /\ Quiet /\ server[p] \in {"register", "called", "serve"} =>
              socket = p /\ p \in listening
        /\ Quiet /\ server[p] \in {"called", "serve"} =>
              kubelet.stream = p /\ p \in handlers)

\* Once p is past the removal of the socket, no other pod removes it or makes one
\* at start.  Others may still be serving, stopping, or registering.
StartsLast(p) ==
    server[p] \in {"listen", "register", "called", "serve"} =>
        \A q \in Plugins \ {p} : server[q] \notin {"remove", "listen"}

\* A plugin pod that outlives the others gets its devices advertised for good,
\* whatever crashes, stale sockets, failed starts and lost answers of Register
\* came before, and also when the pods have overlapped: an older pod's stop may
\* unlink the newer one's socket, but before Register that makes register fail,
\* and the process starts again, and after it the kubelet has its stream.  Only
\* the kubelet and the listener have to hold, and no pod may start over p.
EventuallyAdvertised ==
    \A p \in Plugins :
        ([](Quiet /\ StartsLast(p)) /\ <>[]Left(p)) => <>[](kubelet.devices = Devices)

\* stop always comes to an end, also when the kubelet has connected and will
\* not hang up: a Register whose answer was lost leaves such a stream.
StopCompletes ==
    \A p \in Plugins : server[p] \in Stopping ~> server[p] \notin Stopping

\* Whatever stops and fails, and with overlapping pods too, a plugin pod that
\* outlives all others gets to the point where it waits for ctx: it never ends up
\* blocked in start, in register or in the stop that follows a failed register.
EventuallyServes ==
    \A p \in Plugins : <>[]Left(p) => <>[](server[p] = "serve")

(***************************************************************************)
(* What comments say and the code does not do.                             *)
(***************************************************************************)

\* The package's comment: "It runs as a DaemonSet pod on every GPU node and"
\* registers with the kubelet and serves ListAndWatch with N devices.
EveryPodServes ==
    \A p \in Plugins : <>[]Left(p) => <>[](kubelet.devices = Devices)

\* ListAndWatch's comment: "re-sending on a 30s tick doubles as a keepalive
\* that catches kubelet restarts via stream errors."
KubeletRestartCaught == [](OnePod /\ spent.listeners = 0) => EveryPodServes
=============================================================================
