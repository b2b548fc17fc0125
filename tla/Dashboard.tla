----------------------------- MODULE Dashboard ------------------------------
(***************************************************************************)
(* sims gpu dashboard [--stop], pkg/cli/gpu_dashboard.go: a detached       *)
(* kubectl port-forward per cluster whose PID is kept in a file.  Commands *)
(* run in shells at the same time, the file is read and written without a  *)
(* lock, every forward wants the same local port, and the kernel uses PIDs *)
(* again.  PID 0 stands for "no process" and "no file".                    *)
(***************************************************************************)
EXTENDS Integers, FiniteSets

CONSTANTS
    Shells,         \* where commands are run
    Clusters,       \* names of sims clusters
    MaxPid,         \* bound: PIDs of the host
    MaxForeign,     \* bound: starts of processes that sims did not start
    MaxDeletes,     \* bound: clusters deleted
    MaxFaults,      \* bound: PID files that cannot be written
    MaxOverlaps     \* bound: commands begun while one for the cluster is running

Pids == 1..MaxPid

Dead  == "dead"
Ours  == "ours"         \* some other process of the user
Theirs == "theirs"      \* a process of somebody else

ASSUME ClustersAssumption == Clusters \cap {Dead, Ours, Theirs} = {}
ASSUME DashboardBoundsAssumption ==
    {MaxPid, MaxForeign, MaxDeletes, MaxFaults, MaxOverlaps} \subseteq Nat

VARIABLES
    procs,      \* procs[pid]: the cluster it forwards to, Ours, Theirs or Dead
    port,       \* the forward that has bound localhost:3000
    file,       \* file[c]: the PID in c's grafana.pid
    command,    \* command[s]: the command running in shell s
    clusters,   \* the clusters that exist
    stopped,    \* clusters with --stop as last command (history)
    foreign, deletes, faults, overlaps      \* spent budgets

hostVars == <<procs, port, clusters, foreign, deletes>>
vars == <<hostVars, file, command, stopped, faults, overlaps>>

NoCommand == [pc |-> "idle", cluster |-> "none", pid |-> 0]

Command == [pc: {"idle", "running?", "start", "write", "read", "kill", "remove"},
            cluster: Clusters \cup {"none"}, pid: 0..MaxPid]

TypeOK ==
    /\ procs \in [Pids -> Clusters \cup {Dead, Ours, Theirs}]
    /\ port \in 0..MaxPid
    /\ file \in [Clusters -> 0..MaxPid]
    /\ command \in [Shells -> Command]
    /\ clusters \subseteq Clusters /\ stopped \subseteq Clusters
    /\ foreign \in 0..MaxForeign /\ deletes \in 0..MaxDeletes
    /\ faults \in 0..MaxFaults /\ overlaps \in 0..MaxOverlaps

Init ==
    /\ procs = [p \in Pids |-> Dead] /\ port = 0
    /\ file = [c \in Clusters |-> 0]
    /\ command = [s \in Shells |-> NoCommand]
    /\ clusters = Clusters /\ stopped = {}
    /\ foreign = 0 /\ deletes = 0 /\ faults = 0 /\ overlaps = 0

Forward(p) == procs[p] \in Clusters

End(p) ==
    /\ procs' = [procs EXCEPT ![p] = Dead]
    /\ port' = IF port = p THEN 0 ELSE port

-----------------------------------------------------------------------------
(***************************************************************************)
(* The host.                                                               *)
(***************************************************************************)

\* kubectl binds the port, or finds it taken and exits.
Bind(p) ==
    /\ Forward(p) /\ port # p
    /\ IF port = 0 THEN port' = p /\ UNCHANGED procs ELSE End(p)
    /\ UNCHANGED <<file, command, clusters, stopped, foreign, deletes, faults, overlaps>>

\* A forward ends by itself: the connection is lost, the host slept.
ForwardEnds(p) ==
    /\ Forward(p)
    /\ End(p)
    /\ UNCHANGED <<file, command, clusters, stopped, foreign, deletes, faults, overlaps>>

ForeignStarts(p) ==
    /\ foreign < MaxForeign
    /\ foreign' = foreign + 1
    /\ procs[p] = Dead
    /\ \E kind \in {Ours, Theirs} : procs' = [procs EXCEPT ![p] = kind]
    /\ UNCHANGED <<port, file, command, clusters, stopped, deletes, faults, overlaps>>

\* sims gpu delete, and sims gpu create with the same name: neither looks at
\* the forward or at its file.
DeleteCluster(c) ==
    /\ deletes < MaxDeletes
    /\ deletes' = deletes + 1
    /\ c \in clusters
    /\ clusters' = clusters \ {c}
    /\ UNCHANGED <<procs, port, file, command, stopped, foreign, faults, overlaps>>

CreateCluster(c) ==
    /\ c \notin clusters
    /\ clusters' = clusters \cup {c}
    /\ UNCHANGED <<procs, port, file, command, stopped, foreign, deletes, faults, overlaps>>

-----------------------------------------------------------------------------
(***************************************************************************)
(* The commands.                                                           *)
(***************************************************************************)
Goto(s, pc) ==
    command' = [command EXCEPT ![s] = IF pc = "idle" THEN NoCommand
                                      ELSE [@ EXCEPT !.pc = pc]]

Busy(c) == \E s \in Shells : command[s].pc # "idle" /\ command[s].cluster = c

\* resolveClusterName finds the cluster; then start or --stop begins.
RunDashboard(s, c) ==
    /\ command[s].pc = "idle"
    /\ c \in clusters
    /\ \E pc \in {"running?", "read"} :
          command' = [command EXCEPT ![s] = [pc |-> pc, cluster |-> c, pid |-> 0]]
    /\ stopped' = stopped \ {c}
    /\ overlaps' = IF Busy(c) THEN overlaps + 1 ELSE overlaps
    /\ overlaps' <= MaxOverlaps
    /\ UNCHANGED <<hostVars, file, faults>>

\* Mutant: a PID file that names a process is no reason not to start.
Running_Ignored(c) == FALSE

\* kill(pid, 0) succeeds: the process is there and is the user's own.
Running(c) == file[c] # 0 /\ procs[file[c]] \notin {Dead, Theirs}

readRunningPID(s) ==
    /\ command[s].pc = "running?"
    /\ Goto(s, IF Running(command[s].cluster) THEN "idle" ELSE "start")
    /\ UNCHANGED <<hostVars, file, stopped, faults, overlaps>>

\* startForward: cmd.Start of kubectl with a free PID.
startForward(s) ==
    /\ command[s].pc = "start"
    /\ \E p \in Pids :
          /\ procs[p] = Dead
          /\ procs' = [procs EXCEPT ![p] = command[s].cluster]
          /\ command' = [command EXCEPT ![s].pc = "write", ![s].pid = p]
    /\ UNCHANGED <<port, file, clusters, stopped, foreign, deletes, faults, overlaps>>

\* Mutant: the PID is read after Process.Release, which leaves -1.
WritePID_Released(s) ==
    /\ command[s].pc = "write"
    /\ file' = [file EXCEPT ![command[s].cluster] = -1]
    /\ Goto(s, "idle")
    /\ UNCHANGED <<hostVars, stopped, faults, overlaps>>

WritePID(s) ==
    /\ command[s].pc = "write"
    /\ file' = [file EXCEPT ![command[s].cluster] = command[s].pid]
    /\ Goto(s, "idle")
    /\ UNCHANGED <<hostVars, stopped, faults, overlaps>>

\* The file cannot be written: startForward returns the error and kubectl runs on.
WriteFails(s) ==
    /\ faults < MaxFaults
    /\ faults' = faults + 1
    /\ command[s].pc = "write"
    /\ Goto(s, "idle")
    /\ UNCHANGED <<hostVars, file, stopped, overlaps>>

\* A --stop command ends with success.
Done(s) ==
    /\ Goto(s, "idle")
    /\ stopped' = stopped \cup {command[s].cluster}

\* stopForward: without a file there is nothing to stop.
StopRead(s) ==
    /\ command[s].pc = "read"
    /\ LET p == file[command[s].cluster]
       IN  IF p = 0 THEN Done(s)
           ELSE /\ command' = [command EXCEPT ![s].pc = "kill", ![s].pid = p]
                /\ UNCHANGED stopped
    /\ UNCHANGED <<hostVars, file, faults, overlaps>>

\* Mutant: ESRCH and a kill that worked are told apart the wrong way round.
Kill_Spares(s) ==
    /\ command[s].pc = "kill"
    /\ Goto(s, "remove")
    /\ UNCHANGED <<hostVars, file, stopped, faults, overlaps>>

\* SIGTERM: to whatever process has the PID; none is fine; somebody else's is
\* an error that ends the command.
Kill(s) ==
    /\ command[s].pc = "kill"
    /\ LET p == command[s].pid
       IN  IF procs[p] = Theirs THEN Goto(s, "idle") /\ UNCHANGED <<procs, port>>
           ELSE Goto(s, "remove") /\ End(p)
    /\ UNCHANGED <<file, clusters, stopped, foreign, deletes, faults, overlaps>>

RemovePID(s) ==
    /\ command[s].pc = "remove"
    /\ file' = [file EXCEPT ![command[s].cluster] = 0]
    /\ Done(s)
    /\ UNCHANGED <<hostVars, faults, overlaps>>

HostNext ==
    \/ \E p \in Pids : Bind(p) \/ ForwardEnds(p) \/ ForeignStarts(p)
    \/ \E c \in Clusters : DeleteCluster(c) \/ CreateCluster(c)

CommandStep(s) ==
    \/ readRunningPID(s) \/ startForward(s) \/ WritePID(s) \/ WriteFails(s)
    \/ StopRead(s) \/ Kill(s) \/ RemovePID(s)

Next ==
    \/ HostNext
    \/ \E s \in Shells, c \in Clusters : RunDashboard(s, c)
    \/ \E s \in Shells : CommandStep(s)

Spec == Init /\ [][Next]_vars

-----------------------------------------------------------------------------
(***************************************************************************)
(* Properties.                                                             *)
(***************************************************************************)
Forwards(c) == {p \in Pids : procs[p] = c}

\* A forward that no command can stop any more costs a PID file that could not be
\* written or a second command for its cluster at the same time, whatever dies, is
\* deleted and has its PID used again in between.  (File and check are not atomic:
\* of two starts one may be lost, and a --stop may remove the file of a start.)
OrphansAreAccountedFor ==
    Cardinality({p \in Pids :
        /\ Forward(p)
        /\ file[procs[p]] # p
        /\ \A s \in Shells : command[s].pc # "write" \/ command[s].pid # p})
      <= faults + overlaps

\* After a --stop, and until the next command for the cluster, no forward to it
\* runs but those, and one that a command at the same time has started.
StopLeavesNothing ==
    \A c \in stopped : Cardinality(Forwards(c)) <= faults + overlaps

(***************************************************************************)
(* What a document says and the code does not do: "stores the PID under    *)
(* ~/.cache/sims/<cluster>/grafana.pid" and "sims gpu dashboard --stop     *)
(* kills the forward" (docs/architecture.md).                              *)
(***************************************************************************)

\* What --stop kills is the cluster's forward.
StopKillsTheForward ==
    [][\A s \in Shells :
          (command[s].pc = "kill" /\ command'[s].pc = "remove") =>
              procs[command[s].pid] \in {Dead, command[s].cluster}]_vars

\* The forward that serves localhost:3000, once no command runs, is the one whose
\* PID is stored.
PidIsStored ==
    (port # 0 /\ \A s \in Shells : command[s].pc = "idle")
        => file[procs[port]] = port
=============================================================================
