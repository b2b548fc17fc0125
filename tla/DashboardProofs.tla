-------------------------- MODULE DashboardProofs ---------------------------
(***************************************************************************)
(* Proofs of the safety properties of Dashboard, for any shells, clusters  *)
(* and PIDs: a counting argument charges every forward that no command can *)
(* stop to a failed write or to a command that overlapped with another.    *)
(***************************************************************************)
EXTENDS Dashboard, FiniteSetTheorems, TLAPS

LEMMA Bounds == /\ MaxPid \in Nat /\ MaxForeign \in Nat /\ MaxDeletes \in Nat
                /\ MaxFaults \in Nat /\ MaxOverlaps \in Nat
BY DashboardBoundsAssumption

\* A command that runs is one for a cluster, and has a PID where it needs one.
CommandInv ==
    \A s \in Shells :
        /\ command[s].pc # "idle" => command[s].cluster \in Clusters
        /\ command[s].pc \in {"write", "kill"} => command[s].pid \in Pids

TypeInv == TypeOK /\ CommandInv

-----------------------------------------------------------------------------
(***************************************************************************)
(* Type correctness.                                                       *)
(***************************************************************************)

LEMMA TypeInit == Init => TypeInv
<1> SUFFICES ASSUME Init PROVE TypeInv
  OBVIOUS
<1>1. NoCommand \in Command /\ NoCommand.pc = "idle"
  BY Bounds DEF NoCommand, Command
<1> QED BY <1>1, Bounds DEF Init, TypeInv, TypeOK, CommandInv

\* The command of shell s becomes another one.
LEMMA CommandType ==
    ASSUME TypeInv, NEW s \in Shells, NEW cmd \in Command,
           command' = [command EXCEPT ![s] = cmd],
           cmd.pc # "idle" => cmd.cluster \in Clusters,
           cmd.pc \in {"write", "kill"} => cmd.pid \in Pids
    PROVE  /\ command' \in [Shells -> Command]
           /\ command'[s] = cmd
           /\ \A t \in Shells \ {s} : command'[t] = command[t]
           /\ CommandInv'
<1>1. /\ command' \in [Shells -> Command]
      /\ command'[s] = cmd
      /\ \A t \in Shells \ {s} : command'[t] = command[t]
  BY DEF TypeInv, TypeOK
<1> QED BY <1>1 DEF TypeInv, CommandInv

\* The next command of shell s that goes to pc, which needs no PID.
LEMMA GotoType ==
    ASSUME TypeInv, NEW s \in Shells, NEW pc \in {"idle", "start", "remove"},
           command[s].pc # "idle", Goto(s, pc)
    PROVE  /\ command' \in [Shells -> Command]
           /\ command'[s].pc = pc
           /\ pc # "idle" => command'[s].cluster = command[s].cluster
           /\ \A t \in Shells \ {s} : command'[t] = command[t]
           /\ CommandInv'
<1> DEFINE cmd == IF pc = "idle" THEN NoCommand ELSE [command[s] EXCEPT !.pc = pc]
<1>1. command[s] \in Command
  BY DEF TypeInv, TypeOK
<1>2. cmd \in Command
  BY <1>1, Bounds DEF NoCommand, Command
<1>3. cmd.pc = pc /\ (pc # "idle" => cmd.cluster = command[s].cluster)
  BY <1>1 DEF NoCommand, Command
<1>4. command' = [command EXCEPT ![s] = cmd]
  BY DEF Goto
<1>5. command[s].cluster \in Clusters
  BY DEF TypeInv, CommandInv
<1> HIDE DEF cmd
<1> QED BY <1>2, <1>3, <1>4, <1>5, CommandType

\* The next command of shell s that goes to pc with PID p.
LEMMA PidType ==
    ASSUME TypeInv, NEW s \in Shells, NEW pc \in {"write", "kill"}, NEW p \in Pids,
           command[s].pc # "idle",
           command' = [command EXCEPT ![s].pc = pc, ![s].pid = p]
    PROVE  /\ command' \in [Shells -> Command]
           /\ command'[s].pc = pc
           /\ command'[s].cluster = command[s].cluster
           /\ command'[s].pid = p
           /\ \A t \in Shells \ {s} : command'[t] = command[t]
           /\ CommandInv'
<1> DEFINE cmd == [command[s] EXCEPT !.pc = pc, !.pid = p]
<1>1. command[s] \in Command /\ command \in [Shells -> Command]
  BY DEF TypeInv, TypeOK
<1>2. p \in 0..MaxPid
  BY Bounds DEF Pids
<1>3. cmd \in Command
  BY <1>1, <1>2 DEF Command
<1>4. cmd.pc = pc /\ cmd.cluster = command[s].cluster /\ cmd.pid = p
  BY <1>1 DEF Command
<1>5. command' = [command EXCEPT ![s] = cmd]
  BY <1>1
<1>6. command[s].cluster \in Clusters
  BY DEF TypeInv, CommandInv
<1> HIDE DEF cmd
<1> QED BY <1>3, <1>4, <1>5, <1>6, CommandType

LEMMA EndType ==
    ASSUME TypeOK, NEW p, End(p)
    PROVE  procs' \in [Pids -> Clusters \cup {Dead, Ours, Theirs}] /\ port' \in 0..MaxPid
<1>1. procs' \in [Pids -> Clusters \cup {Dead, Ours, Theirs}]
  BY DEF TypeOK, End
<1>2. port' \in 0..MaxPid
  BY Bounds DEF TypeOK, End
<1> QED BY <1>1, <1>2

LEMMA HostType == ASSUME TypeInv, HostNext PROVE TypeInv'
<1>1. command' = command /\ file' = file /\ stopped' = stopped
  BY DEF HostNext, Bind, ForwardEnds, ForeignStarts, DeleteCluster, CreateCluster
<1>2. CommandInv'
  BY <1>1 DEF TypeInv, CommandInv
<1>3. ASSUME NEW p \in Pids, Bind(p) PROVE TypeOK'
  <2>1. procs' \in [Pids -> Clusters \cup {Dead, Ours, Theirs}] /\ port' \in 0..MaxPid
    BY <1>3, EndType, Bounds DEF Bind, TypeInv, TypeOK, Pids
  <2> QED BY <1>3, <2>1 DEF Bind, TypeInv, TypeOK
<1>4. ASSUME NEW p \in Pids, ForwardEnds(p) PROVE TypeOK'
  BY <1>4, EndType DEF ForwardEnds, TypeInv, TypeOK
<1>5. ASSUME NEW p \in Pids, ForeignStarts(p) PROVE TypeOK'
  BY <1>5, Bounds DEF ForeignStarts, TypeInv, TypeOK
<1>6. ASSUME NEW c \in Clusters, DeleteCluster(c) PROVE TypeOK'
  BY <1>6, Bounds DEF DeleteCluster, TypeInv, TypeOK
<1>7. ASSUME NEW c \in Clusters, CreateCluster(c) PROVE TypeOK'
  BY <1>7 DEF CreateCluster, TypeInv, TypeOK
<1> QED BY <1>2, <1>3, <1>4, <1>5, <1>6, <1>7 DEF HostNext, TypeInv

LEMMA RunType ==
    ASSUME TypeInv, NEW s \in Shells, NEW c \in Clusters, RunDashboard(s, c)
    PROVE  /\ TypeInv'
           /\ command'[s].pc \in {"running?", "read"} /\ command'[s].cluster = c
           /\ \A t \in Shells \ {s} : command'[t] = command[t]
<1>1. PICK pc \in {"running?", "read"} :
         command' = [command EXCEPT ![s] = [pc |-> pc, cluster |-> c, pid |-> 0]]
  BY DEF RunDashboard
<1> DEFINE cmd == [pc |-> pc, cluster |-> c, pid |-> 0]
<1>2. cmd \in Command /\ cmd.pc = pc /\ cmd.cluster = c
  BY Bounds DEF Command
<1> HIDE DEF cmd
<1>3. /\ command' \in [Shells -> Command] /\ command'[s] = cmd /\ CommandInv'
      /\ \A t \in Shells \ {s} : command'[t] = command[t]
  BY <1>1, <1>2, CommandType DEF cmd
<1>4. overlaps' \in 0..MaxOverlaps /\ stopped' \subseteq Clusters
  BY Bounds DEF RunDashboard, TypeInv, TypeOK
<1>5. UNCHANGED <<procs, port, clusters, foreign, deletes, file, faults>>
  BY DEF RunDashboard, hostVars
<1> QED BY <1>2, <1>3, <1>4, <1>5 DEF TypeInv, TypeOK

\* The kinds of step a command takes: it ends; it goes on without a PID; it goes on
\* with one.
Ends(s) ==
    /\ command[s].pc # "idle" /\ command'[s].pc = "idle"
    /\ \A t \in Shells \ {s} : command'[t] = command[t]

GoesOn(s, pc) ==
    /\ command[s].pc # "idle" /\ command'[s].pc = pc /\ pc # "idle"
    /\ command'[s].cluster = command[s].cluster
    /\ \A t \in Shells \ {s} : command'[t] = command[t]

LEMMA CommandKinds ==
    ASSUME TypeInv, NEW s \in Shells
    PROVE  /\ readRunningPID(s) =>
                 IF Running(command[s].cluster) THEN Ends(s) ELSE GoesOn(s, "start")
           /\ startForward(s) => GoesOn(s, "write")
           /\ WritePID(s) \/ WriteFails(s) => Ends(s)
           /\ StopRead(s) =>
                 IF file[command[s].cluster] = 0 THEN Ends(s)
                 ELSE GoesOn(s, "kill") /\ command'[s].pid = file[command[s].cluster]
           /\ Kill(s) => IF procs[command[s].pid] = Theirs THEN Ends(s)
                         ELSE GoesOn(s, "remove")
           /\ RemovePID(s) => Ends(s)
           /\ CommandStep(s) => CommandInv' /\ command' \in [Shells -> Command]
<1> DEFINE Kept == CommandInv' /\ command' \in [Shells -> Command]
<1>1. ASSUME command[s].pc # "idle", Goto(s, "idle") PROVE Ends(s) /\ Kept
  BY <1>1, GotoType DEF Ends
<1>2. ASSUME NEW pc \in {"start", "remove"}, command[s].pc # "idle", Goto(s, pc)
      PROVE  GoesOn(s, pc) /\ Kept
  BY <1>2, GotoType DEF GoesOn
<1>3. ASSUME readRunningPID(s)
      PROVE  Kept /\ IF Running(command[s].cluster) THEN Ends(s) ELSE GoesOn(s, "start")
  BY <1>1, <1>2, <1>3 DEF readRunningPID
<1>4. ASSUME startForward(s) PROVE Kept /\ GoesOn(s, "write")
  BY <1>4, PidType DEF startForward, GoesOn
<1>5. ASSUME WritePID(s) \/ WriteFails(s) PROVE Kept /\ Ends(s)
  BY <1>1, <1>5 DEF WritePID, WriteFails
<1>6. ASSUME StopRead(s)
      PROVE  Kept /\ IF file[command[s].cluster] = 0 THEN Ends(s)
                     ELSE /\ GoesOn(s, "kill")
                          /\ command'[s].pid = file[command[s].cluster]
  <2> DEFINE p == file[command[s].cluster]
  <2>1. command[s].pc = "read" /\ command[s].cluster \in Clusters
    BY <1>6 DEF StopRead, TypeInv, CommandInv
  <2>2. CASE p = 0
    BY <1>1, <1>6, <2>1, <2>2 DEF StopRead, Done
  <2>3. CASE p # 0
    <3>1. p \in Pids
      BY <2>1, <2>3, Bounds DEF TypeInv, TypeOK, Pids
    <3> QED BY <1>6, <2>1, <2>3, <3>1, PidType DEF StopRead, GoesOn
  <2> QED BY <2>2, <2>3
<1>7. ASSUME Kill(s)
      PROVE  Kept /\ IF procs[command[s].pid] = Theirs THEN Ends(s) ELSE GoesOn(s, "remove")
  BY <1>1, <1>2, <1>7 DEF Kill
<1>8. ASSUME RemovePID(s) PROVE Kept /\ Ends(s)
  BY <1>1, <1>8 DEF RemovePID, Done
<1> HIDE DEF Kept
<1>9. CommandStep(s) => Kept
  BY <1>3, <1>4, <1>5, <1>6, <1>7, <1>8 DEF CommandStep
<1> QED BY <1>3, <1>4, <1>5, <1>6, <1>7, <1>8, <1>9 DEF Kept

LEMMA CommandStepType ==
    ASSUME TypeInv, NEW s \in Shells, CommandStep(s)
    PROVE  TypeInv'
<1>1. CommandInv' /\ command' \in [Shells -> Command]
  BY CommandKinds
<1>2. /\ command[s].pc # "idle" => command[s].cluster \in Clusters
      /\ command[s].pc \in {"write", "kill"} => command[s].pid \in Pids
  BY DEF TypeInv, CommandInv
<1>3. CASE readRunningPID(s)
  BY <1>1, <1>3 DEF readRunningPID, hostVars, TypeInv, TypeOK
<1>4. CASE startForward(s)
  <2>1. procs' \in [Pids -> Clusters \cup {Dead, Ours, Theirs}]
    BY <1>2, <1>4 DEF startForward, TypeInv, TypeOK
  <2> QED BY <1>1, <1>4, <2>1 DEF startForward, TypeInv, TypeOK
<1>5. CASE WritePID(s)
  <2>1. command[s].pid \in 0..MaxPid
    BY <1>2, <1>5, Bounds DEF WritePID, Pids
  <2>2. file' \in [Clusters -> 0..MaxPid]
    BY <1>5, <2>1 DEF WritePID, TypeInv, TypeOK
  <2> QED BY <1>1, <1>5, <2>2 DEF WritePID, hostVars, TypeInv, TypeOK
<1>6. CASE WriteFails(s)
  BY <1>1, <1>6, Bounds DEF WriteFails, hostVars, TypeInv, TypeOK
<1>7. CASE StopRead(s)
  <2>1. stopped' \subseteq Clusters
    BY <1>2, <1>7 DEF StopRead, Done, TypeInv, TypeOK
  <2> QED BY <1>1, <1>7, <2>1 DEF StopRead, hostVars, TypeInv, TypeOK
<1>8. CASE Kill(s)
  <2>1. procs' \in [Pids -> Clusters \cup {Dead, Ours, Theirs}] /\ port' \in 0..MaxPid
    BY <1>8, EndType DEF Kill, TypeInv, TypeOK
  <2> QED BY <1>1, <1>8, <2>1 DEF Kill, TypeInv, TypeOK
<1>9. CASE RemovePID(s)
  <2>1. file' \in [Clusters -> 0..MaxPid] /\ stopped' \subseteq Clusters
    BY <1>2, <1>9, Bounds DEF RemovePID, Done, TypeInv, TypeOK
  <2> QED BY <1>1, <1>9, <2>1 DEF RemovePID, hostVars, TypeInv, TypeOK
<1> QED BY <1>3, <1>4, <1>5, <1>6, <1>7, <1>8, <1>9 DEF CommandStep

LEMMA TypeStep == ASSUME TypeInv, [Next]_vars PROVE TypeInv'
<1>1. CASE UNCHANGED vars
  BY <1>1 DEF vars, hostVars, TypeInv, TypeOK, CommandInv
<1> QED BY <1>1, HostType, RunType, CommandStepType DEF Next

LEMMA TypeAlways == Spec => []TypeInv
BY TypeInit, TypeStep, PTL DEF Spec

\* The host's, the files' and the commands' variables keep their types.
THEOREM TypeCorrect == Spec => []TypeOK
<1>1. TypeInv => TypeOK
  BY DEF TypeInv
<1> QED BY <1>1, TypeAlways, PTL

-----------------------------------------------------------------------------
(***************************************************************************)
(* Counting commands.                                                      *)
(***************************************************************************)

Commands(c) == {s \in Shells : command[s].pc # "idle" /\ command[s].cluster = c}

BusyShells == {s \in Shells : command[s].pc # "idle"}

BusyClusters == {c \in Clusters : Commands(c) # {}}

\* A set that a function covers from another one is no larger.
LEMMA Covered ==
    ASSUME NEW S, NEW T, IsFiniteSet(S), NEW f \in [S -> T],
           \A t \in T : \E s \in S : f[s] = t
    PROVE  /\ IsFiniteSet(T) /\ Cardinality(T) <= Cardinality(S)
           /\ Cardinality(T) \in Nat /\ Cardinality(S) \in Nat
<1>1. f \in Surjection(S, T)
  BY DEF Surjection
<1>2. IsFiniteSet(T) /\ Cardinality(T) <= Cardinality(S)
  BY <1>1, FS_Surjection
<1> QED BY <1>2, FS_CardinalityType

LEMMA Part ==
    ASSUME NEW S, NEW T, IsFiniteSet(S), T \subseteq S
    PROVE  /\ IsFiniteSet(T) /\ Cardinality(T) <= Cardinality(S)
           /\ Cardinality(T) \in Nat /\ Cardinality(S) \in Nat
<1>1. IsFiniteSet(T) /\ Cardinality(T) <= Cardinality(S)
  BY FS_Subset
<1> QED BY <1>1, FS_CardinalityType

LEMMA OneMore ==
    ASSUME NEW S, NEW T, NEW x, IsFiniteSet(S), T \subseteq S \cup {x}
    PROVE  /\ IsFiniteSet(T) /\ Cardinality(T) <= Cardinality(S) + 1
           /\ Cardinality(T) \in Nat /\ Cardinality(S) \in Nat
<1>0. Cardinality(S) \in Nat
  BY FS_CardinalityType
<1>1. /\ IsFiniteSet(S \cup {x}) /\ Cardinality(S) \in Nat
      /\ Cardinality(S \cup {x}) <= Cardinality(S) + 1
  BY <1>0, FS_AddElement
<1>2. /\ IsFiniteSet(T) /\ Cardinality(T) \in Nat
      /\ Cardinality(T) <= Cardinality(S \cup {x}) /\ Cardinality(S \cup {x}) \in Nat
  BY <1>1, Part
<1> QED BY <1>1, <1>2

LEMMA OneLess ==
    ASSUME NEW S, NEW x \in S, IsFiniteSet(S)
    PROVE  /\ IsFiniteSet(S \ {x}) /\ Cardinality(S \ {x}) = Cardinality(S) - 1
           /\ Cardinality(S \ {x}) \in Nat /\ Cardinality(S) \in Nat
BY FS_RemoveElement, FS_CardinalityType

LEMMA BusyClustersFinite ==
    ASSUME TypeInv, IsFiniteSet(BusyShells)
    PROVE  /\ IsFiniteSet(BusyClusters)
           /\ Cardinality(BusyClusters) <= Cardinality(BusyShells)
           /\ Cardinality(BusyClusters) \in Nat /\ Cardinality(BusyShells) \in Nat
<1> DEFINE f == [s \in BusyShells |-> command[s].cluster]
<1>1. f \in [BusyShells -> BusyClusters]
  BY DEF BusyShells, BusyClusters, Commands, TypeInv, CommandInv
<1>2. \A c \in BusyClusters : \E s \in BusyShells : f[s] = c
  BY DEF BusyShells, BusyClusters, Commands
<1> HIDE DEF f
<1> QED BY <1>1, <1>2, Covered

\* When a command ends, its cluster may be left to nobody.
LEMMA EndsCount ==
    ASSUME TypeInv, IsFiniteSet(BusyShells), NEW s \in Shells, Ends(s)
    PROVE  /\ IsFiniteSet(BusyShells')
           /\ Cardinality(BusyShells') = Cardinality(BusyShells) - 1
           /\ Cardinality(BusyClusters') >= Cardinality(BusyClusters) - 1
           /\ Commands(command[s].cluster) # {s} =>
                 Cardinality(BusyClusters') = Cardinality(BusyClusters)
<1> DEFINE c == command[s].cluster
<1>1. BusyShells' = BusyShells \ {s} /\ s \in BusyShells
  BY DEF Ends, BusyShells
<1>2. /\ IsFiniteSet(BusyShells')
      /\ Cardinality(BusyShells') = Cardinality(BusyShells) - 1
  BY <1>1, OneLess
<1>3. c \in BusyClusters /\ s \in Commands(c)
  BY DEF Ends, BusyClusters, Commands, TypeInv, CommandInv
<1>4. \A d \in Clusters : Commands(d)' = Commands(d) \ {s}
  BY DEF Ends, Commands
<1>5. \A d \in Clusters \ {c} : Commands(d)' = Commands(d)
  BY <1>4 DEF Commands
<1>6. BusyClusters \ {c} \subseteq BusyClusters' /\ BusyClusters' \subseteq BusyClusters
  BY <1>4, <1>5 DEF BusyClusters
<1>7. Commands(c) # {s} => BusyClusters' = BusyClusters
  BY <1>3, <1>4, <1>6 DEF BusyClusters
<1>8. /\ IsFiniteSet(BusyClusters) /\ IsFiniteSet(BusyClusters')
      /\ Cardinality(BusyClusters) \in Nat /\ Cardinality(BusyClusters') \in Nat
  <2>1. IsFiniteSet(BusyClusters) /\ Cardinality(BusyClusters) \in Nat
    BY BusyClustersFinite
  <2> QED BY <1>6, <2>1, Part
<1>9. Cardinality(BusyClusters \ {c}) = Cardinality(BusyClusters) - 1
  BY <1>3, <1>8, OneLess
<1>10. Cardinality(BusyClusters \ {c}) <= Cardinality(BusyClusters')
  BY <1>6, <1>8, Part
<1> QED BY <1>2, <1>7, <1>8, <1>9, <1>10

LEMMA GoesOnCount ==
    ASSUME NEW s \in Shells, NEW pc, GoesOn(s, pc)
    PROVE  BusyShells' = BusyShells /\ BusyClusters' = BusyClusters
<1>1. \A t \in Shells : /\ command'[t].pc # "idle" <=> command[t].pc # "idle"
                        /\ command'[t].cluster = command[t].cluster
  BY DEF GoesOn
<1> QED BY <1>1 DEF BusyShells, BusyClusters, Commands

\* A command that begins is the first one for its cluster, or an overlap.
LEMMA RunCount ==
    ASSUME TypeInv, IsFiniteSet(BusyShells),
           NEW s \in Shells, NEW c \in Clusters, RunDashboard(s, c)
    PROVE  /\ IsFiniteSet(BusyShells')
           /\ Cardinality(BusyShells') = Cardinality(BusyShells) + 1
           /\ overlaps' + Cardinality(BusyClusters')
                 = overlaps + Cardinality(BusyClusters) + 1
<1>1. /\ command'[s].pc # "idle" /\ command'[s].cluster = c
      /\ \A t \in Shells \ {s} : command'[t] = command[t]
      /\ command[s].pc = "idle"
  BY RunType DEF RunDashboard
<1>2. BusyShells' = BusyShells \cup {s} /\ s \notin BusyShells
  BY <1>1 DEF BusyShells
<1>3. /\ IsFiniteSet(BusyShells')
      /\ Cardinality(BusyShells') = Cardinality(BusyShells) + 1
  BY <1>2, FS_AddElement
<1>4. BusyClusters' = BusyClusters \cup {c}
  BY <1>1 DEF BusyClusters, Commands
<1>5. Busy(c) <=> c \in BusyClusters
  BY DEF Busy, BusyClusters, Commands
<1>6. IsFiniteSet(BusyClusters) /\ Cardinality(BusyClusters) \in Nat
  BY BusyClustersFinite
<1>7. Cardinality(BusyClusters') = IF c \in BusyClusters THEN Cardinality(BusyClusters)
                                   ELSE Cardinality(BusyClusters) + 1
  BY <1>4, <1>6, FS_AddElement
<1>8. overlaps' = (IF Busy(c) THEN overlaps + 1 ELSE overlaps) /\ overlaps \in Nat
  BY Bounds DEF RunDashboard, TypeInv, TypeOK
<1> QED BY <1>3, <1>5, <1>6, <1>7, <1>8
-----------------------------------------------------------------------------
(***************************************************************************)
(* Forwards that no command can stop, or that one is about to cut loose.   *)
(***************************************************************************)

\* Shell s runs a command that is about to change its cluster's PID file.
Threatens(s) ==
    \/ command[s].pc \in {"start", "remove"}
    \/ command[s].pc \in {"write", "kill"} /\ command[s].pid # file[command[s].cluster]

Threatened(c) == \E s \in Commands(c) : Threatens(s)

\* A command will write PID p to the file of cluster c.
Written(p, c) == \E s \in Commands(c) : command[s].pc = "write" /\ command[s].pid = p

Lost ==
    {p \in Pids : /\ Forward(p)
                  /\ ~Written(p, procs[p])
                  /\ file[procs[p]] # p \/ Threatened(procs[p])}

\* A step that leaves the files alone loses only forwards that a command in X was to
\* write and did not, when no command newly threatens a forward that is stored.
LEMMA LostShrinks ==
    ASSUME NEW X, file' = file,
           \A p \in Pids : procs'[p] \in Clusters =>
               \/ procs'[p] = procs[p]
               \/ \E t \in Shells : /\ command'[t].pc = "write" /\ command'[t].pid = p
                                    /\ command'[t].cluster = procs'[p],
           \A t \in Shells :
               \/ command'[t] = command[t]
               \/ /\ command[t].pc = "write" => command[t].pid \in X
                  /\ command'[t].pc # "idle" /\ Threatens(t)' =>
                        /\ command'[t].cluster = command[t].cluster
                        /\ command[t].pc # "idle"
                        /\ \/ Threatens(t)
                           \/ file[command[t].cluster] \notin Pids
                           \/ procs'[file[command[t].cluster]] # command[t].cluster
    PROVE  Lost' \subseteq Lost \cup X
<1> SUFFICES ASSUME NEW p \in Pids, p \in Lost', p \notin X
             PROVE  p \in Lost
  BY DEF Lost
<1> DEFINE c == procs'[p]
<1>1. /\ c \in Clusters
      /\ ~\E t \in Shells : /\ command'[t].pc = "write" /\ command'[t].pid = p
                            /\ command'[t].cluster = c
  BY DEF Lost, Forward, Written, Commands
<1>2. procs[p] = c
  BY <1>1
<1>3. ~Written(p, c)
  BY <1>1 DEF Written, Commands
<1>4. CASE file[c] # p
  BY <1>1, <1>2, <1>3, <1>4 DEF Lost, Forward
<1>5. CASE file[c] = p
  <2>1. PICK t \in Shells : /\ command'[t].pc # "idle" /\ command'[t].cluster = c
                            /\ Threatens(t)'
    BY <1>5 DEF Lost, Threatened, Commands
  <2>2. CASE command'[t] = command[t]
    BY <1>1, <1>2, <1>3, <2>1, <2>2 DEF Lost, Forward, Threatened, Threatens, Commands
  <2>3. CASE command'[t] # command[t]
    <3>1. command[t].cluster = c /\ command[t].pc # "idle" /\ Threatens(t)
      BY <1>2, <1>5, <2>1, <2>3
    <3> QED BY <1>1, <1>2, <1>3, <3>1 DEF Lost, Forward, Threatened, Commands
  <2> QED BY <2>2, <2>3
<1> QED BY <1>4, <1>5

\* A command that ends and stores x loses at most x, and that only to another
\* command for the same cluster.
LEMMA LostAtStore ==
    ASSUME TypeInv, NEW s \in Shells, Ends(s), NEW x, procs' = procs,
           file' = [file EXCEPT ![command[s].cluster] = x],
           Threatens(s) \/ file[command[s].cluster] = x,
           command[s].pc = "write" => command[s].pid = x
    PROVE  /\ Lost' \subseteq Lost \cup {x}
           /\ x \in Lost' \ Lost => Commands(command[s].cluster) # {s}
<1> DEFINE c == command[s].cluster
<1>1. c \in Clusters /\ command[s].pc # "idle"
  BY DEF Ends, TypeInv, CommandInv
<1>2. file'[c] = x /\ \A d \in Clusters \ {c} : file'[d] = file[d]
  BY <1>1 DEF TypeInv, TypeOK
<1>3. \A d \in Clusters : Commands(d)' = Commands(d) \ {s}
  BY DEF Ends, Commands
<1>4. ASSUME NEW p \in Lost', p # x \/ procs[p] # c
      PROVE  p \in Lost
  <2> DEFINE d == procs[p]
  <2>1. p \in Pids /\ d \in Clusters /\ procs'[p] = d
    BY <1>4 DEF Lost, Forward
  <2>2. ~Written(p, d)
    <3>1. \A t \in Shells \ {s} : ~(/\ command[t].pc = "write" /\ command[t].pid = p
                                    /\ command[t].cluster = d)
      BY <2>1 DEF Lost, Written, Commands, Ends
    <3>2. ~(command[s].pc = "write" /\ command[s].pid = p /\ c = d)
      BY <1>4
    <3> QED BY <3>1, <3>2 DEF Written, Commands
  <2>3. CASE d = c
    <3>1. file[c] # p \/ Threatens(s)
      BY <1>4, <2>3
    <3> QED BY <1>1, <2>1, <2>2, <2>3, <3>1 DEF Lost, Forward, Threatened, Commands
  <2>4. CASE d # c
    <3>1. file'[d] = file[d]
      BY <1>2, <2>1, <2>4
    <3>2. CASE file[d] # p
      BY <2>1, <2>2, <3>2 DEF Lost, Forward
    <3>3. CASE file[d] = p
      <4>1. PICK t \in Shells : /\ command'[t].pc # "idle" /\ command'[t].cluster = d
                                /\ Threatens(t)'
        BY <2>1, <3>1, <3>3 DEF Lost, Threatened, Commands
      <4>2. command'[t] = command[t]
        BY <4>1 DEF Ends
      <4>3. Threatens(t)
        BY <3>1, <4>1, <4>2 DEF Threatens
      <4> QED BY <2>1, <2>2, <4>1, <4>2, <4>3 DEF Lost, Forward, Threatened, Commands
    <3> QED BY <3>2, <3>3
  <2> QED BY <2>3, <2>4
<1>5. ASSUME x \in Lost', x \notin Lost
      PROVE  Commands(c) # {s}
  <2>1. procs[x] = c /\ procs'[x] = c
    BY <1>4, <1>5
  <2>2. PICK t \in Shells : command'[t].pc # "idle" /\ command'[t].cluster = c
    BY <1>2, <1>5, <2>1 DEF Lost, Threatened, Commands
  <2>3. t # s /\ t \in Commands(c)
    BY <2>2 DEF Ends, Commands
  <2> QED BY <2>3
<1> QED BY <1>4, <1>5

LEMMA LostFinite == IsFiniteSet(Lost) /\ Cardinality(Lost) \in Nat
<1>1. IsFiniteSet(Pids)
  BY Bounds, FS_Interval DEF Pids
<1> QED BY <1>1, Part DEF Lost
\* One failed write or one overlap pays for each lost forward; a command that runs
\* beside another one for its cluster holds the payment for what it may yet lose.
LostInv ==
    /\ IsFiniteSet(BusyShells)
    /\ Cardinality(Lost) + Cardinality(BusyShells)
          <= faults + overlaps + Cardinality(BusyClusters)

LEMMA LostInit == ASSUME Init PROVE LostInv
<1>1. \A s \in Shells : command[s].pc = "idle"
  BY DEF Init, NoCommand
<1>2. \A p \in Pids : ~Forward(p)
  BY ClustersAssumption DEF Init, Forward
<1>3. BusyShells = {} /\ BusyClusters = {} /\ Lost = {}
  BY <1>1, <1>2 DEF BusyShells, BusyClusters, Commands, Lost
<1> QED BY <1>3, FS_EmptySet DEF Init, LostInv

LEMMA Counts ==
    ASSUME TypeInv, LostInv
    PROVE  /\ faults \in Nat /\ overlaps \in Nat
           /\ IsFiniteSet(Lost) /\ Cardinality(Lost) \in Nat
           /\ IsFiniteSet(BusyShells) /\ Cardinality(BusyShells) \in Nat
           /\ IsFiniteSet(BusyClusters) /\ Cardinality(BusyClusters) \in Nat
           /\ Cardinality(BusyClusters) <= Cardinality(BusyShells)
<1>1. faults \in Nat /\ overlaps \in Nat
  BY Bounds DEF TypeInv, TypeOK
<1>2. /\ IsFiniteSet(BusyShells) /\ Cardinality(BusyShells) \in Nat
      /\ IsFiniteSet(BusyClusters) /\ Cardinality(BusyClusters) \in Nat
      /\ Cardinality(BusyClusters) <= Cardinality(BusyShells)
  BY BusyClustersFinite DEF LostInv
<1> QED BY <1>1, <1>2, LostFinite

\* A step that keeps the commands' clusters and loses nothing.
LEMMA LostKept ==
    ASSUME TypeInv, LostInv, Lost' \subseteq Lost,
           BusyShells' = BusyShells, BusyClusters' = BusyClusters,
           faults' = faults, overlaps' = overlaps
    PROVE  LostInv'
<1>1. Cardinality(Lost') <= Cardinality(Lost) /\ Cardinality(Lost') \in Nat
  BY Counts, Part
<1> QED BY <1>1, Counts DEF LostInv

\* A command ends.  At most one forward more is lost, and then its payment is there.
LEMMA LostEnds ==
    ASSUME TypeInv, LostInv, TypeInv', NEW s \in Shells, Ends(s), NEW x,
           Lost' \subseteq Lost \cup {x}, overlaps' = overlaps,
           \/ Lost' \subseteq Lost /\ faults' = faults
           \/ faults' = faults + 1
           \/ Commands(command[s].cluster) # {s} /\ faults' = faults
    PROVE  LostInv'
<1>1. /\ IsFiniteSet(BusyShells')
      /\ Cardinality(BusyShells') = Cardinality(BusyShells) - 1
      /\ Cardinality(BusyClusters') >= Cardinality(BusyClusters) - 1
      /\ Commands(command[s].cluster) # {s} =>
            Cardinality(BusyClusters') = Cardinality(BusyClusters)
  BY EndsCount DEF LostInv
<1>2. Cardinality(Lost') <= Cardinality(Lost) + 1 /\ Cardinality(Lost') \in Nat
  BY Counts, OneMore
<1>3. Lost' \subseteq Lost => Cardinality(Lost') <= Cardinality(Lost)
  BY Counts, Part
<1>4. Cardinality(BusyClusters') \in Nat
  <2>1. BusyClusters' \subseteq BusyClusters
    BY DEF Ends, BusyClusters, Commands
  <2> QED BY <2>1, Counts, Part
<1>5. /\ faults \in Nat /\ overlaps \in Nat /\ Cardinality(Lost) \in Nat
      /\ Cardinality(BusyShells) \in Nat /\ Cardinality(BusyClusters) \in Nat
      /\ Cardinality(Lost) + Cardinality(BusyShells)
            <= faults + overlaps + Cardinality(BusyClusters)
  BY Counts DEF LostInv
<1>6. faults' \in Nat
  BY Bounds DEF TypeInv, TypeOK
<1> QED BY <1>1, <1>2, <1>3, <1>4, <1>5, <1>6 DEF LostInv

LEMMA LostHost == ASSUME TypeInv, LostInv, HostNext PROVE LostInv'
<1>1. command' = command /\ file' = file /\ faults' = faults /\ overlaps' = overlaps
  BY DEF HostNext, Bind, ForwardEnds, ForeignStarts, DeleteCluster, CreateCluster
<1>2. \A p \in Pids : procs'[p] \in Clusters => procs'[p] = procs[p]
  <2>0. \A p, q \in Pids : \A k :
           procs' = [procs EXCEPT ![q] = k] /\ k \notin Clusters =>
              (procs'[p] \in Clusters => procs'[p] = procs[p])
    BY DEF TypeInv, TypeOK
  <2>1. Dead \notin Clusters /\ Ours \notin Clusters /\ Theirs \notin Clusters
    BY ClustersAssumption
  <2>2. ASSUME NEW q \in Pids, Bind(q) \/ ForwardEnds(q) \/ ForeignStarts(q)
        PROVE  \/ procs' = procs
               \/ \E k : procs' = [procs EXCEPT ![q] = k] /\ k \notin Clusters
    BY <2>1, <2>2 DEF Bind, ForwardEnds, ForeignStarts, End
  <2>3. ASSUME NEW c \in Clusters, DeleteCluster(c) \/ CreateCluster(c)
        PROVE  procs' = procs
    BY <2>3 DEF DeleteCluster, CreateCluster
  <2> QED BY <2>0, <2>2, <2>3 DEF HostNext
<1>3. Lost' \subseteq Lost \cup {}
  BY <1>1, <1>2, LostShrinks
<1>4. BusyShells' = BusyShells /\ BusyClusters' = BusyClusters
  BY <1>1 DEF BusyShells, BusyClusters, Commands
<1> QED BY <1>1, <1>3, <1>4, LostKept

LEMMA LostRun ==
    ASSUME TypeInv, LostInv, NEW s \in Shells, NEW c \in Clusters, RunDashboard(s, c)
    PROVE  LostInv'
<1>1. /\ command'[s].pc \in {"running?", "read"} /\ command'[s].cluster = c
      /\ \A t \in Shells \ {s} : command'[t] = command[t]
      /\ TypeInv'
  BY RunType
<1>2. command[s].pc = "idle" /\ procs' = procs /\ file' = file /\ faults' = faults
  BY DEF RunDashboard, hostVars
<1>3. ~Threatens(s)'
  BY <1>1 DEF Threatens
<1>4. Lost' \subseteq Lost \cup {}
  BY <1>1, <1>2, <1>3, LostShrinks
<1>5. Cardinality(Lost') <= Cardinality(Lost) /\ Cardinality(Lost') \in Nat
  BY <1>4, Counts, Part
<1>6. /\ IsFiniteSet(BusyShells')
      /\ Cardinality(BusyShells') = Cardinality(BusyShells) + 1
      /\ overlaps' + Cardinality(BusyClusters') = overlaps + Cardinality(BusyClusters) + 1
  BY RunCount DEF LostInv
<1>7. /\ faults \in Nat /\ overlaps \in Nat /\ Cardinality(Lost) \in Nat
      /\ Cardinality(BusyShells) \in Nat /\ Cardinality(BusyClusters) \in Nat
      /\ Cardinality(Lost) + Cardinality(BusyShells)
            <= faults + overlaps + Cardinality(BusyClusters)
  BY Counts DEF LostInv
<1>8. overlaps' \in Nat
  BY <1>1, Bounds DEF TypeInv, TypeOK
<1>9. Cardinality(BusyClusters') \in Int
  <2>1. BusyClusters' \subseteq BusyClusters \cup {c}
    BY <1>1 DEF BusyClusters, Commands
  <2>2. IsFiniteSet(BusyClusters)
    BY Counts
  <2>3. Cardinality(BusyClusters') \in Nat
    BY <2>1, <2>2, OneMore
  <2> QED BY <2>3
<1>10. Cardinality(Lost') + Cardinality(BusyShells')
          <= faults + (overlaps' + Cardinality(BusyClusters'))
  BY <1>5, <1>6, <1>7
<1> QED BY <1>2, <1>6, <1>7, <1>8, <1>9, <1>10 DEF LostInv
\* A command that goes on and keeps the files loses nothing.
LEMMA LostGoesOn ==
    ASSUME TypeInv, LostInv, NEW s \in Shells, NEW pc, GoesOn(s, pc), command[s].pc # "write",
           file' = file, faults' = faults, overlaps' = overlaps,
           \A p \in Pids : procs'[p] \in Clusters =>
               \/ procs'[p] = procs[p]
               \/ /\ command'[s].pc = "write" /\ command'[s].pid = p
                  /\ command'[s].cluster = procs'[p],
           Threatens(s)' =>
               \/ Threatens(s)
               \/ file[command[s].cluster] \notin Pids
               \/ procs'[file[command[s].cluster]] # command[s].cluster
    PROVE  LostInv'
<1>1. /\ command[s].pc # "idle" /\ command'[s].cluster = command[s].cluster
      /\ \A t \in Shells \ {s} : command'[t] = command[t]
  BY DEF GoesOn
<1>2. \A p \in Pids : procs'[p] \in Clusters =>
         \/ procs'[p] = procs[p]
         \/ \E t \in Shells : /\ command'[t].pc = "write" /\ command'[t].pid = p
                              /\ command'[t].cluster = procs'[p]
  OBVIOUS
<1>3. Lost' \subseteq Lost \cup {}
  BY <1>1, <1>2, LostShrinks
<1>4. BusyShells' = BusyShells /\ BusyClusters' = BusyClusters
  BY GoesOnCount
<1> QED BY <1>3, <1>4, LostKept

\* A command that ends without a write.
LEMMA LostStops ==
    ASSUME TypeInv, LostInv, TypeInv', NEW s \in Shells, Ends(s), command[s].pc # "write",
           file' = file, procs' = procs, faults' = faults, overlaps' = overlaps
    PROVE  LostInv'
<1>1. command'[s].pc = "idle" /\ \A t \in Shells \ {s} : command'[t] = command[t]
  BY DEF Ends
<1>2. Lost' \subseteq Lost \cup {}
  BY <1>1, LostShrinks
<1> QED BY <1>2, LostEnds

LEMMA LostCommand ==
    ASSUME TypeInv, LostInv, NEW s \in Shells, CommandStep(s)
    PROVE  LostInv'
<1> DEFINE c == command[s].cluster
           q == command[s].pid
<1>1. TypeInv'
  BY CommandStepType
<1>2. /\ command[s].pc # "idle" => c \in Clusters
      /\ command[s].pc \in {"write", "kill"} => q \in Pids
  BY DEF TypeInv, CommandInv
<1>3. Dead \notin Clusters /\ Theirs \notin Clusters
  BY ClustersAssumption
<1>4. CASE readRunningPID(s)
  <2>1. /\ command[s].pc = "running?" /\ file' = file /\ procs' = procs
        /\ faults' = faults /\ overlaps' = overlaps
    BY <1>4 DEF readRunningPID, hostVars
  <2>2. CASE Running(c)
    BY <1>1, <1>4, <2>1, <2>2, CommandKinds, LostStops
  <2>3. CASE ~Running(c)
    <3>1. GoesOn(s, "start")
      BY <1>4, <2>3, CommandKinds
    <3>2. file[c] \notin Pids \/ procs'[file[c]] # c
      BY <1>2, <1>3, <2>1, <2>3, Bounds DEF Running, Pids
    <3> QED BY <2>1, <3>1, <3>2, LostGoesOn
  <2> QED BY <2>2, <2>3
<1>5. CASE startForward(s)
  <2>1. PICK p \in Pids :
           /\ procs[p] = Dead
           /\ procs' = [procs EXCEPT ![p] = c]
           /\ command' = [command EXCEPT ![s].pc = "write", ![s].pid = p]
    BY <1>5 DEF startForward
  <2>2. /\ command[s].pc = "start" /\ file' = file
        /\ faults' = faults /\ overlaps' = overlaps
    BY <1>5 DEF startForward
  <2>3. /\ command'[s].pc = "write" /\ command'[s].pid = p
        /\ command'[s].cluster = c
    BY <2>1, <2>2, PidType
  <2>4. \A r \in Pids : procs'[r] # procs[r] => r = p /\ procs'[r] = c
    <3>1. /\ procs' = [procs EXCEPT ![p] = c]
          /\ procs \in [Pids -> Clusters \cup {Dead, Ours, Theirs}]
      BY <2>1 DEF TypeInv, TypeOK
    <3> HIDE DEF c
    <3> QED BY <3>1
  <2>5. GoesOn(s, "write") /\ Threatens(s)
    BY <1>5, <2>2, CommandKinds DEF Threatens
  <2> QED BY <2>2, <2>3, <2>4, <2>5, LostGoesOn
<1>6. CASE WritePID(s)
  <2>1. /\ command[s].pc = "write" /\ procs' = procs
        /\ file' = [file EXCEPT ![c] = q]
        /\ faults' = faults /\ overlaps' = overlaps /\ Ends(s)
    BY <1>6, CommandKinds DEF WritePID, hostVars
  <2>2. Threatens(s) \/ file[c] = q
    BY <2>1 DEF Threatens
  <2>3. /\ Lost' \subseteq Lost \cup {q}
        /\ q \in Lost' \ Lost => Commands(c) # {s}
    BY <2>1, <2>2, LostAtStore
  <2>4. Lost' \subseteq Lost \/ Commands(c) # {s}
    BY <2>3
  <2> QED BY <1>1, <2>1, <2>3, <2>4, LostEnds
<1>7. CASE WriteFails(s)
  <2>1. /\ command[s].pc = "write" /\ procs' = procs /\ file' = file
        /\ faults' = faults + 1 /\ overlaps' = overlaps /\ Ends(s)
    BY <1>7, CommandKinds DEF WriteFails, hostVars
  <2>2. command'[s].pc = "idle" /\ \A t \in Shells \ {s} : command'[t] = command[t]
    BY <2>1 DEF Ends
  <2>3. Lost' \subseteq Lost \cup {q}
    BY <2>1, <2>2, LostShrinks
  <2> QED BY <1>1, <2>1, <2>3, LostEnds
<1>8. CASE StopRead(s)
  <2>1. /\ command[s].pc = "read" /\ file' = file /\ procs' = procs
        /\ faults' = faults /\ overlaps' = overlaps
    BY <1>8 DEF StopRead, hostVars
  <2>2. CASE file[c] = 0
    BY <1>1, <1>8, <2>1, <2>2, CommandKinds, LostStops
  <2>3. CASE file[c] # 0
    <3>1. GoesOn(s, "kill") /\ command'[s].pid = file[c]
      BY <1>8, <2>3, CommandKinds
    <3>2. ~Threatens(s)'
      BY <2>1, <3>1 DEF GoesOn, Threatens
    <3> QED BY <2>1, <3>1, <3>2, LostGoesOn
  <2> QED BY <2>2, <2>3
<1>9. CASE Kill(s)
  <2>1. /\ command[s].pc = "kill" /\ file' = file
        /\ faults' = faults /\ overlaps' = overlaps
    BY <1>9 DEF Kill
  <2>2. CASE procs[q] = Theirs
    <3>1. procs' = procs
      BY <1>9, <2>2 DEF Kill
    <3> QED BY <1>1, <1>9, <2>1, <2>2, <3>1, CommandKinds, LostStops
  <2>3. CASE procs[q] # Theirs
    <3>1. GoesOn(s, "remove") /\ procs' = [procs EXCEPT ![q] = Dead]
      BY <1>9, <2>3, CommandKinds DEF Kill, End
    <3>2. \A p \in Pids : procs'[p] \in Clusters => procs'[p] = procs[p]
      BY <1>3, <3>1 DEF TypeInv, TypeOK
    <3>3. Threatens(s) \/ procs'[file[c]] = Dead
      BY <1>2, <2>1, <3>1 DEF Threatens, TypeInv, TypeOK
    <3>4. Threatens(s) \/ procs'[file[c]] # c
      BY <1>2, <1>3, <2>1, <3>3
    <3> QED BY <2>1, <3>1, <3>2, <3>4, LostGoesOn
  <2> QED BY <2>2, <2>3
<1>10. CASE RemovePID(s)
  <2>1. /\ command[s].pc = "remove" /\ procs' = procs
        /\ file' = [file EXCEPT ![c] = 0]
        /\ faults' = faults /\ overlaps' = overlaps /\ Ends(s)
    BY <1>10, CommandKinds DEF RemovePID, hostVars
  <2>2. Threatens(s)
    BY <2>1 DEF Threatens
  <2>3. Lost' \subseteq Lost \cup {0}
    BY <2>1, <2>2, LostAtStore
  <2>4. 0 \notin Lost'
    BY Bounds DEF Lost, Pids
  <2>5. Lost' \subseteq Lost
    BY <2>3, <2>4
  <2> QED BY <1>1, <2>1, <2>5, LostEnds
<1> QED BY <1>4, <1>5, <1>6, <1>7, <1>8, <1>9, <1>10 DEF CommandStep

LEMMA LostStep == ASSUME TypeInv, LostInv, [Next]_vars PROVE LostInv'
<1>1. CASE UNCHANGED vars
  <2>1. /\ command' = command /\ file' = file /\ procs' = procs
        /\ faults' = faults /\ overlaps' = overlaps
    BY <1>1 DEF vars, hostVars
  <2>2. Lost' \subseteq Lost \cup {}
    BY <2>1, LostShrinks
  <2>3. BusyShells' = BusyShells /\ BusyClusters' = BusyClusters
    BY <2>1 DEF BusyShells, BusyClusters, Commands
  <2> QED BY <2>1, <2>2, <2>3, LostKept
<1> QED BY <1>1, LostHost, LostRun, LostCommand DEF Next

LEMMA LostAlways == Spec => [](TypeInv /\ LostInv)
<1>1. Init => TypeInv /\ LostInv
  BY TypeInit, LostInit
<1>2. TypeInv /\ LostInv /\ [Next]_vars => (TypeInv /\ LostInv)'
  BY TypeStep, LostStep
<1> QED BY <1>1, <1>2, PTL DEF Spec

\* A forward that no command can stop any more costs a failed write or an overlap,
\* whatever dies, is deleted and has its PID used again in between.
THEOREM OrphansAlwaysAccountedFor == Spec => []OrphansAreAccountedFor
<1>1. ASSUME TypeInv, LostInv PROVE OrphansAreAccountedFor
  <2> DEFINE Orphans == {p \in Pids :
                            /\ Forward(p)
                            /\ file[procs[p]] # p
                            /\ \A s \in Shells :
                                  command[s].pc # "write" \/ command[s].pid # p}
  <2>1. Orphans \subseteq Lost
    BY DEF Lost, Written, Commands
  <2>2. Cardinality(Orphans) <= Cardinality(Lost) /\ Cardinality(Orphans) \in Nat
    BY <1>1, <2>1, Counts, Part
  <2>3. Cardinality(Lost) <= faults + overlaps
    BY <1>1, Counts DEF LostInv
  <2>4. Cardinality(Orphans) <= faults + overlaps
    BY <1>1, <2>2, <2>3, Counts
  <2> QED BY <2>4 DEF OrphansAreAccountedFor
<1> QED BY <1>1, LostAlways, PTL
-----------------------------------------------------------------------------
(***************************************************************************)
(* What --stop leaves.                                                     *)
(***************************************************************************)

\* Commands that may yet start a forward.
Starters(c) == {s \in Commands(c) : command[s].pc \in {"running?", "start"}}

\* The forwards of a stopped cluster, those included that are yet to be started, have
\* all been paid for.
StoppedInv ==
    \A c \in stopped : Cardinality(Forwards(c)) + Cardinality(Starters(c)) <= faults + overlaps

LEMMA CommandsFinite ==
    ASSUME NEW c, IsFiniteSet(BusyShells)
    PROVE  /\ IsFiniteSet(Commands(c)) /\ Cardinality(Commands(c)) \in Nat
           /\ IsFiniteSet(Starters(c)) /\ Cardinality(Starters(c)) \in Nat
           /\ IsFiniteSet(Forwards(c)) /\ Cardinality(Forwards(c)) \in Nat
<1>1. Commands(c) \subseteq BusyShells /\ Starters(c) \subseteq BusyShells
  BY DEF Commands, Starters, BusyShells
<1>2. /\ IsFiniteSet(Commands(c)) /\ Cardinality(Commands(c)) \in Nat
      /\ IsFiniteSet(Starters(c)) /\ Cardinality(Starters(c)) \in Nat
  BY <1>1, Part
<1>3. IsFiniteSet(Pids) /\ Forwards(c) \subseteq Pids
  BY Bounds, FS_Interval DEF Pids, Forwards
<1> QED BY <1>2, <1>3, Part

\* The other clusters that are busy keep a shell busy each.
LEMMA OtherClusters ==
    ASSUME TypeInv, IsFiniteSet(BusyShells), NEW c \in BusyClusters
    PROVE  Cardinality(BusyClusters) - 1
              <= Cardinality(BusyShells) - Cardinality(Commands(c))
<1> DEFINE Rest == BusyShells \ Commands(c)
           f == [s \in Rest |-> command[s].cluster]
<1>1. f \in [Rest -> BusyClusters \ {c}]
  BY DEF BusyShells, BusyClusters, Commands, TypeInv, CommandInv
<1>2. \A d \in BusyClusters \ {c} : \E s \in Rest : f[s] = d
  BY DEF BusyShells, BusyClusters, Commands
<1>3. IsFiniteSet(Rest)
  BY FS_Difference
<1>4. Commands(c) \subseteq BusyShells
  BY DEF Commands, BusyShells
<1>5. Cardinality(Rest) = Cardinality(BusyShells) - Cardinality(Commands(c))
  <2>1. Commands(c) = BusyShells \cap Commands(c)
    BY <1>4
  <2> QED BY <2>1, FS_Difference
<1> HIDE DEF f, Rest
<1>6. /\ Cardinality(BusyClusters \ {c}) <= Cardinality(Rest)
  BY <1>1, <1>2, <1>3, Covered
<1>7. Cardinality(BusyClusters \ {c}) = Cardinality(BusyClusters) - 1
  <2>1. IsFiniteSet(BusyClusters)
    BY BusyClustersFinite
  <2> QED BY <2>1, OneLess
<1> QED BY <1>5, <1>6, <1>7

\* When --stop finds no file, or is about to remove it, the forwards that run for its
\* cluster are lost, or another command is about to write them down.
LEMMA StoppedAtDone ==
    ASSUME TypeInv, LostInv, NEW s \in Shells, NEW c \in Clusters,
           command[s].cluster = c,
           command[s].pc = "remove" \/ (command[s].pc = "read" /\ file[c] = 0)
    PROVE  Cardinality(Forwards(c)) + Cardinality(Starters(c)) <= faults + overlaps
<1> DEFINE Others == Commands(c) \ {s}
           Writers == {t \in Others : command[t].pc = "write"}
           Stored == {command[t].pid : t \in Writers}
           f == [t \in Writers |-> command[t].pid]
<1>0. s \in Commands(c) /\ c \in BusyClusters /\ IsFiniteSet(BusyShells)
  BY DEF Commands, BusyClusters, LostInv
<1>1. Forwards(c) \subseteq Lost \cup Stored
  <2> SUFFICES ASSUME NEW p \in Forwards(c), p \notin Stored
               PROVE  p \in Lost
    OBVIOUS
  <2>1. p \in Pids /\ procs[p] = c /\ Forward(p)
    BY DEF Forwards, Forward
  <2>2. ~Written(p, c)
    BY DEF Written
  <2>3. command[s].pc = "remove" => Threatened(c)
    BY <1>0 DEF Threatened, Threatens
  <2>4. file[c] = 0 => file[c] # p
    BY <2>1, Bounds DEF Pids
  <2> QED BY <2>1, <2>2, <2>3, <2>4 DEF Lost
<1>2. /\ IsFiniteSet(Commands(c)) /\ Cardinality(Commands(c)) \in Nat
      /\ IsFiniteSet(Starters(c)) /\ Cardinality(Starters(c)) \in Nat
      /\ IsFiniteSet(Forwards(c)) /\ Cardinality(Forwards(c)) \in Nat
  BY <1>0, CommandsFinite
<1>3. /\ IsFiniteSet(Others) /\ Cardinality(Others) = Cardinality(Commands(c)) - 1
      /\ Cardinality(Others) \in Nat
  BY <1>0, <1>2, OneLess
<1>4. /\ IsFiniteSet(Writers) /\ Cardinality(Writers) \in Nat
  BY <1>3, Part
<1>5. f \in [Writers -> Stored] /\ \A p \in Stored : \E t \in Writers : f[t] = p
  OBVIOUS
<1>6. Writers \cup Starters(c) \subseteq Others /\ Writers \cap Starters(c) = {}
  BY DEF Starters
<1> HIDE DEF Others, Writers, Stored, f
<1>7. /\ IsFiniteSet(Stored) /\ Cardinality(Stored) <= Cardinality(Writers)
      /\ Cardinality(Stored) \in Nat
  BY <1>4, <1>5, Covered
<1>8. Cardinality(Writers) + Cardinality(Starters(c)) <= Cardinality(Others)
  <2>1. Cardinality(Writers \cup Starters(c))
           = Cardinality(Writers) + Cardinality(Starters(c))
    <3>1. Cardinality(Writers \cup Starters(c))
             = Cardinality(Writers) + Cardinality(Starters(c))
                  - Cardinality(Writers \cap Starters(c))
      BY <1>2, <1>4, FS_Union
    <3>2. Cardinality(Writers \cap Starters(c)) = 0
      BY <1>6, FS_EmptySet
    <3> QED BY <1>2, <1>4, <3>1, <3>2
  <2>2. Cardinality(Writers \cup Starters(c)) <= Cardinality(Others)
    BY <1>3, <1>6, Part
  <2> QED BY <2>1, <2>2
<1>9. Cardinality(Forwards(c)) <= Cardinality(Lost) + Cardinality(Stored)
  <2>1. /\ IsFiniteSet(Lost \cup Stored)
        /\ Cardinality(Lost \cup Stored) <= Cardinality(Lost) + Cardinality(Stored)
        /\ Cardinality(Lost \cup Stored) \in Nat
    <3>1. /\ IsFiniteSet(Lost) /\ Cardinality(Lost) \in Nat
      BY LostFinite
    <3>2. IsFiniteSet(Lost \cup Stored)
      BY <1>7, <3>1, FS_Union
    <3>3. Cardinality(Lost \cup Stored)
             = Cardinality(Lost) + Cardinality(Stored) - Cardinality(Lost \cap Stored)
      BY <1>7, <3>1, FS_Union
    <3>4. Cardinality(Lost \cap Stored) \in Nat
      BY <3>1, Part
    <3>5. Cardinality(Lost \cup Stored) \in Nat
      BY <3>2, FS_CardinalityType
    <3> QED BY <1>7, <3>1, <3>2, <3>3, <3>4, <3>5
  <2>2. Cardinality(Forwards(c)) <= Cardinality(Lost \cup Stored)
    BY <1>1, <2>1, Part
  <2> QED BY <1>2, <1>7, <2>1, <2>2, LostFinite
<1>10. Cardinality(BusyClusters) - 1 <= Cardinality(BusyShells) - Cardinality(Commands(c))
  BY <1>0, OtherClusters
<1>11. /\ faults \in Nat /\ overlaps \in Nat /\ Cardinality(Lost) \in Nat
       /\ Cardinality(BusyShells) \in Nat /\ Cardinality(BusyClusters) \in Nat
       /\ Cardinality(Lost) + Cardinality(BusyShells)
             <= faults + overlaps + Cardinality(BusyClusters)
  BY Counts DEF LostInv
<1> QED BY <1>2, <1>3, <1>4, <1>7, <1>8, <1>9, <1>10, <1>11
LEMMA StoppedKept ==
    ASSUME TypeInv, TypeInv', LostInv, NEW c,
           Cardinality(Forwards(c)) + Cardinality(Starters(c)) <= faults + overlaps,
           Forwards(c)' \subseteq Forwards(c), Starters(c)' \subseteq Starters(c),
           faults' >= faults, overlaps' >= overlaps
    PROVE  Cardinality(Forwards(c)') + Cardinality(Starters(c)') <= faults' + overlaps'
<1>1. /\ IsFiniteSet(Starters(c)) /\ Cardinality(Starters(c)) \in Nat
      /\ IsFiniteSet(Forwards(c)) /\ Cardinality(Forwards(c)) \in Nat
  BY CommandsFinite DEF LostInv
<1>2. Cardinality(Forwards(c)') <= Cardinality(Forwards(c)) /\ Cardinality(Forwards(c)') \in Nat
  BY <1>1, Part
<1>3. Cardinality(Starters(c)') <= Cardinality(Starters(c)) /\ Cardinality(Starters(c)') \in Nat
  BY <1>1, Part
<1>4. faults \in Nat /\ overlaps \in Nat /\ faults' \in Nat /\ overlaps' \in Nat
  BY Bounds DEF TypeInv, TypeOK
<1> QED BY <1>1, <1>2, <1>3, <1>4

\* A step other than the start of a forward, and other than the start of a command for
\* the cluster: it starts no forward, and its command begins to start none.
LEMMA StepShrinks ==
    ASSUME TypeInv, TypeInv', [Next]_vars, ~\E s \in Shells : startForward(s),
           NEW c \in Clusters, ~\E s \in Shells : RunDashboard(s, c)
    PROVE  /\ Forwards(c)' \subseteq Forwards(c) /\ Starters(c)' \subseteq Starters(c)
           /\ faults' >= faults /\ overlaps' >= overlaps
<1>1. faults \in Nat /\ overlaps \in Nat
  BY Bounds DEF TypeInv, TypeOK
<1>2. Dead \notin Clusters /\ Ours \notin Clusters /\ Theirs \notin Clusters
  BY ClustersAssumption
<1>3. \A p, q \in Pids : \A k :
         procs' = [procs EXCEPT ![q] = k] /\ k \notin Clusters =>
            (procs'[p] \in Clusters => procs'[p] = procs[p])
  BY DEF TypeInv, TypeOK
<1>4. CASE UNCHANGED vars
  BY <1>1, <1>4 DEF vars, hostVars, Forwards, Starters, Commands
<1>5. CASE HostNext
  <2>1. command' = command /\ faults' = faults /\ overlaps' = overlaps
    BY <1>5 DEF HostNext, Bind, ForwardEnds, ForeignStarts, DeleteCluster, CreateCluster
  <2>2. ASSUME NEW q \in Pids, Bind(q) \/ ForwardEnds(q) \/ ForeignStarts(q)
        PROVE  \/ procs' = procs
               \/ \E k : procs' = [procs EXCEPT ![q] = k] /\ k \notin Clusters
    BY <1>2, <2>2 DEF Bind, ForwardEnds, ForeignStarts, End
  <2>3. ASSUME NEW d \in Clusters, DeleteCluster(d) \/ CreateCluster(d)
        PROVE  procs' = procs
    BY <2>3 DEF DeleteCluster, CreateCluster
  <2>4. \A p \in Pids : procs'[p] \in Clusters => procs'[p] = procs[p]
    BY <1>3, <1>5, <2>2, <2>3 DEF HostNext
  <2>5. Forwards(c)' \subseteq Forwards(c)
    BY <2>4 DEF Forwards
  <2> QED BY <1>1, <2>1, <2>5 DEF Starters, Commands
<1>6. ASSUME NEW s \in Shells, NEW d \in Clusters, RunDashboard(s, d)
      PROVE  /\ Forwards(c)' \subseteq Forwards(c) /\ Starters(c)' \subseteq Starters(c)
             /\ faults' >= faults /\ overlaps' >= overlaps
  <2>1. d # c
    BY <1>6
  <2>2. /\ command'[s].cluster = d
        /\ \A t \in Shells \ {s} : command'[t] = command[t]
    BY <1>6, RunType
  <2>3. procs' = procs /\ faults' = faults /\ overlaps' >= overlaps
    BY <1>1, <1>6 DEF RunDashboard, hostVars
  <2> QED BY <1>1, <2>1, <2>2, <2>3 DEF Forwards, Starters, Commands
<1>7. ASSUME NEW s \in Shells, CommandStep(s)
      PROVE  /\ Forwards(c)' \subseteq Forwards(c) /\ Starters(c)' \subseteq Starters(c)
             /\ faults' >= faults /\ overlaps' >= overlaps
  <2>1. ~startForward(s)
    OBVIOUS
  <2>2. faults' >= faults /\ overlaps' >= overlaps
    BY <1>1, <1>7, <2>1 DEF CommandStep, readRunningPID, WritePID, WriteFails, StopRead,
                            Kill, RemovePID
  <2>3. \A p \in Pids : procs'[p] \in Clusters => procs'[p] = procs[p]
    <3>1. CASE Kill(s)
      <4>1. command[s].pid \in Pids
        BY <3>1 DEF Kill, TypeInv, CommandInv
      <4>2. procs' = procs \/ procs' = [procs EXCEPT ![command[s].pid] = Dead]
        BY <3>1 DEF Kill, End
      <4> QED BY <1>2, <1>3, <4>1, <4>2
    <3>2. CASE ~Kill(s)
      BY <1>7, <2>1, <3>2 DEF CommandStep, readRunningPID, WritePID, WriteFails, StopRead,
                              RemovePID, hostVars
    <3> QED BY <3>1, <3>2
  <2>4. \/ Ends(s)
        \/ \E pc \in {"kill", "remove"} : GoesOn(s, pc)
        \/ GoesOn(s, "start") /\ command[s].pc = "running?"
    BY <1>7, <2>1, CommandKinds DEF CommandStep, readRunningPID
  <2>5. Starters(c)' \subseteq Starters(c)
    BY <2>4 DEF Ends, GoesOn, Starters, Commands
  <2> QED BY <2>2, <2>3, <2>5 DEF Forwards
<1> QED BY <1>4, <1>5, <1>6, <1>7 DEF Next

\* The start of a forward turns a command that may start one into a forward.
LEMMA StoppedAtStart ==
    ASSUME TypeInv, TypeInv', LostInv, StoppedInv, NEW s \in Shells, startForward(s)
    PROVE  StoppedInv'
<1> DEFINE d == command[s].cluster
<1>1. stopped' = stopped /\ faults' = faults /\ overlaps' = overlaps /\ command[s].pc = "start"
  BY DEF startForward
<1>2. faults \in Nat /\ overlaps \in Nat
  BY Bounds DEF TypeInv, TypeOK
<1>3. PICK p \in Pids : procs' = [procs EXCEPT ![p] = d] /\ procs[p] = Dead
  BY DEF startForward
<1>4. /\ command'[s].pc = "write" /\ command'[s].cluster = d
      /\ \A t \in Shells \ {s} : command'[t] = command[t]
  BY CommandKinds DEF GoesOn
<1>5. \A r \in Pids : procs'[r] # procs[r] => r = p /\ procs'[r] = d
  <2>1. procs \in [Pids -> Clusters \cup {Dead, Ours, Theirs}]
    BY DEF TypeInv, TypeOK
  <2> HIDE DEF d
  <2> QED BY <1>3, <2>1
<1> SUFFICES ASSUME NEW c \in stopped
             PROVE  Cardinality(Forwards(c)') + Cardinality(Starters(c)') <= faults + overlaps
  BY <1>1 DEF StoppedInv, Forwards, Starters, Commands
<1>6. Cardinality(Forwards(c)) + Cardinality(Starters(c)) <= faults + overlaps
  BY DEF StoppedInv
<1>7. /\ IsFiniteSet(Starters(c)) /\ Cardinality(Starters(c)) \in Nat
      /\ IsFiniteSet(Forwards(c)) /\ Cardinality(Forwards(c)) \in Nat
  BY CommandsFinite DEF LostInv
<1>8. CASE c = d
  <2>1. Forwards(c)' \subseteq Forwards(c) \cup {p}
    BY <1>5 DEF Forwards
  <2>2. Starters(c)' \subseteq Starters(c) \ {s} /\ s \in Starters(c)
    BY <1>1, <1>4, <1>8 DEF Starters, Commands
  <2>3. /\ Cardinality(Forwards(c)') <= Cardinality(Forwards(c)) + 1
        /\ Cardinality(Forwards(c)') \in Nat
    BY <1>7, <2>1, OneMore
  <2>4. /\ IsFiniteSet(Starters(c) \ {s})
        /\ Cardinality(Starters(c) \ {s}) = Cardinality(Starters(c)) - 1
    BY <1>7, <2>2, OneLess
  <2>5. /\ Cardinality(Starters(c)') <= Cardinality(Starters(c)) - 1
        /\ Cardinality(Starters(c)') \in Nat
    BY <2>2, <2>4, Part
  <2> QED BY <1>2, <1>6, <1>7, <2>3, <2>5
<1>9. CASE c # d
  <2>1. Forwards(c)' \subseteq Forwards(c) /\ Starters(c)' \subseteq Starters(c)
    BY <1>4, <1>5, <1>9 DEF Forwards, Starters, Commands
  <2> QED BY <1>1, <1>2, <1>6, <2>1, StoppedKept
<1> QED BY <1>8, <1>9

LEMMA StoppedStep ==
    ASSUME TypeInv, TypeInv', LostInv, StoppedInv, [Next]_vars
    PROVE  StoppedInv'
<1>1. CASE \E s \in Shells : startForward(s)
  BY <1>1, StoppedAtStart
<1>2. CASE ~\E s \in Shells : startForward(s)
  <2> SUFFICES ASSUME NEW c \in stopped'
               PROVE  Cardinality(Forwards(c)') + Cardinality(Starters(c)')
                         <= faults' + overlaps'
    BY DEF StoppedInv, Forwards, Starters, Commands
  <2>1. c \in Clusters
    BY DEF TypeInv, TypeOK
  <2>2. ~\E s \in Shells : RunDashboard(s, c)
    BY DEF RunDashboard
  <2>3. /\ Forwards(c)' \subseteq Forwards(c) /\ Starters(c)' \subseteq Starters(c)
        /\ faults' >= faults /\ overlaps' >= overlaps
    BY <1>2, <2>1, <2>2, StepShrinks
  <2>4. Cardinality(Forwards(c)) + Cardinality(Starters(c)) <= faults + overlaps
    <3>1. CASE c \in stopped
      BY <3>1 DEF StoppedInv
    <3>2. CASE c \notin stopped
      <4>1. PICK s \in Shells : Done(s) /\ (RemovePID(s) \/ StopRead(s))
        <5>1. stopped' # stopped
          BY <3>2
        <5>2. ~HostNext /\ ~UNCHANGED vars
          BY <5>1 DEF HostNext, Bind, ForwardEnds, ForeignStarts, DeleteCluster,
                      CreateCluster, vars
        <5>3. \A s \in Shells, d \in Clusters : ~RunDashboard(s, d)
          BY <3>2 DEF RunDashboard
        <5>4. PICK s \in Shells : CommandStep(s)
          BY <5>2, <5>3 DEF Next
        <5> QED BY <5>1, <5>4 DEF CommandStep, readRunningPID, startForward, WritePID,
                                  WriteFails, StopRead, Kill, RemovePID
      <4>2. command[s].cluster = c
        BY <3>2, <4>1 DEF Done
      <4>3. command[s].pc = "remove" \/ (command[s].pc = "read" /\ file[c] = 0)
        <5>1. RemovePID(s) => command[s].pc = "remove"
          BY Zenon DEF RemovePID
        <5>2. StopRead(s) => command[s].pc = "read"
          BY Zenon DEF StopRead
        <5>3. StopRead(s) => file[c] = 0
          BY <3>2, <4>2 DEF StopRead
        <5> QED BY <4>1, <5>1, <5>2, <5>3
      <4> QED BY <2>1, <4>2, <4>3, StoppedAtDone
    <3> QED BY <3>1, <3>2
  <2> QED BY <2>3, <2>4, StoppedKept
<1> QED BY <1>1, <1>2

\* After a --stop, and until the next command for the cluster, no forward to it runs but
\* those of failed writes and of overlapping commands.
THEOREM StopAlwaysLeavesNothing == Spec => []StopLeavesNothing
<1> DEFINE Inv == TypeInv /\ LostInv /\ StoppedInv
<1>1. Init => Inv
  BY TypeInit, LostInit DEF Init, StoppedInv
<1>2. Inv /\ [Next]_vars => Inv'
  BY TypeStep, LostStep, StoppedStep
<1>3. ASSUME Inv PROVE StopLeavesNothing
  <2> SUFFICES ASSUME NEW c \in stopped
               PROVE  Cardinality(Forwards(c)) <= faults + overlaps
    BY DEF StopLeavesNothing
  <2>1. Cardinality(Starters(c)) \in Nat /\ Cardinality(Forwards(c)) \in Nat
    BY <1>3, CommandsFinite DEF LostInv
  <2>2. Cardinality(Forwards(c)) + Cardinality(Starters(c)) <= faults + overlaps
    BY <1>3 DEF StoppedInv
  <2>3. faults \in Nat /\ overlaps \in Nat
    BY <1>3, Counts
  <2> QED BY <2>1, <2>2, <2>3
<1> HIDE DEF Inv
<1> QED BY <1>1, <1>2, <1>3, PTL DEF Spec
=============================================================================
