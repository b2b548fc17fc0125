-------------------------- MODULE GpuClusterProofs --------------------------
(***************************************************************************)
(* Proofs about GpuCluster, for every number of shells, workers, commands, *)
(* failing calls and kills.                                                *)
(***************************************************************************)
EXTENDS GpuCluster, FiniteSetTheorems, TLAPS

Ops == {"none", "create", "enable", "disable", "delete"}
PCs == {"idle", "kind", "get", "namespace", "get again", "label", "client",
        "install", "installing", "wait", "uninstall", "namespace delete",
        "kind delete", "lost"}

\* The parts of a command that only its own steps change (but for KindDelete).
Same(c, d) == /\ c.op = d.op /\ c.pc = d.pc
              /\ c.stack = d.stack /\ c.monitoring = d.monitoring

-----------------------------------------------------------------------------
(***************************************************************************)
(* How the steps change a command.                                         *)
(***************************************************************************)
LEMMA CommandIs == Command = [op : Ops, pc : PCs, stack : Stacks,
                              monitoring : BOOLEAN, current : BOOLEAN]
BY Zenon DEF Command, Ops, PCs

LEMMA NoCommandType == NoCommand \in Command
BY CommandIs DEF NoCommand, Ops, PCs, Stacks

LEMMA PcChange ==
    ASSUME NEW c \in Command, NEW p \in PCs
    PROVE  LET d == [c EXCEPT !.pc = p]
           IN  /\ d \in Command /\ d.pc = p /\ d.op = c.op
               /\ d.stack = c.stack /\ d.monitoring = c.monitoring
BY CommandIs

LEMMA CurrentChange ==
    ASSUME NEW c \in Command, NEW b \in BOOLEAN
    PROVE  LET d == [c EXCEPT !.current = b]
           IN  d \in Command /\ Same(d, c)
BY CommandIs DEF Same

LEMMA StackChange ==
    ASSUME NEW c \in Command, NEW k \in Stacks
    PROVE  LET d == [c EXCEPT !.stack = k]
           IN  /\ d \in Command /\ d.pc = c.pc /\ d.op = c.op
               /\ d.stack = k /\ d.monitoring = c.monitoring
BY CommandIs

Commands == command \in [Shells -> Command]

\* s goes on at p with stack k; s ends; the others at most read something old.
Others(s) == \A t \in Shells \ {s} : Same(command'[t], command[t])

Shifts(s, p, k) ==
    /\ Commands' /\ Others(s)
    /\ command'[s].pc = p /\ command'[s].stack = k
    /\ command'[s].op = command[s].op
    /\ command'[s].monitoring = command[s].monitoring

Moves(s, p) == Shifts(s, p, command[s].stack)

Ends(s) == Commands' /\ Others(s) /\ Same(command'[s], NoCommand)

Rests == Commands' /\ \A t \in Shells : Same(command'[t], command[t])

LEMMA GotoIs == ASSUME Commands, NEW s \in Shells, NEW p \in PCs, Goto(s, p) PROVE Moves(s, p)
<1> DEFINE d == [command[s] EXCEPT !.pc = p]
<1>1. command' = [command EXCEPT ![s] = d]
  BY DEF Goto
<1>2. /\ d \in Command /\ d.pc = p /\ d.op = command[s].op
      /\ d.stack = command[s].stack /\ d.monitoring = command[s].monitoring
  BY PcChange DEF Commands
<1> HIDE DEF d
<1> QED BY <1>1, <1>2 DEF Commands, Moves, Shifts, Others, Same

LEMMA ReadIs ==
    ASSUME Commands, NEW s \in Shells, NEW p \in PCs,
           command' = [command EXCEPT ![s].pc = p, ![s].current = TRUE]
    PROVE  Moves(s, p)
<1> DEFINE d == [command[s] EXCEPT !.pc = p]
           e == [d EXCEPT !.current = TRUE]
<1>1. command' = [command EXCEPT ![s] = e]
  OBVIOUS
<1>2. /\ d \in Command /\ d.pc = p /\ d.op = command[s].op
      /\ d.stack = command[s].stack /\ d.monitoring = command[s].monitoring
  BY PcChange DEF Commands
<1> HIDE DEF d
<1>3. e \in Command /\ Same(e, d)
  BY <1>2, CurrentChange
<1> HIDE DEF e
<1> QED BY <1>1, <1>2, <1>3 DEF Commands, Moves, Shifts, Others, Same

LEMMA NextStackIs ==
    ASSUME Commands, NEW s \in Shells, NEW p \in PCs, NEW k \in Stacks,
           command' = [command EXCEPT ![s].stack = k, ![s].pc = p]
    PROVE  Shifts(s, p, k)
<1> DEFINE d == [command[s] EXCEPT !.stack = k]
           e == [d EXCEPT !.pc = p]
<1>1. command' = [command EXCEPT ![s] = e]
  OBVIOUS
<1>2. /\ d \in Command /\ d.stack = k /\ d.op = command[s].op
      /\ d.monitoring = command[s].monitoring
  BY StackChange DEF Commands
<1> HIDE DEF d
<1>3. /\ e \in Command /\ e.pc = p /\ e.op = d.op
      /\ e.stack = d.stack /\ e.monitoring = d.monitoring
  BY <1>2, PcChange
<1> HIDE DEF e
<1> QED BY <1>1, <1>2, <1>3 DEF Commands, Shifts, Others, Same

LEMMA ReturnIs ==
    ASSUME Commands, NEW s \in Shells, command' = [command EXCEPT ![s] = NoCommand]
    PROVE  Ends(s)
BY NoCommandType DEF Commands, Ends, Others, Same

LEMMA OutdatedIs ==
    ASSUME NEW cmds \in [Shells -> Command], NEW k
    PROVE  /\ Outdated(k, cmds) \in [Shells -> Command]
           /\ \A t \in Shells : Same(Outdated(k, cmds)[t], cmds[t])
<1>1. \A t \in Shells : LET d == [cmds[t] EXCEPT !.current = FALSE]
                        IN  d \in Command /\ Same(d, cmds[t])
  BY CurrentChange
<1> QED BY <1>1 DEF Outdated, Same

LEMMA OutdatedRests ==
    ASSUME Commands, NEW k, command' = Outdated(k, command)
    PROVE  Rests
BY OutdatedIs DEF Commands, Rests

LEMMA EnsuredIs ==
    ASSUME Commands, NEW s \in Shells, NEW k, NEW obj, Ensured(s, k, obj)
    PROVE  Moves(s, "client") /\ ns' = [ns EXCEPT ![k] = obj]
<1> DEFINE d == [command[s] EXCEPT !.pc = "client"]
           cmds == [command EXCEPT ![s] = d]
<1>1. command' = Outdated(k, cmds) /\ ns' = [ns EXCEPT ![k] = obj]
  BY DEF Ensured
<1>2. "client" \in PCs
  BY DEF PCs
<1>3. /\ d \in Command /\ d.pc = "client" /\ d.op = command[s].op
      /\ d.stack = command[s].stack /\ d.monitoring = command[s].monitoring
  BY <1>2, PcChange DEF Commands
<1> HIDE DEF d
<1>4. /\ cmds \in [Shells -> Command] /\ cmds[s] = d
      /\ \A t \in Shells \ {s} : cmds[t] = command[t]
  BY <1>3 DEF Commands
<1> HIDE DEF cmds
<1>5. /\ command' \in [Shells -> Command]
      /\ \A t \in Shells : Same(command'[t], cmds[t])
  BY <1>1, <1>4, OutdatedIs
<1> QED BY <1>1, <1>3, <1>4, <1>5 DEF Commands, Moves, Shifts, Others, Same

LEMMA DeleteNamespaceIs ==
    ASSUME Commands, NEW s \in Shells, DeleteNamespace(s)
    PROVE  Ends(s)
<1> DEFINE cmds == [command EXCEPT ![s] = NoCommand]
<1>1. command' = Outdated(Stack(s), cmds)
  BY DEF DeleteNamespace
<1>2. /\ cmds \in [Shells -> Command] /\ cmds[s] = NoCommand
      /\ \A t \in Shells \ {s} : cmds[t] = command[t]
  BY NoCommandType DEF Commands
<1> HIDE DEF cmds
<1>3. /\ command' \in [Shells -> Command]
      /\ \A t \in Shells : Same(command'[t], cmds[t])
  BY <1>1, <1>2, OutdatedIs
<1> QED BY <1>2, <1>3 DEF Commands, Ends, Others, Same

\* The commands that find no API server any more.
LEMMA KindDeleteIs ==
    ASSUME Commands, NEW s \in Shells, KindDelete(s)
    PROVE  /\ Commands' /\ command'[s] = NoCommand
           /\ \A t \in Shells \ {s} :
                 \/ /\ command[t].pc \in {"idle", "kind", "kind delete"}
                    /\ Same(command'[t], command[t])
                 \/ /\ command[t].pc \notin {"idle", "kind", "kind delete"}
                    /\ command'[t].pc = IF command[t].op = "delete" THEN "kind delete"
                                                                  ELSE "lost"
                    /\ command'[t].op = command[t].op
                    /\ command'[t].stack = command[t].stack
                    /\ command'[t].monitoring = command[t].monitoring
<1> DEFINE late(t) == IF command[t].op = "delete" THEN "kind delete" ELSE "lost"
           d(t) == [command[t] EXCEPT !.pc = late(t)]
<1>1. command' = [t \in Shells |->
          IF t = s THEN NoCommand
          ELSE IF command[t].pc \in {"idle", "kind", "kind delete"} THEN command[t]
          ELSE d(t)]
  BY DEF KindDelete
<1>2. ASSUME NEW t \in Shells
      PROVE  /\ d(t) \in Command /\ d(t).pc = late(t) /\ d(t).op = command[t].op
             /\ d(t).stack = command[t].stack /\ d(t).monitoring = command[t].monitoring
  <2>1. late(t) \in PCs
    BY DEF PCs
  <2> HIDE DEF late
  <2> QED BY <2>1, PcChange DEF Commands
<1> HIDE DEF d
<1> QED BY <1>1, <1>2, NoCommandType DEF Commands, Same

LEMMA BeginIs ==
    ASSUME Commands, NEW s \in Shells, NEW op \in Ops \ {"none"}, Begin(s, op)
    PROVE  /\ Commands' /\ Others(s)
           /\ command'[s].op = op
           /\ op = "create" => command'[s].pc = "kind" /\ command'[s].stack = "gpu"
           /\ op = "enable" => command'[s].pc = "get" /\ command'[s].stack = "mon"
           /\ op = "disable" => command'[s].pc = "client" /\ command'[s].stack = "mon"
           /\ op = "delete" => command'[s].pc = "client" /\ command'[s].stack = "gpu"
           /\ command'[s].monitoring => op = "create"
<1>1. PICK m \in BOOLEAN :
          /\ m => op = "create"
          /\ command' = [command EXCEPT ![s] =
                [NoCommand EXCEPT
                    !.op = op, !.monitoring = m,
                    !.stack = IF op \in {"enable", "disable"} THEN "mon" ELSE "gpu",
                    !.pc = CASE op = "create" -> "kind"
                             [] op = "enable" -> "get"
                             [] OTHER -> "client"]]
  BY DEF Begin
<1> DEFINE k == IF op \in {"enable", "disable"} THEN "mon" ELSE "gpu"
           p == CASE op = "create" -> "kind"
                  [] op = "enable" -> "get"
                  [] OTHER -> "client"
           c1 == [NoCommand EXCEPT !.op = op]
           c2 == [c1 EXCEPT !.monitoring = m]
           c3 == [c2 EXCEPT !.stack = k]
           c  == [c3 EXCEPT !.pc = p]
<1>2. command' = [command EXCEPT ![s] = c]
  BY <1>1
<1>3. p \in PCs /\ k \in Stacks
  BY DEF PCs, Stacks
<1>4. /\ op = "create" => p = "kind" /\ k = "gpu"
      /\ op = "enable" => p = "get" /\ k = "mon"
      /\ op = "disable" => p = "client" /\ k = "mon"
      /\ op = "delete" => p = "client" /\ k = "gpu"
  OBVIOUS
<1> HIDE DEF p, k
<1>5. c \in Command /\ c.op = op /\ c.pc = p /\ c.stack = k /\ c.monitoring = m
  <2>1. c1 \in Command /\ c1.op = op
    BY NoCommandType, CommandIs
  <2> HIDE DEF c1
  <2>2. c2 \in Command /\ c2.op = op /\ c2.monitoring = m
    BY <2>1, CommandIs
  <2> HIDE DEF c2
  <2>3. c3 \in Command /\ c3.op = op /\ c3.monitoring = m /\ c3.stack = k
    BY <1>3, <2>2, StackChange
  <2> HIDE DEF c3
  <2> QED BY <1>3, <2>3, PcChange
<1> HIDE DEF c
<1> QED BY <1>1, <1>2, <1>4, <1>5 DEF Commands, Others, Same
-----------------------------------------------------------------------------
(***************************************************************************)
(* Types.  A command is only where its kind of command gets to: that is    *)
(* what makes the word it ends with one of the words it may say.           *)
(***************************************************************************)
Ensuring == {"get", "namespace", "get again", "label", "install", "installing", "wait"}

Placed(c) ==
    /\ c.pc \in Ensuring => c.op \in {"create", "enable"}
    /\ c.pc = "kind" => c.op = "create" /\ c.stack = "gpu"
    /\ c.pc = "uninstall" => c.op \in {"disable", "delete"}
    /\ c.pc = "namespace delete" => c.op = "disable"
    /\ c.pc = "kind delete" => c.op = "delete"
    /\ c.pc = "idle" <=> c.op = "none"
    /\ c.op \in {"enable", "disable"} => c.stack = "mon"
    /\ c.monitoring => c.op = "create"

AllPlaced == \A s \in Shells : Placed(command[s])

TypeInv == TypeOK /\ AllPlaced

Words == {"nothing", "disturbed", "create", "create with monitoring", "enable",
          "disable", "delete"}

LEMMA OthersPlaced ==
    ASSUME AllPlaced, NEW s \in Shells, Others(s), Placed(command'[s])
    PROVE  AllPlaced'
BY Zenon DEF AllPlaced, Others, Same, Placed

LEMMA EndsPlaced ==
    ASSUME AllPlaced, NEW s \in Shells, Ends(s)
    PROVE  AllPlaced'
<1>1. Placed(command'[s])
  BY DEF Ends, Same, NoCommand, Placed, Ensuring
<1> QED BY <1>1, OthersPlaced DEF Ends

LEMMA MovesPlaced ==
    ASSUME AllPlaced, NEW s \in Shells, NEW p \in PCs, Moves(s, p),
           command[s].pc # "idle", p # "idle",
           p \in Ensuring => command[s].op \in {"create", "enable"},
           p = "kind" => command[s].op = "create" /\ command[s].stack = "gpu",
           p = "uninstall" => command[s].op \in {"disable", "delete"},
           p = "namespace delete" => command[s].op = "disable",
           p = "kind delete" => command[s].op = "delete"
    PROVE  AllPlaced'
<1>1. Placed(command[s])
  BY DEF AllPlaced
<1>2. Placed(command'[s])
  BY <1>1 DEF Moves, Shifts, Placed
<1> QED BY <1>2, OthersPlaced DEF Moves, Shifts

\* What the end of a command does to the rest of its shell.
LEMMA ReturnKeepsTypes ==
    ASSUME TypeInv, NEW s \in Shells, NEW word \in Words, Return(s), Says(word)
    PROVE  /\ Ends(s) /\ AllPlaced'
           /\ temps' = [temps EXCEPT ![s] = {}] /\ temps' \in [Shells -> SUBSET Stacks]
           /\ told' \in Words
           /\ begun' \in 0..MaxCommands /\ killed' \in [Shells -> 0..MaxKills]
<1>1. Ends(s)
  BY ReturnIs DEF TypeInv, TypeOK, Commands, Return
<1>2. told' \in Words
  BY DEF Says, TypeInv, TypeOK, Words
<1> QED BY <1>1, <1>2, EndsPlaced DEF Return, Close, TypeInv, TypeOK

LEMMA ErrorKeepsTypes ==
    ASSUME TypeInv, NEW s \in Shells, Error(s)
    PROVE  /\ Ends(s) /\ AllPlaced'
           /\ temps' = [temps EXCEPT ![s] = {}] /\ temps' \in [Shells -> SUBSET Stacks]
           /\ told' \in Words
           /\ begun' \in 0..MaxCommands /\ killed' \in [Shells -> 0..MaxKills]
BY ReturnKeepsTypes DEF Error, Words
Checking(s) == IF ns[Stack(s)].phase = "none" THEN "namespace" ELSE Checked(Stack(s))

\* Where each step leads its command (KindDelete and Begin apart).
LEMMA StepIs ==
    ASSUME TypeInv, NEW s \in Shells
    PROVE  /\ KindCreate(s) => Moves(s, "get")
           /\ GetNamespace(s) => Moves(s, Checking(s))
           /\ CreateNamespace(s) => Moves(s, "client") \/ Moves(s, "get again")
           /\ GetAgain(s) => Ends(s) \/ Moves(s, Checked(Stack(s)))
           /\ LabelNamespace(s) => Moves(s, "client") \/ Ends(s)
           /\ NewClient(s) =>
                 Moves(s, IF command[s].op \in {"disable", "delete"} THEN "uninstall" ELSE "install")
           /\ InstallBegins(s) => Moves(s, "installing")
           /\ InstallEnds(s) => Moves(s, "wait") \/ Ends(s)
           /\ WaitEnds(s) => Shifts(s, "get", "mon") \/ Ends(s)
           /\ AfterUninstall(s) =>
                 IF command[s].op = "disable" THEN Moves(s, "namespace delete")
                 ELSE Shifts(s, IF Stack(s) = "gpu" THEN "client" ELSE "kind delete", "mon")
           /\ (\/ NotThere(s) \/ InstallRefused(s) \/ InstallFails(s)
               \/ WaitTimesOut(s) \/ DeleteNamespace(s) \/ CallFails(s)) => Ends(s)
<1> USE DEF Stack
<1>0. Commands /\ command[s].stack \in Stacks /\ {"gpu", "mon"} = Stacks
  BY CommandIs DEF TypeInv, TypeOK, Commands, Stacks
<1>1. PCs = {"idle", "kind", "get", "namespace", "get again", "label", "client",
             "install", "installing", "wait", "uninstall", "namespace delete",
             "kind delete", "lost"}
  BY DEF PCs
<1>2. Error(s) \/ Succeed(s) => Ends(s)
  BY <1>0, ReturnIs DEF Error, Succeed, Return
<1>3. KindCreate(s) => Moves(s, "get")
  BY <1>0, <1>1, GotoIs DEF KindCreate
<1>4. GetNamespace(s) => Moves(s, Checking(s))
  <2>1. Checking(s) \in PCs
    BY <1>1 DEF Checking, Checked
  <2> QED BY <1>0, <2>1, ReadIs, Zenon DEF GetNamespace, Checking
<1>5. CreateNamespace(s) => Moves(s, "client") \/ Moves(s, "get again")
  BY <1>0, <1>1, GotoIs, EnsuredIs DEF CreateNamespace
<1>6. GetAgain(s) => Ends(s) \/ Moves(s, Checked(Stack(s)))
  <2>1. Checked(Stack(s)) \in PCs
    BY <1>1 DEF Checked
  <2> QED BY <1>0, <1>2, <2>1, ReadIs, Zenon DEF GetAgain
<1>7. LabelNamespace(s) => Moves(s, "client") \/ Ends(s)
  BY <1>0, <1>2, EnsuredIs, Zenon DEF LabelNamespace
<1>8. NewClient(s) =>
          Moves(s, IF command[s].op \in {"disable", "delete"} THEN "uninstall" ELSE "install")
  BY <1>0, <1>1, GotoIs DEF NewClient
<1>9. InstallBegins(s) => Moves(s, "installing")
  BY <1>0, <1>1, GotoIs DEF InstallBegins
<1>10. InstallEnds(s) => Moves(s, "wait") \/ Ends(s)
  BY <1>0, <1>1, <1>2, GotoIs DEF InstallEnds
<1>11. WaitEnds(s) => Shifts(s, "get", "mon") \/ Ends(s)
  <2>1. "get" \in PCs /\ "mon" \in Stacks
    BY <1>0, <1>1
  <2> QED BY <1>0, <1>2, <2>1, NextStackIs, Zenon DEF WaitEnds
<1>12. AfterUninstall(s) =>
          IF command[s].op = "disable" THEN Moves(s, "namespace delete")
          ELSE Shifts(s, IF Stack(s) = "gpu" THEN "client" ELSE "kind delete", "mon")
  <2>1. CASE command[s].op = "disable"
    BY <1>0, <1>1, <2>1, GotoIs DEF AfterUninstall
  <2>2. CASE command[s].op # "disable"
    <3> DEFINE p == IF Stack(s) = "gpu" THEN "client" ELSE "kind delete"
    <3>1. p \in PCs /\ "mon" \in Stacks
      BY <1>0, <1>1
    <3>2. AfterUninstall(s) =>
              command' = [command EXCEPT ![s].stack = "mon", ![s].pc = p]
      BY <2>2, Zenon DEF AfterUninstall
    <3> HIDE DEF p
    <3>3. AfterUninstall(s) => Shifts(s, p, "mon")
      BY <1>0, <3>1, <3>2, NextStackIs
    <3> QED BY <2>2, <3>3 DEF p
  <2> QED BY <2>1, <2>2
<1>13. (\/ NotThere(s) \/ InstallRefused(s) \/ InstallFails(s)
        \/ WaitTimesOut(s) \/ DeleteNamespace(s) \/ CallFails(s)) => Ends(s)
  BY <1>0, <1>2, DeleteNamespaceIs
     DEF NotThere, InstallRefused, InstallFails, WaitTimesOut, CallFails
<1> QED
  BY <1>3, <1>4, <1>5, <1>6, <1>7, <1>8, <1>9, <1>10, <1>11, <1>12, <1>13, Zenon
LEMMA BoundsAreNat == MaxCommands \in Nat /\ MaxFaults \in Nat /\ MaxKills \in Nat
BY CommandsAssumption

LEMMA FaultType ==
    ASSUME faults \in 0..MaxFaults, Fault PROVE faults' \in 0..MaxFaults
BY BoundsAreNat DEF Fault

LEMMA NoCommandPlaced == Placed(NoCommand)
BY DEF NoCommand, Placed, Ensuring

LEMMA TypeInit == Init => TypeInv
<1> SUFFICES ASSUME Init PROVE TypeInv
  OBVIOUS
<1>1. \A s \in Shells : command[s] = NoCommand /\ Placed(NoCommand)
  BY DEF Init, NoCommand, Placed, Ensuring
<1>2. NoCommand \in Command
  BY NoCommandType
<1>3. NoNamespace \in Namespace /\ {0} \subseteq 0..MaxCommands
      /\ {0} \subseteq 0..MaxFaults /\ {0} \subseteq 0..MaxKills
  BY CommandsAssumption DEF NoNamespace, Namespace
<1> QED
  BY <1>1, <1>2, <1>3 DEF Init, NoCluster, TypeInv, TypeOK, AllPlaced

LEMMA StepKeepsTypes ==
    ASSUME TypeInv, NEW s \in Shells, Step(s)
    PROVE  TypeInv'
<1> USE DEF Stack, At
<1>0. /\ Commands /\ Placed(command[s]) /\ AllPlaced /\ TypeOK
      /\ command[s].stack \in Stacks
  BY CommandIs DEF TypeInv, TypeOK, AllPlaced, Commands
<1>1. ASSUME UNCHANGED <<clusterVars, shellVars>>, Commands', AllPlaced',
             faults' \in 0..MaxFaults
      PROVE  TypeInv'
  BY <1>0, <1>1 DEF TypeInv, TypeOK, clusterVars, shellVars, Commands
<1>2. ASSUME UNCHANGED clusterVars, Error(s), faults' \in 0..MaxFaults
      PROVE  TypeInv'
  BY <1>0, <1>2, ErrorKeepsTypes DEF TypeInv, TypeOK, clusterVars, Ends, Commands, Words
<1>3. CASE KindCreate(s)
  <2>1. Commands' /\ AllPlaced'
    BY <1>0, <1>3, StepIs, MovesPlaced
       DEF KindCreate, Moves, Shifts, PCs, Placed, Ensuring
  <2> QED BY <1>0, <1>3, <2>1
          DEF KindCreate, TypeInv, TypeOK, Commands, shellVars
<1>4. CASE NotThere(s) \/ InstallRefused(s) \/ WaitTimesOut(s)
  BY <1>0, <1>2, <1>4 DEF NotThere, InstallRefused, WaitTimesOut, TypeOK
<1>5. CASE GetNamespace(s)
  <2>1. Checking(s) \in {"namespace", "client", "label"}
    BY DEF Checking, Checked
  <2>2. Commands' /\ AllPlaced'
    <3>1. Moves(s, Checking(s))
      BY <1>5, StepIs
    <3>2. command[s].pc = "get" /\ command[s].op \in {"create", "enable"}
      BY <1>0, <1>5 DEF GetNamespace, Placed, Ensuring
    <3> QED BY <1>0, <2>1, <3>1, <3>2, MovesPlaced DEF Moves, Shifts, PCs
  <2> QED BY <1>0, <1>1, <1>5, <2>2 DEF GetNamespace, TypeOK
<1>6. CASE CreateNamespace(s)
  <2>1. Commands' /\ AllPlaced'
    BY <1>0, <1>6, StepIs, MovesPlaced
       DEF CreateNamespace, Moves, Shifts, PCs, Placed, Ensuring
  <2>2. ns' \in [Stacks -> Namespace]
    <3>1. ns \in [Stacks -> Namespace]
          /\ [phase |-> "active", labels |-> TRUE] \in Namespace
      BY <1>0 DEF TypeOK, Namespace
    <3>2. \/ ns' = ns
          \/ ns' = [ns EXCEPT ![Stack(s)] = [phase |-> "active", labels |-> TRUE]]
      BY <1>6, Zenon DEF CreateNamespace, Ensured
    <3> QED BY <1>0, <3>1, <3>2
  <2> QED BY <1>0, <1>6, <2>1, <2>2
          DEF CreateNamespace, TypeInv, TypeOK, Commands, shellVars
<1>7. CASE GetAgain(s)
  <2>1. CASE ns[Stack(s)].phase = "none"
    BY <1>0, <1>2, <1>7, <2>1 DEF GetAgain, TypeOK
  <2>2. CASE ns[Stack(s)].phase # "none"
    <3>1. Checked(Stack(s)) \in {"client", "label"}
      BY DEF Checked
    <3>2. Moves(s, Checked(Stack(s)))
      BY <1>0, <1>7, <2>2, <3>1, ReadIs, Zenon DEF GetAgain, PCs
    <3>3. Commands' /\ AllPlaced'
      BY <1>0, <1>7, <3>1, <3>2, MovesPlaced
         DEF GetAgain, Moves, Shifts, PCs, Placed, Ensuring
    <3> QED BY <1>0, <1>1, <1>7, <2>2, <3>3 DEF GetAgain, TypeOK
  <2> QED BY <2>1, <2>2
<1>8. CASE LabelNamespace(s)
  <2>1. CASE command[s].current
    <3>1. Moves(s, "client") /\ ns' = [ns EXCEPT ![Stack(s)] = [ns[Stack(s)] EXCEPT !.labels = TRUE]]
      BY <1>0, <1>8, <2>1, EnsuredIs DEF LabelNamespace
    <3>2. Commands' /\ AllPlaced'
      BY <1>0, <1>8, <3>1, MovesPlaced
         DEF LabelNamespace, Moves, Shifts, PCs, Placed, Ensuring
    <3>3. [ns[Stack(s)] EXCEPT !.labels = TRUE] \in Namespace
      BY <1>0 DEF TypeOK, Namespace
    <3>4. ns' \in [Stacks -> Namespace]
      BY <1>0, <3>1, <3>3 DEF TypeOK
    <3> QED BY <1>0, <1>8, <2>1, <3>2, <3>4
            DEF LabelNamespace, TypeInv, TypeOK, Commands, shellVars
  <2>2. CASE ~command[s].current
    BY <1>0, <1>2, <1>8, <2>2 DEF LabelNamespace, TypeOK, clusterVars
  <2> QED BY <2>1, <2>2
<1>9. CASE NewClient(s)
  <2>1. Commands' /\ AllPlaced'
    <3> DEFINE p == IF command[s].op \in {"disable", "delete"} THEN "uninstall" ELSE "install"
    <3>1. Moves(s, p)
      BY <1>9, StepIs
    <3>2. /\ command[s].pc # "idle" /\ p \in {"uninstall", "install"}
          /\ p = "uninstall" => command[s].op \in {"disable", "delete"}
          /\ p = "install" => command[s].op \in {"create", "enable"}
      <4>1. command[s].op \in Ops /\ command[s].pc = "client"
        BY <1>0, <1>9, CommandIs DEF NewClient, Commands
      <4> QED BY <1>0, <4>1 DEF Placed, Ops
    <3> HIDE DEF p
    <3> QED BY <1>0, <3>1, <3>2, MovesPlaced DEF Moves, Shifts, PCs, Ensuring
  <2>2. temps' \in [Shells -> SUBSET Stacks]
    BY <1>0, <1>9 DEF NewClient, TypeOK
  <2> QED BY <1>0, <1>9, <2>1, <2>2
          DEF NewClient, TypeInv, TypeOK, Commands, clusterVars
<1>10. CASE InstallBegins(s)
  <2>1. Commands' /\ AllPlaced'
    BY <1>0, <1>10, StepIs, MovesPlaced
       DEF InstallBegins, Moves, Shifts, PCs, Placed, Ensuring
  <2> QED BY <1>0, <1>10, <2>1
          DEF InstallBegins, TypeInv, TypeOK, Commands, shellVars
<1>11. CASE InstallEnds(s)
  <2>1. CASE release[Stack(s)] = "pending" /\ ns[Stack(s)].phase = "active"
    <3>1. Moves(s, "wait")
      BY <1>0, <1>11, <2>1, GotoIs DEF InstallEnds, PCs
    <3>2. Commands' /\ AllPlaced'
      BY <1>0, <1>11, <3>1, MovesPlaced
         DEF InstallEnds, Moves, Shifts, PCs, Placed, Ensuring
    <3> QED BY <1>0, <1>11, <2>1, <3>2
            DEF InstallEnds, TypeInv, TypeOK, Commands, shellVars
  <2>2. CASE ~(release[Stack(s)] = "pending" /\ ns[Stack(s)].phase = "active")
    BY <1>0, <1>2, <1>11, <2>2 DEF InstallEnds, TypeOK, clusterVars
  <2> QED BY <2>1, <2>2
<1>12. CASE InstallFails(s)
  <2>1. Error(s) /\ faults' \in 0..MaxFaults
    BY <1>0, <1>12, FaultType DEF InstallFails, TypeOK
  <2> QED BY <1>0, <1>12, <2>1, ErrorKeepsTypes
          DEF InstallFails, TypeInv, TypeOK, Ends, Commands, Words
<1>13. CASE WaitEnds(s)
  <2>1. CASE Stack(s) = "gpu" /\ command[s].monitoring
    <3>1. "get" \in PCs /\ "mon" \in Stacks
      BY DEF PCs, Stacks
    <3>2. Shifts(s, "get", "mon")
      BY <1>0, <1>13, <2>1, <3>1, NextStackIs DEF WaitEnds
    <3>3. Placed(command'[s])
      BY <1>0, <2>1, <3>2 DEF Shifts, Placed, Ensuring
    <3>4. Commands' /\ AllPlaced'
      BY <1>0, <3>2, <3>3, OthersPlaced DEF Shifts
    <3> QED BY <1>0, <1>1, <1>13, <2>1, <3>4 DEF WaitEnds, TypeOK
  <2>2. CASE ~(Stack(s) = "gpu" /\ command[s].monitoring)
    <3>1. command[s].op \in {"create", "enable"}
      BY <1>0, <1>13 DEF WaitEnds, Placed, Ensuring
    <3> DEFINE word == IF command[s].monitoring THEN "create with monitoring" ELSE command[s].op
    <3>2. word \in Words
      BY <3>1 DEF Words
    <3>3. Return(s) /\ Says(word)
      BY <1>13, <2>2 DEF WaitEnds, Succeed
    <3> HIDE DEF word
    <3> QED BY <1>0, <1>13, <3>2, <3>3, ReturnKeepsTypes
            DEF WaitEnds, TypeInv, TypeOK, clusterVars, Ends, Commands, Words
  <2> QED BY <2>1, <2>2
<1>14. ASSUME AfterUninstall(s), At(s, "uninstall") \/ command[s].op = "delete"
       PROVE  /\ Commands' /\ AllPlaced'
              /\ temps' \in [Shells -> SUBSET Stacks]
              /\ UNCHANGED <<told, begun, killed>>
  <2>1. CASE command[s].op = "disable"
    <3>1. Moves(s, "namespace delete") /\ command[s].pc # "idle"
      BY <1>0, <1>14, <2>1, StepIs DEF Placed
    <3> QED BY <1>0, <1>14, <2>1, <3>1, MovesPlaced
            DEF AfterUninstall, Moves, Shifts, PCs, Ensuring, shellVars, TypeOK
  <2>2. CASE command[s].op # "disable"
    <3>1. command[s].op = "delete"
      BY <1>0, <1>14, <2>2 DEF Placed
    <3> DEFINE p == IF Stack(s) = "gpu" THEN "client" ELSE "kind delete"
    <3>2. p \in {"client", "kind delete"}
      OBVIOUS
    <3>3. Shifts(s, p, "mon")
      BY <1>14, <2>2, StepIs
    <3> HIDE DEF p
    <3>4. Placed(command'[s])
      BY <1>0, <3>1, <3>2, <3>3 DEF Shifts, Placed, Ensuring
    <3>5. Commands' /\ AllPlaced'
      BY <1>0, <3>3, <3>4, OthersPlaced DEF Shifts
    <3>6. /\ temps' = [temps EXCEPT ![s] = temps[s] \ {Stack(s)}]
          /\ UNCHANGED <<told, begun, killed>>
      BY <1>14, <2>2, Zenon DEF AfterUninstall
    <3>7. temps \in [Shells -> SUBSET Stacks]
      BY <1>0 DEF TypeOK
    <3>8. temps' \in [Shells -> SUBSET Stacks]
      BY <3>6, <3>7
    <3> QED BY <3>5, <3>6, <3>8
  <2> QED BY <2>1, <2>2
<1>15. CASE Uninstall(s)
  BY <1>0, <1>14, <1>15 DEF Uninstall, TypeInv, TypeOK, Commands
<1>16. CASE UninstallFails(s)
  <2>1. faults' \in 0..MaxFaults
    BY <1>0, <1>16, FaultType DEF UninstallFails, TypeOK
  <2> QED BY <1>0, <1>14, <1>16, <2>1
          DEF UninstallFails, TypeInv, TypeOK, Commands, clusterVars
<1>17. CASE DeleteNamespace(s)
  <2>1. Commands' /\ AllPlaced'
    BY <1>0, <1>17, DeleteNamespaceIs, EndsPlaced DEF Ends
  <2>2. [ns[Stack(s)] EXCEPT !.phase = "terminating"] \in Namespace
    BY <1>0 DEF TypeOK, Namespace
  <2>3. ns' \in [Stacks -> Namespace]
    BY <1>0, <1>17, <2>2 DEF DeleteNamespace, TypeOK
  <2>4. told' \in Words /\ temps' \in [Shells -> SUBSET Stacks]
    BY <1>0, <1>17 DEF DeleteNamespace, Says, Close, TypeOK, Words
  <2> QED BY <1>0, <1>17, <2>1, <2>3, <2>4
          DEF DeleteNamespace, TypeInv, TypeOK, Commands, Words
<1>18. CASE KindDelete(s)
  <2>1. Commands'
    BY <1>0, <1>18, KindDeleteIs
  <2>2. ASSUME NEW t \in Shells PROVE Placed(command'[t])
    <3>1. Placed(command[t])
      BY <1>0 DEF AllPlaced
    <3>2. CASE t = s
      BY <1>0, <1>18, <3>2, KindDeleteIs, NoCommandPlaced
    <3>3. CASE t # s /\ Same(command'[t], command[t])
      BY <3>1, <3>3, Zenon DEF Placed, Same
    <3>4. CASE t # s /\ ~Same(command'[t], command[t])
      <4>1. /\ command[t].pc # "idle" /\ command'[t].op = command[t].op
            /\ command'[t].stack = command[t].stack
            /\ command'[t].monitoring = command[t].monitoring
            /\ command'[t].pc = IF command[t].op = "delete" THEN "kind delete" ELSE "lost"
        BY <1>0, <1>18, <3>4, KindDeleteIs
      <4> QED BY <3>1, <4>1 DEF Placed, Ensuring
    <3> QED BY <3>2, <3>3, <3>4
  <2>3. AllPlaced'
    BY <2>2 DEF AllPlaced
  <2>4. told' \in Words /\ temps' \in [Shells -> SUBSET Stacks]
    BY <1>0, <1>18 DEF KindDelete, Says, Close, TypeOK, Words
  <2>5. NoNamespace \in Namespace
    BY DEF NoNamespace, Namespace
  <2> QED BY <1>0, <1>18, <2>1, <2>3, <2>4, <2>5
          DEF KindDelete, TypeInv, TypeOK, Commands, Words
<1>19. CASE CallFails(s)
  <2>1. faults' \in 0..MaxFaults
    BY <1>0, <1>19, FaultType DEF CallFails, TypeOK
  <2> QED BY <1>2, <1>19, <2>1 DEF CallFails
<1> QED
  BY <1>3, <1>4, <1>5, <1>6, <1>7, <1>8, <1>9, <1>10, <1>11, <1>12, <1>13,
     <1>15, <1>16, <1>17, <1>18, <1>19 DEF Step

LEMMA TypeNext == TypeInv /\ [Next]_vars => TypeInv'
<1> SUFFICES ASSUME TypeInv, [Next]_vars PROVE TypeInv'
  OBVIOUS
<1>0. TypeOK /\ AllPlaced /\ Commands
  BY DEF TypeInv, TypeOK, Commands
<1>1. ASSUME Rests PROVE Commands' /\ AllPlaced'
  BY <1>0, <1>1, Zenon DEF Rests, AllPlaced, Same, Placed
<1>2. ASSUME NEW k \in Stacks, UserNamespace(k) PROVE TypeInv'
  <2>1. Commands' /\ AllPlaced'
    BY <1>0, <1>1, <1>2, OutdatedRests DEF UserNamespace
  <2> QED BY <1>0, <1>2, <2>1
          DEF UserNamespace, TypeInv, TypeOK, Commands, Namespace, shellVars
<1>3. ASSUME NEW k \in Stacks, NamespaceGone(k) PROVE TypeInv'
  <2>1. Commands' /\ AllPlaced'
    BY <1>0, <1>1, <1>3, OutdatedRests DEF NamespaceGone
  <2> QED BY <1>0, <1>3, <2>1
          DEF NamespaceGone, TypeInv, TypeOK, Commands, NoNamespace, Namespace, shellVars
<1>4. ASSUME NEW k \in Stacks, ReleasePurged(k) PROVE TypeInv'
  BY <1>0, <1>4 DEF ReleasePurged, TypeInv, TypeOK, AllPlaced, shellVars
<1>5. ASSUME NEW n \in nodes, NodeReports(n) PROVE TypeInv'
  BY <1>0, <1>5 DEF NodeReports, TypeInv, TypeOK, AllPlaced, shellVars
<1>6. CASE GrafanaAvailable
  BY <1>0, <1>6 DEF GrafanaAvailable, TypeInv, TypeOK, AllPlaced, shellVars
<1>7. ASSUME NEW s \in Shells, NEW op \in {"create", "enable", "disable", "delete"},
             Begin(s, op)
      PROVE  TypeInv'
  <2>1. op \in Ops \ {"none"}
    BY DEF Ops
  <2>2. Commands' /\ Others(s) /\ Placed(command'[s])
    BY <1>0, <1>7, <2>1, BeginIs DEF Placed, Ensuring
  <2>3. AllPlaced'
    BY <1>0, <2>2, OthersPlaced
  <2>4. begun' \in 0..MaxCommands /\ told' \in Words
    <3>1. begun' \in 0..MaxCommands
      <4>1. begun \in 0..MaxCommands
        BY <1>0 DEF TypeOK
      <4>2. begun < MaxCommands /\ begun' = begun + 1
        BY <1>7, Zenon DEF Begin
      <4> QED BY <4>1, <4>2, BoundsAreNat
    <3>2. told' \in {"nothing", "disturbed"}
      BY <1>7 DEF Begin
    <3> QED BY <3>1, <3>2 DEF Words
  <2> QED BY <1>0, <1>7, <2>2, <2>3, <2>4
          DEF Begin, TypeInv, TypeOK, Commands, clusterVars, Words
<1>8. ASSUME NEW s \in Shells, Step(s) PROVE TypeInv'
  BY <1>8, StepKeepsTypes
<1>9. ASSUME NEW s \in Shells, Kill(s) PROVE TypeInv'
  <2>1. Commands' /\ AllPlaced'
    BY <1>0, <1>9, ReturnIs, EndsPlaced DEF Kill, Ends
  <2>2. killed' \in [Shells -> 0..MaxKills]
    <3>1. killed \in [Shells -> 0..MaxKills] /\ killed[s] < MaxKills
      BY <1>0, <1>9 DEF Kill, TypeOK
    <3>2. killed[s] + 1 \in 0..MaxKills
      BY <3>1, BoundsAreNat
    <3>3. killed' = [killed EXCEPT ![s] = killed[s] + 1]
      BY <1>9 DEF Kill
    <3> QED BY <3>1, <3>2, <3>3
  <2> QED BY <1>0, <1>9, <2>1, <2>2 DEF Kill, TypeInv, TypeOK, Commands, clusterVars
<1>10. CASE UNCHANGED vars
  BY <1>0, <1>10 DEF vars, clusterVars, shellVars, TypeInv, TypeOK, AllPlaced
<1> QED
  BY <1>2, <1>3, <1>4, <1>5, <1>6, <1>7, <1>8, <1>9, <1>10 DEF Next, KubernetesNext

LEMMA TypeInvAlways == Spec => []TypeInv
BY TypeInit, TypeNext, PTL DEF Spec

\* The variables of GpuCluster keep their types; the word that a command ends
\* with is one of those that it may say.
THEOREM TypeCorrect == Spec => []TypeOK
BY TypeInvAlways, PTL DEF TypeInv

-----------------------------------------------------------------------------
(***************************************************************************)
(* Kubeconfig files.                                                       *)
(***************************************************************************)
Idle(s) == command[s].pc = "idle"

\* A step of s touches no other shell's files, and leaves none when it is the last.
LEMMA StepCleans ==
    ASSUME TypeInv, NEW s \in Shells, Step(s)
    PROVE  /\ killed' = killed
           /\ \A t \in Shells \ {s} : temps'[t] = temps[t] /\ (Idle(t)' => Idle(t))
           /\ Idle(s)' => temps'[s] = {}
<1> USE DEF Stack, At
<1>0. /\ Commands /\ Placed(command[s]) /\ command[s].stack \in Stacks
      /\ command[s].op \in Ops
      /\ temps \in [Shells -> SUBSET Stacks]
  BY CommandIs DEF TypeInv, TypeOK, AllPlaced, Commands
<1>1. ASSUME Return(s), Ends(s)
      PROVE  /\ killed' = killed
             /\ \A t \in Shells \ {s} : temps'[t] = temps[t] /\ (Idle(t)' => Idle(t))
             /\ temps'[s] = {}
  BY <1>0, <1>1 DEF Return, Close, Ends, Others, Same, Idle
<1>2. Error(s) \/ Succeed(s) => Return(s) /\ Ends(s)
  BY <1>0, ReturnIs DEF Error, Succeed, Return
<1>3. ASSUME NEW p \in PCs \ {"idle"}, NEW k, Shifts(s, p, k), killed' = killed,
             \A t \in Shells \ {s} : temps'[t] = temps[t]
      PROVE  /\ killed' = killed
             /\ \A t \in Shells \ {s} : temps'[t] = temps[t] /\ (Idle(t)' => Idle(t))
             /\ ~Idle(s)'
  BY <1>3 DEF Shifts, Others, Same, Idle
<1>4. CASE \/ NotThere(s) \/ InstallRefused(s) \/ WaitTimesOut(s) \/ CallFails(s)
           \/ InstallFails(s)
  BY <1>1, <1>2, <1>4
     DEF NotThere, InstallRefused, WaitTimesOut, CallFails, InstallFails
<1>5. CASE KindCreate(s) \/ InstallBegins(s)
  <2>1. Moves(s, "get") \/ Moves(s, "installing")
    BY <1>5, StepIs
  <2> QED BY <1>3, <1>5, <2>1 DEF KindCreate, InstallBegins, Moves, shellVars, PCs
<1>6. CASE GetNamespace(s)
  <2>1. Checking(s) \in PCs \ {"idle"}
    BY DEF Checking, Checked, PCs
  <2>2. Moves(s, Checking(s))
    BY <1>6, StepIs
  <2>3. UNCHANGED shellVars
    BY <1>6 DEF GetNamespace
  <2> QED BY <1>3, <2>1, <2>2, <2>3 DEF Moves, shellVars
<1>7. CASE CreateNamespace(s)
  <2>1. Moves(s, "client") \/ Moves(s, "get again")
    BY <1>7, StepIs
  <2> QED BY <1>3, <1>7, <2>1 DEF CreateNamespace, Moves, shellVars, PCs
<1>8. CASE GetAgain(s)
  <2>1. CASE ns[Stack(s)].phase = "none"
    BY <1>1, <1>2, <1>8, <2>1 DEF GetAgain
  <2>2. CASE ns[Stack(s)].phase # "none"
    <3>1. Checked(Stack(s)) \in PCs \ {"idle"}
      BY DEF Checked, PCs
    <3>2. Moves(s, Checked(Stack(s)))
      BY <1>0, <1>8, <2>2, <3>1, ReadIs, Zenon DEF GetAgain
    <3>3. UNCHANGED shellVars
      BY <1>8, <2>2 DEF GetAgain
    <3> QED BY <1>3, <3>1, <3>2, <3>3 DEF Moves, shellVars
  <2> QED BY <2>1, <2>2
<1>9. CASE LabelNamespace(s)
  <2>1. CASE command[s].current
    <3>1. Moves(s, "client") /\ UNCHANGED shellVars
      BY <1>0, <1>9, <2>1, EnsuredIs DEF LabelNamespace
    <3> QED BY <1>3, <3>1 DEF Moves, shellVars, PCs
  <2>2. CASE ~command[s].current
    BY <1>1, <1>2, <1>9, <2>2 DEF LabelNamespace
  <2> QED BY <2>1, <2>2
<1>10. CASE NewClient(s)
  <2> DEFINE p == IF command[s].op \in {"disable", "delete"} THEN "uninstall" ELSE "install"
  <2>1. Moves(s, p) /\ p \in PCs \ {"idle"}
    BY <1>10, StepIs DEF PCs
  <2> HIDE DEF p
  <2>2. killed' = killed /\ \A t \in Shells \ {s} : temps'[t] = temps[t]
    BY <1>0, <1>10 DEF NewClient
  <2> QED BY <1>3, <2>1, <2>2 DEF Moves
<1>11. CASE InstallEnds(s)
  <2>1. CASE release[Stack(s)] = "pending" /\ ns[Stack(s)].phase = "active"
    <3>1. Moves(s, "wait") /\ UNCHANGED shellVars
      BY <1>0, <1>11, <2>1, GotoIs DEF InstallEnds, PCs
    <3> QED BY <1>3, <3>1 DEF Moves, shellVars, PCs
  <2>2. CASE ~(release[Stack(s)] = "pending" /\ ns[Stack(s)].phase = "active")
    BY <1>1, <1>2, <1>11, <2>2 DEF InstallEnds
  <2> QED BY <2>1, <2>2
<1>12. CASE WaitEnds(s)
  <2>1. CASE Stack(s) = "gpu" /\ command[s].monitoring
    <3>1. "get" \in PCs /\ "mon" \in Stacks
      BY DEF PCs, Stacks
    <3>2. Shifts(s, "get", "mon") /\ UNCHANGED shellVars
      BY <1>0, <1>12, <2>1, <3>1, NextStackIs DEF WaitEnds
    <3> QED BY <1>3, <3>1, <3>2 DEF shellVars
  <2>2. CASE ~(Stack(s) = "gpu" /\ command[s].monitoring)
    BY <1>1, <1>2, <1>12, <2>2 DEF WaitEnds
  <2> QED BY <2>1, <2>2
<1>13. CASE Uninstall(s) \/ UninstallFails(s)
  <2>1. AfterUninstall(s)
    BY <1>13 DEF Uninstall, UninstallFails
  <2>2. killed' = killed /\ \A t \in Shells \ {s} : temps'[t] = temps[t]
    BY <1>0, <2>1 DEF AfterUninstall, shellVars
  <2>3. CASE command[s].op = "disable"
    <3>1. Moves(s, "namespace delete")
      BY <2>1, <2>3, StepIs
    <3> QED BY <1>3, <2>2, <3>1 DEF Moves, PCs
  <2>4. CASE command[s].op # "disable"
    <3> DEFINE p == IF Stack(s) = "gpu" THEN "client" ELSE "kind delete"
    <3>1. Shifts(s, p, "mon") /\ p \in PCs \ {"idle"}
      BY <2>1, <2>4, StepIs DEF PCs
    <3> HIDE DEF p
    <3> QED BY <1>3, <2>2, <3>1
  <2> QED BY <2>3, <2>4
<1>14. CASE DeleteNamespace(s)
  <2>1. Ends(s)
    BY <1>14, <1>0, DeleteNamespaceIs
  <2> QED BY <1>0, <1>14, <2>1 DEF DeleteNamespace, Close, Ends, Others, Same, Idle
<1>15. CASE KindDelete(s)
  <2>1. \A t \in Shells \ {s} : Idle(t)' => Idle(t)
    BY <1>0, <1>15, KindDeleteIs DEF Same, Idle
  <2> QED BY <1>0, <1>15, <2>1 DEF KindDelete, Close
<1> QED
  BY <1>4, <1>5, <1>6, <1>7, <1>8, <1>9, <1>10, <1>11, <1>12, <1>13, <1>14, <1>15 DEF Step

LEMMA CleanInit == Init => NoKubeconfigLeft
BY DEF Init, NoKubeconfigLeft

LEMMA CleanNext == TypeInv /\ NoKubeconfigLeft /\ [Next]_vars => NoKubeconfigLeft'
<1> SUFFICES ASSUME TypeInv, NoKubeconfigLeft, [Next]_vars, NEW t \in Shells,
                    Idle(t)', killed'[t] = 0
             PROVE  temps'[t] = {}
  BY DEF NoKubeconfigLeft, At, Idle
<1>0. Commands /\ killed \in [Shells -> 0..MaxKills]
  BY DEF TypeInv, TypeOK, Commands
<1>1. ASSUME Idle(t), killed[t] = 0, temps'[t] = temps[t] PROVE temps'[t] = {}
  BY <1>1 DEF NoKubeconfigLeft, At, Idle
<1>2. CASE KubernetesNext
  <2>1. Idle(t)
    BY <1>0, <1>2, OutdatedRests
       DEF KubernetesNext, UserNamespace, NamespaceGone, ReleasePurged, NodeReports,
           GrafanaAvailable, Rests, Same, Idle
  <2>2. UNCHANGED shellVars
    BY <1>2 DEF KubernetesNext, UserNamespace, NamespaceGone, ReleasePurged, NodeReports,
                GrafanaAvailable
  <2> QED BY <1>1, <2>1, <2>2 DEF shellVars
<1>3. ASSUME NEW s \in Shells, NEW op \in {"create", "enable", "disable", "delete"},
             Begin(s, op)
      PROVE  temps'[t] = {}
  <2>1. op \in Ops \ {"none"}
    BY DEF Ops
  <2>2. Others(s) /\ command'[s].pc # "idle"
    BY <1>0, <1>3, <2>1, BeginIs
  <2> QED BY <1>1, <1>3, <2>2 DEF Begin, Others, Same, Idle
<1>4. ASSUME NEW s \in Shells, Step(s) PROVE temps'[t] = {}
  BY <1>1, <1>4, StepCleans
<1>5. ASSUME NEW s \in Shells, Kill(s) PROVE temps'[t] = {}
  <2>1. CASE t = s
    <3>1. killed'[s] = killed[s] + 1 /\ killed[s] \in 0..MaxKills
      BY <1>0, <1>5 DEF Kill
    <3>2. killed'[s] # 0
      BY <3>1, BoundsAreNat
    <3> QED BY <2>1, <3>2
  <2>2. CASE t # s
    <3>1. Ends(s)
      BY <1>0, <1>5, ReturnIs DEF Kill
    <3> QED BY <1>0, <1>1, <1>5, <2>2, <3>1 DEF Kill, Ends, Others, Same, Idle
  <2> QED BY <2>1, <2>2
<1>6. CASE UNCHANGED vars
  BY <1>1, <1>6 DEF vars, shellVars, Idle
<1> QED BY <1>2, <1>3, <1>4, <1>5, <1>6 DEF Next

\* A command that is not killed removes every kubeconfig file it has written
\* before it ends, wherever it ends and whatever other shells do: the deferred
\* Close calls of gpu_create.go, gpu_monitoring.go and gpu_delete.go.
THEOREM NoKubeconfigLeftAlways == Spec => []NoKubeconfigLeft
BY TypeInvAlways, CleanInit, CleanNext, PTL DEF Spec

-----------------------------------------------------------------------------
(***************************************************************************)
(* Labels.  LabelledBeforeInstall is not inductive: it needs that a        *)
(* command which is about to install has seen the labels, and that they    *)
(* cannot be lost except with the namespace.                               *)
(***************************************************************************)
Fit(n, k) == n[k].phase = "none" \/ n[k].labels

Installing(c) == \/ c.pc = "install"
                 \/ c.pc = "client" /\ c.op \notin {"disable", "delete"}

LabelsSeen == \A s \in Shells : Installing(command[s]) => Fit(ns, command[s].stack)

InLabelled == \A k \in Stacks : release[k] # "none" => ns[k].phase # "none" /\ ns[k].labels

LabelInv == TypeInv /\ LabelsSeen /\ InLabelled

\* What a step may do to namespaces and releases without loss.
LabelsKept == \A k \in Stacks : Fit(ns, k) => Fit(ns', k)

LEMMA LabelsSeenKept ==
    ASSUME TypeInv, LabelsSeen, LabelsKept, NEW s \in Shells, Others(s),
           Installing(command'[s]) => Fit(ns', command'[s].stack)
    PROVE  LabelsSeen'
<1>1. \A t \in Shells : command[t].stack \in Stacks
  BY CommandIs DEF TypeInv, TypeOK
<1>2. ASSUME NEW t \in Shells \ {s}, Installing(command'[t])
      PROVE  Fit(ns', command'[t].stack)
  <2>1. Same(command'[t], command[t])
    BY DEF Others
  <2>2. Installing(command[t]) /\ command'[t].stack = command[t].stack
    BY <1>2, <2>1 DEF Same, Installing
  <2>3. Fit(ns', command[t].stack)
    BY <1>1, <2>2 DEF LabelsSeen, LabelsKept
  <2> QED BY <2>2, <2>3 DEF Fit
<1>3. \A t \in Shells : Installing(command'[t]) => Fit(ns', command'[t].stack)
  BY <1>2
<1> QED BY <1>3 DEF LabelsSeen

LEMMA LabelInit == Init => LabelInv
<1>1. Init => LabelsSeen /\ InLabelled
  BY DEF Init, NoCluster, NoNamespace, NoCommand, LabelsSeen, InLabelled, Installing, Stacks
<1> QED BY <1>1, TypeInit DEF LabelInv

LEMMA StepKeepsLabels ==
    ASSUME LabelInv, NEW s \in Shells, Step(s)
    PROVE  LabelsSeen' /\ InLabelled'
<1> USE DEF Stack, At
<1>0. /\ TypeInv /\ LabelsSeen /\ InLabelled /\ Commands
      /\ command[s].stack \in Stacks
      /\ Placed(command[s]) /\ command[s].op \in Ops
      /\ ns \in [Stacks -> Namespace]
      /\ release \in [Stacks -> {"none", "pending", "deployed", "failed"}]
  BY CommandIs DEF LabelInv, TypeInv, TypeOK, AllPlaced, Commands
<1>1. ASSUME UNCHANGED ns, Others(s), ~Installing(command'[s])
      PROVE  LabelsSeen'
  BY <1>0, <1>1, LabelsSeenKept DEF LabelsKept, Fit
<1>2. Ends(s) => Others(s) /\ ~Installing(command'[s])
  BY DEF Ends, Same, NoCommand, Installing
<1>3. UNCHANGED <<ns, release>> => InLabelled'
  BY <1>0 DEF InLabelled
<1>4. Error(s) \/ Succeed(s) => Ends(s)
  BY <1>0, ReturnIs DEF Error, Succeed, Return
<1>5. ASSUME NEW p, NEW k, Shifts(s, p, k), p # "install",
             p = "client" => command[s].op \in {"disable", "delete"}
      PROVE  Others(s) /\ ~Installing(command'[s])
  BY <1>5 DEF Shifts, Installing
<1>6. CASE \/ NotThere(s) \/ InstallRefused(s) \/ WaitTimesOut(s) \/ CallFails(s)
  BY <1>1, <1>2, <1>3, <1>4, <1>6
     DEF NotThere, InstallRefused, WaitTimesOut, CallFails, clusterVars
<1>7. CASE KindCreate(s)
  <2>1. Moves(s, "get")
    BY <1>0, <1>7, StepIs
  <2> QED BY <1>1, <1>3, <1>5, <1>7, <2>1 DEF KindCreate, Moves
<1>8. CASE GetNamespace(s)
  <2>1. Moves(s, Checking(s)) /\ UNCHANGED <<ns, release>>
    BY <1>0, <1>8, StepIs DEF GetNamespace, clusterVars
  <2>2. Checking(s) \in {"namespace", "client", "label"}
        /\ (Checking(s) = "client" => Fit(ns, Stack(s)))
    BY DEF Checking, Checked, Fit
  <2>3. LabelsSeen'
    BY <1>0, <2>1, <2>2, LabelsSeenKept DEF Moves, Shifts, Installing, LabelsKept, Fit
  <2> QED BY <1>3, <2>1, <2>3
<1>9. CASE CreateNamespace(s)
  <2>1. CASE ns[Stack(s)].phase = "none"
    <3>1. Moves(s, "client")
          /\ ns' = [ns EXCEPT ![Stack(s)] = [phase |-> "active", labels |-> TRUE]]
      BY <1>0, <1>9, <2>1, EnsuredIs DEF CreateNamespace
    <3>2. LabelsKept /\ Fit(ns', Stack(s)) /\ command'[s].stack = Stack(s)
      BY <1>0, <3>1 DEF LabelsKept, Fit, Moves, Shifts
    <3>3. LabelsSeen'
      BY <1>0, <3>1, <3>2, LabelsSeenKept DEF Moves, Shifts
    <3>4. InLabelled'
      BY <1>0, <1>9, <3>1 DEF CreateNamespace, InLabelled
    <3> QED BY <3>3, <3>4
  <2>2. CASE ns[Stack(s)].phase # "none"
    <3>1. Moves(s, "get again") /\ UNCHANGED <<ns, release>>
      BY <1>0, <1>9, <2>2, GotoIs DEF CreateNamespace, PCs
    <3> QED BY <1>1, <1>3, <1>5, <3>1 DEF Moves
  <2> QED BY <2>1, <2>2
<1>10. CASE GetAgain(s)
  <2>1. UNCHANGED <<ns, release>>
    BY <1>10 DEF GetAgain, clusterVars
  <2>2. CASE Ends(s)
    BY <1>1, <1>2, <1>3, <2>1, <2>2
  <2>3. CASE Moves(s, Checked(Stack(s)))
    <3>1. Checked(Stack(s)) \in {"client", "label"}
          /\ (Checked(Stack(s)) = "client" => Fit(ns, Stack(s)))
      BY DEF Checked, Fit
    <3>2. LabelsSeen'
      BY <1>0, <2>1, <2>3, <3>1, LabelsSeenKept DEF Moves, Shifts, Installing, LabelsKept, Fit
    <3> QED BY <1>3, <2>1, <3>2
  <2> QED BY <1>0, <1>10, <2>2, <2>3, StepIs
<1>11. CASE LabelNamespace(s)
  <2>1. CASE command[s].current
    <3>1. Moves(s, "client") /\ release' = release
          /\ ns' = [ns EXCEPT ![Stack(s)] = [ns[Stack(s)] EXCEPT !.labels = TRUE]]
      BY <1>0, <1>11, <2>1, EnsuredIs DEF LabelNamespace
    <3>2. ns[Stack(s)] \in Namespace /\ Namespace = [phase : {"none", "active", "terminating"}, labels : BOOLEAN]
      BY <1>0 DEF Namespace
    <3>3. /\ ns'[Stack(s)].phase = ns[Stack(s)].phase /\ ns'[Stack(s)].labels
          /\ \A k \in Stacks \ {Stack(s)} : ns'[k] = ns[k]
      BY <1>0, <3>1, <3>2
    <3>4. LabelsKept /\ Fit(ns', Stack(s)) /\ command'[s].stack = Stack(s)
      BY <1>0, <3>1, <3>3 DEF LabelsKept, Fit, Moves, Shifts
    <3>5. LabelsSeen'
      BY <1>0, <3>1, <3>4, LabelsSeenKept DEF Moves, Shifts
    <3>6. InLabelled'
      BY <1>0, <3>1, <3>3 DEF InLabelled
    <3> QED BY <3>5, <3>6
  <2>2. CASE ~command[s].current
    BY <1>1, <1>2, <1>3, <1>4, <1>11, <2>2 DEF LabelNamespace
  <2> QED BY <2>1, <2>2
<1>12. CASE NewClient(s)
  <2> DEFINE p == IF command[s].op \in {"disable", "delete"} THEN "uninstall" ELSE "install"
  <2>1. Moves(s, p) /\ UNCHANGED <<ns, release>>
    BY <1>0, <1>12, StepIs DEF NewClient, clusterVars
  <2>2. p = "install" => Installing(command[s])
    BY <1>12 DEF NewClient, Installing
  <2>3. p \in {"uninstall", "install"}
    OBVIOUS
  <2> HIDE DEF p
  <2>4. Installing(command'[s]) => Fit(ns', command'[s].stack)
    BY <1>0, <2>1, <2>2, <2>3 DEF Moves, Shifts, Installing, LabelsSeen, Fit
  <2>5. LabelsSeen'
    BY <1>0, <2>1, <2>4, LabelsSeenKept DEF Moves, Shifts, LabelsKept, Fit
  <2> QED BY <1>3, <2>1, <2>5
<1>13. CASE InstallBegins(s)
  <2>1. Moves(s, "installing") /\ ns' = ns
    BY <1>0, <1>13, StepIs DEF InstallBegins
  <2>2. ns[Stack(s)].phase # "none" /\ ns[Stack(s)].labels
    BY <1>0, <1>13 DEF InstallBegins, LabelsSeen, Installing, Fit
  <2>3. InLabelled'
    BY <1>0, <1>13, <2>1, <2>2 DEF InstallBegins, InLabelled
  <2> QED BY <1>1, <1>5, <2>1, <2>3 DEF Moves
<1>14. CASE InstallEnds(s)
  <2>1. LabelsSeen'
    <3>1. Moves(s, "wait") \/ Ends(s)
      BY <1>0, <1>14, StepIs
    <3>2. ns' = ns
      BY <1>14 DEF InstallEnds
    <3> QED BY <1>1, <1>2, <1>5, <3>1, <3>2 DEF Moves
  <2>2. InLabelled'
    BY <1>0, <1>14 DEF InstallEnds, InLabelled
  <2> QED BY <2>1, <2>2
<1>15. CASE InstallFails(s)
  <2>1. LabelsSeen'
    BY <1>1, <1>2, <1>4, <1>15 DEF InstallFails
  <2>2. InLabelled'
    BY <1>0, <1>15 DEF InstallFails, InLabelled
  <2> QED BY <2>1, <2>2
<1>16. CASE WaitEnds(s)
  <2>1. UNCHANGED <<ns, release>>
    BY <1>16 DEF WaitEnds, clusterVars
  <2>2. Shifts(s, "get", "mon") \/ Ends(s)
    BY <1>0, <1>16, StepIs
  <2> QED BY <1>1, <1>2, <1>3, <1>5, <2>1, <2>2
<1>17. ASSUME AfterUninstall(s), command[s].op \in {"disable", "delete"}
       PROVE  Others(s) /\ ~Installing(command'[s])
  <2>1. CASE command[s].op = "disable"
    BY <1>0, <1>5, <1>17, <2>1, StepIs DEF Moves
  <2>2. CASE command[s].op # "disable"
    <3> DEFINE p == IF Stack(s) = "gpu" THEN "client" ELSE "kind delete"
    <3>1. Shifts(s, p, "mon") /\ p # "install"
      BY <1>0, <1>17, <2>2, StepIs
    <3> HIDE DEF p
    <3> QED BY <1>5, <1>17, <3>1
  <2> QED BY <2>1, <2>2
<1>18. CASE Uninstall(s)
  <2>1. command[s].op \in {"disable", "delete"}
    BY <1>0, <1>18 DEF Uninstall, Placed
  <2>2. LabelsSeen'
    BY <1>1, <1>17, <1>18, <2>1 DEF Uninstall
  <2>3. InLabelled'
    BY <1>0, <1>18 DEF Uninstall, InLabelled
  <2> QED BY <2>2, <2>3
<1>19. CASE UninstallFails(s)
  <2>1. command[s].op \in {"disable", "delete"}
    BY <1>0, <1>19 DEF UninstallFails, Placed
  <2>2. UNCHANGED <<ns, release>>
    BY <1>19 DEF UninstallFails, clusterVars
  <2> QED BY <1>1, <1>3, <1>17, <1>19, <2>1, <2>2 DEF UninstallFails
<1>20. CASE DeleteNamespace(s)
  <2>1. Ends(s) /\ release' = release
    BY <1>0, <1>20, DeleteNamespaceIs DEF DeleteNamespace
  <2>2. ns[Stack(s)] \in Namespace /\ Namespace = [phase : {"none", "active", "terminating"}, labels : BOOLEAN]
    BY <1>0 DEF Namespace
  <2>3. \A k \in Stacks : /\ ns'[k].labels = ns[k].labels
                          /\ ns'[k].phase = "none" <=> ns[k].phase = "none"
    <3>1. \/ ns' = ns
          \/ /\ ns' = [ns EXCEPT ![Stack(s)] = [ns[Stack(s)] EXCEPT !.phase = "terminating"]]
             /\ ns[Stack(s)].phase = "active"
      BY <1>20, Zenon DEF DeleteNamespace
    <3> QED BY <1>0, <2>2, <3>1
  <2>4. LabelsKept
    BY <2>3 DEF LabelsKept, Fit
  <2>5. LabelsSeen'
    BY <1>0, <1>2, <2>1, <2>4, LabelsSeenKept
  <2>6. InLabelled'
    BY <1>0, <2>1, <2>3 DEF InLabelled
  <2> QED BY <2>5, <2>6
<1>21. CASE KindDelete(s)
  <2>1. \A k \in Stacks : ns'[k].phase = "none" /\ release'[k] = "none"
    BY <1>21 DEF KindDelete, NoNamespace
  <2>2. command' \in [Shells -> Command]
    BY <1>0, <1>21, KindDeleteIs DEF Commands
  <2>3. \A t \in Shells : Fit(ns', command'[t].stack)
    BY <2>1, <2>2, CommandIs DEF Fit
  <2> QED BY <2>1, <2>3 DEF LabelsSeen, InLabelled
<1> QED
  BY <1>6, <1>7, <1>8, <1>9, <1>10, <1>11, <1>12, <1>13, <1>14, <1>15, <1>16,
     <1>18, <1>19, <1>20, <1>21 DEF Step

LEMMA LabelNext == LabelInv /\ [Next]_vars => LabelInv'
<1> SUFFICES ASSUME LabelInv, [Next]_vars PROVE LabelsSeen' /\ InLabelled'
  BY TypeNext DEF LabelInv
<1>0. /\ TypeInv /\ LabelsSeen /\ InLabelled /\ Commands
      /\ ns \in [Stacks -> Namespace]
      /\ release \in [Stacks -> {"none", "pending", "deployed", "failed"}]
      /\ \A t \in Shells : command[t].stack \in Stacks
  BY CommandIs DEF LabelInv, TypeInv, TypeOK, Commands
<1>1. UNCHANGED <<ns, release>> => InLabelled'
  BY <1>0 DEF InLabelled
<1>2. ASSUME Rests, LabelsKept PROVE LabelsSeen'
  <2>1. \A t \in Shells : /\ Installing(command'[t]) => Installing(command[t])
                          /\ command'[t].stack = command[t].stack
    BY <1>2 DEF Rests, Same, Installing
  <2>2. \A t \in Shells : Installing(command[t]) => Fit(ns', command[t].stack)
    BY <1>0, <1>2 DEF LabelsSeen, LabelsKept
  <2>3. \A t \in Shells : Installing(command'[t]) => Fit(ns', command'[t].stack)
    BY <2>1, <2>2 DEF Fit
  <2> QED BY <2>3 DEF LabelsSeen
<1>3. UNCHANGED command => Rests
  BY <1>0 DEF Commands, Rests, Same
<1>4. ASSUME NEW k \in Stacks, UserNamespace(k) PROVE LabelsSeen' /\ InLabelled'
  <2>1. Rests
    BY <1>0, <1>4, OutdatedRests DEF UserNamespace
  <2>2. LabelsSeen'
    BY <1>4, <2>1 DEF UserNamespace, Rests, Same, LabelsSeen, Installing
  <2>3. InLabelled'
    BY <1>0, <1>4 DEF UserNamespace, InLabelled
  <2> QED BY <2>2, <2>3
<1>5. ASSUME NEW k \in Stacks, NamespaceGone(k) PROVE LabelsSeen' /\ InLabelled'
  <2>1. Rests
    BY <1>0, <1>5, OutdatedRests DEF NamespaceGone
  <2>2. LabelsKept /\ InLabelled'
    BY <1>0, <1>5 DEF NamespaceGone, NoNamespace, LabelsKept, Fit, InLabelled
  <2> QED BY <1>2, <2>1, <2>2
<1>6. ASSUME NEW k \in Stacks, ReleasePurged(k) PROVE LabelsSeen' /\ InLabelled'
  BY <1>0, <1>2, <1>3, <1>6 DEF ReleasePurged, LabelsKept, Fit, InLabelled
<1>7. CASE GrafanaAvailable \/ \E n \in nodes : NodeReports(n)
  BY <1>0, <1>1, <1>2, <1>3, <1>7 DEF GrafanaAvailable, NodeReports, LabelsKept, Fit
<1>8. ASSUME NEW s \in Shells, NEW op \in {"create", "enable", "disable", "delete"},
             Begin(s, op)
      PROVE  LabelsSeen' /\ InLabelled'
  <2>1. op \in Ops \ {"none"}
    BY DEF Ops
  <2>2. Others(s) /\ ~Installing(command'[s])
    BY <1>0, <1>8, <2>1, BeginIs DEF Installing
  <2>3. UNCHANGED <<ns, release>>
    BY <1>8 DEF Begin, clusterVars
  <2> QED BY <1>0, <1>1, <2>2, <2>3, LabelsSeenKept DEF LabelsKept, Fit
<1>9. ASSUME NEW s \in Shells, Step(s) PROVE LabelsSeen' /\ InLabelled'
  BY <1>9, StepKeepsLabels
<1>10. ASSUME NEW s \in Shells, Kill(s) PROVE LabelsSeen' /\ InLabelled'
  <2>1. Ends(s) /\ UNCHANGED <<ns, release>>
    BY <1>0, <1>10, ReturnIs DEF Kill, clusterVars
  <2> QED BY <1>0, <1>1, <2>1, LabelsSeenKept
          DEF LabelsKept, Fit, Ends, Same, NoCommand, Installing
<1>11. CASE UNCHANGED vars
  BY <1>0, <1>1, <1>2, <1>3, <1>11 DEF vars, clusterVars, LabelsKept, Fit
<1> QED BY <1>4, <1>5, <1>6, <1>7, <1>8, <1>9, <1>10, <1>11 DEF Next, KubernetesNext

\* Every release is in a namespace with the Pod Security labels: ensureNamespace
\* (gpu_create.go, gpu_monitoring.go) before every install, whichever other shell
\* creates, labels or deletes the namespace in between.
THEOREM LabelledBeforeInstallAlways == Spec => []LabelledBeforeInstall
<1>1. LabelInv => LabelledBeforeInstall
  BY DEF LabelInv, InLabelled, LabelledBeforeInstall
<1> QED BY <1>1, LabelInit, LabelNext, PTL DEF Spec

-----------------------------------------------------------------------------
(***************************************************************************)
(* Messages of success.  What makes them true: a command that has run      *)
(* alone has itself seen or made everything it claims, in the order        *)
(* cluster, GPU stack, monitoring, and nobody takes it away meanwhile.     *)
(***************************************************************************)
Up(k) == release[k] = "deployed" /\ ns[k].phase = "active"

GpuDone == exists /\ capacity = nodes /\ Up("gpu")
MonDone == Up("mon") /\ grafana
MonGoing == release["mon"] = "none" \/ ns["mon"].phase = "terminating"

\* What a command that runs alone has achieved where it is.
Sound(c) ==
    /\ c.op = "create" /\ c.pc # "kind" => exists
    /\ c.pc = "wait" => Up(c.stack)
    /\ c.op = "create" /\ c.stack = "mon" => GpuDone

AllNodes == exists => nodes = 1..WorkerCount

MonitoringAsked ==
    \A s \in Shells : command[s].op = "create" /\ command[s].stack = "mon"
                          => command[s].monitoring

AllIdle == \A s \in Shells : Idle(s)

Alone ==
    /\ told # "disturbed" =>
           /\ \A s, t \in Shells : ~Idle(s) /\ ~Idle(t) => s = t
           /\ \A s \in Shells : Sound(command[s])
    /\ told \notin {"nothing", "disturbed"} => AllIdle

ToldIsTrue ==
    /\ told \in {"create", "create with monitoring"} => GpuDone
    /\ told \in {"enable", "create with monitoring"} => MonDone
    /\ told = "disable" => MonGoing
    /\ told = "delete" => ~exists

SuccessInv == LabelInv /\ AllNodes /\ MonitoringAsked /\ Alone /\ ToldIsTrue

\* The poll has seen as many nodes as were asked for: these are all.
LEMMA EnoughIsAll ==
    ASSUME Workers > 0, TypeOK, AllNodes, exists, Cardinality(capacity) >= Workers
    PROVE  capacity = nodes
<1>1. Workers \in Nat /\ nodes = 1..Workers /\ capacity \subseteq nodes
  <2>1. Workers \in Int /\ ~(Workers <= 0)
    BY WorkersAssumption
  <2>2. WorkerCount = Workers
    BY <2>1 DEF WorkerCount
  <2>3. capacity \subseteq nodes
    BY DEF TypeOK
  <2> QED BY <2>1, <2>2, <2>3 DEF AllNodes
<1>2. IsFiniteSet(nodes) /\ Cardinality(nodes) = Workers
  BY <1>1, FS_Interval
<1>3. Cardinality(capacity) \in Nat /\ Cardinality(capacity) <= Cardinality(nodes)
  BY <1>1, <1>2, FS_Subset, FS_CardinalityType
<1>4. Cardinality(capacity) = Cardinality(nodes)
  BY <1>1, <1>2, <1>3
<1> QED BY <1>1, <1>2, <1>4, FS_Subset

LEMMA SuccessInit == Init => SuccessInv
<1> SUFFICES ASSUME Init PROVE SuccessInv
  OBVIOUS
<1>1. command = [s \in Shells |-> NoCommand] /\ told = "nothing" /\ exists = FALSE
  BY DEF Init, NoCluster
<1>2. \A s \in Shells : Idle(s) /\ Sound(command[s]) /\ command[s].op = "none"
  BY <1>1 DEF NoCommand, Idle, Sound
<1> QED BY <1>1, <1>2, LabelInit
        DEF SuccessInv, AllNodes, MonitoringAsked, Alone, ToldIsTrue, AllIdle

\* Kubernetes and its users take nothing away.
LEMMA KubernetesKeeps ==
    ASSUME LabelInv, KubernetesNext
    PROVE  /\ Rests /\ told' = told /\ exists' = exists /\ nodes' = nodes
           /\ \A k \in Stacks : Up(k) => Up(k)'
           /\ GpuDone => GpuDone'
           /\ MonDone => MonDone'
           /\ MonGoing => MonGoing'
<1>0. /\ TypeInv /\ InLabelled /\ Commands
      /\ ns \in [Stacks -> Namespace] /\ Stacks = {"gpu", "mon"}
      /\ release \in [Stacks -> {"none", "pending", "deployed", "failed"}]
      /\ capacity \subseteq nodes
  BY DEF LabelInv, TypeInv, TypeOK, Commands, Stacks
<1>1. UNCHANGED command => Rests
  BY <1>0 DEF Commands, Rests, Same
<1>2. ASSUME NEW k \in Stacks, UserNamespace(k) \/ NamespaceGone(k)
      PROVE  /\ Rests /\ UNCHANGED <<told, exists, nodes, capacity, release, grafana>>
             /\ \A j \in Stacks : Up(j) => Up(j)'
             /\ MonGoing => MonGoing'
  <2>1. Rests
    BY <1>0, <1>2, OutdatedRests DEF UserNamespace, NamespaceGone
  <2>2. UNCHANGED <<told, exists, nodes, capacity, release, grafana>>
    BY <1>2 DEF UserNamespace, NamespaceGone, shellVars
  <2>3. /\ release[k] = "none" /\ ns[k].phase # "active"
        /\ \A j \in Stacks \ {k} : ns'[j] = ns[j]
    BY <1>0, <1>2 DEF UserNamespace, NamespaceGone, InLabelled
  <2>4. \A j \in Stacks : Up(j) => Up(j)'
    BY <2>2, <2>3 DEF Up
  <2>5. MonGoing => MonGoing'
    BY <1>0, <2>2, <2>3 DEF MonGoing
  <2> QED BY <2>1, <2>2, <2>4, <2>5
<1>3. ASSUME NEW k \in Stacks, ReleasePurged(k)
      PROVE  /\ UNCHANGED <<command, told, exists, nodes, capacity, ns>>
             /\ \A j \in Stacks : Up(j) => Up(j)'
             /\ MonDone => MonDone'
             /\ MonGoing => MonGoing'
  <2>1. /\ UNCHANGED <<command, told, exists, nodes, capacity, ns>>
        /\ ns[k].phase = "terminating"
        /\ release' = [release EXCEPT ![k] = "none"]
        /\ grafana' = (grafana /\ k # "mon")
    BY <1>3 DEF ReleasePurged, shellVars
  <2>2. \A j \in Stacks : Up(j) => Up(j)'
    BY <1>0, <2>1 DEF Up
  <2>3. MonDone => MonDone'
    BY <1>0, <2>1, <2>2 DEF MonDone, Up
  <2>4. MonGoing => MonGoing'
    BY <1>0, <2>1 DEF MonGoing
  <2> QED BY <2>1, <2>2, <2>3, <2>4
<1>4. ASSUME NEW n \in nodes, NodeReports(n)
      PROVE  /\ UNCHANGED <<command, told, exists, nodes, ns, release, grafana>>
             /\ capacity = nodes => capacity' = nodes'
  BY <1>0, <1>4 DEF NodeReports, shellVars
<1>5. CASE \E k \in Stacks : UserNamespace(k) \/ NamespaceGone(k)
  BY <1>0, <1>2, <1>5 DEF GpuDone, MonDone
<1>6. CASE \E k \in Stacks : ReleasePurged(k)
  BY <1>0, <1>1, <1>3, <1>6 DEF GpuDone
<1>7. CASE \E n \in nodes : NodeReports(n)
  BY <1>1, <1>4, <1>7 DEF GpuDone, MonDone, MonGoing, Up
<1>8. CASE GrafanaAvailable
  BY <1>1, <1>8 DEF GrafanaAvailable, shellVars, GpuDone, MonDone, MonGoing, Up
<1> QED BY <1>5, <1>6, <1>7, <1>8 DEF KubernetesNext

\* A command that ends with an error, or is killed, claims nothing.
LEMMA QuietEnd ==
    ASSUME SuccessInv, NEW s \in Shells, ~Idle(s), Ends(s), AllPlaced',
           told' \in {told, "nothing"}, told = "disturbed" => told' = told
    PROVE  MonitoringAsked' /\ Alone' /\ ToldIsTrue'
<1>1. \A t \in Shells : Idle(t)' => Sound(command[t])'
  BY DEF AllPlaced, Placed, Idle, Sound, Ensuring
<1>2. MonitoringAsked'
  BY DEF SuccessInv, MonitoringAsked, Ends, Others, Same, NoCommand
<1>3. told' \in {"nothing", "disturbed"}
  BY DEF SuccessInv, Alone, AllIdle
<1>4. told' # "disturbed" => AllIdle'
  BY DEF SuccessInv, Alone, AllIdle, Ends, Others, Same, NoCommand, Idle
<1> QED BY <1>1, <1>2, <1>3, <1>4 DEF Alone, AllIdle, ToldIsTrue

\* A command that goes on has what it has, alone or not.
LEMMA GoesOn ==
    ASSUME SuccessInv, NEW s \in Shells, ~Idle(s), NEW p, NEW k, Shifts(s, p, k),
           AllPlaced', told' = told,
           command[s].op = "create" /\ k = "mon" => command[s].monitoring,
           told = "nothing" => Sound(command[s])'
    PROVE  MonitoringAsked' /\ Alone' /\ ToldIsTrue'
<1>1. \A t \in Shells : Idle(t)' => Sound(command[t])'
  BY DEF AllPlaced, Placed, Idle, Sound, Ensuring
<1>2. MonitoringAsked'
  BY DEF SuccessInv, MonitoringAsked, Shifts, Others, Same
<1>3. told \in {"nothing", "disturbed"}
  BY DEF SuccessInv, Alone, AllIdle
<1>4. told = "nothing" => \A t \in Shells \ {s} : Idle(t)'
  BY DEF SuccessInv, Alone, Shifts, Others, Same, Idle
<1> QED BY <1>1, <1>2, <1>3, <1>4 DEF Alone, ToldIsTrue

\* Every step but the last one, of a command that is not killed, and what it adds.
LEMMA StepGoesOn ==
    ASSUME Workers > 0, SuccessInv, TypeInv', NEW s \in Shells, Step(s), ~KindDelete(s),
           ~DeleteNamespace(s), ~Error(s), ~Succeed(s)
    PROVE  MonitoringAsked' /\ Alone' /\ ToldIsTrue'
<1> USE DEF Stack, At
<1>0. /\ TypeInv /\ LabelInv /\ Commands /\ TypeOK /\ AllPlaced'
      /\ command[s].stack \in Stacks /\ Stacks = {"gpu", "mon"}
      /\ Placed(command[s]) /\ command[s].op \in Ops
      /\ AllNodes
      /\ command[s].op = "create" /\ command[s].stack = "mon" => command[s].monitoring
      /\ told = "nothing" => Sound(command[s])
      /\ ns \in [Stacks -> Namespace]
      /\ release \in [Stacks -> {"none", "pending", "deployed", "failed"}]
  BY CommandIs
     DEF SuccessInv, LabelInv, TypeInv, TypeOK, AllPlaced, Commands, MonitoringAsked, Alone,
         Stacks
<1>told. UNCHANGED told
  <2>1. KindCreate(s) \/ InstallBegins(s) => UNCHANGED told
    BY DEF KindCreate, InstallBegins, shellVars
  <2>2. GetNamespace(s) \/ CreateNamespace(s) \/ NewClient(s) => UNCHANGED told
    BY DEF GetNamespace, CreateNamespace, NewClient, shellVars
  <2>3. GetAgain(s) \/ LabelNamespace(s) \/ InstallEnds(s) => UNCHANGED told
    BY DEF GetAgain, LabelNamespace, InstallEnds, shellVars
  <2>4. WaitEnds(s) => UNCHANGED told
    BY DEF WaitEnds, shellVars
  <2>5. Uninstall(s) \/ UninstallFails(s) => UNCHANGED told
    BY DEF Uninstall, UninstallFails, AfterUninstall, shellVars
  <2>6. ~(NotThere(s) \/ InstallRefused(s) \/ InstallFails(s) \/ WaitTimesOut(s) \/ CallFails(s))
    BY DEF NotThere, InstallRefused, InstallFails, WaitTimesOut, CallFails
  <2> QED BY <2>1, <2>2, <2>3, <2>4, <2>5, <2>6 DEF Step
<1>1. ASSUME NEW p, NEW k, Shifts(s, p, k), ~Idle(s),
             command[s].op = "create" /\ k = "mon" => command[s].monitoring,
             told = "nothing" =>
                 /\ command[s].op = "create" /\ p # "kind" => exists'
                 /\ p = "wait" => release'[k] = "deployed" /\ ns'[k].phase = "active"
                 /\ command[s].op = "create" /\ k = "mon" => GpuDone'
      PROVE  MonitoringAsked' /\ Alone' /\ ToldIsTrue'
  <2>1. told = "nothing" => Sound(command[s])'
    BY <1>1 DEF Sound, Shifts, Up
  <2> QED BY <1>0, <1>1, <1>told, <2>1, GoesOn
\* The common case: the same stack, and not yet the wait.
<1>2. ASSUME NEW p, Moves(s, p), ~Idle(s), command[s].pc # "kind", p # "wait",
             exists' = exists, GpuDone /\ command[s].stack = "mon" => GpuDone'
      PROVE  MonitoringAsked' /\ Alone' /\ ToldIsTrue'
  BY <1>0, <1>1, <1>2 DEF Moves, Sound
<1>3. UNCHANGED clusterVars => exists' = exists /\ (GpuDone => GpuDone')
  BY DEF clusterVars, GpuDone, Up
<1>4. CASE KindCreate(s)
  <2>1. Moves(s, "get") /\ exists' = TRUE /\ command[s].stack = "gpu" /\ ~Idle(s)
    BY <1>0, <1>4, StepIs DEF KindCreate, Placed, Idle
  <2> QED BY <1>1, <2>1 DEF Moves
<1>5. CASE GetNamespace(s)
  <2>1. Moves(s, Checking(s)) /\ UNCHANGED clusterVars /\ command[s].pc = "get"
    BY <1>0, <1>5, StepIs DEF GetNamespace
  <2>2. Checking(s) # "wait"
    BY DEF Checking, Checked
  <2> QED BY <1>2, <1>3, <2>1, <2>2 DEF Idle
<1>6. CASE CreateNamespace(s)
  <2>1. Moves(s, "client") \/ Moves(s, "get again")
    BY <1>0, <1>6, StepIs
  <2>2. /\ UNCHANGED <<nodes, exists, capacity, release>> /\ command[s].pc = "namespace"
        /\ ns' = ns \/ ns' = [ns EXCEPT ![Stack(s)] = [phase |-> "active", labels |-> TRUE]]
    BY <1>6, Zenon DEF CreateNamespace, Ensured
  <2>3. command[s].stack = "mon" => ns'["gpu"] = ns["gpu"]
    BY <1>0, <2>2
  <2>4. GpuDone /\ command[s].stack = "mon" => GpuDone'
    BY <2>2, <2>3 DEF GpuDone, Up
  <2> QED BY <1>2, <2>1, <2>2, <2>4 DEF Idle
<1>7. CASE GetAgain(s)
  <2>1. Checked(Stack(s)) \in PCs /\ Checked(Stack(s)) # "wait"
    BY DEF Checked, PCs
  <2>2. Moves(s, Checked(Stack(s)))
    BY <1>0, <1>7, <2>1, ReadIs, Zenon DEF GetAgain
  <2>3. UNCHANGED clusterVars /\ command[s].pc = "get again"
    BY <1>7 DEF GetAgain
  <2> QED BY <1>2, <1>3, <2>1, <2>2, <2>3 DEF Idle
<1>8. CASE LabelNamespace(s)
  <2>1. Moves(s, "client")
    BY <1>0, <1>8, EnsuredIs DEF LabelNamespace
  <2>2. /\ UNCHANGED <<nodes, exists, capacity, release>> /\ command[s].pc = "label"
        /\ \/ ns' = ns
           \/ ns' = [ns EXCEPT ![Stack(s)] = [ns[Stack(s)] EXCEPT !.labels = TRUE]]
    BY <1>8, Zenon DEF LabelNamespace, Ensured
  <2>3. command[s].stack = "mon" => ns'["gpu"] = ns["gpu"]
    BY <1>0, <2>2
  <2>4. GpuDone /\ command[s].stack = "mon" => GpuDone'
    BY <2>2, <2>3 DEF GpuDone, Up
  <2> QED BY <1>2, <2>1, <2>2, <2>4 DEF Idle
<1>9. CASE NewClient(s)
  <2> DEFINE p == IF command[s].op \in {"disable", "delete"} THEN "uninstall" ELSE "install"
  <2>1. Moves(s, p) /\ UNCHANGED clusterVars /\ command[s].pc = "client" /\ p # "wait"
    BY <1>0, <1>9, StepIs DEF NewClient
  <2> HIDE DEF p
  <2> QED BY <1>2, <1>3, <2>1 DEF Idle
<1>10. CASE InstallBegins(s)
  <2>1. Moves(s, "installing") /\ command[s].pc = "install"
    BY <1>0, <1>10, StepIs DEF InstallBegins
  <2>2. /\ UNCHANGED <<nodes, exists, capacity, ns>>
        /\ release' = [release EXCEPT ![Stack(s)] = "pending"]
    BY <1>10 DEF InstallBegins
  <2>3. GpuDone /\ command[s].stack = "mon" => GpuDone'
    BY <1>0, <2>2 DEF GpuDone, Up
  <2> QED BY <1>2, <2>1, <2>2, <2>3 DEF Idle
<1>11. CASE InstallEnds(s)
  <2>1. /\ Goto(s, "wait") /\ command[s].pc = "installing"
        /\ UNCHANGED <<nodes, exists, capacity, ns>>
        /\ release' = [release EXCEPT ![Stack(s)] = "deployed"]
        /\ ns[Stack(s)].phase = "active"
    BY <1>11, Zenon DEF InstallEnds
  <2>2. Moves(s, "wait")
    BY <1>0, <2>1, GotoIs DEF PCs
  <2>3. /\ release'[Stack(s)] = "deployed" /\ ns'[Stack(s)].phase = "active"
        /\ GpuDone /\ command[s].stack = "mon" => GpuDone'
    BY <1>0, <2>1 DEF GpuDone, Up
  <2> QED BY <1>0, <1>1, <2>1, <2>2, <2>3 DEF Moves, Idle, Sound
<1>12. CASE WaitEnds(s)
  <2>1. /\ command' = [command EXCEPT ![s].stack = "mon", ![s].pc = "get"]
        /\ command[s].pc = "wait" /\ UNCHANGED clusterVars
        /\ Stack(s) = "gpu" /\ command[s].monitoring /\ Awaited(s)
    BY <1>12, Zenon DEF WaitEnds
  <2>2. Shifts(s, "get", "mon")
    BY <1>0, <2>1, NextStackIs DEF PCs
  <2>3. Cardinality(capacity) >= Workers
    BY <2>1 DEF Awaited
  <2>4. command[s].op = "create"
    BY <1>0, <2>1 DEF Placed
  <2>5. told = "nothing" => GpuDone
    BY <1>0, <2>1, <2>3, <2>4, EnoughIsAll DEF Sound, GpuDone
  <2>6. told = "nothing" => GpuDone' /\ exists'
    BY <1>3, <2>1, <2>5 DEF GpuDone
  <2> QED BY <1>1, <2>1, <2>2, <2>6 DEF Idle
<1>13. CASE Uninstall(s) \/ UninstallFails(s)
  <2>1. command[s].op \in {"disable", "delete"} /\ ~Idle(s)
    BY <1>0, <1>13 DEF Uninstall, UninstallFails, Placed, Idle
  <2>2. AfterUninstall(s)
    BY <1>13 DEF Uninstall, UninstallFails
  <2>3. CASE command[s].op = "disable"
    <3>1. Moves(s, "namespace delete")
      BY <1>0, <2>2, <2>3, StepIs
    <3> QED BY <1>1, <2>1, <2>3, <3>1 DEF Moves
  <2>4. CASE command[s].op # "disable"
    <3> DEFINE p == IF Stack(s) = "gpu" THEN "client" ELSE "kind delete"
    <3>1. Shifts(s, p, "mon") /\ p # "wait"
      BY <1>0, <2>2, <2>4, StepIs
    <3> HIDE DEF p
    <3> QED BY <1>1, <2>1, <2>4, <3>1
  <2> QED BY <2>3, <2>4
<1>14. ~(NotThere(s) \/ InstallRefused(s) \/ InstallFails(s) \/ WaitTimesOut(s) \/ CallFails(s))
  BY DEF NotThere, InstallRefused, InstallFails, WaitTimesOut, CallFails
<1> QED
  BY <1>4, <1>5, <1>6, <1>7, <1>8, <1>9, <1>10, <1>11, <1>12, <1>13, <1>14 DEF Step

\* The last step of a command that succeeds: what it says is true.
LEMMA LoudEnd ==
    ASSUME SuccessInv, NEW s \in Shells, ~Idle(s), Ends(s), AllPlaced',
           NEW word \in Words \ {"disturbed"}, Says(word),
           told = "nothing" =>
               /\ word \in {"create", "create with monitoring"} => GpuDone'
               /\ word \in {"enable", "create with monitoring"} => MonDone'
               /\ word = "disable" => MonGoing'
               /\ word = "delete" => ~exists'
    PROVE  MonitoringAsked' /\ Alone' /\ ToldIsTrue'
<1>1. \A t \in Shells : Idle(t)' => Sound(command[t])'
  BY DEF AllPlaced, Placed, Idle, Sound, Ensuring
<1>2. MonitoringAsked'
  BY DEF SuccessInv, MonitoringAsked, Ends, Others, Same, NoCommand
<1>3. told \in {"nothing", "disturbed"}
  BY DEF SuccessInv, Alone, AllIdle
<1>4. CASE told = "disturbed"
  BY <1>2, <1>4 DEF Says, Alone, ToldIsTrue
<1>5. CASE told = "nothing"
  <2>1. AllIdle'
    BY <1>5 DEF SuccessInv, Alone, AllIdle, Ends, Others, Same, NoCommand, Idle
  <2>2. told' = word
    BY <1>5 DEF Says
  <2>3. Alone'
    BY <1>1, <2>1 DEF Alone, AllIdle
  <2>4. ToldIsTrue'
    BY <1>5, <2>2 DEF ToldIsTrue
  <2> QED BY <1>2, <2>3, <2>4
<1> QED BY <1>3, <1>4, <1>5

LEMMA StepKeepsSuccess ==
    ASSUME Workers > 0, SuccessInv, TypeInv', NEW s \in Shells, Step(s)
    PROVE  MonitoringAsked' /\ Alone' /\ ToldIsTrue'
<1> USE DEF Stack, At
<1>0. /\ TypeInv /\ LabelInv /\ Commands /\ TypeOK /\ AllPlaced'
      /\ command[s].stack \in Stacks /\ Stacks = {"gpu", "mon"}
      /\ Placed(command[s]) /\ command[s].op \in Ops
      /\ AllNodes
      /\ command[s].op = "create" /\ command[s].stack = "mon" => command[s].monitoring
      /\ told = "nothing" => Sound(command[s])
      /\ ns \in [Stacks -> Namespace] /\ InLabelled
  BY CommandIs
     DEF SuccessInv, LabelInv, TypeInv, TypeOK, AllPlaced, Commands, MonitoringAsked, Alone,
         Stacks
<1>1. ~Idle(s)
  BY DEF Step, KindCreate, NotThere, GetNamespace, CreateNamespace, GetAgain,
         LabelNamespace, NewClient, InstallRefused, InstallBegins, InstallEnds,
         InstallFails, WaitEnds, WaitTimesOut, Uninstall, UninstallFails,
         DeleteNamespace, KindDelete, CallFails, Idle
<1>2. CASE Error(s)
  <2>1. Ends(s) /\ told' \in {told, "nothing"} /\ (told = "disturbed" => told' = told)
    BY <1>0, <1>2, ReturnIs DEF Error, Return, Says
  <2> QED BY <1>0, <1>1, <2>1, QuietEnd
<1>3. CASE Succeed(s) /\ WaitEnds(s)
  <2>1. Ends(s)
    BY <1>0, <1>3, ReturnIs DEF Succeed, Return
  <2> DEFINE word == IF command[s].monitoring THEN "create with monitoring" ELSE command[s].op
  <2>2. Says(word)
    BY <1>3 DEF Succeed
  <2>3. /\ command[s].op \in {"create", "enable"} /\ command[s].pc = "wait"
        /\ Awaited(s) /\ UNCHANGED clusterVars
    BY <1>0, <1>3 DEF WaitEnds, Placed, Ensuring
  <2>4. ~(command[s].stack = "gpu" /\ command[s].monitoring)
    <3>1. SUFFICES ASSUME command[s].stack = "gpu" /\ command[s].monitoring PROVE FALSE
      OBVIOUS
    <3>2. command' = [command EXCEPT ![s].stack = "mon", ![s].pc = "get"]
      BY <1>3, <3>1, Zenon DEF WaitEnds
    <3>3. command'[s].pc = "get"
      BY <1>0, <3>2, NextStackIs DEF PCs, Shifts
    <3> QED BY <2>1, <3>3 DEF Ends, Same, NoCommand
  <2>5. word \in Words \ {"disturbed"}
    BY <2>3 DEF Words
  <2>6. ASSUME told = "nothing", command[s].stack = "gpu" PROVE word = "create" /\ GpuDone
    <3>1. command[s].op = "create" /\ ~command[s].monitoring
      BY <1>0, <2>3, <2>4, <2>6 DEF Placed
    <3>2. Cardinality(capacity) >= Workers
      BY <2>3, <2>6 DEF Awaited
    <3> QED BY <1>0, <2>3, <2>6, <3>1, <3>2, EnoughIsAll DEF Sound, GpuDone
  <2>7. ASSUME told = "nothing", command[s].stack = "mon"
        PROVE  MonDone /\ (word # "enable" => GpuDone) /\ word \in {"enable", "create with monitoring"}
    <3>1. MonDone
      BY <1>0, <2>3, <2>7 DEF Awaited, MonDone, Sound
    <3>2. word # "enable" => GpuDone /\ word = "create with monitoring"
      BY <1>0, <2>3, <2>7 DEF Sound, Placed
    <3> QED BY <3>1, <3>2
  <2>8. UNCHANGED clusterVars => (GpuDone => GpuDone') /\ (MonDone => MonDone')
    BY DEF clusterVars, GpuDone, MonDone, Up
  <2> HIDE DEF word
  <2> QED BY <1>0, <1>1, <2>1, <2>2, <2>3, <2>5, <2>6, <2>7, <2>8, LoudEnd
<1>4. CASE DeleteNamespace(s)
  <2>1. Ends(s) /\ Says("disable") /\ release' = release
    BY <1>0, <1>4, DeleteNamespaceIs DEF DeleteNamespace
  <2>2. command[s].stack = "mon"
    BY <1>0, <1>4 DEF DeleteNamespace, Placed
  <2>3. MonGoing'
    <3>1. ns["mon"] \in Namespace
          /\ Namespace = [phase : {"none", "active", "terminating"}, labels : BOOLEAN]
      BY <1>0 DEF Namespace
    <3>2. ns' = IF ns["mon"].phase = "active"
                THEN [ns EXCEPT !["mon"] = [ns["mon"] EXCEPT !.phase = "terminating"]] ELSE ns
      BY <1>4, <2>2, Zenon DEF DeleteNamespace
    <3>3. CASE ns["mon"].phase = "active"
      BY <1>0, <3>1, <3>2, <3>3 DEF MonGoing
    <3>4. CASE ns["mon"].phase = "terminating"
      BY <3>2, <3>4 DEF MonGoing
    <3>5. CASE ns["mon"].phase = "none"
      BY <1>0, <2>1, <3>5 DEF InLabelled, MonGoing
    <3> QED BY <3>1, <3>3, <3>4, <3>5
  <2> QED BY <1>0, <1>1, <2>1, <2>3, LoudEnd DEF Words
<1>5. CASE KindDelete(s)
  <2>1. Says("delete") /\ exists' = FALSE /\ command'[s] = NoCommand
    BY <1>0, <1>5, KindDeleteIs DEF KindDelete
  <2>2. CASE told = "nothing"
    <3>1. \A t \in Shells \ {s} : Idle(t)
      BY <1>1, <2>2 DEF SuccessInv, Alone
    <3>2. Ends(s)
      <4>1. Commands' /\ Same(command'[s], NoCommand)
        BY <1>0, <1>5, KindDeleteIs DEF Same
      <4>2. \A t \in Shells \ {s} : Same(command'[t], command[t])
        BY <1>0, <1>5, <3>1, KindDeleteIs, Zenon DEF Idle
      <4> QED BY <4>1, <4>2 DEF Ends, Others
    <3> QED BY <1>0, <1>1, <2>1, <3>2, LoudEnd DEF Words
  <2>3. CASE told # "nothing"
    <3>1. told' = "disturbed"
      BY <1>1, <2>1, <2>3 DEF Says, SuccessInv, Alone, AllIdle
    <3>2. MonitoringAsked'
      <4>1. \A t \in Shells \ {s} : /\ command'[t].op = command[t].op
                                   /\ command'[t].stack = command[t].stack
                                   /\ command'[t].monitoring = command[t].monitoring
        BY <1>0, <1>5, KindDeleteIs, Zenon DEF Same
      <4>2. command'[s].op = "none"
        BY <2>1 DEF NoCommand
      <4> QED BY <4>1, <4>2 DEF SuccessInv, MonitoringAsked
    <3> QED BY <3>1, <3>2 DEF Alone, ToldIsTrue
  <2> QED BY <2>2, <2>3
<1>6. Succeed(s) => WaitEnds(s) \/ Error(s) \/ DeleteNamespace(s) \/ KindDelete(s)
  <2>1. Succeed(s) => Idle(s)'
    BY <1>0, ReturnIs DEF Succeed, Return, Ends, Same, NoCommand, Idle
  <2>2. ASSUME NEW p, NEW k, Shifts(s, p, k), p # "idle" PROVE ~Idle(s)'
    BY <2>2 DEF Shifts, Idle
  <2>3. KindCreate(s) \/ NewClient(s) \/ InstallBegins(s) => ~Idle(s)'
    BY <1>0, <2>2, StepIs DEF Moves
  <2>4. GetNamespace(s) => ~Idle(s)'
    <3>1. Checking(s) # "idle"
      BY DEF Checking, Checked
    <3> QED BY <1>0, <2>2, <3>1, StepIs DEF Moves
  <2>5. CreateNamespace(s) => ~Idle(s)'
    BY <1>0, <2>2, StepIs DEF Moves
  <2>6. GetAgain(s) => Error(s) \/ ~Idle(s)'
    <3>1. Checked(Stack(s)) # "idle" /\ Checked(Stack(s)) \in PCs
      BY DEF Checked, PCs
    <3>2. GetAgain(s) => Error(s) \/ Moves(s, Checked(Stack(s)))
      BY <1>0, <3>1, ReadIs, Zenon DEF GetAgain
    <3> QED BY <2>2, <3>1, <3>2 DEF Moves
  <2>7. LabelNamespace(s) => Error(s) \/ ~Idle(s)'
    BY <1>0, <2>2, EnsuredIs DEF LabelNamespace, Moves
  <2>8. InstallEnds(s) => Error(s) \/ ~Idle(s)'
    <3>1. InstallEnds(s) => Error(s) \/ Moves(s, "wait")
      BY <1>0, GotoIs DEF InstallEnds, PCs
    <3> QED BY <2>2, <3>1 DEF Moves
  <2>9. Uninstall(s) \/ UninstallFails(s) => ~Idle(s)'
    <3>1. AfterUninstall(s) /\ command[s].op = "disable" => ~Idle(s)'
      BY <1>0, <2>2, StepIs DEF Moves
    <3> DEFINE p == IF Stack(s) = "gpu" THEN "client" ELSE "kind delete"
    <3>2. AfterUninstall(s) /\ command[s].op # "disable" => Shifts(s, p, "mon") /\ p # "idle"
      BY <1>0, StepIs
    <3> HIDE DEF p
    <3> QED BY <2>2, <3>1, <3>2 DEF Uninstall, UninstallFails
  <2>10. NotThere(s) \/ InstallRefused(s) \/ InstallFails(s) \/ WaitTimesOut(s) \/ CallFails(s)
            => Error(s)
    BY DEF NotThere, InstallRefused, InstallFails, WaitTimesOut, CallFails
  <2> QED BY <2>1, <2>3, <2>4, <2>5, <2>6, <2>7, <2>8, <2>9, <2>10 DEF Step
<1> QED BY <1>2, <1>3, <1>4, <1>5, <1>6, StepGoesOn

LEMMA SuccessNext ==
    ASSUME Workers > 0
    PROVE  SuccessInv /\ [Next]_vars => SuccessInv'
<1> SUFFICES ASSUME SuccessInv, [Next]_vars PROVE SuccessInv'
  OBVIOUS
<1>0. TypeInv /\ LabelInv /\ Commands /\ LabelInv' /\ TypeInv' /\ AllPlaced' /\ Commands'
  BY LabelNext DEF SuccessInv, LabelInv, TypeInv, TypeOK, Commands
<1>1. AllNodes'
  <2>1. UNCHANGED <<exists, nodes>> => AllNodes'
    BY DEF SuccessInv, AllNodes
  <2>2. CASE KubernetesNext
    BY <1>0, <2>1, <2>2, KubernetesKeeps
  <2>3. ASSUME NEW s \in Shells, Step(s) PROVE AllNodes'
    <3>1. CASE KindCreate(s) \/ KindDelete(s)
      BY <3>1 DEF KindCreate, KindDelete, AllNodes, WorkerCount
    <3>2. CASE ~KindCreate(s) /\ ~KindDelete(s)
      BY <2>1, <2>3, <3>2
         DEF Step, NotThere, GetNamespace, CreateNamespace, GetAgain, LabelNamespace,
             NewClient, InstallRefused, InstallBegins, InstallEnds, InstallFails, WaitEnds,
             WaitTimesOut, Uninstall, UninstallFails, DeleteNamespace, CallFails, clusterVars
    <3> QED BY <3>1, <3>2
  <2>4. CASE \/ \E s \in Shells, op \in {"create", "enable", "disable", "delete"} : Begin(s, op)
             \/ \E s \in Shells : Kill(s)
             \/ UNCHANGED vars
    BY <2>1, <2>4 DEF Begin, Kill, vars, clusterVars
  <2> QED BY <2>2, <2>3, <2>4 DEF Next
<1>2. ASSUME Rests, UNCHANGED <<told, exists>>, \A k \in Stacks : Up(k) => Up(k)',
             GpuDone => GpuDone', MonDone => MonDone', MonGoing => MonGoing'
      PROVE  MonitoringAsked' /\ Alone' /\ ToldIsTrue'
  <2>1. \A t \in Shells : (Idle(t)' <=> Idle(t)) /\ command[t].stack \in Stacks
    BY <1>0, <1>2, CommandIs DEF Rests, Same, Idle, Commands
  <2>2. \A t \in Shells : Sound(command[t]) => Sound(command[t])'
    BY <1>2, <2>1 DEF Rests, Same, Sound
  <2>3. MonitoringAsked'
    BY <1>2 DEF SuccessInv, MonitoringAsked, Rests, Same
  <2>4. Alone'
    BY <1>2, <2>1, <2>2 DEF SuccessInv, Alone, AllIdle
  <2>5. ToldIsTrue'
    BY <1>2 DEF SuccessInv, ToldIsTrue
  <2> QED BY <2>3, <2>4, <2>5
<1>3. CASE KubernetesNext
  BY <1>0, <1>1, <1>2, <1>3, KubernetesKeeps DEF SuccessInv
<1>4. ASSUME NEW s \in Shells, NEW op \in {"create", "enable", "disable", "delete"},
             Begin(s, op)
      PROVE  MonitoringAsked' /\ Alone' /\ ToldIsTrue'
  <2>1. op \in Ops \ {"none"}
    BY DEF Ops
  <2>2. /\ Others(s) /\ command'[s].op = op /\ command'[s].pc # "wait"
        /\ op = "create" => command'[s].pc = "kind" /\ command'[s].stack = "gpu"
    BY <1>0, <1>4, <2>1, BeginIs
  <2>3. MonitoringAsked'
    BY <2>2 DEF SuccessInv, MonitoringAsked, Others, Same
  <2>4. Sound(command[s])'
    BY <2>2 DEF Sound
  <2>5. told' = IF AllIdle THEN "nothing" ELSE "disturbed"
    BY <1>4 DEF Begin, AllIdle, Idle
  <2>6. AllIdle => \A t \in Shells \ {s} : Idle(t)' /\ Sound(command[t])'
    BY <1>0, <2>2 DEF AllIdle, Idle, Others, Same, AllPlaced, Placed, Sound, Ensuring
  <2>7. Alone'
    BY <2>4, <2>5, <2>6 DEF Alone
  <2> QED BY <2>3, <2>5, <2>7 DEF ToldIsTrue
<1>5. ASSUME NEW s \in Shells, Step(s) PROVE MonitoringAsked' /\ Alone' /\ ToldIsTrue'
  BY <1>0, <1>5, StepKeepsSuccess
<1>6. ASSUME NEW s \in Shells, Kill(s) PROVE MonitoringAsked' /\ Alone' /\ ToldIsTrue'
  <2>1. Ends(s) /\ told' = told /\ ~Idle(s)
    BY <1>0, <1>6, ReturnIs DEF Kill, At, Idle
  <2> QED BY <1>0, <2>1, QuietEnd
<1>7. CASE UNCHANGED vars
  <2>1. Rests
    BY <1>0, <1>7 DEF vars, Rests, Same
  <2>2. UNCHANGED <<told, exists, nodes, capacity, ns, release, grafana>>
    BY <1>7 DEF vars, clusterVars, shellVars
  <2>3. /\ \A k \in Stacks : Up(k) => Up(k)'
        /\ GpuDone => GpuDone'
        /\ MonDone => MonDone'
        /\ MonGoing => MonGoing'
    BY <2>2 DEF Up, GpuDone, MonDone, MonGoing
  <2>4. UNCHANGED <<told, exists>>
    BY <2>2
  <2> QED BY <1>0, <1>1, <1>2, <2>1, <2>3, <2>4, Zenon DEF SuccessInv
<1> QED BY <1>0, <1>1, <1>3, <1>4, <1>5, <1>6, <1>7 DEF Next, SuccessInv

\* What create, monitoring enable, monitoring disable and delete say when they
\* succeed is true if they have run alone, whatever earlier commands have left
\* and whichever calls fail on the way (runGPUCreate, runMonitoringEnable,
\* runMonitoringDisable, runGPUDelete).  With --workers 0 it is not: two workers
\* are made and the wait asks for none.
THEOREM SuccessIsTrueAlways ==
    ASSUME Workers > 0
    PROVE  Spec => []SuccessIsTrue
<1>1. SuccessInv => SuccessIsTrue
  BY DEF SuccessInv, ToldIsTrue, GpuDone, MonDone, MonGoing, Up, SuccessIsTrue
<1> QED BY <1>1, SuccessInit, SuccessNext, PTL DEF Spec
=============================================================================
