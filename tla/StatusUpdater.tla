---------------------------- MODULE StatusUpdater ----------------------------
(***************************************************************************)
(* internal/statusupdater/run.go and topology.Save: the one status-updater *)
(* pod (its Deployment has one replica and strategy Recreate) rebuilds the *)
(* topology from a List of all pods and saves it with a Get followed by a  *)
(* Create or an Update.                                                    *)
(***************************************************************************)
EXTENDS TopologyCM

VARIABLE updater    \* the reconcile in progress

UpdaterTypeOK ==
    updater \in [pc: {"idle", "listed", "create", "update"},
                 top: SUBSET Assignment]

UpdaterIdle == [pc |-> "idle", top |-> {}]

UpdaterInit == updater = UpdaterIdle

\* Mutant: an annotation that is missing is split as well, into one empty ID.
TopologyOf_EmptyId(list) ==
    {a \in [node: Nodes, gpu: Gpus \cup {""}, pod: Names] :
        /\ list[a.pod].node = a.node
        /\ a.gpu \in IF list[a.pod].ann = {} THEN {""} ELSE list[a.pod].ann}

\* Mutant: pods without the annotation are not passed over.
TopologyOf_Unannotated(list) ==
    {a \in Assignment :
        list[a.pod].node = a.node /\ (list[a.pod].ann = {} \/ a.gpu \in list[a.pod].ann)}

\* The topology the pod list describes: a pod counts when it is scheduled and
\* has the annotation, whatever its phase.
TopologyOf(list) ==
    {a \in Assignment : list[a.pod].node = a.node /\ a.gpu \in list[a.pod].ann}

UpdaterList ==
    /\ updater.pc = "idle"
    /\ updater' = [pc |-> "listed", top |-> TopologyOf(pods)]
    /\ UNCHANGED <<clusterVars, cm>>

\* Mutant: an existing ConfigMap is taken for a current one.
UpdaterGet_NeverUpdates ==
    /\ updater.pc = "listed"
    /\ updater' = IF ~cm.exists THEN [updater EXCEPT !.pc = "create"]
                  ELSE UpdaterIdle
    /\ UNCHANGED <<clusterVars, cm>>

\* Mutant: an empty topology is not worth writing.
UpdaterGet_SkipsEmpty ==
    /\ updater.pc = "listed"
    /\ updater' = IF updater.top = {} \/ (cm.exists /\ cm.body = updater.top)
                  THEN UpdaterIdle
                  ELSE IF ~cm.exists THEN [updater EXCEPT !.pc = "create"]
                  ELSE [updater EXCEPT !.pc = "update"]
    /\ UNCHANGED <<clusterVars, cm>>

\* Save begins with a Get; an unchanged body ends it.
UpdaterGet ==
    /\ updater.pc = "listed"
    /\ updater' = IF ~cm.exists THEN [updater EXCEPT !.pc = "create"]
                  ELSE IF cm.body = updater.top THEN UpdaterIdle
                  ELSE [updater EXCEPT !.pc = "update"]
    /\ UNCHANGED <<clusterVars, cm>>

\* Create, and Update with the resourceVersion of the Get, both write the whole
\* body; Update finds no object if the ConfigMap was deleted since the Get.
UpdaterWrite ==
    /\ updater.pc \in {"create", "update"}
    /\ cm' = IF updater.pc = "update" /\ ~cm.exists THEN cm
             ELSE [exists |-> TRUE, body |-> updater.top]
    /\ updater' = UpdaterIdle
    /\ UNCHANGED clusterVars

\* A call of Save fails, or the process restarts: nothing is written and the
\* next tick starts again from the List.
UpdaterFault ==
    /\ Fault \/ Crash
    /\ updater.pc # "idle"
    /\ updater' = UpdaterIdle
    /\ UNCHANGED cm

UpdaterStep == UpdaterList \/ UpdaterGet \/ UpdaterWrite

UpdaterNext == UpdaterStep \/ UpdaterFault
=============================================================================
