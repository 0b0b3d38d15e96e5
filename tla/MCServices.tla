----------------------------- MODULE MCServices -----------------------------
(***************************************************************************)
(* The components around the rooms for TLC.  They share no state with each *)
(* other: a behaviour runs one of them, `scene`, and the variables of all  *)
(* the others keep their first value.                                      *)
(***************************************************************************)
EXTENDS RoomCreation, EdgeMirrors, Reconciliation, SessionGate, WriteAccess,
        WorkspaceFiles, SessionTokens, EditCounters, VersionHistory,
        LiveDashboard, BenchmarkRuns, SdkRoom

VARIABLE scene

Rests(name, vars) == scene # name /\ UNCHANGED vars

Init ==
  /\ scene \in {"creation", "mirrors", "reconcile", "gate", "access", "files",
                "tokens", "counters", "versions", "dashboard", "benchmark", "sdk"}
  /\ CreationInit /\ MirrorInit /\ ReconcileInit /\ GateInit
  /\ AccessInit /\ FilesInit /\ TokenInit /\ CounterInit /\ VersionInit /\ DashInit
  /\ BenchInit /\ SdkInit
  \* One first value of what an idle component would start from at random.
  /\ scene # "gate" => account = [c \in Socket |-> CHOOSE u \in Account : TRUE]
  /\ scene # "access" => folderOf = [c \in Link |-> CHOOSE f \in Folder : TRUE]
  /\ scene # "files" => file = [d \in Doc |-> "absent"]
  /\ roleOf = [p \in Person |-> IF p = CHOOSE o \in Person : TRUE THEN "owner" ELSE "editor"]

Next ==
  /\ UNCHANGED scene
  /\ (scene = "creation" /\ CreationNext) \/ Rests("creation", creationVars)
  /\ (scene = "mirrors" /\ MirrorNext) \/ Rests("mirrors", mirrorVars)
  /\ (scene = "reconcile" /\ ReconcileNext) \/ Rests("reconcile", reconcileVars)
  /\ (scene = "gate" /\ GateNext) \/ Rests("gate", gateVars)
  /\ (scene = "access" /\ AccessNext) \/ Rests("access", accessVars)
  /\ (scene = "files" /\ FilesNext) \/ Rests("files", fileVars)
  /\ (scene = "tokens" /\ TokenNext) \/ Rests("tokens", tokenVars)
  /\ (scene = "counters" /\ CounterNext) \/ Rests("counters", counterVars)
  /\ (scene = "versions" /\ VersionNext) \/ Rests("versions", versionVars)
  /\ (scene = "dashboard" /\ DashNext) \/ Rests("dashboard", dashVars)
  /\ (scene = "benchmark" /\ BenchNext) \/ Rests("benchmark", benchVars)
  /\ (scene = "sdk" /\ SdkNext) \/ Rests("sdk", sdkVars)

vars == <<scene, creationVars, mirrorVars, reconcileVars, gateVars,
          accessVars, fileVars, tokenVars, counterVars, versionVars, dashVars,
          benchVars, sdkVars>>

Spec == Init /\ [][Next]_vars

\* The variables of every module have their types; the count of a mirror's
\* readers, which two building readers may reset, never goes below zero.
TypeOK ==
  /\ CreationTypeOK /\ MirrorTypeOK /\ ReconcileTypeOK
  /\ GateTypeOK /\ AccessTypeOK /\ FilesTypeOK /\ TokenTypeOK /\ CounterTypeOK
  /\ VersionTypeOK /\ DashTypeOK /\ BenchTypeOK /\ SdkTypeOK
=============================================================================
