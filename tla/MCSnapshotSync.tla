--------------------------- MODULE MCSnapshotSync ---------------------------
(* Finite instances of SnapshotSync for TLC.                               *)
EXTENDS SnapshotSync

CONSTANTS scenes, streaming, mic, projection, a, b

(* GetSceneList, which may not fail, GetStreamStatus, which degrades, then *)
(* the config projection.                                                  *)
OutputPlan == << {scenes}, {streaming}, {projection} >>

(* GetSceneList, GetInputList, GetInputMute, then the projection.          *)
InputPlan == << {scenes}, {mic}, {mic}, {projection} >>

(* A daemon's first connection, which starts from the defaults.            *)
FirstInit ==
  /\ Init
  /\ \A x \in Followed : snap[x] = Blank
  /\ \A x \in Inputs : snap[x] = Absent
FirstFairSpec == FirstInit /\ [][Next]_vars /\ Fairness
=============================================================================
