---------------------------- MODULE MCSupervisor ----------------------------
(* Small instances of Supervisor: the ghosts of one peer receive frames.   *)
EXTENDS Supervisor

CONSTANT p1

OneFrame == [p \in Peers |-> IF p = p1 THEN 1 ELSE 0]
ThreeFrames == [p \in Peers |-> IF p = p1 THEN 3 ELSE 0]
=============================================================================
