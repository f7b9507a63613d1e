----------------------------- MODULE NativePeer -----------------------------
(***************************************************************************)
(* What a ghost promises whoever started it: the states Supervisor gives a *)
(* child process, except that there are three ways to be dead here, and    *)
(* the record that goes with each.  A record exists from its publication   *)
(* until the ghost is dead, and outlives only a ghost that was killed or   *)
(* could not remove it.                                                    *)
(***************************************************************************)
VARIABLES
    state,   \* "new", "init", "published", "ready", "stopping", "dead", "left", "killed"
    record   \* whether the session directory holds its record

vars == <<state, record>>

Init == state = "new" /\ record = FALSE

(* The command to publish arrives, or never will.                          *)
Told == state = "new" /\ state' \in {"init", "dead"} /\ UNCHANGED record

Publishes ==
    /\ state = "init"
    /\ state' = "published"
    /\ record' = TRUE

(* It could not bind or publish.                                           *)
Fails == state = "init" /\ state' = "dead" /\ UNCHANGED record

Reports == state = "published" /\ state' = "ready" /\ UNCHANGED record

Stops == state = "ready" /\ state' = "stopping" /\ UNCHANGED record

(* The record goes, and then there is nothing left that could bring it     *)
(* back.  A ghost that cannot report withdraws as well.                    *)
Withdraws ==
    /\ state \in {"published", "stopping"}
    /\ state' = "dead"
    /\ record' = FALSE

(* The same, and the record cannot be removed.                             *)
Leaves ==
    /\ state \in {"published", "stopping"}
    /\ state' = "left"
    /\ UNCHANGED record

Killed ==
    /\ state \notin {"dead", "left", "killed"}
    /\ state' = "killed"
    /\ UNCHANGED record

Next == Told \/ Publishes \/ Fails \/ Reports \/ Stops \/ Withdraws \/ Leaves \/ Killed

Spec == Init /\ [][Next]_vars
=============================================================================
