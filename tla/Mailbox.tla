------------------------------ MODULE Mailbox ------------------------------
(***************************************************************************)
(* What the relay promises about envelopes, without saying how: an         *)
(* envelope it has accepted is held until it is handed to a connection of  *)
(* its recipient or given up, it is handed over at most once, and one that *)
(* was given up is never handed over afterwards.                           *)
(***************************************************************************)
CONSTANT Envelopes

VARIABLES held, handed, lost

mailbox == <<held, handed, lost>>

Init == held = {} /\ handed = {} /\ lost = {}

Accept(e) ==
    /\ e \in Envelopes \ (held \cup handed \cup lost)
    /\ held' = held \cup {e}
    /\ UNCHANGED <<handed, lost>>

Hand(e) ==
    /\ e \in held
    /\ held' = held \ {e}
    /\ handed' = handed \cup {e}
    /\ UNCHANGED lost

(* Several may be given up at once, when a queue is emptied.               *)
GiveUp(S) ==
    /\ S \subseteq held
    /\ held' = held \ S
    /\ lost' = lost \cup S
    /\ UNCHANGED handed

Next ==
    \/ \E e \in Envelopes : Accept(e) \/ Hand(e)
    \/ \E S \in SUBSET held : GiveUp(S)

Spec == Init /\ [][Next]_mailbox
=============================================================================
