----------------------------- MODULE MCReceiver -----------------------------
(* Small instances of Receiver: the workspace proposes the widest level    *)
(* for the sender of m1, and none for that of m2.                          *)
EXTENDS Receiver, TLC

CONSTANTS m1, m2

PeerAndNone == [m \in Messages |-> IF m = m1 THEN "peer" ELSE ""]

(* Settings for everybody, and such that say more of the sender of m1.     *)
Everybody(l) == [workspace |-> l, others |-> [m \in Messages |-> {}]]
AndSender(l, k) == [Everybody(l) EXCEPT !.others[m1] = {k}]

HoldOrPeer == {Everybody("hold"), Everybody("peer")}
FourSettings == {Everybody(""), Everybody("peer"), AndSender("peer", "hold"),
                 AndSender("hold", "unknown")}

Alike == Permutations(Approvers)
=============================================================================
