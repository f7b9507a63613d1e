------------------------------ MODULE MCRelay ------------------------------
(* Small instances of Relay: ann is the owner, bob has two connections in  *)
(* turn, and cat, when there is one, joins later.                          *)
EXTENDS Relay, TLC

CONSTANTS ann, bob, a1, b1, b2

TwoMembers == {ann, bob}
OneAndTwo == a1 :> ann @@ b1 :> bob @@ b2 :> bob
OneEach == a1 :> ann @@ b1 :> bob
ToBob == [e \in Envelopes |-> bob]
Alike == Permutations(Envelopes)
=============================================================================
