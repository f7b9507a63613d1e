----------------------------- MODULE MCPromotion -----------------------------
(* Small instances of Promotion: two sessions, and settings that differ in *)
(* every way the poll looks at.                                            *)
EXTENDS Promotion

CONSTANTS api, web, peerApi, peerWeb

PeerNames == [s \in Sessions |-> IF s = api THEN peerApi ELSE peerWeb]

Settings(m, c, q) == [mode |-> m, cap |-> c, subscribed |-> q]
SomePolicies == {Settings("auto", 1, <<>>), Settings("manual", 0, <<api>>),
                 Settings("manual", 2, <<api, web>>), Settings("off", 2, <<api>>)}
==============================================================================
