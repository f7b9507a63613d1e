--------------------------- MODULE MCRelayClient ---------------------------
(* Small instances of RelayClient: one other person with one session.      *)
EXTENDS RelayClient

CONSTANTS pia, desk, none, some

OneOwner == [s \in Sessions |-> pia]
=============================================================================
