--------------------------- MODULE MCBrokerClient ---------------------------
(* An instance of BrokerClient for TLC.                                    *)
EXTENDS BrokerClient

CONSTANTS r1, r2

TwoRequests == {r1, r2}
=============================================================================
