------------------------- MODULE MCBridgeConnection -------------------------
(* Model checking of BridgeConnection: the constants are plain numbers.    *)
EXTENDS BridgeConnection
=============================================================================
