-------------------------------- MODULE MCGate --------------------------------
(* One node's gate, a peer it was configured with, and two connections.        *)
EXTENDS Gate
=============================================================================
