--------------------------- MODULE MCIpcTransport ----------------------------
(* Instances of IpcTransport for TLC.                                        *)
EXTENDS IpcTransport

CONSTANTS k1, k2, k3
=============================================================================
