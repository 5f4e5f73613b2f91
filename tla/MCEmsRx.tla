------------------------------- MODULE MCEmsRx -------------------------------
(* Small instance of EmsRx for TLC. *)
EXTENDS EmsRx

CONSTANTS serbridgeUartCb
MCCallbacks == {serbridgeUartCb}
=============================================================================
