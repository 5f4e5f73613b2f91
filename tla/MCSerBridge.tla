----------------------------- MODULE MCSerBridge -----------------------------
(* Small instance of SerBridge for TLC. *)
EXTENDS SerBridge

CONSTANTS c1, c2, c3
MCConns == {c1, c2, c3}

\* The telnet negotiation, in one packet and as two, of which the first also
\* ends or continues an escape sequence.
MCPackets == { <<IAC, WILL, ComPortOpt, IAC>>, <<IAC>>, <<WILL, ComPortOpt>> }

=============================================================================
