------------------------------- MODULE Telnet -------------------------------
(***************************************************************************)
(* telnetUnwrap of serial/serbridge.c: the telnet state machine that turns *)
(* what a port-23 client sends into bytes for the UART and changes of the  *)
(* microcontroller's reset and ISP pins.  Bytes are numbers; an output is  *)
(* a pair of a device and a value.                                         *)
(***************************************************************************)
EXTENDS Integers, Sequences

IAC == 255          WILL == 251         SB == 250           SE == 240
ComPortOpt == 44    SetControl == 5
DTR_ON == 8         DTR_OFF == 9        RTS_ON == 11        RTS_OFF == 12

Chars == 0 .. 255

TelnetStates == {"normal", "iac", "will", "start", "end", "comPort", "setControl"}

\* The pin and the level a control command sets.  Both pin numbers are static
\* and never assigned in this firmware, so they are 0 and pass the >= 0 tests.
Pins ==
    [c \in {DTR_ON, DTR_OFF, RTS_ON, RTS_OFF} |->
        CASE c = DTR_ON  -> <<"reset", 0>> [] c = DTR_OFF -> <<"reset", 1>>
          [] c = RTS_ON  -> <<"isp", 0>>   [] c = RTS_OFF -> <<"isp", 1>>]

Uart(c) == <<"uart", c>>

Outputs == {"uart", "reset", "isp"} \X Chars

\* The state after character c in state st.  A character that is no command
\* after IAC leaves the state as it is.
NextState(st, c) ==
    CASE st = "normal"     -> IF c = IAC THEN "iac" ELSE "normal"
      [] st = "iac"        -> CASE c \in {IAC, SE} -> "normal"
                                [] c = WILL -> "will"
                                [] c = SB -> "start"
                                [] OTHER -> "iac"
      [] st = "will"       -> "normal"
      [] st = "start"      -> IF c = ComPortOpt THEN "comPort" ELSE "end"
      [] st = "end"        -> IF c = IAC THEN "iac" ELSE "end"
      [] st = "comPort"    -> IF c = SetControl THEN "setControl" ELSE "end"
      [] st = "setControl" -> "end"

\* What character c in state st puts out.
Output(st, c) ==
    CASE st = "normal" /\ c # IAC                  -> <<Uart(c)>>
      [] st = "iac" /\ c = IAC                     -> <<Uart(IAC)>>
      [] st = "iac" /\ c \notin {IAC, WILL, SB, SE} -> <<Uart(IAC), Uart(c)>>
      [] st = "setControl" /\ c \in DOMAIN Pins    -> <<Pins[c]>>
      [] OTHER                                     -> <<>>

\* telnetUnwrap: the state after the whole buffer and all it puts out.
Unwrap(inBuf, st) ==
    LET after[k \in 0 .. Len(inBuf)] ==
            IF k = 0 THEN [state |-> st, out |-> <<>>]
            ELSE LET r == after[k - 1] IN
                 [state |-> NextState(r.state, inBuf[k]),
                  out   |-> r.out \o Output(r.state, inBuf[k])]
    IN  after[Len(inBuf)]
=============================================================================
