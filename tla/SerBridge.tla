------------------------------ MODULE SerBridge ------------------------------
(***************************************************************************)
(* serial/serbridge.c: the bridge between the UART and the TCP clients of  *)
(* port 23.  A pool of MAX_CONN slots holds one connection each, with its  *)
(* transmit buffer; telegrams from the UART are added to the buffer of     *)
(* every open connection and sent when the previous send was acknowledged; *)
(* what the clients send is passed to the UART, through telnetUnwrap for a *)
(* telnet client.                                                          *)
(*                                                                         *)
(* All callbacks run to completion in one system task: an action is a      *)
(* callback.  The TCP stack (espconn) is modelled as the code uses it: a   *)
(* connection breaks or is closed at any time, its one closing callback    *)
(* comes later, and espconn_sent may refuse a buffer; one it takes it      *)
(* copies.                                                                 *)
(***************************************************************************)
EXTENDS Integers, FiniteSetsExt, SequencesExt, Telnet

CONSTANTS
    Conns,          \* espconn structures: the connections clients open
    MAX_CONN,       \* slots of the pool (4)
    MAX_TXBUFFER,   \* bytes of a transmit buffer (1472)
    NULL,           \* no connection, no slot, no send under way
    Lens,           \* lengths of the telegrams from the UART
    Packets,        \* what a client may send in one TCP packet
    MaxIn,          \* bound: telegrams from the UART and packets together
    MaxOpens        \* bound: connections accepted

ASSUME BridgeAssumption ==
    /\ MAX_CONN \in Nat /\ MAX_TXBUFFER \in Nat
    /\ Lens \subseteq Nat \ {0}
    /\ NULL \notin Conns /\ NULL \notin Nat
    /\ Packets \subseteq Seq(Chars)
    /\ MaxIn \in Nat /\ MaxOpens \in Nat

VARIABLES
    link,           \* espconn: state of each connection
    reverse,        \* espconn: the slot conn->reverse points at
    flight,         \* espconn: the send under way of each connection
    out,            \* history: bytes each client has been sent
    conn, conn_mode, txbuffer, readytosend, telnet_state,
                    \* connData, one function of the slots per field; txbuffer
                    \* is its first txbufferlen bytes
    uart,           \* history: what went to the UART and pins, per connection
    msgs,           \* history: the telegrams received from the UART, as lengths
    since, drops,   \* history: per connection, the number of telegrams before
                    \* it opened, and those its buffer had no room for
    heard,          \* history: the packets of each connection
    failed,         \* history: connections espconn_sent refused a buffer of
    opens           \* history: the number of connections accepted

pool    == <<conn, conn_mode, txbuffer, readytosend, telnet_state>>
history == <<uart, msgs, since, drops, heard, failed, opens>>
vars    == <<link, reverse, flight, out, pool, history>>

Slots == 1 .. MAX_CONN
Modes == {"cmInit", "cmTransparent", "cmTelnet"}
Links == {"free", "open", "closing", "broken"}

Byte == [msg : Nat, pos : Nat]

\* A buffer espconn_sent has taken is not mistaken for none.
ASSUME FlightAssumption == NULL \notin Seq(Byte)

Telegram(m, len) == [k \in 1 .. len |-> [msg |-> m, pos |-> k]]

Inputs == Len(msgs) + MapThenSumSet(LAMBDA c : Len(heard[c]), Conns)

Init ==
    /\ link = [c \in Conns |-> "free"]
    /\ reverse = [c \in Conns |-> NULL]
    /\ flight = [c \in Conns |-> NULL]
    /\ out = [c \in Conns |-> <<>>]
    /\ conn = [i \in Slots |-> NULL]
    /\ conn_mode = [i \in Slots |-> "cmInit"]
    /\ txbuffer = [i \in Slots |-> <<>>]
    /\ readytosend = [i \in Slots |-> FALSE]
    /\ telnet_state = [i \in Slots |-> "normal"]
    /\ uart = [c \in Conns |-> <<>>]
    /\ msgs = <<>>
    /\ since = [c \in Conns |-> 0]
    /\ drops = [c \in Conns |-> {}]
    /\ heard = [c \in Conns |-> <<>>]
    /\ failed = {}
    /\ opens = 0

(***************************************************************************)
(* Connections come and go.                                                *)
(***************************************************************************)
FreeSlots == {i \in Slots : conn[i] = NULL}

\* Mutant: only the buffer is prepared for the new owner of the slot.
Prepared_BufferOnly(i) ==
    /\ txbuffer' = [txbuffer EXCEPT ![i] = <<>>]
    /\ readytosend' = [readytosend EXCEPT ![i] = TRUE]
    /\ UNCHANGED <<telnet_state, conn_mode>>

\* Mutant: what the previous owner left unsent stays in the buffer.
Prepared_KeepBuffer(i) ==
    /\ readytosend' = [readytosend EXCEPT ![i] = TRUE]
    /\ telnet_state' = [telnet_state EXCEPT ![i] = "normal"]
    /\ conn_mode' = [conn_mode EXCEPT ![i] = "cmInit"]
    /\ UNCHANGED txbuffer

\* A slot as a new connection finds it.
Prepared(i) ==
    /\ txbuffer' = [txbuffer EXCEPT ![i] = <<>>]
    /\ readytosend' = [readytosend EXCEPT ![i] = TRUE]
    /\ telnet_state' = [telnet_state EXCEPT ![i] = "normal"]
    /\ conn_mode' = [conn_mode EXCEPT ![i] = "cmInit"]

serbridgeConnectCb(c) ==
    /\ link[c] = "free" /\ opens < MaxOpens
    /\ \E i \in FreeSlots :
         /\ \A j \in FreeSlots : i <= j
         /\ reverse' = [reverse EXCEPT ![c] = i]
         /\ conn' = [conn EXCEPT ![i] = c]
         /\ Prepared(i)
    /\ link' = [link EXCEPT ![c] = "open"]
    /\ since' = [since EXCEPT ![c] = Len(msgs)]
    /\ opens' = opens + 1
    /\ UNCHANGED <<flight, out, uart, msgs, drops, heard, failed>>

\* The pool is full: the connection is closed and gets no callbacks.
serbridgeConnectCbOverflow(c) ==
    /\ link[c] = "free"
    /\ FreeSlots = {}
    /\ UNCHANGED vars

\* The client, the network or the idle timeout ends an open connection.
PeerEnds(c) ==
    /\ link[c] = "open"
    /\ \E l \in {"closing", "broken"} : link' = [link EXCEPT ![c] = l]
    /\ UNCHANGED <<reverse, flight, out, pool, history>>

\* The stack's structure and the history of c once nothing refers to it.
Forget(c) ==
    /\ link' = [link EXCEPT ![c] = "free"]
    /\ reverse' = [reverse EXCEPT ![c] = NULL]
    /\ flight' = [flight EXCEPT ![c] = NULL]
    /\ out' = [out EXCEPT ![c] = <<>>]
    /\ uart' = [uart EXCEPT ![c] = <<>>]
    /\ since' = [since EXCEPT ![c] = 0]
    /\ drops' = [drops EXCEPT ![c] = {}]
    /\ heard' = [heard EXCEPT ![c] = <<>>]
    /\ failed' = failed \ {c}

\* Both callbacks free the slot, without looking whose it is.
FreeSlotOf(c) ==
    /\ conn' = [conn EXCEPT ![reverse[c]] = NULL]
    /\ UNCHANGED <<conn_mode, txbuffer, readytosend, telnet_state, msgs,
                   opens>>

serbridgeDisconCb(c) ==
    /\ link[c] = "closing"
    /\ FreeSlotOf(c)
    /\ Forget(c)

\* Mutant: the error callback closes the connection but keeps its slot.
serbridgeReconCb_KeepSlot(c) ==
    /\ link[c] = "broken"
    /\ Forget(c)
    /\ UNCHANGED <<pool, msgs, opens>>

serbridgeReconCb(c) ==
    /\ link[c] = "broken"
    /\ FreeSlotOf(c)
    /\ Forget(c)

(***************************************************************************)
(* UART to TCP.                                                            *)
(***************************************************************************)
\* The outcomes espconn_sent can have for the slots in S: the set it refuses,
\* which holds every slot whose connection is not up.
Refusals(S) ==
    {R \in SUBSET S : {i \in S : conn[i] = NULL \/ link[conn[i]] # "open"} \subseteq R}

\* Mutant: a telegram that does not fit is added all the same.
Room_Any(i, len) == Len(txbuffer[i]) < MAX_TXBUFFER

Room(i, len) == Len(txbuffer[i]) + len <= MAX_TXBUFFER

Receivers == {i \in Slots : conn[i] # NULL /\ conn_mode[i] # "cmTcpClient"}

\* Mutant: every buffer is sent at once.
ReadySlots_All(S) == S

ReadySlots(S) == {i \in S : readytosend[i]}

\* serbridgeUartCb, with espbuffsend for each receiver and sendtxbuffer for
\* those whose previous send is complete.
serbridgeUartCb(len) ==
    LET data  == Telegram(Len(msgs) + 1, len)
        added == {i \in Receivers : Room(i, len)}
        sent  == ReadySlots(added)
    IN
    /\ Inputs < MaxIn
    /\ msgs' = Append(msgs, len)
    /\ txbuffer' = [i \in Slots |->
           CASE i \in sent -> <<>>
             [] i \in added \ sent -> txbuffer[i] \o data
             [] OTHER -> txbuffer[i]]
    /\ readytosend' = [i \in Slots |-> readytosend[i] /\ i \notin sent]
    /\ \E refused \in Refusals(sent) :
        /\ failed' = failed \cup {conn[i] : i \in refused}
        /\ flight' = [c \in Conns |->
               IF \E i \in sent \ refused : conn[i] = c
               THEN LET i == CHOOSE j \in sent \ refused : conn[j] = c
                    IN txbuffer[i] \o data
               ELSE flight[c]]
    /\ drops' = [c \in Conns |->
           IF \E i \in Receivers \ added : conn[i] = c
           THEN drops[c] \cup {Len(msgs) + 1} ELSE drops[c]]
    /\ UNCHANGED <<link, reverse, out, conn, conn_mode, telnet_state,
                   uart, since, heard, opens>>

\* Mutant: the sent callback does not look for more data.
MoreToSend_Never(i) == {}

MoreToSend(i) == IF txbuffer[i] # <<>> THEN {i} ELSE {}

\* The send is acknowledged: send what has come in meanwhile.
serbridgeSentCb(c) ==
    LET i    == reverse[c]
        more == MoreToSend(i)
    IN
    /\ link[c] \in {"open", "closing"} /\ flight[c] # NULL
    /\ out' = [out EXCEPT ![c] = @ \o flight[c]]
    /\ readytosend' = [readytosend EXCEPT ![i] = more = {}]
    /\ txbuffer' = [txbuffer EXCEPT ![i] = IF more = {} THEN @ ELSE <<>>]
    /\ \E refused \in Refusals(more) :
        /\ failed' = failed \cup {conn[j] : j \in refused}
        /\ flight' = [d \in Conns |->
               IF more \ refused # {} /\ conn[i] = d THEN txbuffer[i]
               ELSE IF c = d THEN NULL ELSE flight[d]]
    /\ UNCHANGED <<link, reverse, conn, conn_mode, telnet_state, uart, msgs,
                   since, drops, heard, opens>>

(***************************************************************************)
(* TCP to UART.                                                            *)
(***************************************************************************)
StartsTelnet(packet) == IsPrefix(<<IAC, WILL, ComPortOpt>>, packet)

Raw(packet) == [k \in DOMAIN packet |-> Uart(packet[k])]

\* The first packet decides whether the connection is a telnet one.
ModeAfter(mode, packet) ==
    IF mode # "cmInit" THEN mode
    ELSE IF StartsTelnet(packet) THEN "cmTelnet" ELSE "cmTransparent"

serbridgeRecvCb(c, packet) ==
    LET i    == reverse[c]
        mode == ModeAfter(conn_mode[i], packet)
        st   == IF conn_mode[i] = "cmInit" THEN "normal" ELSE telnet_state[i]
        r    == IF mode = "cmTelnet" THEN Unwrap(packet, st)
                ELSE [state |-> telnet_state[i], out |-> Raw(packet)]
    IN
    /\ link[c] = "open"
    /\ Inputs < MaxIn
    /\ conn_mode' = [conn_mode EXCEPT ![i] = mode]
    /\ telnet_state' = [telnet_state EXCEPT ![i] = r.state]
    /\ uart' = [uart EXCEPT ![c] = @ \o r.out]
    /\ heard' = [heard EXCEPT ![c] = Append(@, packet)]
    /\ UNCHANGED <<link, reverse, flight, out, conn, txbuffer,
                   readytosend, msgs, since, drops, failed, opens>>

Stack(c) ==
    \/ serbridgeConnectCb(c) \/ serbridgeConnectCbOverflow(c)
    \/ PeerEnds(c)
    \/ serbridgeDisconCb(c) \/ serbridgeReconCb(c) \/ serbridgeSentCb(c)
    \/ \E packet \in Packets : serbridgeRecvCb(c, packet)

Next ==
    \/ \E c \in Conns : Stack(c)
    \/ \E len \in Lens : serbridgeUartCb(len)

\* The stack reports what it owes; it acknowledges a send on a connection that
\* stays up.
Spec ==
    /\ Init /\ [][Next]_vars
    /\ \A c \in Conns : /\ WF_vars(serbridgeSentCb(c))
                        /\ WF_vars(serbridgeDisconCb(c))
                        /\ WF_vars(serbridgeReconCb(c))

-----------------------------------------------------------------------------
\* The variables have their types.
TypeOK ==
    /\ link \in [Conns -> Links]
    /\ reverse \in [Conns -> Slots \cup {NULL}]
    /\ \A c \in Conns : flight[c] # NULL => flight[c] \in Seq(Byte)
    /\ out \in [Conns -> Seq(Byte)]
    /\ conn \in [Slots -> Conns \cup {NULL}]
    /\ conn_mode \in [Slots -> Modes]
    /\ txbuffer \in [Slots -> Seq(Byte)]
    /\ \A i \in Slots : Len(txbuffer[i]) <= MAX_TXBUFFER
    /\ readytosend \in [Slots -> BOOLEAN]
    /\ telnet_state \in [Slots -> TelnetStates]
    /\ uart \in [Conns -> Seq(Outputs)] /\ heard \in [Conns -> Seq(Packets)]
    /\ msgs \in Seq(Lens) /\ since \in [Conns -> 0 .. Len(msgs)]
    /\ drops \in [Conns -> SUBSET (1 .. Len(msgs))]
    /\ failed \subseteq Conns \cup {NULL}
    /\ opens \in 0 .. MaxOpens

Live(c) == link[c] # "free"

\* Every accepted connection owns one slot of the pool until its closing
\* callback, and a slot is never given to two or left to a dead one: what
\* FindConnData returns is the caller's own slot.
SlotOwnership ==
    /\ \A c \in Conns : Live(c) => reverse[c] \in Slots /\ conn[reverse[c]] = c
    /\ \A i \in Slots : conn[i] # NULL => Live(conn[i]) /\ reverse[conn[i]] = i

\* espconn_sent is only called after the sent callback for the previous packet
\* (serbridge.c:199): a send is not begun over another one, only when that is
\* acknowledged.
OneSendAtATime ==
    [][\A c \in Conns :
          flight[c] # NULL /\ flight'[c] \notin {NULL, flight[c]}
              => out'[c] = out[c] \o flight[c]]_vars

\* All that is sent, being sent or waiting for connection c, in order.
Stream(c) ==
    out[c] \o (IF flight[c] = NULL THEN <<>> ELSE flight[c])
           \o txbuffer[reverse[c]]

Accepted(c) == (since[c] + 1 .. Len(msgs)) \ drops[c]

\* What an open connection is sent is exactly the telegrams that came since it
\* opened, each whole, once and in order, without those its full buffer turned
\* away as a whole; until espconn_sent refuses one of its buffers.
BroadcastExact ==
    \A c \in Conns : link[c] = "open" /\ c \notin failed =>
        Stream(c) = FlattenSeq([m \in 1 .. Len(msgs) |->
                        IF m \in Accepted(c) THEN Telegram(m, msgs[m]) ELSE <<>>])

\* What a client's bytes mean: a telnet client's first ones are the negotiation.
Decoded(bytes) ==
    IF StartsTelnet(bytes) THEN Unwrap(bytes, "normal").out ELSE Raw(bytes)

\* TCP has not cut the negotiation, if the client began with one: "we assume
\* that the first few characters all arrive in the same TCP packet"
\* (serbridge.c:144).
FirstTogether(packets) ==
    StartsTelnet(FlattenSeq(packets)) => packets # <<>> /\ StartsTelnet(packets[1])

\* What a client's packets turn into on the UART depends on that client's bytes
\* alone, not on other clients, on the slot's past or on where TCP cut them,
\* with one exception: a negotiation TCP has cut is not recognised, and all the
\* client's bytes, the negotiation's and its escapes too, go to the UART as
\* they are, for as long as the connection lasts.
ReceivedAlone ==
    \A c \in Conns : LET bytes == FlattenSeq(heard[c]) IN
        /\ FirstTogether(heard[c]) => uart[c] = Decoded(bytes)
        /\ ~FirstTogether(heard[c]) => uart[c] = Raw(bytes)

\* A connection that stays open is sent what its buffer holds, unless
\* espconn_sent once refused it a buffer.
Drained ==
    \A c \in Conns :
        []<>(link[c] = "open" => c \in failed \/ txbuffer[reverse[c]] = <<>>)

\* README.md:223: incoming characters are broadcast "to all connections", so
\* what is buffered for an open connection leaves the buffer some day.
BroadcastReaches ==
    \A c \in Conns : []<>(link[c] = "open" => txbuffer[reverse[c]] = <<>>)
=============================================================================
