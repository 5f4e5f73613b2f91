------------------------------ MODULE EMSSyslog ------------------------------
(***************************************************************************)
(* The decoder java/EMSSyslog: it reads the telegrams a link broadcasts on *)
(* TCP port 23 and passes them on to a syslog server.                      *)
(*                                                                         *)
(* Every read of the stream is a step: read(buf, off, n) returns from one  *)
(* to n bytes, as many as TCP has brought by then, and may also fail, with *)
(* the connection or after 30 seconds.  What getTelegramm does between two *)
(* reads is part of the step.  The histories are those of a connection.    *)
(***************************************************************************)
EXTENDS Integers, FiniteSetsExt, SequencesExt

CONSTANT
    Streams     \* what the link may send in a connection: sequences of frames,
                \* [stamps: 8 bytes, bus: the bytes from the bus]

EMSPKG_HEADERV1_SIZE == 10
EMSPKG_HEADER_SIZE == 14
EMSPKG_EOD_SIZE == 4
EMSPKG_MIN_SIZE == 3
V2_SIZE == EMSPKG_HEADER_SIZE - EMSPKG_HEADERV1_SIZE
buderusEmsPoly == 12
EMS_MAXBUFFERSIZE == 128
Byte == 0 .. 255
E5 == 229
X1A == 26

Frames == UNION {Range(s) : s \in Streams}

\* A frame's bytes, its BREAK and its trailer fit a buffer of the link, which has
\* no check for it (uart_buffer; IrqFits of EmsRx).
ASSUME SyslogAssumption ==
    /\ Streams \subseteq Seq(Frames)
    /\ \A f \in Frames :
         /\ f.stamps \in [1 .. 8 -> Byte] /\ f.bus \in Seq(Byte)
         /\ Len(f.bus) + 3 <= EMS_MAXBUFFERSIZE

VARIABLES
    sent,       \* history: the frames of the connection, as the link sends them
    pos,        \* bytes of them that were read
    pc,         \* "closed", "header", "v2", "payload", "wait" or "dead"
    header,     \* EMSPktHandler.header, its 14 bytes
    c,          \* waitForEndOfFrame: the last byte
    syslog,     \* history: what was passed on, and where in the stream it ended
    refused,    \* history: frames read completely, and refused
    short       \* history: frames in which a read returned less than asked for

buffers == <<header, c>>
history == <<syslog, refused, short>>
vars == <<sent, pos, pc, buffers, history>>

(***************************************************************************)
(* The stream.                                                             *)
(***************************************************************************)
LE16(n) == <<n % 256, n \div 256>>

\* A frame on the wire: time stamps, length, the bytes from the bus, the
\* BREAK that ended them and the trailer.
Wire(f) == f.stamps \o LE16(Len(f.bus) + 3) \o f.bus \o <<0, E5, X1A>>

Wires == [f \in Frames |-> Wire(f)]
Stream == FlattenSeq([k \in DOMAIN sent |-> Wires[sent[k]]])
End(k) == Len(FlattenSeq([j \in 1 .. k |-> Wires[sent[j]]]))
Unread == Len(Stream) - pos

\* The frame the next byte belongs to.
Current == CHOOSE k \in DOMAIN sent : End(k - 1) <= pos /\ pos < End(k)

Zeros(n) == [i \in 1 .. n |-> 0]

NewHeader == Zeros(EMSPKG_HEADER_SIZE)

Init ==
    /\ sent = <<>> /\ pos = 0
    /\ pc = "closed"
    /\ header = NewHeader /\ c = 0
    /\ syslog = <<>> /\ refused = {} /\ short = {}

\* main's next round after the sleep.  The bridge starts with a whole telegram;
\* what it will send is settled here, and how far it has come by each read.
open ==
    /\ pc = "closed" /\ pc' = "header"
    /\ sent' \in Streams
    /\ UNCHANGED <<pos, buffers, history>>

(***************************************************************************)
(* EMSPktHandler.                                                          *)
(***************************************************************************)
Reading == pc \in {"header", "v2", "payload", "wait"}

\* What a read of n bytes may return.
Got(n) == LET s == Stream
          IN  {SubSeq(s, pos + 1, pos + k) : k \in {i \in 1 .. n : pos + i <= Len(s)}}

\* It returned bs.
Read(n, bs) ==
    /\ pos' = pos + Len(bs)
    /\ short' = IF Len(bs) < n THEN short \cup {Current} ELSE short

headerV2(h) == h[1] = 85 /\ h[2] = 170      \* 55 AA

\* The length of the payload, little endian, behind the two time stamps.
pkgLength(h) == LET i == IF headerV2(h) THEN 13 ELSE 9 IN h[i] + 256 * h[i + 1]

\* Mutant: the lower limit is missing.
validatePkgHeader_NoMin(h) == pkgLength(h) <= 128

\* A length is a Java short: what is over 32767 is negative, and invalid too.
validatePkgHeader(h) == pkgLength(h) <= 128 /\ pkgLength(h) >= 2

\* waitForEndOfFrame starts.
StartWait == pc' = "wait" /\ c' = 0

\* The header h is complete: a payload follows, or the frame is skipped.
HeaderRead(h) ==
    /\ header' = h
    /\ IF validatePkgHeader(h) THEN pc' = "payload" /\ c' = c ELSE StartWait

fillPkgHeader ==
    /\ pc = "header"
    /\ \E bs \in Got(EMSPKG_HEADERV1_SIZE) :
         LET h == bs \o Zeros(EMSPKG_HEADER_SIZE - Len(bs)) IN
         /\ Read(EMSPKG_HEADERV1_SIZE, bs)
         /\ IF headerV2(h) THEN pc' = "v2" /\ header' = h /\ c' = c
            ELSE HeaderRead(h)
    /\ UNCHANGED <<sent, syslog, refused>>

fillPkgHeaderV2 ==
    /\ pc = "v2"
    /\ \E bs \in Got(V2_SIZE) :
         /\ Read(V2_SIZE, bs)
         /\ HeaderRead(SubSeq(header, 1, EMSPKG_HEADERV1_SIZE) \o bs
                          \o Zeros(V2_SIZE - Len(bs)))
    /\ UNCHANGED <<sent, syslog, refused>>

\* Exclusive or, bit by bit.
BitXor(a, b) == MapThenSumSet(LAMBDA i : ((a \div 2^i + b \div 2^i) % 2) * 2^i, 0 .. 7)

\* One turn of the CRC without the next byte.
CrcShift(crc) ==
    IF crc >= 128 THEN ((BitXor(crc, buderusEmsPoly) * 2) % 256) + 1 ELSE crc * 2

buderusEmsCrc(bs) == FoldLeft(LAMBDA crc, b : BitXor(CrcShift(crc), b), 0, bs)

\* The payload is a telegram: complete, with its trailer and its CRC; what is
\* too short has no CRC, and a lone BREAK no room for one.
Accepted(bs, n) ==
    LET len == Len(bs) - EMSPKG_EOD_SIZE IN
    /\ Len(bs) = n
    /\ SubSeq(bs, Len(bs) - 1, Len(bs)) = <<E5, X1A>>
    /\ len >= EMSPKG_MIN_SIZE => buderusEmsCrc(SubSeq(bs, 1, len)) = bs[len + 1]
    /\ len >= 0

\* Mutant: the CRC is taken for data.
Telegram_WithCrc(bs) == SubSeq(bs, 1, Len(bs) - EMSPKG_EOD_SIZE + 1)

Telegram(bs) == SubSeq(bs, 1, Len(bs) - EMSPKG_EOD_SIZE)

(***************************************************************************)
(* main: what becomes of a telegram.                                       *)
(***************************************************************************)
TypeNames ==
    << <<7, "UBAUnknown 1">>, <<16, "UBAErrorMessages1">>, <<17, "UBAErrorMessages2">>,
       <<18, "RCErrorMessages">>, <<19, "RCDeletedErrorMessages">>,
       <<20, "UBABetriebszeit">>, <<21, "UBAWartungsdaten">>,
       <<22, "UBABetriebszeitMC10Parameter">>, <<24, "UBAMonitorFast">>,
       <<26, "UBASollwerte">>, <<28, "UBAWartungsmeldungen">>,
       <<62, "HK1MonitorMessage">>, <<163, "RCOutdoorTempMessage">> >>

\* Source, destination and type of UBAMonitorSlow, which is taken apart up to
\* its byte 25.
MonitorSlow(b) == Len(b) >= 6 /\ SubSeq(b, 1, 3) = <<8, 0, 25>>
Unreadable(b) == MonitorSlow(b) /\ Len(b) < 26

Name(b) ==
    LET known == SelectSeq(TypeNames, LAMBDA t : t[1] = b[3])
    IN  IF MonitorSlow(b) THEN "UBAMonitorSlow"
        ELSE IF SubSeq(b, 1, 3) = <<16, 0, 6>> THEN "RCTimeMessage"
        ELSE IF known # <<>> THEN known[1][2] ELSE "info"

\* A telegram of less than 6 bytes is skipped.  Bytes that are missing in
\* UBAMonitorSlow are an IndexOutOfBoundsException, which nobody catches.
main(b) ==
    /\ pc' = IF Unreadable(b) THEN "dead" ELSE "header"
    /\ syslog' = IF Len(b) < 6 \/ Unreadable(b) THEN syslog
                 ELSE Append(syslog, [name |-> Name(b), telegram |-> b, end |-> pos'])

fillPkgPayload ==
    /\ pc = "payload"
    /\ \E bs \in Got(pkgLength(header)) :
         /\ Read(pkgLength(header), bs)
         /\ \/ /\ Accepted(bs, pkgLength(header))
               /\ main(Telegram(bs))
               /\ UNCHANGED <<c, refused>>
            \/ /\ ~Accepted(bs, pkgLength(header))
               /\ StartWait
               /\ refused' = IF Len(bs) = pkgLength(header)
                             THEN refused \cup {CHOOSE k \in DOMAIN sent :
                                                  End(k - 1) < pos' /\ pos' <= End(k)}
                             ELSE refused
               /\ UNCHANGED syslog
    /\ UNCHANGED <<sent, header>>

\* Mutant: only the complete trailer ends a frame.
Continues_Both(lastC, ch) == lastC # E5 \/ ch # X1A

Continues(lastC, ch) == lastC # E5 /\ ch # X1A

waitForEndOfFrame ==
    /\ pc = "wait" /\ Unread > 0
    /\ pos' = pos + 1
    /\ c' = Stream[pos + 1]
    /\ pc' = IF Continues(c, c') THEN "wait" ELSE "header"
    /\ UNCHANGED <<sent, header, history>>

\* Mutant: the socket has no time limit.
Silent_NoTimeout == FALSE

\* No more bytes come: the read ends with a SocketTimeoutException.
Silent == Unread = 0

\* The connection ends, or what is still to come is late: it is closed, and
\* another one begins from nothing.
Interrupted ==
    /\ Reading
    /\ pc' = "closed"
    /\ sent' = <<>> /\ pos' = 0
    /\ header' = NewHeader /\ c' = 0
    /\ syslog' = <<>> /\ refused' = {} /\ short' = {}

Timeout == Silent /\ Interrupted

getTelegramm == fillPkgHeader \/ fillPkgHeaderV2 \/ fillPkgPayload \/ waitForEndOfFrame

Next == open \/ getTelegramm \/ Interrupted

\* The decoder goes on while there is something to read, and a read without
\* an answer ends.
Spec == Init /\ [][Next]_vars /\ WF_vars(getTelegramm) /\ WF_vars(Timeout)

-----------------------------------------------------------------------------
\* The variables have their types, and the decoder reads a payload only of a
\* length the trailer and the buffer admit, whatever it took for a header.
TypeOK ==
    /\ sent \in Streams \cup {<<>>}
    /\ pos \in 0 .. Len(Stream)
    /\ pc \in {"closed", "header", "v2", "payload", "wait", "dead"}
    /\ header \in [1 .. EMSPKG_HEADER_SIZE -> Byte] /\ c \in Byte
    /\ refused \subseteq DOMAIN sent /\ short \subseteq DOMAIN sent
    /\ pc = "payload" => pkgLength(header) \in 2 .. 128

\* What a frame carries, its CRC left out.
Carried(f) == SubSeq(f.bus, 1, Len(f.bus) - 1)

\* Whatever reads return and wherever the decoder gets lost, what it passes on
\* are telegrams of the bus, unchanged, in their order and each only once.  (No
\* decoder could tell a frame that holds another one from two: what is asked of
\* the frames for this is in EMSSyslog_proofs.)
OnlySent ==
    /\ \A i \in DOMAIN syslog : \E k \in DOMAIN sent :
           syslog[i].end = End(k) /\ syslog[i].telegram = Carried(sent[k])
    /\ \A i, j \in DOMAIN syslog : i < j => syslog[i].end < syslog[j].end

\* No byte of the frame looks like the trailer, and its start not like V2.
Plain(f) ==
    LET w == Wires[f] IN
    /\ \A i \in 1 .. Len(w) - 2 : w[i] \notin {E5, X1A}
    /\ ~headerV2(w)

\* The frame is one to be passed on.
Proper(f) == /\ Len(f.bus) > 6 /\ ~Unreadable(Carried(f))
             /\ buderusEmsCrc(Carried(f)) = Last(f.bus)

PlainFrames == {f \in Frames : Plain(f)}
ProperFrames == {f \in Frames : Proper(f)}

\* As long as nothing in the frames looks like a trailer, the loss is bounded:
\* a telegram is lost only with its own bytes coming late, or because of the
\* one directly before it, which was complete and refused.
BoundedLoss ==
    (\A k \in DOMAIN sent : sent[k] \in PlainFrames) =>
        \A k \in DOMAIN sent :
            sent[k] \in ProperFrames /\ End(k) <= pos
              => \/ \E i \in DOMAIN syslog : syslog[i].end = End(k)
                 \/ k \in short \/ k - 1 \in refused

\* The decoder does not hang in a frame: it comes back to the next header or
\* closes the connection; the program ends only over a short UBAMonitorSlow.
KeepsListening ==
    pc \in {"v2", "payload", "wait"} ~>
        \/ pc \in {"header", "closed"}
        \/ pc = "dead" /\ \E k \in DOMAIN sent : Unreadable(Carried(sent[k]))
=============================================================================
