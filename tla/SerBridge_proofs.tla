--------------------------- MODULE SerBridge_proofs ---------------------------
(***************************************************************************)
(* Theorems about SerBridge, for every number of connections and slots,    *)
(* every buffer size, every telegram and every packet.                     *)
(*                                                                         *)
(* The pool: a slot belongs to one living connection and a connection to   *)
(* one slot (SlotOwnership), and a send is never begun over another        *)
(* (OneSendAtATime).  Neither is inductive.  What a slot's readytosend     *)
(* says must be tied to the state of the stack (ReadyMeansIdle), and a     *)
(* slot that a new connection takes must find no send of an earlier one    *)
(* (FreeIsIdle).                                                           *)
(*                                                                         *)
(* The two directions: what a connection is sent is the telegrams it       *)
(* accepted (BroadcastExact), by the pool's invariant, the types and       *)
(* nothing being kept for a connection that is not there (FreeIsClean);    *)
(* and what a client's packets turn into is what its bytes, as one buffer, *)
(* turn into (ReceivedAlone), because a slot's mode and telnet state are   *)
(* those its owner's bytes lead to (Remembers) and telnetUnwrap can be cut *)
(* anywhere (UnwrapConcat).                                                *)
(***************************************************************************)
EXTENDS SerBridge, Facts, SequenceTheorems, TLAPS

\* The types the argument needs.
SlotTypes ==
    /\ link \in [Conns -> Links]
    /\ reverse \in [Conns -> Slots \cup {NULL}]
    /\ conn \in [Slots -> Conns \cup {NULL}]
    /\ readytosend \in [Slots -> BOOLEAN]
    /\ DOMAIN flight = Conns
    /\ DOMAIN out = Conns

\* A slot that is ready to send belongs to a connection that is sending nothing.
ReadyMeansIdle ==
    \A i \in Slots :
        conn[i] # NULL /\ readytosend[i] => flight[conn[i]] = NULL

\* Nothing is under way for a connection that is not there.
FreeIsIdle == \A c \in Conns : link[c] = "free" => flight[c] = NULL

PoolInv == SlotTypes /\ SlotOwnership /\ ReadyMeansIdle /\ FreeIsIdle

\* No slot has the number NULL.
LEMMA NullIsNoSlot == NULL \notin Slots /\ NULL \notin Conns
  BY BridgeAssumption DEF Slots

\* The pool starts empty.
LEMMA InitPoolInv == Init => PoolInv
  BY NullIsNoSlot
  DEF Init, PoolInv, SlotTypes, SlotOwnership, ReadyMeansIdle, FreeIsIdle,
      Links, Live

\* A connection that is there has the slot that points back at it.
LEMMA OwnSlot ==
  ASSUME PoolInv, NEW c \in Conns, link[c] # "free"
  PROVE  reverse[c] \in Slots /\ conn[reverse[c]] = c
  BY DEF PoolInv, SlotOwnership, Live

\* serbridgeConnectCb gives a free slot to a connection that had none.
LEMMA ConnectKeepsPool ==
  ASSUME PoolInv, NEW c \in Conns, serbridgeConnectCb(c)
  PROVE  PoolInv'
<1> USE NullIsNoSlot
<1>1. PICK i \in Slots : /\ conn[i] = NULL
                         /\ reverse' = [reverse EXCEPT ![c] = i]
                         /\ conn' = [conn EXCEPT ![i] = c]
                         /\ readytosend' = [readytosend EXCEPT ![i] = TRUE]
  BY DEF serbridgeConnectCb, FreeSlots, Prepared
<1>2. /\ link[c] = "free" /\ link' = [link EXCEPT ![c] = "open"]
      /\ flight' = flight /\ out' = out
  BY DEF serbridgeConnectCb
<1>3. SlotTypes'
  BY <1>1, <1>2 DEF PoolInv, SlotTypes, Links
<1>4. SlotOwnership'
  <2>1. \A j \in Slots : conn[j] # c
    BY <1>2 DEF PoolInv, SlotTypes, SlotOwnership, Live
  <2>2. \A d \in Conns : link'[d] # "free"
                 => reverse'[d] \in Slots /\ conn'[reverse'[d]] = d
    BY <1>1, <1>2 DEF PoolInv, SlotTypes, SlotOwnership, Live
  <2>3. \A j \in Slots : conn'[j] # NULL
                 => link'[conn'[j]] # "free" /\ reverse'[conn'[j]] = j
    BY <1>1, <1>2, <2>1 DEF PoolInv, SlotTypes, SlotOwnership, Live
  <2> QED BY <2>2, <2>3 DEF SlotOwnership, Live
<1>5. ReadyMeansIdle'
  BY <1>1, <1>2 DEF PoolInv, SlotTypes, ReadyMeansIdle, FreeIsIdle
<1>6. FreeIsIdle'
  BY <1>2 DEF PoolInv, SlotTypes, FreeIsIdle
<1> QED BY <1>3, <1>4, <1>5, <1>6 DEF PoolInv

\* A closing callback frees the slot of its connection and no other's.
LEMMA CloseKeepsPool ==
  ASSUME PoolInv, NEW c \in Conns, link[c] # "free",
         FreeSlotOf(c), Forget(c)
  PROVE  PoolInv'
<1> USE NullIsNoSlot
<1> DEFINE i == reverse[c]
<1>1. i \in Slots /\ conn[i] = c
  BY OwnSlot
<1>2. /\ conn' = [conn EXCEPT ![i] = NULL] /\ readytosend' = readytosend
      /\ link' = [link EXCEPT ![c] = "free"]
      /\ reverse' = [reverse EXCEPT ![c] = NULL]
      /\ flight' = [flight EXCEPT ![c] = NULL]
      /\ out' = [out EXCEPT ![c] = <<>>]
  BY DEF FreeSlotOf, Forget
<1> HIDE DEF i
<1>3. SlotTypes'
  BY <1>1, <1>2 DEF PoolInv, SlotTypes, Links
<1>4. \A j \in Slots : conn'[j] # NULL => j # i /\ conn'[j] = conn[j] /\ conn[j] # c
  BY <1>1, <1>2 DEF PoolInv, SlotTypes, SlotOwnership, i
<1>5. SlotOwnership'
  <2>1. \A d \in Conns : link'[d] # "free"
                 => reverse'[d] \in Slots /\ conn'[reverse'[d]] = d
    BY <1>1, <1>2 DEF PoolInv, SlotTypes, SlotOwnership, Live
  <2>2. \A j \in Slots : conn'[j] # NULL
                 => link'[conn'[j]] # "free" /\ reverse'[conn'[j]] = j
    BY <1>2, <1>4 DEF PoolInv, SlotTypes, SlotOwnership, Live
  <2> QED BY <2>1, <2>2 DEF SlotOwnership, Live
<1>6. ReadyMeansIdle'
  BY <1>2, <1>4 DEF PoolInv, SlotTypes, ReadyMeansIdle
<1>7. FreeIsIdle'
  BY <1>2 DEF PoolInv, SlotTypes, FreeIsIdle
<1> QED BY <1>3, <1>5, <1>6, <1>7 DEF PoolInv

\* serbridgeUartCb starts sends from slots that are ready and marks them busy.
LEMMA UartKeepsPool ==
  ASSUME PoolInv, NEW len \in Lens, serbridgeUartCb(len)
  PROVE  /\ PoolInv'
         /\ \A c \in Conns : flight[c] # NULL => flight'[c] = flight[c]
<1> USE NullIsNoSlot
<1> DEFINE sent == ReadySlots({i \in Receivers : Room(i, len)})
           tx(i) == txbuffer[i] \o Telegram(Len(msgs) + 1, len)
<1>1. /\ sent \subseteq Slots
      /\ \A i \in sent : conn[i] \in Conns /\ readytosend[i]
  BY DEF ReadySlots, Receivers, PoolInv, SlotTypes
<1>2. PICK refused \in Refusals(sent) :
          flight' = [c \in Conns |->
               IF \E i \in sent \ refused : conn[i] = c
               THEN tx(CHOOSE j \in sent \ refused : conn[j] = c)
               ELSE flight[c]]
  BY DEF serbridgeUartCb, tx, sent
<1>3. /\ readytosend' = [i \in Slots |-> readytosend[i] /\ i \notin sent]
      /\ link' = link /\ reverse' = reverse /\ conn' = conn /\ out' = out
  BY DEF serbridgeUartCb, sent
<1> HIDE DEF sent, tx
<1>4. \A c \in Conns : (\A i \in sent : conn[i] # c) => flight'[c] = flight[c]
  BY <1>2
<1>5. \A i \in sent : flight[conn[i]] = NULL
  BY <1>1 DEF PoolInv, ReadyMeansIdle
<1>6. SlotTypes'
  BY <1>2, <1>3 DEF PoolInv, SlotTypes
<1>7. SlotOwnership'
  BY <1>3 DEF PoolInv, SlotOwnership, Live
<1>8. ReadyMeansIdle'
  <2> SUFFICES ASSUME NEW i \in Slots, conn[i] # NULL, readytosend[i], i \notin sent
               PROVE  flight'[conn[i]] = NULL
    BY <1>3 DEF ReadyMeansIdle
  <2>1. conn[i] \in Conns /\ \A j \in sent : conn[j] # conn[i]
    BY <1>1 DEF PoolInv, SlotTypes, SlotOwnership
  <2> QED BY <1>4, <2>1 DEF PoolInv, ReadyMeansIdle
<1>9. FreeIsIdle'
  <2> SUFFICES ASSUME NEW c \in Conns, link[c] = "free"
               PROVE  flight'[c] = NULL
    BY <1>3 DEF FreeIsIdle
  <2>1. \A i \in sent : conn[i] # c
    BY <1>1 DEF PoolInv, SlotOwnership, Live
  <2> QED BY <1>4, <2>1 DEF PoolInv, FreeIsIdle
<1>10. \A c \in Conns : flight[c] # NULL => flight'[c] = flight[c]
  BY <1>4, <1>5
<1> QED BY <1>6, <1>7, <1>8, <1>9, <1>10 DEF PoolInv

\* serbridgeSentCb starts at most one send, for the connection whose send was
\* acknowledged.
LEMMA SentKeepsPool ==
  ASSUME PoolInv, NEW c \in Conns, serbridgeSentCb(c)
  PROVE  /\ PoolInv'
         /\ \A d \in Conns : d # c => flight'[d] = flight[d]
         /\ out'[c] = out[c] \o flight[c]
<1> USE NullIsNoSlot
<1> DEFINE i == reverse[c]
           more == MoreToSend(i)
<1>1. link[c] # "free" /\ flight[c] # NULL
  BY DEF serbridgeSentCb
<1>2. i \in Slots /\ conn[i] = c
  BY <1>1, OwnSlot
<1>3. PICK refused \in Refusals(more) :
          flight' = [d \in Conns |->
               IF more \ refused # {} /\ conn[i] = d THEN txbuffer[i]
               ELSE IF c = d THEN NULL ELSE flight[d]]
  BY DEF serbridgeSentCb
<1>4. /\ readytosend' = [readytosend EXCEPT ![i] = more = {}]
      /\ out' = [out EXCEPT ![c] = out[c] \o flight[c]]
      /\ link' = link /\ reverse' = reverse /\ conn' = conn
  BY DEF serbridgeSentCb
<1> HIDE DEF i, more
<1>5. \A d \in Conns : d # c => flight'[d] = flight[d]
  BY <1>2, <1>3
<1>6. more = {} => flight'[c] = NULL
  BY <1>2, <1>3
<1>7. SlotTypes'
  <2>1. (more = {}) \in BOOLEAN
    OBVIOUS
  <2> QED BY <1>2, <1>3, <1>4, <2>1 DEF PoolInv, SlotTypes
<1>8. SlotOwnership'
  BY <1>4 DEF PoolInv, SlotOwnership, Live
<1>9. ReadyMeansIdle'
  <2> SUFFICES ASSUME NEW j \in Slots, conn[j] # NULL, readytosend'[j]
               PROVE  flight'[conn[j]] = NULL
    BY <1>4 DEF ReadyMeansIdle
  <2>1. CASE j = i
    BY <1>2, <1>4, <1>6, <2>1 DEF PoolInv, SlotTypes
  <2>2. CASE j # i
    <3>1. conn[j] \in Conns /\ conn[j] # c /\ readytosend[j]
      BY <1>2, <1>4, <2>2 DEF PoolInv, SlotTypes, SlotOwnership
    <3> QED BY <1>5, <3>1 DEF PoolInv, ReadyMeansIdle
  <2> QED BY <2>1, <2>2
<1>10. FreeIsIdle'
  BY <1>1, <1>4, <1>5 DEF PoolInv, FreeIsIdle
<1>11. out'[c] = out[c] \o flight[c]
  BY <1>4 DEF PoolInv, SlotTypes
<1> QED BY <1>5, <1>7, <1>8, <1>9, <1>10, <1>11 DEF PoolInv

\* A connection that starts to end keeps its slot until the callback.
LEMMA PeerEndsKeepsPool ==
  ASSUME PoolInv, NEW c \in Conns, PeerEnds(c)
  PROVE  PoolInv'
<1>1. PICK l \in {"closing", "broken"} : link' = [link EXCEPT ![c] = l]
  BY DEF PeerEnds
<1>2. link[c] = "open"
  BY DEF PeerEnds
<1>3. /\ reverse' = reverse /\ flight' = flight /\ out' = out
      /\ conn' = conn /\ readytosend' = readytosend
  BY DEF PeerEnds, pool
<1>4. link' \in [Conns -> Links]
  BY <1>1 DEF PoolInv, SlotTypes, Links
<1>5. \A d \in Conns : link'[d] = "free" <=> link[d] = "free"
  BY <1>1, <1>2 DEF PoolInv, SlotTypes
<1>6. SlotOwnership'
  <2>1. \A d \in Conns : link'[d] # "free"
                 => reverse[d] \in Slots /\ conn[reverse[d]] = d
    BY <1>5 DEF PoolInv, SlotOwnership, Live
  <2>2. \A j \in Slots : conn[j] # NULL
                 => link'[conn[j]] # "free" /\ reverse[conn[j]] = j
    BY <1>5 DEF PoolInv, SlotTypes, SlotOwnership, Live
  <2> QED BY <1>3, <2>1, <2>2 DEF SlotOwnership, Live
<1>7. ReadyMeansIdle' /\ FreeIsIdle'
  BY <1>3, <1>5 DEF PoolInv, ReadyMeansIdle, FreeIsIdle
<1> QED BY <1>3, <1>4, <1>6, <1>7 DEF PoolInv, SlotTypes

\* What the pool's invariant speaks of is untouched by the other steps.
LEMMA PoolUnchanged ==
  ASSUME PoolInv, UNCHANGED <<link, reverse, conn, readytosend, flight, out>>
  PROVE  PoolInv'
  BY DEF PoolInv, SlotTypes, SlotOwnership, Live, ReadyMeansIdle, FreeIsIdle

\* Every step keeps the pool's invariant, and a step that begins a send for a
\* connection whose last one was under way acknowledges that.
LEMMA NextPoolInv ==
  ASSUME PoolInv, [Next]_vars
  PROVE  /\ PoolInv'
         /\ \A c \in Conns :
              flight[c] # NULL /\ flight'[c] \notin {NULL, flight[c]}
                  => out'[c] = out[c] \o flight[c]
<1> DEFINE Goal == /\ PoolInv'
                   /\ \A c \in Conns :
                       flight[c] # NULL /\ flight'[c] \notin {NULL, flight[c]}
                           => out'[c] = out[c] \o flight[c]
<1>1. ASSUME NEW len \in Lens, serbridgeUartCb(len)
      PROVE  Goal
  BY <1>1, UartKeepsPool
<1>2. ASSUME NEW c \in Conns, Stack(c)
      PROVE  Goal
  <2>1. CASE serbridgeConnectCb(c)
    <3>1. flight' = flight
      BY <2>1 DEF serbridgeConnectCb
    <3> QED BY <2>1, <3>1, ConnectKeepsPool
  <2>2. CASE serbridgeConnectCbOverflow(c)
    BY <2>2, PoolUnchanged
    DEF serbridgeConnectCbOverflow, vars, pool
  <2>3. CASE PeerEnds(c)
    <3>1. flight' = flight
      BY <2>3 DEF PeerEnds
    <3> QED BY <2>3, <3>1, PeerEndsKeepsPool
  <2>4. CASE serbridgeDisconCb(c) \/ serbridgeReconCb(c)
    <3>1. link[c] # "free" /\ FreeSlotOf(c) /\ Forget(c)
      BY <2>4 DEF serbridgeDisconCb, serbridgeReconCb
    <3>2. flight' = [flight EXCEPT ![c] = NULL]
      BY <3>1 DEF Forget
    <3>3. \A d \in Conns : flight'[d] \in {NULL, flight[d]}
      BY <3>2 DEF PoolInv, SlotTypes
    <3>4. PoolInv'
      BY <3>1, CloseKeepsPool
    <3> QED BY <3>3, <3>4
  <2>5. CASE serbridgeSentCb(c)
    BY <2>5, SentKeepsPool
  <2>6. ASSUME NEW packet \in Packets, serbridgeRecvCb(c, packet)
        PROVE  Goal
    BY <2>6, PoolUnchanged DEF serbridgeRecvCb
  <2> QED BY <1>2, <2>1, <2>2, <2>3, <2>4, <2>5, <2>6 DEF Stack
<1>3. CASE UNCHANGED vars
  BY <1>3, PoolUnchanged DEF vars, pool
<1> QED BY <1>1, <1>2, <1>3 DEF Next

\* The invariant of the pool holds throughout.
LEMMA PoolInvariant == Spec => []PoolInv
<1>1. Init => PoolInv
  BY InitPoolInv
<1>2. PoolInv /\ [Next]_vars => PoolInv'
  BY NextPoolInv
<1> QED BY <1>1, <1>2, PTL DEF Spec

\* serbridge.c:28-31, 270-320: every accepted connection owns one slot until
\* its closing callback and no slot is shared or left to a dead connection.
THEOREM SlotsAreOwned == Spec => []SlotOwnership
<1>1. PoolInv => SlotOwnership
  BY DEF PoolInv
<1> QED BY <1>1, PoolInvariant, PTL

\* serbridge.c:196-226: espconn_sent is only called after the sent callback for
\* the previous packet.
THEOREM SendsAreSequential == Spec => OneSendAtATime
<1> DEFINE Step == \A c \in Conns :
                     flight[c] # NULL /\ flight'[c] \notin {NULL, flight[c]}
                         => out'[c] = out[c] \o flight[c]
<1>1. PoolInv /\ [Next]_vars => [Step]_vars
  BY NextPoolInv
<1> QED BY <1>1, PoolInvariant, PTL DEF Spec, OneSendAtATime

-----------------------------------------------------------------------------
(***************************************************************************)
(* What telnetUnwrap makes of a buffer, as a fold over its characters.     *)
(***************************************************************************)
Results == [state : TelnetStates, out : Seq(Outputs)]

\* One character further.
Feed(r, ch) == [state |-> NextState(r.state, ch),
                out   |-> r.out \o Output(r.state, ch)]

Steps(buffer) == [x \in Results \X (1 .. Len(buffer)) |-> Feed(x[1], buffer[x[2]])]

LEMMA NextStateType ==
  ASSUME NEW st \in TelnetStates, NEW ch
  PROVE  NextState(st, ch) \in TelnetStates
  BY DEF NextState, TelnetStates

LEMMA OutputType ==
  ASSUME NEW st \in TelnetStates, NEW ch \in Chars
  PROVE  Output(st, ch) \in Seq(Outputs)
<1>1. Uart(ch) \in Outputs /\ Uart(IAC) \in Outputs
  BY DEF Uart, Outputs, Chars, IAC
<1>2. ch \in DOMAIN Pins => Pins[ch] \in Outputs
  BY DEF Pins, Outputs, Chars, DTR_ON, DTR_OFF, RTS_ON, RTS_OFF
<1>3. /\ <<>> \in Seq(Outputs) /\ <<Uart(ch)>> \in Seq(Outputs)
      /\ <<Uart(IAC)>> \in Seq(Outputs) /\ <<Uart(IAC), Uart(ch)>> \in Seq(Outputs)
      /\ ch \in DOMAIN Pins => <<Pins[ch]>> \in Seq(Outputs)
  BY <1>1, <1>2
<1> HIDE DEF Pins
<1> QED BY <1>3 DEF Output

LEMMA FeedType ==
  ASSUME NEW r \in Results, NEW ch \in Chars
  PROVE  Feed(r, ch) \in Results
<1>1. r.state \in TelnetStates /\ r.out \in Seq(Outputs)
  BY DEF Results
<1>2. r.out \o Output(r.state, ch) \in Seq(Outputs)
  BY <1>1, OutputType, ConcatProperties
<1> QED BY <1>1, <1>2, NextStateType DEF Feed, Results

LEMMA StepsType ==
  ASSUME NEW buffer \in Seq(Chars)
  PROVE  /\ Steps(buffer) \in [Results \X (1 .. Len(buffer)) -> Results]
         /\ \A r \in Results, k \in 1 .. Len(buffer) :
              Steps(buffer)[<<r, k>>] = Feed(r, buffer[k])
<1>1. \A r \in Results, k \in 1 .. Len(buffer) : Feed(r, buffer[k]) \in Results
  BY FeedType, ElementOfSeq
<1> QED BY <1>1 DEF Steps

\* g are the results of the beginnings of a buffer.
IsUnwrap(g, buffer, st) ==
  /\ g \in [0 .. Len(buffer) -> Results]
  /\ g[0] = [state |-> st, out |-> <<>>]
  /\ \A k \in 1 .. Len(buffer) : g[k] = Feed(g[k - 1], buffer[k])

\* The values the recursive function in Unwrap takes.
LEMMA UnwrapIs ==
  ASSUME NEW buffer \in Seq(Chars), NEW st \in TelnetStates
  PROVE  \E g : IsUnwrap(g, buffer, st) /\ Unwrap(buffer, st) = g[Len(buffer)]
<1> DEFINE n == Len(buffer)
           a == [state |-> st, out |-> <<>>]
           Is(f) == f = [k \in 0 .. n |->
                      IF k = 0 THEN [state |-> st, out |-> <<>>]
                      ELSE LET r == f[k - 1] IN
                           [state |-> NextState(r.state, buffer[k]),
                            out   |-> r.out \o Output(r.state, buffer[k])]]
<1>1. a \in Results /\ n \in Nat
  BY EmptySeq, LenProperties DEF Results
<1>2. PICK g \in [0 .. n -> Results] : IsFold(g, a, Steps(buffer), n)
  BY <1>1, StepsType, FoldExists
<1>3. g[0] = a /\ \A k \in 1 .. n : g[k] = Feed(g[k - 1], buffer[k])
  <2>1. \A k \in 1 .. n : k - 1 \in 0 .. n /\ g[k - 1] \in Results
    BY <1>1
  <2> QED BY <1>2, <2>1, StepsType DEF IsFold
<1>4. Is(g)
  <2>1. g = [k \in 0 .. n |-> g[k]]
    OBVIOUS
  <2>2. \A k \in 0 .. n : g[k] = IF k = 0 THEN a ELSE Feed(g[k - 1], buffer[k])
    BY <1>1, <1>3
  <2> QED BY <2>1, <2>2 DEF Feed
<1>5. PICK f : Is(f) /\ Unwrap(buffer, st) = f[n]
  <2>1. Is(CHOOSE f : Is(f))
    BY <1>4
  <2> QED BY <2>1 DEF Unwrap
<1>6. f[0] = a /\ \A k \in 1 .. n : f[k] = Feed(f[k - 1], buffer[k])
  <2>1. \A k \in 0 .. n : f[k] = IF k = 0 THEN a ELSE Feed(f[k - 1], buffer[k])
    BY <1>5 DEF Feed
  <2> HIDE DEF Is, a
  <2> QED BY <1>1, <2>1
<1> HIDE DEF Is
<1>7. n \in {k \in 0 .. n : f[k] = g[k]}
  <2> DEFINE T == {k \in 0 .. n : f[k] = g[k]}
  <2>1. 0 \in T
    BY <1>1, <1>3, <1>6
  <2>2. \A k \in 1 .. n : k - 1 \in T => k \in T
    BY <1>1, <1>3, <1>6
  <2> HIDE DEF T
  <2>3. \A k \in 0 .. n : k \in T
    BY <1>1, <2>1, <2>2, UpTo
  <2> QED BY <1>1, <2>3 DEF T
<1> QED BY <1>2, <1>3, <1>5, <1>7 DEF IsUnwrap

LEMMA UnwrapType ==
  ASSUME NEW buffer \in Seq(Chars), NEW st \in TelnetStates
  PROVE  Unwrap(buffer, st) \in Results
<1>1. PICK g : IsUnwrap(g, buffer, st) /\ Unwrap(buffer, st) = g[Len(buffer)]
  BY UnwrapIs
<1>2. Len(buffer) \in 0 .. Len(buffer)
  BY LenProperties
<1> QED BY <1>1, <1>2 DEF IsUnwrap

\* The result r after an output p.
After(p, r) == [state |-> r.state, out |-> p \o r.out]

LEMMA FeedAfter ==
  ASSUME NEW p \in Seq(Outputs), NEW r \in Results, NEW ch \in Chars
  PROVE  Feed(After(p, r), ch) = After(p, Feed(r, ch))
<1>1. r.state \in TelnetStates /\ r.out \in Seq(Outputs)
  BY DEF Results
<1>2. Output(r.state, ch) \in Seq(Outputs)
  BY <1>1, OutputType
<1>3. (p \o r.out) \o Output(r.state, ch) = p \o (r.out \o Output(r.state, ch))
  <2> DEFINE q == r.out
             o == Output(r.state, ch)
  <2>1. q \in Seq(Outputs) /\ o \in Seq(Outputs)
    BY <1>1, <1>2
  <2> HIDE DEF q, o
  <2>2. (p \o q) \o o = p \o (q \o o)
    BY <2>1, ConcatAssociative
  <2> QED BY <2>2 DEF q, o
<1> QED BY <1>3 DEF Feed, After

\* A buffer cut in two gives what it gives whole, if the second part goes on in
\* the state the first one leaves.
LEMMA UnwrapConcat ==
  ASSUME NEW a \in Seq(Chars), NEW b \in Seq(Chars), NEW st \in TelnetStates
  PROVE  Unwrap(a \o b, st) = After(Unwrap(a, st).out, Unwrap(b, Unwrap(a, st).state))
<1> DEFINE r == Unwrap(a, st)
           m == Len(a)
           n == Len(b)
           ab == a \o b
<1>1. /\ r \in Results /\ r.state \in TelnetStates /\ r.out \in Seq(Outputs)
      /\ r = [state |-> r.state, out |-> r.out]
  BY UnwrapType DEF Results
<1>2. /\ m \in Nat /\ n \in Nat /\ ab \in Seq(Chars) /\ Len(ab) = m + n
      /\ \A k \in 1 .. m : ab[k] = a[k]
      /\ \A k \in 1 .. n : ab[m + k] = b[k] /\ b[k] \in Chars
  BY LenProperties, ConcatProperties, ElementOfSeq
<1> HIDE DEF r
<1>3. PICK g : IsUnwrap(g, a, st) /\ r = g[m]
  BY UnwrapIs DEF r
<1>4. PICK h : IsUnwrap(h, b, r.state) /\ Unwrap(b, r.state) = h[n]
  BY <1>1, UnwrapIs
<1>5. PICK f : IsUnwrap(f, ab, st) /\ Unwrap(ab, st) = f[m + n]
  BY <1>2, UnwrapIs
<1> HIDE DEF m, n, ab
<1>6. \A k \in 0 .. m : f[k] = g[k]
  <2> DEFINE T == {k \in 0 .. m : f[k] = g[k]}
  <2>1. 0 \in T
    BY <1>2, <1>3, <1>5 DEF IsUnwrap
  <2>2. ASSUME NEW k \in 1 .. m, k - 1 \in T PROVE k \in T
    <3>1. f[k] = Feed(f[k - 1], ab[k])
      BY <1>2, <1>5 DEF IsUnwrap
    <3>2. g[k] = Feed(g[k - 1], a[k])
      BY <1>3 DEF IsUnwrap, m
    <3> QED BY <1>2, <2>2, <3>1, <3>2
  <2> HIDE DEF T
  <2>3. \A k \in 0 .. m : k \in T
    BY <1>2, <2>1, <2>2, UpTo
  <2> QED BY <2>3 DEF T
<1>7. \A k \in 0 .. n : f[m + k] = After(r.out, h[k])
  <2> DEFINE T == {k \in 0 .. n : f[m + k] = After(r.out, h[k])}
  <2>1. 0 \in T
    <3>1. m + 0 = m /\ m \in 0 .. m /\ 0 \in 0 .. n
      BY <1>2
    <3>2. f[m + 0] = r
      BY <1>3, <1>6, <3>1
    <3>3. h[0] = [state |-> r.state, out |-> <<>>]
      BY <1>4 DEF IsUnwrap
    <3>4. r.out \o <<>> = r.out
      BY <1>1, ConcatEmptySeq
    <3>5. After(r.out, h[0]) = [state |-> r.state, out |-> r.out]
      BY <3>3, <3>4 DEF After
    <3>6. f[m + 0] = After(r.out, h[0])
      BY <1>1, <3>2, <3>5
    <3> HIDE DEF T
    <3> QED BY <3>1, <3>6 DEF T
  <2>2. ASSUME NEW k \in 1 .. n, k - 1 \in T PROVE k \in T
    <3>1. f[m + k] = Feed(f[m + k - 1], ab[m + k])
      BY <1>2, <1>5 DEF IsUnwrap
    <3>0. h \in [0 .. n -> Results] /\ \A j \in 1 .. n : h[j] = Feed(h[j - 1], b[j])
      BY <1>4 DEF IsUnwrap, n
    <3>2. h[k] = Feed(h[k - 1], b[k]) /\ h[k - 1] \in Results
      <4>1. k - 1 \in 0 .. n
        BY <1>2
      <4> QED BY <3>0, <4>1
    <3>3. m + k - 1 = m + (k - 1)
      BY <1>2
    <3>4. f[m + k - 1] = After(r.out, h[k - 1])
      BY <2>2, <3>3
    <3>5. ab[m + k] = b[k] /\ b[k] \in Chars
      BY <1>2
    <3>6. Feed(After(r.out, h[k - 1]), b[k]) = After(r.out, h[k])
      BY <1>1, <3>2, <3>5, FeedAfter
    <3> QED BY <3>1, <3>4, <3>5, <3>6
  <2> HIDE DEF T
  <2>3. \A k \in 0 .. n : k \in T
    BY <1>2, <2>1, <2>2, UpTo
  <2> QED BY <2>3 DEF T
<1>8. f[m + n] = After(r.out, h[n])
  BY <1>2, <1>7
<1> QED BY <1>4, <1>5, <1>8 DEF r, ab

-----------------------------------------------------------------------------
(***************************************************************************)
(* The types.                                                              *)
(***************************************************************************)
\* TypeOK in parts that the callbacks touch together.
SlotFields ==
    /\ conn \in [Slots -> Conns \cup {NULL}]
    /\ conn_mode \in [Slots -> Modes]
    /\ readytosend \in [Slots -> BOOLEAN]
    /\ telnet_state \in [Slots -> TelnetStates]

Buffers ==
    /\ txbuffer \in [Slots -> Seq(Byte)]
    /\ \A i \in Slots : Len(txbuffer[i]) <= MAX_TXBUFFER

Sending ==
    /\ \A c \in Conns : flight[c] # NULL => flight[c] \in Seq(Byte)
    /\ out \in [Conns -> Seq(Byte)]

Received == uart \in [Conns -> Seq(Outputs)] /\ heard \in [Conns -> Seq(Packets)]

Counted ==
    /\ msgs \in Seq(Lens) /\ since \in [Conns -> 0 .. Len(msgs)]
    /\ drops \in [Conns -> SUBSET (1 .. Len(msgs))]

Stacked ==
    /\ link \in [Conns -> Links]
    /\ reverse \in [Conns -> Slots \cup {NULL}]
    /\ failed \subseteq Conns \cup {NULL}
    /\ opens \in 0 .. MaxOpens

LEMMA TypeParts ==
  TypeOK <=> SlotFields /\ Buffers /\ Sending /\ Received /\ Counted /\ Stacked
  BY DEF TypeOK, SlotFields, Buffers, Sending, Received, Counted, Stacked

LEMMA InitType == Init => TypeOK
<1> SUFFICES ASSUME Init PROVE TypeOK
  OBVIOUS
<1>1. /\ <<>> \in Seq(Byte) /\ <<>> \in Seq(Outputs) /\ <<>> \in Seq(Packets)
      /\ <<>> \in Seq(Lens) /\ Len(<<>>) = 0
  BY EmptySeq
<1>2. MAX_TXBUFFER \in Nat /\ MaxOpens \in Nat
  BY BridgeAssumption
<1>3. SlotFields
  BY DEF Init, SlotFields, Modes, TelnetStates
<1>4. Buffers /\ Sending
  BY <1>1, <1>2 DEF Init, Buffers, Sending
<1>5. Received
  BY <1>1 DEF Init, Received
<1>6. Counted
  BY <1>1 DEF Init, Counted
<1>7. Stacked
  BY <1>2 DEF Init, Stacked, Links
<1> QED BY <1>3, <1>4, <1>5, <1>6, <1>7, TypeParts

\* Two concatenations the callbacks make.
LEMMA TelegramType ==
  ASSUME NEW m \in Nat, NEW len \in Nat
  PROVE  Telegram(m, len) \in Seq(Byte) /\ Len(Telegram(m, len)) = len
<1>1. \A k \in 1 .. len : [msg |-> m, pos |-> k] \in Byte
  BY DEF Byte
<1> QED BY <1>1 DEF Telegram

LEMMA ConnectType ==
  ASSUME PoolInv, TypeOK, NEW c \in Conns, serbridgeConnectCb(c)
  PROVE  TypeOK'
<1>1. PICK i \in Slots : /\ reverse' = [reverse EXCEPT ![c] = i]
                         /\ conn' = [conn EXCEPT ![i] = c]
                         /\ txbuffer' = [txbuffer EXCEPT ![i] = <<>>]
                         /\ readytosend' = [readytosend EXCEPT ![i] = TRUE]
                         /\ telnet_state' = [telnet_state EXCEPT ![i] = "normal"]
                         /\ conn_mode' = [conn_mode EXCEPT ![i] = "cmInit"]
  BY DEF serbridgeConnectCb, FreeSlots, Prepared
<1>2. /\ link' = [link EXCEPT ![c] = "open"] /\ opens < MaxOpens
      /\ since' = [since EXCEPT ![c] = Len(msgs)] /\ opens' = opens + 1
      /\ UNCHANGED <<flight, out, uart, msgs, drops, heard, failed>>
  BY DEF serbridgeConnectCb
<1>3. <<>> \in Seq(Byte) /\ Len(<<>>) = 0 /\ MAX_TXBUFFER \in Nat /\ MaxOpens \in Nat
  BY EmptySeq, BridgeAssumption
<1>4. SlotFields'
  BY <1>1, TypeParts DEF SlotFields, Modes, TelnetStates
<1>5. Buffers'
  BY <1>1, <1>3, TypeParts DEF Buffers
<1>6. Sending' /\ Received'
  BY <1>2, TypeParts DEF Sending, Received
<1>7. Counted'
  <2>1. Counted /\ Len(msgs) \in Nat
    BY TypeParts, LenProperties DEF Counted
  <2>2. since' \in [Conns -> 0 .. Len(msgs)]
    BY <1>2, <2>1 DEF Counted
  <2> QED BY <1>2, <2>1, <2>2 DEF Counted
<1>8. Stacked'
  BY <1>1, <1>2, <1>3, TypeParts DEF Stacked, Links
<1>9. TypeOK' <=> (SlotFields /\ Buffers /\ Sending /\ Received /\ Counted /\ Stacked)'
  BY TypeParts, PTL
<1> QED BY <1>4, <1>5, <1>6, <1>7, <1>8, <1>9

LEMMA PeerEndsType ==
  ASSUME PoolInv, TypeOK, NEW c \in Conns, PeerEnds(c)
  PROVE  TypeOK'
<1>1. PICK l \in {"closing", "broken"} : link' = [link EXCEPT ![c] = l]
  BY DEF PeerEnds
<1>2. link' \in [Conns -> Links]
  BY <1>1 DEF TypeOK, Links
<1>3. UNCHANGED <<reverse, flight, out, pool, history>>
  BY DEF PeerEnds
<1> QED BY <1>2, <1>3 DEF TypeOK, pool, history

LEMMA CloseType ==
  ASSUME PoolInv, TypeOK, NEW c \in Conns, link[c] # "free",
         FreeSlotOf(c), Forget(c)
  PROVE  TypeOK'
<1>1. reverse[c] \in Slots
  BY OwnSlot
<1>2. /\ <<>> \in Seq(Byte) /\ <<>> \in Seq(Outputs) /\ <<>> \in Seq(Packets)
  BY EmptySeq
<1>3. SlotFields'
  BY <1>1, TypeParts DEF SlotFields, FreeSlotOf
<1>4. Buffers'
  BY TypeParts DEF Buffers, FreeSlotOf
<1>5. Sending'
  <2>1. flight' = [flight EXCEPT ![c] = NULL] /\ out' = [out EXCEPT ![c] = <<>>]
    BY DEF Forget
  <2> QED BY <1>2, <2>1, TypeParts DEF Sending, PoolInv, SlotTypes
<1>6. Received'
  BY <1>2, TypeParts DEF Received, Forget
<1>7. Counted'
  <2>1. /\ since' = [since EXCEPT ![c] = 0] /\ drops' = [drops EXCEPT ![c] = {}]
        /\ msgs' = msgs
    BY DEF Forget, FreeSlotOf
  <2>2. Counted /\ Len(msgs) \in Nat
    BY TypeParts, LenProperties DEF Counted
  <2>3. since' \in [Conns -> 0 .. Len(msgs)] /\ drops' \in [Conns -> SUBSET (1 .. Len(msgs))]
    BY <2>1, <2>2 DEF Counted
  <2> QED BY <2>1, <2>2, <2>3 DEF Counted
<1>8. Stacked'
  BY TypeParts DEF Stacked, Forget, FreeSlotOf, Links
<1>9. TypeOK' <=> (SlotFields /\ Buffers /\ Sending /\ Received /\ Counted /\ Stacked)'
  BY TypeParts, PTL
<1> QED BY <1>3, <1>4, <1>5, <1>6, <1>7, <1>8, <1>9

LEMMA UartType ==
  ASSUME PoolInv, TypeOK, NEW len \in Lens, serbridgeUartCb(len)
  PROVE  TypeOK'
<1> DEFINE data == Telegram(Len(msgs) + 1, len)
           added == {i \in Receivers : Room(i, len)}
           sent == ReadySlots(added)
<1>1. /\ msgs' = Append(msgs, len)
      /\ txbuffer' = [i \in Slots |->
           CASE i \in sent -> <<>>
             [] i \in added \ sent -> txbuffer[i] \o data
             [] OTHER -> txbuffer[i]]
      /\ readytosend' = [i \in Slots |-> readytosend[i] /\ i \notin sent]
      /\ drops' = [c \in Conns |->
           IF \E i \in Receivers \ added : conn[i] = c
           THEN drops[c] \cup {Len(msgs) + 1} ELSE drops[c]]
      /\ UNCHANGED <<link, reverse, out, conn, conn_mode, telnet_state,
                     uart, since, heard, opens>>
  BY DEF serbridgeUartCb
<1>2. PICK refused \in Refusals(sent) :
        /\ failed' = failed \cup {conn[i] : i \in refused}
        /\ flight' = [c \in Conns |->
               IF \E i \in sent \ refused : conn[i] = c
               THEN txbuffer[CHOOSE j \in sent \ refused : conn[j] = c] \o data
               ELSE flight[c]]
  BY DEF serbridgeUartCb
<1>3. Len(msgs) \in Nat /\ len \in Nat /\ MAX_TXBUFFER \in Nat
  BY LenProperties, BridgeAssumption DEF TypeOK
<1>4. data \in Seq(Byte) /\ Len(data) = len
  BY <1>3, TelegramType
<1>5. /\ sent \subseteq added /\ added \subseteq Slots
      /\ \A i \in added : Len(txbuffer[i]) + len <= MAX_TXBUFFER
  BY DEF ReadySlots, Receivers, Room
<1> HIDE DEF data, added, sent
<1>6. \A i \in Slots : /\ txbuffer[i] \in Seq(Byte)
                       /\ txbuffer[i] \o data \in Seq(Byte)
                       /\ Len(txbuffer[i] \o data) = Len(txbuffer[i]) + len
                       /\ Len(txbuffer[i]) \in Nat
  BY <1>4, ConcatProperties, LenProperties DEF TypeOK
<1>7. SlotFields'
  BY <1>1, TypeParts DEF SlotFields
<1>8. Buffers'
  <2>1. <<>> \in Seq(Byte) /\ Len(<<>>) = 0
    BY EmptySeq
  <2> DEFINE next(i) == CASE i \in sent -> <<>>
                          [] i \in added \ sent -> txbuffer[i] \o data
                          [] OTHER -> txbuffer[i]
  <2>2. ASSUME NEW i \in Slots
        PROVE  next(i) \in Seq(Byte) /\ Len(next(i)) <= MAX_TXBUFFER
    <3>1. CASE i \in sent
      BY <1>3, <2>1, <3>1
    <3>2. CASE i \in added \ sent
      BY <1>5, <1>6, <3>2
    <3>3. CASE i \notin sent /\ i \notin added \ sent
      BY <1>6, <3>3 DEF TypeOK
    <3> QED BY <3>1, <3>2, <3>3
  <2>3. txbuffer' = [i \in Slots |-> next(i)]
    BY <1>1
  <2> HIDE DEF next
  <2> QED BY <2>2, <2>3 DEF Buffers
<1>9. Sending'
  <2>1. ASSUME NEW c \in Conns, flight'[c] # NULL
        PROVE  flight'[c] \in Seq(Byte)
    <3>1. CASE \E i \in sent \ refused : conn[i] = c
      <4> DEFINE j == CHOOSE j \in sent \ refused : conn[j] = c
      <4>1. j \in Slots
        BY <1>5, <3>1
      <4>2. flight'[c] = txbuffer[j] \o data
        BY <1>2, <3>1
      <4> QED BY <1>6, <4>1, <4>2
    <3>2. CASE ~\E i \in sent \ refused : conn[i] = c
      BY <1>2, <2>1, <3>2 DEF TypeOK
    <3> QED BY <3>1, <3>2
  <2> QED BY <1>1, <2>1, TypeParts DEF Sending
<1>10. Received'
  BY <1>1, TypeParts DEF Received
<1>11. Counted'
  <2>1. Counted
    BY TypeParts
  <2>2. Append(msgs, len) \in Seq(Lens) /\ Len(Append(msgs, len)) = Len(msgs) + 1
    BY <2>1, AppendProperties DEF Counted
  <2>3. since \in [Conns -> 0 .. Len(msgs) + 1]
    BY <1>3, <2>1 DEF Counted
  <2>4. \A c \in Conns : drops[c] \subseteq 1 .. Len(msgs) + 1
    BY <1>3, <2>1 DEF Counted
  <2>5. Len(msgs) + 1 \in 1 .. Len(msgs) + 1
    BY <1>3
  <2>6. drops' \in [Conns -> SUBSET (1 .. Len(msgs) + 1)]
    BY <1>1, <2>4, <2>5
  <2> QED BY <1>1, <2>2, <2>3, <2>6 DEF Counted
<1>12. Stacked'
  <2>1. refused \subseteq Slots
    BY <1>5 DEF Refusals
  <2>2. {conn[i] : i \in refused} \subseteq Conns \cup {NULL}
    BY <2>1 DEF TypeOK
  <2> QED BY <1>1, <1>2, <2>2, TypeParts DEF Stacked
<1>13. TypeOK' <=> (SlotFields /\ Buffers /\ Sending /\ Received /\ Counted /\ Stacked)'
  BY TypeParts, PTL
<1> QED BY <1>7, <1>8, <1>9, <1>10, <1>11, <1>12, <1>13

LEMMA SentType ==
  ASSUME PoolInv, TypeOK, NEW c \in Conns, serbridgeSentCb(c)
  PROVE  TypeOK'
<1> DEFINE i == reverse[c]
           more == MoreToSend(i)
<1>1. link[c] # "free" /\ flight[c] # NULL
  BY DEF serbridgeSentCb
<1>2. i \in Slots /\ conn[i] = c /\ more \subseteq Slots
  BY <1>1, OwnSlot DEF MoreToSend
<1>3. PICK refused \in Refusals(more) :
          /\ failed' = failed \cup {conn[j] : j \in refused}
          /\ flight' = [d \in Conns |->
               IF more \ refused # {} /\ conn[i] = d THEN txbuffer[i]
               ELSE IF c = d THEN NULL ELSE flight[d]]
  BY DEF serbridgeSentCb
<1>4. /\ readytosend' = [readytosend EXCEPT ![i] = more = {}]
      /\ out' = [out EXCEPT ![c] = out[c] \o flight[c]]
      /\ txbuffer' = [txbuffer EXCEPT ![i] = IF more = {} THEN txbuffer[i] ELSE <<>>]
      /\ UNCHANGED <<link, reverse, conn, conn_mode, telnet_state, uart, msgs,
                     since, drops, heard, opens>>
  BY DEF serbridgeSentCb
<1> HIDE DEF i, more
<1>5. SlotFields'
  <2>1. (more = {}) \in BOOLEAN
    OBVIOUS
  <2> QED BY <1>2, <1>4, <2>1, TypeParts DEF SlotFields
<1>6. Buffers'
  <2>1. <<>> \in Seq(Byte) /\ Len(<<>>) = 0 /\ MAX_TXBUFFER \in Nat
    BY EmptySeq, BridgeAssumption
  <2> DEFINE left == IF more = {} THEN txbuffer[i] ELSE <<>>
  <2>2. left \in Seq(Byte) /\ Len(left) <= MAX_TXBUFFER
    BY <1>2, <2>1 DEF TypeOK
  <2>3. txbuffer' = [txbuffer EXCEPT ![i] = left]
    BY <1>4
  <2> HIDE DEF left
  <2> QED BY <1>2, <2>2, <2>3, TypeParts DEF Buffers
<1>7. Sending'
  <2>1. flight[c] \in Seq(Byte) /\ out[c] \in Seq(Byte) /\ out[c] \o flight[c] \in Seq(Byte)
    BY <1>1, ConcatProperties DEF TypeOK
  <2>2. out' \in [Conns -> Seq(Byte)]
    BY <1>4, <2>1 DEF TypeOK
  <2>3. \A d \in Conns : flight'[d] # NULL => flight'[d] \in Seq(Byte)
    BY <1>2, <1>3 DEF TypeOK
  <2> QED BY <2>2, <2>3 DEF Sending
<1>8. Received' /\ Counted'
  BY <1>4, TypeParts DEF Received, Counted
<1>9. Stacked'
  <2>1. refused \subseteq Slots
    BY <1>2 DEF Refusals
  <2>2. {conn[j] : j \in refused} \subseteq Conns \cup {NULL}
    BY <2>1 DEF TypeOK
  <2> QED BY <1>3, <1>4, <2>2, TypeParts DEF Stacked
<1>10. TypeOK' <=> (SlotFields /\ Buffers /\ Sending /\ Received /\ Counted /\ Stacked)'
  BY TypeParts, PTL
<1> QED BY <1>5, <1>6, <1>7, <1>8, <1>9, <1>10

LEMMA RawType ==
  ASSUME NEW packet \in Seq(Chars)
  PROVE  Raw(packet) \in Seq(Outputs) /\ Len(Raw(packet)) = Len(packet)
<1>1. \A k \in 1 .. Len(packet) : Uart(packet[k]) \in Outputs
  BY ElementOfSeq DEF Uart, Outputs
<1>2. DOMAIN packet = 1 .. Len(packet) /\ Len(packet) \in Nat
  BY LenProperties
<1> QED BY <1>1, <1>2 DEF Raw

LEMMA RecvType ==
  ASSUME PoolInv, TypeOK, NEW c \in Conns, NEW packet \in Packets,
         serbridgeRecvCb(c, packet)
  PROVE  TypeOK'
<1> DEFINE i == reverse[c]
           mode == ModeAfter(conn_mode[i], packet)
           st == IF conn_mode[i] = "cmInit" THEN "normal" ELSE telnet_state[i]
           r == IF mode = "cmTelnet" THEN Unwrap(packet, st)
                ELSE [state |-> telnet_state[i], out |-> Raw(packet)]
<1>1. i \in Slots
  BY OwnSlot DEF serbridgeRecvCb
<1>2. /\ conn_mode' = [conn_mode EXCEPT ![i] = mode]
      /\ telnet_state' = [telnet_state EXCEPT ![i] = r.state]
      /\ uart' = [uart EXCEPT ![c] = uart[c] \o r.out]
      /\ heard' = [heard EXCEPT ![c] = Append(heard[c], packet)]
      /\ UNCHANGED <<link, reverse, flight, out, conn, txbuffer,
                     readytosend, msgs, since, drops, failed, opens>>
  BY DEF serbridgeRecvCb
<1>3. packet \in Seq(Chars)
  BY BridgeAssumption
<1>4. st \in TelnetStates /\ telnet_state[i] \in TelnetStates
  BY <1>1 DEF TypeOK, TelnetStates
<1>5. mode \in Modes
  BY <1>1 DEF TypeOK, ModeAfter, Modes
<1> HIDE DEF i, mode, st
<1>6. r.state \in TelnetStates /\ r.out \in Seq(Outputs)
  <2>1. CASE mode = "cmTelnet"
    BY <1>3, <1>4, <2>1, UnwrapType DEF Results
  <2>2. CASE mode # "cmTelnet"
    BY <1>3, <1>4, <2>2, RawType
  <2> QED BY <2>1, <2>2
<1> HIDE DEF r
<1>7. SlotFields'
  BY <1>1, <1>2, <1>5, <1>6, TypeParts DEF SlotFields
<1>8. Received'
  <2>1. uart[c] \in Seq(Outputs) /\ heard[c] \in Seq(Packets)
    BY DEF TypeOK
  <2>2. uart[c] \o r.out \in Seq(Outputs) /\ Append(heard[c], packet) \in Seq(Packets)
    BY <1>6, <2>1, ConcatProperties, AppendProperties
  <2>3. uart' \in [Conns -> Seq(Outputs)] /\ heard' \in [Conns -> Seq(Packets)]
    BY <1>2, <2>2 DEF TypeOK
  <2> QED BY <2>3 DEF Received
<1>9. Buffers' /\ Sending' /\ Counted' /\ Stacked'
  BY <1>2, TypeParts DEF Buffers, Sending, Counted, Stacked
<1>10. TypeOK' <=> (SlotFields /\ Buffers /\ Sending /\ Received /\ Counted /\ Stacked)'
  BY TypeParts, PTL
<1> QED BY <1>7, <1>8, <1>9, <1>10

LEMMA NextType ==
  ASSUME PoolInv, TypeOK, [Next]_vars
  PROVE  TypeOK'
<1>1. ASSUME UNCHANGED vars PROVE TypeOK'
  BY <1>1 DEF TypeOK, vars, pool, history
<1>2. ASSUME NEW c \in Conns, Stack(c) PROVE TypeOK'
  <2>1. CASE serbridgeConnectCb(c)
    BY <2>1, ConnectType
  <2>2. CASE serbridgeConnectCbOverflow(c)
    BY <1>1, <2>2 DEF serbridgeConnectCbOverflow
  <2>3. CASE PeerEnds(c)
    BY <2>3, PeerEndsType
  <2>4. CASE serbridgeDisconCb(c) \/ serbridgeReconCb(c)
    BY <2>4, CloseType DEF serbridgeDisconCb, serbridgeReconCb
  <2>5. CASE serbridgeSentCb(c)
    BY <2>5, SentType
  <2>6. ASSUME NEW packet \in Packets, serbridgeRecvCb(c, packet) PROVE TypeOK'
    BY <2>6, RecvType
  <2> QED BY <1>2, <2>1, <2>2, <2>3, <2>4, <2>5, <2>6 DEF Stack
<1>3. ASSUME NEW len \in Lens, serbridgeUartCb(len) PROVE TypeOK'
  BY <1>3, UartType
<1> QED BY <1>1, <1>2, <1>3 DEF Next

\* The variables have their types; no transmit buffer holds more than
\* MAX_TXBUFFER bytes (serbridge.c:196-215).
THEOREM BridgeTypes == Spec => []TypeOK
<1>1. Init => TypeOK
  BY InitType
<1>2. PoolInv /\ TypeOK /\ [Next]_vars => TypeOK'
  BY NextType
<1> QED BY <1>1, <1>2, PoolInvariant, PTL DEF Spec

-----------------------------------------------------------------------------
(***************************************************************************)
(* What is sent to a connection.                                           *)
(***************************************************************************)
\* What connection c has been given of the telegrams, telegram by telegram.
Pieces(c) == [m \in 1 .. Len(msgs) |->
                 IF m \in Accepted(c) THEN Telegram(m, msgs[m]) ELSE <<>>]

Exact(c) == Stream(c) = FlattenSeq(Pieces(c))

\* Nothing has been sent to, and no telegram held against, a connection that is
\* not there: a new one starts from nothing.
FreeIsClean == \A c \in Conns : link[c] = "free" => out[c] = <<>> /\ drops[c] = {}

StreamInv == FreeIsClean /\ BroadcastExact

AllExact == \A c \in Conns : link[c] = "open" /\ c \notin failed => Exact(c)

LEMMA ExactMeans == BroadcastExact <=> AllExact
  BY DEF BroadcastExact, AllExact, Exact, Pieces

LEMMA InitStream == Init => StreamInv
  BY DEF Init, StreamInv, FreeIsClean, BroadcastExact

\* What waits between a connection's stream and the outside.
Waiting(c) == IF flight[c] = NULL THEN <<>> ELSE flight[c]

LEMMA StreamParts ==
  ASSUME PoolInv, TypeOK, NEW c \in Conns, link[c] # "free"
  PROVE  /\ out[c] \in Seq(Byte) /\ Waiting(c) \in Seq(Byte)
         /\ reverse[c] \in Slots /\ txbuffer[reverse[c]] \in Seq(Byte)
         /\ Stream(c) = Cat(Cat(out[c], Waiting(c)), txbuffer[reverse[c]])
         /\ Stream(c) \in Seq(Byte)
<1>1. reverse[c] \in Slots
  BY OwnSlot
<1>2. out[c] \in Seq(Byte) /\ txbuffer[reverse[c]] \in Seq(Byte)
  BY <1>1 DEF TypeOK
<1>3. Waiting(c) \in Seq(Byte)
  BY EmptySeq DEF TypeOK, Waiting
<1>4. Stream(c) = Cat(Cat(out[c], Waiting(c)), txbuffer[reverse[c]])
  BY DEF Stream, Cat, Waiting
<1>5. Stream(c) \in Seq(Byte)
  BY <1>2, <1>3, <1>4, CatFacts
<1> QED BY <1>1, <1>2, <1>3, <1>4, <1>5

LEMMA PiecesType ==
  ASSUME TypeOK, NEW c \in Conns
  PROVE  /\ Pieces(c) \in Seq(Seq(Byte)) /\ Len(Pieces(c)) = Len(msgs)
         /\ Len(msgs) \in Nat
         /\ \A m \in 1 .. Len(msgs) : msgs[m] \in Nat
<1>1. Len(msgs) \in Nat /\ \A m \in 1 .. Len(msgs) : msgs[m] \in Nat
  BY LenProperties, ElementOfSeq, BridgeAssumption DEF TypeOK
<1>2. <<>> \in Seq(Byte)
  BY EmptySeq
<1>3. ASSUME NEW m \in 1 .. Len(msgs) PROVE Telegram(m, msgs[m]) \in Seq(Byte)
  <2>1. m \in Nat /\ msgs[m] \in Nat
    BY <1>1
  <2> QED BY <2>1, TelegramType
<1> QED BY <1>1, <1>2, <1>3 DEF Pieces

\* A step that leaves alone what is kept of connection c.
LEMMA StreamKept ==
  ASSUME NEW c \in Conns, Exact(c), msgs' = msgs,
         out'[c] = out[c], flight'[c] = flight[c], reverse'[c] = reverse[c],
         txbuffer'[reverse[c]] = txbuffer[reverse[c]],
         since'[c] = since[c], drops'[c] = drops[c]
  PROVE  Exact(c)'
<1>1. Stream(c)' = Stream(c)
  BY DEF Stream
<1>2. Pieces(c)' = Pieces(c)
  BY DEF Pieces, Accepted
<1> QED BY <1>1, <1>2 DEF Exact

LEMMA ConnectStream ==
  ASSUME PoolInv, TypeOK, StreamInv, TypeOK', NEW c \in Conns, serbridgeConnectCb(c)
  PROVE  StreamInv'
<1>1. PICK i \in Slots : /\ conn[i] = NULL
                         /\ reverse' = [reverse EXCEPT ![c] = i]
                         /\ txbuffer' = [txbuffer EXCEPT ![i] = <<>>]
  BY DEF serbridgeConnectCb, FreeSlots, Prepared
<1>2. /\ link' = [link EXCEPT ![c] = "open"] /\ link[c] = "free"
      /\ since' = [since EXCEPT ![c] = Len(msgs)]
      /\ UNCHANGED <<flight, out, msgs, drops, failed>>
  BY DEF serbridgeConnectCb
<1>3. FreeIsClean'
  BY <1>2 DEF StreamInv, FreeIsClean, TypeOK
<1>4. ASSUME NEW d \in Conns, link'[d] = "open", d \notin failed'
      PROVE  Exact(d)'
  <2>1. CASE d = c
    <3>1. /\ out'[c] = <<>> /\ flight'[c] = NULL /\ reverse'[c] = i
          /\ txbuffer'[i] = <<>> /\ since'[c] = Len(msgs) /\ drops'[c] = {}
      BY <1>1, <1>2 DEF StreamInv, FreeIsClean, PoolInv, FreeIsIdle, TypeOK
    <3>2. Stream(c)' = <<>>
      BY <3>1 DEF Stream
    <3>3. Pieces(c)' \in Seq(Seq(Byte)) /\ Len(Pieces(c)') = Len(msgs) /\ Len(msgs) \in Nat
      <4>1. (Pieces(c) \in Seq(Seq(Byte)) /\ Len(Pieces(c)) = Len(msgs) /\ Len(msgs) \in Nat)'
        BY PiecesType, PTL
      <4> QED BY <1>2, <4>1
    <3>4. \A m \in 1 .. Len(msgs) : m \notin Accepted(c)'
      BY <1>2, <3>1, <3>3 DEF Accepted
    <3>5. \A m \in 1 .. Len(msgs) : Pieces(c)'[m] = <<>>
      BY <1>2, <3>4 DEF Pieces
    <3>6. FlattenSeq(Pieces(c)') = <<>>
      BY <3>3, <3>5, FlattenNothing
    <3> QED BY <2>1, <3>2, <3>6 DEF Exact
  <2>2. CASE d # c
    <3>1. link[d] = "open" /\ d \notin failed
      BY <1>2, <2>2, <1>4 DEF TypeOK
    <3>2. Exact(d)
      BY <3>1, ExactMeans DEF StreamInv, AllExact
    <3>3. reverse[d] \in Slots /\ conn[reverse[d]] = d
      BY <3>1, OwnSlot
    <3>4. reverse[d] # i
      BY <1>1, <3>3, NullIsNoSlot
    <3>5. /\ reverse'[d] = reverse[d] /\ since'[d] = since[d]
          /\ txbuffer'[reverse[d]] = txbuffer[reverse[d]]
      BY <1>1, <1>2, <2>2, <3>3, <3>4 DEF TypeOK
    <3> QED BY <1>2, <3>2, <3>5, StreamKept
  <2> QED BY <2>1, <2>2
<1>5. BroadcastExact' <=> AllExact'
  BY ExactMeans, PTL
<1> QED BY <1>3, <1>4, <1>5 DEF StreamInv, AllExact

\* A step that takes nothing but connections away.
LEMMA LessStream ==
  ASSUME PoolInv, TypeOK, StreamInv, NEW c \in Conns,
         \A d \in Conns : d # c =>
            /\ link'[d] = link[d] /\ reverse'[d] = reverse[d]
            /\ flight'[d] = flight[d] /\ out'[d] = out[d]
            /\ since'[d] = since[d] /\ drops'[d] = drops[d]
            /\ d \in failed => d \in failed',
         txbuffer' = txbuffer, msgs' = msgs, link'[c] # "open",
         link'[c] = "free" => out'[c] = <<>> /\ drops'[c] = {}
  PROVE  StreamInv'
<1>1. FreeIsClean'
  BY DEF StreamInv, FreeIsClean
<1>2. ASSUME NEW d \in Conns, link'[d] = "open", d \notin failed'
      PROVE  Exact(d)'
  <2>1. d # c /\ link[d] = "open" /\ d \notin failed
    BY <1>2
  <2>2. Exact(d)
    BY <2>1, ExactMeans DEF StreamInv, AllExact
  <2> QED BY <2>1, <2>2, StreamKept
<1>3. BroadcastExact' <=> AllExact'
  BY ExactMeans, PTL
<1> QED BY <1>1, <1>2, <1>3 DEF StreamInv, AllExact

LEMMA EndStream ==
  ASSUME PoolInv, TypeOK, StreamInv, NEW c \in Conns,
         \/ PeerEnds(c)
         \/ serbridgeDisconCb(c)
         \/ serbridgeReconCb(c)
  PROVE  StreamInv'
<1>1. CASE PeerEnds(c)
  <2>1. PICK l \in {"closing", "broken"} : link' = [link EXCEPT ![c] = l]
    BY <1>1 DEF PeerEnds
  <2>2. UNCHANGED <<reverse, flight, out, txbuffer, since, drops, failed, msgs>>
    BY <1>1 DEF PeerEnds, pool, history
  <2>3. link'[c] \notin {"open", "free"} /\ \A d \in Conns : d # c => link'[d] = link[d]
    BY <2>1 DEF TypeOK
  <2> QED BY <2>2, <2>3, LessStream
<1>2. CASE serbridgeDisconCb(c) \/ serbridgeReconCb(c)
  <2>1. FreeSlotOf(c) /\ Forget(c)
    BY <1>2 DEF serbridgeDisconCb, serbridgeReconCb
  <2>2. /\ link' = [link EXCEPT ![c] = "free"]
        /\ reverse' = [reverse EXCEPT ![c] = NULL]
        /\ flight' = [flight EXCEPT ![c] = NULL]
        /\ out' = [out EXCEPT ![c] = <<>>]
        /\ since' = [since EXCEPT ![c] = 0]
        /\ drops' = [drops EXCEPT ![c] = {}]
        /\ failed' = failed \ {c} /\ txbuffer' = txbuffer /\ msgs' = msgs
    BY <2>1 DEF Forget, FreeSlotOf
  <2>3. \A d \in Conns : d # c =>
          /\ link'[d] = link[d] /\ reverse'[d] = reverse[d]
          /\ flight'[d] = flight[d] /\ out'[d] = out[d]
          /\ since'[d] = since[d] /\ drops'[d] = drops[d]
          /\ d \in failed => d \in failed'
    BY <2>2 DEF TypeOK, PoolInv, SlotTypes
  <2>4. link'[c] = "free" /\ out'[c] = <<>> /\ drops'[c] = {}
    BY <2>2 DEF TypeOK
  <2> QED BY <2>2, <2>3, <2>4, LessStream
<1> QED BY <1>1, <1>2

\* The telegrams of an open connection once one more has come.
LEMMA PiecesOneMore ==
  ASSUME TypeOK, TypeOK', NEW c \in Conns, NEW len \in Nat, msgs' = Append(msgs, len),
         since' = since,
         NEW full \in BOOLEAN,
         drops'[c] = IF full THEN drops[c] \cup {Len(msgs) + 1} ELSE drops[c]
  PROVE  FlattenSeq(Pieces(c)') =
            Cat(FlattenSeq(Pieces(c)),
                IF full THEN <<>> ELSE Telegram(Len(msgs) + 1, len))
<1> DEFINE n == Len(msgs)
<1>1. /\ Pieces(c) \in Seq(Seq(Byte)) /\ Len(Pieces(c)) = n
      /\ n \in Nat
  BY PiecesType
<1>2. msgs' \in Seq(Lens) /\ Len(msgs') = n + 1 /\ msgs'[n + 1] = len
      /\ \A m \in 1 .. n : msgs'[m] = msgs[m]
  BY AppendProperties DEF TypeOK
<1>3. Pieces(c)' \in Seq(Seq(Byte)) /\ Len(Pieces(c)') = n + 1
  <2>1. (Pieces(c) \in Seq(Seq(Byte)) /\ Len(Pieces(c)) = Len(msgs))'
    BY PiecesType, PTL
  <2> QED BY <1>2, <2>1
<1>4. since[c] \in 0 .. n /\ drops[c] \subseteq 1 .. n
  BY DEF TypeOK
<1>5. Accepted(c)' = (since[c] + 1 .. n + 1) \ drops'[c]
  BY <1>2 DEF Accepted
<1>6. Accepted(c) = (since[c] + 1 .. n) \ drops[c]
  BY DEF Accepted
<1>7. Pieces(c)' = [m \in 1 .. n + 1 |->
                 IF m \in Accepted(c)' THEN Telegram(m, msgs'[m]) ELSE <<>>]
  BY <1>2 DEF Pieces
<1>8. Pieces(c) = [m \in 1 .. n |->
                 IF m \in Accepted(c) THEN Telegram(m, msgs[m]) ELSE <<>>]
  BY DEF Pieces
<1> HIDE DEF n
<1>9. \A m \in 1 .. n : m \in Accepted(c)' <=> m \in Accepted(c)
  BY <1>1, <1>4, <1>5, <1>6 DEF n
<1>10. n + 1 \in Accepted(c)' <=> ~full
  BY <1>1, <1>4, <1>5 DEF n
<1>11. \A m \in 1 .. n : Pieces(c)'[m] = Pieces(c)[m]
  BY <1>1, <1>2, <1>7, <1>8, <1>9
<1>12. Pieces(c)'[n + 1] = IF full THEN <<>> ELSE Telegram(n + 1, len)
  BY <1>1, <1>2, <1>7, <1>10
<1>13. FlattenSeq(Pieces(c)') = Cat(FlattenSeq(Pieces(c)), Pieces(c)'[n + 1])
  BY <1>1, <1>3, <1>11, FlattenOneMore
<1> QED BY <1>12, <1>13 DEF n

LEMMA UartStream ==
  ASSUME PoolInv, TypeOK, StreamInv, TypeOK', PoolInv', NEW len \in Lens,
         serbridgeUartCb(len)
  PROVE  StreamInv'
<1> DEFINE data == Telegram(Len(msgs) + 1, len)
           added == {i \in Receivers : Room(i, len)}
           sent == ReadySlots(added)
<1>1. /\ msgs' = Append(msgs, len)
      /\ txbuffer' = [i \in Slots |->
           CASE i \in sent -> <<>>
             [] i \in added \ sent -> Cat(txbuffer[i], data)
             [] OTHER -> txbuffer[i]]
      /\ drops' = [c \in Conns |->
           IF \E i \in Receivers \ added : conn[i] = c
           THEN drops[c] \cup {Len(msgs) + 1} ELSE drops[c]]
      /\ UNCHANGED <<link, reverse, out, conn, since>>
  BY DEF serbridgeUartCb, Cat
<1>2. PICK refused \in Refusals(sent) :
        /\ failed' = failed \cup {conn[i] : i \in refused}
        /\ flight' = [c \in Conns |->
               IF \E i \in sent \ refused : conn[i] = c
               THEN Cat(txbuffer[CHOOSE j \in sent \ refused : conn[j] = c], data)
               ELSE flight[c]]
  BY DEF serbridgeUartCb, Cat
<1>3. /\ sent \subseteq added /\ added \subseteq Receivers /\ Receivers \subseteq Slots
      /\ refused \subseteq sent
      /\ \A i \in sent : readytosend[i]
      /\ \A i \in added : i \notin sent => ~readytosend[i]
  BY DEF ReadySlots, Receivers, Refusals
<1>4. data \in Seq(Byte) /\ len \in Nat /\ Len(msgs) \in Nat
  BY TelegramType, LenProperties, BridgeAssumption DEF TypeOK
<1> HIDE DEF data, added, sent
<1>5. FreeIsClean'
  <2>1. \A i \in Receivers : link[conn[i]] # "free"
    BY DEF Receivers, PoolInv, SlotOwnership, Live
  <2> QED BY <1>1, <1>3, <2>1 DEF StreamInv, FreeIsClean
<1>6. ASSUME NEW c \in Conns, link'[c] = "open", c \notin failed'
      PROVE  Exact(c)'
  <2> DEFINE i == reverse[c]
  <2>1. link[c] = "open" /\ c \notin failed /\ Exact(c)
    BY <1>1, <1>2, <1>6, ExactMeans DEF StreamInv, AllExact
  <2>2. i \in Slots /\ conn[i] = c
    BY <2>1, OwnSlot
  <2>3. \A j \in Slots : conn[j] = c => j = i
    BY NullIsNoSlot DEF PoolInv, SlotOwnership
  <2>4. i \in Receivers
    BY <2>2, NullIsNoSlot DEF Receivers, TypeOK, Modes
  <2>5. /\ out[c] \in Seq(Byte) /\ Waiting(c) \in Seq(Byte) /\ txbuffer[i] \in Seq(Byte)
        /\ Stream(c) = Cat(Cat(out[c], Waiting(c)), txbuffer[i])
        /\ Stream(c) \in Seq(Byte)
    BY <2>1, StreamParts
  <2>6. Stream(c)' = Cat(Cat(out[c], Waiting(c)'), txbuffer'[i])
    BY <1>1 DEF Stream, Cat, Waiting
  <2>7. Stream(c) = FlattenSeq(Pieces(c))
    BY <2>1 DEF Exact
  <2> HIDE DEF i
  <2>8. CASE i \notin added
    <3>1. (\E j \in Receivers \ added : conn[j] = c)
      BY <2>2, <2>4, <2>8
    <3>2. drops'[c] = drops[c] \cup {Len(msgs) + 1}
      BY <1>1, <3>1
    <3>3. FlattenSeq(Pieces(c)') = Cat(FlattenSeq(Pieces(c)), <<>>)
      BY <1>1, <1>4, <3>2, PiecesOneMore
    <3>4. txbuffer'[i] = txbuffer[i]
      BY <1>1, <1>3, <2>2, <2>8
    <3>5. ~\E j \in sent \ refused : conn[j] = c
      BY <1>3, <2>3, <2>8
    <3>6. flight'[c] = flight[c]
      BY <1>2, <3>5
    <3>7. Stream(c)' = Stream(c)
      BY <2>5, <2>6, <3>4, <3>6 DEF Waiting
    <3>8. Cat(Stream(c), <<>>) = Stream(c)
      BY <2>5, CatFacts
    <3> QED BY <2>7, <3>3, <3>7, <3>8 DEF Exact
  <2>9. CASE i \in added
    <3>1. ~\E j \in Receivers \ added : conn[j] = c
      BY <1>3, <2>3, <2>9
    <3>2. drops'[c] = drops[c]
      BY <1>1, <3>1
    <3>3. FlattenSeq(Pieces(c)') = Cat(FlattenSeq(Pieces(c)), data)
      BY <1>1, <1>4, <3>2, PiecesOneMore DEF data
    <3>4. CASE i \notin sent
      <4>1. txbuffer'[i] = Cat(txbuffer[i], data)
        BY <1>1, <2>2, <2>9, <3>4
      <4>2. ~\E j \in sent \ refused : conn[j] = c
        BY <1>3, <2>3, <3>4
      <4>3. Waiting(c)' = Waiting(c)
        BY <1>2, <4>2 DEF Waiting
      <4>4. Cat(out[c], Waiting(c)) \in Seq(Byte)
        BY <2>5, CatFacts
      <4>5. Stream(c)' = Cat(Stream(c), data)
        BY <1>4, <2>5, <2>6, <4>1, <4>3, <4>4, CatAssociative
      <4> QED BY <2>7, <3>3, <4>5 DEF Exact
    <3>5. CASE i \in sent
      <4>1. i \notin refused
        BY <1>2, <1>6, <2>2
      <4>2. (CHOOSE j \in sent \ refused : conn[j] = c) = i
        BY <1>3, <2>2, <2>3, <3>5, <4>1
      <4>3. flight'[c] = Cat(txbuffer[i], data)
        BY <1>2, <2>2, <3>5, <4>1, <4>2
      <4>4. Cat(txbuffer[i], data) \in Seq(Byte)
        BY <1>4, <2>5, CatFacts
      <4>5. Waiting(c)' = Cat(txbuffer[i], data)
        BY <4>3, <4>4, FlightAssumption DEF Waiting
      <4>6. txbuffer'[i] = <<>>
        BY <1>1, <2>2, <3>5
      <4>7. flight[c] = NULL
        BY <1>3, <2>2, <3>5, NullIsNoSlot DEF PoolInv, ReadyMeansIdle
      <4>8. Waiting(c) = <<>>
        BY <4>7 DEF Waiting
      <4>9. Cat(out[c], <<>>) = out[c]
        BY <2>5, CatFacts
      <4>10. Stream(c) = Cat(out[c], txbuffer[i])
        BY <2>5, <4>8, <4>9
      <4>11. Cat(out[c], Cat(txbuffer[i], data)) \in Seq(Byte)
        BY <2>5, <4>4, CatFacts
      <4>12. Stream(c)' = Cat(out[c], Cat(txbuffer[i], data))
        BY <2>6, <4>5, <4>6, <4>11, CatFacts
      <4>13. Stream(c)' = Cat(Stream(c), data)
        BY <1>4, <2>5, <4>10, <4>12, CatAssociative
      <4> QED BY <2>7, <3>3, <4>13 DEF Exact
    <3> QED BY <3>4, <3>5
  <2> QED BY <2>8, <2>9
<1>7. BroadcastExact' <=> AllExact'
  BY ExactMeans, PTL
<1> QED BY <1>5, <1>6, <1>7 DEF StreamInv, AllExact

LEMMA SentStream ==
  ASSUME PoolInv, TypeOK, StreamInv, NEW c \in Conns, serbridgeSentCb(c)
  PROVE  StreamInv'
<1> DEFINE i == reverse[c]
           more == MoreToSend(i)
<1>1. link[c] # "free" /\ flight[c] # NULL
  BY DEF serbridgeSentCb
<1>2. i \in Slots /\ conn[i] = c
  BY <1>1, OwnSlot
<1>3. PICK refused \in Refusals(more) :
          /\ failed' = failed \cup {conn[j] : j \in refused}
          /\ flight' = [d \in Conns |->
               IF more \ refused # {} /\ conn[i] = d THEN txbuffer[i]
               ELSE IF c = d THEN NULL ELSE flight[d]]
  BY DEF serbridgeSentCb
<1>4. /\ out' = [out EXCEPT ![c] = Cat(out[c], flight[c])]
      /\ txbuffer' = [txbuffer EXCEPT ![i] = IF more = {} THEN txbuffer[i] ELSE <<>>]
      /\ UNCHANGED <<link, reverse, conn, msgs, since, drops>>
  BY DEF serbridgeSentCb, Cat
<1>5. more = IF txbuffer[i] = <<>> THEN {} ELSE {i}
  BY DEF MoreToSend
<1>6. refused \subseteq more
  BY DEF Refusals
<1> HIDE DEF i, more
<1>7. FreeIsClean'
  BY <1>1, <1>4 DEF StreamInv, FreeIsClean, TypeOK
<1>8. ASSUME NEW d \in Conns, link'[d] = "open", d \notin failed'
      PROVE  Exact(d)'
  <2>1. link[d] = "open" /\ d \notin failed /\ Exact(d)
    BY <1>3, <1>4, <1>8, ExactMeans DEF StreamInv, AllExact
  <2>2. CASE d # c
    <3>1. reverse[d] \in Slots /\ reverse[d] # i
      BY <1>2, <2>1, <2>2, OwnSlot
    <3>2. out'[d] = out[d] /\ flight'[d] = flight[d]
      BY <1>2, <1>3, <1>4, <2>2 DEF TypeOK
    <3>3. txbuffer'[reverse[d]] = txbuffer[reverse[d]]
      BY <1>4, <3>1 DEF TypeOK
    <3> QED BY <1>4, <2>1, <3>2, <3>3, StreamKept
  <2>3. CASE d = c
    <3>1. /\ out[c] \in Seq(Byte) /\ Waiting(c) \in Seq(Byte) /\ txbuffer[i] \in Seq(Byte)
          /\ Stream(c) = Cat(Cat(out[c], Waiting(c)), txbuffer[i])
          /\ Waiting(c) = flight[c]
      BY <1>1, StreamParts DEF i, Waiting
    <3> DEFINE done == Cat(out[c], flight[c])
    <3>2. done \in Seq(Byte) /\ Cat(done, <<>>) = done
      BY <3>1, CatFacts
    <3>3. Stream(c) = Cat(done, txbuffer[i])
      BY <3>1
    <3>4. out'[c] = done
      BY <1>4 DEF TypeOK
    <3> HIDE DEF done
    <3>5. Stream(c)' = Cat(Cat(done, Waiting(c)'), txbuffer'[i])
      BY <1>4, <3>4 DEF Stream, Cat, Waiting, i
    <3>6. Stream(c)' = Stream(c)
      <4>1. CASE txbuffer[i] = <<>>
        <5>1. more = {} /\ flight'[c] = NULL /\ txbuffer'[i] = <<>>
          BY <1>2, <1>3, <1>4, <1>5, <4>1 DEF TypeOK
        <5>2. Waiting(c)' = <<>>
          BY <5>1 DEF Waiting
        <5> QED BY <3>2, <3>3, <3>5, <4>1, <5>1, <5>2
      <4>2. CASE txbuffer[i] # <<>>
        <5>1. i \notin refused
          BY <1>2, <1>3, <1>8, <2>3
        <5>2. more \ refused # {} /\ more # {}
          BY <1>5, <4>2, <5>1
        <5>3. flight'[c] = txbuffer[i]
          BY <1>2, <1>3, <5>2
        <5>4. txbuffer'[i] = <<>>
          BY <1>2, <1>4, <5>2 DEF TypeOK
        <5>5. Waiting(c)' = txbuffer[i]
          BY <3>1, <5>3, FlightAssumption DEF Waiting
        <5>6. Cat(done, txbuffer[i]) \in Seq(Byte)
          BY <3>1, <3>2, CatFacts
        <5> QED BY <3>3, <3>5, <5>4, <5>5, <5>6, CatFacts
      <4> QED BY <4>1, <4>2
    <3>7. Pieces(c)' = Pieces(c)
      BY <1>4 DEF Pieces, Accepted
    <3> QED BY <2>1, <2>3, <3>6, <3>7 DEF Exact
  <2> QED BY <2>2, <2>3
<1>9. BroadcastExact' <=> AllExact'
  BY ExactMeans, PTL
<1> QED BY <1>7, <1>8, <1>9 DEF StreamInv, AllExact

LEMMA StreamUntouched ==
  ASSUME StreamInv,
         UNCHANGED <<link, reverse, flight, out, txbuffer, msgs, since, drops, failed>>
  PROVE  StreamInv'
  BY DEF StreamInv, FreeIsClean, BroadcastExact, Stream, Accepted

LEMMA NextStream ==
  ASSUME PoolInv, TypeOK, StreamInv, [Next]_vars
  PROVE  StreamInv'
<1>1. PoolInv' /\ TypeOK'
  BY NextPoolInv, NextType
<1>2. ASSUME UNCHANGED vars PROVE StreamInv'
  BY <1>2, StreamUntouched DEF vars, pool, history
<1>3. ASSUME NEW c \in Conns, Stack(c) PROVE StreamInv'
  <2>1. CASE serbridgeConnectCb(c)
    BY <1>1, <2>1, ConnectStream
  <2>2. CASE serbridgeConnectCbOverflow(c)
    BY <1>2, <2>2 DEF serbridgeConnectCbOverflow
  <2>3. CASE PeerEnds(c) \/ serbridgeDisconCb(c) \/ serbridgeReconCb(c)
    BY <2>3, EndStream
  <2>4. CASE serbridgeSentCb(c)
    BY <2>4, SentStream
  <2>5. ASSUME NEW packet \in Packets, serbridgeRecvCb(c, packet) PROVE StreamInv'
    BY <2>5, StreamUntouched DEF serbridgeRecvCb
  <2> QED BY <1>3, <2>1, <2>2, <2>3, <2>4, <2>5 DEF Stack
<1>4. ASSUME NEW len \in Lens, serbridgeUartCb(len) PROVE StreamInv'
  BY <1>1, <1>4, UartStream
<1> QED BY <1>2, <1>3, <1>4 DEF Next

\* serbridge.c:174-264: an open connection is sent exactly the telegrams that
\* came since it opened and found room, each whole, once and in order, until
\* espconn_sent refuses it a buffer.
THEOREM TelegramsAreBroadcast == Spec => []BroadcastExact
<1>1. Init => TypeOK /\ StreamInv
  BY InitType, InitStream
<1>2. PoolInv /\ (TypeOK /\ StreamInv) /\ [Next]_vars => (TypeOK /\ StreamInv)'
  BY NextType, NextStream
<1>3. TypeOK /\ StreamInv => BroadcastExact
  BY DEF StreamInv
<1> QED BY <1>1, <1>2, <1>3, PoolInvariant, PTL DEF Spec

-----------------------------------------------------------------------------
(***************************************************************************)
(* What is received from a connection.                                     *)
(***************************************************************************)
\* The mode of a slot whose owner has sent these packets.
ModeOf(packets) ==
    IF packets = <<>> THEN "cmInit"
    ELSE IF StartsTelnet(packets[1]) THEN "cmTelnet" ELSE "cmTransparent"

\* What these packets turn into, by that mode.
DecodedAs(packets) ==
    IF packets = <<>> THEN <<>>
    ELSE IF ModeOf(packets) = "cmTelnet"
         THEN Unwrap(FlattenSeq(packets), "normal").out
         ELSE Raw(FlattenSeq(packets))

\* A slot remembers of its owner's packets what decoding the next one needs.
Remembers(c) ==
    /\ conn_mode[reverse[c]] = ModeOf(heard[c])
    /\ ModeOf(heard[c]) = "cmTelnet" =>
         telnet_state[reverse[c]] = Unwrap(FlattenSeq(heard[c]), "normal").state

AllDecoded == \A c \in Conns : uart[c] = DecodedAs(heard[c])

\* A connection whose first packet is a negotiation begins with one.
BeginsWithFirst ==
    \A c \in Conns : ModeOf(heard[c]) = "cmTelnet" => StartsTelnet(FlattenSeq(heard[c]))

ReceivedInv ==
    /\ \A c \in Conns : link[c] # "free" => Remembers(c)
    /\ \A c \in Conns : link[c] = "free" => heard[c] = <<>>
    /\ AllDecoded /\ BeginsWithFirst

LEMMA InitReceived == Init => ReceivedInv
  BY DEF Init, ReceivedInv, AllDecoded, BeginsWithFirst, DecodedAs, ModeOf

LEMMA HeardUntouched ==
  ASSUME AllDecoded, BeginsWithFirst, UNCHANGED <<uart, heard>>
  PROVE  AllDecoded' /\ BeginsWithFirst'
  BY DEF AllDecoded, BeginsWithFirst, DecodedAs, ModeOf

\* More bytes do not change how a client began.
LEMMA StillTelnet ==
  ASSUME NEW a \in Seq(Chars), NEW b \in Seq(Chars), StartsTelnet(a)
  PROVE  StartsTelnet(a \o b)
<1> DEFINE t == <<IAC, WILL, ComPortOpt>>
<1>1. Len(t) = 3 /\ 3 <= Len(a) /\ SubSeq(t, 1, 3) = SubSeq(a, 1, 3)
  BY DEF StartsTelnet, IsPrefix
<1>2. /\ a \o b \in Seq(Chars) /\ Len(a \o b) = Len(a) + Len(b)
      /\ \A k \in 1 .. Len(a) + Len(b) : (a \o b)[k] = IF k <= Len(a) THEN a[k] ELSE b[k - Len(a)]
      /\ Len(a) \in Nat /\ Len(b) \in Nat
  BY ConcatProperties, LenProperties
<1>3. SubSeq(a \o b, 1, 3) = SubSeq(a, 1, 3)
  <2>1. SubSeq(a, 1, 3) = [k \in 1 .. 3 |-> a[k]] /\ SubSeq(a \o b, 1, 3) = [k \in 1 .. 3 |-> (a \o b)[k]]
    BY <1>1, <1>2
  <2>2. \A k \in 1 .. 3 : (a \o b)[k] = a[k]
    BY <1>1, <1>2
  <2> QED BY <2>1, <2>2
<1>4. 3 <= Len(a \o b)
  BY <1>1, <1>2
<1> QED BY <1>1, <1>3, <1>4 DEF StartsTelnet, IsPrefix

LEMMA RawConcat ==
  ASSUME NEW a \in Seq(Chars), NEW b \in Seq(Chars)
  PROVE  Raw(a \o b) = Raw(a) \o Raw(b)
<1> DEFINE m == Len(a)
           n == Len(b)
<1>1. m \in Nat /\ n \in Nat
  BY LenProperties
<1>2. /\ a \o b \in Seq(Chars) /\ Len(a \o b) = m + n
      /\ \A k \in 1 .. m + n : (a \o b)[k] = IF k <= m THEN a[k] ELSE b[k - m]
  BY ConcatProperties
<1>3. /\ Raw(a) \in Seq(Outputs) /\ Len(Raw(a)) = m
      /\ Raw(b) \in Seq(Outputs) /\ Len(Raw(b)) = n
      /\ Raw(a \o b) \in Seq(Outputs) /\ Len(Raw(a \o b)) = m + n
  BY <1>2, RawType
<1>4. /\ Raw(a) \o Raw(b) \in Seq(Outputs) /\ Len(Raw(a) \o Raw(b)) = m + n
      /\ \A k \in 1 .. m + n :
           (Raw(a) \o Raw(b))[k] = IF k <= m THEN Raw(a)[k] ELSE Raw(b)[k - m]
  BY <1>3, ConcatProperties
<1>5. \A s \in Seq(Chars) : \A k \in 1 .. Len(s) : Raw(s)[k] = Uart(s[k])
  BY LenProperties DEF Raw
<1> HIDE DEF m, n
<1>6. ASSUME NEW k \in 1 .. m + n
      PROVE  Raw(a \o b)[k] = (Raw(a) \o Raw(b))[k]
  <2>1. Raw(a \o b)[k] = Uart((a \o b)[k])
    BY <1>2, <1>5
  <2>2. CASE k <= m
    <3>1. k \in 1 .. m /\ (a \o b)[k] = a[k] /\ (Raw(a) \o Raw(b))[k] = Raw(a)[k]
      BY <1>1, <1>2, <1>4, <2>2
    <3>2. Raw(a)[k] = Uart(a[k])
      BY <1>5, <3>1 DEF m
    <3> QED BY <2>1, <3>1, <3>2
  <2>3. CASE ~(k <= m)
    <3>1. /\ k - m \in 1 .. n /\ (a \o b)[k] = b[k - m]
          /\ (Raw(a) \o Raw(b))[k] = Raw(b)[k - m]
      BY <1>1, <1>2, <1>4, <2>3
    <3>2. Raw(b)[k - m] = Uart(b[k - m])
      BY <1>5, <3>1 DEF n
    <3> QED BY <2>1, <3>1, <3>2
  <2> QED BY <2>2, <2>3
<1> QED BY <1>3, <1>4, <1>6, SeqEqual

\* One packet more.
LEMMA PacketsOneMore ==
  ASSUME NEW packets \in Seq(Seq(Chars)), NEW packet \in Seq(Chars)
  PROVE  /\ FlattenSeq(packets) \in Seq(Chars)
         /\ FlattenSeq(Append(packets, packet)) = FlattenSeq(packets) \o packet
         /\ packets = <<>> => FlattenSeq(packets) = <<>>
         /\ Append(packets, packet) # <<>>
         /\ Append(packets, packet)[1] = IF packets = <<>> THEN packet ELSE packets[1]
<1> DEFINE q == Append(packets, packet)
<1>1. /\ q \in Seq(Seq(Chars)) /\ Len(q) = Len(packets) + 1 /\ Len(packets) \in Nat
      /\ \A k \in 1 .. Len(packets) : q[k] = packets[k]
      /\ q[Len(packets) + 1] = packet
  BY AppendProperties, LenProperties
<1> HIDE DEF q
<1>2. FlattenSeq(packets) \in Seq(Chars)
  BY FlattenType
<1>3. FlattenSeq(q) = Cat(FlattenSeq(packets), packet)
  BY <1>1, FlattenOneMore
<1>4. packets = <<>> => FlattenSeq(packets) = <<>>
  <2> SUFFICES ASSUME packets = <<>> PROVE FlattenSeq(packets) = <<>>
    OBVIOUS
  <2>1. \A k \in 1 .. Len(packets) : packets[k] = <<>>
    BY EmptySeq
  <2> QED BY <2>1, FlattenNothing
<1>5. q # <<>>
  BY <1>1, EmptySeq
<1>6. q[1] = IF packets = <<>> THEN packet ELSE packets[1]
  <2>1. CASE packets = <<>>
    BY <1>1, <2>1, EmptySeq
  <2>2. CASE packets # <<>>
    BY <1>1, <2>2, EmptySeq
  <2> QED BY <2>1, <2>2
<1> QED BY <1>2, <1>3, <1>4, <1>5, <1>6 DEF q, Cat

\* A packet of c touches what is kept of c alone.
LEMMA RecvKeeps ==
  ASSUME PoolInv, TypeOK, ReceivedInv, NEW c \in Conns, link[c] # "free",
         NEW mode, NEW state, NEW output, NEW next,
         conn_mode' = [conn_mode EXCEPT ![reverse[c]] = mode],
         telnet_state' = [telnet_state EXCEPT ![reverse[c]] = state],
         uart' = [uart EXCEPT ![c] = output],
         heard' = [heard EXCEPT ![c] = next],
         UNCHANGED <<link, reverse>>,
         mode = ModeOf(next),
         mode = "cmTelnet" => /\ Unwrap(FlattenSeq(next), "normal").state = state
                              /\ StartsTelnet(FlattenSeq(next)),
         DecodedAs(next) = output
  PROVE  ReceivedInv'
<1>1. reverse[c] \in Slots
  BY OwnSlot
<1>2. ASSUME NEW d \in Conns, link[d] # "free" PROVE Remembers(d)'
  <2>1. CASE d = c
    <3>1. /\ conn_mode'[reverse[c]] = mode /\ telnet_state'[reverse[c]] = state
          /\ heard'[c] = next
      BY <1>1 DEF TypeOK
    <3> QED BY <2>1, <3>1 DEF Remembers
  <2>2. CASE d # c
    <3>1. reverse[d] \in Slots /\ reverse[d] # reverse[c]
      BY <1>2, <2>2, OwnSlot
    <3>2. /\ conn_mode'[reverse[d]] = conn_mode[reverse[d]]
          /\ telnet_state'[reverse[d]] = telnet_state[reverse[d]]
          /\ heard'[d] = heard[d]
      BY <2>2, <3>1 DEF TypeOK
    <3> QED BY <1>2, <3>2 DEF ReceivedInv, Remembers
  <2> QED BY <2>1, <2>2
<1>3. \A d \in Conns : link[d] = "free" => heard'[d] = <<>>
  BY DEF ReceivedInv, TypeOK
<1>4. AllDecoded' /\ BeginsWithFirst'
  <2>1. ASSUME NEW d \in Conns
        PROVE  /\ uart'[d] = DecodedAs(heard'[d])
               /\ ModeOf(heard'[d]) = "cmTelnet" => StartsTelnet(FlattenSeq(heard'[d]))
    <3>1. CASE d = c
      BY <3>1 DEF TypeOK
    <3>2. CASE d # c
      <4>1. uart'[d] = uart[d] /\ heard'[d] = heard[d]
        BY <3>2 DEF TypeOK
      <4> QED BY <4>1 DEF ReceivedInv, AllDecoded, BeginsWithFirst
    <3> QED BY <3>1, <3>2
  <2>2. \A d \in Conns : DecodedAs(heard'[d]) = DecodedAs(heard[d])'
    BY DEF DecodedAs, ModeOf
  <2>3. \A d \in Conns : ModeOf(heard'[d]) = ModeOf(heard[d])'
    BY DEF ModeOf
  <2> QED BY <2>1, <2>2, <2>3 DEF AllDecoded, BeginsWithFirst
<1> QED BY <1>2, <1>3, <1>4 DEF ReceivedInv

LEMMA RecvReceived ==
  ASSUME PoolInv, TypeOK, ReceivedInv, NEW c \in Conns, NEW packet \in Packets,
         serbridgeRecvCb(c, packet)
  PROVE  ReceivedInv'
<1> DEFINE i == reverse[c]
           h == heard[c]
           mode == ModeAfter(conn_mode[i], packet)
           st == IF conn_mode[i] = "cmInit" THEN "normal" ELSE telnet_state[i]
           r == IF mode = "cmTelnet" THEN Unwrap(packet, st)
                ELSE [state |-> telnet_state[i], out |-> Raw(packet)]
           all == FlattenSeq(h)
           next == Append(h, packet)
<1>1. i \in Slots /\ conn[i] = c /\ link[c] = "open"
  BY OwnSlot DEF serbridgeRecvCb
<1>2. /\ conn_mode' = [conn_mode EXCEPT ![i] = mode]
      /\ telnet_state' = [telnet_state EXCEPT ![i] = r.state]
      /\ uart' = [uart EXCEPT ![c] = uart[c] \o r.out]
      /\ heard' = [heard EXCEPT ![c] = next]
      /\ UNCHANGED <<link, reverse>>
  BY DEF serbridgeRecvCb
<1>3. packet \in Seq(Chars) /\ h \in Seq(Seq(Chars)) /\ h \in Seq(Packets)
  <2>1. h \in Seq(Packets) /\ Packets \subseteq Seq(Chars)
    BY BridgeAssumption DEF TypeOK
  <2> QED BY <2>1
<1>4. /\ all \in Seq(Chars) /\ FlattenSeq(next) = all \o packet
      /\ (h = <<>> => all = <<>>) /\ next # <<>>
      /\ next[1] = IF h = <<>> THEN packet ELSE h[1]
  BY <1>3, PacketsOneMore
<1>5. /\ conn_mode[i] = ModeOf(h)
      /\ ModeOf(h) = "cmTelnet" => telnet_state[i] = Unwrap(all, "normal").state
      /\ uart[c] = DecodedAs(h)
      /\ telnet_state[i] \in TelnetStates
      /\ ModeOf(h) = "cmTelnet" => StartsTelnet(all)
  BY <1>1 DEF ReceivedInv, Remembers, AllDecoded, BeginsWithFirst, TypeOK
<1> HIDE DEF i, h, all, next
<1>6. mode = ModeOf(next)
  BY <1>4, <1>5 DEF ModeOf, ModeAfter
<1>7. "normal" \in TelnetStates
  BY DEF TelnetStates
<1>8. CASE mode = "cmTelnet"
  <2>1. st = Unwrap(all, "normal").state /\ uart[c] = Unwrap(all, "normal").out
    <3>1. CASE h = <<>>
      <4>1. Unwrap(<<>>, "normal") = [state |-> "normal", out |-> <<>>]
        <5>1. <<>> \in Seq(Chars) /\ Len(<<>>) = 0
          BY EmptySeq
        <5>2. PICK g : IsUnwrap(g, <<>>, "normal") /\ Unwrap(<<>>, "normal") = g[Len(<<>>)]
          BY <1>7, <5>1, UnwrapIs
        <5> QED BY <5>1, <5>2 DEF IsUnwrap
      <4>2. conn_mode[i] = "cmInit" /\ uart[c] = <<>>
        BY <1>5, <3>1 DEF DecodedAs, ModeOf
      <4> QED BY <1>4, <3>1, <4>1, <4>2
    <3>2. CASE h # <<>>
      <4>1. conn_mode[i] # "cmInit"
        BY <1>5, <3>2 DEF ModeOf
      <4>2. conn_mode[i] = "cmTelnet"
        BY <1>8, <4>1 DEF ModeAfter
      <4>3. DecodedAs(h) = Unwrap(all, "normal").out
        BY <1>5, <3>2, <4>2 DEF DecodedAs, all
      <4> QED BY <1>5, <4>1, <4>2, <4>3
    <3> QED BY <3>1, <3>2
  <2> HIDE DEF mode, st
  <2>2. r = Unwrap(packet, st)
    BY <1>8
  <2> HIDE DEF r
  <2>3. Unwrap(all \o packet, "normal") = After(Unwrap(all, "normal").out, r)
    BY <1>3, <1>4, <1>7, <2>1, <2>2, UnwrapConcat
  <2>4. /\ Unwrap(all \o packet, "normal").out = uart[c] \o r.out
        /\ Unwrap(all \o packet, "normal").state = r.state
    <3> DEFINE whole == Unwrap(all \o packet, "normal")
    <3>1. whole = After(uart[c], r)
      BY <2>1, <2>3
    <3> HIDE DEF whole
    <3>2. whole.out = uart[c] \o r.out /\ whole.state = r.state
      BY <3>1 DEF After
    <3> QED BY <3>2 DEF whole
  <2>5. DecodedAs(next) = uart[c] \o r.out /\ Unwrap(FlattenSeq(next), "normal").state = r.state
    BY <1>4, <1>6, <1>8, <2>4 DEF DecodedAs
  <2>6. StartsTelnet(FlattenSeq(next))
    <3>1. CASE h = <<>>
      <4>1. StartsTelnet(packet) /\ all \o packet = packet
        BY <1>3, <1>4, <1>6, <1>8, <3>1 DEF ModeOf
      <4> QED BY <1>4, <4>1
    <3>2. CASE h # <<>>
      <4>1. StartsTelnet(all)
        BY <1>4, <1>5, <1>6, <1>8, <3>2 DEF ModeOf
      <4> QED BY <1>3, <1>4, <4>1, StillTelnet
    <3> QED BY <3>1, <3>2
  <2> QED
    BY <1>1, <1>2, <1>6, <1>8, <2>5, <2>6, RecvKeeps DEF i, h
<1>9. CASE mode # "cmTelnet"
  <2>1. uart[c] = Raw(all)
    <3>1. CASE h = <<>>
      <4>1. uart[c] = <<>>
        BY <1>5, <3>1 DEF DecodedAs
      <4>2. Raw(<<>>) = <<>>
        BY RawType, EmptySeq
      <4> QED BY <1>4, <3>1, <4>1, <4>2
    <3>2. CASE h # <<>>
      <4>1. ModeOf(h) # "cmTelnet"
        BY <1>5, <1>9, <3>2 DEF ModeOf, ModeAfter
      <4> QED BY <1>5, <3>2, <4>1 DEF DecodedAs, all
    <3> QED BY <3>1, <3>2
  <2> HIDE DEF mode, st
  <2>2. r.out = Raw(packet)
    BY <1>9
  <2> HIDE DEF r
  <2>3. Raw(all \o packet) = uart[c] \o r.out
    BY <1>3, <1>4, <2>1, <2>2, RawConcat
  <2>4. DecodedAs(next) = uart[c] \o r.out
    BY <1>4, <1>6, <1>9, <2>3 DEF DecodedAs
  <2> QED
    BY <1>1, <1>2, <1>6, <1>9, <2>4, RecvKeeps DEF i, h
<1> QED BY <1>8, <1>9

LEMMA ConnectReceived ==
  ASSUME PoolInv, TypeOK, ReceivedInv, NEW c \in Conns, serbridgeConnectCb(c)
  PROVE  ReceivedInv'
<1>1. PICK i \in Slots : /\ conn[i] = NULL
                         /\ reverse' = [reverse EXCEPT ![c] = i]
                         /\ telnet_state' = [telnet_state EXCEPT ![i] = "normal"]
                         /\ conn_mode' = [conn_mode EXCEPT ![i] = "cmInit"]
  BY DEF serbridgeConnectCb, FreeSlots, Prepared
<1>2. /\ link' = [link EXCEPT ![c] = "open"] /\ link[c] = "free"
      /\ UNCHANGED <<uart, heard>>
  BY DEF serbridgeConnectCb
<1>3. ASSUME NEW d \in Conns, link'[d] # "free" PROVE Remembers(d)'
  <2>1. CASE d = c
    <3>1. heard'[c] = <<>> /\ reverse'[c] = i /\ conn_mode'[i] = "cmInit"
      BY <1>1, <1>2 DEF ReceivedInv, TypeOK
    <3>2. ModeOf(<<>>) = "cmInit"
      BY DEF ModeOf
    <3> QED BY <2>1, <3>1, <3>2 DEF Remembers
  <2>2. CASE d # c
    <3>1. link[d] # "free"
      BY <1>2, <1>3, <2>2 DEF TypeOK
    <3>2. reverse[d] \in Slots /\ reverse[d] # i
      BY <1>1, <3>1, OwnSlot, NullIsNoSlot
    <3>3. /\ reverse'[d] = reverse[d] /\ conn_mode'[reverse[d]] = conn_mode[reverse[d]]
          /\ telnet_state'[reverse[d]] = telnet_state[reverse[d]]
      BY <1>1, <2>2, <3>2 DEF TypeOK
    <3> QED BY <1>2, <3>1, <3>3 DEF ReceivedInv, Remembers
  <2> QED BY <2>1, <2>2
<1>4. \A d \in Conns : link'[d] = "free" => heard'[d] = <<>>
  BY <1>2 DEF ReceivedInv, TypeOK
<1>5. AllDecoded' /\ BeginsWithFirst'
  BY <1>2, HeardUntouched DEF ReceivedInv
<1> QED BY <1>3, <1>4, <1>5 DEF ReceivedInv

LEMMA CloseReceived ==
  ASSUME PoolInv, TypeOK, ReceivedInv, NEW c \in Conns, FreeSlotOf(c), Forget(c)
  PROVE  ReceivedInv'
<1>1. /\ link' = [link EXCEPT ![c] = "free"]
      /\ reverse' = [reverse EXCEPT ![c] = NULL]
      /\ uart' = [uart EXCEPT ![c] = <<>>]
      /\ heard' = [heard EXCEPT ![c] = <<>>]
      /\ UNCHANGED <<conn_mode, telnet_state>>
  BY DEF Forget, FreeSlotOf
<1>2. \A d \in Conns : d # c =>
        /\ link'[d] = link[d] /\ reverse'[d] = reverse[d]
        /\ uart'[d] = uart[d] /\ heard'[d] = heard[d]
  BY <1>1 DEF TypeOK
<1>3. link'[c] = "free" /\ uart'[c] = <<>> /\ heard'[c] = <<>>
  BY <1>1 DEF TypeOK
<1>4. ASSUME NEW d \in Conns, link'[d] # "free" PROVE Remembers(d)'
  <2>1. d # c
    BY <1>3, <1>4
  <2> QED BY <1>1, <1>2, <1>4, <2>1 DEF ReceivedInv, Remembers
<1>5. \A d \in Conns : link'[d] = "free" => heard'[d] = <<>>
  BY <1>2, <1>3 DEF ReceivedInv
<1>6. ASSUME NEW d \in Conns
      PROVE  /\ uart'[d] = DecodedAs(heard'[d])
             /\ ModeOf(heard'[d]) = "cmTelnet" => StartsTelnet(FlattenSeq(heard'[d]))
  <2>1. CASE d = c
    BY <1>3, <2>1 DEF DecodedAs, ModeOf
  <2>2. CASE d # c
    BY <1>2, <2>2 DEF ReceivedInv, AllDecoded, BeginsWithFirst
  <2> QED BY <2>1, <2>2
<1>7. \A d \in Conns : /\ DecodedAs(heard'[d]) = DecodedAs(heard[d])'
                       /\ ModeOf(heard'[d]) = ModeOf(heard[d])'
  BY DEF DecodedAs, ModeOf
<1>8. AllDecoded' /\ BeginsWithFirst'
  BY <1>6, <1>7 DEF AllDecoded, BeginsWithFirst
<1> QED BY <1>4, <1>5, <1>8 DEF ReceivedInv

LEMMA PeerEndsReceived ==
  ASSUME PoolInv, TypeOK, ReceivedInv, NEW c \in Conns, PeerEnds(c)
  PROVE  ReceivedInv'
<1>1. PICK l \in {"closing", "broken"} : link' = [link EXCEPT ![c] = l]
  BY DEF PeerEnds
<1>2. link[c] = "open" /\ UNCHANGED <<reverse, conn_mode, telnet_state, uart, heard>>
  BY DEF PeerEnds, pool, history
<1>3. \A d \in Conns : link'[d] = "free" <=> link[d] = "free"
  BY <1>1, <1>2 DEF TypeOK
<1>4. \A d \in Conns : Remembers(d)' <=> Remembers(d)
  BY <1>2 DEF Remembers
<1>5. AllDecoded' /\ BeginsWithFirst'
  BY <1>2, HeardUntouched DEF ReceivedInv
<1> QED BY <1>2, <1>3, <1>4, <1>5 DEF ReceivedInv

LEMMA ReceivedUntouched ==
  ASSUME ReceivedInv, UNCHANGED <<link, reverse, conn_mode, telnet_state, uart, heard>>
  PROVE  ReceivedInv'
<1>1. \A d \in Conns : Remembers(d)' <=> Remembers(d)
  BY DEF Remembers
<1>2. AllDecoded' /\ BeginsWithFirst'
  BY HeardUntouched DEF ReceivedInv
<1> QED BY <1>1, <1>2 DEF ReceivedInv

LEMMA NextReceived ==
  ASSUME PoolInv, TypeOK, ReceivedInv, [Next]_vars
  PROVE  ReceivedInv'
<1>1. ASSUME UNCHANGED vars PROVE ReceivedInv'
  BY <1>1, ReceivedUntouched DEF vars, pool, history
<1>2. ASSUME NEW c \in Conns, Stack(c) PROVE ReceivedInv'
  <2>1. CASE serbridgeConnectCb(c)
    BY <2>1, ConnectReceived
  <2>2. CASE serbridgeConnectCbOverflow(c)
    BY <1>1, <2>2 DEF serbridgeConnectCbOverflow
  <2>3. CASE PeerEnds(c)
    BY <2>3, PeerEndsReceived
  <2>4. CASE serbridgeDisconCb(c) \/ serbridgeReconCb(c)
    BY <2>4, CloseReceived DEF serbridgeDisconCb, serbridgeReconCb
  <2>5. CASE serbridgeSentCb(c)
    BY <2>5, ReceivedUntouched DEF serbridgeSentCb
  <2>6. ASSUME NEW packet \in Packets, serbridgeRecvCb(c, packet) PROVE ReceivedInv'
    BY <2>6, RecvReceived
  <2> QED BY <1>2, <2>1, <2>2, <2>3, <2>4, <2>5, <2>6 DEF Stack
<1>3. ASSUME NEW len \in Lens, serbridgeUartCb(len) PROVE ReceivedInv'
  BY <1>3, ReceivedUntouched DEF serbridgeUartCb
<1> QED BY <1>1, <1>2, <1>3 DEF Next

\* The mode is the first packet's: what TCP cut of the negotiation decides it.
LEMMA FirstPacketDecides ==
  ASSUME TypeOK, ReceivedInv PROVE ReceivedAlone
<1> SUFFICES ASSUME NEW c \in Conns
             PROVE  /\ FirstTogether(heard[c]) => uart[c] = Decoded(FlattenSeq(heard[c]))
                    /\ ~FirstTogether(heard[c]) => uart[c] = Raw(FlattenSeq(heard[c]))
  BY DEF ReceivedAlone
<1> DEFINE h == heard[c]
           bytes == FlattenSeq(h)
<1>1. /\ uart[c] = DecodedAs(h)
      /\ ModeOf(h) = "cmTelnet" => StartsTelnet(bytes)
  BY DEF ReceivedInv, AllDecoded, BeginsWithFirst
<1>2. h \in Seq(Seq(Chars))
  <2>1. h \in Seq(Packets) /\ Packets \subseteq Seq(Chars)
    BY BridgeAssumption DEF TypeOK
  <2> QED BY <2>1
<1> HIDE DEF h
<1>3. CASE h = <<>>
  <2>1. bytes = <<>>
    BY <1>2, <1>3, PacketsOneMore, EmptySeq DEF Chars
  <2>2. ~StartsTelnet(<<>>)
    BY DEF StartsTelnet, IsPrefix
  <2>3. Raw(<<>>) = <<>>
    BY RawType, EmptySeq
  <2> QED BY <1>1, <1>3, <2>1, <2>2, <2>3 DEF DecodedAs, FirstTogether, Decoded, h
<1>4. CASE h # <<>> /\ StartsTelnet(h[1])
  BY <1>1, <1>4 DEF DecodedAs, ModeOf, FirstTogether, Decoded, h
<1>5. CASE h # <<>> /\ ~StartsTelnet(h[1])
  BY <1>1, <1>5 DEF DecodedAs, ModeOf, FirstTogether, Decoded, h
<1> QED BY <1>3, <1>4, <1>5

\* serbridge.c:54-172: what a client's packets turn into on the UART and the
\* pins is what its bytes, taken as one buffer, turn into, whatever other
\* clients send and whoever had its slot before, unless TCP cut the negotiation
\* the client began with (serbridge.c:143-149); then they are passed on as they
\* are.
THEOREM ClientsAreDecodedAlone == Spec => []ReceivedAlone
<1>1. Init => TypeOK /\ ReceivedInv
  BY InitType, InitReceived
<1>2. PoolInv /\ (TypeOK /\ ReceivedInv) /\ [Next]_vars => (TypeOK /\ ReceivedInv)'
  BY NextType, NextReceived
<1>3. TypeOK /\ ReceivedInv => ReceivedAlone
  BY FirstPacketDecides
<1> QED BY <1>1, <1>2, <1>3, PoolInvariant, PTL DEF Spec

-----------------------------------------------------------------------------
(***************************************************************************)
(* Nothing waits alone.  That a buffer is emptied in the end (Drained) is  *)
(* TLC's to check; that there is always somebody to empty it is not a      *)
(* matter of fairness.                                                     *)
(***************************************************************************)
\* A slot that is ready has nothing to send, and one that is not has a send
\* under way, whose sent callback will see to the buffer; while the connection
\* is up and espconn_sent has refused it nothing.
Tended(i) ==
    conn[i] # NULL /\ link[conn[i]] = "open" /\ conn[i] \notin failed =>
        IF readytosend[i] THEN txbuffer[i] = <<>> ELSE flight[conn[i]] # NULL

TendedInv == \A i \in Slots : Tended(i)

\* Nothing happens to slot i and its connection.
LEMMA TendedStay ==
  ASSUME NEW i \in Slots, Tended(i), conn'[i] = conn[i], txbuffer'[i] = txbuffer[i],
         readytosend'[i] = readytosend[i],
         conn[i] # NULL /\ link'[conn[i]] = "open" /\ conn[i] \notin failed'
             => /\ link[conn[i]] = "open" /\ conn[i] \notin failed
                /\ flight'[conn[i]] = flight[conn[i]]
  PROVE  Tended(i)'
  BY DEF Tended

\* A slot is prepared for a new connection: it is ready and its buffer empty.
LEMMA ConnectTended ==
  ASSUME PoolInv, TypeOK, TendedInv, NEW c \in Conns, serbridgeConnectCb(c)
  PROVE  TendedInv'
<1>1. PICK i \in Slots : /\ conn[i] = NULL
                         /\ conn' = [conn EXCEPT ![i] = c]
                         /\ readytosend' = [readytosend EXCEPT ![i] = TRUE]
                         /\ txbuffer' = [txbuffer EXCEPT ![i] = <<>>]
  BY DEF serbridgeConnectCb, FreeSlots, Prepared
<1>2. /\ link[c] = "free" /\ link' = [link EXCEPT ![c] = "open"]
      /\ flight' = flight /\ failed' = failed
  BY DEF serbridgeConnectCb
<1>3. Tended(i)'
  BY <1>1 DEF Tended, TypeOK
<1>4. ASSUME NEW j \in Slots, j # i PROVE Tended(j)'
  <2>1. /\ conn'[j] = conn[j] /\ txbuffer'[j] = txbuffer[j]
        /\ readytosend'[j] = readytosend[j] /\ Tended(j)
    BY <1>1, <1>4 DEF TypeOK, TendedInv
  <2>2. conn[j] # NULL => conn[j] \in Conns /\ conn[j] # c
    BY <1>2 DEF PoolInv, SlotTypes, SlotOwnership, Live
  <2> QED BY <1>2, <2>1, <2>2, TendedStay DEF TypeOK
<1> QED BY <1>3, <1>4 DEF TendedInv

\* A connection that ends, or has ended, is nobody's to tend.
LEMMA EndTended ==
  ASSUME PoolInv, TypeOK, TendedInv, NEW c \in Conns,
         PeerEnds(c) \/ serbridgeDisconCb(c) \/ serbridgeReconCb(c)
  PROVE  TendedInv'
<1>1. ASSUME PeerEnds(c) PROVE TendedInv'
  <2>1. PICK l \in {"closing", "broken"} : link' = [link EXCEPT ![c] = l]
    BY <1>1 DEF PeerEnds
  <2>2. UNCHANGED <<conn, txbuffer, readytosend, flight, failed>>
    BY <1>1 DEF PeerEnds, pool, history
  <2>3. \A d \in Conns : link'[d] = "open" => link[d] = "open"
    BY <2>1 DEF TypeOK
  <2>4. ASSUME NEW j \in Slots PROVE Tended(j)'
    <3>1. conn[j] # NULL => conn[j] \in Conns
      BY DEF TypeOK
    <3>2. Tended(j)
      BY DEF TendedInv
    <3> QED BY <2>2, <2>3, <3>1, <3>2, TendedStay
  <2> QED BY <2>4 DEF TendedInv
<1>2. ASSUME link[c] # "free", FreeSlotOf(c), Forget(c) PROVE TendedInv'
  <2>1. PICK i \in Slots : i = reverse[c] /\ conn[i] = c
    BY <1>2, OwnSlot
  <2>2. /\ conn' = [conn EXCEPT ![i] = NULL]
        /\ UNCHANGED <<txbuffer, readytosend>>
        /\ link' = [link EXCEPT ![c] = "free"]
        /\ flight' = [flight EXCEPT ![c] = NULL]
        /\ failed' = failed \ {c}
    BY <1>2, <2>1 DEF FreeSlotOf, Forget
  <2>3. Tended(i)'
    <3>1. conn'[i] = NULL
      BY <2>1, <2>2 DEF TypeOK
    <3> QED BY <3>1 DEF Tended
  <2>4. ASSUME NEW j \in Slots, j # i PROVE Tended(j)'
    <3>1. conn'[j] = conn[j] /\ Tended(j)
      BY <2>2, <2>4 DEF TypeOK, TendedInv
    <3>2. conn[j] # NULL => conn[j] \in Conns /\ conn[j] # c
      BY <2>1, <2>4 DEF PoolInv, SlotTypes, SlotOwnership
    <3>3. conn[j] # NULL => /\ link'[conn[j]] = link[conn[j]]
                            /\ flight'[conn[j]] = flight[conn[j]]
                            /\ (conn[j] \in failed' <=> conn[j] \in failed)
      BY <2>2, <3>2 DEF PoolInv, SlotTypes
    <3>4. conn[j] # NULL /\ link'[conn[j]] = "open" /\ conn[j] \notin failed'
              => /\ link[conn[j]] = "open" /\ conn[j] \notin failed
                 /\ flight'[conn[j]] = flight[conn[j]]
      BY <3>3
    <3>5. txbuffer'[j] = txbuffer[j] /\ readytosend'[j] = readytosend[j]
      BY <2>2
    <3> QED BY <3>1, <3>4, <3>5 DEF Tended
  <2> QED BY <2>3, <2>4 DEF TendedInv
<1> QED BY <1>1, <1>2 DEF serbridgeDisconCb, serbridgeReconCb

\* A telegram goes out at once where the slot is ready, and behind the send that
\* is under way where it is not.
LEMMA UartTended ==
  ASSUME PoolInv, TypeOK, TendedInv, NEW len \in Lens, serbridgeUartCb(len)
  PROVE  TendedInv'
<1> USE NullIsNoSlot
<1> DEFINE added == {i \in Receivers : Room(i, len)}
           sent == ReadySlots(added)
           tx(i) == txbuffer[i] \o Telegram(Len(msgs) + 1, len)
<1>1. /\ added \subseteq Slots /\ sent = {i \in added : readytosend[i]}
      /\ \A i \in added : conn[i] \in Conns
  BY DEF ReadySlots, Receivers, TypeOK
<1>2. PICK refused \in Refusals(sent) :
          /\ failed' = failed \cup {conn[i] : i \in refused}
          /\ flight' = [c \in Conns |->
               IF \E i \in sent \ refused : conn[i] = c
               THEN tx(CHOOSE j \in sent \ refused : conn[j] = c)
               ELSE flight[c]]
  BY DEF serbridgeUartCb, tx, sent, added
<1>3. /\ readytosend' = [i \in Slots |-> readytosend[i] /\ i \notin sent]
      /\ link' = link /\ conn' = conn
  BY DEF serbridgeUartCb, sent, added
<1>7. \A i \in Slots : i \notin added => txbuffer'[i] = txbuffer[i]
  <2>1. txbuffer' = [i \in Slots |->
           CASE i \in sent -> <<>>
             [] i \in added \ sent -> tx(i)
             [] OTHER -> txbuffer[i]]
    BY DEF serbridgeUartCb, sent, added, tx
  <2> HIDE DEF sent, added, tx
  <2> QED BY <1>1, <2>1
<1>4. ASSUME NEW i \in Slots PROVE tx(i) # NULL
  <2>1. Telegram(Len(msgs) + 1, len) \in Seq(Byte)
    <3>1. Len(msgs) + 1 \in Nat
      BY LenProperties DEF TypeOK
    <3>2. len \in Nat
      BY BridgeAssumption
    <3> QED BY <3>1, <3>2, TelegramType
  <2>2. txbuffer[i] \in Seq(Byte)
    BY DEF TypeOK
  <2>3. tx(i) \in Seq(Byte)
    BY <2>1, <2>2, ConcatProperties
  <2> QED BY <2>3, FlightAssumption
<1>5. \A c \in Conns : flight[c] # NULL => flight'[c] = flight[c]
  BY UartKeepsPool
<1> HIDE DEF sent, added, tx
<1>6. ASSUME NEW i \in Slots PROVE Tended(i)'
  <2> SUFFICES ASSUME conn[i] # NULL, link[conn[i]] = "open", conn[i] \notin failed'
               PROVE  IF readytosend'[i] THEN txbuffer'[i] = <<>>
                                         ELSE flight'[conn[i]] # NULL
    BY <1>3 DEF Tended
  <2>1. /\ conn[i] \in Conns /\ readytosend[i] \in BOOLEAN
        /\ IF readytosend[i] THEN txbuffer[i] = <<>> ELSE flight[conn[i]] # NULL
    BY <1>2 DEF TypeOK, TendedInv, Tended
  <2>2. CASE ~readytosend[i]
    BY <1>3, <1>5, <2>1, <2>2
  <2>3. CASE readytosend[i] /\ i \notin added
    BY <1>1, <1>3, <1>7, <2>1, <2>3
  <2>4. CASE readytosend[i] /\ i \in added
    <3>1. i \in sent \ refused
      BY <1>1, <1>2, <2>4
    <3>2. PICK j \in sent \ refused : flight'[conn[i]] = tx(j)
      BY <1>2, <2>1, <3>1
    <3>3. flight'[conn[i]] # NULL
      BY <1>1, <1>4, <3>2
    <3> QED BY <1>3, <3>1, <3>3
  <2> QED BY <2>1, <2>2, <2>3, <2>4
<1> QED BY <1>6 DEF TendedInv

\* The sent callback sends what came meanwhile, or makes the slot ready.
LEMMA SentTended ==
  ASSUME PoolInv, TypeOK, TendedInv, NEW c \in Conns, serbridgeSentCb(c)
  PROVE  TendedInv'
<1> USE NullIsNoSlot
<1>1. link[c] # "free"
  BY DEF serbridgeSentCb
<1>2. PICK i \in Slots : i = reverse[c] /\ conn[i] = c
  BY <1>1, OwnSlot
<1> DEFINE more == MoreToSend(i)
<1>3. PICK refused \in Refusals(more) :
          /\ failed' = failed \cup {conn[j] : j \in refused}
          /\ flight' = [d \in Conns |->
               IF more \ refused # {} /\ conn[i] = d THEN txbuffer[i]
               ELSE IF c = d THEN NULL ELSE flight[d]]
  BY <1>2 DEF serbridgeSentCb
<1>4. /\ readytosend' = [readytosend EXCEPT ![i] = more = {}]
      /\ txbuffer' = [txbuffer EXCEPT ![i] = IF more = {} THEN txbuffer[i] ELSE <<>>]
      /\ UNCHANGED <<link, conn>>
  BY <1>2 DEF serbridgeSentCb
<1>5. more = IF txbuffer[i] = <<>> THEN {} ELSE {i}
  BY DEF MoreToSend
<1> HIDE DEF more
<1>6. Tended(i)'
  <2>1. CASE more = {}
    <3>1. txbuffer[i] = <<>>
      BY <1>5, <2>1
    <3>2. txbuffer'[i] = <<>>
      BY <1>2, <1>4, <2>1, <3>1 DEF TypeOK
    <3>3. readytosend'[i] = (more = {})
      BY <1>2, <1>4 DEF TypeOK
    <3> QED BY <2>1, <3>2, <3>3 DEF Tended
  <2>2. CASE more # {}
    <3>1. c \notin failed' => more \ refused # {}
      BY <1>2, <1>3, <1>5, <2>2
    <3>2. txbuffer[i] # NULL
      BY <1>2, FlightAssumption DEF TypeOK
    <3>3. c \notin failed' => flight'[c] # NULL
      BY <1>2, <1>3, <3>1, <3>2
    <3>4. readytosend'[i] = (more = {}) /\ conn'[i] = c
      BY <1>2, <1>4 DEF TypeOK
    <3> QED BY <2>2, <3>3, <3>4 DEF Tended
  <2> QED BY <2>1, <2>2
<1>7. ASSUME NEW j \in Slots, j # i PROVE Tended(j)'
  <2>1. /\ conn'[j] = conn[j] /\ txbuffer'[j] = txbuffer[j]
        /\ readytosend'[j] = readytosend[j] /\ Tended(j)
    BY <1>4, <1>7 DEF TypeOK, TendedInv
  <2>2. conn[j] # NULL => conn[j] \in Conns /\ conn[j] # c
    BY <1>2, <1>7 DEF PoolInv, SlotTypes, SlotOwnership
  <2>3. conn[j] # NULL => flight'[conn[j]] = flight[conn[j]]
    BY <1>2, <1>3, <2>2
  <2>4. conn[j] # NULL /\ link'[conn[j]] = "open" /\ conn[j] \notin failed'
            => /\ link[conn[j]] = "open" /\ conn[j] \notin failed
               /\ flight'[conn[j]] = flight[conn[j]]
    BY <1>3, <1>4, <2>3
  <2> QED BY <2>1, <2>4 DEF Tended
<1> QED BY <1>6, <1>7 DEF TendedInv

LEMMA TendedUntouched ==
  ASSUME TendedInv, UNCHANGED <<link, flight, conn, txbuffer, readytosend, failed>>
  PROVE  TendedInv'
  BY DEF TendedInv, Tended

LEMMA NextTended ==
  ASSUME PoolInv, TypeOK, TendedInv, [Next]_vars
  PROVE  TendedInv'
<1>1. ASSUME UNCHANGED vars PROVE TendedInv'
  BY <1>1, TendedUntouched DEF vars, pool, history
<1>2. ASSUME NEW c \in Conns, Stack(c) PROVE TendedInv'
  <2>1. CASE serbridgeConnectCbOverflow(c)
    BY <1>1, <2>1 DEF serbridgeConnectCbOverflow
  <2>2. CASE PeerEnds(c) \/ serbridgeDisconCb(c) \/ serbridgeReconCb(c)
    BY <2>2, EndTended
  <2>3. ASSUME NEW packet \in Packets, serbridgeRecvCb(c, packet) PROVE TendedInv'
    BY <2>3, TendedUntouched DEF serbridgeRecvCb
  <2> QED BY <1>2, <2>1, <2>2, <2>3, ConnectTended, SentTended DEF Stack
<1>3. ASSUME NEW len \in Lens, serbridgeUartCb(len) PROVE TendedInv'
  BY <1>3, UartTended
<1> QED BY <1>1, <1>2, <1>3 DEF Next

\* serbridge.c:196-226: what waits for an open connection waits behind a send
\* that is under way, so that a sent callback will come for it: no telegram is
\* added to a buffer that nobody will look at.
THEOREM NothingWaitsAlone ==
    Spec => [](\A c \in Conns : link[c] = "open" /\ c \notin failed /\ flight[c] = NULL
                                    => txbuffer[reverse[c]] = <<>>)
<1> DEFINE Goal == \A c \in Conns :
                     link[c] = "open" /\ c \notin failed /\ flight[c] = NULL
                         => txbuffer[reverse[c]] = <<>>
<1>1. Init => PoolInv /\ TypeOK /\ TendedInv
  <2>1. Init => TendedInv
    BY DEF Init, TendedInv, Tended
  <2> QED BY <2>1, InitPoolInv, InitType
<1>2. PoolInv /\ TypeOK /\ TendedInv /\ [Next]_vars => (PoolInv /\ TypeOK /\ TendedInv)'
  BY NextPoolInv, NextType, NextTended
<1>3. PoolInv /\ TypeOK /\ TendedInv => Goal
  <2> SUFFICES ASSUME PoolInv, TypeOK, TendedInv, NEW c \in Conns,
                      link[c] = "open", c \notin failed, flight[c] = NULL
               PROVE  txbuffer[reverse[c]] = <<>>
    OBVIOUS
  <2>1. reverse[c] \in Slots /\ conn[reverse[c]] = c
    BY OwnSlot
  <2> QED BY <2>1, NullIsNoSlot DEF TendedInv, Tended
<1> QED BY <1>1, <1>2, <1>3, PTL DEF Spec
=============================================================================
